----------------------------- MODULE EventPoller -----------------------------
(***************************************************************************)
(* The polling indexer (EventIndexerService in                             *)
(* src/src/modules/blockchain-indexer/services/event-indexer.service.ts):  *)
(* a cycle reads last_cursor, fetches a page of transactions, stores and   *)
(* publishes the events of each, and moves last_cursor and                 *)
(* last_indexed_ledger past the page.  The real-time indexer stores the    *)
(* same operations elsewhere and publishes them to the same Redis channel. *)
(*                                                                         *)
(* Transactions are numbered in the order of Horizon; a transaction has    *)
(* one relevant operation, and a ledger of its own.                        *)
(***************************************************************************)
EXTENDS Integers

CONSTANTS
    MaxTx,      \* bound on the transactions that appear
    Failed,     \* the transactions that did not succeed on the chain
    PageLimit,  \* pageLimit
    FetchFails, \* whether the operations of a transaction may be unavailable
    MaxErrors,  \* bound on the errors that end a cycle
    MaxCrashes  \* bound on the ends of the process

ASSUME PollerAssumption ==
    /\ MaxTx \in Nat /\ PageLimit \in Nat \ {0}
    /\ MaxErrors \in Nat /\ MaxCrashes \in Nat
    /\ Failed \subseteq 1..MaxTx
    /\ FetchFails \in BOOLEAN

VARIABLES
    chain,          \* the transactions that exist are 1..chain
    lastCursor,     \* last_cursor in indexer_state
    lastLedger,     \* last_indexed_ledger in indexer_state
    rows,           \* the transactions whose event is in blockchain_events
    published,      \* how often the event of a transaction was published
    missed,         \* the transactions whose operations could not be fetched
    pc,             \* where the cycle is; "idle" when indexing is false
    at,             \* the transaction the cycle works on
    pageEnd,        \* the last transaction of the page
    timer,          \* the interval: "unset", "set" or "cleared"
    shuttingDown,   \* shuttingDown
    streamed,       \* the transactions the real-time indexer has published
    errors, crashes,
    wasClosed       \* history: whether the application was ever closed in an orderly way

pollerVars == <<chain, lastCursor, lastLedger, rows, published, missed, pc, at, pageEnd,
                timer, shuttingDown, streamed, errors, crashes, wasClosed>>

stored == <<lastCursor, lastLedger, rows>>
world == <<chain, streamed, errors, crashes, wasClosed>>

Txs == 1..MaxTx

Least(a, b) == IF a <= b THEN a ELSE b

PollerInit ==
    /\ chain = 0 /\ lastCursor = 0 /\ lastLedger = 0
    /\ rows = {} /\ published = [t \in Txs |-> 0] /\ missed = {} /\ streamed = {}
    /\ pc = "cursor" /\ at = 0 /\ pageEnd = 0
    /\ timer = "unset" /\ shuttingDown = FALSE
    /\ errors = 0 /\ crashes = 0 /\ wasClosed = FALSE

----------------------------------------------------------------------------
(* The cycle *)

\* The interval fires: indexNewEvents unless a cycle runs.
Tick ==
    /\ timer = "set" /\ ~shuttingDown
    /\ pc = "idle"
    /\ pc' = "cursor"
    /\ UNCHANGED <<stored, published, missed, at, pageEnd, timer, shuttingDown, world>>

\* The end of indexNewEvents; the first call is awaited by start, which then
\* sets the interval.
EndCycle ==
    /\ pc' = "idle"
    /\ timer' = IF timer = "unset" THEN "set" ELSE timer

\* indexNewEvents: read last_cursor.
GetLastCursor ==
    /\ pc = "cursor"
    /\ pc' = "fetch"
    /\ at' = lastCursor
    /\ UNCHANGED <<stored, published, missed, pageEnd, timer, shuttingDown, world>>

\* The page after the cursor: none, or the next PageLimit transactions.
GetTransactionsSinceCursor ==
    /\ pc = "fetch"
    /\ \/ /\ at = chain
          /\ EndCycle
          /\ UNCHANGED <<at, pageEnd>>
       \/ /\ at < chain
          /\ pageEnd' = Least(chain, at + PageLimit)
          /\ at' = at + 1
          /\ pc' = "transaction"
          /\ UNCHANGED timer
    /\ UNCHANGED <<stored, published, missed, shuttingDown, world>>

\* On to the next transaction of the page.
NextTransaction ==
    /\ pc' = IF at < pageEnd THEN "transaction" ELSE "setCursor"
    /\ at' = at + 1

\* The loop body up to the insert: a shutdown ends the loop, a failed
\* transaction has no events, and one whose operations cannot be fetched is
\* left out.
ProcessTransaction ==
    /\ pc = "transaction"
    /\ \/ /\ shuttingDown
          /\ pc' = "setCursor"
          /\ UNCHANGED <<at, missed>>
       \/ /\ ~shuttingDown /\ at \in Failed
          /\ NextTransaction
          /\ UNCHANGED missed
       \/ /\ ~shuttingDown /\ at \notin Failed
          /\ pc' = "insert"
          /\ UNCHANGED <<at, missed>>
       \/ /\ ~shuttingDown /\ at \notin Failed
          /\ FetchFails
          /\ missed' = missed \cup {at}
          /\ NextTransaction
    /\ UNCHANGED <<stored, published, pageEnd, timer, shuttingDown, world>>

\* Mutant: events that were there already are published again.
PersistAndPublishAll ==
    /\ pc = "insert"
    /\ rows' = rows \cup {at}
    /\ pc' = "publish"
    /\ UNCHANGED <<lastCursor, lastLedger, published, missed, at, pageEnd, timer,
                   shuttingDown, world>>

\* deduplicateAndPersist: insert ... on conflict do nothing, returning the rows
\* that are new; only those are published.
DeduplicateAndPersist ==
    /\ pc = "insert"
    /\ rows' = rows \cup {at}
    /\ \/ /\ at \notin rows
          /\ pc' = "publish"
          /\ UNCHANGED at
       \/ /\ at \in rows
          /\ NextTransaction
    /\ UNCHANGED <<lastCursor, lastLedger, published, missed, pageEnd, timer,
                   shuttingDown, world>>

\* streamService.publish, which swallows an error of Redis.
Publish ==
    /\ pc = "publish"
    /\ \/ published' = [published EXCEPT ![at] = @ + 1]
       \/ UNCHANGED published
    /\ NextTransaction
    /\ UNCHANGED <<stored, missed, pageEnd, timer, shuttingDown, world>>

\* Mutant: the cursor moves one transaction too far.
CursorPastPage ==
    /\ pc = "setCursor"
    /\ lastCursor' = Least(chain, pageEnd + 1)
    /\ pc' = "getLedger"
    /\ UNCHANGED <<lastLedger, rows, published, missed, at, pageEnd, timer,
                   shuttingDown, world>>

\* setLastCursor of the page's last transaction.
SetLastCursor ==
    /\ pc = "setCursor"
    /\ lastCursor' = pageEnd
    /\ pc' = "getLedger"
    /\ UNCHANGED <<lastLedger, rows, published, missed, at, pageEnd, timer,
                   shuttingDown, world>>

\* getLedger and setLastIndexedLedger, the end of the cycle.
SetLastIndexedLedger ==
    /\ pc = "getLedger"
    /\ lastLedger' = pageEnd
    /\ EndCycle
    /\ UNCHANGED <<lastCursor, rows, published, missed, at, pageEnd, shuttingDown, world>>

\* Mutant: indexing is not reset after an error.
FailureKeepsIndexing ==
    /\ errors < MaxErrors
    /\ pc \in {"cursor", "fetch", "insert", "setCursor", "getLedger"}
    /\ pc' = "stuck"
    /\ timer' = IF timer = "unset" THEN "set" ELSE timer
    /\ errors' = errors + 1
    /\ UNCHANGED <<stored, published, missed, at, pageEnd, shuttingDown, chain,
                   streamed, crashes, wasClosed>>

\* A request or statement of the cycle fails: logged, retried by the next cycle.
CycleFails ==
    /\ errors < MaxErrors
    /\ pc \in {"cursor", "fetch", "insert", "setCursor", "getLedger"}
    /\ EndCycle
    /\ errors' = errors + 1
    /\ UNCHANGED <<stored, published, missed, at, pageEnd, shuttingDown, chain,
                   streamed, crashes, wasClosed>>

----------------------------------------------------------------------------
(* The application and the network *)

\* stop, from onModuleDestroy: the cycle in progress goes on.
StopPoller ==
    /\ ~shuttingDown
    /\ shuttingDown' = TRUE
    /\ wasClosed' = TRUE
    /\ timer' = IF timer = "set" THEN "cleared" ELSE timer
    /\ UNCHANGED <<stored, published, missed, pc, at, pageEnd, chain, streamed,
                   errors, crashes>>

\* The process ends anywhere and starts again with what the tables hold.
Restart ==
    /\ crashes < MaxCrashes
    /\ crashes' = crashes + 1
    /\ pc' = "cursor" /\ at' = 0 /\ pageEnd' = 0
    /\ timer' = "unset" /\ shuttingDown' = FALSE
    /\ UNCHANGED <<stored, published, missed, chain, streamed, errors, wasClosed>>

\* A transaction is included in a ledger.
Submit ==
    /\ chain < MaxTx
    /\ chain' = chain + 1
    /\ UNCHANGED <<stored, published, missed, pc, at, pageEnd, timer, shuttingDown,
                   streamed, errors, crashes, wasClosed>>

\* persistAndDistribute of the real-time indexer publishes the same operation
\* to the same channel.
RealTimePublish(t) ==
    /\ t <= chain /\ t \notin Failed \cup streamed
    /\ streamed' = streamed \cup {t}
    /\ published' = [published EXCEPT ![t] = @ + 1]
    /\ UNCHANGED <<stored, missed, pc, at, pageEnd, timer, shuttingDown, chain,
                   errors, crashes, wasClosed>>

----------------------------------------------------------------------------
Cycle ==
    \/ GetLastCursor
    \/ GetTransactionsSinceCursor
    \/ ProcessTransaction
    \/ DeduplicateAndPersist
    \/ Publish
    \/ SetLastCursor
    \/ SetLastIndexedLedger

PollerNext ==
    \/ Tick \/ Cycle \/ CycleFails
    \/ StopPoller \/ Restart \/ Submit
    \/ \E t \in Txs : RealTimePublish(t)

PollerSpec == PollerInit /\ [][PollerNext]_pollerVars

\* The interval goes on firing, and Horizon and the database answer in the end.
FairPollerSpec == PollerSpec /\ WF_pollerVars(Tick) /\ WF_pollerVars(Cycle)

----------------------------------------------------------------------------
(* Properties *)

PollerTypeOK ==
    /\ chain \in 0..MaxTx /\ lastCursor \in 0..chain /\ lastLedger \in 0..chain
    /\ rows \subseteq 1..chain \ Failed
    /\ missed \subseteq 1..chain /\ streamed \subseteq 1..chain
    /\ published \in [Txs -> 0..2]
    /\ pc \in {"idle", "cursor", "fetch", "transaction", "insert", "publish",
               "setCursor", "getLedger"}
    /\ at \in 0..chain + 1 /\ pageEnd \in 0..chain
    /\ timer \in {"unset", "set", "cleared"} /\ shuttingDown \in BOOLEAN
    /\ errors \in 0..MaxErrors /\ crashes \in 0..MaxCrashes /\ wasClosed \in BOOLEAN

\* last_cursor never passes a transaction whose event is not stored, whatever
\* fails and wherever the process ends, unless the application was closed in the
\* middle of a page (a transaction whose operations could not be fetched aside:
\* the code gives it up).
NothingSkipped == ~wasClosed => \A t \in (1..lastCursor) \ Failed : t \in rows \cup missed

\* The poller publishes an event at most once, over all replays ("keeps stream
\* delivery free of duplicate events"); the real-time indexer may add one more.
PublishedOnce == \A t \in Txs : published[t] <= IF t \in streamed THEN 2 ELSE 1

\* Reorg detection never looks at a ledger beyond the cursor: the ledger
\* recorded as indexed was reached by the poller first.
LedgerBehindCursor == lastLedger <= lastCursor

\* Every transaction that appears is stored or given up in the end, unless the
\* application is closed.
EveryTransactionIndexed ==
    \A t \in Txs \ Failed : chain >= t ~> (t \in rows \cup missed \/ wasClosed)
=============================================================================
