---------------------------- MODULE ReorgHandler ----------------------------
(***************************************************************************)
(* Detection of and recovery from ledger reorganizations                   *)
(* (src/src/modules/blockchain-indexer/services/reorg-handler.service.ts), *)
(* beside the real-time indexer that goes on indexing.                     *)
(*                                                                         *)
(* Both write the same row of indexer_state, last_indexed_ledger with the  *)
(* ledger's hash, and share the queue of BatchedPersistenceService.  A     *)
(* check runs as an async function and interleaves with the indexer at     *)
(* every await.                                                            *)
(*                                                                         *)
(* A ledger has one event.  Its hash, and the event, are told apart by the *)
(* number of reorganizations that had happened when it closed.             *)
(***************************************************************************)
EXTENDS Integers, FiniteSets, Sequences

CONSTANTS
    MaxLedger,          \* bound on the height of the chain
    MaxReorgs,          \* bound on the reorganizations
    MaxDepth,           \* bound on the ledgers one of them replaces
    MaxBackfillLedgers  \* maxBackfillLedgers

Hash == 0..MaxReorgs
NoHash == -1
Event == [ledger : 1..MaxLedger, hash : Hash]

VARIABLES
    chain,      \* Horizon: the hash of every ledger
    forks,      \* how many reorganizations there were
    valid,      \* rows of indexed_events with invalidated = false
    last,       \* last_indexed_ledger and its hash
    pending,    \* the queue of BatchedPersistenceService
    stream,     \* the last ledger delivered, and its handler
    check,      \* the reorg check in progress
    disturbed   \* history: whether anything failed, or a check met a ledger's handler

vars == <<chain, forks, valid, last, pending, stream, check, disturbed>>

NoCheck == [pc |-> "idle", current |-> 0, fork |-> 0, from |-> 0, to |-> 0, forks |-> 0]

Init ==
    /\ chain = <<>>
    /\ forks = 0
    /\ valid = {}
    /\ last = [ledger |-> 0, hash |-> NoHash]
    /\ pending = {}
    /\ stream = [pc |-> "idle", cursor |-> 0, hash |-> NoHash]
    /\ check = NoCheck
    /\ disturbed = FALSE

Smaller(a, b) == IF a < b THEN a ELSE b
Larger(a, b) == IF a < b THEN b ELSE a

-----------------------------------------------------------------------------
(* The network *)

LedgerCloses ==
    /\ Len(chain) < MaxLedger
    /\ chain' = Append(chain, forks)
    /\ UNCHANGED <<forks, valid, last, pending, stream, check, disturbed>>

\* The last ledgers are replaced, or for now just dropped.
Reorganize ==
    /\ forks < MaxReorgs
    /\ forks' = forks + 1
    /\ \E k \in 1..Smaller(MaxDepth, Len(chain)) : \E dropped \in 0..k :
          chain' = [i \in 1..(Len(chain) - dropped) |->
                        IF i > Len(chain) - k THEN forks + 1 ELSE chain[i]]
    /\ UNCHANGED <<valid, last, pending, stream, check, disturbed>>

Fetched(from, to) == {[ledger |-> l, hash |-> chain[l]] : l \in (from..to) \cap DOMAIN chain}

-----------------------------------------------------------------------------
(* The real-time indexer: handleLedgerClose, one ledger after the other *)

StreamLedger ==
    /\ stream.pc = "idle"
    /\ stream.cursor < Len(chain)
    /\ stream' = [pc |-> "fetch", cursor |-> stream.cursor + 1, hash |-> chain[stream.cursor + 1]]
    /\ disturbed' = (disturbed \/ check.pc # "idle")
    /\ UNCHANGED <<chain, forks, valid, last, pending, check>>

StreamFetch ==
    /\ stream.pc = "fetch"
    /\ pending' = pending \cup Fetched(stream.cursor, stream.cursor)
    /\ stream' = [stream EXCEPT !.pc = "flush"]
    /\ UNCHANGED <<chain, forks, valid, last, check, disturbed>>

StreamFlush ==
    /\ stream.pc = "flush"
    /\ \/ /\ valid' = valid \cup pending
          /\ pending' = {}
          /\ stream' = [stream EXCEPT !.pc = "last"]
          /\ UNCHANGED disturbed
       \/ /\ stream' = [stream EXCEPT !.pc = "idle"]
          /\ disturbed' = TRUE
          /\ UNCHANGED <<valid, pending>>
    /\ UNCHANGED <<chain, forks, last, check>>

StreamSetLast ==
    /\ stream.pc = "last"
    /\ last' = [ledger |-> stream.cursor, hash |-> stream.hash]
    /\ stream' = [stream EXCEPT !.pc = "idle"]
    /\ UNCHANGED <<chain, forks, valid, pending, check, disturbed>>

\* The flush timer.
TimerFlush ==
    /\ pending # {}
    /\ valid' = valid \cup pending
    /\ pending' = {}
    /\ UNCHANGED <<chain, forks, last, stream, check, disturbed>>

-----------------------------------------------------------------------------
(* detectAndHandle *)

\* getLatestLedgerSequence
StartCheck ==
    /\ check.pc = "idle"
    /\ Len(chain) > 0
    /\ check' = [NoCheck EXCEPT !.pc = "compare", !.current = Len(chain), !.forks = forks]
    /\ disturbed' = (disturbed \/ stream.pc # "idle")
    /\ UNCHANGED <<chain, forks, valid, last, pending, stream>>

\* Mutant: the newest ledger is taken for unknown.
OnChainBelowTip(ledger, hash) == ledger < Len(chain) /\ chain[ledger] = hash

\* getLedger(lastIndexedLedger) still has the stored hash.
OnChain(ledger, hash) == ledger <= Len(chain) /\ chain[ledger] = hash

\* The stored ledger is read and compared with Horizon's.
Compare ==
    /\ check.pc = "compare"
    /\ LET gap == check.current - last.ledger
       IN  check' = IF last.ledger = 0 THEN NoCheck
                    ELSE IF last.hash # NoHash /\ ~OnChain(last.ledger, last.hash)
                    THEN [check EXCEPT !.pc = "invalidate", !.fork = last.ledger]
                    ELSE IF gap > MaxBackfillLedgers
                    THEN [check EXCEPT !.pc = "fetch", !.from = last.ledger + 1,
                            !.to = Smaller(check.current, last.ledger + MaxBackfillLedgers)]
                    ELSE NoCheck
    /\ UNCHANGED <<chain, forks, valid, last, pending, stream, disturbed>>

\* Mutant: rows of later ledgers only.
InvalidateLater ==
    /\ check.pc = "invalidate"
    /\ valid' = {row \in valid : row.ledger <= check.fork}
    /\ check' = [check EXCEPT !.pc = "rewind"]
    /\ UNCHANGED <<chain, forks, last, pending, stream, disturbed>>

InvalidateEventsFromLedger ==
    /\ check.pc = "invalidate"
    /\ valid' = {row \in valid : row.ledger < check.fork}
    /\ check' = [check EXCEPT !.pc = "rewind"]
    /\ UNCHANGED <<chain, forks, last, pending, stream, disturbed>>

\* recoverFromReorg: rewind, then backfill what the range has
RecoverFromReorg ==
    /\ check.pc = "rewind"
    /\ last' = [ledger |-> Larger(check.fork - 1, 0), hash |-> NoHash]
    /\ LET to == Smaller(check.current, check.fork + MaxBackfillLedgers - 1)
       IN  check' = IF to < check.fork THEN [check EXCEPT !.pc = "recovered", !.to = to]
                    ELSE [check EXCEPT !.pc = "fetch", !.from = check.fork, !.to = to]
    /\ UNCHANGED <<chain, forks, valid, pending, stream, disturbed>>

\* backfillGap: fetch, queue, flush.  A flush that fails is not noticed.
BackfillFetch ==
    /\ check.pc = "fetch"
    /\ pending' = pending \cup Fetched(check.from, check.to)
    /\ check' = [check EXCEPT !.pc = "flush"]
    /\ UNCHANGED <<chain, forks, valid, last, stream, disturbed>>

BackfillFlush ==
    /\ check.pc = "flush"
    /\ check' = [check EXCEPT !.pc = "last"]
    /\ \/ valid' = valid \cup pending /\ pending' = {} /\ UNCHANGED disturbed
       \/ disturbed' = TRUE /\ UNCHANGED <<valid, pending>>
    /\ UNCHANGED <<chain, forks, last, stream>>

BackfillSetLast ==
    /\ check.pc = "last"
    /\ last' = [ledger |-> check.to,
                hash |-> IF check.to <= Len(chain) THEN chain[check.to] ELSE NoHash]
    /\ check' = [check EXCEPT !.pc = IF check.fork > 0 THEN "recovered" ELSE "backfilled"]
    /\ UNCHANGED <<chain, forks, valid, pending, stream, disturbed>>

\* A request to Horizon or to the database fails: the check ends where it is.
CheckFails ==
    /\ check.pc \in {"compare", "invalidate", "rewind", "fetch", "last"}
    /\ check' = NoCheck
    /\ disturbed' = TRUE
    /\ UNCHANGED <<chain, forks, valid, last, pending, stream>>

EndCheck ==
    /\ check.pc \in {"recovered", "backfilled"}
    /\ check' = NoCheck
    /\ UNCHANGED <<chain, forks, valid, last, pending, stream, disturbed>>

CheckStep == Compare \/ InvalidateEventsFromLedger \/ RecoverFromReorg \/ BackfillFetch
                \/ BackfillFlush \/ BackfillSetLast \/ EndCheck

Next ==
    \/ LedgerCloses \/ Reorganize
    \/ StreamLedger \/ StreamFetch \/ StreamFlush \/ StreamSetLast \/ TimerFlush
    \/ StartCheck \/ CheckStep \/ CheckFails

Spec == Init /\ [][Next]_vars

-----------------------------------------------------------------------------
(* Properties *)

\* Every variable has its type.
TypeOK ==
    /\ chain \in Seq(Hash) /\ Len(chain) <= MaxLedger
    /\ forks \in 0..MaxReorgs
    /\ valid \subseteq Event /\ pending \subseteq Event
    /\ last \in [ledger : 0..MaxLedger, hash : Hash \cup {NoHash}]
    /\ stream \in [pc : {"idle", "fetch", "flush", "last"}, cursor : 0..MaxLedger,
                   hash : Hash \cup {NoHash}]
    /\ check.pc \in {"idle", "compare", "invalidate", "rewind", "fetch", "flush", "last",
                     "recovered", "backfilled"}
    /\ disturbed \in BOOLEAN

\* No reorganization since the check began, nothing failed and no check met a
\* ledger's handler.
Settled == check.forks = forks /\ ~disturbed

\* A recovery leaves exactly the canonical events from the fork it saw to the
\* end of its range.
RecoveryIsExact ==
    check.pc = "recovered" /\ Settled =>
        {row \in valid : row.ledger >= check.fork /\ row.ledger <= check.to} =
            Fetched(check.fork, check.to)

\* The cursor is advanced only after the replacement events are committed
\* (comment in backfillGap).
BackfillIsCommitted ==
    check.pc \in {"recovered", "backfilled"} /\ Settled =>
        Fetched(check.from, check.to) \subseteq valid \/ check.from = 0

\* As long as the chain was not reorganized no row is ever invalidated,
\* whatever fails and however checks and ledgers interleave.
NoFalseAlarm == [][(forks = 0) => (valid \subseteq valid')]_vars

-----------------------------------------------------------------------------
(* What the repository states and the code does not always keep: the cases are
   listed in the README. *)

\* After a recovery no row of a ledger that was rolled back is still valid
\* ("invalidated from the fork point onwards").
NoStaleRows ==
    check.pc = "recovered" /\ Settled =>
        \A row \in valid : OnChain(row.ledger, row.hash)

\* A row of a ledger that was rolled back does not stay valid for ever.
StaleIsInvalidated ==
    \A row \in Event : (row \in valid /\ ~OnChain(row.ledger, row.hash))
        ~> (row \notin valid \/ OnChain(row.ledger, row.hash))
=============================================================================
