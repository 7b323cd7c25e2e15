--------------------------- MODULE ContractEvents ---------------------------
(***************************************************************************)
(* The indexer of Soroban contract events                                  *)
(* (soroban/contract-event-indexer.service.ts), for one contract: each has *)
(* a cursor of its own and one failing does not stop the others.  Cursor   *)
(* and watch list are in memory, events and index in Redis.  The SDK drops *)
(* the RPC's paging cursor, so paging is by ledger.                        *)
(***************************************************************************)
EXTENDS Integers, Sequences, SequencesExt, FiniteSets, FiniteSetsExt

CONSTANTS
    PAGE_LIMIT,      \* soroban.eventPageLimit
    MAX_PAGES,       \* MAX_PAGES_PER_POLL
    MaxLedgers,      \* bound on ledgers that close
    MaxPerLedger,    \* bound on events of a ledger
    MaxIndexFaults   \* bound on errors and crashes

VARIABLES
    chain,           \* the events of each closed ledger: a sequence of counts
    watching,        \* contract is in `watched` (and the timer runs)
    asking,          \* watch() awaits the latest ledger
    cursor,          \* nextStartLedgerByContract; 0 when not set
    poll,            \* the poll under way
    stored,          \* event keys in Redis
    indexed,         \* members of the contract's sorted set
    from,            \* history: the ledger indexing is owed from; 0 when none is
    cut,             \* history: ledgers a page cap fell into
    torn,            \* history: events whose ZADD failed after their SET NX
    indexFaults

vars == <<chain, watching, asking, cursor, poll, stored, indexed, from, cut, torn, indexFaults>>
redisVars == <<stored, indexed, torn>>
watchVars == <<watching, asking>>

Latest == Len(chain)
EventsOf(l) == {<<l, i>> : i \in 1 .. chain[l]}
NoPoll == [pc |-> "idle"]

TypeOK ==
    /\ chain \in Seq(0 .. MaxPerLedger)
    /\ cursor \in 0 .. MaxLedgers + 1 /\ from \in 0 .. MaxLedgers + 1
    /\ indexed \subseteq stored

Init ==
    /\ chain = <<0>> /\ watching = FALSE /\ asking = FALSE /\ cursor = 0
    /\ poll = NoPoll /\ stored = {} /\ indexed = {}
    /\ from = 0 /\ cut = {} /\ torn = {} /\ indexFaults = 0

CloseLedger(n) ==
    /\ Len(chain) < MaxLedgers
    /\ chain' = Append(chain, n)
    /\ UNCHANGED <<watchVars, cursor, poll, redisVars, from, cut, indexFaults>>

\* The cursor only ever moves back here.  A poll under way overwrites it when
\* it ends, so what is owed then begins where the poll began.
SetStart(start) ==
    /\ cursor' = IF cursor = 0 \/ start < cursor THEN start ELSE cursor
    /\ from' = LET asked == IF poll.pc = "idle" THEN start ELSE Max({start, poll.start})
               IN IF from = 0 THEN asked ELSE Min({from, asked})

WatchFrom(start) ==
    /\ watching' = TRUE /\ SetStart(start)
    /\ UNCHANGED <<chain, asking, poll, redisVars, cut, indexFaults>>

\* watch without a ledger: it is watched at once, its cursor comes later.
Watch ==
    /\ ~asking /\ watching' = TRUE /\ asking' = TRUE
    /\ UNCHANGED <<chain, cursor, poll, redisVars, from, cut, indexFaults>>

WatchAnswered ==
    /\ asking /\ asking' = FALSE
    /\ SetStart(Latest)
    /\ UNCHANGED <<chain, watching, poll, redisVars, cut, indexFaults>>

Unwatch ==
    /\ watching /\ watching' = FALSE /\ cursor' = 0 /\ from' = 0
    /\ UNCHANGED <<chain, asking, poll, redisVars, cut, indexFaults>>

\* The timer fires; the polling flag keeps one poll at a time.
PollContract ==
    /\ watching /\ poll.pc = "idle"
    /\ LET start == IF cursor = 0 THEN Latest ELSE cursor IN
       poll' = [pc |-> "fetch", start |-> start, current |-> start, pages |-> 0,
                last |-> 0, latest |-> start, page |-> <<>>, full |-> FALSE]
    /\ UNCHANGED <<chain, watchVars, cursor, redisVars, from, cut, indexFaults>>

\* External: getEvents, the first PAGE_LIMIT events from a ledger on.
Page(start) ==
    LET ledgers == [k \in 1 .. Max({0, Latest - start + 1}) |-> start + k - 1]
        events == FlattenSeq([k \in DOMAIN ledgers |->
                                 [i \in 1 .. chain[ledgers[k]] |-> <<ledgers[k], i>>]])
    IN SubSeq(events, 1, Min({PAGE_LIMIT, Len(events)}))

GetEvents ==
    /\ poll.pc = "fetch"
    /\ poll' = [poll EXCEPT !.pc = "index", !.latest = Latest, !.page = Page(poll.current),
                            !.full = Len(Page(poll.current)) >= PAGE_LIMIT]
    /\ UNCHANGED <<chain, watchVars, cursor, redisVars, from, cut, indexFaults>>

\* indexEvent: SET NX ...
SetEvent ==
    /\ poll.pc = "index" /\ poll.page # <<>>
    /\ LET e == Head(poll.page)
           done == [poll EXCEPT !.page = Tail(@), !.last = Max({@, e[1]})] IN
       IF e \in stored
       THEN poll' = done /\ UNCHANGED stored
       ELSE poll' = [poll EXCEPT !.pc = "zadd"] /\ stored' = stored \cup {e}
    /\ UNCHANGED <<chain, watchVars, cursor, indexed, torn, from, cut, indexFaults>>

\* ... and ZADD to the index of the contract.
IndexEvent ==
    /\ poll.pc = "zadd"
    /\ indexed' = indexed \cup {Head(poll.page)}
    /\ poll' = [poll EXCEPT !.pc = "index", !.page = Tail(@), !.last = Max({@, Head(poll.page)[1]})]
    /\ UNCHANGED <<chain, watchVars, cursor, stored, torn, from, cut, indexFaults>>

\* Where a poll that is over leaves the cursor: past the last ledger it saw.
AdvanceTo == IF poll.last # 0 THEN poll.last + 1 ELSE poll.latest + 1

Advance ==
    /\ cursor' = AdvanceTo
    /\ from' = IF from = 0 /\ watching THEN poll.start ELSE from
    /\ poll' = NoPoll

CanReread == poll.full /\ poll.last > poll.current

\* Mutant: the ledger the page broke off in is taken for done.
PageAfter ==
    /\ poll.pc = "index" /\ poll.page = <<>>
    /\ CanReread /\ poll.pages + 1 < MAX_PAGES
    /\ poll' = [poll EXCEPT !.pc = "fetch", !.current = poll.last + 1, !.pages = @ + 1]
    /\ UNCHANGED <<chain, watchVars, cursor, redisVars, from, cut, indexFaults>>

\* A full page: read again from the last ledger it reached.
PageAgain ==
    /\ poll.pc = "index" /\ poll.page = <<>>
    /\ CanReread /\ poll.pages + 1 < MAX_PAGES
    /\ poll' = [poll EXCEPT !.pc = "fetch", !.current = poll.last, !.pages = @ + 1]
    /\ UNCHANGED <<chain, watchVars, cursor, redisVars, from, cut, indexFaults>>

\* The page cap: the poll ends in the middle of a ledger.
PageCap ==
    /\ poll.pc = "index" /\ poll.page = <<>>
    /\ CanReread /\ poll.pages + 1 >= MAX_PAGES
    /\ cut' = cut \cup {poll.last}
    /\ Advance
    /\ UNCHANGED <<chain, watchVars, redisVars, indexFaults>>

\* The last page, or a full page of one ledger, which cannot be read on.
PollDone ==
    /\ poll.pc = "index" /\ poll.page = <<>> /\ ~CanReread
    /\ Advance
    /\ UNCHANGED <<chain, watchVars, redisVars, cut, indexFaults>>

\* An RPC or Redis call fails: the cursor stays, the next poll starts over.
PollFails ==
    /\ poll.pc # "idle" /\ indexFaults < MaxIndexFaults
    /\ indexFaults' = indexFaults + 1
    /\ torn' = torn \cup (stored \ indexed)
    /\ poll' = NoPoll
    /\ UNCHANGED <<chain, watchVars, cursor, stored, indexed, from, cut>>

Restart ==
    /\ indexFaults < MaxIndexFaults
    /\ indexFaults' = indexFaults + 1
    /\ torn' = torn \cup (stored \ indexed)
    /\ watching' = FALSE /\ asking' = FALSE /\ cursor' = 0 /\ from' = 0 /\ poll' = NoPoll
    /\ UNCHANGED <<chain, stored, indexed, cut>>

Next ==
    \/ \E n \in 0 .. MaxPerLedger : CloseLedger(n)
    \/ \E start \in 1 .. Latest : WatchFrom(start)
    \/ Watch \/ WatchAnswered \/ Unwatch
    \/ PollContract \/ GetEvents \/ SetEvent \/ IndexEvent
    \/ PageAgain \/ PageCap \/ PollDone
    \/ PollFails \/ Restart

Spec == Init /\ [][Next]_vars

-----------------------------------------------------------------------------
\* "We've indexed everything strictly before this ledger": every event between
\* the ledger the contract is watched from and its cursor is in the index,
\* through paging, replays, failures and restarts.  The exceptions are the
\* code's own: a ledger with more events than a page, a ledger the page cap
\* fell into, and an event whose ZADD failed after its SET NX.
IndexedBeforeCursor ==
    from # 0 =>
        \A l \in from .. Min({cursor - 1, Latest}) :
            chain[l] <= PAGE_LIMIT /\ l \notin cut => EventsOf(l) \subseteq indexed \cup torn
=============================================================================
