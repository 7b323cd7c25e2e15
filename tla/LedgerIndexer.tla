---------------------------- MODULE LedgerIndexer ----------------------------
(***************************************************************************)
(* The real-time indexer (src/src/modules/blockchain-indexer): the Horizon *)
(* stream hands over closed ledgers, a handler per ledger fetches its      *)
(* transactions, numbers their events and queues them, a shared flush      *)
(* writes the queue to PostgreSQL in batches, and the handler then moves   *)
(* the cursor from which a restart resumes.                                *)
(*                                                                         *)
(* Nobody waits for a handler, so the handlers of several ledgers          *)
(* interleave at every await, all around one queue, one number counter     *)
(* and one flush at a time.  A crash loses everything but the tables.      *)
(*                                                                         *)
(* Every ledger has Txs successful transactions with one relevant          *)
(* operation each.  The in-memory buffer is filled and drained in one      *)
(* synchronous step, so it is always empty between two steps here.         *)
(***************************************************************************)
EXTENDS Integers, FiniteSets, Sequences, SequencesExt

CONSTANTS
    MaxLedger,      \* bound on the ledgers that close
    Txs,            \* transactions in a ledger
    BatchMaxSize,   \* batchMaxSize
    MaxHandlers,    \* bound on the handlers in progress at the same time
    ColdStart,      \* whether the first start finds no paging token
    MaxFetchFails,  \* bound on the fetches Horizon answers with an error
    MaxInsertFails, \* bound on the failures of the insert
    MaxStateFails,  \* bound on the failures of a write to indexer_state
    MaxCrashes      \* bound on the crashes

ASSUME IndexerAssumption ==
    /\ MaxLedger \in Nat /\ Txs \in Nat \ {0} /\ BatchMaxSize \in Nat \ {0}
    /\ MaxHandlers \in Nat /\ MaxInsertFails \in Nat /\ MaxStateFails \in Nat
    /\ MaxFetchFails \in Nat /\ MaxCrashes \in Nat
    /\ ColdStart \in BOOLEAN

Ledgers == 1..MaxLedger

\* A row of indexed_events, or one about to become a row.
IndexedEvent == [seq : Nat, ledger : Ledgers, tx : 1..Txs]

NoToken == -1

\* The rows of indexer_state that the real-time indexer uses.
IndexerState == [last : 0..MaxLedger, token : {NoToken} \cup 0..MaxLedger, counter : Nat]

VARIABLES
    tip,        \* the last ledger that has closed
    events,     \* indexed_events
    state,      \* indexer_state: last_indexed_ledger, paging token, sequence_counter
    cursor,     \* HorizonStreamService.cursor
    sequence,   \* EventNormalizer.sequenceCounter
    pending,    \* pendingBatch
    flight,     \* the flush in progress
    highest,    \* highestCommittedSequence
    handler,    \* handleLedgerClose for each ledger
    faults,     \* how often each kind of fault has happened
    overlapped  \* history: whether two handlers were ever in progress at once

vars == <<tip, events, state, cursor, sequence, pending, flight, highest, handler, faults,
          overlapped>>
memory == <<cursor, sequence, pending, flight, highest, handler>>

NoFlush == [pc |-> "none", by |-> 0, batch |-> <<>>]
Idle == [pc |-> "idle", tx |-> 0]

Init ==
    /\ tip = 0
    /\ events = {}
    /\ state = [last |-> 0, token |-> IF ColdStart THEN NoToken ELSE 0, counter |-> 0]
    /\ cursor = 0
    /\ sequence = 0
    /\ pending = <<>>
    /\ flight = NoFlush
    /\ highest = 0
    /\ handler = [l \in Ledgers |-> Idle]
    /\ faults = [fetch |-> 0, insert |-> 0, state |-> 0, crash |-> 0]
    /\ overlapped = FALSE

Goto(l, pc) == handler' = [handler EXCEPT ![l] = [@ EXCEPT !.pc = pc]]
Busy == {l \in Ledgers : handler[l].pc # "idle"}
Fault(kind) == faults' = [faults EXCEPT ![kind] = @ + 1]

-----------------------------------------------------------------------------
(* The stream *)

\* The network closes a ledger.
LedgerCloses ==
    /\ tip < MaxLedger
    /\ tip' = tip + 1
    /\ UNCHANGED <<events, state, memory, faults, overlapped>>

\* handleLedgerRecord: the cursor in memory moves at once, and the handler is
\* not awaited.  A reconnect resumes from the same cursor.
HandleLedgerRecord ==
    /\ cursor < tip
    /\ Cardinality(Busy) < MaxHandlers
    /\ handler[cursor + 1].pc = "idle"
    /\ cursor' = cursor + 1
    /\ handler' = [handler EXCEPT ![cursor + 1] = [pc |-> "fetch", tx |-> 1]]
    /\ overlapped' = (overlapped \/ Busy # {})
    /\ UNCHANGED <<tip, events, state, sequence, pending, flight, highest, faults>>

-----------------------------------------------------------------------------
(* handleLedgerClose, up to the flush *)

AfterTx(l) == handler' = [handler EXCEPT ![l] = [pc |-> IF @.tx < Txs THEN "fetch" ELSE "flush",
                                                 tx |-> @.tx + 1]]

\* EventNormalizer gives every event the next number.
NextSequence == sequence + 1

\* enqueue: a full queue starts a flush that nobody awaits.
Enqueue(event) ==
    LET queue == Append(pending, event)
    IN  IF Len(queue) >= BatchMaxSize /\ flight = NoFlush
          THEN /\ flight' = [pc |-> "insert", by |-> 0, batch |-> SubSeq(queue, 1, BatchMaxSize)]
               /\ pending' = SubSeq(queue, BatchMaxSize + 1, Len(queue))
          ELSE /\ pending' = queue
               /\ UNCHANGED flight

\* One transaction: its operation is fetched, numbered, queued and sent to the
\* subscribers.
FetchTx(l) ==
    /\ handler[l].pc = "fetch"
    /\ Enqueue([seq |-> NextSequence, ledger |-> l, tx |-> handler[l].tx])
    /\ sequence' = NextSequence
    /\ AfterTx(l)
    /\ UNCHANGED <<tip, events, state, cursor, highest, faults, overlapped>>

\* The list of transactions, or the operations of one, cannot be fetched: the
\* error is logged and the loop goes on.
FetchTxFails(l) ==
    /\ handler[l].pc = "fetch"
    /\ faults.fetch < MaxFetchFails
    /\ Fault("fetch")
    /\ AfterTx(l)
    /\ UNCHANGED <<tip, events, state, cursor, sequence, pending, flight, highest, overlapped>>

-----------------------------------------------------------------------------
(* BatchedPersistenceService *)

\* Mutant: the cursor moves whether or not the queue is empty.
CheckNothing(l, queue) == Goto(l, "last")

\* handleLedgerClose when its flush returns, before any other task runs: with
\* events still queued the cursor stays, so that the ledger is replayed.
CheckPending(l, queue) == Goto(l, IF queue = <<>> THEN "last" ELSE "idle")

Smaller(a, b) == IF a < b THEN a ELSE b

\* drainPending takes the next batch from the queue.
TakeBatch(by, queue) ==
    LET size == Smaller(BatchMaxSize, Len(queue))
    IN  /\ flight' = [pc |-> "insert", by |-> by, batch |-> SubSeq(queue, 1, size)]
        /\ pending' = SubSeq(queue, size + 1, Len(queue))

\* flush() by a handler: it waits until no flush is in progress.
Flush(l) ==
    /\ handler[l].pc = "flush"
    /\ flight = NoFlush
    /\ IF pending = <<>>
         THEN CheckPending(l, pending) /\ UNCHANGED <<pending, flight>>
         ELSE TakeBatch(l, pending) /\ Goto(l, "flushing")
    /\ UNCHANGED <<tip, events, state, cursor, sequence, highest, faults, overlapped>>

\* Mutant: the timer is not set again after a batch has failed.
TimerStopsOnFailure ==
    /\ flight = NoFlush
    /\ pending # <<>> /\ faults.insert = 0
    /\ TakeBatch(0, pending)
    /\ UNCHANGED <<tip, events, state, cursor, sequence, highest, handler, faults, overlapped>>

\* flush() by the timer.
TimerFlush ==
    /\ flight = NoFlush
    /\ pending # <<>>
    /\ TakeBatch(0, pending)
    /\ UNCHANGED <<tip, events, state, cursor, sequence, highest, handler, faults, overlapped>>

\* drainPending after a batch: the next one, or the flush is over.
NextBatch ==
    IF pending # <<>>
      THEN TakeBatch(flight.by, pending) /\ UNCHANGED handler
      ELSE /\ flight' = NoFlush
           /\ UNCHANGED pending
           /\ IF flight.by = 0 THEN UNCHANGED handler ELSE CheckPending(flight.by, pending)

Numbers(batch) == {batch[i].seq : i \in DOMAIN batch}
Highest(batch) == CHOOSE n \in Numbers(batch) : \A m \in Numbers(batch) : m <= n

\* ON CONFLICT DO NOTHING on the unique sequence number
Inserted(batch) ==
    {e \in ToSet(batch) : \A row \in events : row.seq # e.seq}

\* Mutant: the high-water mark is written before the insert.
CounterBeforeInsert ==
    /\ flight.pc = "insert"
    /\ IF Highest(flight.batch) > highest
         THEN /\ state' = [state EXCEPT !.counter = Highest(flight.batch)]
              /\ highest' = Highest(flight.batch)
              /\ UNCHANGED <<events, flight, pending, handler>>
         ELSE /\ events' = events \cup Inserted(flight.batch)
              /\ NextBatch
              /\ UNCHANGED <<state, highest>>
    /\ UNCHANGED <<tip, cursor, sequence, faults, overlapped>>

\* persistBatch: the insert commits; a new high-water mark is then stored.
PersistBatch ==
    /\ flight.pc = "insert"
    /\ events' = events \cup Inserted(flight.batch)
    /\ IF Highest(flight.batch) > highest
         THEN /\ highest' = Highest(flight.batch)
              /\ flight' = [flight EXCEPT !.pc = "counter"]
              /\ UNCHANGED <<pending, handler>>
         ELSE NextBatch /\ UNCHANGED highest
    /\ UNCHANGED <<tip, state, cursor, sequence, faults, overlapped>>

SetSequenceCounter ==
    /\ flight.pc = "counter"
    /\ state' = [state EXCEPT !.counter = highest]
    /\ NextBatch
    /\ UNCHANGED <<tip, events, cursor, sequence, highest, faults, overlapped>>

\* The failed batch goes back to the head of the queue and the flush ends.
Requeue ==
    /\ pending' = flight.batch \o pending
    /\ flight' = NoFlush
    /\ IF flight.by = 0 THEN UNCHANGED handler ELSE CheckPending(flight.by, pending')

PersistBatchFails ==
    \/ /\ flight.pc = "insert" /\ faults.insert < MaxInsertFails
       /\ Requeue
       /\ Fault("insert")
       /\ UNCHANGED <<tip, events, state, cursor, sequence, highest, overlapped>>
    \/ /\ flight.pc = "counter" /\ faults.state < MaxStateFails
       /\ Requeue
       /\ Fault("state")
       /\ UNCHANGED <<tip, events, state, cursor, sequence, highest, overlapped>>

-----------------------------------------------------------------------------
(* handleLedgerClose, after the flush *)

SetLastIndexedLedger(l) ==
    /\ handler[l].pc = "last"
    /\ state' = [state EXCEPT !.last = l]
    /\ Goto(l, "token")
    /\ UNCHANGED <<tip, events, cursor, sequence, pending, flight, highest, faults, overlapped>>

SetLedgerPagingToken(l) ==
    /\ handler[l].pc = "token"
    /\ state' = [state EXCEPT !.token = l]
    /\ Goto(l, "idle")
    /\ UNCHANGED <<tip, events, cursor, sequence, pending, flight, highest, faults, overlapped>>

\* A write of the cursor fails; the handler logs it and ends.
SetCursorFails(l) ==
    /\ handler[l].pc \in {"last", "token"}
    /\ faults.state < MaxStateFails
    /\ Fault("state")
    /\ Goto(l, "idle")
    /\ UNCHANGED <<tip, events, state, cursor, sequence, pending, flight, highest, overlapped>>

-----------------------------------------------------------------------------
(* Crash, and start of the next process *)

\* The stream starts from the stored token, or from now when there is none.
ResumeCursor == IF state.token = NoToken THEN tip ELSE state.token

\* start(): numbers go on from the stored counter.
Restart ==
    /\ faults.crash < MaxCrashes
    /\ Fault("crash")
    /\ cursor' = ResumeCursor
    /\ sequence' = state.counter /\ highest' = state.counter
    /\ pending' = <<>> /\ flight' = NoFlush
    /\ handler' = [l \in Ledgers |-> Idle]
    /\ UNCHANGED <<tip, events, state, overlapped>>

HandlerStep(l) ==
    FetchTx(l) \/ Flush(l) \/ SetLastIndexedLedger(l) \/ SetLedgerPagingToken(l)

Next ==
    \/ LedgerCloses \/ HandleLedgerRecord
    \/ \E l \in Ledgers : HandlerStep(l) \/ FetchTxFails(l) \/ SetCursorFails(l)
    \/ TimerFlush \/ PersistBatch \/ SetSequenceCounter \/ PersistBatchFails
    \/ Restart

Spec == Init /\ [][Next]_vars

\* The event loop serves every promise and the flush timer keeps ticking; the
\* stream delivers.  Faults are not fair: their number is bounded.
FairSpec ==
    /\ Spec
    /\ WF_vars(HandleLedgerRecord)
    /\ \A l \in Ledgers : WF_vars(HandlerStep(l))
    /\ WF_vars(TimerFlush) /\ WF_vars(PersistBatch) /\ WF_vars(SetSequenceCounter)

-----------------------------------------------------------------------------
(* Properties *)

HandlerType == [pc : {"idle", "fetch", "flush", "flushing", "last", "token"},
                tx : 0..(Txs + 1)]

\* Every variable has the type of its TypeScript or SQL counterpart.
TypeOK ==
    /\ tip \in 0..MaxLedger /\ cursor \in 0..MaxLedger
    /\ events \subseteq IndexedEvent
    /\ state \in IndexerState
    /\ sequence \in Nat /\ highest \in Nat
    /\ pending \in Seq(IndexedEvent)
    /\ flight \in [pc : {"none", "insert", "counter"}, by : 0..MaxLedger, batch : Seq(IndexedEvent)]
    /\ handler \in [Ledgers -> HandlerType]
    /\ faults \in [fetch : 0..MaxFetchFails, insert : 0..MaxInsertFails,
                   state : 0..MaxStateFails, crash : 0..MaxCrashes]
    /\ overlapped \in BOOLEAN

Rows(l, n) == {row \in events : row.ledger = l /\ row.tx = n}
FullyStored(l) == \A n \in 1..Txs : Rows(l, n) # {}

\* The stored counter never runs ahead of the table (comment on
\* highestCommittedSequence): the number it names is that of a stored row, so
\* that no number is skipped after a crash.
CounterIsCommitted == state.counter > 0 => \E row \in events : row.seq = state.counter

\* Ledgers were handled one after the other, every fetch was answered and every
\* write to indexer_state succeeded; inserts may have failed and processes died.
Orderly == ~overlapped /\ faults.fetch = 0 /\ faults.state = 0

\* Every ledger up to the stored paging token is fully in the table: a restart,
\* which resumes after the token, skips nothing.
NoLedgerSkipped == Orderly => \A l \in Ledgers : l <= state.token => FullyStored(l)

\* While one process runs, no operation of a ledger gets two rows, however
\* handlers overlap and inserts are retried.
StoredOnce ==
    faults.crash = 0 => \A l \in Ledgers, n \in 1..Txs : Cardinality(Rows(l, n)) <= 1

\* The table is what the numbers say of it: the counter names a stored row, and
\* no operation has two rows while one process runs (flush, loadState).
TableIsExact == TypeOK /\ CounterIsCommitted /\ StoredOnce

\* Every ledger the stream has delivered gets into the table, whatever number
\* of inserts fails first, unless it could not be fetched or the process died.
DeliveredIsStored ==
    \A l \in Ledgers : (cursor >= l) ~> (FullyStored(l) \/ faults.fetch > 0 \/ faults.crash > 0)
=============================================================================
