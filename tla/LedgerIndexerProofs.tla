---------------------------- MODULE LedgerIndexerProofs ----------------------------
(***************************************************************************)
(* Proofs about the real-time indexer, for any number of ledgers,          *)
(* transactions, handlers, failures and crashes: the counter never runs    *)
(* ahead of the table, no operation is stored twice by one process, and no *)
(* ledger is skipped by a restart.                                         *)
(***************************************************************************)
EXTENDS LedgerIndexer, SequenceTheorems, FiniteSetTheorems, NaturalsInduction,
        WellFoundedInduction, TLAPS

-----------------------------------------------------------------------------
(* Queue, flush and handlers *)

\* A queue split into the batch at its head and the rest.
Split(queue, b, p) ==
  /\ b \in Seq(IndexedEvent) /\ p \in Seq(IndexedEvent)
  /\ Len(b) >= 1 /\ Len(b) + Len(p) = Len(queue)
  /\ \A i \in 1..Len(b) : b[i] = queue[i]
  /\ \A i \in 1..Len(p) : p[i] = queue[Len(b) + i]

\* SubSeq splits a queue at any position.
LEMMA SplitAt ==
  ASSUME NEW queue \in Seq(IndexedEvent), NEW k \in 1..Len(queue)
  PROVE  Split(queue, SubSeq(queue, 1, k), SubSeq(queue, k + 1, Len(queue)))
<1>0. Len(queue) \in Nat /\ \A i \in 1..Len(queue) : queue[i] \in IndexedEvent BY LenProperties
<1> DEFINE b == SubSeq(queue, 1, k)
           p == SubSeq(queue, k + 1, Len(queue))
<1>1. b \in Seq(IndexedEvent) /\ Len(b) = k /\ \A i \in 1..k : b[i] = queue[i]
  <2>1. \A i \in 1..k : queue[i] \in IndexedEvent BY <1>0
  <2>2. b \in Seq(IndexedEvent) /\ Len(b) = (IF 1 <= k THEN k - 1 + 1 ELSE 0) /\ \A i \in 1 .. k-1+1 : b[i] = queue[1+i-1]
    BY <1>0, <2>1, SubSeqProperties
  <2> QED BY <1>0, <2>2
<1>2. p \in Seq(IndexedEvent) /\ Len(p) = Len(queue) - k /\ \A i \in 1..(Len(queue) - k) : p[i] = queue[k + i]
  <2>1. \A i \in (k + 1)..Len(queue) : queue[i] \in IndexedEvent BY <1>0
  <2>2. p \in Seq(IndexedEvent) /\ Len(p) = (IF k + 1 <= Len(queue) THEN Len(queue) - (k + 1) + 1 ELSE 0)
        /\ \A i \in 1 .. Len(queue)-(k+1)+1 : p[i] = queue[k+1+i-1]
    BY <1>0, <2>1, SubSeqProperties
  <2>3. \A i \in 1..(Len(queue) - k) : i \in 1 .. Len(queue)-(k+1)+1 /\ k + 1 + i - 1 = k + i BY <1>0
  <2> QED BY <1>0, <2>2, <2>3
<1> HIDE DEF b, p
<1> QED BY <1>0, <1>1, <1>2 DEF Split

\* drainPending splits the queue and starts the insert of its head.
LEMMA TakeSplit ==
  ASSUME NEW queue \in Seq(IndexedEvent), queue # <<>>, NEW by, TakeBatch(by, queue)
  PROVE  /\ Split(queue, flight'.batch, pending')
         /\ flight' = [pc |-> "insert", by |-> by, batch |-> flight'.batch]
<1> DEFINE size == Smaller(BatchMaxSize, Len(queue))
<1>1. Len(queue) \in Nat \ {0} BY EmptySeq
<1>2. size \in 1..Len(queue) BY <1>1, IndexerAssumption DEF Smaller
<1>3. flight' = [pc |-> "insert", by |-> by, batch |-> SubSeq(queue, 1, size)] /\ pending' = SubSeq(queue, size + 1, Len(queue))
  BY DEF TakeBatch
<1> HIDE DEF size
<1> QED BY <1>2, <1>3, SplitAt

\* A handler that fetches is at one of the transactions of its ledger.
FetchOK == \A l \in Ledgers : handler[l].pc = "fetch" => handler[l].tx \in 1..Txs

\* A flush in progress has a batch, and the handler that awaits it is
\* waiting.
FlightOK ==
  /\ flight.pc = "none" => flight = NoFlush
  /\ flight.pc # "none" => /\ Len(flight.batch) >= 1
                           /\ flight.by # 0 => handler[flight.by].pc = "flushing"

\* The types, and what the places of the handlers say.
Base == TypeOK /\ FetchOK /\ FlightOK

\* The type of a flush.
FlightType == [pc : {"none", "insert", "counter"}, by : 0..MaxLedger, batch : Seq(IndexedEvent)]

\* One handler goes to another place.
Moves(l, pc) ==
  /\ handler' \in [Ledgers -> HandlerType]
  /\ handler'[l].pc = pc /\ handler'[l].tx = handler[l].tx
  /\ \A k \in Ledgers \ {l} : handler'[k] = handler[k]

\* Goto moves one handler.
LEMMA GotoMoves ==
  ASSUME TypeOK, NEW l \in Ledgers, NEW pc \in {"idle", "fetch", "flush", "flushing", "last", "token"}, Goto(l, pc)
  PROVE  Moves(l, pc)
<1>1. handler \in [Ledgers -> HandlerType] /\ handler' = [handler EXCEPT ![l] = [handler[l] EXCEPT !.pc = pc]]
  BY DEF TypeOK, Goto
<1> DEFINE new == [handler[l] EXCEPT !.pc = pc]
<1>2. new \in HandlerType /\ new.pc = pc /\ new.tx = handler[l].tx BY <1>1 DEF HandlerType
<1>3. handler' = [handler EXCEPT ![l] = new] BY <1>1
<1> HIDE DEF new
<1> QED BY <1>1, <1>2, <1>3 DEF Moves

\* handleLedgerClose after its flush: on to the cursor, or given up.
LEMMA CheckMoves ==
  ASSUME TypeOK, NEW l \in Ledgers, NEW queue, CheckPending(l, queue)
  PROVE  (queue = <<>> /\ Moves(l, "last")) \/ (queue # <<>> /\ Moves(l, "idle"))
  BY GotoMoves DEF CheckPending

\* The queue, the flush and the handlers of the next state are well typed.
QueueTyped == pending' \in Seq(IndexedEvent) /\ flight' \in FlightType /\ handler' \in [Ledgers -> HandlerType]

\* No flush is a well-typed one.
LEMMA NoFlushTyped == NoFlush \in FlightType /\ NoFlush.pc = "none" /\ NoFlush.batch = <<>>
  BY IndexerAssumption, EmptySeq DEF NoFlush, FlightType

\* A flush that has just started is well typed.
LEMMA SplitTyped ==
  ASSUME NEW queue, NEW by \in 0..MaxLedger, Split(queue, flight'.batch, pending'),
         flight' = [pc |-> "insert", by |-> by, batch |-> flight'.batch]
  PROVE  pending' \in Seq(IndexedEvent) /\ flight' \in FlightType /\ flight'.pc = "insert" /\ flight'.by = by
         /\ Len(flight'.batch) >= 1
<1> DEFINE b == flight'.batch
<1>1. b \in Seq(IndexedEvent) /\ Len(b) >= 1 /\ pending' \in Seq(IndexedEvent) BY DEF Split
<1>2. flight' = [pc |-> "insert", by |-> by, batch |-> b] OBVIOUS
<1> HIDE DEF b
<1> QED BY <1>1, <1>2 DEF FlightType

\* A flush ends, and the handler that awaits it goes on.
Ended == flight' = NoFlush /\ (IF flight.by = 0 THEN UNCHANGED handler ELSE CheckPending(flight.by, pending'))

\* A flush takes the next batch.
Continued == /\ pending # <<>> /\ Split(pending, flight'.batch, pending')
             /\ flight' = [pc |-> "insert", by |-> flight.by, batch |-> flight'.batch]
             /\ UNCHANGED handler

\* After a batch the flush goes on or ends.
LEMMA NextBatchIs ==
  ASSUME TypeOK, NextBatch
  PROVE  Continued \/ (pending = <<>> /\ UNCHANGED pending /\ Ended)
  BY TakeSplit DEF TypeOK, NextBatch, Continued, Ended

\* The end of a flush keeps the types and places.
LEMMA EndedBase ==
  ASSUME Base, flight.pc # "none", Ended, pending' \in Seq(IndexedEvent)
  PROVE  QueueTyped /\ FetchOK' /\ FlightOK'
<1>0. handler \in [Ledgers -> HandlerType] /\ FetchOK BY DEF Base, TypeOK
<1>1. flight' \in FlightType /\ FlightOK' BY NoFlushTyped DEF Ended, FlightOK
<1>2. CASE flight.by = 0 BY <1>0, <1>1, <1>2 DEF Ended, QueueTyped, FetchOK
<1>3. CASE flight.by # 0
  <2>1. flight.by \in Ledgers BY <1>3, IndexerAssumption DEF Base, TypeOK, Ledgers
  <2>2. Moves(flight.by, "last") \/ Moves(flight.by, "idle") BY <1>3, <2>1, CheckMoves DEF Base, Ended
  <2> QED BY <1>0, <1>1, <2>1, <2>2 DEF Moves, QueueTyped, FetchOK
<1> QED BY <1>2, <1>3

\* So does its next batch.
LEMMA ContinuedBase ==
  ASSUME Base, flight.pc # "none", Continued
  PROVE  QueueTyped /\ FetchOK' /\ FlightOK'
<1>0. handler \in [Ledgers -> HandlerType] /\ FetchOK /\ flight.by \in 0..MaxLedger BY DEF Base, TypeOK
<1>1. pending' \in Seq(IndexedEvent) /\ flight' \in FlightType /\ flight'.pc = "insert" /\ flight'.by = flight.by
      /\ Len(flight'.batch) >= 1
  BY <1>0, SplitTyped DEF Continued
<1>2. UNCHANGED handler BY DEF Continued
<1>3. FlightOK' BY <1>1, <1>2 DEF Base, FlightOK
<1> QED BY <1>0, <1>1, <1>2, <1>3 DEF QueueTyped, FetchOK

\* A failed batch goes to the head of the queue and the flush ends.
LEMMA RequeueIs ==
  ASSUME Base, Requeue
  PROVE  Ended /\ pending' \in Seq(IndexedEvent) /\ pending' = flight.batch \o pending
  BY ConcatProperties DEF Base, TypeOK, Requeue, Ended

\* The event of the transaction a handler is at.
EventOf(l) == [seq |-> NextSequence, ledger |-> l, tx |-> handler[l].tx]

\* It is a well-typed event.
LEMMA EventTyped ==
  ASSUME Base, NEW l \in Ledgers, handler[l].pc = "fetch"
  PROVE  EventOf(l) \in IndexedEvent
  BY DEF Base, FetchOK, TypeOK, EventOf, NextSequence, IndexedEvent

\* enqueue appends the event, or starts a flush of the full queue.
LEMMA EnqueueIs ==
  ASSUME TypeOK, NEW e \in IndexedEvent, Enqueue(e)
  PROVE  /\ Append(pending, e) \in Seq(IndexedEvent) /\ Append(pending, e) # <<>>
         /\ \/ /\ flight = NoFlush /\ Split(Append(pending, e), flight'.batch, pending')
               /\ flight' = [pc |-> "insert", by |-> 0, batch |-> flight'.batch]
            \/ pending' = Append(pending, e) /\ UNCHANGED flight
<1> DEFINE q == Append(pending, e)
<1>1. q \in Seq(IndexedEvent) /\ Len(q) = Len(pending) + 1 /\ Len(pending) \in Nat BY AppendProperties, LenProperties DEF TypeOK
<1>2. q # <<>> BY <1>1, EmptySeq
<1>3. CASE Len(q) >= BatchMaxSize /\ flight = NoFlush
  <2>1. flight' = [pc |-> "insert", by |-> 0, batch |-> SubSeq(q, 1, BatchMaxSize)]
        /\ pending' = SubSeq(q, BatchMaxSize + 1, Len(q)) BY <1>3 DEF Enqueue
  <2>2. BatchMaxSize \in 1..Len(q) BY <1>1, <1>3, IndexerAssumption
  <2>3. Split(q, flight'.batch, pending') /\ flight' = [pc |-> "insert", by |-> 0, batch |-> flight'.batch]
    <3> HIDE DEF q
    <3> QED BY <1>1, <2>1, <2>2, SplitAt
  <2> QED BY <1>1, <1>2, <1>3, <2>3
<1>4. CASE ~(Len(q) >= BatchMaxSize /\ flight = NoFlush) BY <1>1, <1>2, <1>4 DEF Enqueue
<1> QED BY <1>3, <1>4

\* A handler is done with a transaction.
Advances(l) ==
  /\ handler' \in [Ledgers -> HandlerType]
  /\ handler'[l] = [pc |-> IF handler[l].tx < Txs THEN "fetch" ELSE "flush", tx |-> handler[l].tx + 1]
  /\ \A k \in Ledgers \ {l} : handler'[k] = handler[k]

\* After a transaction the handler goes on to the next, or to its flush.
LEMMA AfterTxIs ==
  ASSUME Base, NEW l \in Ledgers, handler[l].pc = "fetch", AfterTx(l)
  PROVE  Advances(l) /\ FetchOK'
<1>0. handler \in [Ledgers -> HandlerType] /\ handler[l].tx \in 1..Txs BY DEF Base, TypeOK, FetchOK
<1> DEFINE p == IF handler[l].tx < Txs THEN "fetch" ELSE "flush"
           new == [pc |-> p, tx |-> handler[l].tx + 1]
<1>1. handler' = [handler EXCEPT ![l] = new] BY <1>0 DEF AfterTx
<1>2. p \in {"fetch", "flush"} /\ (p = "fetch" => handler[l].tx < Txs) OBVIOUS
<1>3. new \in HandlerType BY <1>0, <1>2, IndexerAssumption DEF HandlerType
<1>4. new.pc = p /\ new.tx = handler[l].tx + 1 OBVIOUS
<1>5. Advances(l) BY <1>0, <1>1, <1>3 DEF Advances
<1> HIDE DEF new
<1>6. FetchOK' BY <1>0, <1>1, <1>2, <1>3, <1>4, IndexerAssumption DEF FetchOK, Base
<1> QED BY <1>5, <1>6

-----------------------------------------------------------------------------
(* Types *)

\* A set of numbers that is not empty has a least one.
LEMMA LeastNat ==
    ASSUME NEW T \in SUBSET Nat, T # {}
    PROVE  \E m \in T : \A k \in T : m <= k
<1> DEFINE Less == OpToRel(<, Nat)
<1>1. IsWellFoundedOn(Less, Nat)
  BY NatLessThanWellFounded
<1>2. \A k, m \in Nat : <<k, m>> \in Less <=> k < m
  BY DEF OpToRel
<1> HIDE DEF Less
<1>3. PICK m \in T : \A k \in T : ~(<<k, m>> \in Less)
  BY <1>1, WFMin, Zenon
<1>4. \A k \in T : ~(k < m)
  BY <1>2, <1>3, Zenon
<1> QED BY <1>4

\* The numbers of a batch are numbers.
LEMMA NumbersNat ==
  ASSUME NEW s \in Seq(IndexedEvent)
  PROVE  Len(s) \in Nat /\ DOMAIN s = 1..Len(s) /\ \A i \in 1..Len(s) : s[i].seq \in Nat
<1>1. Len(s) \in Nat /\ DOMAIN s = 1..Len(s) BY LenProperties
<1>2. ASSUME NEW i \in 1..Len(s) PROVE s[i].seq \in Nat
  <2>1. s[i] \in IndexedEvent BY ElementOfSeq
  <2> QED BY <2>1 DEF IndexedEvent
<1> QED BY <1>1, <1>2

\* The numbers of a batch have a bound.
LEMMA NumbersBounded ==
  ASSUME NEW s \in Seq(IndexedEvent)
  PROVE  \E b \in Nat : \A i \in 1..Len(s) : s[i].seq <= b
<1>0. Len(s) \in Nat /\ \A i \in 1..Len(s) : s[i].seq \in Nat BY NumbersNat
<1> DEFINE Bounds(k) == \E b \in Nat : \A i \in 1..k : s[i].seq <= b
           bad == {k \in 0..Len(s) : ~Bounds(k)}
<1>1. SUFFICES ASSUME bad # {} PROVE FALSE
  <2>1. CASE bad = {}
    <3>1. Len(s) \notin bad BY <2>1
    <3>2. Len(s) \in 0..Len(s) BY <1>0
    <3>3. Bounds(Len(s)) BY <3>1, <3>2
    <3> QED BY <3>3
  <2> QED BY <2>1
<1>2. PICK m \in bad : \A k \in bad : m <= k
  <2>1. bad \in SUBSET Nat BY <1>0
  <2> HIDE DEF bad
  <2> QED BY <1>1, <2>1, LeastNat
<1>3. m # 0 /\ m \in 1..Len(s)
  <2>1. Bounds(0)
    <3>1. \A i \in 1..0 : s[i].seq <= 0 OBVIOUS
    <3> QED BY <3>1
  <2>2. m \in 0..Len(s) /\ ~Bounds(m) OBVIOUS
  <2> HIDE DEF Bounds, bad
  <2> QED BY <1>0, <2>1, <2>2
<1>4. Bounds(m - 1)
  <2>1. m - 1 \in 0..Len(s) /\ ~(m <= m - 1)
    <3> HIDE DEF Bounds, bad
    <3> QED BY <1>0, <1>3
  <2> QED BY <1>2, <2>1
<1>5. PICK b \in Nat : \A i \in 1..(m - 1) : s[i].seq <= b BY <1>4
<1>6. PICK c \in Nat : c >= b /\ c >= s[m].seq
  <2>0. s[m].seq \in Nat BY <1>0, <1>3
  <2> DEFINE x == s[m].seq
  <2> HIDE DEF x, Bounds, bad
  <2>1. x \in Nat BY <2>0 DEF x
  <2>2. b + x \in Nat /\ b + x >= b /\ b + x >= x BY <2>1
  <2> QED BY <2>2 DEF x
<1>7. ASSUME NEW i \in 1..m PROVE s[i].seq <= c
  <2>1. CASE i = m BY <1>6, <2>1
  <2>2. CASE i # m
    <3> HIDE DEF Bounds, bad
    <3>0. i \in 1..(m - 1) /\ i \in 1..Len(s) BY <1>0, <1>3, <2>2
    <3>1. s[i].seq \in Nat BY <1>0, <3>0
    <3> DEFINE x == s[i].seq
    <3>2. x \in Nat /\ x <= b BY <1>5, <3>0, <3>1
    <3> HIDE DEF x
    <3>3. x <= c BY <1>6, <3>2
    <3> QED BY <3>3 DEF x
  <2> QED BY <2>1, <2>2
<1>8. Bounds(m) BY <1>6, <1>7
<1> QED BY <1>2, <1>8

\* The highest number of a batch is the number of one of its events, and no
\* event has a higher one.
LEMMA HighestIs ==
  ASSUME NEW s \in Seq(IndexedEvent), Len(s) >= 1
  PROVE  /\ Highest(s) \in Nat
         /\ \E i \in 1..Len(s) : s[i].seq = Highest(s)
         /\ \A i \in 1..Len(s) : s[i].seq <= Highest(s)
<1>0. Len(s) \in Nat /\ DOMAIN s = 1..Len(s) /\ \A i \in 1..Len(s) : s[i].seq \in Nat BY NumbersNat
<1>1. PICK b \in Nat : \A i \in 1..Len(s) : s[i].seq <= b BY NumbersBounded
<1> DEFINE R == {b - s[i].seq : i \in 1..Len(s)}
<1>2. R \in SUBSET Nat /\ b - s[1].seq \in R BY <1>0, <1>1
<1>3. PICK m \in R : \A k \in R : m <= k
  <2> HIDE DEF R
  <2> QED BY <1>2, LeastNat
<1>4. PICK i \in 1..Len(s) : m = b - s[i].seq BY <1>3
<1>5. \A j \in 1..Len(s) : s[j].seq <= s[i].seq
  <2> TAKE j \in 1..Len(s)
  <2>1. b - s[j].seq \in R BY <1>0
  <2>2. b - s[i].seq <= b - s[j].seq BY <1>3, <1>4, <2>1
  <2>3. s[i].seq \in Nat /\ s[j].seq \in Nat BY <1>0
  <2> DEFINE x == s[i].seq
             y == s[j].seq
  <2>4. x \in Nat /\ y \in Nat /\ b - x <= b - y BY <2>2, <2>3
  <2> HIDE DEF x, y, R
  <2>5. y <= x BY <2>4
  <2> QED BY <2>5 DEF x, y
<1>6. s[i].seq \in Numbers(s) /\ \A x \in Numbers(s) : x <= s[i].seq BY <1>0, <1>4, <1>5 DEF Numbers
<1>7. Highest(s) \in Numbers(s) /\ \A x \in Numbers(s) : x <= Highest(s) BY <1>6, Zenon DEF Highest
<1>8. \A j \in 1..Len(s) : s[j].seq \in Numbers(s) BY <1>0 DEF Numbers
<1>9. PICK j \in 1..Len(s) : Highest(s) = s[j].seq BY <1>0, <1>7 DEF Numbers
<1> QED BY <1>0, <1>7, <1>8, <1>9

\* Counting a fault keeps the types.
LEMMA FaultTyped ==
  ASSUME TypeOK, NEW k \in {"fetch", "insert", "state", "crash"}, Fault(k),
         (k = "fetch" => faults.fetch < MaxFetchFails), (k = "insert" => faults.insert < MaxInsertFails),
         (k = "state" => faults.state < MaxStateFails), (k = "crash" => faults.crash < MaxCrashes)
  PROVE  faults' \in [fetch : 0..MaxFetchFails, insert : 0..MaxInsertFails, state : 0..MaxStateFails, crash : 0..MaxCrashes]
         /\ \A j \in {"fetch", "insert", "state", "crash"} : faults'[j] = IF j = k THEN faults[j] + 1 ELSE faults[j]
<1>0. faults \in [fetch : 0..MaxFetchFails, insert : 0..MaxInsertFails, state : 0..MaxStateFails, crash : 0..MaxCrashes]
  BY DEF TypeOK
<1>1. faults' = [faults EXCEPT ![k] = @ + 1] BY DEF Fault
<1>2. CASE k = "fetch" BY <1>0, <1>1, <1>2, IndexerAssumption
<1>3. CASE k = "insert" BY <1>0, <1>1, <1>3, IndexerAssumption
<1>4. CASE k = "state" BY <1>0, <1>1, <1>4, IndexerAssumption
<1>5. CASE k = "crash" BY <1>0, <1>1, <1>5, IndexerAssumption
<1> QED BY <1>2, <1>3, <1>4, <1>5

\* A fetched transaction keeps the types and places.
LEMMA FetchBase == ASSUME Base, NEW l \in Ledgers, FetchTx(l) PROVE Base'
<1> DEFINE e == EventOf(l)
<1>0. handler[l].pc = "fetch" /\ Enqueue(e) /\ AfterTx(l) BY DEF FetchTx, EventOf
<1>1. e \in IndexedEvent BY <1>0, EventTyped
<1>2. Advances(l) /\ FetchOK' BY <1>0, AfterTxIs
<1> HIDE DEF e
<1>3. \/ /\ flight = NoFlush /\ Split(Append(pending, e), flight'.batch, pending')
         /\ flight' = [pc |-> "insert", by |-> 0, batch |-> flight'.batch]
      \/ pending' = Append(pending, e) /\ UNCHANGED flight /\ Append(pending, e) \in Seq(IndexedEvent)
  BY <1>0, <1>1, EnqueueIs DEF Base
<1>4. pending' \in Seq(IndexedEvent) /\ flight' \in FlightType /\ FlightOK'
  <2>1. CASE flight = NoFlush /\ Split(Append(pending, e), flight'.batch, pending')
             /\ flight' = [pc |-> "insert", by |-> 0, batch |-> flight'.batch]
    <3>1. 0 \in 0..MaxLedger BY IndexerAssumption
    <3>2. pending' \in Seq(IndexedEvent) /\ flight' \in FlightType /\ flight'.pc = "insert" /\ flight'.by = 0
          /\ Len(flight'.batch) >= 1 BY <2>1, <3>1, SplitTyped
    <3> QED BY <3>2 DEF FlightOK
  <2>2. CASE pending' = Append(pending, e) /\ UNCHANGED flight /\ Append(pending, e) \in Seq(IndexedEvent)
    <3>1. flight \in FlightType /\ FlightOK BY DEF Base, TypeOK, FlightType
    <3>2. flight.pc # "none" /\ flight.by # 0 => handler'[flight.by].pc = "flushing"
      BY <1>0, <1>2, <3>1, IndexerAssumption DEF FlightOK, FlightType, Advances, Ledgers
    <3> QED BY <2>2, <3>1, <3>2 DEF FlightOK
  <2> QED BY <1>3, <2>1, <2>2
<1>5. sequence' \in Nat BY DEF FetchTx, NextSequence, Base, TypeOK
<1> QED BY <1>2, <1>4, <1>5 DEF FetchTx, Base, TypeOK, FlightType, Advances

\* So does a handler that moves,
LEMMA MoveBase ==
  ASSUME Base, NEW l \in Ledgers, handler[l].pc # "flushing", NEW pc \in {"idle", "last", "token"}, Moves(l, pc),
         UNCHANGED flight
  PROVE  handler' \in [Ledgers -> HandlerType] /\ FetchOK' /\ FlightOK'
<1>1. handler' \in [Ledgers -> HandlerType] /\ FetchOK' BY DEF Moves, Base, FetchOK
<1>2. flight.pc # "none" /\ flight.by # 0 => handler'[flight.by].pc = "flushing"
  BY IndexerAssumption DEF Base, TypeOK, FlightOK, Moves, Ledgers
<1> QED BY <1>1, <1>2 DEF Base, FlightOK

\* the start of a flush,
LEMMA FlushBase == ASSUME Base, NEW l \in Ledgers, Flush(l) PROVE Base'
<1>0. handler[l].pc = "flush" /\ flight = NoFlush /\ pending \in Seq(IndexedEvent) BY DEF Flush, Base, TypeOK
<1>1. CASE pending = <<>>
  <2>1. Moves(l, "last") /\ UNCHANGED <<pending, flight>> BY <1>1, CheckMoves DEF Flush, Base
  <2>2. handler' \in [Ledgers -> HandlerType] /\ FetchOK' /\ FlightOK' BY <1>0, <2>1, MoveBase
  <2> QED BY <2>1, <2>2 DEF Flush, Base, TypeOK
<1>2. CASE pending # <<>>
  <2>1. TakeBatch(l, pending) /\ Moves(l, "flushing") BY <1>2, GotoMoves DEF Flush, Base
  <2>2. Split(pending, flight'.batch, pending') /\ flight' = [pc |-> "insert", by |-> l, batch |-> flight'.batch]
    BY <1>0, <1>2, <2>1, TakeSplit
  <2>0. l \in 0..MaxLedger BY IndexerAssumption DEF Ledgers
  <2>3. pending' \in Seq(IndexedEvent) /\ flight' \in FlightType /\ flight'.pc = "insert" /\ flight'.by = l
          /\ Len(flight'.batch) >= 1 BY <2>0, <2>2, SplitTyped
  <2>4. FlightOK' BY <2>1, <2>3 DEF FlightOK, Moves
  <2>5. FetchOK' /\ handler' \in [Ledgers -> HandlerType] BY <2>1 DEF FetchOK, Moves, Base
  <2> QED BY <2>3, <2>4, <2>5 DEF Flush, Base, TypeOK, FlightType
<1> QED BY <1>1, <1>2

\* and every step.
LEMMA BaseStep == Base /\ [Next]_vars => Base'
<1> SUFFICES ASSUME Base, [Next]_vars PROVE Base' OBVIOUS
<1>0. TypeOK /\ FetchOK /\ FlightOK BY DEF Base
<1>1. CASE LedgerCloses
  <2>1. tip' \in 0..MaxLedger BY <1>0, <1>1, IndexerAssumption DEF LedgerCloses, TypeOK
  <2>2. UNCHANGED <<events, state, cursor, sequence, pending, flight, highest, handler, faults, overlapped>>
    BY <1>1 DEF LedgerCloses, memory
  <2> QED BY <1>0, <2>1, <2>2 DEF Base, TypeOK, FetchOK, FlightOK
<1>2. CASE HandleLedgerRecord
  <2> DEFINE new == [pc |-> "fetch", tx |-> 1]
             l == cursor + 1
  <2>1. l \in Ledgers /\ handler[l].pc = "idle" /\ handler' = [handler EXCEPT ![l] = new] /\ UNCHANGED flight
    BY <1>0, <1>2, IndexerAssumption DEF HandleLedgerRecord, TypeOK, Ledgers
  <2>2. new \in HandlerType /\ new.tx \in 1..Txs /\ new.pc = "fetch" BY IndexerAssumption DEF HandlerType
  <2>3. cursor' \in 0..MaxLedger BY <1>0, <1>2, IndexerAssumption DEF HandleLedgerRecord, TypeOK
  <2> HIDE DEF new, l
  <2>4. FetchOK' /\ handler' \in [Ledgers -> HandlerType] BY <1>0, <2>1, <2>2 DEF FetchOK, TypeOK
  <2>5. flight.pc # "none" /\ flight.by # 0 => handler'[flight.by].pc = "flushing"
    BY <1>0, <2>1, <2>2, IndexerAssumption DEF TypeOK, FlightOK, Ledgers
  <2>6. FlightOK' BY <1>0, <2>1, <2>5 DEF FlightOK
  <2>7. overlapped' \in BOOLEAN BY <1>2 DEF HandleLedgerRecord
  <2> QED BY <1>0, <1>2, <2>3, <2>4, <2>6, <2>7 DEF HandleLedgerRecord, Base, TypeOK
<1>3. ASSUME NEW l \in Ledgers, FetchTx(l) PROVE Base' BY <1>3, FetchBase
<1>4. ASSUME NEW l \in Ledgers, Flush(l) PROVE Base' BY <1>4, FlushBase
<1>5. ASSUME NEW l \in Ledgers, SetLastIndexedLedger(l) PROVE Base'
  <2>1. Moves(l, "token") BY <1>0, <1>5, GotoMoves DEF SetLastIndexedLedger
  <2>2. handler' \in [Ledgers -> HandlerType] /\ FetchOK' /\ FlightOK' BY <1>5, <2>1, MoveBase DEF SetLastIndexedLedger
  <2>0. l \in 0..MaxLedger /\ state \in IndexerState /\ state' = [state EXCEPT !.last = l]
    BY <1>0, <1>5, IndexerAssumption DEF SetLastIndexedLedger, TypeOK, Ledgers
  <2>3. state' \in IndexerState BY <2>0 DEF IndexerState
  <2> QED BY <1>0, <1>5, <2>2, <2>3 DEF SetLastIndexedLedger, Base, TypeOK
<1>6. ASSUME NEW l \in Ledgers, SetLedgerPagingToken(l) PROVE Base'
  <2>1. Moves(l, "idle") BY <1>0, <1>6, GotoMoves DEF SetLedgerPagingToken
  <2>2. handler' \in [Ledgers -> HandlerType] /\ FetchOK' /\ FlightOK' BY <1>6, <2>1, MoveBase DEF SetLedgerPagingToken
  <2>0. l \in 0..MaxLedger /\ state \in IndexerState /\ state' = [state EXCEPT !.token = l]
    BY <1>0, <1>6, IndexerAssumption DEF SetLedgerPagingToken, TypeOK, Ledgers
  <2>3. state' \in IndexerState BY <2>0 DEF IndexerState
  <2> QED BY <1>0, <1>6, <2>2, <2>3 DEF SetLedgerPagingToken, Base, TypeOK
<1>7. ASSUME NEW l \in Ledgers, FetchTxFails(l) PROVE Base'
  <2>1. Advances(l) /\ FetchOK' /\ handler[l].pc = "fetch" /\ UNCHANGED flight BY <1>7, AfterTxIs DEF FetchTxFails
  <2>2. flight.pc # "none" /\ flight.by # 0 => handler'[flight.by].pc = "flushing"
    BY <1>0, <2>1, IndexerAssumption DEF FlightOK, TypeOK, Advances, Ledgers
  <2>3. FlightOK' BY <1>0, <2>1, <2>2 DEF FlightOK
  <2>4. faults' \in [fetch : 0..MaxFetchFails, insert : 0..MaxInsertFails, state : 0..MaxStateFails, crash : 0..MaxCrashes]
    BY <1>0, <1>7, FaultTyped DEF FetchTxFails
  <2> QED BY <1>0, <1>7, <2>1, <2>3, <2>4 DEF FetchTxFails, Base, TypeOK, Advances
<1>8. ASSUME NEW l \in Ledgers, SetCursorFails(l) PROVE Base'
  <2>1. Moves(l, "idle") /\ handler[l].pc # "flushing" BY <1>0, <1>8, GotoMoves DEF SetCursorFails
  <2>2. handler' \in [Ledgers -> HandlerType] /\ FetchOK' /\ FlightOK' BY <1>8, <2>1, MoveBase DEF SetCursorFails
  <2>4. faults' \in [fetch : 0..MaxFetchFails, insert : 0..MaxInsertFails, state : 0..MaxStateFails, crash : 0..MaxCrashes]
    BY <1>0, <1>8, FaultTyped DEF SetCursorFails
  <2> QED BY <1>0, <1>8, <2>2, <2>4 DEF SetCursorFails, Base, TypeOK
<1>9. CASE TimerFlush
  <2>1. 0 \in 0..MaxLedger /\ pending \in Seq(IndexedEvent) BY <1>0, IndexerAssumption DEF TypeOK
  <2>2. Split(pending, flight'.batch, pending') /\ flight' = [pc |-> "insert", by |-> 0, batch |-> flight'.batch]
    BY <1>9, <2>1, TakeSplit DEF TimerFlush
  <2>3. pending' \in Seq(IndexedEvent) /\ flight' \in FlightType /\ flight'.pc = "insert" /\ flight'.by = 0
          /\ Len(flight'.batch) >= 1 BY <2>1, <2>2, SplitTyped
  <2>4. FlightOK' BY <2>3 DEF FlightOK
  <2> QED BY <1>0, <1>9, <2>3, <2>4 DEF TimerFlush, Base, TypeOK, FlightType, FetchOK
<1>10. CASE PersistBatch
  <2>0. flight \in FlightType /\ flight.pc = "insert" BY <1>0, <1>10 DEF TypeOK, FlightType, PersistBatch
  <2>e. events' \subseteq IndexedEvent
    BY <1>0, <1>10, <2>0, ElementOfSeq, LenProperties DEF PersistBatch, Inserted, TypeOK, FlightType, ToSet
  <2>1. CASE Highest(flight.batch) > highest
    <3>1. highest' = Highest(flight.batch) /\ flight' = [flight EXCEPT !.pc = "counter"] /\ UNCHANGED <<pending, handler>>
      BY <1>10, <2>1 DEF PersistBatch
    <3>2. flight' \in FlightType /\ flight'.pc = "counter" /\ flight'.by = flight.by /\ flight'.batch = flight.batch
      BY <2>0, <3>1 DEF FlightType
    <3>3. FlightOK' BY <1>0, <2>0, <3>1, <3>2 DEF FlightOK
    <3>4. highest' \in Nat
      <4>1. flight.batch \in Seq(IndexedEvent) /\ Len(flight.batch) >= 1 BY <1>0, <2>0 DEF FlightType, FlightOK
      <4> QED BY <3>1, <4>1, HighestIs
    <3> QED BY <1>0, <1>10, <2>e, <3>1, <3>2, <3>3, <3>4 DEF PersistBatch, Base, TypeOK, FlightType, FetchOK
  <2>2. CASE ~(Highest(flight.batch) > highest)
    <3>1. NextBatch /\ UNCHANGED highest BY <1>10, <2>2 DEF PersistBatch
    <3>2. QueueTyped /\ FetchOK' /\ FlightOK' BY <1>0, <2>0, <3>1, NextBatchIs, EndedBase, ContinuedBase DEF TypeOK
    <3> QED BY <1>0, <1>10, <2>e, <3>1, <3>2 DEF PersistBatch, Base, TypeOK, FlightType, QueueTyped
  <2> QED BY <2>1, <2>2
<1>11. CASE SetSequenceCounter
  <2>1. NextBatch /\ flight.pc # "none" BY <1>11 DEF SetSequenceCounter
  <2>2. QueueTyped /\ FetchOK' /\ FlightOK' BY <1>0, <2>1, NextBatchIs, EndedBase, ContinuedBase DEF TypeOK
  <2>3. state' \in IndexerState BY <1>0, <1>11 DEF SetSequenceCounter, TypeOK, IndexerState
  <2> QED BY <1>0, <1>11, <2>2, <2>3 DEF SetSequenceCounter, Base, TypeOK, FlightType, QueueTyped
<1>12. CASE PersistBatchFails
  <2>1. Requeue /\ flight.pc # "none" BY <1>12 DEF PersistBatchFails
  <2>2. QueueTyped /\ FetchOK' /\ FlightOK' BY <2>1, RequeueIs, EndedBase
  <2>4. faults' \in [fetch : 0..MaxFetchFails, insert : 0..MaxInsertFails, state : 0..MaxStateFails, crash : 0..MaxCrashes]
    BY <1>0, <1>12, FaultTyped DEF PersistBatchFails
  <2> QED BY <1>0, <1>12, <2>2, <2>4 DEF PersistBatchFails, Base, TypeOK, FlightType, QueueTyped
<1>13. CASE Restart
  <2>1. faults' \in [fetch : 0..MaxFetchFails, insert : 0..MaxInsertFails, state : 0..MaxStateFails, crash : 0..MaxCrashes]
    BY <1>0, <1>13, FaultTyped DEF Restart
  <2>2. cursor' \in 0..MaxLedger /\ sequence' \in Nat /\ highest' \in Nat
    BY <1>0, <1>13 DEF Restart, ResumeCursor, TypeOK, IndexerState, NoToken
  <2>3. Idle \in HandlerType /\ Idle.pc = "idle" BY IndexerAssumption DEF Idle, HandlerType
  <2>4. handler' \in [Ledgers -> HandlerType] /\ FetchOK' BY <1>13, <2>3 DEF Restart, FetchOK
  <2>5. pending' \in Seq(IndexedEvent) /\ flight' \in FlightType /\ FlightOK'
    BY <1>13, NoFlushTyped, EmptySeq DEF Restart, FlightOK
  <2> QED BY <1>0, <1>13, <2>1, <2>2, <2>4, <2>5 DEF Restart, Base, TypeOK, FlightType
<1>14. CASE UNCHANGED vars BY <1>0, <1>14 DEF vars, Base, TypeOK, FetchOK, FlightOK
<1> QED BY <1>1, <1>2, <1>3, <1>4, <1>5, <1>6, <1>7, <1>8, <1>9, <1>10, <1>11, <1>12, <1>13, <1>14 DEF Next, HandlerStep

\* They hold at the start.
LEMMA BaseInit == Init => Base
<1> SUFFICES ASSUME Init PROVE Base OBVIOUS
<1>1. Idle \in HandlerType /\ Idle.pc = "idle" BY IndexerAssumption DEF Idle, HandlerType
<1>2. state \in IndexerState
  <2>1. CASE ColdStart BY <2>1, IndexerAssumption DEF Init, IndexerState, NoToken
  <2>2. CASE ~ColdStart BY <2>2, IndexerAssumption DEF Init, IndexerState, NoToken
  <2> QED BY <2>1, <2>2
<1>3. handler \in [Ledgers -> HandlerType] /\ FetchOK BY <1>1 DEF Init, FetchOK
<1>4. pending \in Seq(IndexedEvent) /\ flight \in FlightType /\ FlightOK BY NoFlushTyped, EmptySeq DEF Init, FlightOK
<1>5. faults \in [fetch : 0..MaxFetchFails, insert : 0..MaxInsertFails, state : 0..MaxStateFails, crash : 0..MaxCrashes]
  BY IndexerAssumption DEF Init
<1>6. tip \in 0..MaxLedger /\ cursor \in 0..MaxLedger /\ events \subseteq IndexedEvent
      /\ sequence \in Nat /\ highest \in Nat /\ overlapped \in BOOLEAN
  <2>1. tip = 0 /\ cursor = 0 /\ events = {} /\ sequence = 0 /\ highest = 0 /\ overlapped = FALSE BY DEF Init
  <2>2. overlapped \in BOOLEAN /\ events \subseteq IndexedEvent BY <2>1
  <2>3. tip \in 0..MaxLedger /\ cursor \in 0..MaxLedger /\ sequence \in Nat /\ highest \in Nat
    BY <2>1, IndexerAssumption
  <2> QED BY <2>2, <2>3
<1> QED BY <1>2, <1>3, <1>4, <1>5, <1>6 DEF Base, TypeOK, FlightType

-----------------------------------------------------------------------------
(* The counter, and one row for one operation *)

\* The events on their way to the table.
Queued == ToSet(pending) \cup ToSet(flight.batch)

\* The events that have a number.
Known == events \cup Queued

\* A number other than zero is that of a row.
Named(n) == n > 0 => \E row \in events : row.seq = n

\* No operation has two events, in the table or on the way to it.
SameOnce == \A e, f \in Known : e.ledger = f.ledger /\ e.tx = f.tx => e = f

\* No event is known of an operation that is still to be fetched.
Fetched == \A e \in Known : e.ledger <= cursor /\ (handler[e.ledger].pc = "fetch" => e.tx < handler[e.ledger].tx)

\* A handler runs only for a ledger the stream has delivered.
Started == \A l \in Ledgers : handler[l].pc # "idle" => l <= cursor

\* Why no operation gets two rows while one process runs.
Once == SameOnce /\ Fetched /\ Started

\* The inductive invariant of the table.
TableInv == Base /\ Named(highest) /\ Named(state.counter) /\ (faults.crash = 0 => Once)

\* The elements of a batch.
LEMMA InSet ==
  ASSUME NEW s \in Seq(IndexedEvent), NEW e
  PROVE  e \in ToSet(s) <=> \E i \in 1..Len(s) : e = s[i]
  BY LenProperties DEF ToSet

\* Splitting a queue adds no event.
LEMMA SplitSet ==
  ASSUME NEW queue \in Seq(IndexedEvent), NEW b, NEW p, Split(queue, b, p)
  PROVE  ToSet(b) \cup ToSet(p) \subseteq ToSet(queue)
<1>0. b \in Seq(IndexedEvent) /\ p \in Seq(IndexedEvent) /\ Len(b) + Len(p) = Len(queue) BY DEF Split
<1>1. Len(b) \in Nat /\ Len(p) \in Nat /\ Len(queue) \in Nat BY <1>0, LenProperties
<1>2. ASSUME NEW e \in ToSet(b) PROVE e \in ToSet(queue)
  <2>1. PICK i \in 1..Len(b) : e = b[i] BY <1>0, InSet
  <2>2. e = queue[i] /\ i \in 1..Len(queue) BY <1>0, <1>1, <2>1 DEF Split
  <2> QED BY <2>2, InSet
<1>3. ASSUME NEW e \in ToSet(p) PROVE e \in ToSet(queue)
  <2>1. PICK i \in 1..Len(p) : e = p[i] BY <1>0, InSet
  <2>2. e = queue[Len(b) + i] /\ Len(b) + i \in 1..Len(queue) BY <1>0, <1>1, <2>1 DEF Split
  <2> QED BY <2>2, InSet
<1> QED BY <1>2, <1>3

\* Requeuing a batch adds no event.
LEMMA ConcatSet ==
  ASSUME NEW s \in Seq(IndexedEvent), NEW t \in Seq(IndexedEvent)
  PROVE  ToSet(s \o t) \subseteq ToSet(s) \cup ToSet(t)
<1>0. s \o t \in Seq(IndexedEvent) /\ Len(s \o t) = Len(s) + Len(t)
      /\ \A i \in 1 .. Len(s) + Len(t) : (s \o t)[i] = IF i <= Len(s) THEN s[i] ELSE t[i - Len(s)]
  BY ConcatProperties
<1>1. Len(s) \in Nat /\ Len(t) \in Nat BY LenProperties
<1> SUFFICES ASSUME NEW e \in ToSet(s \o t) PROVE e \in ToSet(s) \/ e \in ToSet(t) OBVIOUS
<1>2. PICK i \in 1..(Len(s) + Len(t)) : e = (s \o t)[i]
  <2> DEFINE q == s \o t
  <2>1. q \in Seq(IndexedEvent) /\ e \in ToSet(q) /\ Len(q) = Len(s) + Len(t) BY <1>0
  <2>2. \E i \in 1..Len(q) : e = q[i]
    <3> HIDE DEF q
    <3> QED BY <2>1, InSet
  <2> QED BY <2>1, <2>2
<1>3. CASE i <= Len(s)
  <2>1. e = s[i] /\ i \in 1..Len(s) BY <1>0, <1>1, <1>2, <1>3
  <2> QED BY <2>1, InSet
<1>4. CASE ~(i <= Len(s))
  <2>1. e = t[i - Len(s)] /\ i - Len(s) \in 1..Len(t) BY <1>0, <1>1, <1>2, <1>4
  <2> QED BY <2>1, InSet
<1> QED BY <1>3, <1>4

\* The empty queue holds no event.
LEMMA EmptySet == ToSet(<<>>) = {}
  BY DEF ToSet

\* Queuing an event adds that event.
LEMMA AppendSet ==
  ASSUME NEW s \in Seq(IndexedEvent), NEW e \in IndexedEvent
  PROVE  ToSet(Append(s, e)) \subseteq ToSet(s) \cup {e}
<1>0. Append(s, e) \in Seq(IndexedEvent) /\ Len(Append(s, e)) = Len(s) + 1
      /\ (\A i \in 1..Len(s) : Append(s, e)[i] = s[i]) /\ Append(s, e)[Len(s) + 1] = e
  BY AppendProperties
<1>1. Len(s) \in Nat BY LenProperties
<1> SUFFICES ASSUME NEW f \in ToSet(Append(s, e)) PROVE f \in ToSet(s) \/ f = e OBVIOUS
<1>2. PICK i \in 1..(Len(s) + 1) : f = Append(s, e)[i]
  <2> DEFINE q == Append(s, e)
  <2>1. q \in Seq(IndexedEvent) /\ f \in ToSet(q) /\ Len(q) = Len(s) + 1 BY <1>0
  <2>2. \E i \in 1..Len(q) : f = q[i]
    <3> HIDE DEF q
    <3> QED BY <2>1, InSet
  <2> QED BY <2>1, <2>2
<1>3. CASE i = Len(s) + 1 BY <1>0, <1>2, <1>3
<1>4. CASE i \in 1..Len(s)
  <2>1. f = s[i] BY <1>0, <1>2, <1>4
  <2> QED BY <1>4, <2>1, InSet
<1> QED BY <1>1, <1>3, <1>4

\* The next batch of a flush adds no event.
LEMMA ContinuedSet == ASSUME Base, Continued PROVE Queued' \subseteq Queued
<1>1. pending \in Seq(IndexedEvent) BY DEF Base, TypeOK
<1>2. ToSet(flight'.batch) \cup ToSet(pending') \subseteq ToSet(pending) BY <1>1, SplitSet DEF Continued
<1> QED BY <1>2 DEF Queued

\* The end of a flush adds no event.
LEMMA EndedSet ==
  ASSUME Base, Ended, pending' = pending \/ pending' = flight.batch \o pending
  PROVE  Queued' \subseteq Queued
<1>1. pending \in Seq(IndexedEvent) /\ flight.batch \in Seq(IndexedEvent) BY DEF Base, TypeOK
<1>2. flight'.batch = <<>> BY NoFlushTyped DEF Ended
<1>3. ToSet(pending') \subseteq Queued BY <1>1, ConcatSet DEF Queued
<1> QED BY <1>2, <1>3, EmptySet DEF Queued

\* Neither end of a batch adds an event.
LEMMA NextBatchSet == ASSUME Base, NextBatch PROVE Queued' \subseteq Queued
  BY NextBatchIs, ContinuedSet, EndedSet DEF Base

\* No handler goes back to a transaction it has left.
Onward ==
  \A l \in Ledgers : /\ handler'[l].pc = "fetch" => handler[l].pc = "fetch" /\ handler'[l].tx >= handler[l].tx
                     /\ handler'[l].pc # "idle" => handler[l].pc # "idle"

\* A handler that moves does not go back.
LEMMA MovesOnward ==
  ASSUME Base, NEW l \in Ledgers, handler[l].pc # "idle", NEW pc, pc # "fetch", Moves(l, pc)
  PROVE  Onward
<1>1. \A k \in Ledgers : handler[k].tx \in Int BY IndexerAssumption DEF Base, TypeOK, HandlerType
<1> QED BY <1>1 DEF Moves, Onward

\* Nor do handlers that stay.
LEMMA SameOnward == ASSUME Base, UNCHANGED handler PROVE Onward
<1>1. \A k \in Ledgers : handler[k].tx \in Int BY IndexerAssumption DEF Base, TypeOK, HandlerType
<1> QED BY <1>1 DEF Onward

\* Nor the handler whose flush ends.
LEMMA EndedOnward == ASSUME Base, flight.pc # "none", Ended PROVE Onward
<1>1. CASE flight.by = 0 BY <1>1, SameOnward DEF Ended
<1>2. CASE flight.by # 0
  <2>1. flight.by \in Ledgers /\ handler[flight.by].pc = "flushing"
    BY <1>2, IndexerAssumption DEF Base, TypeOK, Ledgers, FlightOK
  <2>2. Moves(flight.by, "last") \/ Moves(flight.by, "idle") BY <1>2, <2>1, CheckMoves DEF Base, Ended
  <2> QED BY <2>1, <2>2, MovesOnward
<1> QED BY <1>1, <1>2

\* Nor a handler when its flush goes on.
LEMMA NextBatchOnward == ASSUME Base, flight.pc # "none", NextBatch PROVE Onward
  BY NextBatchIs, EndedOnward, SameOnward DEF Base, Continued

\* The known events are well typed.
LEMMA KnownTyped == ASSUME Base PROVE Known \subseteq IndexedEvent
<1>1. pending \in Seq(IndexedEvent) /\ flight.batch \in Seq(IndexedEvent) /\ events \subseteq IndexedEvent BY DEF Base, TypeOK
<1>2. ToSet(pending) \subseteq IndexedEvent BY <1>1, InSet, ElementOfSeq
<1>3. ToSet(flight.batch) \subseteq IndexedEvent BY <1>1, InSet, ElementOfSeq
<1> QED BY <1>1, <1>2, <1>3 DEF Known, Queued

\* A step that adds no event and takes no handler back keeps Once.
LEMMA OnceKept ==
  ASSUME Base, Base', Once, Known' \subseteq Known, UNCHANGED cursor, Onward
  PROVE  Once'
<1>1. SameOnce' BY DEF Once, SameOnce
<1>2. Started' BY DEF Once, Started, Onward
<1>3. ASSUME NEW e \in Known' PROVE e.ledger <= cursor' /\ (handler'[e.ledger].pc = "fetch" => e.tx < handler'[e.ledger].tx)
  <2>1. e \in Known /\ e \in IndexedEvent BY <1>3, KnownTyped
  <2>2. e.ledger \in Ledgers /\ e.tx \in Int BY <2>1 DEF IndexedEvent
  <2>3. e.ledger <= cursor' /\ (handler[e.ledger].pc = "fetch" => e.tx < handler[e.ledger].tx) BY <2>1 DEF Once, Fetched
  <2>4. handler[e.ledger].tx \in Int /\ handler'[e.ledger].tx \in Int
    <3>1. handler[e.ledger] \in HandlerType /\ handler'[e.ledger] \in HandlerType BY <2>2 DEF Base, TypeOK
    <3> QED BY <3>1, IndexerAssumption DEF HandlerType
  <2> QED BY <2>2, <2>3, <2>4 DEF Onward
<1>4. Fetched' BY <1>3 DEF Fetched
<1> QED BY <1>1, <1>2, <1>4 DEF Once

\* And the invariant, when it leaves the table alone.
LEMMA TableKept ==
  ASSUME TableInv, Base', UNCHANGED <<events, highest, cursor>>, state'.counter \in {state.counter, highest},
         faults'.crash = faults.crash, Queued' \subseteq Queued, Onward
  PROVE  TableInv'
<1>1. Known' \subseteq Known BY DEF Known
<1>2. Once => Once' BY <1>1, OnceKept DEF TableInv
<1>3. Named(highest)' /\ Named(state.counter)' BY DEF TableInv, Named
<1> QED BY <1>2, <1>3 DEF TableInv

\* A fetched transaction gets an event that no other has (FetchTx).
LEMMA FetchTable == ASSUME TableInv, NEW l \in Ledgers, FetchTx(l) PROVE TableInv'
<1>b. Base /\ Base' BY FetchBase DEF TableInv
<1> DEFINE e == EventOf(l)
<1>0. handler[l].pc = "fetch" /\ Enqueue(e) /\ AfterTx(l) /\ UNCHANGED <<events, state, cursor, highest, faults>>
  BY DEF FetchTx, EventOf
<1>1. e \in IndexedEvent BY <1>0, <1>b, EventTyped
<1>2. Advances(l) BY <1>0, <1>b, AfterTxIs
<1>3. e.ledger = l /\ e.tx = handler[l].tx BY DEF EventOf
<1> HIDE DEF e
<1>4. Queued' \subseteq Queued \cup {e}
  <2>0. pending \in Seq(IndexedEvent) /\ Append(pending, e) \in Seq(IndexedEvent) BY <1>0, <1>1, <1>b, EnqueueIs DEF Base, TypeOK
  <2>1. ToSet(Append(pending, e)) \subseteq ToSet(pending) \cup {e} BY <1>1, <2>0, AppendSet
  <2>2. CASE flight = NoFlush /\ Split(Append(pending, e), flight'.batch, pending')
    <3>1. ToSet(flight'.batch) \cup ToSet(pending') \subseteq ToSet(Append(pending, e)) BY <2>0, <2>2, SplitSet
    <3> QED BY <2>1, <3>1 DEF Queued
  <2>3. CASE pending' = Append(pending, e) /\ UNCHANGED flight BY <2>1, <2>3 DEF Queued
  <2> QED BY <1>0, <1>1, <1>b, <2>2, <2>3, EnqueueIs DEF Base
<1>5. Known' \subseteq Known \cup {e} BY <1>0, <1>4 DEF Known
<1>6. ASSUME Once PROVE Once'
  <2>1. l <= cursor /\ \A f \in Known : ~(f.ledger = l /\ f.tx = handler[l].tx)
    <3>1. l <= cursor BY <1>0, <1>6 DEF Once, Started
    <3>2. ASSUME NEW f \in Known, f.ledger = l, f.tx = handler[l].tx PROVE FALSE
      <4>1. f.tx < handler[l].tx /\ f.tx \in Int BY <1>0, <1>6, <1>b, <3>2, KnownTyped DEF Once, Fetched, IndexedEvent
      <4> QED BY <3>2, <4>1
    <3> QED BY <3>1, <3>2
  <2>2. SameOnce' BY <1>3, <1>5, <1>6, <2>1 DEF Once, SameOnce
  <2>3. Started' BY <1>0, <1>2, <1>6, <2>1 DEF Once, Started, Advances
  <2>4. handler[l].tx \in Int BY <1>b, IndexerAssumption DEF Base, TypeOK, HandlerType
  <2>5. ASSUME NEW f \in Known' PROVE f.ledger <= cursor' /\ (handler'[f.ledger].pc = "fetch" => f.tx < handler'[f.ledger].tx)
    <3>1. f \in Known \/ f = e BY <1>5
    <3>2. handler'[l].tx = handler[l].tx + 1 BY <1>2 DEF Advances
    <3>3. CASE f = e BY <1>0, <1>3, <2>1, <2>4, <3>2, <3>3
    <3>4. CASE f \in Known
      <4>1. f.ledger \in Ledgers /\ f.tx \in Int BY <1>b, <3>4, KnownTyped DEF IndexedEvent
      <4>2. f.ledger <= cursor /\ (handler[f.ledger].pc = "fetch" => f.tx < handler[f.ledger].tx) BY <1>6, <3>4 DEF Once, Fetched
      <4>3. CASE f.ledger = l BY <1>0, <2>4, <3>2, <4>1, <4>2, <4>3
      <4>4. CASE f.ledger # l BY <1>0, <1>2, <4>1, <4>2, <4>4 DEF Advances
      <4> QED BY <4>3, <4>4
    <3> QED BY <3>1, <3>3, <3>4
  <2>6. Fetched' BY <2>5 DEF Fetched
  <2> QED BY <2>2, <2>3, <2>6 DEF Once
<1> QED BY <1>0, <1>6, <1>b DEF TableInv, Named

\* A delivered ledger starts a handler (handleLedgerRecord).
LEMMA RecordTable == ASSUME TableInv, HandleLedgerRecord, Base' PROVE TableInv'
<1> DEFINE l == cursor + 1
<1>0. l \in Ledgers /\ handler[l].pc = "idle" /\ handler' = [handler EXCEPT ![l] = [pc |-> "fetch", tx |-> 1]]
      /\ UNCHANGED <<events, state, pending, flight, highest, faults>> /\ cursor' = l /\ cursor \in Int
      /\ handler \in [Ledgers -> HandlerType]
  BY IndexerAssumption DEF HandleLedgerRecord, TableInv, Base, TypeOK, Ledgers
<1>1. Known' = Known BY <1>0 DEF Known, Queued
<1>2. ASSUME Once PROVE Once'
  <2>1. SameOnce' BY <1>1, <1>2 DEF Once, SameOnce
  <2>2. Started' BY <1>0, <1>2 DEF Once, Started, Ledgers
  <2>3. ASSUME NEW e \in Known PROVE e.ledger <= cursor' /\ (handler'[e.ledger].pc = "fetch" => e.tx < handler'[e.ledger].tx)
    <3>1. e.ledger \in Ledgers /\ e.ledger \in Int BY KnownTyped DEF IndexedEvent, TableInv, Ledgers
    <3>2. e.ledger <= cursor /\ (handler[e.ledger].pc = "fetch" => e.tx < handler[e.ledger].tx) BY <1>2, <2>3 DEF Once, Fetched
    <3>3. e.ledger # l /\ e.ledger <= cursor' BY <1>0, <3>1, <3>2
    <3>4. handler'[e.ledger] = handler[e.ledger] BY <1>0, <3>1, <3>3
    <3> QED BY <3>2, <3>3, <3>4
  <2>4. Fetched' BY <1>1, <2>3 DEF Fetched
  <2> QED BY <2>1, <2>2, <2>4 DEF Once
<1> QED BY <1>0, <1>2 DEF TableInv, Named

\* The insert of a batch stores the row that its highest number names
\* (persistBatch).
LEMMA PersistTable == ASSUME TableInv, PersistBatch, Base' PROVE TableInv'
<1>0. Base /\ flight.pc = "insert" /\ events' = events \cup Inserted(flight.batch) /\ UNCHANGED <<state, cursor, faults>>
  BY DEF TableInv, PersistBatch
<1>1. flight.batch \in Seq(IndexedEvent) /\ Len(flight.batch) >= 1 BY <1>0 DEF Base, TypeOK, FlightOK
<1>2. \A e \in ToSet(flight.batch) : \E row \in events' : row.seq = e.seq BY <1>0 DEF Inserted
<1>3. Named(state.counter)' BY <1>0 DEF TableInv, Named
<1>4. events' \subseteq events \cup ToSet(flight.batch) BY <1>0 DEF Inserted
<1>5. Named(highest)' /\ Queued' \subseteq Queued /\ Onward
  <2>1. CASE Highest(flight.batch) > highest
    <3>1. highest' = Highest(flight.batch) /\ flight' = [flight EXCEPT !.pc = "counter"] /\ UNCHANGED <<pending, handler>>
      BY <2>1 DEF PersistBatch
    <3>2. PICK i \in 1..Len(flight.batch) : flight.batch[i].seq = highest' BY <1>1, <3>1, HighestIs
    <3>3. flight.batch[i] \in ToSet(flight.batch) BY <1>1, InSet
    <3>4. Named(highest)' BY <1>2, <3>2, <3>3 DEF Named
    <3>5. flight'.batch = flight.batch BY <1>0, <3>1 DEF Base, TypeOK
    <3> QED BY <1>0, <3>1, <3>4, <3>5, SameOnward DEF Queued
  <2>2. CASE ~(Highest(flight.batch) > highest)
    <3>1. NextBatch /\ UNCHANGED highest BY <2>2 DEF PersistBatch
    <3>2. Named(highest)' BY <1>0, <3>1 DEF Named, TableInv
    <3> QED BY <1>0, <3>1, <3>2, NextBatchSet, NextBatchOnward
  <2> QED BY <2>1, <2>2
<1>6. Known' \subseteq Known BY <1>4, <1>5 DEF Known, Queued
<1>7. Once => Once' BY <1>0, <1>5, <1>6, OnceKept
<1> QED BY <1>0, <1>3, <1>5, <1>7 DEF TableInv

\* Every step keeps the invariant.
LEMMA TableStep == TableInv /\ [Next]_vars => TableInv'
<1> SUFFICES ASSUME TableInv, [Next]_vars PROVE TableInv' OBVIOUS
<1>b. Base /\ Base' /\ TypeOK BY BaseStep DEF TableInv, Base
<1>f. ASSUME NEW k \in {"fetch", "insert", "state"}, Fault(k) PROVE faults'.crash = faults.crash
  BY <1>b, <1>f DEF Fault, TypeOK
<1>1. CASE LedgerCloses
  <2>1. UNCHANGED <<events, highest, cursor, state, faults, pending, flight, handler>> BY <1>1 DEF LedgerCloses, memory
  <2>2. Queued' \subseteq Queued BY <2>1 DEF Queued
  <2> QED BY <1>b, <2>1, <2>2, SameOnward, TableKept
<1>2. CASE HandleLedgerRecord BY <1>2, <1>b, RecordTable
<1>3. ASSUME NEW l \in Ledgers, FetchTx(l) PROVE TableInv' BY <1>3, FetchTable
<1>4. ASSUME NEW l \in Ledgers, Flush(l) PROVE TableInv'
  <2>0. handler[l].pc = "flush" /\ flight = NoFlush /\ pending \in Seq(IndexedEvent) /\ UNCHANGED <<events, highest, cursor, state, faults>>
    BY <1>4, <1>b DEF Flush, TypeOK
  <2>1. CASE pending = <<>>
    <3>1. Moves(l, "last") /\ UNCHANGED <<pending, flight>> BY <1>4, <1>b, <2>1, CheckMoves DEF Flush
    <3>2. Onward BY <1>b, <2>0, <3>1, MovesOnward
    <3>3. Queued' \subseteq Queued BY <3>1 DEF Queued
    <3> QED BY <1>b, <2>0, <3>2, <3>3, TableKept
  <2>2. CASE pending # <<>>
    <3>1. TakeBatch(l, pending) /\ Moves(l, "flushing") BY <1>4, <1>b, <2>2, GotoMoves DEF Flush
    <3>2. Split(pending, flight'.batch, pending') BY <2>0, <2>2, <3>1, TakeSplit
    <3>3. Queued' \subseteq Queued BY <2>0, <3>2, SplitSet DEF Queued
    <3>4. Onward BY <1>b, <2>0, <3>1, MovesOnward
    <3> QED BY <1>b, <2>0, <3>3, <3>4, TableKept
  <2> QED BY <2>1, <2>2
<1>5. ASSUME NEW l \in Ledgers, SetLastIndexedLedger(l) PROVE TableInv'
  <2>1. Moves(l, "token") /\ handler[l].pc = "last" /\ UNCHANGED <<events, highest, cursor, faults, pending, flight>>
    BY <1>5, <1>b, GotoMoves DEF SetLastIndexedLedger
  <2>2. state'.counter = state.counter BY <1>5, <1>b DEF SetLastIndexedLedger, TypeOK, IndexerState
  <2>3. Queued' \subseteq Queued /\ Onward BY <1>b, <2>1, MovesOnward DEF Queued
  <2> QED BY <1>b, <2>1, <2>2, <2>3, TableKept
<1>6. ASSUME NEW l \in Ledgers, SetLedgerPagingToken(l) PROVE TableInv'
  <2>1. Moves(l, "idle") /\ handler[l].pc = "token" /\ UNCHANGED <<events, highest, cursor, faults, pending, flight>>
    BY <1>6, <1>b, GotoMoves DEF SetLedgerPagingToken
  <2>2. state'.counter = state.counter BY <1>6, <1>b DEF SetLedgerPagingToken, TypeOK, IndexerState
  <2>3. Queued' \subseteq Queued /\ Onward BY <1>b, <2>1, MovesOnward DEF Queued
  <2> QED BY <1>b, <2>1, <2>2, <2>3, TableKept
<1>7. ASSUME NEW l \in Ledgers, FetchTxFails(l) PROVE TableInv'
  <2>1. Advances(l) /\ handler[l].pc = "fetch" /\ UNCHANGED <<events, highest, cursor, state, pending, flight>>
    BY <1>7, <1>b, AfterTxIs DEF FetchTxFails
  <2>2. \A k \in Ledgers : handler[k].tx \in Int BY <1>b, IndexerAssumption DEF TypeOK, HandlerType
  <2>3. Onward BY <2>1, <2>2 DEF Onward, Advances
  <2>4. faults'.crash = faults.crash BY <1>7, <1>f DEF FetchTxFails
  <2>5. Queued' \subseteq Queued BY <2>1 DEF Queued
  <2> QED BY <1>b, <2>1, <2>3, <2>4, <2>5, TableKept
<1>8. ASSUME NEW l \in Ledgers, SetCursorFails(l) PROVE TableInv'
  <2>1. Moves(l, "idle") /\ handler[l].pc # "idle" /\ UNCHANGED <<events, highest, cursor, state, pending, flight>>
    BY <1>8, <1>b, GotoMoves DEF SetCursorFails
  <2>4. faults'.crash = faults.crash BY <1>8, <1>f DEF SetCursorFails
  <2>3. Queued' \subseteq Queued /\ Onward BY <1>b, <2>1, MovesOnward DEF Queued
  <2> QED BY <1>b, <2>1, <2>3, <2>4, TableKept
<1>9. CASE TimerFlush
  <2>1. pending \in Seq(IndexedEvent) BY <1>b DEF TypeOK
  <2>2. Split(pending, flight'.batch, pending') BY <1>9, <2>1, TakeSplit DEF TimerFlush
  <2>3. Queued' \subseteq Queued BY <2>1, <2>2, SplitSet DEF Queued
  <2> QED BY <1>9, <1>b, <2>3, SameOnward, TableKept DEF TimerFlush
<1>10. CASE PersistBatch BY <1>10, <1>b, PersistTable
<1>11. CASE SetSequenceCounter
  <2>1. Queued' \subseteq Queued /\ Onward BY <1>11, <1>b, NextBatchSet, NextBatchOnward DEF SetSequenceCounter
  <2>2. state'.counter = highest BY <1>11, <1>b DEF SetSequenceCounter, TypeOK, IndexerState
  <2> QED BY <1>11, <1>b, <2>1, <2>2, TableKept DEF SetSequenceCounter
<1>12. CASE PersistBatchFails
  <2>1. Requeue /\ flight.pc # "none" /\ UNCHANGED <<events, highest, cursor, state>> BY <1>12 DEF PersistBatchFails
  <2>2. Queued' \subseteq Queued /\ Onward BY <1>b, <2>1, RequeueIs, EndedSet, EndedOnward
  <2>3. faults'.crash = faults.crash BY <1>12, <1>f DEF PersistBatchFails
  <2> QED BY <1>b, <2>1, <2>2, <2>3, TableKept
<1>13. CASE Restart
  <2>1. faults'.crash # 0 BY <1>13, <1>b, IndexerAssumption DEF Restart, Fault, TypeOK
  <2>2. Named(highest)' /\ Named(state.counter)' BY <1>13 DEF Restart, TableInv, Named
  <2> QED BY <1>b, <2>1, <2>2 DEF TableInv
<1>14. CASE UNCHANGED vars BY <1>14, <1>b DEF vars, TableInv, Named, Once, SameOnce, Fetched, Started, Known, Queued
<1> QED BY <1>1, <1>2, <1>3, <1>4, <1>5, <1>6, <1>7, <1>8, <1>9, <1>10, <1>11, <1>12, <1>13, <1>14 DEF Next, HandlerStep

\* The invariant says what TableIsExact says.
LEMMA TableHolds == TableInv => TableIsExact
<1> SUFFICES ASSUME TableInv PROVE TypeOK /\ CounterIsCommitted /\ StoredOnce BY DEF TableIsExact
<1>1. TypeOK /\ CounterIsCommitted BY DEF TableInv, Base, Named, CounterIsCommitted
<1>2. ASSUME faults.crash = 0, NEW l \in Ledgers, NEW n \in 1..Txs PROVE Cardinality(Rows(l, n)) <= 1
  <2>1. \A e, f \in Rows(l, n) : e = f BY <1>2 DEF TableInv, Once, SameOnce, Known, Rows
  <2>2. CASE Rows(l, n) = {} BY <2>2, FS_EmptySet
  <2>3. CASE Rows(l, n) # {}
    <3>1. PICK e : Rows(l, n) = {e} BY <2>1, <2>3
    <3>2. Cardinality({e}) = 1 BY FS_Singleton
    <3> QED BY <3>1, <3>2
  <2> QED BY <2>2, <2>3
<1> QED BY <1>1, <1>2 DEF StoredOnce

\* The stored sequence counter always names a stored row, and while one
\* process runs no operation has two rows, for any number of ledgers,
\* transactions, handlers at once, failures and crashes (persistBatch,
\* setSequenceCounter).
THEOREM TableExact == Spec => []TableIsExact
<1>1. Init => TableInv
  <2> SUFFICES ASSUME Init PROVE TableInv OBVIOUS
  <2>1. Base BY BaseInit
  <2>2. Named(highest) /\ Named(state.counter) BY DEF Init, Named
  <2>3. Known = {} BY EmptySet, NoFlushTyped DEF Init, Known, Queued
  <2>4. Once BY <2>3 DEF Once, SameOnce, Fetched, Started, Init, Idle
  <2> QED BY <2>1, <2>2, <2>4 DEF TableInv
<1> QED BY <1>1, TableStep, TableHolds, PTL DEF Spec

-----------------------------------------------------------------------------
(* Numbers and places *)

\* The number of operations in the ledgers up to one.
Upto(l) == l * Txs

\* The place of an event in the order of the chain.
Place(e) == Upto(e.ledger - 1) + e.tx

\* How far the stream has been turned into events.
Position ==
  IF cursor \in Ledgers /\ handler[cursor].pc = "fetch"
    THEN Upto(cursor - 1) + handler[cursor].tx - 1 ELSE Upto(cursor)

\* The operation at a place has a row.
InTable(k, rows) == \E row \in rows : Place(row) = k

\* The number of events that have a number and no row yet.
Wait(q, f) == Len(q) + (IF f.pc = "insert" THEN Len(f.batch) ELSE 0)

\* A batch has consecutive numbers and consecutive places.
Line(s, n, k) == \A i \in 1..Len(s) : s[i].seq = n + i /\ Place(s[i]) = k + i

\* The queue, behind the batch being inserted, ends at the number and the
\* place that were reached.
QueueOK(n, k, q, f) ==
  /\ Line(q, n - Len(q), k - Len(q))
  /\ f.pc = "insert" => Line(f.batch, n - Wait(q, f), k - Wait(q, f))

\* The counter is the number of the last event that needs no insert, but for
\* the write of the counter that is still to come.
CountOK(n, w, f, h, c) ==
  /\ f.pc = "counter" => h = n - w /\ c <= h
  /\ f.pc # "counter" => c = n - w /\ h = c

\* The operations of the events that left the queue are in the table; and a
\* row whose number is beyond the counter, which a crash left behind, shows
\* that its place and all before it are.
RowsOK(n, k, w, c, rows) ==
  /\ \A j \in 1..(k - w) : InTable(j, rows)
  /\ \A row \in rows : row.seq > c => \A j \in 1..(row.seq - n + k) : InTable(j, rows)

\* A restart numbers the ledgers after the token no higher than the first
\* time.
TokenOK(n, k, c, t) == t \in 0..cursor /\ c + k >= n + Upto(t)

\* Only the ledger last delivered is being handled, and its cursor is written
\* when nothing waits.
AloneOK(w) ==
  \A l \in Ledgers : /\ handler[l].pc # "idle" => l = cursor
                     /\ handler[l].pc \in {"last", "token"} => w = 0 /\ flight.pc # "counter"

\* What makes the table complete up to the token.
OrderInv ==
  /\ QueueOK(sequence, Position, pending, flight)
  /\ CountOK(sequence, Wait(pending, flight), flight, highest, state.counter)
  /\ RowsOK(sequence, Position, Wait(pending, flight), state.counter, events)
  /\ TokenOK(sequence, Position, state.counter, state.token)
  /\ AloneOK(Wait(pending, flight))

\* The inductive invariant: it holds while ledgers are handled one after the
\* other and fetches and writes of the state succeed.
OrderedTable == Orderly => OrderInv

\* Upto is a number.
LEMMA UptoNat == ASSUME NEW l \in Int, l >= 0 PROVE Upto(l) \in Nat
  BY IndexerAssumption DEF Upto

\* A ledger has Txs operations.
LEMMA UptoNext == ASSUME NEW l \in Int PROVE Upto(l) = Upto(l - 1) + Txs /\ Upto(l) \in Int
  BY IndexerAssumption DEF Upto

\* The operations of a later ledger come later.
LEMMA UptoMono ==
  ASSUME NEW l \in Int, NEW m \in Int, l < m
  PROVE  Upto(l) + Txs <= Upto(m)
<1>1. PICK d \in Nat : m = l + 1 + d
  <2>1. m - l - 1 \in Nat /\ m = l + 1 + (m - l - 1) OBVIOUS
  <2> QED BY <2>1
<1>2. d * Txs \in Nat BY IndexerAssumption
<1>3. m * Txs = l * Txs + Txs + d * Txs BY <1>1, IndexerAssumption
<1>4. l * Txs \in Int BY IndexerAssumption
<1> QED BY <1>2, <1>3, <1>4, IndexerAssumption DEF Upto

\* The place of an event is a number.
LEMMA PlaceInt ==
  ASSUME NEW e \in IndexedEvent
  PROVE  Place(e) \in Int /\ e.seq \in Int /\ e.ledger \in Ledgers /\ e.ledger \in Int /\ e.tx \in 1..Txs
<1>1. e.ledger \in Ledgers /\ e.tx \in 1..Txs /\ e.seq \in Int BY DEF IndexedEvent
<1>2. e.ledger \in Int /\ e.ledger - 1 >= 0 BY <1>1 DEF Ledgers
<1>3. Upto(e.ledger - 1) \in Nat BY <1>2, UptoNat
<1> QED BY <1>1, <1>2, <1>3 DEF Place

\* An event is that of the operation at its place.
LEMMA PlaceUnique ==
  ASSUME NEW e \in IndexedEvent, NEW l \in Ledgers, NEW n \in 1..Txs, Place(e) = Upto(l - 1) + n
  PROVE  e.ledger = l /\ e.tx = n
<1>1. e.ledger \in Int /\ e.tx \in 1..Txs /\ Place(e) = Upto(e.ledger - 1) + e.tx BY PlaceInt DEF Place
<1>2. l \in Int BY DEF Ledgers
<1> DEFINE a == e.ledger
<1>3. Upto(a - 1) \in Int /\ Upto(l - 1) \in Int BY <1>1, <1>2, UptoNext
<1>4. ~(a < l)
  <2>1. SUFFICES ASSUME a < l PROVE FALSE OBVIOUS
  <2>2. Upto(a - 1) + Txs <= Upto(l - 1) BY <1>1, <1>2, <2>1, UptoMono
  <2> QED BY <1>1, <1>3, <2>2, IndexerAssumption
<1>5. ~(l < a)
  <2>1. SUFFICES ASSUME l < a PROVE FALSE OBVIOUS
  <2>2. Upto(l - 1) + Txs <= Upto(a - 1) BY <1>1, <1>2, <2>1, UptoMono
  <2> QED BY <1>1, <1>3, <2>2, IndexerAssumption
<1>6. a = l BY <1>1, <1>2, <1>4, <1>5
<1> QED BY <1>1, <1>3, <1>6

\* Splitting a queue leaves two lines.
LEMMA LineSplit ==
  ASSUME NEW queue \in Seq(IndexedEvent), NEW b, NEW p, Split(queue, b, p), NEW n \in Int, NEW k \in Int,
         Line(queue, n - Len(queue), k - Len(queue))
  PROVE  /\ Line(b, n - Len(queue), k - Len(queue))
         /\ Line(p, n - Len(p), k - Len(p))
         /\ Len(b) \in Nat /\ Len(p) \in Nat /\ Len(b) + Len(p) = Len(queue)
<1>0. b \in Seq(IndexedEvent) /\ p \in Seq(IndexedEvent) /\ Len(b) + Len(p) = Len(queue) BY DEF Split
<1>1. Len(b) \in Nat /\ Len(p) \in Nat /\ Len(queue) \in Nat BY <1>0, LenProperties
<1>2. ASSUME NEW i \in 1..Len(b) PROVE b[i].seq = n - Len(queue) + i /\ Place(b[i]) = k - Len(queue) + i
  <2>1. b[i] = queue[i] /\ i \in 1..Len(queue) BY <1>0, <1>1 DEF Split
  <2> QED BY <2>1 DEF Line
<1>3. ASSUME NEW i \in 1..Len(p) PROVE p[i].seq = n - Len(p) + i /\ Place(p[i]) = k - Len(p) + i
  <2>1. p[i] = queue[Len(b) + i] /\ Len(b) + i \in 1..Len(queue) BY <1>0, <1>1 DEF Split
  <2>2. p[i].seq = n - Len(queue) + (Len(b) + i) /\ Place(p[i]) = k - Len(queue) + (Len(b) + i) BY <2>1 DEF Line
  <2>3. n - Len(queue) + (Len(b) + i) = n - Len(p) + i /\ k - Len(queue) + (Len(b) + i) = k - Len(p) + i
    <3>1. Len(b) = Len(queue) - Len(p) BY <1>0, <1>1
    <3> QED BY <1>1, <3>1, SMTT(30)
  <2> QED BY <2>2, <2>3
<1> QED BY <1>0, <1>1, <1>2, <1>3 DEF Line

\* Requeuing a batch before the queue it came from makes a line.
LEMMA LineConcat ==
  ASSUME NEW s \in Seq(IndexedEvent), NEW t \in Seq(IndexedEvent), NEW n \in Int, NEW k \in Int,
         Line(s, n - (Len(s) + Len(t)), k - (Len(s) + Len(t))), Line(t, n - Len(t), k - Len(t))
  PROVE  Line(s \o t, n - Len(s \o t), k - Len(s \o t)) /\ Len(s \o t) = Len(s) + Len(t)
<1>0. Len(s \o t) = Len(s) + Len(t)
      /\ \A i \in 1 .. Len(s) + Len(t) : (s \o t)[i] = IF i <= Len(s) THEN s[i] ELSE t[i - Len(s)]
  BY ConcatProperties
<1>1. Len(s) \in Nat /\ Len(t) \in Nat BY LenProperties
<1> DEFINE q == s \o t
           m == Len(s) + Len(t)
<1>2. ASSUME NEW i \in 1..m PROVE q[i].seq = n - m + i /\ Place(q[i]) = k - m + i
  <2>1. CASE i <= Len(s)
    <3>1. q[i] = s[i] /\ i \in 1..Len(s) BY <1>0, <1>1, <2>1
    <3> QED BY <3>1 DEF Line
  <2>2. CASE ~(i <= Len(s))
    <3>1. q[i] = t[i - Len(s)] /\ i - Len(s) \in 1..Len(t) BY <1>0, <1>1, <2>2
    <3>2. q[i].seq = n - Len(t) + (i - Len(s)) /\ Place(q[i]) = k - Len(t) + (i - Len(s)) BY <3>1 DEF Line
    <3> QED BY <1>1, <3>2
  <2> QED BY <2>1, <2>2
<1>3. Len(q) = m BY <1>0
<1> HIDE DEF q, m
<1>4. Line(q, n - Len(q), k - Len(q)) BY <1>2, <1>3 DEF Line
<1> QED BY <1>3, <1>4 DEF q, m

\* Queuing the next event makes a line.
LEMMA LineAppend ==
  ASSUME NEW s \in Seq(IndexedEvent), NEW e \in IndexedEvent, NEW n \in Int, NEW k \in Int,
         Line(s, n - Len(s), k - Len(s)), e.seq = n + 1, Place(e) = k + 1
  PROVE  /\ Append(s, e) \in Seq(IndexedEvent) /\ Len(Append(s, e)) = Len(s) + 1
         /\ Line(Append(s, e), n + 1 - Len(Append(s, e)), k + 1 - Len(Append(s, e)))
<1>0. Append(s, e) \in Seq(IndexedEvent) /\ Len(Append(s, e)) = Len(s) + 1
      /\ (\A i \in 1..Len(s) : Append(s, e)[i] = s[i]) /\ Append(s, e)[Len(s) + 1] = e
  BY AppendProperties
<1>1. Len(s) \in Nat BY LenProperties
<1> DEFINE q == Append(s, e)
<1>2. ASSUME NEW i \in 1..(Len(s) + 1) PROVE q[i].seq = n - Len(s) + i /\ Place(q[i]) = k - Len(s) + i
  <2>1. CASE i = Len(s) + 1 BY <1>0, <1>1, <2>1
  <2>2. CASE i \in 1..Len(s)
    <3>1. q[i] = s[i] BY <1>0, <2>2
    <3> QED BY <2>2, <3>1 DEF Line
  <2> QED BY <1>1, <2>1, <2>2
<1>3. Len(q) = Len(s) + 1 /\ n + 1 - Len(q) = n - Len(s) /\ k + 1 - Len(q) = k - Len(s) BY <1>0, <1>1
<1>4. q \in Seq(IndexedEvent) BY <1>0
<1> HIDE DEF q
<1>5. Line(q, n + 1 - Len(q), k + 1 - Len(q)) BY <1>2, <1>3 DEF Line
<1> QED BY <1>3, <1>4, <1>5 DEF q

\* The highest number of a line is its last.
LEMMA LineHighest ==
  ASSUME NEW s \in Seq(IndexedEvent), Len(s) >= 1, NEW n \in Int, NEW k, Line(s, n, k)
  PROVE  Highest(s) = n + Len(s)
<1>0. Len(s) \in Nat BY LenProperties
<1>1. PICK i \in 1..Len(s) : s[i].seq = Highest(s) BY HighestIs
<1>2. s[Len(s)].seq <= Highest(s) BY <1>0, HighestIs
<1>3. s[i].seq = n + i /\ s[Len(s)].seq = n + Len(s) BY <1>0, <1>1 DEF Line
<1> QED BY <1>0, <1>1, <1>2, <1>3

\* The number of waiting events is a number.
LEMMA WaitNat == ASSUME Base PROVE Wait(pending, flight) \in Nat /\ Len(pending) \in Nat /\ Len(flight.batch) \in Nat
  BY LenProperties DEF Base, TypeOK, Wait

\* The position is a number.
LEMMA PositionInt == ASSUME Base PROVE Position \in Int
<1>1. cursor \in Int /\ cursor - 1 \in Int BY DEF Base, TypeOK
<1>2. Upto(cursor) \in Int /\ Upto(cursor - 1) \in Int BY <1>1, UptoNext
<1>3. ASSUME cursor \in Ledgers PROVE handler[cursor].tx \in Int
  <2>1. handler[cursor] \in HandlerType BY <1>3 DEF Base, TypeOK
  <2> QED BY <2>1, IndexerAssumption DEF HandlerType
<1> QED BY <1>2, <1>3 DEF Position

\* It stays when nobody starts, ends or advances a fetch.
LEMMA PositionKept ==
  ASSUME Base, UNCHANGED cursor,
         \A l \in Ledgers : /\ handler'[l].pc = "fetch" <=> handler[l].pc = "fetch"
                            /\ handler'[l].tx = handler[l].tx
  PROVE  Position' = Position
  BY DEF Position

\* So it does when a handler moves after its fetches.
LEMMA MovesPosition ==
  ASSUME Base, NEW l \in Ledgers, NEW pc, handler[l].pc # "fetch", pc # "fetch", Moves(l, pc), UNCHANGED cursor
  PROVE  Position' = Position
  BY PositionKept DEF Moves

-----------------------------------------------------------------------------
(* No ledger is skipped: fetch and flush *)

\* The numbers of the invariant are numbers.
LEMMA OrderInts ==
  ASSUME Base
  PROVE  /\ sequence \in Int /\ Position \in Int /\ Wait(pending, flight) \in Nat
         /\ state.counter \in Int /\ highest \in Int /\ state.token \in Int
         /\ \A row \in events : row \in IndexedEvent /\ row.seq \in Int
<1>1. state.counter \in Int /\ state.token \in Int
  <2>1. state \in IndexerState BY DEF Base, TypeOK
  <2> QED BY <2>1, IndexerAssumption DEF IndexerState, NoToken
<1>2. \A row \in events : row \in IndexedEvent BY DEF Base, TypeOK
<1> QED BY <1>1, <1>2, WaitNat, PositionInt, PlaceInt DEF Base, TypeOK

\* A step that rearranges the queue, and leaves numbers, place and rows
\* alone.
LEMMA OrderQueue ==
  ASSUME Base, OrderInv, UNCHANGED <<sequence, highest, events, cursor>>,
         state'.counter = state.counter, state'.token = state.token, Position' = Position,
         QueueOK(sequence, Position, pending, flight)', Wait(pending, flight)' = Wait(pending, flight),
         (flight'.pc = "counter") <=> (flight.pc = "counter"), AloneOK(Wait(pending, flight))'
  PROVE  OrderInv'
<1>1. CountOK(sequence, Wait(pending, flight), flight, highest, state.counter)' BY DEF OrderInv, CountOK
<1>2. RowsOK(sequence, Position, Wait(pending, flight), state.counter, events)' BY DEF OrderInv, RowsOK
<1>3. TokenOK(sequence, Position, state.counter, state.token)' BY DEF OrderInv, TokenOK
<1> QED BY <1>1, <1>2, <1>3 DEF OrderInv

\* A flush that starts, or goes on, splits the queue.
LEMMA SplitQueue ==
  ASSUME Base, NEW queue \in Seq(IndexedEvent), NEW n \in Int, NEW k \in Int, NEW by,
         Line(queue, n - Len(queue), k - Len(queue)),
         Split(queue, flight'.batch, pending'), flight' = [pc |-> "insert", by |-> by, batch |-> flight'.batch]
  PROVE  QueueOK(n, k, pending', flight') /\ Wait(pending', flight') = Len(queue) /\ flight'.pc = "insert"
<1> DEFINE b == flight'.batch
<1>0. flight'.pc = "insert" OBVIOUS
<1>1. /\ Line(b, n - Len(queue), k - Len(queue)) /\ Line(pending', n - Len(pending'), k - Len(pending'))
      /\ Len(b) \in Nat /\ Len(pending') \in Nat /\ Len(b) + Len(pending') = Len(queue)
  <2> HIDE DEF b
  <2> QED BY LineSplit DEF b
<1>2. Wait(pending', flight') = Len(queue) BY <1>0, <1>1 DEF Wait
<1> QED BY <1>0, <1>1, <1>2 DEF QueueOK

\* Queuing an event moves the position, the numbers and the queue together.
LEMMA RowsShift ==
  ASSUME NEW n \in Int, NEW k \in Int, NEW w \in Int, NEW m \in Int, NEW j \in Int, NEW v \in Int,
         j - v = k - w, j - m = k - n, NEW c, NEW rows, \A row \in rows : row.seq \in Int, RowsOK(n, k, w, c, rows)
  PROVE  RowsOK(m, j, v, c, rows)
<1>1. \A i \in 1..(j - v) : InTable(i, rows) BY DEF RowsOK
<1>2. ASSUME NEW row \in rows, row.seq > c, NEW i \in 1..(row.seq - m + j) PROVE InTable(i, rows)
  <2>1. row.seq \in Int OBVIOUS
  <2>2. row.seq - m + j = row.seq - n + k BY <2>1
  <2>3. i \in 1..(row.seq - n + k) BY <2>2
  <2> QED BY <1>2, <2>3 DEF RowsOK
<1> QED BY <1>1, <1>2 DEF RowsOK

\* A fetched transaction gets the next number and the next place (FetchTx).
LEMMA FetchOrder ==
  ASSUME Base, OrderInv, NEW l \in Ledgers, FetchTx(l), Base'
  PROVE  OrderInv'
<1> DEFINE e == EventOf(l)
           n == sequence
           k == Position
           w == Wait(pending, flight)
<1>0. handler[l].pc = "fetch" /\ Enqueue(e) /\ AfterTx(l) /\ sequence' = n + 1 /\ UNCHANGED <<events, state, cursor, highest>>
  BY DEF FetchTx, EventOf, NextSequence
<1>i. n \in Int /\ k \in Int /\ w \in Nat /\ pending \in Seq(IndexedEvent) BY OrderInts DEF Base, TypeOK
<1>1. l = cursor BY <1>0 DEF OrderInv, AloneOK
<1>2. Advances(l) BY <1>0, AfterTxIs
<1>3. handler[l].tx \in 1..Txs BY <1>0 DEF Base, FetchOK
<1>4. k = Upto(l - 1) + handler[l].tx - 1 BY <1>0, <1>1 DEF Position
<1>u. l \in Int /\ Upto(l) = Upto(l - 1) + Txs /\ Upto(l - 1) \in Int BY UptoNext DEF Ledgers
<1>5. Position' = k + 1
  <2>1. CASE handler[l].tx < Txs
    <3>1. handler'[l].pc = "fetch" /\ handler'[l].tx = handler[l].tx + 1 BY <1>2, <2>1 DEF Advances
    <3>2. Position' = Upto(l - 1) + (handler[l].tx + 1) - 1 BY <1>0, <1>1, <3>1 DEF Position
    <3> QED BY <1>3, <1>4, <1>u, <3>2
  <2>2. CASE ~(handler[l].tx < Txs)
    <3>1. handler'[l].pc = "flush" BY <1>2, <2>2 DEF Advances
    <3>2. Position' = Upto(l) BY <1>0, <1>1, <3>1 DEF Position
    <3>3. handler[l].tx = Txs BY <1>3, <2>2, IndexerAssumption
    <3> QED BY <1>3, <1>4, <1>u, <3>2, <3>3
  <2> QED BY <2>1, <2>2
<1>6. e \in IndexedEvent /\ e.seq = n + 1 /\ Place(e) = k + 1
  <2>1. e \in IndexedEvent BY <1>0, EventTyped
  <2>2. e.seq = n + 1 /\ e.ledger = l /\ e.tx = handler[l].tx BY DEF EventOf, NextSequence
  <2> QED BY <1>3, <1>4, <1>u, <2>1, <2>2 DEF Place
<1>s. sequence' = n + 1 /\ Position' = k + 1 BY <1>0, <1>5
<1>t. n \in Int /\ k \in Int /\ w \in Int BY <1>i
<1> HIDE DEF e, k, n, w
<1>7. Line(pending, n - Len(pending), k - Len(pending)) BY DEF OrderInv, QueueOK, n, k
<1>8. /\ Append(pending, e) \in Seq(IndexedEvent) /\ Len(Append(pending, e)) = Len(pending) + 1
      /\ Line(Append(pending, e), sequence' - Len(Append(pending, e)), Position' - Len(Append(pending, e)))
  <2>1. /\ Append(pending, e) \in Seq(IndexedEvent) /\ Len(Append(pending, e)) = Len(pending) + 1
        /\ Line(Append(pending, e), n + 1 - Len(Append(pending, e)), k + 1 - Len(Append(pending, e)))
    BY <1>6, <1>7, <1>i, LineAppend
  <2>2. Len(pending) \in Nat BY WaitNat
  <2>3. /\ sequence' - Len(Append(pending, e)) = n + 1 - Len(Append(pending, e))
        /\ Position' - Len(Append(pending, e)) = k + 1 - Len(Append(pending, e))
    BY <1>s, <1>t, <2>1, <2>2
  <2> QED BY <2>1, <2>3, Zenon
<1>9. QueueOK(sequence', Position', pending', flight') /\ Wait(pending', flight') = w + 1
      /\ ((flight'.pc = "counter") <=> (flight.pc = "counter"))
  <2>1. CASE flight = NoFlush /\ Split(Append(pending, e), flight'.batch, pending')
             /\ flight' = [pc |-> "insert", by |-> 0, batch |-> flight'.batch]
    <3> DEFINE q == Append(pending, e)
    <3>1. q \in Seq(IndexedEvent) /\ Line(q, sequence' - Len(q), Position' - Len(q)) /\ Split(q, flight'.batch, pending')
      BY <1>8, <2>1
    <3>2. Len(q) = Len(pending) + 1 BY <1>8
    <3>3. sequence' \in Int /\ Position' \in Int BY <1>0, <1>5, <1>i
    <3>4. flight' = [pc |-> "insert", by |-> 0, batch |-> flight'.batch] BY <2>1
    <3>6. w = Len(pending) BY <2>1, NoFlushTyped, WaitNat DEF Wait, w
    <3> HIDE DEF q
    <3>5. QueueOK(sequence', Position', pending', flight') /\ Wait(pending', flight') = Len(q) /\ flight'.pc = "insert"
      BY <3>1, <3>3, <3>4, SplitQueue
    <3> QED BY <2>1, <3>2, <3>5, <3>6, NoFlushTyped
  <2>2. CASE pending' = Append(pending, e) /\ UNCHANGED flight
    <3> DEFINE q == Append(pending, e)
    <3>1. Line(q, sequence' - Len(q), Position' - Len(q)) /\ pending' = q /\ Len(q) = Len(pending) + 1 /\ flight' = flight
      BY <1>8, <2>2
    <3> HIDE DEF q
    <3>2. Len(pending) \in Nat /\ Len(flight.batch) \in Nat BY WaitNat
    <3>7. Len(pending') = Len(pending) + 1 BY <3>1
    <3>8. flight' = flight BY <3>1
    <3>9. w = Len(pending) + (IF flight.pc = "insert" THEN Len(flight.batch) ELSE 0) BY DEF w, Wait
    <3>10. Wait(pending', flight') = Len(pending') + (IF flight'.pc = "insert" THEN Len(flight'.batch) ELSE 0) BY DEF Wait
    <3>3. Wait(pending', flight') = w + 1
      <4>1. CASE flight.pc = "insert"
        <5>1. w = Len(pending) + Len(flight.batch) /\ Wait(pending', flight') = Len(pending') + Len(flight.batch)
          BY <3>8, <3>9, <3>10, <4>1
        <5>2. Len(pending') + Len(flight.batch) = Len(pending) + Len(flight.batch) + 1
          <6> DEFINE a == Len(pending)
                     b == Len(flight.batch)
                     c == Len(pending')
          <6>1. a \in Nat /\ b \in Nat /\ c = a + 1 BY <3>2, <3>7
          <6> HIDE DEF a, b, c
          <6>2. c + b = a + b + 1 BY <6>1
          <6> QED BY <6>2 DEF a, b, c
        <5> QED BY <5>1, <5>2
      <4>2. CASE flight.pc # "insert"
        <5>1. w = Len(pending) /\ Wait(pending', flight') = Len(pending')
          BY <3>2, <3>7, <3>8, <3>9, <3>10, <4>2
        <5> QED BY <1>t, <3>2, <3>7, <5>1
      <4> QED BY <4>1, <4>2
    <3>4. sequence' - (w + 1) = n - w /\ Position' - (w + 1) = k - w BY <1>0, <1>5, <1>i
    <3>5. flight.pc = "insert" => Line(flight.batch, n - w, k - w) BY DEF OrderInv, QueueOK, n, k, w
    <3>6. flight.pc = "insert" => Line(flight'.batch, sequence' - Wait(pending', flight'), Position' - Wait(pending', flight'))
      BY <3>1, <3>3, <3>4, <3>5
    <3> QED BY <3>1, <3>3, <3>6 DEF QueueOK
  <2> QED BY <1>0, <1>6, <2>1, <2>2, EnqueueIs DEF Base
<1>10. QueueOK(sequence, Position, pending, flight)' BY <1>9
<1>c. state.counter \in Int /\ state.token \in Int /\ highest \in Int /\ \A row \in events : row.seq \in Int BY OrderInts
<1>11. CountOK(sequence, Wait(pending, flight), flight, highest, state.counter)'
  <2>1. CountOK(n, w, flight, highest, state.counter) BY DEF OrderInv, n, w
  <2>2. n + 1 - (w + 1) = n - w BY <1>i
  <2>3. sequence' - (w + 1) = n - w BY <1>s, <1>t, <2>2
  <2>4. CountOK(sequence', w + 1, flight', highest', state'.counter) BY <1>0, <1>9, <2>1, <2>3 DEF CountOK
  <2> QED BY <1>9, <2>4
<1>12. RowsOK(sequence, Position, Wait(pending, flight), state.counter, events)'
  <2>1. RowsOK(n, k, w, state.counter, events) BY DEF OrderInv, n, k, w
  <2> DEFINE v == Wait(pending', flight')
  <2>2. sequence' \in Int /\ Position' \in Int /\ v \in Int /\ Position' - v = k - w /\ Position' - sequence' = k - n
    BY <1>9, <1>s, <1>t
  <2>3. RowsOK(sequence', Position', v, state.counter, events)
    <3> HIDE DEF v
    <3>1. \A row \in events : row.seq \in Int BY <1>c
    <3> QED BY <1>t, <2>1, <2>2, <3>1, RowsShift, Zenon
  <2> QED BY <1>0, <2>3
<1>13. TokenOK(sequence, Position, state.counter, state.token)'
  <2>1. state.token \in 0..cursor /\ state.counter + k >= n + Upto(state.token) BY DEF OrderInv, TokenOK, n, k
  <2>2. Upto(state.token) \in Int BY <1>c, UptoNext
  <2>3. state.counter + (k + 1) >= n + 1 + Upto(state.token) BY <1>c, <1>i, <2>1, <2>2
  <2> QED BY <1>0, <1>5, <2>1, <2>3 DEF TokenOK
<1>14. AloneOK(Wait(pending, flight))'
  <2>1. handler'[l].pc \in {"fetch", "flush"} BY <1>2 DEF Advances
  <2>2. \A m \in Ledgers \ {l} : handler'[m] = handler[m] /\ handler[m].pc = "idle" BY <1>1, <1>2 DEF Advances, OrderInv, AloneOK
  <2> QED BY <1>0, <1>1, <2>1, <2>2 DEF AloneOK
<1> QED BY <1>10, <1>11, <1>12, <1>13, <1>14 DEF OrderInv

\* A handler moves, alone.
LEMMA AloneMoves ==
  ASSUME OrderInv, NEW l \in Ledgers, handler[l].pc # "idle", NEW pc, Moves(l, pc), UNCHANGED cursor, NEW w,
         pc \in {"last", "token"} => w = 0 /\ flight'.pc # "counter"
  PROVE  AloneOK(w)'
<1>1. l = cursor BY DEF OrderInv, AloneOK
<1>2. \A m \in Ledgers \ {l} : handler'[m] = handler[m] /\ handler[m].pc = "idle" BY <1>1 DEF Moves, OrderInv, AloneOK
<1> QED BY <1>1, <1>2 DEF AloneOK, Moves

\* The flush of a handler starts, or finds nothing to do.
LEMMA FlushOrder ==
  ASSUME Base, OrderInv, NEW l \in Ledgers, Flush(l)
  PROVE  OrderInv'
<1>0. handler[l].pc = "flush" /\ flight = NoFlush /\ pending \in Seq(IndexedEvent) /\ flight.pc = "none"
      /\ UNCHANGED <<events, state, cursor, sequence, highest>>
  BY NoFlushTyped DEF Flush, Base, TypeOK
<1>i. sequence \in Int /\ Position \in Int BY OrderInts
<1>w. Wait(pending, flight) = Len(pending) /\ Len(pending) \in Nat BY <1>0, WaitNat DEF Wait
<1>1. CASE pending = <<>>
  <2>1. Moves(l, "last") /\ UNCHANGED <<pending, flight>> BY <1>1, CheckMoves DEF Flush, Base
  <2>2. Position' = Position BY <1>0, <2>1, MovesPosition
  <2>3. Wait(pending, flight)' = 0 /\ Wait(pending, flight)' = Wait(pending, flight) BY <1>1, <1>w, <2>1, EmptySeq
  <2>4. AloneOK(Wait(pending, flight))' BY <1>0, <2>1, <2>3, AloneMoves
  <2>5. QueueOK(sequence, Position, pending, flight)' BY <1>0, <2>1, <2>2 DEF OrderInv
  <2> QED BY <1>0, <2>1, <2>2, <2>3, <2>4, <2>5, OrderQueue
<1>2. CASE pending # <<>>
  <2>1. TakeBatch(l, pending) /\ Moves(l, "flushing") BY <1>2, GotoMoves DEF Flush, Base
  <2>2. Split(pending, flight'.batch, pending') /\ flight' = [pc |-> "insert", by |-> l, batch |-> flight'.batch]
    BY <1>0, <1>2, <2>1, TakeSplit
  <2>3. Position' = Position BY <1>0, <2>1, MovesPosition
  <2>4. Line(pending, sequence - Len(pending), Position - Len(pending)) BY DEF OrderInv, QueueOK
  <2>5. QueueOK(sequence, Position, pending', flight') /\ Wait(pending', flight') = Len(pending) /\ flight'.pc = "insert"
    BY <1>0, <1>i, <2>2, <2>4, SplitQueue
  <2>6. AloneOK(Wait(pending, flight))' BY <1>0, <2>1, AloneMoves
  <2> QED BY <1>0, <1>w, <2>3, <2>5, <2>6, OrderQueue
<1> QED BY <1>1, <1>2

\* The timer starts a flush.
LEMMA TimerOrder == ASSUME Base, OrderInv, TimerFlush PROVE OrderInv'
<1>0. flight = NoFlush /\ pending \in Seq(IndexedEvent) /\ flight.pc = "none" /\ pending # <<>> /\ TakeBatch(0, pending)
      /\ UNCHANGED <<events, state, cursor, sequence, highest, handler>>
  BY NoFlushTyped DEF TimerFlush, Base, TypeOK
<1>i. sequence \in Int /\ Position \in Int BY OrderInts
<1>w. Wait(pending, flight) = Len(pending) BY <1>0, WaitNat DEF Wait
<1>1. Split(pending, flight'.batch, pending') /\ flight' = [pc |-> "insert", by |-> 0, batch |-> flight'.batch]
  BY <1>0, TakeSplit
<1>2. Position' = Position BY <1>0 DEF Position
<1>3. Line(pending, sequence - Len(pending), Position - Len(pending)) BY DEF OrderInv, QueueOK
<1>4. QueueOK(sequence, Position, pending', flight') /\ Wait(pending', flight') = Len(pending) /\ flight'.pc = "insert"
  BY <1>0, <1>1, <1>3, <1>i, SplitQueue
<1>5. AloneOK(Wait(pending, flight))' BY <1>0, <1>4, <1>w DEF OrderInv, AloneOK
<1> QED BY <1>0, <1>2, <1>4, <1>5, <1>w, OrderQueue

-----------------------------------------------------------------------------
(* No ledger is skipped: the cursor and the insert *)

\* setLastIndexedLedger.
LEMMA LastOrder == ASSUME Base, OrderInv, NEW l \in Ledgers, SetLastIndexedLedger(l) PROVE OrderInv'
<1>1. Moves(l, "token") /\ handler[l].pc = "last" /\ UNCHANGED <<events, highest, cursor, pending, flight, sequence>>
  BY GotoMoves DEF SetLastIndexedLedger, Base
<1>2. state'.counter = state.counter /\ state'.token = state.token
  BY DEF SetLastIndexedLedger, Base, TypeOK, IndexerState
<1>3. Position' = Position BY <1>1, MovesPosition
<1>4. Wait(pending, flight)' = Wait(pending, flight) BY <1>1 DEF Wait
<1>5. Wait(pending, flight) = 0 /\ flight.pc # "counter" BY <1>1 DEF OrderInv, AloneOK
<1>6. AloneOK(Wait(pending, flight))' BY <1>1, <1>4, <1>5, AloneMoves
<1>7. QueueOK(sequence, Position, pending, flight)' BY <1>1, <1>3 DEF OrderInv
<1> QED BY <1>1, <1>2, <1>3, <1>4, <1>6, <1>7, OrderQueue

\* setLedgerPagingToken: nothing waits, so the ledger is in the table.
LEMMA TokenOrder == ASSUME Base, OrderInv, NEW l \in Ledgers, SetLedgerPagingToken(l) PROVE OrderInv'
<1>1. Moves(l, "idle") /\ handler[l].pc = "token" /\ UNCHANGED <<events, highest, cursor, pending, flight, sequence>>
  BY GotoMoves DEF SetLedgerPagingToken, Base
<1>2. state'.counter = state.counter /\ state'.token = l
  BY DEF SetLedgerPagingToken, Base, TypeOK, IndexerState
<1>3. Position' = Position BY <1>1, MovesPosition
<1>4. Wait(pending, flight)' = Wait(pending, flight) BY <1>1 DEF Wait
<1>5. Wait(pending, flight) = 0 /\ flight.pc # "counter" /\ l = cursor BY <1>1 DEF OrderInv, AloneOK
<1>6. AloneOK(Wait(pending, flight))' BY <1>1, <1>4, <1>5, AloneMoves
<1>7. QueueOK(sequence, Position, pending, flight)' BY <1>1, <1>3 DEF OrderInv
<1>8. CountOK(sequence, Wait(pending, flight), flight, highest, state.counter)' BY <1>1, <1>2, <1>4 DEF OrderInv, CountOK
<1>9. RowsOK(sequence, Position, Wait(pending, flight), state.counter, events)' BY <1>1, <1>2, <1>3, <1>4 DEF OrderInv, RowsOK
<1>10. TokenOK(sequence, Position, state.counter, state.token)'
  <2>1. Position = Upto(l) BY <1>1, <1>5 DEF Position
  <2>2. sequence \in Int /\ Position \in Int /\ l \in 0..cursor BY <1>5, OrderInts DEF Ledgers
  <2>3. state.counter = sequence BY <1>5, <2>2 DEF OrderInv, CountOK
  <2> QED BY <1>1, <1>2, <1>3, <2>1, <2>2, <2>3 DEF TokenOK
<1> QED BY <1>6, <1>7, <1>8, <1>9, <1>10 DEF OrderInv

\* The next ledger is delivered when nothing is being handled.
LEMMA RecordOrder == ASSUME Base, OrderInv, HandleLedgerRecord, ~overlapped' PROVE OrderInv'
<1> DEFINE l == cursor + 1
<1>0. l \in Ledgers /\ handler' = [handler EXCEPT ![l] = [pc |-> "fetch", tx |-> 1]]
      /\ UNCHANGED <<events, state, pending, flight, highest, sequence>> /\ cursor' = l /\ cursor \in Int
      /\ handler \in [Ledgers -> HandlerType]
  BY IndexerAssumption DEF HandleLedgerRecord, Base, TypeOK, Ledgers
<1>1. \A m \in Ledgers : handler[m].pc = "idle" BY DEF HandleLedgerRecord, Busy
<1>2. handler'[l].pc = "fetch" /\ handler'[l].tx = 1 /\ \A m \in Ledgers \ {l} : handler'[m].pc = "idle" BY <1>0, <1>1
<1>3. Position = Upto(cursor) /\ Upto(cursor) \in Int BY <1>0, <1>1, UptoNext DEF Position
<1>4. Position' = Upto(cursor)
  <2>1. l - 1 = cursor BY <1>0
  <2>2. Position' = Upto(l - 1) + 1 - 1 BY <1>0, <1>2 DEF Position
  <2> QED BY <1>3, <2>1, <2>2
<1>5. Position' = Position BY <1>3, <1>4
<1>6. Wait(pending, flight)' = Wait(pending, flight) BY <1>0
<1>7. QueueOK(sequence, Position, pending, flight)' BY <1>0, <1>5 DEF OrderInv
<1>8. CountOK(sequence, Wait(pending, flight), flight, highest, state.counter)' BY <1>0, <1>6 DEF OrderInv
<1>9. RowsOK(sequence, Position, Wait(pending, flight), state.counter, events)' BY <1>0, <1>5, <1>6 DEF OrderInv
<1>10. TokenOK(sequence, Position, state.counter, state.token)'
  <2>1. state.token \in 0..cursor' BY <1>0 DEF OrderInv, TokenOK
  <2> QED BY <1>0, <1>5, <2>1 DEF OrderInv, TokenOK
<1>11. AloneOK(Wait(pending, flight))' BY <1>0, <1>2 DEF AloneOK
<1> QED BY <1>7, <1>8, <1>9, <1>10, <1>11 DEF OrderInv

\* persistBatch: each event of the batch is inserted, or finds a row with its
\* number, which is that of an earlier process and shows that its operation
\* is stored.
LEMMA PersistOrder == ASSUME Base, OrderInv, PersistBatch PROVE OrderInv'
<1> DEFINE n == sequence
           k == Position
           w == Wait(pending, flight)
           b == flight.batch
           c == state.counter
           p == Len(pending)
           x == Len(b)
<1>0. flight.pc = "insert" /\ events' = events \cup Inserted(b) /\ UNCHANGED <<state, cursor, sequence>>
  BY DEF PersistBatch
<1>1. b \in Seq(IndexedEvent) /\ x >= 1 BY <1>0 DEF Base, TypeOK, FlightOK
<1>i. n \in Int /\ k \in Int /\ w \in Int /\ c \in Int /\ p \in Nat /\ x \in Nat
      /\ \A row \in events : row \in IndexedEvent /\ row.seq \in Int
  BY OrderInts, WaitNat
<1>2. w = p + x BY <1>0 DEF Wait
<1>3. Line(b, n - w, k - w) /\ Line(pending, n - p, k - p) BY <1>0 DEF OrderInv, QueueOK
<1>4. c = n - w /\ highest = c BY <1>0 DEF OrderInv, CountOK
<1>5. RowsOK(n, k, w, c, events) BY DEF OrderInv
<1>v. n - w \in Int BY <1>i
<1> HIDE DEF n, k, w, c, p
<1>6. Highest(b) = n - w + x BY <1>1, <1>3, <1>v, LineHighest
<1>h. x \in Nat /\ x >= 1 BY <1>1, <1>i
<1> HIDE DEF x
<1>7. Highest(b) > highest BY <1>4, <1>6, <1>i, <1>h
<1>8. highest' = n - p BY <1>2, <1>6, <1>7, <1>i DEF PersistBatch
<1>9. flight' = [flight EXCEPT !.pc = "counter"] /\ UNCHANGED <<pending, handler>> BY <1>7 DEF PersistBatch
<1>10. flight'.pc = "counter" BY <1>9 DEF Base, TypeOK
<1>11. Wait(pending, flight)' = p BY <1>9, <1>10, <1>i DEF Wait, p
<1>12. Position' = k BY <1>0, <1>9 DEF Position, k
<1>13. QueueOK(sequence, Position, pending, flight)' BY <1>0, <1>3, <1>9, <1>10, <1>12 DEF QueueOK, n, p
<1>14. CountOK(sequence, Wait(pending, flight), flight, highest, state.counter)'
  <2>1. c <= n - p BY <1>2, <1>4, <1>h, <1>i
  <2> QED BY <1>0, <1>8, <1>10, <1>11, <2>1 DEF CountOK, n, c
<1>15. ASSUME NEW i \in 1..x PROVE b[i].seq = n - w + i /\ Place(b[i]) = k - w + i /\ b[i] \in IndexedEvent /\ b[i] \in ToSet(b)
  BY <1>1, <1>3, <1>15, InSet, ElementOfSeq DEF Line, x
<1>16. ASSUME NEW j, InTable(j, events) PROVE InTable(j, events') BY <1>0, <1>16 DEF InTable
<1>17. ASSUME NEW j \in 1..(k - p) PROVE InTable(j, events')
  <2>1. CASE j <= k - w
    <3>1. j \in 1..(k - w) BY <1>i, <2>1
    <3> QED BY <1>5, <1>16, <3>1 DEF RowsOK
  <2>2. CASE ~(j <= k - w)
    <3> DEFINE i == j - (k - w)
    <3>1. i \in 1..x /\ j = k - w + i /\ i \in Int BY <1>2, <1>h, <1>i, <2>2
    <3> HIDE DEF i
    <3>2. b[i].seq = n - w + i /\ Place(b[i]) = j /\ b[i] \in ToSet(b) BY <1>15, <3>1
    <3>3. CASE b[i] \in Inserted(b)
      <4>1. b[i] \in events' BY <1>0, <3>3
      <4> QED BY <3>2, <4>1 DEF InTable
    <3>4. CASE b[i] \notin Inserted(b)
      <4>1. PICK row \in events : row.seq = b[i].seq BY <3>2, <3>4 DEF Inserted
      <4>2. row.seq > c /\ row.seq - n + k = j /\ j >= 1 BY <1>4, <1>i, <3>1, <3>2, <4>1
      <4>3. j \in 1..(row.seq - n + k) BY <4>2
      <4>4. InTable(j, events) BY <1>5, <4>2, <4>3 DEF RowsOK
      <4> QED BY <1>16, <4>4
    <3> QED BY <3>3, <3>4
  <2> QED BY <2>1, <2>2
<1>18. ASSUME NEW row \in events', row.seq > c, NEW j \in 1..(row.seq - n + k) PROVE InTable(j, events')
  <2>1. CASE row \in events
    <3>1. InTable(j, events) BY <1>5, <1>18, <2>1 DEF RowsOK
    <3> QED BY <1>16, <3>1
  <2>2. CASE row \in ToSet(b)
    <3>1. PICK i \in 1..x : row = b[i] BY <1>1, <2>2, InSet DEF x
    <3>2. row.seq = n - w + i /\ i <= x BY <1>15, <1>h, <3>1
    <3>3. row.seq - n + k = k - w + i BY <1>i, <3>2
    <3>4. j \in 1..(k - p) BY <1>2, <1>h, <1>i, <1>18, <3>2, <3>3
    <3> QED BY <1>17, <3>4
  <2> QED BY <1>0, <1>18, <2>1, <2>2 DEF Inserted
<1>19. RowsOK(sequence, Position, Wait(pending, flight), state.counter, events)'
  <2>1. RowsOK(n, k, p, c, events') BY <1>17, <1>18 DEF RowsOK
  <2> QED BY <1>0, <1>11, <1>12, <2>1 DEF n, c
<1>20. TokenOK(sequence, Position, state.counter, state.token)' BY <1>0, <1>12 DEF OrderInv, TokenOK, k
<1>21. AloneOK(Wait(pending, flight))'
  <2>1. w # 0 BY <1>2, <1>h, <1>i
  <2>2. \A l \in Ledgers : handler[l].pc \notin {"last", "token"} BY <2>1 DEF OrderInv, AloneOK, w
  <2>3. \A l \in Ledgers : handler[l].pc # "idle" => l = cursor BY DEF OrderInv, AloneOK
  <2> QED BY <1>0, <1>9, <2>2, <2>3 DEF AloneOK
<1> QED BY <1>13, <1>14, <1>19, <1>20, <1>21 DEF OrderInv

-----------------------------------------------------------------------------
(* No ledger is skipped: the counter, failures and crashes *)

\* AloneOK in the next state.
LoneNext(v) ==
  \A l \in Ledgers : /\ handler'[l].pc # "idle" => l = cursor'
                     /\ handler'[l].pc \in {"last", "token"} => v = 0 /\ flight'.pc # "counter"

\* A flush ends: its handler goes on when the queue is empty.
LEMMA EndedMoves ==
  ASSUME Base, OrderInv, flight.pc # "none", Ended, UNCHANGED cursor, NEW w, pending' = <<>> => w = 0,
         \A l \in Ledgers : handler[l].pc \notin {"last", "token"}
  PROVE  Position' = Position /\ LoneNext(w) /\ flight'.pc = "none"
<1>0. flight'.pc = "none" BY NoFlushTyped DEF Ended
<1>1. CASE flight.by = 0
  <2>1. UNCHANGED handler BY <1>1 DEF Ended
  <2>2. Position' = Position BY <2>1 DEF Position
  <2> QED BY <1>0, <2>1, <2>2 DEF OrderInv, AloneOK, LoneNext
<1>2. CASE flight.by # 0
  <2>1. flight.by \in Ledgers /\ handler[flight.by].pc = "flushing" BY <1>2, IndexerAssumption DEF Base, TypeOK, FlightOK, Ledgers
  <2>2. CheckPending(flight.by, pending') BY <1>2 DEF Ended
  <2> DEFINE l == flight.by
  <2> HIDE DEF l
  <2>3. l \in Ledgers /\ handler[l].pc = "flushing" /\ CheckPending(l, pending') BY <2>1, <2>2 DEF l
  <2>4. (pending' = <<>> /\ Moves(l, "last")) \/ (pending' # <<>> /\ Moves(l, "idle")) BY <2>3, CheckMoves DEF Base
  <2>5. CASE pending' = <<>> /\ Moves(l, "last")
    <3>1. w = 0 BY <2>5
    <3>2. Position' = Position BY <2>3, <2>5, MovesPosition
    <3>3. AloneOK(w)' BY <1>0, <2>3, <2>5, <3>1, AloneMoves
    <3> QED BY <1>0, <3>2, <3>3 DEF AloneOK, LoneNext
  <2>6. CASE pending' # <<>> /\ Moves(l, "idle")
    <3>2. Position' = Position BY <2>3, <2>6, MovesPosition
    <3>3. AloneOK(w)' BY <1>0, <2>3, <2>6, AloneMoves
    <3> QED BY <1>0, <3>2, <3>3 DEF AloneOK, LoneNext
  <2> QED BY <2>4, <2>5, <2>6
<1> QED BY <1>1, <1>2

\* setSequenceCounter: the counter catches up with the rows.
LEMMA CounterOrder == ASSUME Base, OrderInv, SetSequenceCounter PROVE OrderInv'
<1> DEFINE n == sequence
           k == Position
           c == state.counter
           p == Len(pending)
<1>0. flight.pc = "counter" /\ NextBatch /\ UNCHANGED <<events, cursor, sequence, highest>> BY DEF SetSequenceCounter
<1>s. state'.counter = highest /\ state'.token = state.token BY DEF SetSequenceCounter, Base, TypeOK, IndexerState
<1>i. n \in Int /\ k \in Int /\ c \in Int /\ p \in Nat /\ state.token \in Int /\ pending \in Seq(IndexedEvent)
      /\ \A row \in events : row.seq \in Int
  BY OrderInts, WaitNat DEF Base, TypeOK
<1>1. Wait(pending, flight) = p BY <1>0, <1>i DEF Wait
<1>2. highest = n - p /\ c <= highest BY <1>0, <1>1 DEF OrderInv, CountOK
<1>3. \A l \in Ledgers : handler[l].pc \notin {"last", "token"} BY <1>0 DEF OrderInv, AloneOK
<1>4. Line(pending, n - p, k - p) BY DEF OrderInv, QueueOK
<1>5. /\ QueueOK(n, k, pending', flight') /\ Wait(pending', flight') = p /\ flight'.pc # "counter"
      /\ Position' = k /\ LoneNext(p)
  <2>1. CASE Continued
    <3>1. Split(pending, flight'.batch, pending') /\ flight' = [pc |-> "insert", by |-> flight.by, batch |-> flight'.batch]
          /\ UNCHANGED handler
      BY <2>1 DEF Continued
    <3>2. QueueOK(n, k, pending', flight') /\ Wait(pending', flight') = p /\ flight'.pc = "insert"
      BY <1>4, <1>i, <3>1, SplitQueue
    <3>3. Position' = k BY <1>0, <3>1 DEF Position
    <3>4. LoneNext(p) BY <1>0, <1>3, <3>1 DEF OrderInv, AloneOK, LoneNext
    <3> QED BY <3>2, <3>3, <3>4
  <2>2. CASE pending = <<>> /\ UNCHANGED pending /\ Ended
    <3>1. p = 0 /\ p' = 0 BY <2>2, EmptySeq
    <3>2. Position' = k /\ LoneNext(p) /\ flight'.pc = "none" 
      <4> HIDE DEF p
      <4>1. flight.pc # "none" BY <1>0
      <4>2. pending' = <<>> => p' = 0 BY <3>1
      <4>3. Position' = Position /\ flight'.pc = "none" /\ LoneNext(0) BY <1>0, <1>3, <2>2, <4>1, EndedMoves
      <4> QED BY <3>1, <4>3 DEF p
    <3>3. Wait(pending', flight') = p BY <1>i, <2>2, <3>2 DEF Wait
    <3>4. QueueOK(n, k, pending', flight') BY <1>4, <2>2, <3>2 DEF QueueOK
    <3> QED BY <3>2, <3>3, <3>4
  <2> QED BY <1>0, <2>1, <2>2, NextBatchIs DEF Base
<1>w. Wait(pending, flight)' = p BY <1>5
<1>6. QueueOK(sequence, Position, pending, flight)' BY <1>0, <1>5
<1>7. CountOK(sequence, Wait(pending, flight), flight, highest, state.counter)' BY <1>0, <1>2, <1>5, <1>s, <1>w DEF CountOK
<1>8. RowsOK(sequence, Position, Wait(pending, flight), state.counter, events)'
  <2>1. RowsOK(n, k, p, c, events) BY <1>1 DEF OrderInv
  <2>2. ASSUME NEW row \in events, row.seq > highest PROVE row.seq > c BY <1>2, <1>i, <2>2
  <2>3. RowsOK(n, k, p, highest, events) BY <2>1, <2>2 DEF RowsOK
  <2> QED BY <1>0, <1>5, <1>s, <1>w, <2>3
<1>9. TokenOK(sequence, Position, state.counter, state.token)'
  <2>1. state.token \in 0..cursor /\ c + k >= n + Upto(state.token) BY DEF OrderInv, TokenOK
  <2>2. Upto(state.token) \in Int BY <1>i, UptoNext
  <2>3. highest + k >= n + Upto(state.token) BY <1>2, <1>i, <2>1, <2>2
  <2> QED BY <1>0, <1>5, <1>s, <2>1, <2>3 DEF TokenOK
<1>10. AloneOK(Wait(pending, flight))' BY <1>5 DEF AloneOK, LoneNext
<1> QED BY <1>6, <1>7, <1>8, <1>9, <1>10 DEF OrderInv

\* The insert fails: the batch goes back to where it was.
LEMMA RequeueOrder ==
  ASSUME Base, OrderInv, flight.pc = "insert", Requeue, UNCHANGED <<events, state, cursor, sequence, highest>>
  PROVE  OrderInv'
<1> DEFINE b == flight.batch
           q == b \o pending
<1>1. Ended /\ pending' \in Seq(IndexedEvent) /\ pending' = q BY RequeueIs
<1>2. b \in Seq(IndexedEvent) /\ pending \in Seq(IndexedEvent) /\ Len(b) >= 1 BY DEF Base, TypeOK, FlightOK
<1>i. sequence \in Int /\ Position \in Int /\ Len(b) \in Nat /\ Len(pending) \in Nat BY OrderInts, WaitNat
<1>3. Wait(pending, flight) = Len(b) + Len(pending) BY <1>i DEF Wait
<1>4. Line(b, sequence - (Len(b) + Len(pending)), Position - (Len(b) + Len(pending)))
      /\ Line(pending, sequence - Len(pending), Position - Len(pending))
  BY <1>3 DEF OrderInv, QueueOK
<1>5. Line(q, sequence - Len(q), Position - Len(q)) /\ Len(q) = Len(b) + Len(pending)
  BY <1>2, <1>4, <1>i, LineConcat
<1> HIDE DEF q
<1>6. Len(pending') >= 1 /\ Len(pending') = Wait(pending, flight) BY <1>1, <1>2, <1>3, <1>5, <1>i
<1>7. pending' # <<>> BY <1>6, EmptySeq
<1>8. \A l \in Ledgers : handler[l].pc \notin {"last", "token"}
  <2>1. Wait(pending, flight) # 0 BY <1>2, <1>3, <1>i
  <2> QED BY <2>1 DEF OrderInv, AloneOK
<1> DEFINE w == Wait(pending', flight')
<1>9. Position' = Position /\ flight'.pc = "none" /\ LoneNext(w)
  <2>1. flight.pc # "none" OBVIOUS
  <2> HIDE DEF w
  <2>2. \A v : Position' = Position /\ LoneNext(v) /\ flight'.pc = "none" BY <1>1, <1>7, <1>8, <2>1, EndedMoves
  <2> QED BY <2>2
<1>10. w = Wait(pending, flight)
  <2>1. Len(pending') \in Nat BY <1>1, LenProperties
  <2> QED BY <1>6, <1>9, <2>1 DEF Wait
<1>11. QueueOK(sequence, Position, pending, flight)' BY <1>1, <1>5, <1>9 DEF QueueOK
<1>12. AloneOK(Wait(pending, flight))' BY <1>9 DEF AloneOK, LoneNext
<1> QED BY <1>9, <1>10, <1>11, <1>12, OrderQueue

\* A crash: numbers and places go on from the stored counter and token, which
\* may be behind the rows but not behind each other.
LEMMA RestartOrder == ASSUME Base, OrderInv, Restart PROVE OrderInv'
<1> DEFINE n == sequence
           k == Position
           c == state.counter
           t == state.token
           w == Wait(pending, flight)
           u == Upto(t)
<1>i. n \in Int /\ k \in Int /\ c \in Int /\ w \in Nat /\ t \in Int /\ \A row \in events : row.seq \in Int BY OrderInts
<1>1. t \in 0..cursor /\ c + k >= n + u BY DEF OrderInv, TokenOK
<1>2. t # NoToken /\ t >= 0 BY <1>1 DEF NoToken
<1>3. cursor' = t /\ sequence' = c /\ highest' = c /\ pending' = <<>> /\ flight' = NoFlush /\ UNCHANGED <<events, state>>
      /\ handler' = [l \in Ledgers |-> Idle]
  BY <1>2 DEF Restart, ResumeCursor
<1>4. \A l \in Ledgers : handler'[l].pc = "idle" BY <1>3 DEF Idle
<1>5. Position' = u BY <1>3, <1>4 DEF Position
<1>6. Len(pending') = 0 /\ flight'.pc = "none" BY <1>3, NoFlushTyped, EmptySeq
<1>7. Wait(pending, flight)' = 0 BY <1>6 DEF Wait
<1>8. c <= n - w BY <1>i DEF OrderInv, CountOK
<1>9. u \in Int BY <1>i, UptoNext
<1>10. QueueOK(sequence, Position, pending, flight)' BY <1>6 DEF QueueOK, Line
<1>11. CountOK(sequence, Wait(pending, flight), flight, highest, state.counter)' BY <1>3, <1>6, <1>7, <1>i DEF CountOK
<1>r. RowsOK(n, k, w, c, events) BY DEF OrderInv
<1> HIDE DEF n, k, c, w, u
<1>12. RowsOK(sequence, Position, Wait(pending, flight), state.counter, events)'
  <2>1. ASSUME NEW j \in 1..u PROVE InTable(j, events)
    <3>1. j \in 1..(k - w) BY <1>1, <1>8, <1>9, <1>i
    <3> QED BY <1>r, <3>1 DEF RowsOK
  <2>2. ASSUME NEW row \in events, row.seq > c, NEW j \in 1..(row.seq - c + u) PROVE InTable(j, events)
    <3>1. row.seq \in Int BY <1>i
    <3>2. j \in 1..(row.seq - n + k) BY <1>1, <1>9, <1>i, <3>1
    <3> QED BY <1>r, <2>2, <3>2 DEF RowsOK
  <2>3. u - 0 = u BY <1>9
  <2>4. RowsOK(c, u, 0, c, events) BY <2>1, <2>2, <2>3 DEF RowsOK
  <2> QED BY <1>3, <1>5, <1>7, <2>4 DEF c
<1>13. TokenOK(sequence, Position, state.counter, state.token)'
  <2>1. t \in 0..t /\ c + u >= c + u BY <1>2, <1>9, <1>i
  <2> QED BY <1>3, <1>5, <2>1 DEF TokenOK, c, u
<1>14. AloneOK(Wait(pending, flight))' BY <1>4 DEF AloneOK
<1> QED BY <1>10, <1>11, <1>12, <1>13, <1>14 DEF OrderInv

\* Every step keeps the invariant.
LEMMA OrderStep == Base /\ OrderedTable /\ [Next]_vars => OrderedTable'
<1> SUFFICES ASSUME Base, OrderedTable, [Next]_vars, Orderly' PROVE OrderInv' BY DEF OrderedTable
<1>b. Base' /\ TypeOK BY BaseStep DEF Base
<1>f. ASSUME NEW f \in {"fetch", "state"}, Fault(f) PROVE FALSE
  <2>1. faults' = [faults EXCEPT ![f] = faults[f] + 1] /\ faults'[f] = 0 BY <1>f DEF Fault, Orderly
  <2>2. faults[f] \in Nat /\ faults'[f] = faults[f] + 1 BY <1>b, <1>f, <2>1, IndexerAssumption DEF TypeOK
  <2> QED BY <2>1, <2>2
<1>e. ASSUME UNCHANGED <<overlapped, faults>> PROVE OrderInv BY <1>e DEF OrderedTable, Orderly
<1>g. ASSUME NEW f \in {"insert", "crash"}, Fault(f), UNCHANGED overlapped PROVE OrderInv
  <2>1. faults'.fetch = faults.fetch /\ faults'.state = faults.state BY <1>b, <1>g DEF Fault, TypeOK
  <2> QED BY <1>g, <2>1 DEF OrderedTable, Orderly
<1>1. CASE LedgerCloses
  <2>1. UNCHANGED <<events, state, cursor, sequence, pending, flight, highest, handler, faults, overlapped>>
    BY <1>1 DEF LedgerCloses, memory
  <2>2. OrderInv BY <1>e, <2>1
  <2> QED BY <2>1, <2>2 DEF OrderInv, Position, AloneOK, TokenOK
<1>2. CASE HandleLedgerRecord
  <2>1. ~overlapped' /\ OrderInv BY <1>2 DEF HandleLedgerRecord, OrderedTable, Orderly
  <2> QED BY <1>2, <2>1, RecordOrder
<1>3. ASSUME NEW l \in Ledgers, FetchTx(l) PROVE OrderInv' BY <1>3, <1>b, <1>e, FetchOrder DEF FetchTx
<1>4. ASSUME NEW l \in Ledgers, Flush(l) PROVE OrderInv' BY <1>4, <1>e, FlushOrder DEF Flush
<1>5. ASSUME NEW l \in Ledgers, SetLastIndexedLedger(l) PROVE OrderInv' BY <1>5, <1>e, LastOrder DEF SetLastIndexedLedger
<1>6. ASSUME NEW l \in Ledgers, SetLedgerPagingToken(l) PROVE OrderInv' BY <1>6, <1>e, TokenOrder DEF SetLedgerPagingToken
<1>7. ASSUME NEW l \in Ledgers, FetchTxFails(l) PROVE OrderInv' BY <1>7, <1>f DEF FetchTxFails
<1>8. ASSUME NEW l \in Ledgers, SetCursorFails(l) PROVE OrderInv' BY <1>8, <1>f DEF SetCursorFails
<1>9. CASE TimerFlush BY <1>9, <1>e, TimerOrder DEF TimerFlush
<1>10. CASE PersistBatch BY <1>10, <1>e, PersistOrder DEF PersistBatch
<1>11. CASE SetSequenceCounter BY <1>11, <1>e, CounterOrder DEF SetSequenceCounter
<1>12. CASE PersistBatchFails
  <2>1. CASE flight.pc = "insert" /\ Requeue /\ Fault("insert") /\ UNCHANGED <<events, state, cursor, sequence, highest, overlapped>>
    BY <1>g, <2>1, RequeueOrder
  <2>2. CASE Fault("state") BY <1>f, <2>2
  <2> QED BY <1>12, <2>1, <2>2 DEF PersistBatchFails
<1>13. CASE Restart BY <1>13, <1>g, RestartOrder DEF Restart
<1>14. CASE UNCHANGED vars
  <2>1. UNCHANGED <<events, state, cursor, sequence, pending, flight, highest, handler, faults, overlapped>> BY <1>14 DEF vars
  <2>2. OrderInv BY <1>e, <2>1
  <2> QED BY <2>1, <2>2 DEF OrderInv, Position, AloneOK, TokenOK
<1> QED BY <1>1, <1>2, <1>3, <1>4, <1>5, <1>6, <1>7, <1>8, <1>9, <1>10, <1>11, <1>12, <1>13, <1>14 DEF Next, HandlerStep

\* The invariant says what NoLedgerSkipped says.
LEMMA OrderHolds == ASSUME Base, OrderedTable PROVE NoLedgerSkipped
<1> SUFFICES ASSUME Orderly, NEW l \in Ledgers, l <= state.token, NEW n \in 1..Txs PROVE Rows(l, n) # {}
  BY DEF NoLedgerSkipped, FullyStored
<1>0. OrderInv BY DEF OrderedTable
<1> DEFINE k == Position
           w == Wait(pending, flight)
           c == state.counter
           t == state.token
           j == Upto(l - 1) + n
<1>i. sequence \in Int /\ k \in Int /\ w \in Nat /\ c \in Int /\ t \in Int /\ events \subseteq IndexedEvent
  BY OrderInts DEF Base, TypeOK
<1>1. c <= sequence - w /\ c + k >= sequence + Upto(t) BY <1>0, <1>i DEF OrderInv, CountOK, TokenOK
<1>2. l \in Int /\ l >= 1 /\ l - 1 >= 0 /\ l - 1 \in Int BY DEF Ledgers
<1>3. Upto(l) = Upto(l - 1) + Txs /\ Upto(l - 1) \in Nat /\ Upto(t) \in Int BY <1>2, <1>i, UptoNat, UptoNext
<1>4. Upto(l) <= Upto(t)
  <2>1. CASE l = t BY <1>3, <2>1, IndexerAssumption
  <2>2. CASE l < t
    <3>1. Upto(l) + Txs <= Upto(t) BY <1>2, <1>i, <2>2, UptoMono
    <3> QED BY <1>3, <3>1, IndexerAssumption
  <2> QED BY <1>2, <1>i, <2>1, <2>2
<1>5. j \in 1..(k - w) BY <1>1, <1>3, <1>4, <1>i, IndexerAssumption
<1>6. InTable(j, events) BY <1>0, <1>5 DEF OrderInv, RowsOK
<1>7. PICK row \in events : Place(row) = j BY <1>6 DEF InTable
<1>8. row.ledger = l /\ row.tx = n BY <1>7, <1>i, PlaceUnique
<1> QED BY <1>7, <1>8 DEF Rows

\* Every ledger up to the stored paging token is fully in the table, so that
\* a restart skips nothing, for any number of ledgers, transactions, failed
\* inserts and crashes, when the first start finds a token: without one a
\* crash before the first token resumes from the tip (start,
\* handleLedgerClose).
THEOREM NothingSkipped == ASSUME ~ColdStart PROVE Spec => []NoLedgerSkipped
<1>1. Init => Base /\ OrderedTable
  <2> SUFFICES ASSUME Init PROVE Base /\ OrderInv BY DEF OrderedTable
  <2>1. Base BY BaseInit
  <2>2. Position = 0
    <3>1. cursor = 0 /\ cursor \notin Ledgers BY DEF Init, Ledgers
    <3>2. Upto(0) = 0 BY IndexerAssumption DEF Upto
    <3> QED BY <3>1, <3>2 DEF Position
  <2>3. Len(pending) = 0 /\ flight.pc = "none" /\ Wait(pending, flight) = 0 BY NoFlushTyped, EmptySeq DEF Init, Wait
  <2>4. QueueOK(sequence, Position, pending, flight) BY <2>3 DEF QueueOK, Line
  <2>5. state.counter = 0 /\ state.token = 0 /\ sequence = 0 /\ highest = 0 /\ cursor = 0 /\ events = {} BY DEF Init
  <2>6. CountOK(sequence, Wait(pending, flight), flight, highest, state.counter) BY <2>3, <2>5 DEF CountOK
  <2>7. RowsOK(sequence, Position, Wait(pending, flight), state.counter, events) BY <2>2, <2>3, <2>5 DEF RowsOK
  <2>8. TokenOK(sequence, Position, state.counter, state.token)
    <3>1. Upto(0) = 0 BY IndexerAssumption DEF Upto
    <3> QED BY <2>2, <2>5, <3>1 DEF TokenOK
  <2>9. AloneOK(Wait(pending, flight)) BY DEF AloneOK, Init, Idle
  <2> QED BY <2>1, <2>4, <2>6, <2>7, <2>8, <2>9 DEF OrderInv
<1>2. Base /\ OrderedTable /\ [Next]_vars => (Base /\ OrderedTable)' BY BaseStep, OrderStep
<1>3. Base /\ OrderedTable => NoLedgerSkipped BY OrderHolds
<1> QED BY <1>1, <1>2, <1>3, PTL DEF Spec
=============================================================================
