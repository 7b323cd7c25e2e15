--------------------------- MODULE IndexingProofs ---------------------------
(***************************************************************************)
(* Proofs about the two ways in which ledgers reach the application: the   *)
(* connection of HorizonStream, for any number of calls, ledgers and       *)
(* failures, and the cycles of EventPoller, for any number of              *)
(* transactions, page size, errors and restarts. The two services share    *)
(* no state, and each theorem is about the specification of one of them.   *)
(***************************************************************************)
EXTENDS HorizonStream, EventPoller, TLAPS

-----------------------------------------------------------------------------
(* The connection, when start is not called while an earlier start awaits. *)
(* OneConnection is not inductive alone: a start that awaits will connect, *)
(* so it has to find neither a connection nor a timer when it resumes, and *)
(* it has to be the only one.                                              *)

\* The calls of start that await.
StartOps == {"start", "started"}

\* A start that awaits is alone, and nothing else can connect meanwhile.
StartIsAlone ==
    \A s \in Slots : call[s].op \in StartOps =>
        /\ current = 0 /\ ~reconnectTimer
        /\ \A t \in Slots : call[t].op \in StartOps => t = s

Control == OneConnection /\ StoppedIsSilent /\ ConnectedIsTrue /\ StartIsAlone

-----------------------------------------------------------------------------
LEMMA ControlInit == Init => Control
  BY DEF Init, Control, OneConnection, StoppedIsSilent, ConnectedIsTrue, StartIsAlone,
     StartOps, NoCall, Live

\* connect, called when no other loop is left.
LEMMA ConnectOne ==
    ASSUME opened \in Nat, NEW c, NEW others, DOMAIN others = {},
           Connect(c, others), ~stopping
    PROVE  /\ current' = opened + 1 /\ current' # 0 /\ opened' \in Nat
           /\ DOMAIN loop' = {current'} /\ loop'[current'].pc = "fetch"
<1>1. /\ current' = opened + 1
      /\ opened' = opened + 1
      /\ loop' = [j \in DOMAIN others \cup {opened + 1} |->
                     IF j = opened + 1 THEN [pc |-> "fetch", from |-> c] ELSE others[j]]
  BY DEF Connect
<1>2. DOMAIN loop' = {opened + 1}
  BY <1>1
<1>3. loop'[opened + 1] = [pc |-> "fetch", from |-> c]
  BY <1>1
<1>. QED
  BY <1>1, <1>2, <1>3

LEMMA ConnectStopped ==
    ASSUME NEW c, NEW others, Connect(c, others), stopping
    PROVE  loop' = others /\ current' = current /\ opened' = opened
  BY DEF Connect

\* The calls and what follows their awaits.
LEMMA CallsInv ==
    ASSUME ~Overlap, Control, TypeOK, NEW s \in Slots,
           Calls(s) \/ Resumes(s) \/ CallFails(s)
    PROVE  Control'
<1>. USE DEF Control
<1>0. opened \in Nat /\ call \in [Slots -> [op : {"none", "start", "started", "reset"}, token : Tokens]]
  BY DEF TypeOK
<1>1. CASE Start(s)
  BY <1>0, <1>1 DEF Start, Starting, OneConnection, StoppedIsSilent, ConnectedIsTrue, StartIsAlone,
     StartOps, Live
<1>2. ASSUME NEW c \in Resets, ResetCursor(s, c)
      PROVE  Control'
  BY <1>0, <1>2 DEF ResetCursor, OneConnection, StoppedIsSilent, ConnectedIsTrue, StartIsAlone,
     StartOps, Live, NoCall
<1>3. CASE GetLedgerPagingToken(s)
  BY <1>0, <1>3 DEF GetLedgerPagingToken, OneConnection, StoppedIsSilent, ConnectedIsTrue,
     StartIsAlone, StartOps, Live
<1>4. CASE StartConnect(s)
  <2>0. /\ current = 0 /\ ~reconnectTimer /\ ~connected /\ Live = {}
        /\ \A t \in Slots : t # s => call[t].op \notin StartOps
        /\ Connect(call[s].token, loop)
        /\ call' = [call EXCEPT ![s] = NoCall]
        /\ UNCHANGED <<stopping, reconnectTimer, connected>>
    BY <1>0, <1>4 DEF StartConnect, StartIsAlone, StartOps, OneConnection, ConnectedIsTrue
  <2>1. \A t \in Slots : call'[t].op \notin StartOps
    BY <1>0, <2>0 DEF NoCall, StartOps
  <2>2. CASE stopping
    BY <2>0, <2>1, <2>2, ConnectStopped DEF OneConnection, StoppedIsSilent, ConnectedIsTrue,
       StartIsAlone, Live
  <2>3. CASE ~stopping
    BY <1>0, <2>0, <2>1, <2>3, ConnectOne DEF OneConnection, StoppedIsSilent, ConnectedIsTrue,
       StartIsAlone, Live
  <2>. QED
    BY <2>2, <2>3
<1>5. CASE ResetCursorWritten(s)
  <2>0. /\ \A t \in Slots : call'[t].op \in StartOps => call[t].op \in StartOps
        /\ UNCHANGED <<stopping, reconnectTimer>>
    BY <1>0, <1>5 DEF ResetCursorWritten, NoCall, StartOps
  <2>1. CASE current = 0
    BY <1>5, <2>0, <2>1 DEF ResetCursorWritten, OneConnection, StoppedIsSilent, ConnectedIsTrue,
       StartIsAlone, Live
  <2>2. CASE current # 0
    <3>1. /\ ~stopping /\ ~reconnectTimer /\ connected' = FALSE
          /\ Connect(cursor, Without(current))
          /\ \A t \in Slots : call[t].op \notin StartOps
      BY <1>5, <2>2 DEF ResetCursorWritten, OneConnection, StoppedIsSilent, StartIsAlone
    <3>2. DOMAIN Without(current) = {}
      BY <2>2 DEF Without, OneConnection
    <3>. QED
      BY <1>0, <2>0, <3>1, <3>2, ConnectOne DEF OneConnection, StoppedIsSilent, ConnectedIsTrue,
         StartIsAlone, Live
  <2>. QED
    BY <2>1, <2>2
<1>6. CASE CallFails(s)
  BY <1>0, <1>6 DEF CallFails, OneConnection, StoppedIsSilent, ConnectedIsTrue, StartIsAlone,
     StartOps, Live, NoCall
<1>. QED
  BY <1>1, <1>2, <1>3, <1>4, <1>5, <1>6 DEF Calls, Resumes

\* stop, the stream loops, the timer and the network.
LEMMA LoopInv ==
    ASSUME Control, TypeOK,
           \/ Stop \/ Reconnect \/ LedgerCloses
           \/ \E k \in Live : Reads(k) \/ StreamEnds(k)
    PROVE  Control'
<1>. USE DEF Control
<1>0. opened \in Nat /\ \A k \in Live : loop[k].pc \in {"fetch", "read"}
  BY DEF TypeOK
<1>1. CASE Stop
  <2>1. /\ stopping' /\ ~reconnectTimer' /\ current' = 0 /\ ~connected' /\ call' = call
        /\ loop' = Without(current)
    BY <1>1 DEF Stop
  <2>2. DOMAIN loop' = {}
    BY <2>1 DEF Without, OneConnection
  <2>. QED
    BY <2>1, <2>2 DEF OneConnection, StoppedIsSilent, ConnectedIsTrue, StartIsAlone, Live
<1>2. CASE Reconnect
  <2>1. /\ reconnectTimer /\ current = 0 /\ Live = {} /\ ~stopping /\ ~reconnectTimer' /\ ~connected'
        /\ ~stopping' /\ call' = call /\ Connect(cursor, loop)
        /\ \A s \in Slots : call[s].op \notin StartOps
    BY <1>2 DEF Reconnect, OneConnection, StoppedIsSilent, ConnectedIsTrue, StartIsAlone
  <2>. QED
    BY <1>0, <2>1, ConnectOne DEF OneConnection, StoppedIsSilent, ConnectedIsTrue,
       StartIsAlone, Live
<1>3. CASE LedgerCloses
  BY <1>3 DEF LedgerCloses, OneConnection, StoppedIsSilent, ConnectedIsTrue, StartIsAlone, Live
<1>4. ASSUME NEW k \in Live, FetchSucceeds(k) \/ HandleLedgerRecord(k) \/ StreamEnds(k)
      PROVE  Control'
  <2>0. k = current /\ current # 0 /\ Live = {current} /\ ~reconnectTimer /\ ~stopping
    BY <1>4 DEF OneConnection, StoppedIsSilent
  <2>1. CASE FetchSucceeds(k)
    <3>1. /\ loop' = [loop EXCEPT ![k].pc = "read"] /\ connected'
          /\ UNCHANGED <<stopping, reconnectTimer, current, call>>
      BY <2>1 DEF FetchSucceeds
    <3>2. DOMAIN loop' = {current} /\ loop'[current].pc = "read"
      <4>1. \A j \in DOMAIN loop : loop[j] \in [pc : {"fetch", "read"}, from : Tokens]
        BY DEF TypeOK, Live
      <4>. QED
        BY <2>0, <3>1, <4>1 DEF Live
    <3>. QED
      BY <2>0, <3>1, <3>2 DEF OneConnection, StoppedIsSilent, ConnectedIsTrue, StartIsAlone, Live
  <2>2. CASE HandleLedgerRecord(k)
    <3>1. /\ loop' = [loop EXCEPT ![k].from = @ + 1] /\ loop[k].pc = "read"
          /\ UNCHANGED <<stopping, reconnectTimer, current, connected, call>>
      BY <2>2 DEF HandleLedgerRecord
    <3>2. DOMAIN loop' = {current} /\ loop'[current].pc = "read"
      <4>1. \A j \in DOMAIN loop : loop[j] \in [pc : {"fetch", "read"}, from : Tokens]
        BY DEF TypeOK, Live
      <4>. QED
        BY <2>0, <3>1, <4>1 DEF Live
    <3>. QED
      BY <2>0, <3>1, <3>2 DEF OneConnection, StoppedIsSilent, ConnectedIsTrue, StartIsAlone, Live
  <2>3. CASE StreamEnds(k)
    <3>1. /\ loop' = Without(k) /\ ~connected' /\ current' = 0
          /\ UNCHANGED <<stopping, call>>
      BY <2>0, <2>3 DEF StreamEnds
    <3>2. DOMAIN loop' = {}
      BY <2>0, <3>1 DEF Without
    <3>3. \A s \in Slots : call'[s].op \notin StartOps
      BY <2>0, <3>1 DEF StartIsAlone
    <3>. QED
      BY <2>0, <3>1, <3>2, <3>3 DEF OneConnection, StoppedIsSilent, ConnectedIsTrue,
         StartIsAlone, Live
  <2>. QED
    BY <1>4, <2>1, <2>2, <2>3
<1>. QED
  BY <1>1, <1>2, <1>3, <1>4 DEF Reads

-----------------------------------------------------------------------------
(* Types *)

\* The loops that run, with the numbers they were opened under.
GoodLoops(l, n) ==
    /\ DOMAIN l \subseteq 1..n
    /\ \A k \in DOMAIN l : l[k] \in [pc : {"fetch", "read"}, from : Tokens]

CallType == [op : {"none", "start", "started", "reset"}, token : Tokens]

\* TypeOK by its parts; attempts count faults, so they share their bound.
StreamTypes ==
    /\ opened \in Nat /\ current \in 0..opened /\ GoodLoops(loop, opened)
    /\ cursor \in Tokens /\ token \in Tokens /\ closed \in Tokens
    /\ stopping \in BOOLEAN /\ reconnectTimer \in BOOLEAN /\ connected \in BOOLEAN /\ torn \in BOOLEAN
    /\ attempts \in Nat /\ attempts <= faults
    /\ calls \in 0..MaxCalls /\ faults \in 0..MaxFaults
    /\ call \in [Slots -> CallType]

LEMMA StreamTypesOK == StreamTypes => TypeOK
<1>. SUFFICES ASSUME StreamTypes PROVE TypeOK
  OBVIOUS
<1>1. attempts \in 0..MaxFaults
  BY StreamAssumption DEF StreamTypes
<1>. QED
  BY <1>1 DEF StreamTypes, TypeOK, GoodLoops, CallType, Live

LEMMA GoodWithout ==
    ASSUME NEW n, GoodLoops(loop, n), NEW k
    PROVE  GoodLoops(Without(k), n)
  BY DEF GoodLoops, Without, Live

LEMMA ConnectTypes ==
    ASSUME opened \in Nat, current \in 0..opened, NEW c \in Tokens, NEW others,
           GoodLoops(others, opened), Connect(c, others)
    PROVE  opened' \in Nat /\ current' \in 0..opened' /\ GoodLoops(loop', opened')
<1>1. CASE stopping
  BY <1>1, ConnectStopped DEF GoodLoops
<1>2. CASE ~stopping
  <2>1. /\ opened' = opened + 1 /\ current' = opened + 1
        /\ loop' = [j \in DOMAIN others \cup {opened + 1} |->
                      IF j = opened + 1 THEN [pc |-> "fetch", from |-> c] ELSE others[j]]
    BY <1>2 DEF Connect
  <2>2. DOMAIN loop' \subseteq 1..opened'
    BY <2>1 DEF GoodLoops
  <2>3. ASSUME NEW k \in DOMAIN loop'
        PROVE  loop'[k] \in [pc : {"fetch", "read"}, from : Tokens]
    BY <2>1, <2>3 DEF GoodLoops
  <2>. QED
    BY <2>1, <2>2, <2>3 DEF GoodLoops
<1>. QED
  BY <1>1, <1>2

LEMMA TypesStep ==
    ASSUME StreamTypes, [Next]_vars
    PROVE  StreamTypes'
<1>. USE DEF StreamTypes
<1>1. MaxLedger \in Nat /\ MaxCalls \in Nat /\ MaxFaults \in Nat /\ Resets \subseteq Tokens
  BY StreamAssumption DEF Tokens
<1>2. NoCall \in CallType
  BY <1>1 DEF NoCall, CallType, Tokens
<1>3. ASSUME NEW s \in Slots, Start(s)
      PROVE  StreamTypes'
  <2>1. /\ calls' \in 0..MaxCalls /\ 0 \in Tokens
        /\ attempts' \in Nat /\ attempts' <= faults
    BY <1>1, <1>3 DEF Start, Called, Tokens
  <2>2. call' \in [Slots -> CallType]
    BY <1>3, <2>1 DEF Start, CallType
  <2>3. /\ stopping' = FALSE
        /\ UNCHANGED <<reconnectTimer, current, connected, cursor, loop, opened, token, closed, faults,
                       torn>>
    BY <1>3 DEF Start
  <2>. QED
    BY <2>1, <2>2, <2>3
<1>4. ASSUME NEW s \in Slots, NEW c \in Resets, ResetCursor(s, c)
      PROVE  StreamTypes'
  BY <1>1, <1>4 DEF ResetCursor, Called, CallType
<1>5. ASSUME NEW s \in Slots, GetLedgerPagingToken(s)
      PROVE  StreamTypes'
  BY <1>1, <1>5 DEF GetLedgerPagingToken, CallType
<1>6. ASSUME NEW s \in Slots, StartConnect(s)
      PROVE  StreamTypes'
  <2>1. call[s].token \in Tokens
    BY <1>1 DEF CallType
  <2>2. opened' \in Nat /\ current' \in 0..opened' /\ GoodLoops(loop', opened')
    BY <1>6, <2>1, ConnectTypes DEF StartConnect
  <2>. QED
    BY <1>1, <1>2, <1>6, <2>1, <2>2 DEF StartConnect
<1>7. ASSUME NEW s \in Slots, ResetCursorWritten(s)
      PROVE  StreamTypes'
  <2>1. call[s].token \in Tokens
    BY <1>1 DEF CallType
  <2>2. opened' \in Nat /\ current' \in 0..opened' /\ GoodLoops(loop', opened')
    <3>1. GoodLoops(Without(current), opened)
      BY GoodWithout
    <3>2. CASE current # 0 /\ Connect(cursor, Without(current))
      BY <3>1, <3>2, ConnectTypes
    <3>3. CASE UNCHANGED <<current, loop, opened>>
      BY <3>3
    <3>. QED
      BY <1>7, <3>2, <3>3 DEF ResetCursorWritten
  <2>. QED
    BY <1>1, <1>2, <1>7, <2>1, <2>2 DEF ResetCursorWritten
<1>8. ASSUME NEW s \in Slots, CallFails(s)
      PROVE  StreamTypes'
  <2>1. torn' \in BOOLEAN
    BY <1>8 DEF CallFails
  <2>2. /\ call' \in [Slots -> CallType] /\ faults' \in 0..MaxFaults /\ attempts <= faults'
        /\ UNCHANGED <<stopping, reconnectTimer, current, connected, cursor, attempts, loop, opened,
                       token, closed, calls>>
    BY <1>1, <1>2, <1>8 DEF CallFails
  <2>. QED
    BY <2>1, <2>2
<1>9. CASE Stop
  <2>1. GoodLoops(loop', opened')
    BY <1>9, GoodWithout DEF Stop
  <2>2. calls' \in 0..MaxCalls /\ 0 \in 0..opened
    BY <1>1, <1>9 DEF Stop, Called
  <2>. QED
    BY <1>9, <2>1, <2>2 DEF Stop
<1>10. ASSUME NEW k \in Live, FetchSucceeds(k)
       PROVE  StreamTypes'
  <2>1. loop[k] \in [pc : {"fetch", "read"}, from : Tokens]
    BY DEF GoodLoops, Live
  <2>2. loop' = [loop EXCEPT ![k] = [@ EXCEPT !.pc = "read"]]
    BY <1>10 DEF FetchSucceeds
  <2>3. GoodLoops(loop', opened)
    BY <2>1, <2>2 DEF GoodLoops
  <2>. QED
    BY <1>10, <2>3 DEF FetchSucceeds
<1>11. ASSUME NEW k \in Live, HandleLedgerRecord(k)
       PROVE  StreamTypes'
  <2>1. loop[k] \in [pc : {"fetch", "read"}, from : Tokens]
    BY DEF GoodLoops, Live
  <2>2. loop[k].from + 1 \in Tokens
    BY <1>1, <1>11, <2>1 DEF HandleLedgerRecord, Tokens
  <2>3. loop' = [loop EXCEPT ![k] = [loop[k] EXCEPT !.from = loop[k].from + 1]]
    BY <1>11 DEF HandleLedgerRecord
  <2>4. GoodLoops(loop', opened)
    BY <2>1, <2>2, <2>3 DEF GoodLoops
  <2>5. attempts' = 0 /\ 0 <= faults
    BY <1>1, <1>11 DEF HandleLedgerRecord
  <2>. QED
    BY <1>11, <2>2, <2>4, <2>5 DEF HandleLedgerRecord
<1>12. ASSUME NEW k \in Live, StreamEnds(k)
       PROVE  StreamTypes'
  <2>1. GoodLoops(loop', opened')
    BY <1>12, GoodWithout DEF StreamEnds
  <2>2. attempts' \in {attempts, attempts + 1} /\ faults' = faults + 1 /\ faults < MaxFaults
    BY <1>12 DEF StreamEnds
  <2>3. reconnectTimer' \in BOOLEAN /\ current' \in {0, current}
    BY <1>12 DEF StreamEnds
  <2>4. faults' \in 0..MaxFaults /\ attempts' \in Nat /\ attempts' <= faults'
    BY <1>1, <2>2
  <2>5. current' \in 0..opened /\ connected' \in BOOLEAN
    <3>1. 0 \in 0..opened /\ connected' = FALSE
      BY <1>12 DEF StreamEnds
    <3>. QED
      BY <2>3, <3>1
  <2>6. UNCHANGED <<stopping, cursor, opened, call, token, closed, calls, torn>>
    BY <1>12 DEF StreamEnds
  <2>. QED
    BY <2>1, <2>3, <2>4, <2>5, <2>6
<1>13. CASE Reconnect
  <2>1. opened' \in Nat /\ current' \in 0..opened' /\ GoodLoops(loop', opened')
    BY <1>13, ConnectTypes DEF Reconnect
  <2>. QED
    BY <1>1, <1>13, <2>1 DEF Reconnect
<1>14. CASE LedgerCloses
  BY <1>1, <1>14 DEF LedgerCloses, Tokens
<1>15. CASE UNCHANGED vars
  BY <1>1, <1>15 DEF vars
<1>. QED
  BY <1>3, <1>4, <1>5, <1>6, <1>7, <1>8, <1>9, <1>10, <1>12, <1>13, <1>14, <1>15, <1>11
     DEF Next, Calls, Resumes, Reads

-----------------------------------------------------------------------------
(* The results *)

\* Every reachable state of the stream is well typed.
THEOREM StreamTypeCorrect == Spec => []TypeOK
<1>1. Init => StreamTypes
  <2>. SUFFICES ASSUME Init PROVE StreamTypes
    OBVIOUS
  <2>1. NoCall \in CallType /\ 0 \in Tokens /\ 0 \in 0..MaxCalls /\ 0 \in 0..MaxFaults
    BY StreamAssumption DEF NoCall, CallType, Tokens
  <2>2. GoodLoops(loop, opened)
    BY DEF Init, GoodLoops
  <2>3. call \in [Slots -> CallType]
    BY <2>1 DEF Init
  <2>4. opened \in Nat /\ current \in 0..opened /\ attempts \in Nat /\ attempts <= faults
    BY DEF Init
  <2>. QED
    BY <2>1, <2>2, <2>3, <2>4 DEF Init, StreamTypes
<1>. QED
  BY <1>1, StreamTypesOK, TypesStep, PTL DEF Spec

\* When starts do not overlap there is never more than one connection, a timer
\* never runs beside it, nothing survives stop, and isConnected is right.
THEOREM OneConnectionAtATime ==
    ASSUME ~Overlap
    PROVE  Spec => [](OneConnection /\ StoppedIsSilent /\ ConnectedIsTrue)
<1>1. Control /\ TypeOK /\ [Next]_vars => Control'
  <2>. SUFFICES ASSUME Control, TypeOK, [Next]_vars PROVE Control'
    OBVIOUS
  <2>1. CASE UNCHANGED vars
    BY <2>1 DEF vars, Control, OneConnection, StoppedIsSilent, ConnectedIsTrue, StartIsAlone, Live
  <2>. QED
    BY <2>1, CallsInv, LoopInv DEF Next
<1>2. Control => OneConnection /\ StoppedIsSilent /\ ConnectedIsTrue
  BY DEF Control
<1>. QED
  BY <1>1, <1>2, ControlInit, StreamTypeCorrect, PTL DEF Spec

-----------------------------------------------------------------------------
(* The cycles. The properties speak of last_cursor and of the channel,     *)
(* which move once a page and once an insert; the inductive invariant says *)
(* what a cycle has done at every point in between.                        *)

\* Everything up to transaction n is stored, given up or without events.
Covered(n) == \A t \in (1..n) \ Failed : t \in rows \cup missed

\* The points of a cycle at which transaction `at' of the page is in hand.
InPage == {"transaction", "insert", "publish"}

Types ==
    /\ chain \in 0..MaxTx /\ lastCursor \in 0..chain /\ lastLedger \in 0..chain
    /\ rows \subseteq 1..chain \ Failed
    /\ missed \subseteq 1..chain /\ streamed \subseteq 1..chain
    /\ published \in [Txs -> Nat]
    /\ pc \in {"idle", "cursor", "fetch", "setCursor", "getLedger"} \cup InPage
    /\ at \in 0..chain + 1 /\ pageEnd \in 0..chain
    /\ timer \in {"unset", "set", "cleared"} /\ shuttingDown \in BOOLEAN
    /\ errors \in 0..MaxErrors /\ crashes \in 0..MaxCrashes /\ wasClosed \in BOOLEAN

\* Where the cycle is in its page, and that the page lies after the cursor.
Position ==
    /\ pc = "fetch" => at = lastCursor
    /\ pc \in InPage => at \in 1..pageEnd
    /\ pc \in {"insert", "publish"} => at \notin Failed
    /\ pc \in InPage \cup {"setCursor"} => lastCursor <= pageEnd
    /\ pc = "getLedger" => lastCursor = pageEnd
    /\ lastLedger <= lastCursor

\* Until an orderly shutdown the transactions before `at' are dealt with.
Progress ==
    \/ wasClosed
    \/ /\ ~shuttingDown
       /\ Covered(lastCursor)
       /\ pc \in InPage => Covered(at - 1)
       /\ pc = "setCursor" => Covered(pageEnd)

\* What was published is stored, and what is about to be published was not
\* published before: the row is new.
Publication ==
    /\ \A t \in Txs :
         published[t] <= (IF t \in rows THEN 1 ELSE 0) + (IF t \in streamed THEN 1 ELSE 0)
    /\ pc = "publish" =>
         at \in rows /\ published[at] <= (IF at \in streamed THEN 1 ELSE 0)

PollerInv == Types /\ Position /\ Progress /\ Publication

-----------------------------------------------------------------------------
LEMMA PollerBegins == PollerInit => PollerInv
<1>. SUFFICES ASSUME PollerInit PROVE PollerInv
  OBVIOUS
<1>1. Types
  <2>1. MaxTx \in Nat /\ MaxErrors \in Nat /\ MaxCrashes \in Nat
    BY PollerAssumption
  <2>2. published \in [Txs -> Nat]
    BY DEF PollerInit
  <2>3. /\ chain \in 0..MaxTx /\ lastCursor \in 0..chain /\ lastLedger \in 0..chain
        /\ errors \in 0..MaxErrors /\ crashes \in 0..MaxCrashes
        /\ at \in 0..chain + 1 /\ pageEnd \in 0..chain
    BY <2>1 DEF PollerInit
  <2>4. /\ rows = {} /\ missed = {} /\ streamed = {} /\ shuttingDown = FALSE
        /\ wasClosed = FALSE /\ pc = "cursor" /\ timer = "unset"
    BY DEF PollerInit
  <2>. QED
    BY <2>2, <2>3, <2>4 DEF Types
<1>2. Position
  BY DEF PollerInit, Position, InPage
<1>3. Progress
  BY DEF PollerInit, Progress, Covered, InPage
<1>4. Publication
  BY DEF PollerInit, Publication, Txs
<1>. QED
  BY <1>1, <1>2, <1>3, <1>4 DEF PollerInv

\* On to the next transaction once the one in hand is dealt with.
LEMMA Advance ==
    ASSUME Types, Position, Progress, pc \in InPage, NextTransaction,
           UNCHANGED <<lastCursor, lastLedger, pageEnd, shuttingDown, chain, wasClosed>>,
           rows \subseteq rows', missed \subseteq missed',
           at \in Failed \/ at \in rows' \cup missed'
    PROVE  Position' /\ Progress' /\ at' \in 0..chain + 1
           /\ pc' \in {"transaction", "setCursor"}
<1>1. /\ at \in 1..pageEnd /\ pageEnd \in Nat /\ chain \in Nat /\ pageEnd <= chain
      /\ lastCursor \in Nat /\ at \in Nat
  BY PollerAssumption DEF Types, Position
<1>2. at' = at + 1 /\ pc' = IF at < pageEnd THEN "transaction" ELSE "setCursor"
  BY DEF NextTransaction
<1>3. Position'
  BY <1>1, <1>2 DEF Position, InPage
<1>4. Progress'
  <2>. SUFFICES ASSUME ~wasClosed PROVE Progress'
    BY DEF Progress
  <2>1. Covered(at - 1) /\ Covered(lastCursor) /\ ~shuttingDown
    BY DEF Progress
  <2>2. ASSUME NEW t \in (1..at) \ Failed PROVE t \in rows' \cup missed'
    <3>1. t = at \/ t \in 1..(at - 1)
      BY <1>1
    <3>. QED
      BY <2>1, <3>1 DEF Covered
  <2>3. Covered(lastCursor)'
    BY <2>1 DEF Covered
  <2>4. (at + 1) - 1 = at
    BY <1>1
  <2>. QED
    BY <1>1, <1>2, <2>1, <2>2, <2>3, <2>4 DEF Progress, Covered, InPage
<1>. QED
  BY <1>1, <1>2, <1>3, <1>4

-----------------------------------------------------------------------------
(* One lemma for each group of steps. *)

\* The steps of a cycle, each with the parts of the invariant it moves.
LEMMA CycleInv ==
    ASSUME PollerInv, Cycle
    PROVE  PollerInv'
<1>. USE DEF PollerInv
<1>0. /\ MaxTx \in Nat /\ chain \in Nat /\ at \in Nat /\ pageEnd \in Nat
      /\ lastCursor \in Nat /\ lastLedger \in Nat /\ PageLimit \in Nat \ {0}
  BY PollerAssumption DEF Types
<1>1. CASE GetLastCursor
  <2>1. Types'
    BY <1>0, <1>1 DEF GetLastCursor, Types, stored, world
  <2>2. Position' /\ Progress' /\ Publication'
    BY <1>0, <1>1 DEF GetLastCursor, Position, Progress, Publication, Covered, InPage, stored, world
  <2>. QED
    BY <2>1, <2>2
<1>2. CASE GetTransactionsSinceCursor
  <2>1. CASE at = chain
    <3>1. Types'
      BY <1>0, <1>2, <2>1 DEF GetTransactionsSinceCursor, EndCycle, Types, stored, world
    <3>2. Position' /\ Progress' /\ Publication'
      BY <1>0, <1>2, <2>1 DEF GetTransactionsSinceCursor, EndCycle, Position, Progress,
         Publication, Covered, InPage, stored, world
    <3>. QED
      BY <3>1, <3>2
  <2>2. CASE at < chain
    <3>1. /\ pageEnd' \in (at + 1)..chain /\ at' = at + 1 /\ pc' = "transaction"
          /\ at = lastCursor
          /\ UNCHANGED <<lastCursor, lastLedger, rows, published, missed, timer, shuttingDown,
                         chain, streamed, errors, crashes, wasClosed>>
      BY <1>0, <1>2, <2>2 DEF GetTransactionsSinceCursor, Least, Position, stored, world
    <3>2. Types'
      BY <1>0, <2>2, <3>1 DEF Types, InPage
    <3>3. Position' /\ Publication'
      BY <1>0, <3>1 DEF Position, Publication, InPage
    <3>4. Progress'
      BY <1>0, <3>1 DEF Progress, Covered, InPage
    <3>. QED
      BY <3>2, <3>3, <3>4
  <2>. QED
    BY <1>2, <2>1, <2>2 DEF GetTransactionsSinceCursor
<1>3. CASE ProcessTransaction
  <2>0. /\ pc = "transaction" /\ pc \in InPage /\ at \in 1..chain
        /\ UNCHANGED <<lastCursor, lastLedger, rows, published, pageEnd, timer, shuttingDown,
                       chain, streamed, errors, crashes, wasClosed>>
    BY <1>0, <1>3 DEF ProcessTransaction, stored, world, InPage, Position, Types
  <2>1. CASE pc' = "setCursor" /\ shuttingDown /\ UNCHANGED <<at, missed>>
    BY <2>0, <2>1 DEF Types, Position, Progress, Publication, InPage
  <2>2. CASE at \in Failed /\ NextTransaction /\ UNCHANGED missed
    <3>1. Position' /\ Progress' /\ at' \in 0..chain + 1 /\ pc' \in {"transaction", "setCursor"}
      BY <2>0, <2>2, Advance
    <3>. QED
      BY <2>0, <2>2, <3>1 DEF Types, Publication, InPage
  <2>3. CASE at \notin Failed /\ pc' = "insert" /\ UNCHANGED <<at, missed>>
    BY <2>0, <2>3 DEF Types, Position, Progress, Publication, Covered, InPage
  <2>4. CASE missed' = missed \cup {at} /\ NextTransaction
    <3>1. Position' /\ Progress' /\ at' \in 0..chain + 1 /\ pc' \in {"transaction", "setCursor"}
      BY <2>0, <2>4, Advance
    <3>. QED
      BY <2>0, <2>4, <3>1 DEF Types, Publication, InPage
  <2>. QED
    BY <1>3, <2>1, <2>2, <2>3, <2>4 DEF ProcessTransaction
<1>4. CASE DeduplicateAndPersist
  <2>0. /\ pc = "insert" /\ pc \in InPage /\ at \in (1..chain) \ Failed /\ at \in Txs
        /\ rows' = rows \cup {at}
        /\ UNCHANGED <<lastCursor, lastLedger, published, missed, pageEnd, timer, shuttingDown,
                       chain, streamed, errors, crashes, wasClosed>>
    BY <1>0, <1>4 DEF DeduplicateAndPersist, world, InPage, Position, Types, Txs
  <2>1. CASE at \notin rows /\ pc' = "publish" /\ UNCHANGED at
    <3>1. Types' /\ Position'
      BY <2>0, <2>1 DEF Types, Position, InPage
    <3>2. Progress'
      BY <2>0, <2>1 DEF Progress, Covered, InPage
    <3>3. Publication'
      BY <2>0, <2>1 DEF Publication, Types
    <3>. QED
      BY <3>1, <3>2, <3>3
  <2>2. CASE at \in rows /\ NextTransaction
    <3>1. Position' /\ Progress' /\ at' \in 0..chain + 1 /\ pc' \in {"transaction", "setCursor"}
      BY <2>0, <2>2, Advance
    <3>2. rows' = rows
      BY <2>0, <2>2
    <3>. QED
      BY <2>0, <2>2, <3>1, <3>2 DEF Types, Publication, InPage
  <2>. QED
    BY <1>4, <2>1, <2>2 DEF DeduplicateAndPersist
<1>5. CASE Publish
  <2>0. /\ pc = "publish" /\ pc \in InPage /\ at \in rows /\ at \in Txs
        /\ NextTransaction
        /\ published' = [published EXCEPT ![at] = @ + 1] \/ published' = published
        /\ UNCHANGED <<lastCursor, lastLedger, rows, missed, pageEnd, timer, shuttingDown,
                       chain, streamed, errors, crashes, wasClosed>>
    BY <1>0, <1>5 DEF Publish, stored, world, InPage, Publication, Types, Txs
  <2>1. Position' /\ Progress' /\ at' \in 0..chain + 1 /\ pc' \in {"transaction", "setCursor"}
    BY <2>0, Advance
  <2>2. Types'
    BY <2>0, <2>1 DEF Types, InPage
  <2>3. Publication'
    BY <2>0, <2>1 DEF Publication, Types
  <2>. QED
    BY <2>1, <2>2, <2>3
<1>6. CASE SetLastCursor
  BY <1>0, <1>6 DEF SetLastCursor, Types, Position, Progress, Publication, Covered, InPage, world
<1>7. CASE SetLastIndexedLedger
  BY <1>0, <1>7 DEF SetLastIndexedLedger, EndCycle, Types, Position, Progress, Publication,
     Covered, InPage, world
<1>. QED
  BY <1>1, <1>2, <1>3, <1>4, <1>5, <1>6, <1>7 DEF Cycle

\* The steps of the application and of the network.
LEMMA OtherInv ==
    ASSUME PollerInv,
           \/ Tick \/ CycleFails \/ StopPoller \/ Restart \/ Submit
           \/ \E t \in Txs : RealTimePublish(t)
    PROVE  PollerInv'
<1>. USE DEF PollerInv
<1>0. /\ MaxTx \in Nat /\ chain \in Nat /\ at \in Nat /\ pageEnd \in Nat
      /\ lastCursor \in Nat /\ lastLedger \in Nat /\ MaxErrors \in Nat /\ MaxCrashes \in Nat
  BY PollerAssumption DEF Types
<1>1. CASE Tick
  BY <1>0, <1>1 DEF Tick, Types, Position, Progress, Publication, InPage, stored, world, Covered
<1>2. CASE CycleFails
  <2>1. Types'
    BY <1>0, <1>2 DEF CycleFails, EndCycle, Types, stored
  <2>. QED
    BY <1>0, <1>2, <2>1 DEF CycleFails, EndCycle, Position, Progress, Publication, InPage,
       Covered, stored
<1>3. CASE StopPoller
  BY <1>0, <1>3 DEF StopPoller, Types, Position, Progress, Publication, InPage, stored, world, Covered
<1>4. CASE Restart
  <2>1. Types'
    <3>1. /\ crashes' \in 0..MaxCrashes /\ at' \in 0..chain + 1 /\ pageEnd' \in 0..chain
      BY <1>0, <1>4 DEF Restart, Types
    <3>2. /\ pc' = "cursor" /\ timer' = "unset" /\ shuttingDown' = FALSE
          /\ UNCHANGED <<lastCursor, lastLedger, rows, published, missed, chain, streamed, errors, wasClosed>>
      BY <1>4 DEF Restart, stored
    <3>. QED
      BY <3>1, <3>2 DEF Types
  <2>. QED
    BY <1>0, <1>4, <2>1 DEF Restart, Position, Progress, Publication, InPage, Covered, stored
<1>5. CASE Submit
  <2>1. Types'
    BY <1>0, <1>5 DEF Submit, Types, stored
  <2>. QED
    BY <1>0, <1>5, <2>1 DEF Submit, Position, Progress, Publication, InPage, Covered, stored
<1>6. ASSUME NEW t \in Txs, RealTimePublish(t)
      PROVE  PollerInv'
  <2>0. /\ t \in 1..chain /\ t \notin streamed
        /\ streamed' = streamed \cup {t}
        /\ published' = [published EXCEPT ![t] = @ + 1]
        /\ UNCHANGED <<lastCursor, lastLedger, rows, missed, pc, at, pageEnd, timer,
                       shuttingDown, chain, errors, crashes, wasClosed>>
    BY <1>0, <1>6 DEF RealTimePublish, stored, Txs
  <2>1. Types'
    BY <2>0 DEF Types
  <2>2. Position' /\ Progress'
    BY <2>0 DEF Position, Progress, Covered
  <2>3. Publication'
    <3>1. published \in [Txs -> Nat] /\ rows \subseteq Txs
      BY <1>0 DEF Types, Txs
    <3>. QED
      BY <2>0, <3>1 DEF Publication
  <2>. QED
    BY <2>1, <2>2, <2>3
<1>. QED
  BY <1>1, <1>2, <1>3, <1>4, <1>5, <1>6

-----------------------------------------------------------------------------
(* The results *)

\* The inductive invariant: what a cycle has done at each of its awaits,
\* through errors, restarts and the other indexer.
THEOREM PollerInvariant == PollerSpec => []PollerInv
<1>1. PollerInv /\ UNCHANGED pollerVars => PollerInv'
  BY DEF PollerInv, Types, Position, Progress, Publication, Covered, pollerVars
<1>2. PollerInv /\ [PollerNext]_pollerVars => PollerInv'
  BY <1>1, CycleInv, OtherInv DEF PollerNext
<1>. QED
  BY <1>2, PollerBegins, PTL DEF PollerSpec

\* Every reachable state is well typed, with rows only of successful
\* transactions and no event published more than twice.
THEOREM PollerTypes == PollerSpec => []PollerTypeOK
<1>1. PollerInv => PollerTypeOK
  <2>. SUFFICES ASSUME PollerInv PROVE PollerTypeOK
    OBVIOUS
  <2>1. \A t \in Txs : published[t] \in 0..2
    BY DEF PollerInv, Types, Publication
  <2>2. published \in [Txs -> 0..2]
    BY <2>1 DEF PollerInv, Types
  <2>. QED
    BY <2>2 DEF PollerInv, Types, PollerTypeOK, InPage
<1>. QED
  BY <1>1, PollerInvariant, PTL

\* Unless the application is closed in the middle of a page, last_cursor never
\* passes a transaction that indexNewEvents has not dealt with.
THEOREM NeverSkips == PollerSpec => []NothingSkipped
<1>1. PollerInv => NothingSkipped
  BY DEF PollerInv, Progress, Covered, NothingSkipped
<1>. QED
  BY <1>1, PollerInvariant, PTL

\* deduplicateAndPersist publishes an event at most once, over all replays of
\* its page; what exceeds it is the real-time indexer's own publication.
THEOREM NeverTwice == PollerSpec => []PublishedOnce
<1>1. PollerInv => PublishedOnce
  <2>. SUFFICES ASSUME PollerInv, NEW t \in Txs
                PROVE  published[t] <= IF t \in streamed THEN 2 ELSE 1
    BY DEF PublishedOnce
  <2>1. published[t] \in Nat
    BY DEF PollerInv, Types
  <2>2. published[t] <= (IF t \in rows THEN 1 ELSE 0) + (IF t \in streamed THEN 1 ELSE 0)
    BY DEF PollerInv, Publication
  <2>. QED
    BY <2>1, <2>2
<1>. QED
  BY <1>1, PollerInvariant, PTL

\* The ledger that reorg detection looks at was reached by the cursor first.
THEOREM LedgerNeverAhead == PollerSpec => []LedgerBehindCursor
<1>1. PollerInv => LedgerBehindCursor
  BY DEF PollerInv, Position, LedgerBehindCursor
<1>. QED
  BY <1>1, PollerInvariant, PTL
=============================================================================
