---------------------------- MODULE DeliveryProofs ----------------------------
(***************************************************************************)
(* Proofs about the gateway to Horizon, the webhooks, the notifications    *)
(* and the contract events, for any number of requests, connections,       *)
(* deliveries, couriers, retries, ledgers and events.                      *)
(***************************************************************************)
EXTENDS MCDelivery, SequenceTheorems, FiniteSetTheorems, WellFoundedInduction, TLAPS

-----------------------------------------------------------------------------
(* The gateway: connections and slots *)

\* The gateway is one of the parts of a behaviour, and the others leave
\* its state alone.
LEMMA GatewayPart ==
  /\ Init => G!Init
  /\ [Next]_vars => [G!Next]_(G!vars)
  BY DEF Init, Next, vars, gatewayVars, G!vars

\* The requests that hold a connection.
Calling == {r \in GatewayRequests : progress[r] = "calling"}

\* The requests that occupy one of the concurrent slots.
Active == {r \in GatewayRequests : progress[r] \in {"calling", "waiting"}}

\* The connections the pool has opened.
Opened == {c \in 1..POOL_MAX : conns[c] # "absent"}

\* The queue holds each waiting request once, and nothing else.
LineOK ==
  /\ waitingLine \in Seq(GatewayRequests)
  /\ \A i \in 1..Len(waitingLine) : progress[waitingLine[i]] = "queued"
  /\ \A i, j \in 1..Len(waitingLine) : waitingLine[i] = waitingLine[j] => i = j

\* Two requests never hold one connection.
HeldOnce == \A r, s \in Calling : holds[r] = holds[s] => r = s

\* What a request holds is marked busy, so acquire passes it over.
HeldAreBusy == \A r \in Calling : holds[r] \in 1..POOL_MAX /\ conns[holds[r]] = "busy"

\* What is marked busy is held, so nothing is leaked.
BusyAreHeld == \A c \in 1..POOL_MAX : conns[c] = "busy" => \E r \in Calling : holds[r] = c

\* The books of the pool agree with the requests, in both directions.
ConnsOK == HeldOnce /\ HeldAreBusy /\ BusyAreHeld

\* activeRequests counts the requests between dequeue and release.
SlotsOK == Cardinality(Active) = activeRequests

\* The pool never has fewer connections than it opened at the start.
PoolOK == Cardinality(Opened) >= POOL_MIN

\* The inductive invariant of the gateway.
GatewayInv == G!TypeOK /\ LineOK /\ ConnsOK /\ SlotsOK /\ PoolOK

\* The sets whose members are counted are finite.
LEMMA GatewayFinite ==
  /\ IsFiniteSet(Active) /\ Cardinality(Active) \in Nat
  /\ IsFiniteSet(Opened) /\ Cardinality(Opened) \in Nat
<1>1. IsFiniteSet(Active) BY GatewayAssumption, FS_Subset DEF Active
<1>2. IsFiniteSet(1..POOL_MAX) BY GatewayAssumption, FS_Interval
<1>3. IsFiniteSet(Opened) BY <1>2, FS_Subset DEF Opened
<1> QED BY <1>1, <1>3, FS_CardinalityType

\* It holds when the module has started.
LEMMA GatewayInit == G!Init => GatewayInv
<1> SUFFICES ASSUME G!Init PROVE GatewayInv OBVIOUS
<1>1. G!TypeOK BY GatewayAssumption DEF G!Init, G!TypeOK, G!States, G!ConnIds, G!Absent
<1>2. LineOK BY EmptySeq DEF G!Init, LineOK
<1>3. ConnsOK BY DEF G!Init, ConnsOK, HeldOnce, HeldAreBusy, BusyAreHeld, Calling, G!ConnIds, G!Absent
<1>4. SlotsOK
  <2>1. Active = {} BY DEF G!Init, Active
  <2> QED BY <2>1, FS_EmptySet DEF SlotsOK, G!Init
<1>5. PoolOK
  <2>1. Opened = 1..POOL_MIN BY GatewayAssumption DEF Opened, G!Init, G!ConnIds, G!Absent
  <2>2. Cardinality(1..POOL_MIN) = IF 1 > POOL_MIN THEN 0 ELSE POOL_MIN - 1 + 1 BY GatewayAssumption, FS_Interval
  <2> QED BY <2>1, <2>2, GatewayAssumption DEF PoolOK
<1> QED BY <1>1, <1>2, <1>3, <1>4, <1>5 DEF GatewayInv

\* The size of the pool is the number of opened connections.
LEMMA PoolIs == G!PoolSize = Cardinality(Opened)
  BY DEF G!PoolSize, Opened, G!ConnIds, G!Absent, G!Cardinality, Cardinality

\* A free connection taken by a request that holds none keeps the books
\* (acquire).
LEMMA TakesConn ==
  ASSUME G!TypeOK, ConnsOK, PoolOK, NEW r \in GatewayRequests, progress[r] # "calling", NEW c \in 1..POOL_MAX,
         conns[c] # "busy", conns' = [conns EXCEPT ![c] = "busy"], holds' = [holds EXCEPT ![r] = c],
         progress' = [progress EXCEPT ![r] = "calling"]
  PROVE  ConnsOK' /\ PoolOK' /\ conns' \in [G!ConnIds -> {G!Absent, "idle", "busy"}]
         /\ holds' \in [GatewayRequests -> 0..POOL_MAX] /\ progress' \in [GatewayRequests -> G!States]
<1>0. progress \in [GatewayRequests -> G!States] /\ conns \in [1..POOL_MAX -> {"absent", "idle", "busy"}]
      /\ holds \in [GatewayRequests -> 0..POOL_MAX]
  BY DEF G!TypeOK, G!ConnIds, G!Absent
<1>1. conns' \in [1..POOL_MAX -> {"absent", "idle", "busy"}] /\ holds' \in [GatewayRequests -> 0..POOL_MAX]
      /\ progress' \in [GatewayRequests -> G!States]
  BY <1>0, GatewayAssumption DEF G!States
<1>2. Calling' = Calling \cup {r} /\ r \notin Calling BY <1>0 DEF Calling
<1>3. /\ \A s \in Calling : holds'[s] = holds[s]
      /\ holds'[r] = c /\ conns'[c] = "busy"
      /\ \A d \in 1..POOL_MAX \ {c} : conns'[d] = conns[d]
  BY <1>0, <1>2 DEF Calling
<1>4. \A s \in Calling : holds[s] \in 1..POOL_MAX /\ holds[s] # c BY DEF ConnsOK, HeldAreBusy
<1>5. HeldOnce' BY <1>2, <1>3, <1>4 DEF ConnsOK, HeldOnce
<1>6. HeldAreBusy' BY <1>2, <1>3, <1>4 DEF ConnsOK, HeldAreBusy
<1>7. BusyAreHeld' BY <1>2, <1>3 DEF ConnsOK, BusyAreHeld
<1>8. PoolOK'
  <2>1. Opened' = Opened \cup {c} BY <1>0, <1>3 DEF Opened
  <2>2. Cardinality(Opened \cup {c}) = Cardinality(Opened) \/ Cardinality(Opened \cup {c}) = Cardinality(Opened) + 1
    BY GatewayFinite, FS_AddElement
  <2> QED BY <2>1, <2>2, GatewayFinite, GatewayAssumption DEF PoolOK
<1> QED BY <1>1, <1>5, <1>6, <1>7, <1>8 DEF ConnsOK, G!ConnIds, G!Absent

\* So does one that is given back (release).
LEMMA GivesConn ==
  ASSUME GatewayInv, NEW r \in GatewayRequests, progress[r] = "calling", G!Release(r),
         NEW st \in {"done", "refused", "failed"}, G!Becomes(r, st), UNCHANGED waitingLine
  PROVE  GatewayInv'
<1>0. progress \in [GatewayRequests -> G!States] /\ conns \in [1..POOL_MAX -> {"absent", "idle", "busy"}]
      /\ holds \in [GatewayRequests -> 0..POOL_MAX]
  BY DEF GatewayInv, G!TypeOK, G!ConnIds, G!Absent
<1> DEFINE c == holds[r]
<1>1. c \in 1..POOL_MAX /\ conns[c] = "busy" /\ r \in Calling BY DEF GatewayInv, ConnsOK, HeldAreBusy, Calling
<1>2. conns' = [conns EXCEPT ![c] = "idle"] /\ holds' = [holds EXCEPT ![r] = 0] /\ activeRequests' = activeRequests - 1
      /\ progress' = [progress EXCEPT ![r] = st]
  BY <1>1 DEF G!Release, G!Becomes, G!Absent
<1>3. conns' \in [1..POOL_MAX -> {"absent", "idle", "busy"}] /\ holds' \in [GatewayRequests -> 0..POOL_MAX]
      /\ progress' \in [GatewayRequests -> G!States]
  <2>1. 0 \in 0..POOL_MAX BY GatewayAssumption
  <2>2. st \in G!States BY DEF G!States
  <2> QED BY <1>0, <1>2, <2>1, <2>2
<1>4. Calling' = Calling \ {r} BY <1>0, <1>2 DEF Calling
<1>5. /\ \A s \in Calling' : holds'[s] = holds[s]
      /\ conns'[c] = "idle" /\ \A d \in 1..POOL_MAX \ {c} : conns'[d] = conns[d]
  BY <1>0, <1>1, <1>2, <1>4 DEF Calling
<1>6. \A s \in Calling' : holds[s] # c BY <1>1, <1>4 DEF GatewayInv, ConnsOK, HeldOnce
<1> HIDE DEF c
<1>7. ConnsOK'
  <2>1. HeldOnce' BY <1>4, <1>5 DEF GatewayInv, ConnsOK, HeldOnce
  <2>2. HeldAreBusy' BY <1>4, <1>5, <1>6 DEF GatewayInv, ConnsOK, HeldAreBusy
  <2>3. BusyAreHeld'
    <3>1. SUFFICES ASSUME NEW d \in 1..POOL_MAX, conns'[d] = "busy" PROVE \E s \in Calling' : holds'[s] = d BY DEF BusyAreHeld
    <3>2. d # c /\ conns[d] = "busy" BY <1>5, <3>1
    <3>3. PICK s \in Calling : holds[s] = d BY <3>2 DEF GatewayInv, ConnsOK, BusyAreHeld
    <3>4. s # r BY <3>2, <3>3 DEF c
    <3> QED BY <1>4, <1>5, <3>3, <3>4
  <2> QED BY <2>1, <2>2, <2>3 DEF ConnsOK
<1>8. Active' = Active \ {r} /\ r \in Active BY <1>0, <1>2 DEF Active
<1>9. Cardinality(Active \ {r}) = Cardinality(Active) - 1 BY <1>8, GatewayFinite, FS_RemoveElement
<1>10. SlotsOK' BY <1>2, <1>8, <1>9 DEF GatewayInv, SlotsOK
<1>11. Opened' = Opened BY <1>0, <1>1, <1>5 DEF Opened
<1>12. PoolOK' BY <1>11 DEF GatewayInv, PoolOK
<1>13. activeRequests' \in 0..CONCURRENT_MAX
  <2>1. Cardinality(Active) # 0 BY <1>8, GatewayFinite, FS_EmptySet
  <2> QED BY <1>2, <2>1, GatewayFinite, GatewayAssumption DEF GatewayInv, SlotsOK, G!TypeOK
<1>14. G!TypeOK' BY <1>3, <1>13 DEF G!TypeOK, G!ConnIds, G!Absent
<1>15. LineOK'
  <2>1. \A i \in 1..Len(waitingLine) : waitingLine[i] # r BY DEF GatewayInv, LineOK
  <2>2. \A i \in 1..Len(waitingLine) : waitingLine[i] \in GatewayRequests BY ElementOfSeq DEF GatewayInv, LineOK
  <2> QED BY <1>0, <1>2, <2>1, <2>2 DEF GatewayInv, LineOK
<1> QED BY <1>7, <1>10, <1>12, <1>14, <1>15 DEF GatewayInv

-----------------------------------------------------------------------------
(* The gateway: its steps *)

\* A step that neither queues nor dequeues keeps the queue as it should be.
LEMMA LineKept ==
  ASSUME GatewayInv, UNCHANGED waitingLine,
         \A r \in GatewayRequests : progress[r] = "queued" => progress'[r] = "queued"
  PROVE  LineOK'
<1>1. \A i \in 1..Len(waitingLine) : waitingLine[i] \in GatewayRequests BY ElementOfSeq DEF GatewayInv, LineOK
<1> QED BY <1>1 DEF GatewayInv, LineOK

\* A request is queued, or rejected by a full queue (enqueue).
LEMMA EnqueueInv == ASSUME GatewayInv, NEW r \in GatewayRequests, G!Enqueue(r) PROVE GatewayInv'
<1>0. progress \in [GatewayRequests -> G!States] /\ progress[r] = "new" /\ UNCHANGED <<conns, holds, activeRequests>>
  BY DEF GatewayInv, G!TypeOK, G!Enqueue
<1>1. PICK st \in {"refused", "queued"} : progress' = [progress EXCEPT ![r] = st] BY DEF G!Enqueue, G!Becomes
<1>2. progress' \in [GatewayRequests -> G!States] BY <1>0, <1>1 DEF G!States
<1>3. Calling' = Calling /\ Active' = Active /\ Opened' = Opened BY <1>0, <1>1 DEF Calling, Active, Opened
<1>4. G!TypeOK' /\ ConnsOK' /\ SlotsOK' /\ PoolOK'
  BY <1>0, <1>2, <1>3 DEF GatewayInv, G!TypeOK, ConnsOK, HeldOnce, HeldAreBusy, BusyAreHeld, SlotsOK, PoolOK
<1>5. LineOK'
  <2>1. CASE UNCHANGED waitingLine BY <1>0, <1>1, <2>1, LineKept
  <2>2. CASE progress' = [progress EXCEPT ![r] = "queued"] /\ waitingLine' = Append(waitingLine, r)
    <3> DEFINE q == Append(waitingLine, r)
               n == Len(waitingLine)
    <3>1. waitingLine \in Seq(GatewayRequests) /\ n \in Nat BY LenProperties DEF GatewayInv, LineOK
    <3>2. q \in Seq(GatewayRequests) /\ Len(q) = n + 1 /\ (\A i \in 1..n : q[i] = waitingLine[i]) /\ q[n + 1] = r
      BY <3>1, AppendProperties
    <3>3. \A i \in 1..n : waitingLine[i] \in GatewayRequests /\ progress[waitingLine[i]] = "queued"
      BY <3>1, ElementOfSeq DEF GatewayInv, LineOK
    <3>4. \A i \in 1..n : progress'[q[i]] = "queued" /\ q[i] # r BY <1>0, <2>2, <3>2, <3>3
    <3>5. progress'[r] = "queued" BY <1>0, <2>2
    <3>6. \A i, j \in 1..n : q[i] = q[j] => i = j BY <3>2 DEF GatewayInv, LineOK
    <3>7. waitingLine' = q BY <2>2
    <3> HIDE DEF q, n
    <3>8. \A i \in 1..(n + 1) : i \in 1..n \/ i = n + 1 BY <3>1
    <3>9. \A i \in 1..Len(q) : progress'[q[i]] = "queued" BY <3>2, <3>4, <3>5, <3>8
    <3>10. \A i, j \in 1..Len(q) : q[i] = q[j] => i = j BY <3>2, <3>4, <3>6, <3>8
    <3> QED BY <3>2, <3>7, <3>9, <3>10 DEF LineOK
  <2> QED BY <2>1, <2>2 DEF G!Enqueue, G!Becomes
<1> QED BY <1>4, <1>5 DEF GatewayInv

\* The head of the queue leaves it, if a slot, the minute and the burst allow
\* it (processQueue).
LEMMA ProcessInv == ASSUME GatewayInv, G!ProcessQueue PROVE GatewayInv'
<1> DEFINE r == Head(waitingLine)
<1>0. progress \in [GatewayRequests -> G!States] /\ waitingLine \in Seq(GatewayRequests) /\ waitingLine # <<>>
      /\ waitingLine' = Tail(waitingLine) /\ activeRequests' = activeRequests + 1 /\ activeRequests < CONCURRENT_MAX
      /\ activeRequests \in 0..CONCURRENT_MAX
  BY DEF GatewayInv, LineOK, G!TypeOK, G!ProcessQueue
<1>1. Len(waitingLine) \in Nat /\ Len(waitingLine) >= 1 /\ r = waitingLine[1] /\ r \in GatewayRequests
      /\ Tail(waitingLine) \in Seq(GatewayRequests) /\ Len(Tail(waitingLine)) = Len(waitingLine) - 1
      /\ \A i \in 1..Len(Tail(waitingLine)) : Tail(waitingLine)[i] = waitingLine[i + 1]
  BY <1>0, HeadTailProperties, LenProperties, EmptySeq
<1>2. progress[r] = "queued" BY <1>1 DEF GatewayInv, LineOK
<1>3. (\E c \in G!ConnIds : G!Acquire(r, c)) \/ G!AwaitConnection(r) BY DEF G!ProcessQueue
<1>4. activeRequests' \in 0..CONCURRENT_MAX BY <1>0, GatewayAssumption
<1> HIDE DEF r
<1>5. PICK st \in {"calling", "waiting"} : progress' = [progress EXCEPT ![r] = st]
  BY <1>3 DEF G!Acquire, G!AwaitConnection, G!Becomes
<1>6. G!TypeOK' /\ ConnsOK' /\ PoolOK'
  <2>1. CASE \E c \in G!ConnIds : G!Acquire(r, c)
    <3>1. PICK c \in 1..POOL_MAX : G!Acquire(r, c) BY <2>1 DEF G!ConnIds
    <3>2. conns[c] # "busy" /\ conns' = [conns EXCEPT ![c] = "busy"] /\ holds' = [holds EXCEPT ![r] = c]
          /\ progress' = [progress EXCEPT ![r] = "calling"]
      BY <3>1 DEF G!Acquire, G!Absent, G!Becomes
    <3>3. G!TypeOK /\ ConnsOK /\ PoolOK BY DEF GatewayInv
    <3> QED BY <1>1, <1>2, <1>4, <3>2, <3>3, TakesConn DEF G!TypeOK
  <2>2. CASE G!AwaitConnection(r)
    <3>1. UNCHANGED <<conns, holds>> /\ progress' = [progress EXCEPT ![r] = "waiting"] BY <2>2 DEF G!AwaitConnection, G!Becomes
    <3>2. Calling' = Calling /\ Opened' = Opened BY <1>0, <1>2, <3>1 DEF Calling, Opened
    <3>3. progress' \in [GatewayRequests -> G!States] BY <1>0, <3>1 DEF G!States
    <3> QED BY <1>4, <3>1, <3>2, <3>3 DEF GatewayInv, G!TypeOK, ConnsOK, HeldOnce, HeldAreBusy, BusyAreHeld, PoolOK
  <2> QED BY <1>3, <2>1, <2>2
<1>7. SlotsOK'
  <2>1. Active' = Active \cup {r} /\ r \notin Active BY <1>0, <1>1, <1>2, <1>5 DEF Active
  <2>2. Cardinality(Active \cup {r}) = Cardinality(Active) + 1 BY <2>1, GatewayFinite, FS_AddElement
  <2> QED BY <1>0, <2>1, <2>2 DEF GatewayInv, SlotsOK
<1>8. LineOK'
  <2> DEFINE t == Tail(waitingLine)
             n == Len(waitingLine)
  <2>1. t \in Seq(GatewayRequests) /\ Len(t) = n - 1 /\ n \in Nat /\ n >= 1
        /\ \A i \in 1..Len(t) : t[i] = waitingLine[i + 1]
    BY <1>1
  <2>2. waitingLine[1] = r /\ \A i \in 1..n : waitingLine[i] \in GatewayRequests BY <1>0, <1>1, ElementOfSeq
  <2>3. \A i \in 1..n : progress[waitingLine[i]] = "queued" BY DEF GatewayInv, LineOK
  <2>4. \A i, j \in 1..n : waitingLine[i] = waitingLine[j] => i = j BY DEF GatewayInv, LineOK
  <2>5. waitingLine' = t BY <1>0
  <2> HIDE DEF t, n
  <2>6. ASSUME NEW i \in 1..Len(t) PROVE i + 1 \in 1..n /\ 1 \in 1..n /\ i + 1 # 1 /\ t[i] = waitingLine[i + 1]
    BY <2>1
  <2>7. ASSUME NEW i \in 1..Len(t) PROVE progress'[t[i]] = "queued"
    <3>1. t[i] # r BY <2>2, <2>4, <2>6
    <3>2. t[i] \in GatewayRequests /\ progress[t[i]] = "queued" BY <2>2, <2>3, <2>6
    <3> QED BY <1>0, <1>5, <3>1, <3>2
  <2>8. ASSUME NEW i \in 1..Len(t), NEW j \in 1..Len(t), t[i] = t[j] PROVE i = j
    <3>1. i + 1 = j + 1 BY <2>4, <2>6, <2>8
    <3> QED BY <3>1
  <2> QED BY <2>1, <2>5, <2>7, <2>8 DEF LineOK
<1> QED BY <1>6, <1>7, <1>8 DEF GatewayInv

\* Every step keeps the invariant.
LEMMA GatewayStep == GatewayInv /\ [G!Next]_(G!vars) => GatewayInv'
<1> SUFFICES ASSUME GatewayInv, [G!Next]_(G!vars) PROVE GatewayInv' OBVIOUS
<1>0. progress \in [GatewayRequests -> G!States] /\ conns \in [1..POOL_MAX -> {"absent", "idle", "busy"}]
  BY DEF GatewayInv, G!TypeOK, G!ConnIds, G!Absent
<1>1. ASSUME NEW r \in GatewayRequests, G!Enqueue(r) PROVE GatewayInv' BY <1>1, EnqueueInv
<1>2. ASSUME NEW r \in GatewayRequests, G!FoundConnection(r) PROVE GatewayInv'
  <2>1. PICK c \in 1..POOL_MAX : conns[c] = "idle" /\ conns' = [conns EXCEPT ![c] = "busy"] /\ holds' = [holds EXCEPT ![r] = c]
    BY <1>2 DEF G!FoundConnection, G!ConnIds
  <2>2. progress[r] = "waiting" /\ progress' = [progress EXCEPT ![r] = "calling"] /\ UNCHANGED <<waitingLine, activeRequests>>
    BY <1>2 DEF G!FoundConnection, G!Becomes
  <2>3. G!TypeOK /\ ConnsOK /\ PoolOK BY DEF GatewayInv
  <2>4. G!TypeOK' /\ ConnsOK' /\ PoolOK' BY <2>1, <2>2, <2>3, TakesConn DEF G!TypeOK
  <2>5. Active' = Active BY <1>0, <2>2 DEF Active
  <2>6. LineOK' BY <1>0, <2>2, LineKept
  <2> QED BY <2>2, <2>4, <2>5, <2>6 DEF GatewayInv, SlotsOK
<1>3. ASSUME NEW r \in GatewayRequests, G!HorizonFails(r) \/ G!SubmitLost(r) PROVE GatewayInv'
  BY <1>3, GivesConn DEF G!HorizonFails, G!SubmitLost
<1>4. ASSUME NEW r \in GatewayRequests, G!Answered(r) PROVE GatewayInv'
  <2>1. CASE G!Limited BY <1>4, <2>1, GivesConn DEF G!Answered
  <2>2. CASE ~G!Limited BY <1>4, <2>2, GivesConn DEF G!Answered
  <2> QED BY <2>1, <2>2
<1>5. CASE G!ProcessQueue BY <1>5, ProcessInv
<1>6. CASE G!ClearQueue
  <2>1. UNCHANGED <<conns, holds, activeRequests>> /\ waitingLine' = <<>>
        /\ progress' = [r \in GatewayRequests |-> IF r \in G!Range(waitingLine) THEN "refused" ELSE progress[r]]
    BY <1>6 DEF G!ClearQueue
  <2>2. waitingLine \in Seq(GatewayRequests) /\ DOMAIN waitingLine = 1..Len(waitingLine) BY LenProperties DEF GatewayInv, LineOK
  <2>3. \A r \in G!Range(waitingLine) : progress[r] = "queued" BY <2>2 DEF G!Range, GatewayInv, LineOK
  <2>4. progress' \in [GatewayRequests -> G!States] BY <1>0, <2>1 DEF G!States
  <2>5. Calling' = Calling /\ Active' = Active /\ Opened' = Opened BY <2>1, <2>3 DEF Calling, Active, Opened
  <2>6. LineOK' BY <2>1, EmptySeq DEF LineOK
  <2> QED BY <2>1, <2>4, <2>5, <2>6 DEF GatewayInv, G!TypeOK, ConnsOK, HeldOnce, HeldAreBusy, BusyAreHeld, SlotsOK, PoolOK
<1>7. ASSUME NEW c \in G!ConnIds, G!CleanupIdle(c) PROVE GatewayInv'
  <2>1. c \in 1..POOL_MAX /\ conns[c] = "idle" /\ conns' = [conns EXCEPT ![c] = "absent"]
        /\ UNCHANGED <<waitingLine, progress, holds, activeRequests>> /\ Cardinality(Opened) > POOL_MIN
    BY <1>7, PoolIs DEF G!CleanupIdle, G!ConnIds, G!Absent
  <2>2. conns' \in [1..POOL_MAX -> {"absent", "idle", "busy"}] BY <1>0, <2>1
  <2>3. Calling' = Calling /\ Active' = Active BY <2>1 DEF Calling, Active
  <2>4. Opened' = Opened \ {c} /\ c \in Opened BY <1>0, <2>1 DEF Opened
  <2>5. Cardinality(Opened \ {c}) = Cardinality(Opened) - 1 BY <2>4, GatewayFinite, FS_RemoveElement
  <2>6. PoolOK' BY <2>1, <2>4, <2>5, GatewayFinite, GatewayAssumption DEF PoolOK
  <2>7. \A d \in 1..POOL_MAX : (conns'[d] = "busy") <=> (conns[d] = "busy") BY <1>0, <2>1
  <2>8. ConnsOK' BY <2>1, <2>3, <2>7 DEF GatewayInv, ConnsOK, HeldOnce, HeldAreBusy, BusyAreHeld
  <2>9. LineOK' BY <2>1, LineKept
  <2> QED BY <2>1, <2>2, <2>3, <2>6, <2>8, <2>9 DEF GatewayInv, G!TypeOK, SlotsOK, G!ConnIds, G!Absent
<1>8. ASSUME UNCHANGED <<waitingLine, progress, conns, holds, activeRequests>> PROVE GatewayInv'
  BY <1>8 DEF GatewayInv, G!TypeOK, LineOK, ConnsOK, HeldOnce, HeldAreBusy, BusyAreHeld, SlotsOK, PoolOK, Calling, Active, Opened
<1>9. CASE G!WindowEnds \/ UNCHANGED G!vars BY <1>8, <1>9 DEF G!WindowEnds, G!vars
<1> QED BY <1>1, <1>2, <1>3, <1>4, <1>5, <1>6, <1>7, <1>9 DEF G!Next, G!GetAccount, G!ExecuteSettlement, G!SubmitTransaction

\* The invariant says what ConnectionsAreExclusive says.
LEMMA GatewayHolds == GatewayInv => ConnectionsAreExclusive
<1> SUFFICES ASSUME GatewayInv PROVE G!ConnectionsAreExclusive BY DEF ConnectionsAreExclusive, GatewayInv
<1> DEFINE W1 == {r \in GatewayRequests : progress[r] = "waiting"}
<1>1. \A r, s \in Calling : r # s => holds[r] # holds[s] BY DEF GatewayInv, ConnsOK, HeldOnce
<1>2. {holds[r] : r \in Calling} = {c \in G!ConnIds : conns[c] = "busy"}
  BY DEF GatewayInv, ConnsOK, HeldAreBusy, BusyAreHeld, G!ConnIds
<1>3. Calling \cup W1 = Active BY DEF Calling, Active
<1>4. G!Cardinality(Active) = Cardinality(Active) BY DEF G!Cardinality, Cardinality
<1>5. G!Cardinality(Calling \cup W1) = activeRequests BY <1>3, <1>4 DEF GatewayInv, SlotsOK
<1>6. G!PoolSize >= POOL_MIN BY PoolIs DEF GatewayInv, PoolOK
<1> QED BY <1>1, <1>2, <1>5, <1>6 DEF G!ConnectionsAreExclusive, Calling

\* No connection of the pool is used by two requests, lost or leaked, and
\* activeRequests is exact, for any number of requests, any pool and any
\* limits (acquire, release, processQueue).
THEOREM ConnectionsExclusive == FairSpec => []ConnectionsAreExclusive
<1>1. Init => GatewayInv BY GatewayPart, GatewayInit
<1>2. GatewayInv /\ [Next]_vars => GatewayInv' BY GatewayPart, GatewayStep
<1> QED BY <1>1, <1>2, GatewayHolds, PTL DEF FairSpec

-----------------------------------------------------------------------------
(* Webhooks: chains and counts *)

\* The webhooks are one of the parts of a behaviour.
LEMMA HookPart ==
  /\ Init => W!Init
  /\ [Next]_vars => [W!Next]_(W!vars)
  BY DEF Init, Next, vars, hookVars, W!vars

\* The type of an executeDelivery: where it is, and its retryCount.
Chain == [at : W!Steps, n : 0..(MaxRetries + 1)]

\* The requests a chain may have sent by now.
Spent(c) ==
  IF c.at = "none" THEN 0
  ELSE IF c.at = "done" THEN MaxRetries + 1
  ELSE IF c.at \in {"ok", "okStats", "failed"} THEN c.n + 1 ELSE c.n

\* A chain that has not given up has retries left.
ChainFine(c) == c.at # "failedStats" /\ c.at # "done" => c.n <= MaxRetries

\* The chains that have ended, and have been counted.
EndedChains == {p \in (1..MaxDeliveries) \X {1, 2} : chains[p[1]][p[2]].at = "done"}

\* Types.
HookTypes == W!TypeOK /\ sent \in [1..MaxDeliveries -> Nat] /\ hookFaults \in Nat

\* Every chain that has not given up has retries left.
ChainsFine == \A d \in 1..MaxDeliveries, k \in {1, 2} : ChainFine(chains[d][k])

\* A delivery was sent at most as often as its two chains may have sent it.
SendsAreSpent == \A d \in 1..MaxDeliveries : sent[d] <= Spent(chains[d][1]) + Spent(chains[d][2])

\* Without faults, every chain that has ended was counted once.
CountedOnce == hookFaults = 0 => hookTotals.ok + hookTotals.failed = Cardinality(EndedChains)

\* A chain works on a stored row.
RowsExist == \A d \in 1..MaxDeliveries, k \in {1, 2} : chains[d][k].at # "none" => d <= Len(hookRows)

\* The inductive invariant of the webhooks.
HookInv == HookTypes /\ ChainsFine /\ SendsAreSpent /\ CountedOnce /\ RowsExist

\* Spent is a number, none at first, and at most one more than the retries.
LEMMA SpentNat ==
  ASSUME NEW c \in Chain
  PROVE  /\ Spent(c) \in Nat /\ c.n \in Nat /\ c.n <= MaxRetries + 1
         /\ ChainFine(c) => Spent(c) <= MaxRetries + 1
         /\ c.at = "none" => Spent(c) = 0
  BY HookAssumption DEF Chain, Spent, ChainFine

\* A chain has the type of one.
LEMMA ChainsAre ==
  ASSUME W!TypeOK
  PROVE  /\ chains \in [1..MaxDeliveries -> [{1, 2} -> Chain]]
         /\ \A d \in 1..MaxDeliveries, k \in {1, 2} : chains[d][k] \in Chain
  BY DEF W!TypeOK, W!Ids, W!Both, Chain

\* The chains after chain k of delivery d became x.
Changed(d, k, x) ==
  /\ chains' \in [1..MaxDeliveries -> [{1, 2} -> Chain]]
  /\ chains'[d][k] = x
  /\ \A e \in 1..MaxDeliveries, j \in {1, 2} : <<e, j>> # <<d, k>> => chains'[e][j] = chains[e][j]

\* The chains after one of them changed.
LEMMA SetChain ==
  ASSUME W!TypeOK, NEW d \in 1..MaxDeliveries, NEW k \in {1, 2}, NEW x \in Chain,
         chains' = [chains EXCEPT ![d][k] = x]
  PROVE  Changed(d, k, x)
<1>1. chains \in [1..MaxDeliveries -> [{1, 2} -> Chain]] BY ChainsAre
<1> DEFINE both == [chains[d] EXCEPT ![k] = x]
<1>2. both \in [{1, 2} -> Chain] /\ both[k] = x /\ \A j \in {1, 2} : j # k => both[j] = chains[d][j] BY <1>1
<1>3. chains' = [chains EXCEPT ![d] = both] OBVIOUS
<1> HIDE DEF both
<1>4. chains' \in [1..MaxDeliveries -> [{1, 2} -> Chain]] /\ chains'[d] = both
      /\ \A e \in 1..MaxDeliveries : e # d => chains'[e] = chains[e]
  BY <1>1, <1>2, <1>3
<1> QED BY <1>2, <1>4 DEF Changed

\* A chain goes on to another step with the same retryCount.
LEMMA GotoChain ==
  ASSUME W!TypeOK, NEW d \in 1..MaxDeliveries, NEW k \in {1, 2}, NEW step \in W!Steps,
         chains' = [chains EXCEPT ![d][k].at = step]
  PROVE  Changed(d, k, [at |-> step, n |-> chains[d][k].n])
<1>1. chains \in [1..MaxDeliveries -> [{1, 2} -> Chain]] /\ chains[d][k] \in Chain BY ChainsAre
<1> DEFINE c == chains[d][k]
           x == [at |-> step, n |-> c.n]
           y == [c EXCEPT !.at = step]
<1>2. x \in Chain /\ y = x BY <1>1 DEF Chain
<1>3. chains' = [chains EXCEPT ![d][k] = y] OBVIOUS
<1>4. chains' = [chains EXCEPT ![d][k] = x] BY <1>2, <1>3
<1> HIDE DEF x
<1>5. Changed(d, k, x) BY <1>2, <1>4, SetChain
<1> QED BY <1>5 DEF x

\* A chain moves, and has spent what the delivery was sent.
LEMMA ChainMoves ==
  ASSUME HookInv, NEW d \in 1..MaxDeliveries, NEW k \in {1, 2}, NEW x \in Chain, Changed(d, k, x), ChainFine(x),
         sent' \in [1..MaxDeliveries -> Nat], \A e \in 1..MaxDeliveries : e # d => sent'[e] = sent[e],
         sent'[d] + Spent(chains[d][k]) <= sent[d] + Spent(x)
  PROVE  ChainsFine' /\ SendsAreSpent'
<1>0. W!TypeOK /\ sent \in [1..MaxDeliveries -> Nat] BY DEF HookInv, HookTypes
<1>1. \A e \in 1..MaxDeliveries, j \in {1, 2} : chains[e][j] \in Chain /\ Spent(chains[e][j]) \in Nat BY <1>0, ChainsAre, SpentNat
<1>2. ChainsFine' BY DEF HookInv, ChainsFine, Changed
<1>3. ASSUME NEW e \in 1..MaxDeliveries PROVE sent'[e] <= Spent(chains'[e][1]) + Spent(chains'[e][2])
  <2>1. sent[e] <= Spent(chains[e][1]) + Spent(chains[e][2]) BY DEF HookInv, SendsAreSpent
  <2>2. CASE e # d
    <3>1. chains'[e][1] = chains[e][1] /\ chains'[e][2] = chains[e][2] BY <2>2 DEF Changed
    <3> QED BY <2>1, <2>2, <3>1
  <2>3. CASE e = d
    <3> DEFINE a == Spent(chains[d][1])
               b == Spent(chains[d][2])
               s == Spent(x)
               u == sent[d]
               v == sent'[d]
    <3>1. a \in Nat /\ b \in Nat /\ s \in Nat /\ u \in Nat /\ v \in Nat /\ u <= a + b BY <1>0, <1>1, <2>1, <2>3, SpentNat
    <3>2. CASE k = 1
      <4>1. chains'[d][1] = x /\ chains'[d][2] = chains[d][2] BY <3>2 DEF Changed
      <4>2. v + a <= u + s BY <3>2
      <4> HIDE DEF a, b, s, u, v
      <4>3. v <= s + b BY <3>1, <4>2
      <4> QED BY <2>3, <4>1, <4>3 DEF b, s, v
    <3>3. CASE k = 2
      <4>1. chains'[d][2] = x /\ chains'[d][1] = chains[d][1] BY <3>3 DEF Changed
      <4>2. v + b <= u + s BY <3>3
      <4> HIDE DEF a, b, s, u, v
      <4>3. v <= a + s BY <3>1, <4>2
      <4> QED BY <2>3, <4>1, <4>3 DEF a, s, v
    <3> QED BY <3>2, <3>3
  <2> QED BY <2>2, <2>3
<1> QED BY <1>2, <1>3 DEF SendsAreSpent

\* The chains that have ended can be counted.
LEMMA EndedFinite == IsFiniteSet(EndedChains) /\ Cardinality(EndedChains) \in Nat
<1>1. IsFiniteSet(1..MaxDeliveries) BY HookAssumption, FS_Interval
<1>2. IsFiniteSet({1, 2})
  <2>1. IsFiniteSet({1}) BY FS_Singleton
  <2>2. IsFiniteSet({1} \cup {2}) BY <2>1, FS_AddElement
  <2>3. {1} \cup {2} = {1, 2} OBVIOUS
  <2> QED BY <2>2, <2>3
<1>3. IsFiniteSet((1..MaxDeliveries) \X {1, 2}) BY <1>1, <1>2, FS_Product
<1>4. IsFiniteSet(EndedChains) BY <1>3, FS_Subset DEF EndedChains
<1> QED BY <1>4, FS_CardinalityType

\* Their number stays while no chain ends.
LEMMA EndedSame ==
  ASSUME NEW d \in 1..MaxDeliveries, NEW k \in {1, 2}, NEW x, Changed(d, k, x), x.at # "done", chains[d][k].at # "done"
  PROVE  EndedChains' = EndedChains
<1>1. ASSUME NEW p \in (1..MaxDeliveries) \X {1, 2}
      PROVE  (chains'[p[1]][p[2]].at = "done") <=> (chains[p[1]][p[2]].at = "done")
  <2>1. p[1] \in 1..MaxDeliveries /\ p[2] \in {1, 2} /\ p = <<p[1], p[2]>> BY <1>1
  <2>2. CASE p[1] = d /\ p[2] = k BY <2>2 DEF Changed
  <2>3. CASE ~(p[1] = d /\ p[2] = k) BY <2>1, <2>3 DEF Changed
  <2> QED BY <2>2, <2>3
<1> QED BY <1>1 DEF EndedChains

\* It grows by one when a chain ends.
LEMMA EndedMore ==
  ASSUME NEW d \in 1..MaxDeliveries, NEW k \in {1, 2}, NEW x, Changed(d, k, x), x.at = "done", chains[d][k].at # "done"
  PROVE  Cardinality(EndedChains') = Cardinality(EndedChains) + 1
<1>1. ASSUME NEW p \in (1..MaxDeliveries) \X {1, 2}
      PROVE  (chains'[p[1]][p[2]].at = "done") <=> (chains[p[1]][p[2]].at = "done" \/ p = <<d, k>>)
  <2>1. p[1] \in 1..MaxDeliveries /\ p[2] \in {1, 2} /\ p = <<p[1], p[2]>> BY <1>1
  <2>2. CASE p[1] = d /\ p[2] = k BY <2>1, <2>2 DEF Changed
  <2>3. CASE ~(p[1] = d /\ p[2] = k) BY <2>1, <2>3 DEF Changed
  <2> QED BY <2>2, <2>3
<1>2. <<d, k>> \in (1..MaxDeliveries) \X {1, 2} /\ <<d, k>> \notin EndedChains BY DEF EndedChains
<1>3. EndedChains' = EndedChains \cup {<<d, k>>} BY <1>1, <1>2 DEF EndedChains
<1> QED BY <1>2, <1>3, EndedFinite, FS_AddElement

-----------------------------------------------------------------------------
(* Webhooks: the steps *)

\* Saving a row keeps the types.
LEMMA RowSaved ==
  ASSUME W!TypeOK, NEW d, NEW row \in W!Delivery, hookRows' = [hookRows EXCEPT ![d] = row]
  PROVE  hookRows' \in Seq(W!Delivery) /\ Len(hookRows') = Len(hookRows)
<1>1. hookRows \in Seq(W!Delivery) /\ DOMAIN hookRows = 1..Len(hookRows) /\ Len(hookRows) \in Nat BY LenProperties DEF W!TypeOK
<1>2. hookRows \in [1..Len(hookRows) -> W!Delivery] BY <1>1
<1> DEFINE f == [hookRows EXCEPT ![d] = row]
<1>3. f \in [1..Len(hookRows) -> W!Delivery] BY <1>2
<1>4. f \in Seq(W!Delivery) BY <1>1, <1>3, SeqDef
<1>5. DOMAIN f = 1..Len(hookRows) BY <1>3
<1>6. Len(f) = Len(hookRows) BY <1>1, <1>4, <1>5, LenProperties
<1> QED BY <1>4, <1>6

\* A step that adds or saves a row keeps the rows of the chains.
LEMMA RowsKept ==
  ASSUME RowsExist, NEW d \in 1..MaxDeliveries, NEW k \in {1, 2}, NEW x, Changed(d, k, x),
         hookRows \in Seq(W!Delivery), hookRows' \in Seq(W!Delivery),
         Len(hookRows') >= Len(hookRows), d <= Len(hookRows')
  PROVE  RowsExist'
<1>1. Len(hookRows) \in Nat /\ Len(hookRows') \in Nat BY LenProperties
<1>2. ASSUME NEW e \in 1..MaxDeliveries, NEW j \in {1, 2}, chains'[e][j].at # "none" PROVE e <= Len(hookRows')
  <2>1. CASE e = d BY <2>1
  <2>2. CASE e # d
    <3>1. chains'[e][j] = chains[e][j] BY <2>2 DEF Changed
    <3>2. e <= Len(hookRows) BY <1>2, <3>1 DEF RowsExist
    <3> QED BY <1>1, <3>2
  <2> QED BY <2>1, <2>2
<1> QED BY <1>2 DEF RowsExist

\* A chain that moves without ending keeps the invariant.
LEMMA GoesOn ==
  ASSUME HookInv, NEW d \in 1..MaxDeliveries, NEW k \in {1, 2}, NEW x \in Chain, Changed(d, k, x), ChainFine(x),
         x.at # "done", chains[d][k].at # "done", Spent(chains[d][k]) <= Spent(x),
         UNCHANGED <<hookStatus, sent, hookTotals>>, hookRows' \in Seq(W!Delivery),
         Len(hookRows') >= Len(hookRows), d <= Len(hookRows'),
         hookFaults' = hookFaults \/ hookFaults' = hookFaults + 1
  PROVE  HookInv'
<1>0. W!TypeOK /\ sent \in [1..MaxDeliveries -> Nat] /\ hookFaults \in Nat BY DEF HookInv, HookTypes
<1>1. ChainsFine' /\ SendsAreSpent'
  <2>1. chains[d][k] \in Chain BY <1>0, ChainsAre
  <2>2. sent'[d] + Spent(chains[d][k]) <= sent[d] + Spent(x) BY <1>0, <2>1, SpentNat
  <2> QED BY <1>0, <2>2, ChainMoves
<1>2. EndedChains' = EndedChains BY EndedSame
<1>3. CountedOnce' BY <1>0, <1>2 DEF HookInv, CountedOnce
<1>4. HookTypes' BY <1>0 DEF HookTypes, W!TypeOK, W!Ids, W!Both, Chain, Changed
<1>5. RowsExist' BY <1>0, RowsKept DEF HookInv, W!TypeOK
<1> QED BY <1>1, <1>3, <1>4, <1>5 DEF HookInv

\* So does every step of a chain: the send, the answer, the save, the totals,
\* the wait and the retry (executeDelivery).
LEMMA StepInv == ASSUME HookInv, NEW d \in 1..MaxDeliveries, NEW k \in {1, 2}, W!Step(d, k) PROVE HookInv'
<1> DEFINE c == chains[d][k]
<1>0. W!TypeOK /\ sent \in [1..MaxDeliveries -> Nat] /\ hookFaults \in Nat /\ hookRows \in Seq(W!Delivery)
      /\ hookTotals \in W!WebhookSubscription
  BY DEF HookInv, HookTypes, W!TypeOK
<1>1. c \in Chain /\ ChainFine(c) BY <1>0, ChainsAre DEF HookInv, ChainsFine
<1>l. Len(hookRows) \in Nat /\ (c.at # "none" => d <= Len(hookRows)) BY <1>0, LenProperties DEF HookInv, RowsExist
<1>n. c.n \in 0..(MaxRetries + 1) /\ c.n \in Nat /\ Spent(c) \in Nat BY <1>1, SpentNat DEF Chain
<1>g. ASSUME NEW step \in W!Steps \ {"none", "done"}, W!Goto(d, k, step), c.at # "done", c.at # "none",
             step = "failedStats" \/ c.n <= MaxRetries,
             Spent(c) <= Spent([at |-> step, n |-> c.n]),
             UNCHANGED <<hookStatus, sent, hookTotals, hookFaults>>, hookRows' \in Seq(W!Delivery),
             Len(hookRows') = Len(hookRows)
      PROVE  HookInv'
  <2> DEFINE x == [at |-> step, n |-> c.n]
  <2>1. x \in Chain /\ x.at = step /\ x.n = c.n BY <1>n, <1>g DEF Chain
  <2>2. ChainFine(x) BY <1>g, <2>1 DEF ChainFine
  <2>3. Changed(d, k, x) BY <1>0, <1>g, GotoChain DEF W!Goto
  <2>4. Spent(c) <= Spent(x) BY <1>g
  <2>5. Len(hookRows') >= Len(hookRows) /\ d <= Len(hookRows') /\ x.at # "done" BY <1>g, <1>l, <2>1
  <2> HIDE DEF x
  <2> QED BY <1>g, <2>1, <2>2, <2>3, <2>4, <2>5, GoesOn
<1>r. ASSUME NEW st \in W!WebhookDeliveryStatus, NEW n \in 0..(MaxRetries + 1), W!SaveRow(d, st, n)
      PROVE  hookRows' \in Seq(W!Delivery) /\ Len(hookRows') = Len(hookRows)
  BY <1>0, <1>r, RowSaved DEF W!SaveRow, W!Delivery
<1>2. CASE W!SaveRetrying(d, k)
  <2>1. c.at = "start" /\ c.n <= MaxRetries BY <1>1, <1>2 DEF W!SaveRetrying, W!At, ChainFine
  <2>2. Spent(c) <= Spent([at |-> "fetch", n |-> c.n]) BY <1>n, <2>1 DEF Spent
  <2> QED BY <1>2, <1>g, <1>n, <1>r, <2>1, <2>2 DEF W!SaveRetrying, W!Steps, W!WebhookDeliveryStatus
<1>3. CASE W!SaveSuccess(d, k)
  <2>1. c.at = "ok" /\ c.n <= MaxRetries BY <1>1, <1>3 DEF W!SaveSuccess, W!At, ChainFine
  <2>2. Spent(c) <= Spent([at |-> "okStats", n |-> c.n]) BY <1>n, <2>1 DEF Spent
  <2> QED BY <1>3, <1>g, <1>n, <1>r, <2>1, <2>2 DEF W!SaveSuccess, W!Steps, W!WebhookDeliveryStatus
<1>4. CASE W!RetryTimer(d, k)
  <2>1. c.at = "timer" /\ c.n <= MaxRetries BY <1>1, <1>4 DEF W!RetryTimer, W!At, ChainFine
  <2>2. Spent(c) <= Spent([at |-> "start", n |-> c.n]) BY <1>n, <2>1 DEF Spent
  <2> QED BY <1>0, <1>4, <1>g, <2>1, <2>2 DEF W!RetryTimer, W!Steps
<1>5. CASE W!AttemptFailed(d, k)
  <2>1. c.at = "failed" /\ c.n <= MaxRetries BY <1>1, <1>5 DEF W!AttemptFailed, W!At, ChainFine
  <2> DEFINE p == IF c.n < MaxRetries THEN "timer" ELSE "failedStats"
             st == IF c.n < MaxRetries THEN "retrying" ELSE "failed"
             x == [at |-> p, n |-> c.n + 1]
  <2>2. p \in {"timer", "failedStats"} /\ (p = "timer" => c.n + 1 <= MaxRetries) /\ st \in W!WebhookDeliveryStatus
    BY <1>n, HookAssumption DEF W!WebhookDeliveryStatus
  <2>3. c.n + 1 \in 0..(MaxRetries + 1) BY <1>n, <2>1, HookAssumption
  <2>4. chains' = [chains EXCEPT ![d][k] = x] /\ W!SaveRow(d, st, c.n + 1) /\ UNCHANGED <<hookStatus, sent, hookTotals, hookFaults>>
    BY <1>5 DEF W!AttemptFailed
  <2> HIDE DEF p, st
  <2>5. x \in Chain /\ x.at = p /\ x.n = c.n + 1 BY <2>2, <2>3 DEF Chain, W!Steps
  <2>6. ChainFine(x) BY <2>2, <2>5 DEF ChainFine
  <2>7. Spent(c) <= Spent(x) BY <1>n, <2>1, <2>2, <2>5 DEF Spent
  <2> HIDE DEF x
  <2>8. Changed(d, k, x) BY <1>0, <2>4, <2>5, SetChain
  <2>9. hookRows' \in Seq(W!Delivery) /\ Len(hookRows') >= Len(hookRows) /\ d <= Len(hookRows')
    <3>1. hookRows' \in Seq(W!Delivery) /\ Len(hookRows') = Len(hookRows) BY <1>r, <2>2, <2>3, <2>4
    <3> QED BY <1>l, <2>1, <3>1
  <2>10. x.at # "done" /\ c.at # "done" BY <2>1, <2>2, <2>5
  <2> QED BY <2>4, <2>5, <2>6, <2>7, <2>8, <2>9, <2>10, GoesOn
<1>6. ASSUME NEW ok \in BOOLEAN, W!Fetch(d, k, ok) PROVE HookInv'
  <2>1. c.at = "fetch" /\ c.n <= MaxRetries BY <1>1, <1>6 DEF W!Fetch, W!At, ChainFine
  <2> DEFINE p == IF ok THEN "ok" ELSE "failed"
             x == [at |-> p, n |-> c.n]
  <2>2. p \in {"ok", "failed"} OBVIOUS
  <2>3. chains' = [chains EXCEPT ![d][k].at = p] /\ sent' = [sent EXCEPT ![d] = sent[d] + 1]
        /\ UNCHANGED <<hookStatus, hookRows, hookTotals, hookFaults>>
    BY <1>6 DEF W!Fetch, W!Goto
  <2> HIDE DEF p
  <2>4. Changed(d, k, x) BY <1>0, <2>2, <2>3, GotoChain DEF W!Steps
  <2>5. x \in Chain /\ x.at = p /\ x.n = c.n BY <1>n, <2>2 DEF Chain, W!Steps
  <2> HIDE DEF x
  <2>6. ChainFine(x) BY <2>1, <2>5 DEF ChainFine
  <2>7. Spent(c) = c.n /\ Spent(x) = c.n + 1 BY <2>1, <2>2, <2>5 DEF Spent
  <2>8. sent' \in [1..MaxDeliveries -> Nat] /\ sent'[d] = sent[d] + 1 /\ \A e \in 1..MaxDeliveries : e # d => sent'[e] = sent[e]
    BY <1>0, <2>3
  <2>9. sent'[d] + Spent(c) <= sent[d] + Spent(x) BY <1>0, <1>n, <2>7, <2>8
  <2>10. ChainsFine' /\ SendsAreSpent' BY <2>4, <2>5, <2>6, <2>8, <2>9, ChainMoves
  <2>11. EndedChains' = EndedChains BY <2>1, <2>2, <2>4, <2>5, EndedSame
  <2>12. CountedOnce' BY <2>3, <2>11 DEF HookInv, CountedOnce
  <2>13. HookTypes' BY <1>0, <2>3, <2>4, <2>8 DEF HookTypes, W!TypeOK, W!Ids, W!Both, Chain, Changed
  <2>14. RowsExist'
    <3>1. Len(hookRows') >= Len(hookRows) /\ d <= Len(hookRows') /\ hookRows' \in Seq(W!Delivery) BY <1>0, <1>l, <2>1, <2>3
    <3> QED BY <1>0, <2>4, <3>1, RowsKept DEF HookInv
  <2> QED BY <2>10, <2>12, <2>13, <2>14 DEF HookInv
<1>7. CASE W!SaveStats(d, k)
  <2>1. c.at \in {"okStats", "failedStats"} BY <1>7 DEF W!SaveStats, W!At
  <2> DEFINE x == [at |-> "done", n |-> c.n]
  <2>2. Changed(d, k, x) BY <1>0, <1>7, GotoChain DEF W!SaveStats, W!Goto, W!Steps
  <2>3. x \in Chain /\ x.at = "done" BY <1>n DEF Chain, W!Steps
  <2> HIDE DEF x
  <2>4. ChainFine(x) /\ Spent(x) = MaxRetries + 1 BY <2>3 DEF ChainFine, Spent
  <2>5. Spent(c) <= MaxRetries + 1 BY <1>1, SpentNat
  <2>6. UNCHANGED <<hookStatus, hookRows, sent, hookFaults>> BY <1>7 DEF W!SaveStats
  <2>7. sent'[d] + Spent(c) <= sent[d] + Spent(x) BY <1>0, <1>n, <2>4, <2>5, <2>6, HookAssumption
  <2>8. ChainsFine' /\ SendsAreSpent' BY <1>0, <2>2, <2>3, <2>4, <2>6, <2>7, ChainMoves
  <2>9. Cardinality(EndedChains') = Cardinality(EndedChains) + 1 BY <2>1, <2>2, <2>3, EndedMore
  <2>10. hookTotals' \in W!WebhookSubscription /\ hookTotals'.ok + hookTotals'.failed = hookTotals.ok + hookTotals.failed + 1
    BY <1>0, <1>7 DEF W!SaveStats, W!WebhookSubscription
  <2>11. CountedOnce' BY <2>6, <2>9, <2>10 DEF HookInv, CountedOnce
  <2>12. HookTypes' BY <1>0, <2>2, <2>6, <2>10 DEF HookTypes, W!TypeOK, W!Ids, W!Both, Chain, Changed
  <2>13. RowsExist'
    <3>1. Len(hookRows') >= Len(hookRows) /\ d <= Len(hookRows') /\ hookRows' \in Seq(W!Delivery) BY <1>0, <1>l, <2>1, <2>6
    <3> QED BY <1>0, <2>2, <3>1, RowsKept DEF HookInv
  <2> QED BY <2>8, <2>11, <2>12, <2>13 DEF HookInv
<1> QED BY <1>2, <1>3, <1>4, <1>5, <1>6, <1>7 DEF W!Step

\* So does every step of the webhooks, crashes and recovery included.
LEMMA HookStep == HookInv /\ [W!Next]_(W!vars) => HookInv'
<1> SUFFICES ASSUME HookInv, [W!Next]_(W!vars) PROVE HookInv' OBVIOUS
<1>0. W!TypeOK /\ sent \in [1..MaxDeliveries -> Nat] /\ hookFaults \in Nat /\ hookRows \in Seq(W!Delivery)
      /\ hookTotals \in W!WebhookSubscription /\ hookStatus \in W!WebhookStatus
  BY DEF HookInv, HookTypes, W!TypeOK
<1>1. ASSUME NEW d \in W!Ids, NEW k \in W!Both, W!Step(d, k) PROVE HookInv' BY <1>1, StepInv DEF W!Ids, W!Both
<1>s. ASSUME UNCHANGED <<chains, sent, hookTotals, hookFaults, hookRows>>, hookStatus' \in W!WebhookStatus PROVE HookInv'
  BY <1>s DEF HookInv, HookTypes, W!TypeOK, ChainsFine, SendsAreSpent, CountedOnce, EndedChains, RowsExist
<1>2. ASSUME NEW status \in W!WebhookStatus, W!SetStatus(status) PROVE HookInv' BY <1>2, <1>s DEF W!SetStatus
<1>b. ASSUME NEW d \in 1..MaxDeliveries, NEW k \in {1, 2}, chains[d][k].at \in {"none"}, chains' = [chains EXCEPT ![d][k].at = "start"],
             hookRows' \in Seq(W!Delivery), Len(hookRows') >= Len(hookRows), d <= Len(hookRows'),
             UNCHANGED <<hookStatus, sent, hookTotals, hookFaults>>
      PROVE  HookInv'
  <2> DEFINE c == chains[d][k]
             x == [at |-> "start", n |-> c.n]
  <2>1. c \in Chain /\ ChainFine(c) /\ Spent(c) = 0 BY <1>0, <1>b, ChainsAre, SpentNat DEF HookInv, ChainsFine
  <2>2. Changed(d, k, x) BY <1>0, <1>b, GotoChain DEF W!Steps
  <2>3. x \in Chain /\ x.at = "start" /\ x.n = c.n BY <2>1 DEF Chain, W!Steps
  <2>4. ChainFine(x) BY <1>b, <2>1, <2>3 DEF ChainFine
  <2> HIDE DEF x
  <2>5. Spent(x) \in Nat BY <2>3, SpentNat
  <2>6. Spent(c) <= Spent(x) BY <2>1, <2>5
  <2> QED BY <1>b, <2>2, <2>3, <2>4, <2>6, GoesOn
<1>3. CASE W!DeliverEvent
  <2> DEFINE l == Len(hookRows) + 1
  <2>1. hookRows' \in Seq(W!Delivery) /\ Len(hookRows') = l /\ Len(hookRows) \in Nat
    <3>1. [status |-> "pending", attemptNumber |-> 0] \in W!Delivery BY HookAssumption DEF W!Delivery, W!WebhookDeliveryStatus
    <3> QED BY <1>0, <1>3, <3>1, AppendProperties, LenProperties DEF W!DeliverEvent
  <2>2. l \in 1..MaxDeliveries BY <1>0, <1>3, LenProperties, HookAssumption DEF W!DeliverEvent
  <2>3. chains' = [chains EXCEPT ![l][1].at = "start"] /\ UNCHANGED <<hookStatus, sent, hookTotals, hookFaults>>
    BY <1>3 DEF W!DeliverEvent
  <2>4. chains[l][1].at = "none"
    <3>1. ~(l <= Len(hookRows)) BY <2>1
    <3> QED BY <2>2, <3>1 DEF HookInv, RowsExist
  <2>5. Len(hookRows') >= Len(hookRows) /\ l <= Len(hookRows') BY <2>1
  <2> HIDE DEF l
  <2> QED BY <1>b, <2>1, <2>2, <2>3, <2>4, <2>5
<1>4. ASSUME NEW d \in W!Ids, W!RetryDelivery(d) PROVE HookInv'
  <2>1. [status |-> "pending", attemptNumber |-> 0] \in W!Delivery BY HookAssumption DEF W!Delivery, W!WebhookDeliveryStatus
  <2>2. hookRows' \in Seq(W!Delivery) /\ Len(hookRows') = Len(hookRows) BY <1>0, <1>4, <2>1, RowSaved DEF W!RetryDelivery
  <2>3. d <= Len(hookRows) /\ Len(hookRows) \in Nat BY <1>0, <1>4, LenProperties DEF W!RetryDelivery
  <2>4. d <= Len(hookRows') /\ Len(hookRows') >= Len(hookRows) BY <2>2, <2>3
  <2> QED BY <2>4, <1>4, <1>b, <2>2 DEF W!RetryDelivery, W!Goto, W!At, W!Ids
<1>5. ASSUME NEW d \in W!Ids, NEW k \in W!Both, W!DatabaseError(d, k) PROVE HookInv'
  <2> DEFINE c == chains[d][k]
  <2>0. d \in 1..MaxDeliveries /\ k \in {1, 2} BY DEF W!Ids, W!Both
  <2>1. c \in Chain /\ ChainFine(c) BY <1>0, <2>0, ChainsAre DEF HookInv, ChainsFine
  <2>2. c.n \in 0..(MaxRetries + 1) /\ c.n \in Nat /\ Spent(c) \in Nat BY <2>1, SpentNat DEF Chain
  <2>3. UNCHANGED <<hookStatus, hookRows, sent, hookTotals>> /\ hookFaults' = hookFaults + 1 BY <1>5 DEF W!DatabaseError
  <2>4. CASE c.at \in {"start", "ok", "okStats"} /\ W!Goto(d, k, "failed")
    <3> DEFINE x == [at |-> "failed", n |-> c.n]
    <3>1. Changed(d, k, x) BY <1>0, <2>0, <2>4, GotoChain DEF W!Goto, W!Steps
    <3>2. x \in Chain /\ x.at = "failed" /\ x.n = c.n BY <2>2 DEF Chain, W!Steps
    <3> HIDE DEF x
    <3>3. ChainFine(x) /\ Spent(c) <= Spent(x) BY <2>1, <2>2, <2>4, <3>2 DEF ChainFine, Spent
    <3>4. Len(hookRows') >= Len(hookRows) /\ d <= Len(hookRows') BY <1>0, <2>0, <2>3, <2>4, LenProperties DEF HookInv, RowsExist
    <3> QED BY <1>0, <2>0, <2>3, <2>4, <3>1, <3>2, <3>3, <3>4, GoesOn
  <2>5. CASE c.at \in {"failed", "failedStats"} /\ W!Goto(d, k, "done")
    <3> DEFINE x == [at |-> "done", n |-> c.n]
    <3>1. Changed(d, k, x) BY <1>0, <2>0, <2>5, GotoChain DEF W!Goto, W!Steps
    <3>2. x \in Chain /\ x.at = "done" /\ x.n = c.n BY <2>2 DEF Chain, W!Steps
    <3> HIDE DEF x
    <3>3. ChainFine(x) /\ Spent(x) = MaxRetries + 1 BY <3>2 DEF ChainFine, Spent
    <3>4. Len(hookRows') >= Len(hookRows) /\ d <= Len(hookRows') BY <1>0, <2>0, <2>3, <2>5, LenProperties DEF HookInv, RowsExist
    <3>5. Spent(c) <= MaxRetries + 1 BY <2>1, SpentNat
    <3>6. sent'[d] + Spent(c) <= sent[d] + Spent(x) BY <1>0, <2>0, <2>2, <2>3, <3>3, <3>5, HookAssumption
    <3>7. ChainsFine' /\ SendsAreSpent' BY <1>0, <2>0, <2>3, <3>1, <3>2, <3>3, <3>6, ChainMoves
    <3>8. RowsExist' BY <1>0, <2>0, <2>3, <3>1, <3>4, RowsKept DEF HookInv
    <3>9. CountedOnce' BY <1>0, <2>3 DEF CountedOnce
    <3>10. HookTypes' BY <1>0, <2>3, <3>1 DEF HookTypes, W!TypeOK, W!Ids, W!Both, Chain, Changed
    <3> QED BY <3>7, <3>8, <3>9, <3>10 DEF HookInv
  <2> QED BY <1>5, <2>4, <2>5 DEF W!DatabaseError
<1>6. CASE W!Crash
  <2>1. UNCHANGED <<hookStatus, hookRows, sent, hookTotals>> /\ hookFaults' = hookFaults + 1 BY <1>6 DEF W!Crash
  <2>2. ASSUME NEW d \in 1..MaxDeliveries, NEW k \in {1, 2}
        PROVE  /\ chains'[d][k] \in Chain /\ ChainFine(chains'[d][k]) /\ Spent(chains'[d][k]) >= Spent(chains[d][k])
               /\ chains'[d][k].at # "none" => chains[d][k].at # "none"
    <3> DEFINE c == chains[d][k]
               x == chains'[d][k]
               y == [c EXCEPT !.at = "done"]
    <3>1. c \in Chain /\ ChainFine(c) BY <1>0, ChainsAre DEF HookInv, ChainsFine
    <3>2. Spent(c) \in Nat /\ Spent(c) <= MaxRetries + 1 /\ (c.at = "none" => Spent(c) = 0) BY <3>1, SpentNat
    <3>3. x = IF c.at = "none" THEN W!Unborn ELSE y BY <1>6 DEF W!Crash, W!Ids, W!Both, W!At
    <3>4. y \in Chain /\ y.at = "done" BY <3>1 DEF Chain, W!Steps
    <3>5. W!Unborn \in Chain /\ W!Unborn.at = "none" /\ W!Unborn.n = 0 BY HookAssumption DEF W!Unborn, Chain, W!Steps
    <3> HIDE DEF y, x
    <3>6. CASE c.at = "none"
      <4>1. x = W!Unborn BY <3>3, <3>6
      <4>2. ChainFine(x) /\ Spent(x) = 0 BY <3>5, <4>1, HookAssumption DEF ChainFine, Spent
      <4> QED BY <3>2, <3>5, <3>6, <4>1, <4>2 DEF x
    <3>7. CASE c.at # "none"
      <4>1. x = y BY <3>3, <3>7
      <4>2. ChainFine(x) /\ Spent(x) = MaxRetries + 1 BY <3>4, <4>1 DEF ChainFine, Spent
      <4> QED BY <3>2, <3>4, <3>7, <4>1, <4>2, HookAssumption DEF x
    <3> QED BY <3>6, <3>7
  <2>3. chains' \in [1..MaxDeliveries -> [{1, 2} -> Chain]]
    <3> DEFINE F(d, k) == IF W!At(d, k, "none") THEN W!Unborn ELSE [chains[d][k] EXCEPT !.at = "done"]
    <3>1. chains' = [d \in 1..MaxDeliveries |-> [k \in {1, 2} |-> F(d, k)]] BY <1>6 DEF W!Crash, W!Ids, W!Both
    <3> HIDE DEF F
    <3>2. \A d \in 1..MaxDeliveries, k \in {1, 2} : chains'[d][k] = F(d, k) BY <3>1
    <3>3. \A d \in 1..MaxDeliveries, k \in {1, 2} : F(d, k) \in Chain BY <2>2, <3>2
    <3> QED BY <3>1, <3>3
  <2>4. HookTypes' BY <1>0, <2>1, <2>3 DEF HookTypes, W!TypeOK, W!Ids, W!Both, Chain
  <2>5. ChainsFine' BY <2>2 DEF ChainsFine
  <2>6. RowsExist' BY <2>1, <2>2 DEF RowsExist, HookInv
  <2>7. CountedOnce' BY <1>0, <2>1 DEF CountedOnce
  <2>8. ASSUME NEW d \in 1..MaxDeliveries PROVE sent'[d] <= Spent(chains'[d][1]) + Spent(chains'[d][2])
    <3> DEFINE a == Spent(chains[d][1])
               b == Spent(chains[d][2])
               p == Spent(chains'[d][1])
               q == Spent(chains'[d][2])
               s == sent[d]
    <3>1. a \in Nat /\ b \in Nat BY <1>0, ChainsAre, SpentNat
    <3>2. p \in Nat /\ q \in Nat BY <2>2, SpentNat
    <3>3. p >= a /\ q >= b BY <2>2
    <3>4. s \in Nat /\ s <= a + b BY <1>0 DEF HookInv, SendsAreSpent
    <3>5. sent'[d] = s BY <2>1
    <3> HIDE DEF a, b, p, q, s
    <3>6. s <= p + q BY <3>1, <3>2, <3>3, <3>4
    <3> QED BY <3>5, <3>6 DEF p, q
  <2>9. SendsAreSpent' BY <2>8 DEF SendsAreSpent
  <2> QED BY <2>4, <2>5, <2>6, <2>7, <2>9 DEF HookInv
<1>7. CASE UNCHANGED W!vars BY <1>0, <1>7, <1>s DEF W!vars
<1> QED BY <1>1, <1>2, <1>3, <1>4, <1>5, <1>6, <1>7 DEF W!Next

\* The invariant holds at the start.
LEMMA HookInit == W!Init => HookInv
<1> SUFFICES ASSUME W!Init PROVE HookInv OBVIOUS
<1>1. W!Unborn \in Chain /\ W!Unborn.at = "none" /\ W!Unborn.n = 0 BY HookAssumption DEF W!Unborn, Chain, W!Steps
<1>2. \A d \in 1..MaxDeliveries, k \in {1, 2} : chains[d][k] = W!Unborn BY DEF W!Init, W!Ids, W!Both
<1>3. HookTypes
  <2>1. chains \in [1..MaxDeliveries -> [{1, 2} -> Chain]] BY <1>1 DEF W!Init, W!Ids, W!Both
  <2> QED BY <2>1, EmptySeq DEF W!Init, HookTypes, W!TypeOK, W!Ids, W!Both, Chain, W!WebhookStatus, W!WebhookSubscription
<1>4. ChainsFine BY <1>1, <1>2, HookAssumption DEF ChainsFine, ChainFine
<1>5. SendsAreSpent BY <1>1, <1>2, SpentNat DEF SendsAreSpent, W!Init, W!Ids
<1>6. CountedOnce
  <2>1. EndedChains = {} BY <1>1, <1>2 DEF EndedChains
  <2> QED BY <2>1, FS_EmptySet DEF CountedOnce, W!Init
<1>7. RowsExist BY <1>1, <1>2 DEF RowsExist
<1> QED BY <1>3, <1>4, <1>5, <1>6, <1>7 DEF HookInv

\* The invariant says what RetriesAreBounded says.
LEMMA HookHolds == HookInv => W!TypeOK /\ W!RetriesAreBounded
<1> SUFFICES ASSUME HookInv PROVE W!RetriesAreBounded BY DEF HookInv, HookTypes
<1>0. W!TypeOK /\ sent \in [1..MaxDeliveries -> Nat] BY DEF HookInv, HookTypes
<1>1. ASSUME NEW d \in 1..MaxDeliveries PROVE sent[d] <= (MaxRetries + 1) * W!Cardinality(W!ChainsOf(d))
  <2> DEFINE c(k) == chains[d][k]
             m == MaxRetries + 1
             T == W!ChainsOf(d)
  <2>1. \A k \in {1, 2} : Spent(c(k)) \in Nat /\ Spent(c(k)) <= m /\ (c(k).at = "none" => Spent(c(k)) = 0)
    BY <1>0, ChainsAre, SpentNat DEF HookInv, ChainsFine
  <2>2. sent[d] <= Spent(c(1)) + Spent(c(2)) /\ sent[d] \in Nat /\ m \in Nat BY <1>0, HookAssumption DEF HookInv, SendsAreSpent
  <2>3. T = {k \in {1, 2} : c(k).at # "none"} BY DEF W!ChainsOf, W!Both, W!At
  <2>4. W!Cardinality(T) = Cardinality(T) BY DEF W!Cardinality, Cardinality
  <2>5. CASE c(1).at = "none" /\ c(2).at = "none"
    <3>1. T = {} BY <2>3, <2>5
    <3>2. Cardinality(T) = 0 BY <3>1, FS_EmptySet
    <3> QED BY <2>1, <2>2, <2>4, <2>5, <3>2
  <2>6. CASE c(1).at = "none" /\ c(2).at # "none"
    <3>1. T = {2} BY <2>3, <2>6
    <3>2. Cardinality(T) = 1 BY <3>1, FS_Singleton
    <3> QED BY <2>1, <2>2, <2>4, <2>6, <3>2
  <2>7. CASE c(1).at # "none" /\ c(2).at = "none"
    <3>1. T = {1} BY <2>3, <2>7
    <3>2. Cardinality(T) = 1 BY <3>1, FS_Singleton
    <3> QED BY <2>1, <2>2, <2>4, <2>7, <3>2
  <2>8. CASE c(1).at # "none" /\ c(2).at # "none"
    <3>1. T = {1} \cup {2} BY <2>3, <2>8
    <3>2. IsFiniteSet({1}) /\ Cardinality({1}) = 1 BY FS_Singleton
    <3>3. Cardinality({1} \cup {2}) = 1 + 1 BY <3>2, FS_AddElement
    <3>4. W!Cardinality(T) = 2 BY <2>4, <3>1, <3>3
    <3>5. m * 2 = m + m BY <2>2
    <3> QED BY <2>1, <2>2, <3>4, <3>5
  <2> QED BY <2>5, <2>6, <2>7, <2>8
<1>2. ASSUME hookFaults = 0
      PROVE  hookTotals.ok + hookTotals.failed = W!Cardinality({p \in W!Ids \X W!Both : W!At(p[1], p[2], "done")})
  <2>1. EndedChains = {p \in W!Ids \X W!Both : W!At(p[1], p[2], "done")} BY DEF EndedChains, W!Ids, W!Both, W!At
  <2>2. W!Cardinality(EndedChains) = Cardinality(EndedChains) BY DEF W!Cardinality, Cardinality
  <2> QED BY <1>2, <2>1, <2>2 DEF HookInv, CountedOnce
<1> QED BY <1>1, <1>2 DEF W!RetriesAreBounded, W!Ids

-----------------------------------------------------------------------------
(* Notifications: rows and deliveries *)

\* The notifications are one of the parts of a behaviour.
LEMMA NotePart ==
  /\ Init => N!Init
  /\ [Next]_vars => [N!Next]_(N!vars)
  BY DEF Init, Next, vars, noteVars, N!vars

\* The type of a delivery in flight.
Errand == [pc : {"attempt", "accepted"}, note : 1..MaxNotes, copy : N!Note, attempt : 1..MAX_RETRIES, batch : BOOLEAN]

\* Courier k has notification n.
Under(k, n) == couriers[k].pc # "none" /\ couriers[k].note = n

\* Types; a delivery is of a stored notification, and only stored ones have
\* been taken.
NoteTypes ==
  /\ N!TypeOK /\ noteFaults \in Nat /\ notesCrossed \in BOOLEAN
  /\ couriers \in [Couriers -> {N!NoDelivery} \cup Errand]
  /\ \A k \in Couriers : couriers[k].pc # "none" => couriers[k].note <= Len(notes)
  /\ \A n \in 1..MaxNotes : n > Len(notes) => taken[n] = 0

\* A notification stored as SENT, or about to be, was taken by the provider:
\* deliveries of one notification may overlap, and any of them may save.
TakenFirst ==
  /\ \A n \in 1..Len(notes) : notes[n].status = "sent" => taken[n] > 0
  /\ \A k \in Couriers : couriers[k].pc = "accepted" => taken[couriers[k].note] > 0

\* No database error, no crash, no two deliveries of one notification.
Undisturbed == noteFaults = 0 /\ ~notesCrossed

\* Then a notification has one delivery, which the provider has not taken
\* while it is attempted, and whose row is not final; and a scheduled one
\* that nobody delivers has not been taken, so that
\* processScheduledNotifications may take it up.
OneErrand ==
  /\ \A j, k \in Couriers, n \in 1..MaxNotes : Under(j, n) /\ Under(k, n) => j = k
  /\ \A k \in Couriers : couriers[k].pc = "attempt" => taken[couriers[k].note] = 0
  /\ \A k \in Couriers : couriers[k].pc # "none" => notes[couriers[k].note].status \notin {"sent", "failed"}
  /\ \A n \in 1..Len(notes) :
        /\ taken[n] <= 1
        /\ notes[n].status = "failed" => taken[n] = 0
        /\ notes[n].status = "scheduled" /\ (\A k \in Couriers : ~Under(k, n)) => taken[n] = 0

\* The inductive invariant of the notifications.
NoteInv == NoteTypes /\ TakenFirst /\ (Undisturbed => OneErrand)

\* What the types say, in the form the steps use.
LEMMA NoteFacts ==
  ASSUME NoteTypes
  PROVE  /\ notes \in Seq(N!Note) /\ Len(notes) \in Nat /\ Len(notes) <= MaxNotes /\ DOMAIN notes = 1..Len(notes)
         /\ taken \in [1..MaxNotes -> Nat]
         /\ N!NoDelivery.pc = "none"
         /\ \A k \in Couriers : couriers[k].pc # "none" => couriers[k] \in Errand /\ couriers[k].note \in 1..Len(notes)
         /\ \A n \in 1..Len(notes) : notes[n] \in N!Note /\ n \in 1..MaxNotes
<1>1. notes \in Seq(N!Note) /\ Len(notes) <= MaxNotes /\ taken \in [1..MaxNotes -> Nat] BY DEF NoteTypes, N!TypeOK
<1>2. Len(notes) \in Nat /\ DOMAIN notes = 1..Len(notes) /\ \A n \in 1..Len(notes) : notes[n] \in N!Note BY <1>1, LenProperties, ElementOfSeq
<1>3. N!NoDelivery.pc = "none" BY DEF N!NoDelivery
<1>4. ASSUME NEW k \in Couriers, couriers[k].pc # "none" PROVE couriers[k] \in Errand /\ couriers[k].note \in 1..Len(notes)
  <2>1. couriers[k] \in Errand BY <1>3, <1>4 DEF NoteTypes
  <2>2. couriers[k].note \in 1..MaxNotes BY <2>1 DEF Errand
  <2> QED BY <1>2, <1>4, <2>1, <2>2 DEF NoteTypes
<1>5. \A n \in 1..Len(notes) : n \in 1..MaxNotes BY <1>1, <1>2, NoteAssumption
<1> QED BY <1>1, <1>2, <1>3, <1>4, <1>5

\* The rows after one of them was saved.
LEMMA NoteSet ==
  ASSUME NoteTypes, NEW n \in 1..Len(notes), NEW row \in N!Note, notes' = [notes EXCEPT ![n] = row]
  PROVE  notes' \in Seq(N!Note) /\ Len(notes') = Len(notes) /\ notes'[n] = row
         /\ \A m \in 1..Len(notes) : m # n => notes'[m] = notes[m]
<1>1. notes \in Seq(N!Note) /\ Len(notes) \in Nat /\ DOMAIN notes = 1..Len(notes) BY NoteFacts
<1>2. notes \in [1..Len(notes) -> N!Note] BY <1>1
<1> DEFINE f == [notes EXCEPT ![n] = row]
<1>3. f \in [1..Len(notes) -> N!Note] BY <1>2
<1>4. f \in Seq(N!Note) BY <1>1, <1>3, SeqDef
<1>5. DOMAIN f = 1..Len(notes) BY <1>3
<1>6. Len(f) = Len(notes) BY <1>1, <1>4, <1>5, LenProperties
<1> QED BY <1>2, <1>4, <1>6

\* Courier k takes up, goes on with or ends a delivery.
Sends(k, x) ==
  /\ x \in {N!NoDelivery} \cup Errand
  /\ couriers' = [couriers EXCEPT ![k] = x]

\* The couriers after one of them changed.
LEMMA SendsAre ==
  ASSUME NoteTypes, NEW k \in Couriers, NEW x, Sends(k, x)
  PROVE  couriers' \in [Couriers -> {N!NoDelivery} \cup Errand] /\ couriers'[k] = x
         /\ \A j \in Couriers : j # k => couriers'[j] = couriers[j]
  BY DEF NoteTypes, Sends

\* What the catch block does: FAILED and the end after the last attempt, else
\* RETRYING, unless batched, and another attempt.
LEMMA CatchIs ==
  ASSUME NoteTypes, NEW k \in Couriers, couriers[k].pc # "none", N!Catch(k)
  PROVE  /\ notes' \in Seq(N!Note) /\ Len(notes') = Len(notes)
         /\ \A m \in 1..Len(notes) : m # couriers[k].note => notes'[m] = notes[m]
         /\ notes'[couriers[k].note].status # "sent" \/ notes'[couriers[k].note] = notes[couriers[k].note]
         /\ \/ Sends(k, N!NoDelivery) /\ notes'[couriers[k].note].status = "failed"
            \/ \E x \in Errand : /\ Sends(k, x) /\ x.pc = "attempt" /\ x.note = couriers[k].note
                                 /\ notes'[x.note] = notes[x.note] \/ notes'[x.note].status = "retrying"
<1> DEFINE d == couriers[k]
           last == d.attempt = MAX_RETRIES
           st == IF last THEN "failed" ELSE IF d.batch THEN d.copy.status ELSE "retrying"
           row == [d.copy EXCEPT !.retries = d.attempt, !.status = st]
           new == IF last \/ ~d.batch THEN row ELSE notes[d.note]
           next == [d EXCEPT !.pc = "attempt", !.attempt = d.attempt + 1, !.copy = row]
<1>0. d \in Errand /\ d.note \in 1..Len(notes) /\ notes[d.note] \in N!Note BY NoteFacts
<1>1. d.copy \in N!Note /\ d.attempt \in 1..MAX_RETRIES /\ d.batch \in BOOLEAN /\ d.note \in 1..MaxNotes BY <1>0 DEF Errand
<1>2. st \in N!DeliveryStatus BY <1>1 DEF N!Note, N!DeliveryStatus
<1>3. notes' = [notes EXCEPT ![d.note] = new] /\ couriers' = [couriers EXCEPT ![k] = IF last THEN N!NoDelivery ELSE next]
  BY DEF N!Catch
<1>s. (last => st = "failed") /\ (~last /\ ~d.batch => st = "retrying") BY <1>1
<1> HIDE DEF st
<1>4. row \in N!Note /\ row.status = st
  <2> DEFINE cp == d.copy
             a == d.attempt
             new1 == [cp EXCEPT !.retries = a, !.status = st]
  <2>1. cp \in N!Note /\ a \in 0..MAX_RETRIES BY <1>1, NoteAssumption
  <2>2. row = new1 OBVIOUS
  <2> HIDE DEF cp, a
  <2>3. new1 \in N!Note /\ new1.status = st BY <1>2, <2>1 DEF N!Note
  <2> HIDE DEF new1, row
  <2> QED BY <2>2, <2>3
<1> HIDE DEF row
<1>5. ~last => next \in Errand /\ next.pc = "attempt" /\ next.note = d.note
  <2>1. ~last => d.attempt + 1 \in 1..MAX_RETRIES BY <1>1, NoteAssumption
  <2> QED BY <1>0, <1>4, <2>1 DEF Errand
<1>6. new \in N!Note BY <1>0, <1>4
<1>t. (last => new.status = "failed") /\ (new.status # "sent" \/ new = notes[d.note]) /\ (~last => new = notes[d.note] \/ new.status = "retrying")
  BY <1>1, <1>4, <1>s
<1> HIDE DEF new, next
<1>7. notes' \in Seq(N!Note) /\ Len(notes') = Len(notes) /\ notes'[d.note] = new /\ \A m \in 1..Len(notes) : m # d.note => notes'[m] = notes[m]
  BY <1>0, <1>3, <1>6, NoteSet
<1>8. CASE last
  <2>1. Sends(k, N!NoDelivery) BY <1>3, <1>8 DEF Sends
  <2> QED BY <1>7, <1>8, <1>t, <2>1
<1>9. CASE ~last
  <2>1. Sends(k, next) BY <1>3, <1>5, <1>9 DEF Sends
  <2> QED BY <1>5, <1>7, <1>9, <1>t, <2>1
<1> QED BY <1>8, <1>9

-----------------------------------------------------------------------------
(* Notifications: the steps of a delivery *)

\* A courier goes on with its delivery or ends it, and no other notification
\* changes.
LEMMA ErrandStep ==
  ASSUME NoteInv, NEW k \in Couriers, couriers[k].pc # "none", NEW x, Sends(k, x),
         x.pc # "none" => x.note = couriers[k].note,
         notes' \in Seq(N!Note), Len(notes') = Len(notes),
         \A m \in 1..Len(notes) : m # couriers[k].note => notes'[m] = notes[m],
         taken' \in [1..MaxNotes -> Nat], \A m \in 1..MaxNotes : m # couriers[k].note => taken'[m] = taken[m],
         taken'[couriers[k].note] >= taken[couriers[k].note],
         UNCHANGED preference, notesCrossed' = notesCrossed,
         noteFaults' = noteFaults \/ noteFaults' = noteFaults + 1,
         notes'[couriers[k].note].status = "sent" => taken'[couriers[k].note] > 0,
         x.pc = "accepted" => taken'[couriers[k].note] > 0,
         Undisturbed /\ noteFaults' = noteFaults =>
            /\ x.pc = "attempt" => taken'[couriers[k].note] = 0
            /\ x.pc # "none" => notes'[couriers[k].note].status \notin {"sent", "failed"}
            /\ taken'[couriers[k].note] <= 1
            /\ x.pc = "none" => notes'[couriers[k].note].status # "scheduled"
            /\ notes'[couriers[k].note].status = "failed" => taken'[couriers[k].note] = 0
  PROVE  NoteInv'
<1> DEFINE n == couriers[k].note
<1>0. NoteTypes BY DEF NoteInv
<1>f. /\ Len(notes) \in Nat /\ Len(notes) <= MaxNotes /\ n \in 1..Len(notes)
      /\ \A j \in Couriers : couriers[j].pc # "none" => couriers[j].note \in 1..Len(notes)
      /\ taken \in [1..MaxNotes -> Nat] /\ noteFaults \in Nat /\ \A m \in 1..Len(notes) : m \in 1..MaxNotes
  BY <1>0, NoteFacts DEF NoteTypes
<1>s. couriers' \in [Couriers -> {N!NoDelivery} \cup Errand] /\ couriers'[k] = x /\ \A j \in Couriers : j # k => couriers'[j] = couriers[j]
  BY <1>0, SendsAre
<1> HIDE DEF n
<1>n. n = couriers[k].note BY DEF n
<1>1. NoteTypes'
  <2>1. N!TypeOK' BY <1>0, <1>f DEF NoteTypes, N!TypeOK
  <2>2. \A j \in Couriers : couriers'[j].pc # "none" => couriers'[j].note <= Len(notes') BY <1>f, <1>n, <1>s
  <2>3. \A m \in 1..MaxNotes : m > Len(notes') => taken'[m] = 0 BY <1>0, <1>f, <1>n DEF NoteTypes
  <2>4. noteFaults' \in Nat /\ notesCrossed' \in BOOLEAN BY <1>0, <1>f DEF NoteTypes
  <2> QED BY <1>s, <2>1, <2>2, <2>3, <2>4 DEF NoteTypes
<1>2. TakenFirst'
  <2>1. ASSUME NEW m \in 1..Len(notes'), notes'[m].status = "sent" PROVE taken'[m] > 0
    <3>1. CASE m = n BY <1>n, <2>1, <3>1
    <3>2. CASE m # n BY <1>f, <1>n, <2>1, <3>2 DEF NoteInv, TakenFirst
    <3> QED BY <3>1, <3>2
  <2>2. ASSUME NEW j \in Couriers, couriers'[j].pc = "accepted" PROVE taken'[couriers'[j].note] > 0
    <3>1. CASE j = k BY <1>n, <1>s, <2>2, <3>1
    <3>2. CASE j # k
      <4>1. couriers[j].pc = "accepted" /\ couriers'[j].note = couriers[j].note BY <1>s, <2>2, <3>2
      <4>2. taken[couriers[j].note] > 0 /\ couriers[j].note \in 1..MaxNotes BY <1>f, <4>1 DEF NoteInv, TakenFirst
      <4>3. CASE couriers[j].note = n BY <1>f, <1>n, <4>1, <4>2, <4>3
      <4>4. CASE couriers[j].note # n BY <1>n, <4>1, <4>2, <4>4
      <4> QED BY <4>3, <4>4
    <3> QED BY <3>1, <3>2
  <2> QED BY <2>1, <2>2 DEF TakenFirst
<1>3. ASSUME Undisturbed' PROVE OneErrand'
  <2>1. Undisturbed /\ noteFaults' = noteFaults BY <1>3, <1>f DEF Undisturbed
  <2>2. OneErrand BY <2>1 DEF NoteInv
  <2>3. \A j \in Couriers, m \in 1..MaxNotes : Under(j, m)' => Under(j, m) BY <1>n, <1>s DEF Under
  <2>4. \A j \in Couriers : j # k => ~Under(j, n)
    <3>1. Under(k, n) /\ n \in 1..MaxNotes BY <1>f DEF Under, n
    <3> QED BY <2>2, <3>1 DEF OneErrand
  <2>5. \A j, l \in Couriers, m \in 1..MaxNotes : Under(j, m)' /\ Under(l, m)' => j = l BY <2>2, <2>3 DEF OneErrand
  <2>6. ASSUME NEW j \in Couriers, couriers'[j].pc # "none"
        PROVE  /\ couriers'[j].pc = "attempt" => taken'[couriers'[j].note] = 0
               /\ notes'[couriers'[j].note].status \notin {"sent", "failed"}
    <3>1. CASE j = k BY <1>n, <1>s, <2>1, <2>6, <3>1
    <3>2. CASE j # k
      <4>1. couriers'[j] = couriers[j] /\ couriers[j].note \in 1..Len(notes) /\ couriers[j].note \in 1..MaxNotes BY <1>f, <1>s, <2>6, <3>2
      <4>2. couriers[j].note # n BY <2>4, <2>6, <3>2, <4>1 DEF Under
      <4>3. taken'[couriers[j].note] = taken[couriers[j].note] /\ notes'[couriers[j].note] = notes[couriers[j].note] BY <1>n, <4>1, <4>2
      <4> QED BY <2>2, <2>6, <4>1, <4>3 DEF OneErrand
    <3> QED BY <3>1, <3>2
  <2>7. ASSUME NEW m \in 1..Len(notes')
        PROVE  /\ taken'[m] <= 1
               /\ notes'[m].status = "failed" => taken'[m] = 0
               /\ notes'[m].status = "scheduled" /\ (\A j \in Couriers : ~Under(j, m)') => taken'[m] = 0
    <3>1. CASE m = n
      <4>1. notes'[m].status = "scheduled" => Under(k, m)' \/ taken'[m] = 0
        <5>1. CASE x.pc = "none" BY <1>n, <2>1, <3>1, <5>1
        <5>2. CASE x.pc # "none" BY <1>n, <1>s, <3>1, <5>2 DEF Under
        <5> QED BY <5>1, <5>2
      <4> QED BY <1>n, <2>1, <3>1, <4>1
    <3>2. CASE m # n
      <4>1. taken'[m] = taken[m] /\ notes'[m] = notes[m] /\ m \in 1..Len(notes) BY <1>f, <1>n, <3>2
      <4>2. \A j \in Couriers : Under(j, m)' <=> Under(j, m) BY <1>n, <1>s, <3>2 DEF Under
      <4> QED BY <2>2, <4>1, <4>2 DEF OneErrand
    <3> QED BY <3>1, <3>2
  <2> QED BY <2>5, <2>6, <2>7 DEF OneErrand
<1> QED BY <1>1, <1>2, <1>3 DEF NoteInv

\* The provider takes the notification (provider.send).
LEMMA AcceptInv == ASSUME NoteInv, NEW k \in Couriers, N!Accept(k) PROVE NoteInv'
<1> DEFINE d == couriers[k]
           n == d.note
           x == [d EXCEPT !.pc = "accepted"]
<1>0. NoteTypes /\ d.pc = "attempt" /\ taken' = [taken EXCEPT ![n] = taken[n] + 1] /\ couriers' = [couriers EXCEPT ![k] = x]
      /\ UNCHANGED <<notes, preference, noteFaults, notesCrossed>>
  BY DEF NoteInv, N!Accept
<1>1. d \in Errand /\ n \in 1..Len(notes) /\ n \in 1..MaxNotes /\ notes \in Seq(N!Note) /\ taken \in [1..MaxNotes -> Nat]
  BY <1>0, NoteFacts
<1>2. x \in Errand /\ x.pc = "accepted" /\ x.note = n BY <1>1 DEF Errand
<1>3. Sends(k, x) BY <1>0, <1>2 DEF Sends
<1>4. taken' \in [1..MaxNotes -> Nat] /\ taken'[n] = taken[n] + 1 /\ \A m \in 1..MaxNotes : m # n => taken'[m] = taken[m] BY <1>0, <1>1
<1>5. Undisturbed => taken[n] = 0 /\ notes[n].status \notin {"sent", "failed"} BY <1>0 DEF NoteInv, OneErrand
<1> HIDE DEF x
<1>6. Undisturbed => taken'[n] <= 1 BY <1>4, <1>5
<1>7. taken'[n] > 0 /\ taken'[n] >= taken[n] BY <1>1, <1>4
<1> QED BY <1>0, <1>1, <1>2, <1>3, <1>4, <1>5, <1>6, <1>7, ErrandStep DEF NoteInv

\* An attempt fails, or saving SENT does (the catch block of
\* deliverWithRetry).
LEMMA CatchInv ==
  ASSUME NoteInv, NEW k \in Couriers, couriers[k].pc # "none", N!Catch(k), UNCHANGED <<preference, taken, notesCrossed>>,
         (couriers[k].pc = "attempt" /\ noteFaults' = noteFaults) \/ noteFaults' = noteFaults + 1
  PROVE  NoteInv'
<1> DEFINE n == couriers[k].note
<1>0. NoteTypes /\ noteFaults \in Nat BY DEF NoteInv, NoteTypes
<1>1. n \in 1..Len(notes) /\ n \in 1..MaxNotes /\ taken \in [1..MaxNotes -> Nat] /\ N!NoDelivery.pc = "none" BY <1>0, NoteFacts
<1>2. /\ notes' \in Seq(N!Note) /\ Len(notes') = Len(notes)
      /\ \A m \in 1..Len(notes) : m # n => notes'[m] = notes[m]
      /\ notes'[n].status # "sent" \/ notes'[n] = notes[n]
      /\ \/ Sends(k, N!NoDelivery) /\ notes'[n].status = "failed"
         \/ \E x \in Errand : /\ Sends(k, x) /\ x.pc = "attempt" /\ x.note = n
                              /\ notes'[n] = notes[n] \/ notes'[n].status = "retrying"
  BY <1>0, CatchIs
<1>3. notes'[n].status = "sent" => taken[n] > 0 BY <1>1, <1>2 DEF NoteInv, TakenFirst
<1>4. Undisturbed /\ noteFaults' = noteFaults => taken[n] = 0 /\ notes[n].status \notin {"sent", "failed"}
  BY <1>0 DEF NoteInv, OneErrand
<1>5. noteFaults' = noteFaults \/ noteFaults' = noteFaults + 1 OBVIOUS
<1>6. taken'[n] >= taken[n] /\ taken' = taken /\ taken[n] \in Nat BY <1>1
<1>7. CASE Sends(k, N!NoDelivery) /\ notes'[n].status = "failed"
  <2> DEFINE x == N!NoDelivery
  <2>1. Sends(k, x) /\ x.pc = "none" BY <1>1, <1>7
  <2> HIDE DEF x
  <2> QED BY <1>1, <1>2, <1>3, <1>4, <1>5, <1>6, <1>7, <2>1, ErrandStep
<1>8. ASSUME NEW x \in Errand, Sends(k, x), x.pc = "attempt", x.note = n, notes'[n] = notes[n] \/ notes'[n].status = "retrying" PROVE NoteInv'
  BY <1>1, <1>2, <1>3, <1>4, <1>5, <1>6, <1>8, ErrandStep
<1> QED BY <1>2, <1>7, <1>8

\* The row is saved as SENT.
LEMMA SentInv == ASSUME NoteInv, NEW k \in Couriers, N!SaveSent(k) PROVE NoteInv'
<1> DEFINE d == couriers[k]
           n == d.note
           cp == d.copy
           r == IF d.batch THEN cp.retries ELSE d.attempt - 1
           row == [cp EXCEPT !.status = "sent", !.retries = r]
           x == N!NoDelivery
<1>0. NoteTypes /\ d.pc = "accepted" /\ notes' = [notes EXCEPT ![n] = row] /\ couriers' = [couriers EXCEPT ![k] = x]
      /\ UNCHANGED <<preference, taken, noteFaults, notesCrossed>>
  BY DEF NoteInv, N!SaveSent
<1>1. d \in Errand /\ n \in 1..Len(notes) /\ n \in 1..MaxNotes /\ taken \in [1..MaxNotes -> Nat] /\ x.pc = "none"
  BY <1>0, NoteFacts
<1>2. cp \in N!Note /\ d.attempt \in 1..MAX_RETRIES /\ d.batch \in BOOLEAN BY <1>1 DEF Errand
<1>3. r \in 0..MAX_RETRIES BY <1>2, NoteAssumption DEF N!Note
<1> HIDE DEF cp, r
<1>4. row \in N!Note /\ row.status = "sent" BY <1>2, <1>3 DEF N!Note, N!DeliveryStatus
<1> HIDE DEF row, x
<1>5. notes' \in Seq(N!Note) /\ Len(notes') = Len(notes) /\ notes'[n] = row /\ \A m \in 1..Len(notes) : m # n => notes'[m] = notes[m]
  BY <1>0, <1>1, <1>4, NoteSet
<1>6. Sends(k, x) BY <1>0 DEF Sends, x
<1>7. taken[n] > 0 /\ taken[n] >= taken[n] BY <1>0, <1>1 DEF NoteInv, TakenFirst
<1>8. Undisturbed => taken[n] <= 1 BY <1>1 DEF NoteInv, OneErrand
<1> QED BY <1>0, <1>1, <1>4, <1>5, <1>6, <1>7, <1>8, ErrandStep

\* The save in the catch block fails.
LEMMA GivenUpInv == ASSUME NoteInv, NEW k \in Couriers, N!CatchFails(k) PROVE NoteInv'
<1> DEFINE n == couriers[k].note
           x == N!NoDelivery
<1>0. NoteTypes /\ couriers[k].pc = "attempt" /\ couriers' = [couriers EXCEPT ![k] = x] /\ noteFaults' = noteFaults + 1
      /\ UNCHANGED <<notes, preference, taken, notesCrossed>> /\ noteFaults \in Nat
  BY DEF NoteInv, NoteTypes, N!CatchFails
<1>1. n \in 1..Len(notes) /\ n \in 1..MaxNotes /\ taken \in [1..MaxNotes -> Nat] /\ x.pc = "none" /\ notes \in Seq(N!Note) BY <1>0, NoteFacts
<1>2. Sends(k, x) BY <1>0 DEF Sends
<1>3. notes[n].status = "sent" => taken[n] > 0 BY <1>1 DEF NoteInv, TakenFirst
<1>4. noteFaults' # noteFaults /\ taken[n] >= taken[n] BY <1>0, <1>1
<1> HIDE DEF x
<1> QED BY <1>0, <1>1, <1>2, <1>3, <1>4, ErrandStep

\* A free courier sets out with the row as it is stored.
LEMMA SetsOut ==
  ASSUME NoteInv, NEW k \in Couriers, couriers[k].pc = "none", NEW x \in Errand, x.pc = "attempt", Sends(k, x),
         N!TypeOK', Len(notes') \in Nat, Len(notes') <= MaxNotes, Len(notes') >= Len(notes), x.note <= Len(notes'),
         UNCHANGED <<taken, noteFaults>>, notesCrossed' \in BOOLEAN,
         \A m \in 1..Len(notes) : notes'[m] = notes[m],
         \A m \in 1..Len(notes') : m > Len(notes) => notes'[m].status = "pending" /\ m = x.note,
         ~notesCrossed' => ~notesCrossed /\ (\A j \in Couriers : ~Under(j, x.note)) /\ notes'[x.note].status \in {"pending", "scheduled"},
         x.note <= Len(notes) => notes[x.note].status = "scheduled"
  PROVE  NoteInv'
<1> DEFINE n == x.note
<1>0. NoteTypes BY DEF NoteInv
<1>f. /\ Len(notes) \in Nat /\ Len(notes) <= MaxNotes /\ n \in 1..MaxNotes
      /\ \A j \in Couriers : couriers[j].pc # "none" => couriers[j].note \in 1..Len(notes)
      /\ taken \in [1..MaxNotes -> Nat] /\ noteFaults \in Nat /\ \A m \in 1..Len(notes) : m \in 1..MaxNotes
  BY <1>0, NoteFacts DEF NoteTypes, Errand
<1>s. couriers' \in [Couriers -> {N!NoDelivery} \cup Errand] /\ couriers'[k] = x /\ \A j \in Couriers : j # k => couriers'[j] = couriers[j]
  BY <1>0, SendsAre
<1> HIDE DEF n
<1>n. n = x.note BY DEF n
<1>z. \A m \in 1..MaxNotes : m > Len(notes) => taken[m] = 0 BY <1>0 DEF NoteTypes
<1>1. NoteTypes'
  <2>1. \A j \in Couriers : couriers'[j].pc # "none" => couriers'[j].note <= Len(notes')
    <3> TAKE j \in Couriers
    <3>1. CASE j = k BY <1>s, <3>1
    <3>2. CASE j # k BY <1>f, <1>s, <3>2
    <3> QED BY <3>1, <3>2
  <2>2. \A m \in 1..MaxNotes : m > Len(notes') => taken'[m] = 0 BY <1>f, <1>z
  <2> QED BY <1>0, <1>s, <2>1, <2>2 DEF NoteTypes
<1>2. TakenFirst'
  <2>1. ASSUME NEW m \in 1..Len(notes'), notes'[m].status = "sent" PROVE taken'[m] > 0
    <3>1. m \in 1..Len(notes) BY <1>f, <2>1
    <3> QED BY <2>1, <3>1 DEF NoteInv, TakenFirst
  <2>2. ASSUME NEW j \in Couriers, couriers'[j].pc = "accepted" PROVE taken'[couriers'[j].note] > 0
    <3>1. j # k BY <1>s, <2>2
    <3> QED BY <1>s, <2>2, <3>1 DEF NoteInv, TakenFirst
  <2> QED BY <2>1, <2>2 DEF TakenFirst
<1>3. ASSUME Undisturbed' PROVE OneErrand'
  <2>1. Undisturbed /\ (\A j \in Couriers : ~Under(j, n)) /\ notes'[n].status \in {"pending", "scheduled"} BY <1>3, <1>n DEF Undisturbed
  <2>2. OneErrand BY <2>1 DEF NoteInv
  <2>3. \A j \in Couriers, m \in 1..MaxNotes : Under(j, m)' <=> (IF j = k THEN m = n ELSE Under(j, m)) BY <1>n, <1>s DEF Under
  <2>4. taken[n] = 0
    <3>1. CASE n > Len(notes) BY <1>f, <1>z, <3>1
    <3>2. CASE ~(n > Len(notes))
      <4>1. n \in 1..Len(notes) /\ notes[n].status = "scheduled" BY <1>f, <1>n, <3>2
      <4> QED BY <2>1, <2>2, <4>1 DEF OneErrand
    <3> QED BY <3>1, <3>2
  <2>5. \A j, l \in Couriers, m \in 1..MaxNotes : Under(j, m)' /\ Under(l, m)' => j = l BY <2>1, <2>2, <2>3 DEF OneErrand
  <2>6. ASSUME NEW j \in Couriers, couriers'[j].pc # "none"
        PROVE  /\ couriers'[j].pc = "attempt" => taken'[couriers'[j].note] = 0
               /\ notes'[couriers'[j].note].status \notin {"sent", "failed"}
    <3>1. CASE j = k BY <1>n, <1>s, <2>1, <2>4, <3>1
    <3>2. CASE j # k
      <4>1. couriers'[j] = couriers[j] /\ couriers[j].note \in 1..Len(notes) BY <1>f, <1>s, <2>6, <3>2
      <4> QED BY <2>2, <2>6, <4>1 DEF OneErrand
    <3> QED BY <3>1, <3>2
  <2>7. ASSUME NEW m \in 1..Len(notes')
        PROVE  /\ taken'[m] <= 1
               /\ notes'[m].status = "failed" => taken'[m] = 0
               /\ notes'[m].status = "scheduled" /\ (\A j \in Couriers : ~Under(j, m)') => taken'[m] = 0
    <3>0. m \in 1..MaxNotes BY <1>f, NoteAssumption
    <3>1. CASE m > Len(notes)
      <4>1. taken[m] = 0 BY <1>z, <3>0, <3>1
      <4> QED BY <4>1
    <3>2. CASE ~(m > Len(notes))
      <4>1. m \in 1..Len(notes) /\ notes'[m] = notes[m] BY <1>f, <3>2
      <4>2. CASE m = n BY <2>4, <4>2
      <4>3. CASE m # n
        <5>1. (\A j \in Couriers : ~Under(j, m)') => (\A j \in Couriers : ~Under(j, m))
          BY <2>3, <3>0 DEF Under
        <5> QED BY <2>2, <4>1, <5>1 DEF OneErrand
      <4> QED BY <4>2, <4>3
    <3> QED BY <3>1, <3>2
  <2> QED BY <2>5, <2>6, <2>7 DEF OneErrand
<1> QED BY <1>1, <1>2, <1>3 DEF NoteInv

-----------------------------------------------------------------------------
(* Notifications: the other steps *)

\* The rows after one was added.
LEMMA NoteAppend ==
  ASSUME NoteTypes, NEW row \in N!Note, notes' = Append(notes, row), Len(notes) < MaxNotes
  PROVE  notes' \in Seq(N!Note) /\ Len(notes') = Len(notes) + 1 /\ Len(notes') \in Nat /\ Len(notes') <= MaxNotes
         /\ notes'[Len(notes) + 1] = row /\ \A m \in 1..Len(notes) : notes'[m] = notes[m]
<1>1. notes \in Seq(N!Note) /\ Len(notes) \in Nat BY NoteFacts
<1>2. /\ Append(notes, row) \in Seq(N!Note) /\ Len(Append(notes, row)) = Len(notes) + 1
      /\ \A i \in 1..Len(notes) : Append(notes, row)[i] = notes[i]
      /\ Append(notes, row)[Len(notes) + 1] = row
  BY <1>1, AppendProperties
<1> QED BY <1>1, <1>2, NoteAssumption

\* A row is stored that nobody delivers yet.
LEMMA StoresInv ==
  ASSUME NoteInv, NEW row \in N!Note, row.status \in {"scheduled", "failed"}, notes' = Append(notes, row), Len(notes) < MaxNotes,
         UNCHANGED <<couriers, preference, taken, noteFaults, notesCrossed>>
  PROVE  NoteInv'
<1>0. NoteTypes BY DEF NoteInv
<1>f. /\ Len(notes) \in Nat /\ Len(notes) <= MaxNotes /\ taken \in [1..MaxNotes -> Nat]
      /\ \A j \in Couriers : couriers[j].pc # "none" => couriers[j].note \in 1..Len(notes)
      /\ \A m \in 1..MaxNotes : m > Len(notes) => taken[m] = 0
  BY <1>0, NoteFacts DEF NoteTypes
<1>1. notes' \in Seq(N!Note) /\ Len(notes') = Len(notes) + 1 /\ Len(notes') \in Nat /\ Len(notes') <= MaxNotes
      /\ notes'[Len(notes) + 1] = row /\ \A m \in 1..Len(notes) : notes'[m] = notes[m]
  BY <1>0, NoteAppend
<1>2. NoteTypes'
  <2>1. N!TypeOK' BY <1>0, <1>1 DEF NoteTypes, N!TypeOK
  <2>2. \A j \in Couriers : couriers[j].pc # "none" => couriers[j].note <= Len(notes') BY <1>f, <1>1
  <2>3. \A m \in 1..MaxNotes : m > Len(notes') => taken[m] = 0 BY <1>f, <1>1
  <2> QED BY <1>0, <2>1, <2>2, <2>3 DEF NoteTypes
<1>3. \A m \in 1..Len(notes') : m \in 1..Len(notes) \/ (m = Len(notes) + 1 /\ m \in 1..MaxNotes /\ notes'[m] = row /\ taken[m] = 0)
  BY <1>f, <1>1, NoteAssumption
<1>4. TakenFirst' BY <1>1, <1>3 DEF NoteInv, TakenFirst
<1>5. ASSUME Undisturbed' PROVE OneErrand'
  <2>1. OneErrand BY <1>5 DEF Undisturbed, NoteInv
  <2>2. \A j \in Couriers : couriers[j].pc # "none" => notes'[couriers[j].note] = notes[couriers[j].note] BY <1>f, <1>1
  <2>3. \A j, l \in Couriers, m \in 1..MaxNotes : Under(j, m)' /\ Under(l, m)' => j = l BY <2>1 DEF OneErrand, Under
  <2>4. \A j \in Couriers : couriers[j].pc # "none" => notes'[couriers[j].note].status \notin {"sent", "failed"} BY <2>1, <2>2 DEF OneErrand
  <2>5. ASSUME NEW m \in 1..Len(notes')
        PROVE  /\ taken[m] <= 1
               /\ notes'[m].status = "failed" => taken[m] = 0
               /\ notes'[m].status = "scheduled" /\ (\A j \in Couriers : ~Under(j, m)') => taken[m] = 0
    <3>1. CASE m \in 1..Len(notes) BY <1>1, <2>1, <3>1 DEF OneErrand, Under
    <3>2. CASE m = Len(notes) + 1 /\ taken[m] = 0 BY <3>2
    <3> QED BY <1>3, <3>1, <3>2
  <2> QED BY <2>1, <2>3, <2>4, <2>5 DEF OneErrand, Under
<1> QED BY <1>2, <1>4, <1>5 DEF NoteInv

\* A delivery begins with its first attempt.
LEMMA ErrandIs ==
  ASSUME NEW n \in 1..MaxNotes, NEW row \in N!Note, NEW b \in BOOLEAN
  PROVE  N!Deliver(n, row, b) \in Errand /\ N!Deliver(n, row, b).pc = "attempt" /\ N!Deliver(n, row, b).note = n
<1> DEFINE x == [pc |-> "attempt", note |-> n, copy |-> row, attempt |-> 1, batch |-> b]
<1>1. 1 \in 1..MAX_RETRIES BY NoteAssumption
<1>2. x \in Errand /\ x.pc = "attempt" /\ x.note = n BY <1>1 DEF Errand
<1>3. N!Deliver(n, row, b) = x BY DEF N!Deliver
<1> HIDE DEF x
<1> QED BY <1>2, <1>3

\* A new row is stored as PENDING and delivered at once.
LEMMA SendsOutInv ==
  ASSUME NoteInv, NEW k \in Couriers, couriers[k].pc = "none", Len(notes) < MaxNotes, NEW b \in BOOLEAN,
         NEW row \in N!Note, row.status = "pending", notes' = Append(notes, row),
         couriers' = [couriers EXCEPT ![k] = N!Deliver(Len(notes) + 1, row, b)],
         UNCHANGED <<preference, taken, noteFaults, notesCrossed>>
  PROVE  NoteInv'
<1> DEFINE n == Len(notes) + 1
           x == N!Deliver(n, row, b)
<1>0. NoteTypes BY DEF NoteInv
<1>f. /\ Len(notes) \in Nat /\ n \in 1..MaxNotes /\ ~(n <= Len(notes))
      /\ \A j \in Couriers : couriers[j].pc # "none" => couriers[j].note \in 1..Len(notes)
  BY <1>0, NoteFacts, NoteAssumption
<1>1. notes' \in Seq(N!Note) /\ Len(notes') = n /\ Len(notes') \in Nat /\ Len(notes') <= MaxNotes
      /\ notes'[n] = row /\ \A m \in 1..Len(notes) : notes'[m] = notes[m]
  BY <1>0, NoteAppend
<1>2. x \in Errand /\ x.pc = "attempt" /\ x.note = n BY <1>f, ErrandIs
<1>3. Sends(k, x) BY <1>2 DEF Sends
<1>4. N!TypeOK' BY <1>0, <1>1 DEF NoteTypes, N!TypeOK
<1>5. \A j \in Couriers : ~Under(j, n) BY <1>f DEF Under
<1>6. \A m \in 1..Len(notes') : m > Len(notes) => notes'[m].status = "pending" /\ m = n BY <1>f, <1>1
<1>7. notesCrossed' \in BOOLEAN BY <1>0 DEF NoteTypes
<1>8. Len(notes') >= Len(notes) /\ n <= Len(notes') BY <1>f, <1>1
<1> HIDE DEF x, n
<1> QED BY <1>f, <1>1, <1>2, <1>3, <1>4, <1>5, <1>6, <1>7, <1>8, SetsOut

\* send, now or for later.
LEMMA SendInv == ASSUME NoteInv, NEW k \in Couriers, NEW later \in BOOLEAN, N!Send(k, later) PROVE NoteInv'
<1> DEFINE row == [status |-> IF later THEN "scheduled" ELSE "pending", retries |-> 0, read |-> FALSE]
<1>1. row \in N!Note /\ row.status = IF later THEN "scheduled" ELSE "pending" BY NoteAssumption DEF N!Note, N!DeliveryStatus
<1>2. /\ couriers[k].pc = "none" /\ Len(notes) < MaxNotes /\ notes' = Append(notes, row)
      /\ UNCHANGED <<preference, taken, noteFaults, notesCrossed>>
      /\ couriers' = IF later THEN couriers ELSE [couriers EXCEPT ![k] = N!Deliver(Len(notes) + 1, row, FALSE)]
  BY DEF N!Send
<1> HIDE DEF row
<1>3. CASE later BY <1>1, <1>2, <1>3, StoresInv
<1>4. CASE ~later
  <2>1. couriers' = [couriers EXCEPT ![k] = N!Deliver(Len(notes) + 1, row, FALSE)] BY <1>2, <1>4
  <2> QED BY <1>1, <1>2, <1>4, <2>1, SendsOutInv
<1> QED BY <1>3, <1>4

\* sendBatch, whatever the preference.
LEMMA SendBatchInv == ASSUME NoteInv, NEW k \in Couriers, N!SendBatch(k) PROVE NoteInv'
<1> DEFINE on == preference = "enabled"
           row == [status |-> IF on THEN "pending" ELSE "failed", retries |-> 0, read |-> FALSE]
<1>1. row \in N!Note /\ row.status = IF on THEN "pending" ELSE "failed" BY NoteAssumption DEF N!Note, N!DeliveryStatus
<1>2. /\ couriers[k].pc = "none" /\ Len(notes) < MaxNotes /\ notes' = Append(notes, row)
      /\ UNCHANGED <<preference, taken, noteFaults, notesCrossed>>
      /\ couriers' = IF ~on THEN couriers ELSE [couriers EXCEPT ![k] = N!Deliver(Len(notes) + 1, row, TRUE)]
  BY DEF N!SendBatch
<1> HIDE DEF row, on
<1>3. CASE ~on BY <1>1, <1>2, <1>3, StoresInv
<1>4. CASE on
  <2>1. couriers' = [couriers EXCEPT ![k] = N!Deliver(Len(notes) + 1, row, TRUE)] BY <1>2, <1>4
  <2> QED BY <1>1, <1>2, <1>4, <2>1, SendsOutInv
<1> QED BY <1>3, <1>4

\* processScheduledNotifications, which does not claim the row.
LEMMA ScheduledInv == ASSUME NoteInv, NEW k \in Couriers, NEW n \in DOMAIN notes, N!ProcessScheduled(k, n) PROVE NoteInv'
<1> DEFINE x == N!Deliver(n, notes[n], FALSE)
<1>0. NoteTypes BY DEF NoteInv
<1>f. /\ Len(notes) \in Nat /\ Len(notes) <= MaxNotes /\ n \in 1..Len(notes) /\ n \in 1..MaxNotes /\ notes[n] \in N!Note
  BY <1>0, NoteFacts
<1>1. /\ couriers[k].pc = "none" /\ notes[n].status = "scheduled" /\ couriers' = [couriers EXCEPT ![k] = x]
      /\ notesCrossed' = (notesCrossed \/ N!Delivering(n)) /\ UNCHANGED <<notes, preference, taken, noteFaults>>
  BY DEF N!ProcessScheduled
<1>2. x \in Errand /\ x.pc = "attempt" /\ x.note = n BY <1>f, ErrandIs
<1>3. Sends(k, x) BY <1>1, <1>2 DEF Sends
<1>4. N!TypeOK' BY <1>0, <1>1 DEF NoteTypes, N!TypeOK
<1>5. ~notesCrossed' => ~notesCrossed /\ \A j \in Couriers : ~Under(j, n) BY <1>1 DEF Under, N!Delivering
<1>7. notesCrossed' \in BOOLEAN BY <1>0, <1>1 DEF NoteTypes
<1>8. Len(notes') >= Len(notes) /\ n <= Len(notes') /\ \A m \in 1..Len(notes') : ~(m > Len(notes)) BY <1>f, <1>1
<1> HIDE DEF x
<1> QED BY <1>f, <1>1, <1>2, <1>3, <1>4, <1>5, <1>7, <1>8, SetsOut

\* markAsRead changes no status.
LEMMA ReadInv == ASSUME NoteInv, NEW n \in DOMAIN notes, N!MarkAsRead(n) PROVE NoteInv'
<1> DEFINE row == [notes[n] EXCEPT !.read = TRUE]
<1>0. NoteTypes BY DEF NoteInv
<1>f. /\ Len(notes) \in Nat /\ Len(notes) <= MaxNotes /\ n \in 1..Len(notes) /\ notes[n] \in N!Note
      /\ \A j \in Couriers : couriers[j].pc # "none" => couriers[j].note \in 1..Len(notes)
  BY <1>0, NoteFacts
<1>1. /\ notes' = [notes EXCEPT ![n] = row]
      /\ notesCrossed' = (notesCrossed \/ N!Delivering(n)) /\ UNCHANGED <<couriers, preference, taken, noteFaults>>
  BY DEF N!MarkAsRead
<1>2. row \in N!Note /\ row.status = notes[n].status BY <1>f DEF N!Note
<1> HIDE DEF row
<1>3. notes' \in Seq(N!Note) /\ Len(notes') = Len(notes) /\ notes'[n] = row /\ \A m \in 1..Len(notes) : m # n => notes'[m] = notes[m]
  BY <1>0, <1>1, <1>2, <1>f, NoteSet
<1>4. \A m \in 1..Len(notes) : notes'[m].status = notes[m].status BY <1>2, <1>3
<1>5. NoteTypes'
  <2>1. N!TypeOK' BY <1>0, <1>1, <1>3 DEF NoteTypes, N!TypeOK
  <2> QED BY <1>0, <1>1, <1>3, <2>1 DEF NoteTypes
<1>6. TakenFirst' BY <1>1, <1>3, <1>4 DEF NoteInv, TakenFirst
<1>7. ASSUME Undisturbed' PROVE OneErrand'
  <2>1. OneErrand BY <1>1, <1>7 DEF Undisturbed, NoteInv
  <2>2. \A j \in Couriers : couriers[j].pc # "none" => notes'[couriers[j].note].status = notes[couriers[j].note].status BY <1>f, <1>4
  <2> QED BY <1>1, <1>3, <1>4, <2>1, <2>2 DEF OneErrand, Under
<1> QED BY <1>5, <1>6, <1>7 DEF NoteInv

\* A crash ends all deliveries.
LEMMA NoteCrashInv == ASSUME NoteInv, N!Crash PROVE NoteInv'
<1>0. NoteTypes /\ noteFaults \in Nat BY DEF NoteInv, NoteTypes
<1>1. /\ couriers' = [k \in Couriers |-> N!NoDelivery] /\ noteFaults' = noteFaults + 1
      /\ UNCHANGED <<notes, preference, taken, notesCrossed>>
  BY DEF N!Crash
<1>2. \A k \in Couriers : couriers'[k] = N!NoDelivery /\ couriers'[k].pc = "none" BY <1>0, <1>1, NoteFacts
<1>3. NoteTypes' BY <1>0, <1>1, <1>2 DEF NoteTypes, N!TypeOK
<1>4. TakenFirst' BY <1>1, <1>2 DEF NoteInv, TakenFirst
<1>5. ~Undisturbed' BY <1>0, <1>1 DEF Undisturbed
<1> QED BY <1>3, <1>4, <1>5 DEF NoteInv

\* A step that leaves rows and deliveries alone.
LEMMA NoteKept ==
  ASSUME NoteInv, UNCHANGED <<notes, couriers, taken, noteFaults, notesCrossed>>, preference' \in N!Preference
  PROVE NoteInv'
<1>1. NoteTypes' BY DEF NoteInv, NoteTypes, N!TypeOK
<1>2. TakenFirst' BY DEF NoteInv, TakenFirst
<1>3. Undisturbed' => OneErrand' BY DEF NoteInv, Undisturbed, OneErrand, Under
<1> QED BY <1>1, <1>2, <1>3 DEF NoteInv

\* Every step keeps the invariant.
LEMMA NoteStep == ASSUME NoteInv, [N!Next]_(N!vars) PROVE NoteInv'
<1>p. preference \in N!Preference BY DEF NoteInv, NoteTypes, N!TypeOK
<1>1. ASSUME NEW k \in Couriers, NEW later \in BOOLEAN, N!Send(k, later) PROVE NoteInv' BY <1>1, SendInv
<1>2. ASSUME NEW k \in Couriers, N!SendBatch(k) PROVE NoteInv' BY <1>2, SendBatchInv
<1>3. ASSUME NEW k \in Couriers, NEW n \in DOMAIN notes, N!ProcessScheduled(k, n) PROVE NoteInv' BY <1>3, ScheduledInv
<1>4. ASSUME NEW k \in Couriers, N!Accept(k) PROVE NoteInv' BY <1>4, AcceptInv
<1>5. ASSUME NEW k \in Couriers, N!Reject(k) PROVE NoteInv'
  <2>1. couriers[k].pc = "attempt" /\ N!Catch(k) /\ UNCHANGED <<preference, taken, noteFaults, notesCrossed>> BY <1>5 DEF N!Reject
  <2> QED BY <2>1, CatchInv
<1>6. ASSUME NEW k \in Couriers, N!SaveSent(k) PROVE NoteInv' BY <1>6, SentInv
<1>7. ASSUME NEW k \in Couriers, N!SaveSentFails(k) PROVE NoteInv'
  <2>1. couriers[k].pc = "accepted" /\ N!Catch(k) /\ UNCHANGED <<preference, taken, notesCrossed>> /\ noteFaults' = noteFaults + 1
    BY <1>7 DEF N!SaveSentFails
  <2> QED BY <2>1, CatchInv
<1>8. ASSUME NEW k \in Couriers, N!CatchFails(k) PROVE NoteInv' BY <1>8, GivenUpInv
<1>9. ASSUME NEW n \in DOMAIN notes, N!MarkAsRead(n) PROVE NoteInv' BY <1>9, ReadInv
<1>10. ASSUME NEW p \in N!Preference, N!UpdateUserPreference(p) PROVE NoteInv' BY <1>10, NoteKept DEF N!UpdateUserPreference
<1>11. ASSUME N!Crash PROVE NoteInv' BY <1>11, NoteCrashInv
<1>12. ASSUME UNCHANGED N!vars PROVE NoteInv' BY <1>12, <1>p, NoteKept DEF N!vars
<1> QED BY <1>1, <1>2, <1>3, <1>4, <1>5, <1>6, <1>7, <1>8, <1>9, <1>10, <1>11, <1>12 DEF N!Next

\* The invariant holds at the start.
LEMMA NoteInit == N!Init => NoteInv
<1> SUFFICES ASSUME N!Init PROVE NoteInv OBVIOUS
<1>1. /\ notes = <<>> /\ preference = "enabled" /\ couriers = [k \in Couriers |-> N!NoDelivery]
      /\ taken = [n \in 1 .. MaxNotes |-> 0] /\ noteFaults = 0 /\ notesCrossed = FALSE
  BY DEF N!Init
<1>2. notes \in Seq(N!Note) /\ Len(notes) = 0 BY <1>1, EmptySeq
<1>3. \A k \in Couriers : couriers[k] = N!NoDelivery /\ couriers[k].pc = "none" BY <1>1 DEF N!NoDelivery
<1>4. NoteTypes
  <2>1. taken \in [1..MaxNotes -> Nat] /\ \A n \in 1..MaxNotes : taken[n] = 0 BY <1>1
  <2>2. N!TypeOK BY <1>1, <1>2, <2>1, NoteAssumption DEF N!TypeOK, N!Preference
  <2>3. couriers \in [Couriers -> {N!NoDelivery} \cup Errand] BY <1>1
  <2> QED BY <1>1, <1>3, <2>1, <2>2, <2>3 DEF NoteTypes
<1>5. TakenFirst BY <1>2, <1>3 DEF TakenFirst
<1>6. OneErrand BY <1>2, <1>3 DEF OneErrand, Under
<1> QED BY <1>4, <1>5, <1>6 DEF NoteInv

\* The invariant says what the property says of notifications.
LEMMA NoteHolds == NoteInv => N!TypeOK /\ N!OutcomeIsTrue
<1> SUFFICES ASSUME NoteInv PROVE N!TypeOK /\ N!OutcomeIsTrue OBVIOUS
<1>1. NoteTypes /\ N!TypeOK BY DEF NoteInv, NoteTypes
<1>2. DOMAIN notes = 1..Len(notes) BY <1>1, NoteFacts
<1>3. N!OutcomeIsTrue BY <1>2 DEF N!OutcomeIsTrue, NoteInv, TakenFirst, Undisturbed, OneErrand
<1> QED BY <1>1, <1>3

\* A webhook is sent no more often than its retries allow and counted once; a
\* notification stored as SENT was taken, and without faults or overlapping
\* deliveries taken at most once, and not at all when stored as FAILED; for
\* any number of deliveries, couriers and retries (executeDelivery,
\* deliverWithRetry).
THEOREM OutcomesTrue == FairSpec => []OutcomeIsTrue
<1>1. Init => HookInv /\ NoteInv BY HookPart, HookInit, NotePart, NoteInit
<1>2. HookInv /\ NoteInv /\ [Next]_vars => (HookInv /\ NoteInv)' BY HookPart, HookStep, NotePart, NoteStep
<1>3. HookInv /\ NoteInv => OutcomeIsTrue BY HookHolds, NoteHolds DEF OutcomeIsTrue
<1> QED BY <1>1, <1>2, <1>3, PTL DEF FairSpec

-----------------------------------------------------------------------------
(* Contract events *)

\* A set of numbers that has an element has a least one.
LEMMA LeastNat ==
  ASSUME NEW T \in SUBSET Nat, T # {}
  PROVE  \E m \in T : \A k \in T : m <= k
<1> DEFINE Less == OpToRel(<, Nat)
<1>1. IsWellFoundedOn(Less, Nat)
  BY NatLessThanWellFounded
<1>2. \A k, m \in Nat : <<k, m>> \in Less <=> k < m
  BY DEF OpToRel
<1> HIDE DEF Less
<1>3. PICK m \in T : \A k \in T : ~(<<k, m>> \in Less)
  BY <1>1, WFMin, Zenon
<1>4. \A k \in T : ~(k < m)
  BY <1>2, <1>3, Zenon
<1> QED BY <1>4

\* What a sequence holds.
Entries(s) == {s[j] : j \in 1..Len(s)}

\* Without its head a sequence has lost that entry only.
LEMMA EntriesOfTail ==
  ASSUME NEW S, NEW s \in Seq(S), s # <<>>
  PROVE  Entries(s) = {Head(s)} \cup Entries(Tail(s))
<1>1. /\ Tail(s) \in Seq(S) /\ Len(s) \in Nat \ {0} /\ Len(Tail(s)) = Len(s) - 1
      /\ \A i \in 1..Len(Tail(s)) : Tail(s)[i] = s[i+1]
  BY HeadTailProperties, EmptySeq, LenProperties
<1>2. Head(s) = s[1] OBVIOUS
<1>3. \A j \in 1..Len(s) : j = 1 \/ (j - 1 \in 1..Len(Tail(s)) /\ s[j] = Tail(s)[j-1])
  BY <1>1
<1>4. \A j \in 1..Len(Tail(s)) : j + 1 \in 1..Len(s) /\ j + 1 # 1
  BY <1>1
<1>5. Entries(s) \subseteq {Head(s)} \cup Entries(Tail(s))
  BY <1>2, <1>3 DEF Entries
<1>6. {Head(s)} \cup Entries(Tail(s)) \subseteq Entries(s)
  BY <1>1, <1>2, <1>4 DEF Entries
<1> QED BY <1>5, <1>6

\* The event indexer is one of the parts of a behaviour.
LEMMA EventPart ==
  /\ Init => E!Init
  /\ [Next]_vars => [E!Next]_(E!vars)
  BY DEF Init, Next, vars, eventVars, E!vars

\* The larger and the smaller of two numbers.
LEMMA EventMaxMin ==
  ASSUME NEW a \in Int, NEW b \in Int
  PROVE  /\ E!Max({a, b}) = IF a >= b THEN a ELSE b
         /\ E!Min({a, b}) = IF a <= b THEN a ELSE b
  BY DEF E!Max, E!Min

\* The recursion of FlattenSeq, on the first n of the sequences.
IsFlat(f, s, n) == f = [i \in 1..n |-> IF i = 1 THEN s[i] ELSE f[i - 1] \o s[i]]

\* A function that satisfies it exists.
LEMMA FlatExists ==
  ASSUME NEW s
  PROVE  \A n \in Nat : \E f : IsFlat(f, s, n)
<1> DEFINE Bad == {n \in Nat : ~\E f : IsFlat(f, s, n)}
<1> SUFFICES ASSUME Bad # {} PROVE FALSE
  OBVIOUS
<1>1. PICK m \in Bad : \A k \in Bad : m <= k
  <2>1. Bad \in SUBSET Nat OBVIOUS
  <2> HIDE DEF Bad
  <2> QED BY <2>1, LeastNat
<1>2. m # 0
  <2> SUFFICES ASSUME m = 0 PROVE FALSE OBVIOUS
  <2> DEFINE f == [i \in 1..0 |-> 0]
  <2>1. IsFlat(f, s, 0) BY DEF IsFlat
  <2> QED BY <1>1, <2>1
<1>3. m - 1 \in Nat /\ m - 1 \notin Bad BY <1>1, <1>2
<1>4. PICK g : IsFlat(g, s, m - 1) BY <1>3
<1> DEFINE Rec(i) == IF i = 1 THEN s[i] ELSE g[i - 1] \o s[i]
           f == [i \in 1..m |-> Rec(i)]
<1>5. \A i \in 1..(m - 1) : i \in 1..m /\ g[i] = Rec(i)
  <2>1. g = [i \in 1..(m - 1) |-> Rec(i)] BY <1>4 DEF IsFlat
  <2>2. \A i \in 1..(m - 1) : i \in 1..m BY <1>3
  <2> HIDE DEF Rec
  <2> QED BY <2>1, <2>2
<1>6. \A i \in 1..m : i # 1 => i - 1 \in 1..(m - 1) BY <1>3
<1>7. IsFlat(f, s, m)
  <2>1. \A i \in 1..m : Rec(i) = IF i = 1 THEN s[i] ELSE f[i - 1] \o s[i] BY <1>5, <1>6
  <2> QED BY <2>1 DEF IsFlat
<1> QED BY <1>1, <1>7

\* What FlattenSeq is: the last value of such a function.
LEMMA FlattenIs ==
  ASSUME NEW s, Len(s) \in Nat
  PROVE  /\ Len(s) = 0 => E!FlattenSeq(s) = s
         /\ Len(s) # 0 => \E f : IsFlat(f, s, Len(s)) /\ E!FlattenSeq(s) = f[Len(s)]
<1>1. Len(s) = 0 => E!FlattenSeq(s) = s BY DEF E!FlattenSeq
<1>2. ASSUME Len(s) # 0 PROVE \E f : IsFlat(f, s, Len(s)) /\ E!FlattenSeq(s) = f[Len(s)]
  <2> DEFINE fl == CHOOSE f : f = [i \in 1..Len(s) |-> IF i = 1 THEN s[i] ELSE f[i - 1] \o s[i]]
  <2>1. \E f : f = [i \in 1..Len(s) |-> IF i = 1 THEN s[i] ELSE f[i - 1] \o s[i]]
    BY FlatExists DEF IsFlat
  <2>2. fl = [i \in 1..Len(s) |-> IF i = 1 THEN s[i] ELSE fl[i - 1] \o s[i]] BY <2>1
  <2>3. E!FlattenSeq(s) = fl[Len(s)] BY <1>2 DEF E!FlattenSeq
  <2> HIDE DEF fl
  <2>4. IsFlat(fl, s, Len(s)) BY <2>2 DEF IsFlat
  <2> QED BY <2>3, <2>4
<1> QED BY <1>1, <1>2

\* The events of a chain h from ledger a to ledger b, as an RPC lists them: all of
\* them, by ledger, and those of the first ledger first.
Lists(q, h, a, b) ==
  /\ q \in Seq(Nat \X Nat)
  /\ \A j \in 1..Len(q) : q[j][1] \in a..b
  /\ \A l \in a..b : \A i \in 1..h[l] : \E j \in 1..Len(q) : q[j] = <<l, i>>
  /\ \A j, k \in 1..Len(q) : j <= k => q[j][1] <= q[k][1]
  /\ a <= b => h[a] \in 0..Len(q) /\ \A i \in 1..h[a] : q[i] = <<a, i>>

\* The events of one ledger.
LEMMA ListsOne ==
  ASSUME NEW h, NEW a \in Nat, h[a] \in Nat
  PROVE  Lists([i \in 1..h[a] |-> <<a, i>>], h, a, a)
<1> DEFINE q == [i \in 1..h[a] |-> <<a, i>>]
<1>1. q \in Seq(Nat \X Nat) /\ Len(q) = h[a] OBVIOUS
<1>2. \A j \in 1..Len(q) : q[j] = <<a, j>> /\ q[j][1] = a BY <1>1
<1>3. a..a = {a} OBVIOUS
<1> HIDE DEF q
<1>4. \A l \in a..a : \A i \in 1..h[l] : \E j \in 1..Len(q) : q[j] = <<l, i>>
  <2> TAKE l \in a..a
  <2> TAKE i \in 1..h[l]
  <2>1. l = a BY <1>3
  <2>2. i \in 1..Len(q) /\ q[i] = <<l, i>> BY <1>1, <1>2, <2>1
  <2> QED BY <2>2
<1>5. \A j, k \in 1..Len(q) : j <= k => q[j][1] <= q[k][1] BY <1>2
<1>6. h[a] \in 0..Len(q) /\ \A i \in 1..h[a] : q[i] = <<a, i>> BY <1>1, <1>2
<1>7. \A j \in 1..Len(q) : q[j][1] \in a..a BY <1>2, <1>3
<1>8. Lists(q, h, a, a) BY <1>1, <1>4, <1>5, <1>6, <1>7 DEF Lists
<1> QED BY <1>8 DEF q

\* The next ledger's events follow.
LEMMA ListsNext ==
  ASSUME NEW h, NEW a \in Nat, NEW b \in Nat, a <= b, NEW q, Lists(q, h, a, b), NEW r, Lists(r, h, b + 1, b + 1)
  PROVE  Lists(q \o r, h, a, b + 1)
<1>0. q \in Seq(Nat \X Nat) /\ r \in Seq(Nat \X Nat) BY DEF Lists
<1>1. /\ q \o r \in Seq(Nat \X Nat)
      /\ Len(q) \in Nat /\ Len(r) \in Nat /\ Len(q \o r) = Len(q) + Len(r)
      /\ \A i \in 1 .. Len(q) + Len(r) : (q \o r)[i] = IF i <= Len(q) THEN q[i] ELSE r[i - Len(q)]
  BY <1>0, ConcatProperties, LenProperties
<1>2. PICK p : p = q \o r OBVIOUS
<1>3. \A i \in 1..Len(q) : i \in 1..Len(p) /\ p[i] = q[i] BY <1>1, <1>2
<1>4. \A i \in 1..Len(r) : Len(q) + i \in 1..Len(p) /\ p[Len(q) + i] = r[i] BY <1>1, <1>2, SMTT(30)
<1>5. \A i \in 1..Len(p) : \/ i \in 1..Len(q) /\ p[i] = q[i] /\ p[i][1] \in a..b
                           \/ i - Len(q) \in 1..Len(r) /\ i > Len(q) /\ p[i] = r[i - Len(q)] /\ p[i][1] = b + 1
  <2> TAKE i \in 1..Len(p)
  <2>1. CASE i <= Len(q)
    <3>1. i \in 1..Len(q) /\ p[i] = q[i] BY <1>1, <1>2, <2>1
    <3> QED BY <3>1 DEF Lists
  <2>2. CASE ~(i <= Len(q))
    <3>1. i - Len(q) \in 1..Len(r) /\ i > Len(q) /\ p[i] = r[i - Len(q)] BY <1>1, <1>2, <2>2
    <3>2. r[i - Len(q)][1] \in (b + 1)..(b + 1) BY <3>1 DEF Lists
    <3> QED BY <3>1, <3>2
  <2> QED BY <2>1, <2>2
<1>6. \A j \in 1..Len(p) : p[j][1] \in a..(b + 1) BY <1>5
<1>7. ASSUME NEW l \in a..(b + 1), NEW i \in 1..h[l] PROVE \E j \in 1..Len(p) : p[j] = <<l, i>>
  <2>1. CASE l \in a..b
    <3>1. PICK j \in 1..Len(q) : q[j] = <<l, i>> BY <2>1 DEF Lists
    <3> QED BY <1>3, <3>1
  <2>2. CASE l = b + 1
    <3>1. l \in (b + 1)..(b + 1) BY <2>2
    <3>2. PICK j \in 1..Len(r) : r[j] = <<l, i>> BY <3>1 DEF Lists
    <3> QED BY <1>4, <3>2
  <2> QED BY <2>1, <2>2
<1>8. ASSUME NEW j \in 1..Len(p), NEW k \in 1..Len(p), j <= k PROVE p[j][1] <= p[k][1]
  <2>1. Len(p) \in Nat BY <1>1, <1>2
  <2>2. CASE k <= Len(q)
    <3>1. j \in 1..Len(q) /\ k \in 1..Len(q) BY <1>1, <1>8, <2>1, <2>2
    <3>2. q[j][1] <= q[k][1] BY <1>8, <3>1 DEF Lists
    <3> QED BY <1>3, <3>1, <3>2
  <2>3. CASE ~(k <= Len(q))
    <3>1. p[k][1] = b + 1 BY <1>5, <2>3
    <3>2. p[j][1] \in a..(b + 1) BY <1>6
    <3> QED BY <3>1, <3>2
  <2> QED BY <2>2, <2>3
<1>9. h[a] \in 0..Len(p) /\ \A i \in 1..h[a] : p[i] = <<a, i>>
  <2>1. h[a] \in 0..Len(q) /\ \A i \in 1..h[a] : q[i] = <<a, i>> BY DEF Lists
  <2>2. h[a] \in 0..Len(p) BY <1>1, <1>2, <2>1
  <2>3. \A i \in 1..h[a] : i \in 1..Len(q) BY <1>1, <2>1
  <2> QED BY <1>3, <2>1, <2>2, <2>3
<1>10. Lists(p, h, a, b + 1) BY <1>1, <1>2, <1>6, <1>7, <1>8, <1>9 DEF Lists
<1> QED BY <1>2, <1>10

\* The ledgers one after the other.
LEMMA ListsAll ==
  ASSUME NEW h, NEW a \in Nat, NEW n \in Nat, \A l \in a..(a + n - 1) : h[l] \in Nat, NEW s,
         \A k \in 1..n : s[k] = [i \in 1..h[a + k - 1] |-> <<a + k - 1, i>>],
         NEW f, IsFlat(f, s, n)
  PROVE  \A k \in 1..n : Lists(f[k], h, a, a + k - 1)
<1> DEFINE Bad == {k \in 1..n : ~Lists(f[k], h, a, a + k - 1)}
<1> SUFFICES ASSUME Bad # {} PROVE FALSE
  OBVIOUS
<1>1. PICK m \in Bad : \A k \in Bad : m <= k
  <2>1. Bad \in SUBSET Nat OBVIOUS
  <2> HIDE DEF Bad
  <2> QED BY <2>1, LeastNat
<1>2. m \in 1..n /\ ~Lists(f[m], h, a, a + m - 1) BY <1>1
<1>3. PICK b \in Nat : b = a + m - 1 BY <1>2
<1>4. s[m] = [i \in 1..h[b] |-> <<b, i>>] /\ h[b] \in Nat BY <1>2, <1>3
<1>5. Lists(s[m], h, b, b) BY <1>4, ListsOne
<1>6. CASE m = 1
  <2>1. f[m] = s[m] BY <1>2, <1>6 DEF IsFlat
  <2>2. b = a BY <1>3, <1>6
  <2> QED BY <1>2, <1>3, <1>5, <2>1, <2>2
<1>7. CASE m # 1
  <2>1. f[m] = f[m - 1] \o s[m] BY <1>2, <1>7 DEF IsFlat
  <2>2. m - 1 \in 1..n /\ m - 1 \notin Bad BY <1>1, <1>2, <1>7
  <2>3. PICK c \in Nat : c = a + (m - 1) - 1 /\ b = c + 1 /\ a <= c BY <1>2, <1>3, <2>2
  <2>4. Lists(f[m - 1], h, a, c) BY <2>2, <2>3
  <2> HIDE DEF Bad
  <2>5. Lists(f[m - 1] \o s[m], h, a, c + 1) BY <1>5, <2>3, <2>4, ListsNext
  <2> QED BY <1>2, <1>3, <2>1, <2>3, <2>5, SMTT(30)
<1> QED BY <1>6, <1>7

\* A page of getEvents from ledger a on: the events up to the latest ledger, or as many
\* as the limit allows.
PageIs(p, a) ==
  /\ p \in Seq(Nat \X Nat)
  /\ \A e \in Entries(p) : e[1] \in a..Len(chain)
  /\ Len(p) < PAGE_LIMIT => \A l \in a..Len(chain) : E!EventsOf(l) \subseteq Entries(p)
  /\ Len(p) >= PAGE_LIMIT =>
       /\ Len(p) \in Nat \ {0} /\ p[Len(p)][1] \in a..Len(chain)
       /\ \A e \in Entries(p) : e[1] <= p[Len(p)][1]
       /\ \A l \in a..(p[Len(p)][1] - 1) : E!EventsOf(l) \subseteq Entries(p)
       /\ chain[a] <= PAGE_LIMIT => E!EventsOf(a) \subseteq Entries(p)

\* The first entries of a list of events are such a page.
LEMMA PageOfList ==
  ASSUME chain \in Seq(Nat), NEW a \in Nat \ {0}, NEW q, Lists(q, chain, a, Len(chain))
  PROVE  PageIs(SubSeq(q, 1, E!Min({PAGE_LIMIT, Len(q)})), a)
<1>0. q \in Seq(Nat \X Nat) /\ Len(q) \in Nat /\ PAGE_LIMIT \in Nat \ {0} /\ Len(chain) \in Nat
  BY LenProperties, EventAssumption DEF Lists
<1>1. PICK m \in Nat : m = E!Min({PAGE_LIMIT, Len(q)}) /\ m = IF PAGE_LIMIT <= Len(q) THEN PAGE_LIMIT ELSE Len(q)
  <2>1. PICK u \in Nat, v \in Nat : u = PAGE_LIMIT /\ v = Len(q) BY <1>0
  <2>2. u \in Int /\ v \in Int OBVIOUS
  <2>3. E!Min({u, v}) = IF u <= v THEN u ELSE v BY <2>2, EventMaxMin
  <2> QED BY <2>1, <2>3
<1>2. PICK p : p = SubSeq(q, 1, m) OBVIOUS
<1>3. p \in Seq(Nat \X Nat) /\ Len(p) = m /\ \A i \in 1..m : i \in 1..Len(q) /\ p[i] = q[i]
  <2>1. m <= Len(q) BY <1>0, <1>1
  <2>2. \A i \in 1..m : i \in 1..Len(q) /\ q[i] \in Nat \X Nat BY <1>0, <2>1
  <2>3. p = [i \in 1..m |-> q[i]] BY <1>0, <1>2, <2>2
  <2>4. p \in Seq(Nat \X Nat) /\ Len(p) = m BY <2>2, <2>3
  <2> QED BY <2>2, <2>3, <2>4
<1>4. \A e \in Entries(p) : \E j \in 1..m : e = q[j] /\ j \in 1..Len(q) BY <1>3 DEF Entries
<1>5. \A e \in Entries(p) : e[1] \in a..Len(chain) BY <1>4 DEF Lists
<1>6. \A j \in 1..m : q[j] \in Entries(p) BY <1>3 DEF Entries
<1>7. ASSUME NEW l \in a..Len(chain), NEW e \in E!EventsOf(l)
      PROVE  \E j \in 1..Len(q) : q[j] = e /\ q[j][1] = l
  <2>1. PICK i \in 1..chain[l] : e = <<l, i>> BY DEF E!EventsOf
  <2>2. PICK j \in 1..Len(q) : q[j] = <<l, i>> BY DEF Lists
  <2>3. q[j][1] = l BY <2>2
  <2>4. q[j] = e BY <2>1, <2>2
  <2> QED BY <2>3, <2>4
<1>8. ASSUME Len(p) < PAGE_LIMIT PROVE \A l \in a..Len(chain) : E!EventsOf(l) \subseteq Entries(p)
  <2>1. m = Len(q) BY <1>0, <1>1, <1>3, <1>8
  <2> QED BY <1>6, <1>7, <2>1
<1>9. ASSUME Len(p) >= PAGE_LIMIT
      PROVE  /\ Len(p) \in Nat \ {0} /\ p[Len(p)][1] \in a..Len(chain)
             /\ \A e \in Entries(p) : e[1] <= p[Len(p)][1]
             /\ \A l \in a..(p[Len(p)][1] - 1) : E!EventsOf(l) \subseteq Entries(p)
             /\ chain[a] <= PAGE_LIMIT => E!EventsOf(a) \subseteq Entries(p)
  <2>1. m = PAGE_LIMIT /\ m \in 1..Len(q) /\ m \in 1..m BY <1>0, <1>1, <1>3, <1>9
  <2>2. PICK x : x = p[Len(p)][1] OBVIOUS
  <2>3. x = q[m][1] /\ x \in a..Len(chain) BY <1>3, <2>1, <2>2 DEF Lists
  <2>4. \A j \in 1..m : q[j][1] <= x
    <3> TAKE j \in 1..m
    <3>1. j \in 1..Len(q) /\ j <= m BY <1>3
    <3> QED BY <2>1, <2>3, <3>1 DEF Lists
  <2>5. \A e \in Entries(p) : e[1] <= x BY <1>4, <2>4
  <2>6. ASSUME NEW l \in a..(x - 1) PROVE E!EventsOf(l) \subseteq Entries(p)
    <3> SUFFICES ASSUME NEW e \in E!EventsOf(l) PROVE e \in Entries(p) OBVIOUS
    <3>1. l \in a..Len(chain) /\ l < x
      <4>1. PICK u \in Nat : u = Len(chain) BY <1>0
      <4>2. x \in a..u BY <2>3, <4>1
      <4>3. l \in a..u /\ l < x BY <4>2
      <4> QED BY <4>1, <4>3
    <3>2. PICK j \in 1..Len(q) : q[j] = e /\ q[j][1] = l BY <1>7, <3>1
    <3>3. ~(m <= j)
      <4> SUFFICES ASSUME m <= j PROVE FALSE OBVIOUS
      <4>1. q[m][1] <= q[j][1] BY <2>1 DEF Lists
      <4> QED BY <2>3, <3>1, <3>2, <4>1
    <3>4. j \in 1..m BY <1>0, <2>1, <3>3
    <3> QED BY <1>6, <3>2, <3>4
  <2>7. ASSUME chain[a] <= PAGE_LIMIT PROVE E!EventsOf(a) \subseteq Entries(p)
    <3> SUFFICES ASSUME NEW i \in 1..chain[a] PROVE <<a, i>> \in Entries(p) BY DEF E!EventsOf
    <3>1. a \in 1..Len(chain) /\ a <= Len(chain) BY <1>0, <2>3
    <3>2. chain[a] \in Nat BY <3>1
    <3>3. q[i] = <<a, i>> BY <3>1 DEF Lists
    <3>4. i \in 1..m BY <1>0, <2>1, <2>7, <3>2, SMTT(30)
    <3> QED BY <1>6, <3>3, <3>4
  <2> QED BY <1>3, <2>1, <2>2, <2>3, <2>5, <2>6, <2>7, SMTT(30)
<1> QED BY <1>1, <1>2, <1>3, <1>5, <1>8, <1>9 DEF PageIs

\* What getEvents returns.
LEMMA PageFacts ==
  ASSUME chain \in Seq(Nat), NEW a \in Nat \ {0}, a <= Len(chain) + 1
  PROVE  PageIs(E!Page(a), a)
<1>0. Len(chain) \in Nat BY LenProperties
<1>1. PICK n \in Nat : n = Len(chain) - a + 1 BY <1>0
<1>2. E!Max({0, Len(chain) - a + 1}) = n BY <1>0, <1>1, EventMaxMin
<1> DEFINE ledgers == [k \in 1..n |-> a + k - 1]
           s == [k \in DOMAIN ledgers |-> [i \in 1..chain[ledgers[k]] |-> <<ledgers[k], i>>]]
<1>3. PICK q : q = E!FlattenSeq(s) OBVIOUS
<1>4. E!Page(a) = SubSeq(q, 1, E!Min({PAGE_LIMIT, Len(q)})) BY <1>2, <1>3 DEF E!Page, E!Latest
<1>5. /\ Len(s) = n /\ \A k \in 1..n : s[k] = [i \in 1..chain[a + k - 1] |-> <<a + k - 1, i>>]
      /\ n = 0 => s = <<>>
  OBVIOUS
<1> HIDE DEF s
<1>6. \A l \in a..(a + n - 1) : chain[l] \in Nat
  <2> TAKE l \in a..(a + n - 1)
  <2>1. l \in 1..Len(chain) BY <1>0, <1>1
  <2> QED BY <2>1
<1>7. Lists(q, chain, a, Len(chain))
  <2>1. CASE n = 0
    <3>1. q = <<>> BY <1>3, <1>5, <2>1, FlattenIs
    <3>2. ~(a <= Len(chain)) /\ a..Len(chain) = {} BY <1>0, <1>1, <2>1
    <3>3. q \in Seq(Nat \X Nat) /\ Len(q) = 0 /\ 1..Len(q) = {} BY <3>1
    <3> QED BY <3>2, <3>3 DEF Lists
  <2>2. CASE n # 0
    <3>1. PICK f : IsFlat(f, s, n) /\ q = f[n] BY <1>3, <1>5, <2>2, FlattenIs
    <3>2. \A k \in 1..n : Lists(f[k], chain, a, a + k - 1) BY <1>5, <1>6, <3>1, ListsAll
    <3>3. n \in 1..n /\ a + n - 1 = Len(chain) BY <1>0, <1>1, <2>2
    <3> QED BY <3>1, <3>2, <3>3
  <2> QED BY <2>1, <2>2
<1> QED BY <1>4, <1>7, PageOfList

\* A poll under way.
Polling == [pc : {"fetch", "index", "zadd"}, start : Nat, current : Nat, pages : Nat,
            last : Nat, latest : Nat, page : Seq(Nat \X Nat), full : BOOLEAN]

\* Types, and that what is owed and read lies on the chain.
EventTypesOK ==
  /\ chain \in Seq(0..MaxPerLedger) /\ Len(chain) \in 1..MaxLedgers
  /\ cursor \in 0..(Len(chain) + 1) /\ from \in 0..(Len(chain) + 1)
  /\ indexed \subseteq stored
  /\ poll = E!NoPoll \/ poll \in Polling

\* The events of a ledger are in the index, with the exceptions the code makes.
Covered(l) == chain[l] <= PAGE_LIMIT /\ l \notin cut => E!EventsOf(l) \subseteq indexed \cup torn
CoveredIn(a, b) == \A l \in a..b : Covered(l)

\* The property: from where indexing is owed up to the cursor.
CursorRight == from # 0 => cursor # 0 /\ CoveredIn(from, cursor - 1)

\* A stored event is in the index, but for the one whose ZADD is under way and those
\* whose ZADD failed.
StoredIsIndexed ==
  stored \subseteq indexed \cup torn \cup (IF poll.pc = "zadd" THEN {Head(poll.page)} ELSE {})

\* A poll has covered the ledgers before the one it reads from, and what was owed
\* before it began is covered too: the cursor it will set is right whatever watch and
\* unwatch do to the present one.
ReadSoFar ==
  poll.pc # "idle" =>
    /\ poll.start \in 1..poll.current /\ poll.current \in 1..(Len(chain) + 1)
    /\ from # 0 => CoveredIn(from, poll.start - 1)
    /\ CoveredIn(poll.start, poll.current - 1)

\* Before a page is read the last ledger seen is the one to read from, or none.
Fetching == poll.pc = "fetch" => poll.last \in {0, poll.current} /\ poll.last <= Len(chain)

\* The events of a ledger are in the index or wait in the page.
Coming(l) == E!EventsOf(l) \subseteq indexed \cup torn \cup Entries(poll.page)

\* A page that is not full has all events of its ledgers.
WholePage == \A l \in poll.current..poll.latest : Coming(l)

\* A full page broke off in ledger x: the ledgers before it are complete, and so is x
\* itself if the page began with it and a page can hold it.
BreaksIn(x) ==
  /\ x \in poll.current..poll.latest /\ poll.last <= x
  /\ \A e \in Entries(poll.page) : e[1] <= x
  /\ poll.page = <<>> => poll.last = x
  /\ poll.page # <<>> => poll.page[Len(poll.page)][1] = x
  /\ \A l \in poll.current..(x - 1) : Coming(l)
  /\ x = poll.current /\ chain[x] <= PAGE_LIMIT => Coming(x)

\* What is known of a page while its events are indexed.
Indexing ==
  poll.pc \in {"index", "zadd"} =>
    /\ poll.latest <= Len(chain) /\ poll.last <= poll.latest
    /\ \A e \in Entries(poll.page) : e[1] \in poll.current..poll.latest
    /\ poll.pc = "zadd" => poll.page # <<>> /\ Head(poll.page) \in stored
    /\ ~poll.full => WholePage
    /\ poll.full => \E x \in Nat : BreaksIn(x)

\* The inductive invariant of the event indexer.
EventInv == EventTypesOK /\ CursorRight /\ StoredIsIndexed /\ ReadSoFar /\ Fetching /\ Indexing

\* Types in a form the proofs use.
LEMMA EventFacts ==
  ASSUME EventTypesOK
  PROVE  /\ chain \in Seq(Nat) /\ Len(chain) \in Nat \ {0} /\ \A l \in 1..Len(chain) : chain[l] \in Nat
         /\ cursor \in Nat /\ from \in Nat
         /\ poll.pc = "idle" <=> poll = E!NoPoll
         /\ poll.pc # "idle" <=> poll \in Polling
         /\ poll.pc \in {"idle", "fetch", "index", "zadd"}
<1>1. MaxPerLedger \in Nat /\ MaxLedgers \in Nat BY EventAssumption
<1>2. 0..MaxPerLedger \subseteq Nat BY <1>1
<1>3. Len(chain) \in Nat \ {0} BY <1>1 DEF EventTypesOK
<1>4. chain \in Seq(0..MaxPerLedger) BY DEF EventTypesOK
<1>5. chain \in Seq(Nat) /\ \A l \in 1..Len(chain) : chain[l] \in Nat
  <2>1. PICK T : T = 0..MaxPerLedger OBVIOUS
  <2>2. T \subseteq Nat /\ chain \in Seq(T) BY <1>2, <1>4, <2>1
  <2>3. PICK n \in Nat : n = Len(chain) BY <1>3
  <2>4. chain \in [1..n -> T] BY <2>2, <2>3, LenProperties
  <2>5. chain \in [1..n -> Nat] BY <2>2, <2>4
  <2>6. chain \in Seq(Nat) BY <2>5
  <2> QED BY <2>3, <2>5, <2>6
<1>6. cursor \in Nat /\ from \in Nat BY <1>3 DEF EventTypesOK
<1>7. E!NoPoll.pc = "idle" BY DEF E!NoPoll
<1>8. poll \in Polling => poll.pc \in {"fetch", "index", "zadd"} BY DEF Polling
<1>9. poll = E!NoPoll \/ poll \in Polling BY DEF EventTypesOK
<1> QED BY <1>3, <1>4, <1>5, <1>6, <1>7, <1>8, <1>9

\* What is covered stays covered: ledgers do not change and the index only grows.
LEMMA StaysCovered ==
  ASSUME EventTypesOK, NEW l \in 1..Len(chain), chain'[l] = chain[l],
         indexed \cup torn \subseteq indexed' \cup torn', cut \subseteq cut', Covered(l)
  PROVE  Covered(l)'
<1>1. E!EventsOf(l)' = E!EventsOf(l) BY DEF E!EventsOf
<1> QED BY <1>1 DEF Covered

\* The same for several ledgers.
LEMMA StayCovered ==
  ASSUME EventTypesOK, NEW a \in Nat, NEW b \in Int, a # 0, b <= Len(chain), \A l \in 1..Len(chain) : chain'[l] = chain[l],
         indexed \cup torn \subseteq indexed' \cup torn', cut \subseteq cut', CoveredIn(a, b)
  PROVE  CoveredIn(a, b)'
<1>1. Len(chain) \in Nat BY EventFacts
<1> SUFFICES ASSUME NEW l \in a..b PROVE Covered(l)'
  BY DEF CoveredIn
<1>2. l \in 1..Len(chain) BY <1>1
<1>3. Covered(l) BY DEF CoveredIn
<1> QED BY <1>2, <1>3, StaysCovered

\* A step that is not about the cursor keeps what was covered before it.
LEMMA CursorStays ==
  ASSUME EventInv, \A l \in 1..Len(chain) : chain'[l] = chain[l],
         indexed \cup torn \subseteq indexed' \cup torn', cut \subseteq cut', UNCHANGED <<cursor, from>>
  PROVE  CursorRight'
<1>1. EventTypesOK /\ CursorRight BY DEF EventInv
<1>2. cursor \in Nat /\ from \in Nat /\ Len(chain) \in Nat BY <1>1, EventFacts
<1>3. cursor - 1 \in Int /\ cursor - 1 <= Len(chain) BY <1>1, <1>2 DEF EventTypesOK
<1>4. PICK a \in Nat, b \in Int : a = from /\ b = cursor - 1 BY <1>2, <1>3
<1>5. ASSUME from # 0 PROVE cursor # 0 /\ CoveredIn(a, b)'
  <2>1. cursor # 0 /\ CoveredIn(a, b) BY <1>1, <1>4, <1>5 DEF CursorRight
  <2> QED BY <1>1, <1>3, <1>4, <1>5, <2>1, StayCovered
<1> QED BY <1>4, <1>5 DEF CursorRight, CoveredIn, Covered

\* And so does what a poll has read.
LEMMA ReadStays ==
  ASSUME EventInv, \A l \in 1..Len(chain) : chain'[l] = chain[l], Len(chain') \in Nat, Len(chain') >= Len(chain),
         indexed \cup torn \subseteq indexed' \cup torn', cut \subseteq cut', from' = from,
         poll.pc # "idle", poll'.start = poll.start, poll'.current = poll.current
  PROVE  ReadSoFar'
<1>1. EventTypesOK /\ ReadSoFar BY DEF EventInv
<1>2. PICK a \in Nat, s \in Nat, c \in Nat : a = from /\ s = poll.start /\ c = poll.current
  BY <1>1, EventFacts DEF Polling
<1>3. Len(chain) \in Nat BY <1>1, EventFacts
<1>4. s \in 1..c /\ c \in 1..(Len(chain) + 1) /\ (a # 0 => CoveredIn(a, s - 1)) /\ CoveredIn(s, c - 1)
  BY <1>1, <1>2 DEF ReadSoFar
<1>5. s # 0 /\ s - 1 \in Int /\ c - 1 \in Int /\ s - 1 <= Len(chain) /\ c - 1 <= Len(chain) BY <1>3, <1>4
<1>6. a # 0 => CoveredIn(a, s - 1)' BY <1>1, <1>4, <1>5, StayCovered
<1>7. CoveredIn(s, c - 1)' BY <1>1, <1>4, <1>5, StayCovered
<1>8. c \in 1..(Len(chain') + 1) BY <1>3, <1>4
<1> QED BY <1>2, <1>4, <1>6, <1>7, <1>8 DEF ReadSoFar, CoveredIn, Covered

\* What is known of a page stays known while it is not touched.
LEMMA PageStays ==
  ASSUME EventInv, \A l \in 1..Len(chain) : chain'[l] = chain[l], Len(chain') \in Nat, Len(chain') >= Len(chain),
         indexed \cup torn \subseteq indexed' \cup torn',
         poll.pc \in {"index", "zadd"}, poll'.current = poll.current, poll'.latest = poll.latest,
         poll'.last = poll.last, poll'.page = poll.page, poll'.full = poll.full,
         poll'.pc = "zadd" => poll.page # <<>> /\ Head(poll.page) \in stored'
  PROVE  Indexing'
<1>1. EventTypesOK /\ ReadSoFar /\ Indexing BY DEF EventInv
<1>2. poll \in Polling /\ poll.pc # "idle" /\ Len(chain) \in Nat BY <1>1, EventFacts
<1>3. PICK c \in Nat, t \in Nat, z \in Nat, p \in Seq(Nat \X Nat), w \in BOOLEAN :
         c = poll.current /\ t = poll.latest /\ z = poll.last /\ p = poll.page /\ w = poll.full
  BY <1>2 DEF Polling
<1>4. c \in 1..(Len(chain) + 1) BY <1>1, <1>2, <1>3 DEF ReadSoFar
<1>5. /\ t <= Len(chain) /\ z <= t /\ \A e \in Entries(p) : e[1] \in c..t
      /\ ~w => WholePage
      /\ w => \E x \in Nat : BreaksIn(x)
  BY <1>1, <1>3 DEF Indexing
<1>6. t <= Len(chain') BY <1>2, <1>5
<1>7. ASSUME NEW l \in c..t, Coming(l) PROVE Coming(l)'
  <2>1. l \in 1..Len(chain) BY <1>2, <1>4, <1>5
  <2>2. E!EventsOf(l)' = E!EventsOf(l) BY <2>1 DEF E!EventsOf
  <2> QED BY <1>7, <2>2 DEF Coming
<1>8. ASSUME ~w PROVE WholePage'
  <2>1. \A l \in c..t : Coming(l) BY <1>3, <1>5, <1>8 DEF WholePage
  <2>2. \A l \in c..t : Coming(l)' BY <1>7, <2>1
  <2> QED BY <1>3, <2>2 DEF WholePage
<1>9. ASSUME w PROVE \E x \in Nat : BreaksIn(x)'
  <2>1. PICK x \in Nat : BreaksIn(x) BY <1>5, <1>9
  <2>2. x \in c..t /\ c \in c..t BY <1>3, <2>1 DEF BreaksIn
  <2>3. \A l \in c..(x - 1) : Coming(l)'
    <3> TAKE l \in c..(x - 1)
    <3>1. l \in c..t BY <2>2
    <3>2. Coming(l) BY <1>3, <2>1 DEF BreaksIn
    <3> QED BY <1>7, <3>1, <3>2
  <2>4. x \in 1..Len(chain) /\ chain'[x] = chain[x] BY <1>2, <1>4, <1>5, <2>2
  <2>5. x = c /\ chain'[x] <= PAGE_LIMIT => Coming(x)' BY <1>3, <1>7, <2>1, <2>2, <2>4 DEF BreaksIn
  <2>6. BreaksIn(x)'
    <3>1. /\ x \in c..t /\ z <= x /\ \A e \in Entries(p) : e[1] <= x
          /\ p = <<>> => z = x
          /\ p # <<>> => p[Len(p)][1] = x
      BY <1>3, <2>1 DEF BreaksIn
    <3> QED BY <1>3, <2>3, <2>5, <3>1 DEF BreaksIn
  <2> QED BY <2>6
<1> QED BY <1>3, <1>5, <1>6, <1>8, <1>9 DEF Indexing

\* A step that leaves the poll, the cursor and Redis alone but for what it adds.
LEMMA PollStays ==
  ASSUME EventInv, \A l \in 1..Len(chain) : chain'[l] = chain[l], Len(chain') \in Nat, Len(chain') >= Len(chain),
         UNCHANGED <<poll, stored, indexed, torn>>
  PROVE  Fetching' /\ Indexing' /\ StoredIsIndexed'
<1>1. EventTypesOK /\ Fetching /\ StoredIsIndexed /\ Indexing BY DEF EventInv
<1>2. StoredIsIndexed' BY <1>1 DEF StoredIsIndexed
<1>3. Len(chain) \in Nat BY <1>1, EventFacts
<1>4. Fetching'
  <2> SUFFICES ASSUME poll.pc = "fetch" PROVE poll.last \in {0, poll.current} /\ poll.last <= Len(chain')
    BY DEF Fetching
  <2>1. poll.last \in {0, poll.current} /\ poll.last <= Len(chain) BY <1>1 DEF Fetching
  <2>2. poll.last \in Nat BY <1>1, EventFacts DEF Polling
  <2> QED BY <1>3, <2>1, <2>2
<1>5. Indexing'
  <2>1. CASE poll.pc \in {"index", "zadd"}
    <3>1. poll.pc = "zadd" => poll.page # <<>> /\ Head(poll.page) \in stored BY <1>1 DEF Indexing
    <3> QED BY <2>1, <3>1, PageStays
  <2>2. CASE poll.pc \notin {"index", "zadd"} BY <2>2 DEF Indexing
  <2> QED BY <2>1, <2>2
<1> QED BY <1>2, <1>4, <1>5

\* A ledger closes.
LEMMA CloseLedgerInv == ASSUME EventInv, NEW n \in 0..MaxPerLedger, E!CloseLedger(n) PROVE EventInv'
<1>1. EventTypesOK BY DEF EventInv
<1>2. /\ Len(chain) < MaxLedgers /\ chain' = Append(chain, n)
      /\ UNCHANGED <<cursor, poll, stored, indexed, torn, from, cut>>
  BY DEF E!CloseLedger, E!redisVars
<1>3. chain \in Seq(0..MaxPerLedger) /\ Len(chain) \in Nat \ {0} BY <1>1, EventFacts DEF EventTypesOK
<1>4. /\ chain' \in Seq(0..MaxPerLedger) /\ Len(chain') = Len(chain) + 1
      /\ \A l \in 1..Len(chain) : chain'[l] = chain[l]
  BY <1>2, <1>3
<1>5. Len(chain') \in Nat /\ Len(chain') >= Len(chain) /\ Len(chain') \in 1..MaxLedgers
  BY <1>2, <1>3, <1>4, EventAssumption
<1>6. cursor' \in 0..(Len(chain') + 1) /\ from' \in 0..(Len(chain') + 1)
  BY <1>1, <1>2, <1>3, <1>4 DEF EventTypesOK
<1>7. EventTypesOK' BY <1>1, <1>2, <1>4, <1>5, <1>6 DEF EventTypesOK
<1>8. CursorRight' BY <1>2, <1>4, CursorStays
<1>9. ReadSoFar'
  <2>1. CASE poll.pc = "idle" BY <1>2, <2>1 DEF ReadSoFar
  <2>2. CASE poll.pc # "idle" BY <1>2, <1>4, <1>5, <2>2, ReadStays
  <2> QED BY <2>1, <2>2
<1>10. Fetching' /\ Indexing' /\ StoredIsIndexed' BY <1>2, <1>4, <1>5, PollStays
<1> QED BY <1>7, <1>8, <1>9, <1>10 DEF EventInv

\* watch: the cursor moves back, and what is owed with it.
LEMMA SetStartInv ==
  ASSUME EventInv, NEW s \in 1..Len(chain), E!SetStart(s), UNCHANGED <<chain, poll, stored, indexed, torn, cut>>
  PROVE  EventInv'
<1>1. EventTypesOK /\ CursorRight /\ ReadSoFar BY DEF EventInv
<1>2. Len(chain) \in Nat /\ cursor \in Nat /\ from \in Nat /\ s \in Nat /\ s # 0 BY <1>1, EventFacts
<1>3. PICK g \in 1..(Len(chain) + 1) :
         /\ s <= g
         /\ poll.pc = "idle" => g = s
         /\ poll.pc # "idle" => poll.start <= g
         /\ g = IF poll.pc = "idle" THEN s ELSE E!Max({s, poll.start})
  <2>1. CASE poll.pc = "idle" BY <1>2, <2>1
  <2>2. CASE poll.pc # "idle"
    <3>1. poll.start \in Nat /\ poll.current \in Nat BY <1>1, <2>2, EventFacts DEF Polling
    <3>2. poll.start \in 1..poll.current /\ poll.current \in 1..(Len(chain) + 1) BY <1>1, <2>2 DEF ReadSoFar
    <3>3. PICK b \in 1..(Len(chain) + 1) : b = poll.start BY <1>2, <3>1, <3>2
    <3>4. E!Max({s, b}) = IF s >= b THEN s ELSE b BY <1>2, <3>3, EventMaxMin
    <3> QED BY <1>2, <2>2, <3>3, <3>4
  <2> QED BY <2>1, <2>2
<1>4. cursor' = IF cursor = 0 \/ s < cursor THEN s ELSE cursor BY DEF E!SetStart
<1>5. from' = IF from = 0 THEN g ELSE IF from <= g THEN from ELSE g
  <2>1. PICK a \in Nat : a = from BY <1>2
  <2>2. E!Min({a, g}) = IF a <= g THEN a ELSE g
    <3>1. g \in Int BY <1>2
    <3> QED BY <3>1, EventMaxMin
  <2> QED BY <1>3, <2>1, <2>2 DEF E!SetStart
<1>6. cursor' \in 1..(Len(chain) + 1) /\ cursor' <= s /\ (cursor # 0 => cursor' <= cursor)
  BY <1>1, <1>2, <1>4 DEF EventTypesOK
<1>7. from' \in 1..(Len(chain) + 1) /\ (from' = g \/ (from # 0 /\ from' = from))
  BY <1>1, <1>2, <1>5 DEF EventTypesOK
<1>8. EventTypesOK' BY <1>1, <1>6, <1>7 DEF EventTypesOK
<1>9. CursorRight'
  <2>0. PICK u \in Nat, v \in Nat : u = from' /\ v = cursor' /\ v # 0 BY <1>2, <1>6, <1>7
  <2>1. ASSUME NEW l \in u..(v - 1) PROVE Covered(l)
    <3>1. u # g
      <4>1. v <= s /\ s <= g /\ g \in Nat BY <1>2, <1>3, <1>6, <2>0
      <4> QED BY <1>2, <4>1
    <3>2. u = from /\ from # 0 BY <1>7, <2>0, <3>1
    <3>3. cursor # 0 /\ CoveredIn(from, cursor - 1) BY <1>1, <3>2 DEF CursorRight
    <3>4. v <= cursor BY <1>6, <2>0, <3>3
    <3>5. l \in u..(cursor - 1) BY <1>2, <3>4
    <3> QED BY <3>2, <3>3, <3>5 DEF CoveredIn
  <2>2. \A l \in u..(v - 1) : Covered(l)' BY <2>1 DEF Covered, E!EventsOf
  <2> QED BY <2>0, <2>2 DEF CursorRight, CoveredIn
<1>10. ReadSoFar'
  <2> SUFFICES ASSUME poll.pc # "idle" PROVE ReadSoFar'
    BY DEF ReadSoFar
  <2>1. poll.start \in Nat BY <1>1, EventFacts DEF Polling
  <2>2. /\ poll.start \in 1..poll.current /\ poll.current \in 1..(Len(chain) + 1)
        /\ from # 0 => CoveredIn(from, poll.start - 1)
        /\ CoveredIn(poll.start, poll.current - 1)
    BY <1>1 DEF ReadSoFar
  <2>3. ASSUME NEW l \in from'..(poll.start - 1) PROVE Covered(l)
    <3>1. from' # g BY <1>3, <2>1
    <3>2. from' = from /\ from # 0 BY <1>7, <3>1
    <3> QED BY <2>2, <3>2 DEF CoveredIn
  <2>4. \A l \in from'..(poll.start - 1) : Covered(l)' BY <2>3 DEF Covered, E!EventsOf
  <2>5. \A l \in poll.start..(poll.current - 1) : Covered(l)' BY <2>2 DEF CoveredIn, Covered, E!EventsOf
  <2> QED BY <2>2, <2>4, <2>5 DEF ReadSoFar, CoveredIn
<1>11. Fetching' /\ Indexing' /\ StoredIsIndexed' BY <1>2, PollStays
<1> QED BY <1>8, <1>9, <1>10, <1>11 DEF EventInv

\* unwatch: nothing is owed any more.
LEMMA UnwatchInv ==
  ASSUME EventInv, cursor' = 0, from' = 0, UNCHANGED <<chain, poll, stored, indexed, torn, cut>>
  PROVE  EventInv'
<1>1. EventTypesOK /\ ReadSoFar BY DEF EventInv
<1>2. Len(chain) \in Nat BY <1>1, EventFacts
<1>3. EventTypesOK' BY <1>1, <1>2 DEF EventTypesOK
<1>4. CursorRight' BY DEF CursorRight
<1>5. ReadSoFar' BY <1>1 DEF ReadSoFar, CoveredIn, Covered, E!EventsOf
<1>6. Fetching' /\ Indexing' /\ StoredIsIndexed' BY <1>2, PollStays
<1> QED BY <1>3, <1>4, <1>5, <1>6 DEF EventInv

\* A poll begins at the cursor.
LEMMA PollContractInv == ASSUME EventInv, E!PollContract PROVE EventInv'
<1>1. EventTypesOK /\ CursorRight /\ StoredIsIndexed BY DEF EventInv
<1>2. Len(chain) \in Nat \ {0} /\ cursor \in Nat /\ from \in Nat BY <1>1, EventFacts
<1>3. PICK s \in 1..(Len(chain) + 1) : s = IF cursor = 0 THEN Len(chain) ELSE cursor
  BY <1>1, <1>2 DEF EventTypesOK
<1>4. /\ poll.pc = "idle" /\ UNCHANGED <<chain, cursor, stored, indexed, torn, from, cut>>
      /\ poll' = [pc |-> "fetch", start |-> s, current |-> s, pages |-> 0,
                  last |-> 0, latest |-> s, page |-> <<>>, full |-> FALSE]
  BY <1>3 DEF E!PollContract, E!Latest, E!redisVars
<1>5. poll' \in Polling
  <2>1. <<>> \in Seq(Nat \X Nat) /\ s \in Nat BY <1>2
  <2> QED BY <1>4, <2>1 DEF Polling
<1>6. EventTypesOK' BY <1>1, <1>4, <1>5 DEF EventTypesOK
<1>7. CursorRight' BY <1>4, CursorStays
<1>8. StoredIsIndexed' BY <1>1, <1>4 DEF StoredIsIndexed
<1>9. poll'.pc = "fetch" /\ poll'.start = s /\ poll'.current = s /\ poll'.last = 0 BY <1>4
<1>10. ReadSoFar'
  <2>1. \A l \in s..(s - 1) : FALSE BY <1>2
  <2>2. ASSUME from # 0 PROVE \A l \in from..(s - 1) : Covered(l)'
    <3>1. cursor # 0 /\ CoveredIn(from, cursor - 1) BY <1>1, <2>2 DEF CursorRight
    <3>2. s = cursor BY <1>3, <3>1
    <3> QED BY <1>4, <3>1, <3>2 DEF CoveredIn, Covered, E!EventsOf
  <2>3. s \in 1..s BY <1>2
  <2> QED BY <1>4, <1>9, <2>1, <2>2, <2>3 DEF ReadSoFar, CoveredIn
<1>11. Fetching' BY <1>2, <1>4, <1>9 DEF Fetching
<1>12. Indexing' BY <1>9 DEF Indexing
<1> QED BY <1>6, <1>7, <1>8, <1>10, <1>11, <1>12 DEF EventInv

\* A page is read.
LEMMA GetEventsInv == ASSUME EventInv, E!GetEvents PROVE EventInv'
<1>1. EventTypesOK /\ CursorRight /\ StoredIsIndexed /\ ReadSoFar /\ Fetching BY DEF EventInv
<1>2. /\ poll.pc = "fetch" /\ UNCHANGED <<chain, cursor, stored, indexed, torn, from, cut>>
      /\ poll' = [poll EXCEPT !.pc = "index", !.latest = Len(chain), !.page = E!Page(poll.current),
                              !.full = Len(E!Page(poll.current)) >= PAGE_LIMIT]
  BY DEF E!GetEvents, E!Latest, E!redisVars
<1>3. poll \in Polling /\ chain \in Seq(Nat) /\ Len(chain) \in Nat \ {0} BY <1>1, <1>2, EventFacts
<1>4. PICK c \in Nat \ {0} : c = poll.current /\ c <= Len(chain) + 1 BY <1>1, <1>2, <1>3 DEF ReadSoFar
<1>5. PICK p : p = E!Page(c) OBVIOUS
<1>6. PageIs(p, c) BY <1>3, <1>4, <1>5, PageFacts
<1>7. p \in Seq(Nat \X Nat) /\ Len(p) \in Nat /\ PAGE_LIMIT \in Nat BY <1>6, LenProperties, EventAssumption DEF PageIs
<1>8. PICK w \in BOOLEAN : w = (Len(p) >= PAGE_LIMIT) /\ (w <=> Len(p) >= PAGE_LIMIT)
  <2>1. PICK u \in Nat, v \in Nat : u = Len(p) /\ v = PAGE_LIMIT BY <1>7
  <2>2. (u >= v) \in BOOLEAN OBVIOUS
  <2> QED BY <2>1, <2>2
<1>9. poll' = [poll EXCEPT !.pc = "index", !.latest = Len(chain), !.page = p, !.full = w] BY <1>2, <1>4, <1>5, <1>8
<1>10. /\ poll' \in Polling /\ poll'.pc = "index" /\ poll'.start = poll.start /\ poll'.current = c
       /\ poll'.last = poll.last /\ poll'.latest = Len(chain) /\ poll'.page = p /\ poll'.full = w
  BY <1>3, <1>4, <1>7, <1>9 DEF Polling
<1>11. EventTypesOK' BY <1>1, <1>2, <1>10 DEF EventTypesOK
<1>12. CursorRight' BY <1>2, CursorStays
<1>13. StoredIsIndexed' BY <1>1, <1>2, <1>10 DEF StoredIsIndexed
<1>14. ReadSoFar' BY <1>2, <1>3, <1>4, <1>10, ReadStays
<1>15. Fetching' BY <1>10 DEF Fetching
<1>16. PICK z \in Nat : z = poll.last /\ z \in {0, c} /\ z <= Len(chain)
  BY <1>1, <1>2, <1>3, <1>4 DEF Polling, Fetching
<1>17. \A e \in Entries(p) : e[1] \in c..Len(chain) BY <1>6 DEF PageIs
<1>18. ASSUME NEW l, E!EventsOf(l) \subseteq Entries(p) PROVE Coming(l)'
  <2>1. E!EventsOf(l)' = E!EventsOf(l) BY <1>2 DEF E!EventsOf
  <2> QED BY <1>10, <1>18, <2>1 DEF Coming
<1>19. ASSUME ~w PROVE WholePage'
  <2>1. Len(p) < PAGE_LIMIT BY <1>7, <1>8, <1>19
  <2>2. \A l \in c..Len(chain) : E!EventsOf(l) \subseteq Entries(p) BY <1>6, <2>1 DEF PageIs
  <2>3. \A l \in c..Len(chain) : Coming(l)' BY <1>18, <2>2
  <2> QED BY <1>2, <1>10, <2>3 DEF WholePage
<1>20. ASSUME w PROVE \E x \in Nat : BreaksIn(x)'
  <2>1. /\ Len(p) \in Nat \ {0} /\ p[Len(p)][1] \in c..Len(chain)
        /\ \A e \in Entries(p) : e[1] <= p[Len(p)][1]
        /\ \A l \in c..(p[Len(p)][1] - 1) : E!EventsOf(l) \subseteq Entries(p)
        /\ chain[c] <= PAGE_LIMIT => E!EventsOf(c) \subseteq Entries(p)
    BY <1>6, <1>8, <1>20 DEF PageIs
  <2>2. PICK x \in c..Len(chain) : x = p[Len(p)][1] BY <2>1
  <2>3. x \in Nat /\ z <= x BY <1>3, <1>16
  <2>4. \A l \in c..(x - 1) : Coming(l)' BY <1>18, <2>1, <2>2
  <2>5. x = c /\ chain[x] <= PAGE_LIMIT => Coming(x)' BY <1>18, <2>1
  <2>6. p # <<>> BY <2>1
  <2>7. BreaksIn(x)' BY <1>2, <1>10, <1>16, <2>1, <2>2, <2>3, <2>4, <2>5, <2>6 DEF BreaksIn
  <2> QED BY <2>3, <2>7
<1>21. Indexing'
  <2>1. poll'.latest <= Len(chain') /\ poll'.last <= poll'.latest BY <1>2, <1>3, <1>10, <1>16
  <2>2. \A e \in Entries(poll'.page) : e[1] \in poll'.current..poll'.latest BY <1>10, <1>17
  <2> QED BY <1>10, <1>19, <1>20, <2>1, <2>2 DEF Indexing
<1> QED BY <1>11, <1>12, <1>13, <1>14, <1>15, <1>21 DEF EventInv

\* The first event of the page is done with: it is in the index, or was torn.
LEMMA EventDoneInv ==
  ASSUME EventInv, poll.pc \in {"index", "zadd"}, poll.page # <<>>,
         poll' = [poll EXCEPT !.pc = "index", !.page = Tail(poll.page), !.last = E!Max({poll.last, Head(poll.page)[1]})],
         Head(poll.page) \in indexed' \cup torn, indexed \subseteq indexed', indexed' \subseteq stored,
         stored \subseteq indexed' \cup torn, UNCHANGED <<chain, cursor, stored, torn, from, cut>>
  PROVE  EventInv'
<1>1. EventTypesOK /\ CursorRight /\ ReadSoFar /\ Indexing BY DEF EventInv
<1>2. poll \in Polling /\ poll.pc # "idle" /\ chain \in Seq(Nat) /\ Len(chain) \in Nat \ {0} BY <1>1, EventFacts
<1>3. PICK c \in Nat, t \in Nat, z \in Nat, p \in Seq(Nat \X Nat), w \in BOOLEAN :
         c = poll.current /\ t = poll.latest /\ z = poll.last /\ p = poll.page /\ w = poll.full
  BY <1>2 DEF Polling
<1>4. PICK e : e = Head(p) OBVIOUS
<1>5. PICK r : r = Tail(p) OBVIOUS
<1>6. /\ r \in Seq(Nat \X Nat) /\ Entries(p) = {e} \cup Entries(r) /\ Len(p) \in Nat \ {0} /\ Len(r) = Len(p) - 1
      /\ e = p[1] /\ \A i \in 1..Len(r) : r[i] = p[i + 1]
  BY <1>3, <1>4, <1>5, EntriesOfTail, HeadTailProperties, EmptySeq, LenProperties
<1>7. e \in Nat \X Nat /\ e \in Entries(p) BY <1>3, <1>6
<1>8. PICK y \in Nat : y = e[1] BY <1>7
<1>9. PICK v \in Nat : v = E!Max({z, y}) /\ v = (IF z >= y THEN z ELSE y) BY EventMaxMin
<1>10. poll' = [poll EXCEPT !.pc = "index", !.page = r, !.last = v] BY <1>3, <1>4, <1>5, <1>8, <1>9
<1>11. /\ poll' \in Polling /\ poll'.pc = "index" /\ poll'.start = poll.start /\ poll'.current = c
       /\ poll'.last = v /\ poll'.latest = t /\ poll'.page = r /\ poll'.full = w
  BY <1>2, <1>3, <1>6, <1>10 DEF Polling
<1>12. EventTypesOK' BY <1>1, <1>11 DEF EventTypesOK
<1>13. CursorRight' BY CursorStays
<1>14. StoredIsIndexed' BY <1>11 DEF StoredIsIndexed
<1>15. ReadSoFar' BY <1>2, <1>3, <1>11, ReadStays
<1>16. Fetching' BY <1>11 DEF Fetching
<1>17. /\ t <= Len(chain) /\ z <= t /\ \A d \in Entries(p) : d[1] \in c..t
       /\ ~w => WholePage
       /\ w => \E x \in Nat : BreaksIn(x)
  BY <1>1, <1>3 DEF Indexing
<1>18. y \in c..t /\ v <= t BY <1>7, <1>8, <1>9, <1>17
<1>19. \A d \in Entries(r) : d[1] \in c..t BY <1>6, <1>17
<1>20. ASSUME NEW l, Coming(l) PROVE Coming(l)'
  <2>1. E!EventsOf(l)' = E!EventsOf(l) BY DEF E!EventsOf
  <2>2. E!EventsOf(l) \subseteq indexed \cup torn \cup Entries(p) BY <1>3, <1>20 DEF Coming
  <2>3. e \in indexed' \cup torn BY <1>3, <1>4
  <2>4. E!EventsOf(l) \subseteq indexed' \cup torn \cup Entries(r) BY <1>6, <2>2, <2>3
  <2> QED BY <1>11, <2>1, <2>4 DEF Coming
<1>21. ASSUME ~w PROVE WholePage'
  <2>1. \A l \in c..t : Coming(l) BY <1>3, <1>17, <1>21 DEF WholePage
  <2>2. \A l \in c..t : Coming(l)' BY <1>20, <2>1
  <2> QED BY <1>11, <2>2 DEF WholePage
<1>22. ASSUME w PROVE \E x \in Nat : BreaksIn(x)'
  <2>1. PICK x \in Nat : BreaksIn(x) BY <1>17, <1>22
  <2>2. /\ x \in c..t /\ z <= x /\ \A d \in Entries(p) : d[1] <= x
        /\ p[Len(p)][1] = x
        /\ \A l \in c..(x - 1) : Coming(l)
        /\ x = c /\ chain[x] <= PAGE_LIMIT => Coming(x)
    BY <1>3, <2>1 DEF BreaksIn
  <2>3. v <= x BY <1>7, <1>8, <1>9, <2>2
  <2>4. ASSUME r = <<>> PROVE v = x
    <3>1. Len(p) = 1 BY <1>6, <2>4
    <3>2. y = x BY <1>6, <1>8, <2>2, <3>1
    <3> QED BY <1>9, <2>2, <3>2
  <2>5. ASSUME r # <<>> PROVE r[Len(r)][1] = x
    <3>1. Len(r) \in 1..Len(r) /\ Len(r) + 1 = Len(p) BY <1>6, <2>5, EmptySeq
    <3> QED BY <1>6, <2>2, <3>1
  <2>6. \A d \in Entries(r) : d[1] <= x BY <1>6, <2>2
  <2>7. \A l \in c..(x - 1) : Coming(l)' BY <1>20, <2>2
  <2>8. x = c /\ chain[x] <= PAGE_LIMIT => Coming(x)' BY <1>20, <2>2
  <2>9. BreaksIn(x)' BY <1>11, <2>2, <2>3, <2>4, <2>5, <2>6, <2>7, <2>8 DEF BreaksIn
  <2> QED BY <2>9
<1>23. Indexing' BY <1>11, <1>17, <1>18, <1>19, <1>21, <1>22 DEF Indexing
<1> QED BY <1>12, <1>13, <1>14, <1>15, <1>16, <1>23 DEF EventInv

\* indexEvent: an event that is there is skipped, a new one is stored.
LEMMA SetEventInv == ASSUME EventInv, E!SetEvent PROVE EventInv'
<1>1. EventTypesOK /\ StoredIsIndexed /\ ReadSoFar /\ Indexing BY DEF EventInv
<1>2. /\ poll.pc = "index" /\ poll.page # <<>>
      /\ UNCHANGED <<chain, cursor, indexed, torn, from, cut>>
  BY DEF E!SetEvent
<1>3. stored \subseteq indexed \cup torn /\ indexed \subseteq stored BY <1>1, <1>2 DEF StoredIsIndexed, EventTypesOK
<1>4. CASE Head(poll.page) \in stored
  <2>1. /\ stored' = stored
        /\ poll' = [poll EXCEPT !.page = Tail(poll.page), !.last = E!Max({poll.last, Head(poll.page)[1]})]
    BY <1>4 DEF E!SetEvent
  <2>2. poll \in Polling BY <1>1, <1>2, EventFacts
  <2>3. PICK r, v : r = Tail(poll.page) /\ v = E!Max({poll.last, Head(poll.page)[1]}) OBVIOUS
  <2>4. [poll EXCEPT !.page = r, !.last = v] = [poll EXCEPT !.pc = "index", !.page = r, !.last = v]
    BY <1>2, <2>2 DEF Polling
  <2>5. poll' = [poll EXCEPT !.pc = "index", !.page = Tail(poll.page), !.last = E!Max({poll.last, Head(poll.page)[1]})]
    BY <2>1, <2>3, <2>4
  <2>6. Head(poll.page) \in indexed' \cup torn BY <1>2, <1>3, <1>4
  <2> QED BY <1>2, <1>3, <2>1, <2>5, <2>6, EventDoneInv
<1>5. CASE Head(poll.page) \notin stored
  <2>1. stored' = stored \cup {Head(poll.page)} /\ poll' = [poll EXCEPT !.pc = "zadd"]
    BY <1>5 DEF E!SetEvent
  <2>2. poll \in Polling /\ Len(chain) \in Nat BY <1>1, <1>2, EventFacts
  <2>3. /\ poll' \in Polling /\ poll'.pc = "zadd" /\ poll'.start = poll.start /\ poll'.current = poll.current
        /\ poll'.last = poll.last /\ poll'.latest = poll.latest /\ poll'.page = poll.page /\ poll'.full = poll.full
    BY <2>1, <2>2 DEF Polling
  <2>4. EventTypesOK' BY <1>1, <1>2, <2>1, <2>3 DEF EventTypesOK
  <2>5. CursorRight' BY <1>2, CursorStays
  <2>6. StoredIsIndexed' BY <1>2, <1>3, <2>1, <2>3 DEF StoredIsIndexed
  <2>7. ReadSoFar' BY <1>2, <2>2, <2>3, ReadStays
  <2>8. Fetching' BY <2>3 DEF Fetching
  <2>9. Indexing' BY <1>2, <2>1, <2>2, <2>3, PageStays
  <2> QED BY <2>4, <2>5, <2>6, <2>7, <2>8, <2>9 DEF EventInv
<1> QED BY <1>4, <1>5

\* ... and put into the index.
LEMMA IndexEventInv == ASSUME EventInv, E!IndexEvent PROVE EventInv'
<1>1. EventTypesOK /\ StoredIsIndexed /\ Indexing BY DEF EventInv
<1>2. /\ poll.pc = "zadd" /\ indexed' = indexed \cup {Head(poll.page)}
      /\ poll' = [poll EXCEPT !.pc = "index", !.page = Tail(poll.page), !.last = E!Max({poll.last, Head(poll.page)[1]})]
      /\ UNCHANGED <<chain, cursor, stored, torn, from, cut>>
  BY DEF E!IndexEvent
<1>3. poll.page # <<>> /\ Head(poll.page) \in stored BY <1>1, <1>2 DEF Indexing
<1>4. stored \subseteq indexed' \cup torn BY <1>1, <1>2 DEF StoredIsIndexed
<1>5. indexed' \subseteq stored BY <1>1, <1>2, <1>3 DEF EventTypesOK
<1> QED BY <1>2, <1>3, <1>4, <1>5, EventDoneInv

\* A page is done with: the ledgers it is known to hold are covered.
LEMMA PageDone ==
  ASSUME EventInv, poll.pc = "index", poll.page = <<>>
  PROVE  /\ poll \in Polling /\ Len(chain) \in Nat /\ poll.last <= poll.latest /\ poll.latest <= Len(chain)
         /\ poll.start \in 1..poll.current /\ poll.current \in 1..(Len(chain) + 1)
         /\ from # 0 => CoveredIn(from, poll.start - 1)
         /\ CoveredIn(poll.start, poll.current - 1)
         /\ ~poll.full => CoveredIn(poll.current, poll.latest)
         /\ poll.full => /\ poll.last \in poll.current..poll.latest /\ CoveredIn(poll.current, poll.last - 1)
                         /\ poll.last = poll.current => Covered(poll.last)
<1>1. EventTypesOK /\ ReadSoFar /\ Indexing BY DEF EventInv
<1>2. poll \in Polling /\ Len(chain) \in Nat BY <1>1, EventFacts
<1>3. /\ poll.start \in 1..poll.current /\ poll.current \in 1..(Len(chain) + 1)
      /\ from # 0 => CoveredIn(from, poll.start - 1)
      /\ CoveredIn(poll.start, poll.current - 1)
  BY <1>1 DEF ReadSoFar
<1>4. /\ poll.last <= poll.latest /\ poll.latest <= Len(chain)
      /\ ~poll.full => WholePage
      /\ poll.full => \E x \in Nat : BreaksIn(x)
  BY <1>1 DEF Indexing
<1>5. Entries(poll.page) = {}
  <2>1. Len(poll.page) = 0 OBVIOUS
  <2> QED BY <2>1 DEF Entries
<1>6. \A l : Coming(l) => Covered(l) BY <1>5 DEF Coming, Covered
<1>7. ~poll.full => CoveredIn(poll.current, poll.latest) BY <1>4, <1>6 DEF WholePage, CoveredIn
<1>8. ASSUME poll.full
      PROVE  /\ poll.last \in poll.current..poll.latest /\ CoveredIn(poll.current, poll.last - 1)
             /\ poll.last = poll.current => Covered(poll.last)
  <2>1. PICK x \in Nat : BreaksIn(x) BY <1>4, <1>8
  <2>2. x = poll.last BY <2>1 DEF BreaksIn
  <2>3. /\ x \in poll.current..poll.latest /\ \A l \in poll.current..(x - 1) : Coming(l)
        /\ x = poll.current /\ chain[x] <= PAGE_LIMIT => Coming(x)
    BY <2>1 DEF BreaksIn
  <2>4. x = poll.current => Covered(x) BY <1>6, <2>3 DEF Covered
  <2> QED BY <1>6, <2>2, <2>3, <2>4 DEF CoveredIn
<1> QED BY <1>2, <1>3, <1>4, <1>7, <1>8

\* Ledgers covered one stretch after the other.
LEMMA CoveredJoin ==
  ASSUME NEW a \in Int, NEW b \in Int, NEW c \in Int, CoveredIn(a, b - 1), CoveredIn(b, c)
  PROVE  CoveredIn(a, c)
<1> SUFFICES ASSUME NEW l \in a..c PROVE Covered(l) BY DEF CoveredIn
<1>1. l \in a..(b - 1) \/ l \in b..c OBVIOUS
<1> QED BY <1>1 DEF CoveredIn

\* A full page: the poll goes on from the last ledger it saw.
LEMMA PageAgainInv == ASSUME EventInv, E!PageAgain PROVE EventInv'
<1>1. EventTypesOK /\ StoredIsIndexed BY DEF EventInv
<1>2. /\ poll.pc = "index" /\ poll.page = <<>> /\ poll.full /\ poll.last > poll.current
      /\ poll' = [poll EXCEPT !.pc = "fetch", !.current = poll.last, !.pages = poll.pages + 1]
      /\ UNCHANGED <<chain, cursor, stored, indexed, torn, from, cut>>
  BY DEF E!PageAgain, E!CanReread, E!redisVars
<1>3. /\ poll \in Polling /\ Len(chain) \in Nat /\ poll.last <= poll.latest /\ poll.latest <= Len(chain)
      /\ poll.start \in 1..poll.current /\ poll.current \in 1..(Len(chain) + 1)
      /\ from # 0 => CoveredIn(from, poll.start - 1)
      /\ CoveredIn(poll.start, poll.current - 1)
      /\ CoveredIn(poll.current, poll.last - 1)
  BY <1>2, PageDone
<1>4. PICK s \in Nat, c \in Nat, z \in Nat, t \in Nat :
         s = poll.start /\ c = poll.current /\ z = poll.last /\ t = poll.latest
  BY <1>3 DEF Polling
<1>5. /\ poll' \in Polling /\ poll'.pc = "fetch" /\ poll'.start = s /\ poll'.current = z /\ poll'.last = z
  <2>1. PICK k \in Nat : k = poll.pages + 1 BY <1>3 DEF Polling
  <2>2. poll' = [poll EXCEPT !.pc = "fetch", !.current = z, !.pages = k] BY <1>2, <1>4, <2>1
  <2> QED BY <1>3, <1>4, <2>2 DEF Polling
<1>6. EventTypesOK' BY <1>1, <1>2, <1>5 DEF EventTypesOK
<1>7. CursorRight' BY <1>2, CursorStays
<1>8. StoredIsIndexed' BY <1>1, <1>2, <1>5 DEF StoredIsIndexed
<1>9. z \in 1..(Len(chain) + 1) /\ s \in 1..z /\ z <= Len(chain) BY <1>2, <1>3, <1>4
<1>10. CoveredIn(s, z - 1)
  <2>1. CoveredIn(s, c - 1) /\ CoveredIn(c, z - 1) /\ z - 1 \in Int BY <1>3, <1>4
  <2> QED BY <2>1, CoveredJoin
<1>11. ReadSoFar'
  <2>1. \A l \in s..(z - 1) : Covered(l)' BY <1>2, <1>10 DEF CoveredIn, Covered, E!EventsOf
  <2>2. from # 0 => \A l \in from..(s - 1) : Covered(l)' BY <1>2, <1>3, <1>4 DEF CoveredIn, Covered, E!EventsOf
  <2> QED BY <1>2, <1>5, <1>9, <2>1, <2>2 DEF ReadSoFar, CoveredIn
<1>12. Fetching' BY <1>2, <1>5, <1>9 DEF Fetching
<1>13. Indexing' BY <1>5 DEF Indexing
<1> QED BY <1>6, <1>7, <1>8, <1>11, <1>12, <1>13 DEF EventInv

\* A poll is over, with the cursor behind ledgers that are covered.
LEMMA AdvanceCursor ==
  ASSUME EventInv, poll.pc = "index", poll.page = <<>>, E!Advance, UNCHANGED <<chain, stored, indexed, torn>>, cut \subseteq cut',
         NEW d \in 1..(Len(chain) + 1), d = E!AdvanceTo, \A l \in poll.start..(d - 1) : Covered(l)'
  PROVE  EventInv'
<1>1. EventTypesOK /\ StoredIsIndexed BY DEF EventInv
<1>2. /\ poll \in Polling /\ Len(chain) \in Nat
      /\ poll.start \in 1..poll.current /\ poll.current \in 1..(Len(chain) + 1)
      /\ from # 0 => CoveredIn(from, poll.start - 1)
  BY PageDone
<1>3. PICK s \in 1..(Len(chain) + 1) : s = poll.start
  <2>1. poll.start \in Nat /\ poll.current \in Nat BY <1>2 DEF Polling
  <2> QED BY <1>2, <2>1
<1>4. cursor' = d /\ from' = (IF from = 0 /\ watching THEN s ELSE from) /\ poll' = E!NoPoll BY <1>3 DEF E!Advance
<1>5. from' \in 0..(Len(chain) + 1) BY <1>1, <1>3, <1>4, <1>2 DEF EventTypesOK
<1>6. EventTypesOK'
  <2>1. d \in 0..(Len(chain) + 1) BY <1>2
  <2> QED BY <1>1, <1>4, <1>5, <2>1 DEF EventTypesOK
<1>7. poll'.pc = "idle" BY <1>4 DEF E!NoPoll
<1>8. StoredIsIndexed' BY <1>1, <1>7 DEF StoredIsIndexed
<1>9. CursorRight'
  <2> SUFFICES ASSUME from' # 0 PROVE d # 0 /\ \A l \in from'..(d - 1) : Covered(l)'
    BY <1>4 DEF CursorRight, CoveredIn
  <2>1. from' = s \/ (from' = from /\ from # 0) BY <1>4
  <2>2. CASE from' = s BY <1>2, <1>3, <2>2
  <2>3. CASE from' = from /\ from # 0
    <3>1. from \in Nat BY <1>1, EventFacts
    <3>2. ASSUME NEW l \in from..(s - 1) PROVE Covered(l)'
      <4>1. l \in 1..Len(chain) BY <1>2, <2>3, <3>1
      <4>2. Covered(l) BY <1>2, <1>3, <2>3 DEF CoveredIn
      <4> QED BY <1>1, <4>1, <4>2, StaysCovered
    <3>3. \A l \in from..(d - 1) : l \in from..(s - 1) \/ l \in s..(d - 1) BY <1>2, <3>1
    <3> QED BY <1>2, <1>3, <2>3, <3>2, <3>3
  <2> QED BY <2>1, <2>2, <2>3
<1>10. ReadSoFar' /\ Fetching' /\ Indexing' BY <1>7 DEF ReadSoFar, Fetching, Indexing
<1> QED BY <1>6, <1>8, <1>9, <1>10 DEF EventInv

\* The page cap: the last ledger is noted as cut.
LEMMA PageCapInv == ASSUME EventInv, E!PageCap PROVE EventInv'
<1>1. /\ poll.pc = "index" /\ poll.page = <<>> /\ poll.full /\ poll.last > poll.current
      /\ cut' = cut \cup {poll.last} /\ E!Advance /\ UNCHANGED <<chain, stored, indexed, torn>>
  BY DEF E!PageCap, E!CanReread, E!redisVars
<1>2. /\ poll \in Polling /\ Len(chain) \in Nat /\ poll.last <= poll.latest /\ poll.latest <= Len(chain)
      /\ poll.start \in 1..poll.current /\ poll.current \in 1..(Len(chain) + 1)
      /\ CoveredIn(poll.start, poll.current - 1)
      /\ CoveredIn(poll.current, poll.last - 1)
  BY <1>1, PageDone
<1>3. PICK s \in Nat, c \in Nat, z \in Nat, t \in Nat :
         s = poll.start /\ c = poll.current /\ z = poll.last /\ t = poll.latest
  BY <1>2 DEF Polling
<1>4. CoveredIn(s, z - 1)
  <2>1. CoveredIn(s, c - 1) /\ CoveredIn(c, z - 1) /\ z - 1 \in Int BY <1>2, <1>3
  <2> QED BY <2>1, CoveredJoin
<1>5. z # 0 /\ z + 1 \in 1..(Len(chain) + 1)
  <2>1. z > c /\ z <= t /\ t <= Len(chain) /\ Len(chain) \in Nat BY <1>1, <1>2, <1>3
  <2> QED BY <2>1
<1>6. PICK d \in 1..(Len(chain) + 1) : d = z + 1 BY <1>5
<1>7. d = E!AdvanceTo BY <1>3, <1>5, <1>6 DEF E!AdvanceTo
<1>8. \A l \in s..(d - 1) : Covered(l)'
  <2> TAKE l \in s..(d - 1)
  <2>1. l \in s..(z - 1) \/ l = z BY <1>6
  <2>2. l = z => Covered(l)' BY <1>1, <1>3 DEF Covered
  <2>3. l \in s..(z - 1) => Covered(l)' BY <1>1, <1>4 DEF CoveredIn, Covered, E!EventsOf
  <2> QED BY <2>1, <2>2, <2>3
<1> QED BY <1>1, <1>3, <1>7, <1>8, AdvanceCursor

\* The last page.
LEMMA PollDoneInv == ASSUME EventInv, E!PollDone PROVE EventInv'
<1>1. /\ poll.pc = "index" /\ poll.page = <<>> /\ ~(poll.full /\ poll.last > poll.current)
      /\ E!Advance /\ UNCHANGED <<chain, stored, indexed, torn, cut>>
  BY DEF E!PollDone, E!CanReread, E!redisVars
<1>2. /\ poll \in Polling /\ Len(chain) \in Nat /\ poll.last <= poll.latest /\ poll.latest <= Len(chain)
      /\ poll.start \in 1..poll.current /\ poll.current \in 1..(Len(chain) + 1)
      /\ CoveredIn(poll.start, poll.current - 1)
      /\ ~poll.full => CoveredIn(poll.current, poll.latest)
      /\ poll.full => /\ poll.last \in poll.current..poll.latest /\ CoveredIn(poll.current, poll.last - 1)
                      /\ poll.last = poll.current => Covered(poll.last)
  BY <1>1, PageDone
<1>3. PICK s \in Nat, c \in Nat, z \in Nat, t \in Nat, w \in BOOLEAN :
         s = poll.start /\ c = poll.current /\ z = poll.last /\ t = poll.latest /\ w = poll.full
  BY <1>2 DEF Polling
<1>4. PICK d \in 1..(Len(chain) + 1) : d = IF z # 0 THEN z + 1 ELSE t + 1
  <2>1. z <= t /\ t <= Len(chain) /\ Len(chain) \in Nat BY <1>2, <1>3
  <2>2. z + 1 \in 1..(Len(chain) + 1) /\ t + 1 \in 1..(Len(chain) + 1) BY <2>1
  <2>3. CASE z # 0 BY <2>2, <2>3
  <2>4. CASE z = 0 BY <2>2, <2>4
  <2> QED BY <2>3, <2>4
<1>5. d = E!AdvanceTo BY <1>3, <1>4 DEF E!AdvanceTo
<1>6. CoveredIn(s, d - 1)
  <2>1. CoveredIn(s, c - 1) BY <1>2, <1>3
  <2>2. CASE w
    <3>1. z \in c..t /\ ~(z > c) /\ (z = c => Covered(z)) BY <1>1, <1>2, <1>3, <2>2
    <3>2. z = c /\ Covered(z) /\ c # 0 BY <1>2, <1>3, <3>1
    <3>3. d - 1 = c BY <1>4, <3>2
    <3>4. CoveredIn(c, d - 1) BY <3>2, <3>3 DEF CoveredIn
    <3> QED BY <2>1, <3>3, <3>4, CoveredJoin
  <2>3. CASE ~w
    <3>1. CoveredIn(c, t) /\ z <= t BY <1>2, <1>3, <2>3
    <3>2. d - 1 \in Int /\ d - 1 <= t BY <1>4, <3>1
    <3>3. CoveredIn(c, d - 1) BY <3>1, <3>2 DEF CoveredIn
    <3> QED BY <2>1, <3>2, <3>3, CoveredJoin
  <2> QED BY <2>2, <2>3
<1>7. \A l \in s..(d - 1) : Covered(l)' BY <1>1, <1>6 DEF CoveredIn, Covered, E!EventsOf
<1> QED BY <1>1, <1>3, <1>5, <1>7, AdvanceCursor

\* A call fails or the process stops: an event whose ZADD was under way is torn.
LEMMA PollLostInv ==
  ASSUME EventInv, torn' = torn \cup (stored \ indexed), poll' = E!NoPoll, UNCHANGED <<chain, stored, indexed, cut>>,
         (UNCHANGED <<cursor, from>>) \/ (cursor' = 0 /\ from' = 0)
  PROVE  EventInv'
<1>1. EventTypesOK BY DEF EventInv
<1>2. Len(chain) \in Nat BY <1>1, EventFacts
<1>3. EventTypesOK'
  <2>1. cursor' \in 0..(Len(chain) + 1) /\ from' \in 0..(Len(chain) + 1) BY <1>1, <1>2 DEF EventTypesOK
  <2> QED BY <1>1, <2>1 DEF EventTypesOK
<1>4. poll'.pc = "idle" BY DEF E!NoPoll
<1>5. StoredIsIndexed' BY <1>4 DEF StoredIsIndexed
<1>6. CursorRight'
  <2>1. CASE UNCHANGED <<cursor, from>> BY <2>1, CursorStays
  <2>2. CASE cursor' = 0 /\ from' = 0 BY <2>2 DEF CursorRight
  <2> QED BY <2>1, <2>2
<1>7. ReadSoFar' /\ Fetching' /\ Indexing' BY <1>4 DEF ReadSoFar, Fetching, Indexing
<1> QED BY <1>3, <1>5, <1>6, <1>7 DEF EventInv

\* A step that changes nothing the invariant speaks of.
LEMMA EventSame ==
  ASSUME EventInv, UNCHANGED <<chain, cursor, poll, stored, indexed, torn, from, cut>>
  PROVE  EventInv'
<1>1. EventTypesOK /\ ReadSoFar BY DEF EventInv
<1>2. Len(chain) \in Nat BY <1>1, EventFacts
<1>3. EventTypesOK' BY <1>1 DEF EventTypesOK
<1>4. CursorRight' BY CursorStays
<1>5. ReadSoFar' BY <1>1 DEF ReadSoFar, CoveredIn, Covered, E!EventsOf
<1>6. Fetching' /\ Indexing' /\ StoredIsIndexed' BY <1>2, PollStays
<1> QED BY <1>3, <1>4, <1>5, <1>6 DEF EventInv

\* Every step of the event indexer keeps the invariant.
LEMMA EventStep == EventInv /\ [E!Next]_(E!vars) => EventInv'
<1> SUFFICES ASSUME EventInv, [E!Next]_(E!vars) PROVE EventInv'
  OBVIOUS
<1>0. EventTypesOK BY DEF EventInv
<1>1. CASE \E n \in 0..MaxPerLedger : E!CloseLedger(n) BY <1>1, CloseLedgerInv
<1>2. CASE \E start \in 1..E!Latest : E!WatchFrom(start)
  <2>1. PICK s \in 1..Len(chain) : E!WatchFrom(s) BY <1>2 DEF E!Latest
  <2>2. E!SetStart(s) /\ UNCHANGED <<chain, poll, stored, indexed, torn, cut>> BY <2>1 DEF E!WatchFrom, E!redisVars
  <2> QED BY <2>2, SetStartInv
<1>3. CASE E!Watch
  <2>1. UNCHANGED <<chain, cursor, poll, stored, indexed, torn, from, cut>> BY <1>3 DEF E!Watch, E!redisVars
  <2> QED BY <2>1, EventSame
<1>4. CASE E!WatchAnswered
  <2>1. PICK s \in 1..Len(chain) : s = Len(chain) BY <1>0, EventFacts
  <2>2. E!SetStart(s) /\ UNCHANGED <<chain, poll, stored, indexed, torn, cut>>
    BY <1>4, <2>1 DEF E!WatchAnswered, E!redisVars, E!Latest
  <2> QED BY <2>2, SetStartInv
<1>5. CASE E!Unwatch
  <2>1. cursor' = 0 /\ from' = 0 /\ UNCHANGED <<chain, poll, stored, indexed, torn, cut>>
    BY <1>5 DEF E!Unwatch, E!redisVars
  <2> QED BY <2>1, UnwatchInv
<1>6. CASE E!PollContract BY <1>6, PollContractInv
<1>7. CASE E!GetEvents BY <1>7, GetEventsInv
<1>8. CASE E!SetEvent BY <1>8, SetEventInv
<1>9. CASE E!IndexEvent BY <1>9, IndexEventInv
<1>10. CASE E!PageAgain BY <1>10, PageAgainInv
<1>11. CASE E!PageCap BY <1>11, PageCapInv
<1>12. CASE E!PollDone BY <1>12, PollDoneInv
<1>13. CASE E!PollFails
  <2>1. /\ torn' = torn \cup (stored \ indexed) /\ poll' = E!NoPoll
        /\ UNCHANGED <<chain, stored, indexed, cut>> /\ UNCHANGED <<cursor, from>>
    BY <1>13 DEF E!PollFails
  <2> QED BY <2>1, PollLostInv
<1>14. CASE E!Restart
  <2>1. /\ torn' = torn \cup (stored \ indexed) /\ poll' = E!NoPoll
        /\ UNCHANGED <<chain, stored, indexed, cut>> /\ cursor' = 0 /\ from' = 0
    BY <1>14 DEF E!Restart
  <2> QED BY <2>1, PollLostInv
<1>15. CASE UNCHANGED E!vars
  <2>1. UNCHANGED <<chain, cursor, poll, stored, indexed, torn, from, cut>> BY <1>15 DEF E!vars
  <2> QED BY <2>1, EventSame
<1> QED BY <1>1, <1>2, <1>3, <1>4, <1>5, <1>6, <1>7, <1>8, <1>9, <1>10, <1>11, <1>12, <1>13, <1>14, <1>15 DEF E!Next

\* It holds at the start.
LEMMA EventInit == E!Init => EventInv
<1> SUFFICES ASSUME E!Init PROVE EventInv
  OBVIOUS
<1>1. /\ chain = <<0>> /\ cursor = 0 /\ poll = E!NoPoll /\ stored = {} /\ indexed = {}
      /\ from = 0 /\ torn = {} /\ poll.pc = "idle"
  BY DEF E!Init, E!NoPoll
<1>2. chain \in Seq(0..MaxPerLedger) /\ Len(chain) = 1
  <2>1. 0 \in 0..MaxPerLedger BY EventAssumption
  <2> QED BY <1>1, <2>1
<1>3. EventTypesOK
  <2>1. Len(chain) \in 1..MaxLedgers BY <1>2, EventAssumption
  <2> QED BY <1>1, <1>2, <2>1 DEF EventTypesOK
<1> QED BY <1>1, <1>3 DEF EventInv, CursorRight, StoredIsIndexed, ReadSoFar, Fetching, Indexing

\* It gives the property.
LEMMA EventProperty == EventInv => IndexedBeforeCursor
<1> SUFFICES ASSUME EventInv PROVE IndexedBeforeCursor
  OBVIOUS
<1>1. EventTypesOK /\ CursorRight BY DEF EventInv
<1>2. cursor \in Nat /\ from \in Nat /\ Len(chain) \in Nat BY <1>1, EventFacts
<1>3. E!TypeOK
  <2>1. \A k \in 0..(Len(chain) + 1) : k \in 0..(MaxLedgers + 1) BY <1>1, EventAssumption DEF EventTypesOK
  <2> QED BY <1>1, <2>1 DEF EventTypesOK, E!TypeOK
<1>4. E!IndexedBeforeCursor
  <2> SUFFICES ASSUME from # 0, NEW l \in from..E!Min({cursor - 1, Len(chain)}), chain[l] <= PAGE_LIMIT, l \notin cut
               PROVE  E!EventsOf(l) \subseteq indexed \cup torn
    BY DEF E!IndexedBeforeCursor, E!Latest
  <2>1. E!Min({cursor - 1, Len(chain)}) = IF cursor - 1 <= Len(chain) THEN cursor - 1 ELSE Len(chain)
    <3>1. PICK u \in Int, v \in Int : u = cursor - 1 /\ v = Len(chain) BY <1>2
    <3>2. E!Min({u, v}) = IF u <= v THEN u ELSE v BY EventMaxMin
    <3> QED BY <3>1, <3>2
  <2>2. l \in from..(cursor - 1) BY <1>2, <2>1
  <2>3. Covered(l) BY <1>1, <2>2 DEF CursorRight, CoveredIn
  <2> QED BY <2>3 DEF Covered
<1> QED BY <1>3, <1>4 DEF IndexedBeforeCursor

\* What lies between the ledger a contract is watched from and its cursor is in the
\* index, through paging, replays, failed calls and restarts, and whatever watch and
\* unwatch do to the cursor while a poll runs; the exceptions are those of the code: a
\* ledger with more events than a page, one the page cap fell into, and an event whose
\* ZADD failed after its SET NX. For any page limit, page cap and number of ledgers and
\* events.
THEOREM CursorIsSound == FairSpec => []IndexedBeforeCursor
<1>1. Init => EventInv BY EventPart, EventInit
<1>2. EventInv /\ [Next]_vars => EventInv' BY EventPart, EventStep
<1>3. EventInv => IndexedBeforeCursor BY EventProperty
<1> QED BY <1>1, <1>2, <1>3, PTL DEF FairSpec
=============================================================================
