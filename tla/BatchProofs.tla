---------------------------- MODULE BatchProofs ----------------------------
(***************************************************************************)
(* Proofs about the transaction coordinator, for any number of clients,    *)
(* legs, retries and failures: types, that a leg called EXECUTED took      *)
(* effect, and that a batch one client drives is atomic while others       *)
(* cancel it and it expires.                                               *)
(***************************************************************************)
EXTENDS MCBatchCoordinator, FiniteSetTheorems, TLAPS

-----------------------------------------------------------------------------
(* Types *)

\* A thread that does nothing has the type of one.
LEMMA IdleTyped == Idle \in ThreadType
  BY DEF Idle, ThreadType, NoLegs, MaxRetries

\* Giving a thread a well-typed state keeps all of them well typed.
LEMMA ThreadSet ==
  ASSUME thread \in [Threads -> ThreadType], NEW t \in Threads, NEW x \in ThreadType, Set(t, x)
  PROVE  thread' \in [Threads -> ThreadType]
  BY DEF Set

\* The work on one leg keeps the types (prepareLeg, executeLeg, saveLeg).
LEMMA LegTyped ==
  ASSUME TypeOK, NEW t \in Threads, NEW l \in Legs, LegStep(t, l)
  PROVE  TypeOK'
<1> DEFINE x == thread[t]
<1>0. x \in ThreadType /\ thread \in [Threads -> ThreadType] /\ leg \in [Legs -> LegStatus \cup {"ABSENT"}]
  BY DEF TypeOK
<1>1. ASSUME NEW status \in LegStatus \cup {"ABSENT"}, NEW at \in {"busy", "invoke", "save", "done"}, SaveLeg(t, l, status, at)
      PROVE  thread' \in [Threads -> ThreadType] /\ leg' \in [Legs -> LegStatus \cup {"ABSENT"}]
  <2>1. leg' \in [Legs -> LegStatus \cup {"ABSENT"}] BY <1>0, <1>1 DEF SaveLeg
  <2> DEFINE new == [x EXCEPT !.legs = [@ EXCEPT ![l] = status], !.at = [@ EXCEPT ![l] = at]]
  <2>2. new \in ThreadType BY <1>0, <1>1 DEF ThreadType
  <2>3. Set(t, new) BY <1>1 DEF SaveLeg
  <2> HIDE DEF new
  <2> QED BY <1>0, <2>1, <2>2, <2>3, ThreadSet
<1>2. ASSUME NEW status \in LegStatus, Outcome(t, l, status) PROVE thread' \in [Threads -> ThreadType]
  <2> DEFINE new == [x EXCEPT !.legs = [@ EXCEPT ![l] = status], !.at = [@ EXCEPT ![l] = "save"]]
  <2>2. new \in ThreadType BY <1>0, <1>2 DEF ThreadType
  <2>3. Set(t, new) BY <1>2 DEF Outcome
  <2> HIDE DEF new
  <2> QED BY <1>0, <2>2, <2>3, ThreadSet
<1>3. ASSUME x.tries[l] < MaxRetries, Retry(t, l) PROVE thread' \in [Threads -> ThreadType]
  <2> DEFINE tr == [x.tries EXCEPT ![l] = @ + 1]
             new == [x EXCEPT !.tries = tr]
  <2>1. x.tries \in [Legs -> 0 .. MaxRetries] BY <1>0 DEF ThreadType
  <2>0. tr \in [Legs -> 0 .. MaxRetries] BY <1>3, <2>1 DEF MaxRetries
  <2>3. Set(t, new) BY <1>3 DEF Retry
  <2> HIDE DEF tr
  <2>2. new \in ThreadType BY <1>0, <2>0 DEF ThreadType
  <2> HIDE DEF new
  <2> QED BY <1>0, <2>2, <2>3, ThreadSet
<1>4. CASE PrepareLeg(t, l) BY <1>1, <1>4 DEF PrepareLeg, TypeOK, LegStatus
<1>5. CASE PrepareLegSave(t, l)
  <2>1. PICK status \in PrepareLegOutcomes(l) : SaveLeg(t, l, status, "done") BY <1>5 DEF PrepareLegSave
  <2>2. status \in LegStatus BY DEF PrepareLegOutcomes, LegStatus
  <2> QED BY <1>1, <1>5, <2>1, <2>2 DEF PrepareLegSave, TypeOK
<1>6. CASE ExecuteLeg(t, l) BY <1>1, <1>6 DEF ExecuteLeg, TypeOK, LegStatus
<1>7. CASE InvokeLeg(t, l)
  <2>1. chain' \in [Legs -> 0 .. MaxChain] BY <1>7, BatchAssumption DEF InvokeLeg, TypeOK
  <2> QED BY <1>2, <1>7, <2>1 DEF InvokeLeg, TypeOK, LegStatus
<1>8. CASE InvokeLegFails(t, l) BY <1>2, <1>3, <1>8 DEF InvokeLegFails, TypeOK, LegStatus
<1>9. CASE InvokeLegReplyLost(t, l)
  <2>1. chain' \in [Legs -> 0 .. MaxChain] BY <1>9, BatchAssumption DEF InvokeLegReplyLost, TypeOK
  <2> QED BY <1>2, <1>3, <1>9, <2>1 DEF InvokeLegReplyLost, TypeOK, LegStatus
<1>10. CASE ExecuteLegSave(t, l)
  <2>1. x.legs[l] \in LegStatus \cup {"ABSENT"} BY <1>0 DEF ThreadType
  <2> QED BY <1>1, <1>10, <2>1 DEF ExecuteLegSave, TypeOK
<1> QED BY <1>4, <1>5, <1>6, <1>7, <1>8, <1>9, <1>10 DEF LegStep

\* So does every other step of a thread.
LEMMA StepTyped ==
  ASSUME TypeOK, NEW t \in Threads, Step(t)
  PROVE  TypeOK'
<1> DEFINE x == thread[t]
<1>0. x \in ThreadType /\ thread \in [Threads -> ThreadType] /\ leg \in [Legs -> LegStatus \cup {"ABSENT"}]
  BY DEF TypeOK
<1>1. ASSUME NEW new \in ThreadType, Set(t, new) PROVE thread' \in [Threads -> ThreadType]
  BY <1>0, <1>1, ThreadSet
<1>2. Set(t, Idle) => thread' \in [Threads -> ThreadType] BY <1>1, IdleTyped
<1>3. ASSUME NEW status \in BatchStatus, NEW pc \in {"committing", "return", "rollbackLoad", "cancelLoad", "expireLoad"},
             SaveBatch(t, status, pc)
      PROVE  thread' \in [Threads -> ThreadType] /\ batch' \in BatchStatus \cup {"ABSENT"}
  <2> DEFINE new == [x EXCEPT !.batch = status, !.pc = pc]
  <2>1. new \in ThreadType BY <1>0, <1>3 DEF ThreadType
  <2>2. Set(t, new) /\ batch' = status BY <1>3 DEF SaveBatch
  <2> HIDE DEF new
  <2> QED BY <1>1, <2>1, <2>2
<1>4. CASE CreateBatchLegs(t)
  <2>1. leg' \in [Legs -> LegStatus \cup {"ABSENT"}] BY <1>4 DEF CreateBatchLegs, LegStatus
  <2> QED BY <1>2, <1>4, <2>1 DEF CreateBatchLegs, TypeOK
<1>5. CASE LoadLegs(t)
  <2> DEFINE p == CASE thread[t].op = "commit" -> "committing"
                          [] thread[t].op = "execute" /\ ~CheckPreExecution(leg) -> "rollback"
                          [] OTHER -> "preparing"
             new == [x EXCEPT !.legs = leg, !.pc = p]
  <2>1. p \in {"committing", "rollback", "preparing"} OBVIOUS
  <2>2. Set(t, new) BY <1>5 DEF LoadLegs
  <2> HIDE DEF p
  <2>3. new \in ThreadType BY <1>0, <2>1 DEF ThreadType
  <2> HIDE DEF new
  <2> QED BY <1>1, <1>5, <2>2, <2>3 DEF LoadLegs, TypeOK
<1>6. CASE PreparePhase(t)
  <2> DEFINE at == [l \in Legs |-> IF l \in Loaded(t) THEN "start" ELSE "passed"]
             new == [x EXCEPT !.batch = "PREPARING", !.pc = "prepareLegs", !.at = at]
  <2>1. at \in [Legs -> {"start", "busy", "invoke", "save", "done", "passed"}] OBVIOUS
  <2>2. Set(t, new) BY <1>6 DEF PreparePhase
  <2> HIDE DEF at
  <2>3. new \in ThreadType BY <1>0, <2>1 DEF ThreadType, BatchStatus
  <2> HIDE DEF new
  <2> QED BY <1>1, <1>6, <2>2, <2>3 DEF PreparePhase, TypeOK, BatchStatus
<1>7. CASE PreparePhasePrepared(t)
  <2> DEFINE p == IF thread[t].op = "execute" THEN "committing" ELSE "return"
  <2>1. SaveBatch(t, "PREPARED", p) /\ p \in {"committing", "return"} BY <1>7 DEF PreparePhasePrepared
  <2> HIDE DEF p
  <2> QED BY <1>3, <1>7, <2>1 DEF PreparePhasePrepared, TypeOK, BatchStatus
<1>8. CASE PreparePhaseThrows(t)
  <2> DEFINE p == IF thread[t].op = "execute" THEN "rollback" ELSE "return"
             new == [x EXCEPT !.pc = p]
  <2>1. Set(t, new) /\ p \in {"rollback", "return"} BY <1>8 DEF PreparePhaseThrows, Goto
  <2> HIDE DEF p
  <2>3. new \in ThreadType BY <1>0, <2>1 DEF ThreadType
  <2> HIDE DEF new
  <2> QED BY <1>1, <1>8, <2>1, <2>3 DEF PreparePhaseThrows, TypeOK
<1>9. CASE CommitPhase(t)
  <2> DEFINE at == NotPreparedPassed(t)
             new == [x EXCEPT !.batch = "COMMITTING", !.pc = "executeLegs", !.at = at]
  <2>1. at \in [Legs -> {"start", "busy", "invoke", "save", "done", "passed"}] BY DEF NotPreparedPassed
  <2>2. Set(t, new) BY <1>9 DEF CommitPhase
  <2> HIDE DEF at
  <2>3. new \in ThreadType BY <1>0, <2>1 DEF ThreadType, BatchStatus
  <2> HIDE DEF new
  <2> QED BY <1>1, <1>9, <2>2, <2>3 DEF CommitPhase, TypeOK, BatchStatus
<1>10. CASE CommitPhaseCommitted(t) BY <1>3, <1>10 DEF CommitPhaseCommitted, TypeOK, BatchStatus
<1>20. ASSUME NEW p \in {"rollbackLegs", "cancelled", "expired"}, NEW todo \in SUBSET Legs, Set(t, [x EXCEPT !.pc = p, !.todo = todo])
       PROVE  thread' \in [Threads -> ThreadType]
  <2>1. [x EXCEPT !.pc = p, !.todo = todo] \in ThreadType BY <1>0 DEF ThreadType
  <2> QED BY <1>1, <1>20, <2>1
<1>11. CASE CommitPhaseFailed(t)
  <2> DEFINE todo == CommittedLegs(t)
  <2>1. todo \in SUBSET Legs BY DEF CommittedLegs
  <2>2. Set(t, [x EXCEPT !.pc = "rollbackLegs", !.todo = todo]) BY <1>11 DEF CommitPhaseFailed
  <2> HIDE DEF todo
  <2> QED BY <1>11, <1>20, <2>1, <2>2 DEF CommitPhaseFailed, TypeOK
<1>12. CASE RollbackPhase(t) BY <1>3, <1>12 DEF RollbackPhase, TypeOK, BatchStatus
<1>13. CASE RollbackPhaseLegs(t)
  <2> DEFINE todo == {l \in Legs : leg[l] = "EXECUTED"}
             new == [x EXCEPT !.legs = leg, !.pc = "rollbackLegs", !.todo = todo]
  <2>1. todo \in SUBSET Legs OBVIOUS
  <2>2. Set(t, new) BY <1>13 DEF RollbackPhaseLegs
  <2> HIDE DEF todo
  <2>3. new \in ThreadType BY <1>0, <2>1 DEF ThreadType
  <2> HIDE DEF new
  <2> QED BY <1>1, <1>13, <2>2, <2>3 DEF RollbackPhaseLegs, TypeOK
<1>14. CASE RollbackLeg(t)
  <2>0. PICK l \in x.todo : IF x.legs[l] = "EXECUTED"
               THEN SaveLeg(t, l, "ROLLING_BACK", "done")
               ELSE /\ leg' = [leg EXCEPT ![l] = "ROLLED_BACK"]
                    /\ Set(t, [x EXCEPT !.legs = [@ EXCEPT ![l] = "ROLLED_BACK"], !.todo = @ \ {l}])
    BY <1>14 DEF RollbackLeg
  <2>1. l \in Legs BY <1>0 DEF ThreadType
  <2>2. leg' \in [Legs -> LegStatus \cup {"ABSENT"}] BY <1>0, <2>0 DEF SaveLeg, LegStatus
  <2>3. [x EXCEPT !.legs = [@ EXCEPT ![l] = "ROLLED_BACK"], !.todo = @ \ {l}] \in ThreadType
    BY <1>0 DEF ThreadType, LegStatus
  <2>4. [x EXCEPT !.legs = [@ EXCEPT ![l] = "ROLLING_BACK"], !.at = [@ EXCEPT ![l] = "done"]] \in ThreadType
    BY <1>0 DEF ThreadType, LegStatus
  <2>5. thread' \in [Threads -> ThreadType] BY <1>1, <2>0, <2>3, <2>4 DEF SaveLeg
  <2> QED BY <1>14, <2>2, <2>5 DEF RollbackLeg, TypeOK
<1>15. CASE RollbackDone(t) BY <1>3, <1>15 DEF RollbackDone, TypeOK, BatchStatus
<1>16. CASE Return(t)
  BY <1>2, <1>16 DEF Return, Finish, TypeOK
<1>17. CASE CancelBatchRollingBack(t) BY <1>3, <1>17 DEF CancelBatchRollingBack, TypeOK, BatchStatus
<1>18. CASE CancelBatchLegs(t)
  <2> DEFINE todo == {l \in Legs : leg[l] \in {"PREPARED", "EXECUTED"}}
  <2>1. todo \in SUBSET Legs OBVIOUS
  <2>2. Set(t, [x EXCEPT !.pc = "cancelled", !.todo = todo]) BY <1>18 DEF CancelBatchLegs
  <2> HIDE DEF todo
  <2> QED BY <1>18, <1>20, <2>1, <2>2 DEF CancelBatchLegs, TypeOK
<1>19. CASE RollBackFound(t)
  <2>0. PICK l \in x.todo : leg' = [leg EXCEPT ![l] = "ROLLED_BACK"] /\ Set(t, [x EXCEPT !.todo = @ \ {l}])
    BY <1>19 DEF RollBackFound
  <2>2. leg' \in [Legs -> LegStatus \cup {"ABSENT"}] BY <1>0, <2>0 DEF LegStatus
  <2>3. [x EXCEPT !.todo = @ \ {l}] \in ThreadType BY <1>0 DEF ThreadType
  <2> QED BY <1>1, <1>19, <2>0, <2>2, <2>3 DEF RollBackFound, TypeOK
<1>21. CASE CancelBatchDone(t)
  BY <1>2, <1>21 DEF CancelBatchDone, TypeOK, BatchStatus
<1>22. CASE HandleBatchTimeout(t)
  <2>1. [x EXCEPT !.pc = "expireBatch"] \in ThreadType BY <1>0 DEF ThreadType
  <2> QED BY <1>1, <1>2, <1>22, <2>1 DEF HandleBatchTimeout, Goto, TypeOK
<1>23. CASE ExpireBatch(t) BY <1>3, <1>23 DEF ExpireBatch, TypeOK, BatchStatus
<1>24. CASE ExpireBatchLegs(t)
  <2> DEFINE todo == {l \in Legs : leg[l] \in {"PREPARED", "EXECUTED", "EXECUTING"}}
  <2>1. todo \in SUBSET Legs OBVIOUS
  <2>2. Set(t, [x EXCEPT !.pc = "expired", !.todo = todo]) BY <1>24 DEF ExpireBatchLegs
  <2> HIDE DEF todo
  <2> QED BY <1>24, <1>20, <2>1, <2>2 DEF ExpireBatchLegs, TypeOK
<1>25. CASE ExpireBatchDone(t) BY <1>2, <1>25 DEF ExpireBatchDone, TypeOK
<1> QED BY <1>4, <1>5, <1>6, <1>7, <1>8, <1>9, <1>10, <1>11, <1>12, <1>13, <1>14, <1>15, <1>16, <1>17,
           <1>18, <1>19, <1>21, <1>22, <1>23, <1>24, <1>25, LegTyped DEF Step

\* A request that is accepted starts a well-typed thread.
LEMMA AcceptTyped ==
  ASSUME TypeOK, NEW r \in Requests, NEW op \in {"create", "execute", "prepare", "commit", "cancel"},
         NEW pc \in {"saveLegs", "load", "cancelled", "cancelling"}, NEW st, Accept(r, op, st, pc)
  PROVE  thread' \in [Threads -> ThreadType]
<1> DEFINE new == [Idle EXCEPT !.op = op, !.pc = pc, !.batch = batch]
<1>1. new \in ThreadType BY IdleTyped DEF ThreadType, TypeOK
<1>2. Set(<<r, "request">>, new) /\ <<r, "request">> \in Threads BY DEF Accept, Threads
<1> HIDE DEF new
<1> QED BY <1>1, <1>2, ThreadSet DEF TypeOK

\* The rows, the threads and the ledger keep their types whatever the clients
\* ask for and however their requests interleave (transaction-
\* coordinator.service.ts).
THEOREM BatchTyped == Spec => []TypeOK
<1>1. Init => TypeOK BY IdleTyped, BatchAssumption DEF Init, TypeOK, NoLegs, NoTimer
<1>2. TypeOK /\ [Next]_vars => TypeOK'
  <2> SUFFICES ASSUME TypeOK, [Next]_vars PROVE TypeOK' OBVIOUS
  <2>1. ASSUME NEW r \in Requests, CreateBatch(r) PROVE TypeOK'
    BY <2>1, AcceptTyped DEF CreateBatch, TypeOK, BatchStatus
  <2>2. ASSUME NEW r \in Requests, ExecuteBatch(r) PROVE TypeOK'
    BY <2>2, AcceptTyped DEF ExecuteBatch, TypeOK
  <2>3. ASSUME NEW r \in Requests, PrepareBatch(r) PROVE TypeOK'
    BY <2>3, AcceptTyped DEF PrepareBatch, TypeOK
  <2>4. ASSUME NEW r \in Requests, CommitBatch(r) PROVE TypeOK'
    BY <2>4, AcceptTyped DEF CommitBatch, TypeOK
  <2>5. ASSUME NEW r \in Requests, CancelBatch(r) PROVE TypeOK'
    <3> DEFINE pc == IF batch = "CREATED" THEN "cancelled" ELSE "cancelling"
    <3>1. pc \in {"saveLegs", "load", "cancelled", "cancelling"} OBVIOUS
    <3>2. Accept(r, "cancel", {"CREATED", "PREPARING", "PREPARED"}, pc) BY <2>5 DEF CancelBatch
    <3> HIDE DEF pc
    <3> QED BY <2>5, <3>1, <3>2, AcceptTyped DEF CancelBatch, TypeOK
  <2>6. ASSUME NEW r \in Requests, TimerFires(r) PROVE TypeOK'
    <3> DEFINE new == [Idle EXCEPT !.op = "timeout", !.pc = "expiring"]
    <3>1. new \in ThreadType BY IdleTyped DEF ThreadType
    <3>2. Set(<<r, "timer">>, new) /\ <<r, "timer">> \in Threads BY <2>6 DEF TimerFires, Threads
    <3> HIDE DEF new
    <3>3. thread' \in [Threads -> ThreadType] BY <3>1, <3>2, ThreadSet DEF TypeOK
    <3> QED BY <2>6, <3>3 DEF TimerFires, TypeOK
  <2>7. ASSUME NEW t \in Threads, Step(t) PROVE TypeOK' BY <2>7, StepTyped
  <2>8. CASE Crash BY <2>8, IdleTyped, BatchAssumption DEF Crash, TypeOK
  <2>9. CASE UNCHANGED vars BY <2>9 DEF vars, TypeOK
  <2> QED BY <2>1, <2>2, <2>3, <2>4, <2>5, <2>6, <2>7, <2>8, <2>9 DEF Next
<1> QED BY <1>1, <1>2, PTL DEF Spec

-----------------------------------------------------------------------------
(* A leg called EXECUTED is on the ledger *)

\* The legs a copy calls EXECUTED have taken effect on the ledger.
Backed(copy, ch) == \A l \in Legs : copy[l] = "EXECUTED" => ch[l] > 0

\* So it is for the stored rows and for every copy a thread has in memory.
EffectsBacked == Backed(leg, chain) /\ \A t \in Threads : Backed(thread[t].legs, chain)

\* The ledger only grows, so a leg that took effect stays so.
LEMMA BackedMonotone ==
  ASSUME NEW c \in [Legs -> Nat], NEW d \in [Legs -> Nat], \A l \in Legs : c[l] <= d[l],
         NEW copy, Backed(copy, c)
  PROVE  Backed(copy, d)
  BY DEF Backed

\* A thread that changes what it holds, while the ledger stays as it is.
LEMMA BackedSet ==
  ASSUME TypeOK, EffectsBacked, NEW t \in Threads, NEW x, Set(t, x),
         Backed(x.legs, chain), UNCHANGED chain, Backed(leg', chain)
  PROVE  EffectsBacked'
  BY DEF TypeOK, EffectsBacked, Set

\* A thread that starts holds no executed leg.
LEMMA IdleBacked == Backed(Idle.legs, chain)
  BY DEF Backed, Idle, NoLegs

\* A leg is saved as EXECUTED only after its submission succeeded.
LEMMA BackedSaveLeg ==
  ASSUME TypeOK, EffectsBacked, NEW t \in Threads, NEW l \in Legs, NEW s, NEW a, SaveLeg(t, l, s, a),
         s = "EXECUTED" => chain[l] > 0, UNCHANGED chain
  PROVE  EffectsBacked'
<1> DEFINE x == thread[t]
           new == [x EXCEPT !.legs = [@ EXCEPT ![l] = s], !.at = [@ EXCEPT ![l] = a]]
<1>1. Set(t, new) /\ leg' = [leg EXCEPT ![l] = s] BY DEF SaveLeg
<1>2. x \in ThreadType BY DEF TypeOK
<1>3. new.legs = [x.legs EXCEPT ![l] = s] BY <1>2 DEF ThreadType
<1>4. Backed(new.legs, chain) BY <1>2, <1>3 DEF Backed, ThreadType, EffectsBacked
<1>5. Backed(leg', chain) BY <1>1 DEF Backed, TypeOK, EffectsBacked
<1> HIDE DEF new
<1> QED BY <1>1, <1>4, <1>5, BackedSet

\* The work on one leg keeps every copy backed by the ledger (executeLeg,
\* retries included).
LEMMA BackedLeg ==
  ASSUME TypeOK, EffectsBacked, NEW t \in Threads, NEW l \in Legs, LegStep(t, l)
  PROVE  EffectsBacked'
<1> DEFINE x == thread[t]
<1>0. x \in ThreadType /\ chain \in [Legs -> Nat] /\ leg \in [Legs -> LegStatus \cup {"ABSENT"}] BY DEF TypeOK
<1>00. Backed(x.legs, chain) /\ Backed(leg, chain) BY DEF EffectsBacked
<1>1. ASSUME NEW s, Outcome(t, l, s), UNCHANGED leg,
             chain' = chain \/ chain' = [chain EXCEPT ![l] = @ + 1], s = "EXECUTED" => chain'[l] > 0
      PROVE  EffectsBacked'
  <2> DEFINE new == [x EXCEPT !.legs = [@ EXCEPT ![l] = s], !.at = [@ EXCEPT ![l] = "save"]]
  <2>1. Set(t, new) BY <1>1 DEF Outcome
  <2>2. new.legs = [x.legs EXCEPT ![l] = s] BY <1>0 DEF ThreadType
  <2>3. chain' \in [Legs -> Nat] /\ \A k \in Legs : chain[k] <= chain'[k] BY <1>0, <1>1
  <2>4. Backed(new.legs, chain') BY <1>0, <1>00, <1>1, <2>2, <2>3 DEF Backed, ThreadType
  <2>5. Backed(leg', chain') BY <1>0, <1>00, <1>1, <2>3 DEF Backed
  <2>6. \A u \in Threads : Backed(thread[u].legs, chain') BY <1>0, <2>3, BackedMonotone DEF EffectsBacked
  <2> HIDE DEF new
  <2> QED BY <2>1, <2>4, <2>5, <2>6 DEF EffectsBacked, Set, TypeOK
<1>2. ASSUME Retry(t, l), UNCHANGED leg, chain' = chain \/ chain' = [chain EXCEPT ![l] = @ + 1]
      PROVE  EffectsBacked'
  <2> DEFINE new == [x EXCEPT !.tries[l] = @ + 1]
  <2>1. Set(t, new) BY <1>2 DEF Retry
  <2>2. new.legs = x.legs BY <1>0 DEF ThreadType
  <2>3. chain' \in [Legs -> Nat] /\ \A k \in Legs : chain[k] <= chain'[k] BY <1>0, <1>2
  <2>4. Backed(new.legs, chain') BY <1>0, <1>00, <2>2, <2>3, BackedMonotone
  <2>5. Backed(leg', chain') BY <1>0, <1>00, <1>2, <2>3 DEF Backed
  <2>6. \A u \in Threads : Backed(thread[u].legs, chain') BY <1>0, <2>3, BackedMonotone DEF EffectsBacked
  <2> HIDE DEF new
  <2> QED BY <2>1, <2>4, <2>5, <2>6 DEF EffectsBacked, Set, TypeOK
<1>4. CASE PrepareLeg(t, l) BY <1>4, BackedSaveLeg DEF PrepareLeg
<1>5. CASE PrepareLegSave(t, l)
  <2>1. PICK s \in PrepareLegOutcomes(l) : SaveLeg(t, l, s, "done") BY <1>5 DEF PrepareLegSave
  <2>2. s # "EXECUTED" BY DEF PrepareLegOutcomes
  <2> QED BY <1>5, <2>1, <2>2, BackedSaveLeg DEF PrepareLegSave
<1>6. CASE ExecuteLeg(t, l) BY <1>6, BackedSaveLeg DEF ExecuteLeg
<1>7. CASE InvokeLeg(t, l)
  <2>1. chain'[l] > 0 BY <1>0, <1>7 DEF InvokeLeg
  <2> QED BY <1>1, <1>7, <2>1 DEF InvokeLeg
<1>8. CASE InvokeLegFails(t, l) BY <1>1, <1>2, <1>8 DEF InvokeLegFails
<1>9. CASE InvokeLegReplyLost(t, l) BY <1>1, <1>2, <1>9 DEF InvokeLegReplyLost
<1>10. CASE ExecuteLegSave(t, l)
  <2>1. x.legs[l] = "EXECUTED" => chain[l] > 0 BY <1>00 DEF Backed
  <2> QED BY <1>10, <2>1, BackedSaveLeg DEF ExecuteLegSave
<1> QED BY <1>4, <1>5, <1>6, <1>7, <1>8, <1>9, <1>10 DEF LegStep

\* So does every other step of a thread, the compensation included.
LEMMA BackedStep ==
  ASSUME TypeOK, EffectsBacked, NEW t \in Threads, Step(t)
  PROVE  EffectsBacked'
<1> DEFINE x == thread[t]
<1>0. x \in ThreadType /\ chain \in [Legs -> Nat] /\ leg \in [Legs -> LegStatus \cup {"ABSENT"}] BY DEF TypeOK
<1>00. Backed(x.legs, chain) /\ Backed(leg, chain) BY DEF EffectsBacked
<1>1. ASSUME NEW new, Set(t, new), new.legs = x.legs \/ new.legs = leg, UNCHANGED <<leg, chain>>
      PROVE  EffectsBacked'
  BY <1>00, <1>1, BackedSet
<1>2. ASSUME Set(t, Idle), UNCHANGED <<leg, chain>> PROVE EffectsBacked'
  BY <1>00, <1>2, BackedSet, IdleBacked
<1>3. ASSUME NEW s, NEW pc, SaveBatch(t, s, pc), UNCHANGED <<leg, chain>> PROVE EffectsBacked'
  <2>1. [x EXCEPT !.batch = s, !.pc = pc].legs = x.legs BY <1>0 DEF ThreadType
  <2> QED BY <1>1, <1>3, <2>1 DEF SaveBatch
<1>20. ASSUME NEW pc, NEW todo, Set(t, [x EXCEPT !.pc = pc, !.todo = todo]), UNCHANGED <<leg, chain>> PROVE EffectsBacked'
  <2>1. [x EXCEPT !.pc = pc, !.todo = todo].legs = x.legs BY <1>0 DEF ThreadType
  <2> QED BY <1>1, <1>20, <2>1
<1>26. ASSUME NEW pc, Goto(t, pc), UNCHANGED <<leg, chain>> PROVE EffectsBacked'
  <2>1. [x EXCEPT !.pc = pc].legs = x.legs BY <1>0 DEF ThreadType
  <2> QED BY <1>1, <1>26, <2>1 DEF Goto
<1>27. ASSUME NEW b, NEW pc, NEW at, Set(t, [x EXCEPT !.batch = b, !.pc = pc, !.at = at]), UNCHANGED <<leg, chain>>
       PROVE  EffectsBacked'
  <2>1. [x EXCEPT !.batch = b, !.pc = pc, !.at = at].legs = x.legs BY <1>0 DEF ThreadType
  <2> QED BY <1>1, <1>27, <2>1
<1>4. CASE CreateBatchLegs(t)
  <2>1. Backed(leg', chain) BY <1>4 DEF CreateBatchLegs, Backed
  <2> QED BY <1>4, <2>1, BackedSet, IdleBacked DEF CreateBatchLegs
<1>5. CASE LoadLegs(t)
  <2> DEFINE p == CASE thread[t].op = "commit" -> "committing"
                          [] thread[t].op = "execute" /\ ~CheckPreExecution(leg) -> "rollback"
                          [] OTHER -> "preparing"
             new == [x EXCEPT !.legs = leg, !.pc = p]
  <2>2. Set(t, new) BY <1>5 DEF LoadLegs
  <2> HIDE DEF p
  <2>3. new.legs = leg BY <1>0 DEF ThreadType
  <2> HIDE DEF new
  <2> QED BY <1>1, <1>5, <2>2, <2>3 DEF LoadLegs
<1>6. CASE PreparePhase(t) BY <1>6, <1>27 DEF PreparePhase
<1>7. CASE PreparePhasePrepared(t) BY <1>3, <1>7 DEF PreparePhasePrepared
<1>8. CASE PreparePhaseThrows(t) BY <1>8, <1>26 DEF PreparePhaseThrows
<1>9. CASE CommitPhase(t) BY <1>9, <1>27 DEF CommitPhase
<1>10. CASE CommitPhaseCommitted(t) BY <1>3, <1>10 DEF CommitPhaseCommitted
<1>11. CASE CommitPhaseFailed(t) BY <1>11, <1>20 DEF CommitPhaseFailed
<1>12. CASE RollbackPhase(t) BY <1>3, <1>12 DEF RollbackPhase
<1>13. CASE RollbackPhaseLegs(t)
  <2> DEFINE todo == {l \in Legs : leg[l] = "EXECUTED"}
             new == [x EXCEPT !.legs = leg, !.pc = "rollbackLegs", !.todo = todo]
  <2>2. Set(t, new) BY <1>13 DEF RollbackPhaseLegs
  <2> HIDE DEF todo
  <2>3. new.legs = leg BY <1>0 DEF ThreadType
  <2> HIDE DEF new
  <2> QED BY <1>1, <1>13, <2>2, <2>3 DEF RollbackPhaseLegs
<1>14. CASE RollbackLeg(t)
  <2>0. PICK l \in x.todo : IF x.legs[l] = "EXECUTED"
               THEN SaveLeg(t, l, "ROLLING_BACK", "done")
               ELSE /\ leg' = [leg EXCEPT ![l] = "ROLLED_BACK"]
                    /\ Set(t, [x EXCEPT !.legs = [@ EXCEPT ![l] = "ROLLED_BACK"], !.todo = @ \ {l}])
    BY <1>14 DEF RollbackLeg
  <2>1. l \in Legs /\ UNCHANGED chain BY <1>0, <1>14 DEF ThreadType, RollbackLeg
  <2>2. CASE x.legs[l] = "EXECUTED" BY <2>0, <2>1, <2>2, BackedSaveLeg
  <2>3. CASE x.legs[l] # "EXECUTED"
    <3> DEFINE new == [x EXCEPT !.legs = [@ EXCEPT ![l] = "ROLLED_BACK"], !.todo = @ \ {l}]
    <3>1. new.legs = [x.legs EXCEPT ![l] = "ROLLED_BACK"] BY <1>0 DEF ThreadType
    <3>2. Backed(new.legs, chain) BY <1>0, <1>00, <2>1, <3>1 DEF Backed, ThreadType
    <3>3. Backed(leg', chain) BY <1>0, <1>00, <2>0, <2>1, <2>3 DEF Backed
    <3>4. Set(t, new) BY <2>0, <2>3
    <3> HIDE DEF new
    <3> QED BY <2>1, <3>2, <3>3, <3>4, BackedSet
  <2> QED BY <2>2, <2>3
<1>15. CASE RollbackDone(t) BY <1>3, <1>15 DEF RollbackDone
<1>16. CASE Return(t) BY <1>2, <1>16 DEF Return, Finish
<1>17. CASE CancelBatchRollingBack(t) BY <1>3, <1>17 DEF CancelBatchRollingBack
<1>18. CASE CancelBatchLegs(t) BY <1>18, <1>20 DEF CancelBatchLegs
<1>19. CASE RollBackFound(t)
  <2>0. PICK l \in x.todo : leg' = [leg EXCEPT ![l] = "ROLLED_BACK"] /\ Set(t, [x EXCEPT !.todo = @ \ {l}])
    BY <1>19 DEF RollBackFound
  <2>1. l \in Legs /\ UNCHANGED chain BY <1>0, <1>19 DEF ThreadType, RollBackFound
  <2>2. Backed(leg', chain) BY <1>0, <1>00, <2>0, <2>1 DEF Backed
  <2>3. [x EXCEPT !.todo = @ \ {l}].legs = x.legs BY <1>0 DEF ThreadType
  <2> QED BY <1>00, <2>0, <2>1, <2>2, <2>3, BackedSet
<1>21. CASE CancelBatchDone(t) BY <1>2, <1>21 DEF CancelBatchDone
<1>22. CASE HandleBatchTimeout(t) BY <1>2, <1>22, <1>26 DEF HandleBatchTimeout
<1>23. CASE ExpireBatch(t) BY <1>3, <1>23 DEF ExpireBatch
<1>24. CASE ExpireBatchLegs(t) BY <1>20, <1>24 DEF ExpireBatchLegs
<1>25. CASE ExpireBatchDone(t) BY <1>2, <1>25 DEF ExpireBatchDone
<1> QED BY <1>4, <1>5, <1>6, <1>7, <1>8, <1>9, <1>10, <1>11, <1>12, <1>13, <1>14, <1>15, <1>16, <1>17,
           <1>18, <1>19, <1>21, <1>22, <1>23, <1>24, <1>25, BackedLeg DEF Step

\* And every step of the system.
LEMMA BackedNext == TypeOK /\ EffectsBacked /\ [Next]_vars => EffectsBacked'
<1> SUFFICES ASSUME TypeOK, EffectsBacked, [Next]_vars PROVE EffectsBacked' OBVIOUS
<1>0. Backed(leg, chain) BY DEF EffectsBacked
<1>1. ASSUME NEW r \in Requests, NEW op, NEW st, NEW pc, Accept(r, op, st, pc), UNCHANGED <<leg, chain>>
      PROVE  EffectsBacked'
  <2> DEFINE new == [Idle EXCEPT !.op = op, !.pc = pc, !.batch = batch]
  <2>1. new.legs = Idle.legs BY DEF Idle
  <2>2. Set(<<r, "request">>, new) /\ <<r, "request">> \in Threads BY <1>1 DEF Accept, Threads
  <2> HIDE DEF new
  <2> QED BY <1>0, <1>1, <2>1, <2>2, BackedSet, IdleBacked
<1>2. ASSUME NEW r \in Requests, CreateBatch(r) PROVE EffectsBacked' BY <1>1, <1>2 DEF CreateBatch
<1>3. ASSUME NEW r \in Requests, ExecuteBatch(r) PROVE EffectsBacked' BY <1>1, <1>3 DEF ExecuteBatch
<1>4. ASSUME NEW r \in Requests, PrepareBatch(r) PROVE EffectsBacked' BY <1>1, <1>4 DEF PrepareBatch
<1>5. ASSUME NEW r \in Requests, CommitBatch(r) PROVE EffectsBacked' BY <1>1, <1>5 DEF CommitBatch
<1>6. ASSUME NEW r \in Requests, CancelBatch(r) PROVE EffectsBacked' BY <1>1, <1>6 DEF CancelBatch
<1>7. ASSUME NEW r \in Requests, TimerFires(r) PROVE EffectsBacked'
  <2> DEFINE new == [Idle EXCEPT !.op = "timeout", !.pc = "expiring"]
  <2>1. new.legs = Idle.legs BY DEF Idle
  <2>2. Set(<<r, "timer">>, new) /\ <<r, "timer">> \in Threads /\ UNCHANGED <<leg, chain>>
    BY <1>7 DEF TimerFires, Threads
  <2> HIDE DEF new
  <2> QED BY <1>0, <2>1, <2>2, BackedSet, IdleBacked
<1>8. ASSUME NEW t \in Threads, Step(t) PROVE EffectsBacked' BY <1>8, BackedStep
<1>9. CASE Crash
  <2>1. UNCHANGED <<leg, chain>> /\ \A t \in Threads : thread'[t] = Idle BY <1>9 DEF Crash
  <2> QED BY <1>0, <2>1, IdleBacked DEF EffectsBacked
<1>10. CASE UNCHANGED vars BY <1>10 DEF vars, EffectsBacked
<1> QED BY <1>2, <1>3, <1>4, <1>5, <1>6, <1>7, <1>8, <1>9, <1>10 DEF Next

\* A leg that any row or copy calls EXECUTED is on the ledger, for any number
\* of clients, legs, retries and failures (executeLeg).
THEOREM ExecutedHappened == Spec => []ExecutedTookEffect
<1>1. Init => EffectsBacked BY DEF Init, EffectsBacked, Backed, Idle, NoLegs
<1>2. EffectsBacked => ExecutedTookEffect BY DEF EffectsBacked, Backed, ExecutedTookEffect
<1> QED BY <1>1, <1>2, BackedNext, BatchTyped, PTL DEF Spec

-----------------------------------------------------------------------------
(* One client drives the batch: what it relies on, and the others *)

\* One client drives the batch through its stages; the others may only cancel
\* it. Two clients that both drive it break the atomicity: the prepare of one
\* loads the legs before the create of the other has saved them, and commits
\* a batch without them.
OneClientDrives(r) == r \in Requests /\ \A q \in Requests \ {r} : Ops[q] \subseteq {"cancel"}

\* A leg with nothing left to do: never saved, skipped or rolled back.
Gone == {"ABSENT", "SKIPPED", "ROLLED_BACK"}

\* A leg that a prepared batch may hold.
Settled == Gone \cup {"PREPARED"}

\* Where a thread that cancels, expires or rests can be.
CalmPc == {"idle", "cancelling", "cancelLoad", "cancelled", "expiring", "expireBatch", "expireLoad", "expired"}

\* Every thread but the driver only cancels, expires or rests.
OthersCalm(d) == \A t \in Threads \ {d} : thread[t].pc \in CalmPc

\* The rows are the copy of the thread, but for the legs others rolled back.
Follows(x, rows) == \A l \in Legs : rows[l] \in {x.legs[l], "ROLLED_BACK"}

\* A batch becomes COMMITTED at the very end, with every leg on the ledger or
\* gone.
CommittedOK(x, b, rows, ch) ==
  b = "COMMITTED" => x.pc \in {"idle", "return"} /\ \A l \in Legs : ch[l] > 0 \/ rows[l] \in Gone

\* A PREPARED batch holds settled legs, and its driver is between two stages.
PreparedOK(x, b, rows) ==
  b = "PREPARED" => /\ x.pc \in {"idle", "return", "committing", "cancelling", "load"}
                    /\ x.pc = "load" => x.op = "commit"
                    /\ \A l \in Legs : rows[l] \in Settled

\* A commit that loads its legs finds them settled.
LoadOK(x, rows) == x.pc = "load" /\ x.op = "commit" => \A l \in Legs : rows[l] \in Settled

\* A prepare works on the legs that are stored.
PrepareOK(x, rows) == x.pc \in {"preparing", "prepareLegs"} => Follows(x, rows)

\* A commit works on the legs that are stored, and they are settled.
CommitOK(x, rows) == x.pc = "committing" => Follows(x, rows) /\ \A l \in Legs : x.legs[l] \in Settled

\* While legs are executed, each one that is through has its outcome, and
\* each one passed over was gone.
ExecuteOK(x, rows) ==
  x.pc = "executeLegs" =>
     \A l \in Legs : /\ x.at[l] \in {"save", "done"} => x.legs[l] \in {"EXECUTED", "FAILED"}
                     /\ x.at[l] = "passed" => rows[l] \in Gone

\* What the driver relies on, whatever the others do.
DriverOK(x, b, rows, ch) ==
  /\ CommittedOK(x, b, rows, ch)
  /\ PreparedOK(x, b, rows)
  /\ LoadOK(x, rows)
  /\ PrepareOK(x, rows)
  /\ CommitOK(x, rows)
  /\ ExecuteOK(x, rows)

\* The inductive invariant of a batch that one client drives.
DriverInv(d) == OthersCalm(d) /\ DriverOK(thread[d], batch, leg, chain)

\* What a cancellation or an expiry does to the rows: it rolls legs back.
Withdrawn(rows, new) == \A l \in Legs : new[l] = rows[l] \/ new[l] = "ROLLED_BACK"

\* A cancellation or an expiry does not disturb what the driver relies on.
LEMMA DriverKeeps ==
  ASSUME NEW x, NEW b, NEW rows, NEW ch, DriverOK(x, b, rows, ch),
         NEW c, c = b \/ c \in {"ROLLING_BACK", "ROLLED_BACK", "EXPIRED"},
         NEW new, Withdrawn(rows, new)
  PROVE  DriverOK(x, c, new, ch)
<1>1. CommittedOK(x, c, new, ch) BY DEF DriverOK, CommittedOK, Withdrawn, Gone
<1>2. PreparedOK(x, c, new) BY DEF DriverOK, PreparedOK, Withdrawn, Gone, Settled
<1>3. LoadOK(x, new) BY DEF DriverOK, LoadOK, Withdrawn, Gone, Settled
<1>4. PrepareOK(x, new) BY DEF DriverOK, PrepareOK, Withdrawn, Follows
<1>5. CommitOK(x, new) BY DEF DriverOK, CommitOK, Withdrawn, Follows
<1>6. ExecuteOK(x, new) BY DEF DriverOK, ExecuteOK, Withdrawn, Gone
<1> QED BY <1>1, <1>2, <1>3, <1>4, <1>5, <1>6 DEF DriverOK

\* A step of another thread leaves it calm.
LEMMA OtherSets ==
  ASSUME TypeOK, NEW d \in Threads, NEW t \in Threads \ {d}, OthersCalm(d), NEW x, Set(t, x), x.pc \in CalmPc
  PROVE  OthersCalm(d)' /\ thread'[d] = thread[d]
  BY DEF TypeOK, OthersCalm, Set

\* A step of the driver leaves the others as they are.
LEMMA DriverSets ==
  ASSUME TypeOK, NEW d \in Threads, OthersCalm(d), NEW x, Set(d, x)
  PROVE  OthersCalm(d)' /\ thread'[d] = x
  BY DEF TypeOK, OthersCalm, Set

\* A thread that does nothing is calm.
LEMMA IdleCalm == Idle.pc = "idle" /\ "idle" \in CalmPc BY DEF Idle, CalmPc

\* A step of any thread but the driver keeps the invariant (cancelBatch,
\* expireBatches).
LEMMA OtherStep ==
  ASSUME TypeOK, NEW d \in Threads, DriverInv(d), NEW t \in Threads \ {d}, Step(t)
  PROVE  DriverInv(d)'
<1> DEFINE x == thread[t]
           W == {"ROLLING_BACK", "ROLLED_BACK", "EXPIRED"}
<1>0. x \in ThreadType /\ x.pc \in CalmPc BY DEF TypeOK, DriverInv, OthersCalm
<1>1. SUFFICES /\ \E new : Set(t, new) /\ new.pc \in CalmPc
               /\ batch' = batch \/ batch' \in W
               /\ Withdrawn(leg, leg') /\ UNCHANGED chain
  BY OtherSets, DriverKeeps DEF DriverInv
<1>w. UNCHANGED leg => Withdrawn(leg, leg') BY DEF Withdrawn
<1>3. ASSUME NEW s \in W, NEW pc \in CalmPc, SaveBatch(t, s, pc), UNCHANGED <<leg, chain>> PROVE <1>1!1
  <2>1. [x EXCEPT !.batch = s, !.pc = pc].pc = pc BY <1>0 DEF ThreadType
  <2> QED BY <1>3, <1>w, <2>1 DEF SaveBatch
<1>4. ASSUME NEW pc \in CalmPc, NEW todo, Set(t, [x EXCEPT !.pc = pc, !.todo = todo]), UNCHANGED <<batch, leg, chain>>
      PROVE  <1>1!1
  <2>1. [x EXCEPT !.pc = pc, !.todo = todo].pc = pc BY <1>0 DEF ThreadType
  <2> QED BY <1>4, <1>w, <2>1
<1>5. CASE CancelBatchRollingBack(t) BY <1>3, <1>5 DEF CancelBatchRollingBack, CalmPc
<1>6. CASE CancelBatchLegs(t) BY <1>4, <1>6 DEF CancelBatchLegs, CalmPc
<1>7. CASE RollBackFound(t)
  <2>0. PICK l \in x.todo : leg' = [leg EXCEPT ![l] = "ROLLED_BACK"] /\ Set(t, [x EXCEPT !.todo = @ \ {l}])
    BY <1>7 DEF RollBackFound
  <2>1. Withdrawn(leg, leg') BY <2>0 DEF TypeOK, Withdrawn
  <2>2. [x EXCEPT !.todo = @ \ {l}].pc = x.pc BY <1>0 DEF ThreadType
  <2> QED BY <1>0, <1>7, <2>0, <2>1, <2>2 DEF RollBackFound
<1>8. CASE CancelBatchDone(t) BY <1>8, <1>w, IdleCalm DEF CancelBatchDone
<1>9. CASE HandleBatchTimeout(t)
  <2>1. [x EXCEPT !.pc = "expireBatch"].pc \in CalmPc BY <1>0 DEF ThreadType, CalmPc
  <2> QED BY <1>9, <1>w, <2>1, IdleCalm DEF HandleBatchTimeout, Goto
<1>10. CASE ExpireBatch(t) BY <1>3, <1>10 DEF ExpireBatch, CalmPc
<1>11. CASE ExpireBatchLegs(t) BY <1>4, <1>11 DEF ExpireBatchLegs, CalmPc
<1>12. CASE ExpireBatchDone(t) BY <1>12, <1>w, IdleCalm DEF ExpireBatchDone
<1>13. ~(\E l \in Legs : LegStep(t, l))
  BY <1>0 DEF LegStep, At, CalmPc, PrepareLeg, PrepareLegSave, ExecuteLeg, Invoking, InvokeLeg, InvokeLegFails,
              InvokeLegReplyLost, ExecuteLegSave
<1>14. ~(CreateBatchLegs(t) \/ LoadLegs(t) \/ PreparePhase(t) \/ PreparePhasePrepared(t) \/ PreparePhaseThrows(t))
  BY <1>0 DEF At, CalmPc, CreateBatchLegs, LoadLegs, PreparePhase, PreparePhasePrepared, PreparePhaseThrows
<1>15. ~(CommitPhase(t) \/ CommitPhaseCommitted(t) \/ CommitPhaseFailed(t) \/ RollbackPhase(t) \/ RollbackPhaseLegs(t))
  BY <1>0 DEF At, CalmPc, CommitPhase, CommitPhaseCommitted, CommitPhaseFailed, RollbackPhase, RollbackPhaseLegs
<1>16. ~(RollbackLeg(t) \/ RollbackDone(t) \/ Return(t))
  BY <1>0 DEF At, CalmPc, RollbackLeg, RollbackDone, Return
<1> QED BY <1>5, <1>6, <1>7, <1>8, <1>9, <1>10, <1>11, <1>12, <1>13, <1>14, <1>15, <1>16 DEF Step

-----------------------------------------------------------------------------
(* One client drives the batch: its own steps *)

\* The places where the driver relies on the legs it has read.
Bound == {"preparing", "prepareLegs", "committing", "executeLegs", "load"}

\* Elsewhere, with a batch that is neither prepared nor committed, it relies
\* on nothing.
LEMMA FreeOK ==
  ASSUME NEW x, NEW b, NEW rows, NEW ch, x.pc \notin Bound, b \notin {"COMMITTED", "PREPARED"}
  PROVE  DriverOK(x, b, rows, ch)
  BY DEF DriverOK, CommittedOK, PreparedOK, LoadOK, PrepareOK, CommitOK, ExecuteOK, Bound

\* While the driver is at work the batch is neither prepared nor committed.
LEMMA BusyBatch ==
  ASSUME NEW x, NEW b, NEW rows, NEW ch, DriverOK(x, b, rows, ch),
         x.pc \notin {"idle", "return", "committing", "cancelling", "load"}
  PROVE  b \notin {"COMMITTED", "PREPARED"}
  BY DEF DriverOK, CommittedOK, PreparedOK

\* The driver comes to rest.
LEMMA RestOK ==
  ASSUME NEW x, NEW b, NEW rows, NEW ch, DriverOK(x, b, rows, ch), x.pc \in {"idle", "return"},
         NEW y, y.pc = "idle"
  PROVE  DriverOK(y, b, rows, ch)
  BY DEF DriverOK, CommittedOK, PreparedOK, LoadOK, PrepareOK, CommitOK, ExecuteOK

\* The work of the driver on one leg keeps the invariant (executeLeg,
\* prepareLeg).
LEMMA DriverLeg ==
  ASSUME TypeOK, NEW d \in Threads, DriverInv(d), NEW l \in Legs, LegStep(d, l)
  PROVE  DriverInv(d)'
<1> DEFINE x == thread[d]
<1>0. x \in ThreadType /\ OthersCalm(d) /\ DriverOK(x, batch, leg, chain) /\ leg \in [Legs -> LegStatus \cup {"ABSENT"}]
  BY DEF TypeOK, DriverInv
<1>1. x.pc \in {"prepareLegs", "executeLegs"} /\ batch' = batch
  BY DEF LegStep, At, PrepareLeg, PrepareLegSave, ExecuteLeg, Invoking, InvokeLeg, InvokeLegFails,
         InvokeLegReplyLost, ExecuteLegSave
<1>2. batch' \notin {"COMMITTED", "PREPARED"} BY <1>0, <1>1, BusyBatch
<1>3. ASSUME NEW new, Set(d, new), PrepareOK(new, leg'), ExecuteOK(new, leg'), new.pc \in {"prepareLegs", "executeLegs"}
      PROVE  DriverInv(d)'
  <2>1. DriverOK(new, batch', leg', chain')
    BY <1>2, <1>3 DEF DriverOK, CommittedOK, PreparedOK, LoadOK, CommitOK
  <2> QED BY <1>0, <1>3, <2>1, DriverSets DEF DriverInv
<1>4. ASSUME NEW s, NEW a, SaveLeg(d, l, s, a), x.pc = "prepareLegs" PROVE DriverInv(d)'
  <2> DEFINE new == [x EXCEPT !.legs = [@ EXCEPT ![l] = s], !.at = [@ EXCEPT ![l] = a]]
  <2>1. Set(d, new) /\ leg' = [leg EXCEPT ![l] = s] BY <1>4 DEF SaveLeg
  <2>2. new.pc = "prepareLegs" /\ new.legs = [x.legs EXCEPT ![l] = s] BY <1>0, <1>4 DEF ThreadType
  <2>3. x.legs \in [Legs -> LegStatus \cup {"ABSENT"}] /\ Follows(x, leg) BY <1>0, <1>4 DEF ThreadType, DriverOK, PrepareOK
  <2>4. PrepareOK(new, leg') BY <1>0, <2>1, <2>2, <2>3 DEF PrepareOK, Follows
  <2>5. ExecuteOK(new, leg') BY <2>2 DEF ExecuteOK
  <2> HIDE DEF new
  <2> QED BY <1>3, <2>1, <2>2, <2>4, <2>5
<1>5. ASSUME NEW s, NEW a, SaveLeg(d, l, s, a), x.pc = "executeLegs", a \notin {"passed"}, x.at[l] # "passed",
             a \in {"save", "done"} => s \in {"EXECUTED", "FAILED"}
      PROVE  DriverInv(d)'
  <2> DEFINE new == [x EXCEPT !.legs = [@ EXCEPT ![l] = s], !.at = [@ EXCEPT ![l] = a]]
  <2>1. Set(d, new) /\ leg' = [leg EXCEPT ![l] = s] BY <1>5 DEF SaveLeg
  <2>2. new.pc = "executeLegs" /\ new.legs = [x.legs EXCEPT ![l] = s] /\ new.at = [x.at EXCEPT ![l] = a]
    BY <1>0, <1>5 DEF ThreadType
  <2>3. x.legs \in [Legs -> LegStatus \cup {"ABSENT"}] /\ ExecuteOK(x, leg)
    BY <1>0 DEF ThreadType, DriverOK
  <2>6. DOMAIN x.at = Legs BY <1>0 DEF ThreadType
  <2>4. PrepareOK(new, leg') BY <2>2 DEF PrepareOK
  <2>5. ExecuteOK(new, leg')
    <3> SUFFICES ASSUME NEW k \in Legs
                 PROVE  /\ new.at[k] \in {"save", "done"} => new.legs[k] \in {"EXECUTED", "FAILED"}
                        /\ new.at[k] = "passed" => leg'[k] \in Gone
      BY DEF ExecuteOK
    <3>1. /\ x.at[k] \in {"save", "done"} => x.legs[k] \in {"EXECUTED", "FAILED"}
          /\ x.at[k] = "passed" => leg[k] \in Gone
      BY <1>5, <2>3 DEF ExecuteOK
    <3>2. CASE k = l
      <4>1. new.at[k] = a /\ new.legs[k] = s BY <2>2, <2>3, <2>6, <3>2
      <4> HIDE DEF new
      <4> QED BY <1>5, <4>1
    <3>3. CASE k # l
      <4>1. new.at[k] = x.at[k] /\ new.legs[k] = x.legs[k] /\ leg'[k] = leg[k] BY <1>0, <2>1, <2>2, <2>3, <2>6, <3>3
      <4> HIDE DEF new
      <4> QED BY <3>1, <4>1
    <3> QED BY <3>2, <3>3
  <2> HIDE DEF new
  <2> QED BY <1>3, <2>1, <2>2, <2>4, <2>5
<1>6. ASSUME NEW s \in {"EXECUTED", "FAILED"}, Outcome(d, l, s), UNCHANGED leg, x.pc = "executeLegs" PROVE DriverInv(d)'
  <2> DEFINE new == [x EXCEPT !.legs = [@ EXCEPT ![l] = s], !.at = [@ EXCEPT ![l] = "save"]]
  <2>1. Set(d, new) BY <1>6 DEF Outcome
  <2>2. new.pc = "executeLegs" /\ new.legs = [x.legs EXCEPT ![l] = s] /\ new.at = [x.at EXCEPT ![l] = "save"]
    BY <1>0, <1>6 DEF ThreadType
  <2>3. DOMAIN x.legs = Legs /\ ExecuteOK(x, leg) /\ DOMAIN x.at = Legs
    BY <1>0 DEF ThreadType, DriverOK
  <2>4. PrepareOK(new, leg') BY <2>2 DEF PrepareOK
  <2>5. ExecuteOK(new, leg')
    <3> SUFFICES ASSUME NEW k \in Legs
                 PROVE  /\ new.at[k] \in {"save", "done"} => new.legs[k] \in {"EXECUTED", "FAILED"}
                        /\ new.at[k] = "passed" => leg[k] \in Gone
      BY <1>6 DEF ExecuteOK
    <3>1. /\ x.at[k] \in {"save", "done"} => x.legs[k] \in {"EXECUTED", "FAILED"}
          /\ x.at[k] = "passed" => leg[k] \in Gone
      BY <1>6, <2>3 DEF ExecuteOK
    <3>2. /\ new.at[k] = IF k = l THEN "save" ELSE x.at[k]
          /\ new.legs[k] = IF k = l THEN s ELSE x.legs[k] BY <2>2, <2>3
    <3> HIDE DEF new
    <3> QED BY <3>1, <3>2
  <2> HIDE DEF new
  <2> QED BY <1>3, <2>1, <2>2, <2>4, <2>5
<1>7. ASSUME Retry(d, l), UNCHANGED leg, x.pc = "executeLegs" PROVE DriverInv(d)'
  <2> DEFINE new == [x EXCEPT !.tries[l] = @ + 1]
  <2>1. Set(d, new) BY <1>7 DEF Retry
  <2>2. new.pc = x.pc /\ new.legs = x.legs /\ new.at = x.at BY <1>0 DEF ThreadType
  <2> HIDE DEF new
  <2>3. PrepareOK(new, leg') BY <1>7, <2>2 DEF PrepareOK
  <2>4. ExecuteOK(new, leg') BY <1>0, <1>7, <2>2 DEF ExecuteOK, DriverOK
  <2> QED BY <1>1, <1>3, <2>1, <2>2, <2>3, <2>4
<1>8. CASE PrepareLeg(d, l) BY <1>4, <1>8 DEF PrepareLeg, At
<1>9. CASE PrepareLegSave(d, l) BY <1>4, <1>9 DEF PrepareLegSave, At
<1>10. CASE ExecuteLeg(d, l) BY <1>5, <1>10 DEF ExecuteLeg, At
<1>11. CASE InvokeLeg(d, l) BY <1>6, <1>11 DEF InvokeLeg, Invoking, At
<1>12. CASE InvokeLegFails(d, l) BY <1>6, <1>7, <1>12 DEF InvokeLegFails, Invoking, At
<1>13. CASE InvokeLegReplyLost(d, l) BY <1>6, <1>7, <1>13 DEF InvokeLegReplyLost, Invoking, At
<1>14. CASE ExecuteLegSave(d, l)
  <2>1. x.legs[l] \in {"EXECUTED", "FAILED"} BY <1>0, <1>14 DEF ExecuteLegSave, At, DriverOK, ExecuteOK
  <2> QED BY <1>5, <1>14, <2>1 DEF ExecuteLegSave, At
<1> QED BY <1>8, <1>9, <1>10, <1>11, <1>12, <1>13, <1>14 DEF LegStep

\* So does every other step of the driver (createBatch, prepareBatch,
\* commitBatch).
LEMMA DriverStep ==
  ASSUME TypeOK, EffectsBacked, NEW d \in Threads, DriverInv(d), Step(d)
  PROVE  DriverInv(d)'
<1> DEFINE x == thread[d]
<1>0. x \in ThreadType /\ OthersCalm(d) /\ DriverOK(x, batch, leg, chain) /\ leg \in [Legs -> LegStatus \cup {"ABSENT"}]
  BY DEF TypeOK, DriverInv
<1>1. ASSUME NEW new, Set(d, new), DriverOK(new, batch', leg', chain') PROVE DriverInv(d)'
  BY <1>0, <1>1, DriverSets DEF DriverInv
<1>b. x.pc \notin {"idle", "return", "committing", "cancelling", "load"} => batch \notin {"COMMITTED", "PREPARED"}
  BY <1>0, BusyBatch
<1>2. ASSUME NEW new, Set(d, new), new.pc \notin Bound, batch' \notin {"COMMITTED", "PREPARED"} PROVE DriverInv(d)'
  BY <1>1, <1>2, FreeOK
<1>3. ASSUME NEW s, s \notin {"COMMITTED", "PREPARED"}, NEW pc, pc \notin Bound, SaveBatch(d, s, pc) PROVE DriverInv(d)'
  <2>1. [x EXCEPT !.batch = s, !.pc = pc].pc = pc BY <1>0 DEF ThreadType
  <2> QED BY <1>2, <1>3, <2>1 DEF SaveBatch
<1>20. ASSUME NEW pc, pc \notin Bound, NEW todo, Set(d, [x EXCEPT !.pc = pc, !.todo = todo]),
              batch' \notin {"COMMITTED", "PREPARED"} PROVE DriverInv(d)'
  <2>1. [x EXCEPT !.pc = pc, !.todo = todo].pc = pc BY <1>0 DEF ThreadType
  <2> QED BY <1>2, <1>20, <2>1
<1>26. ASSUME NEW pc, pc \notin Bound, Goto(d, pc), batch' \notin {"COMMITTED", "PREPARED"} PROVE DriverInv(d)'
  <2>1. [x EXCEPT !.pc = pc].pc = pc BY <1>0 DEF ThreadType
  <2> QED BY <1>2, <1>26, <2>1 DEF Goto
<1>i. Idle.pc = "idle" /\ "idle" \notin Bound BY DEF Idle, Bound
<1>4. CASE CreateBatchLegs(d) BY <1>2, <1>4, <1>b, <1>i DEF CreateBatchLegs, At
<1>5. CASE LoadLegs(d)
  <2> DEFINE p == CASE thread[d].op = "commit" -> "committing"
                          [] thread[d].op = "execute" /\ ~CheckPreExecution(leg) -> "rollback"
                          [] OTHER -> "preparing"
             new == [x EXCEPT !.legs = leg, !.pc = p]
  <2>1. Set(d, new) /\ UNCHANGED <<batch, leg, chain>> /\ x.pc = "load" /\ x.op \in {"execute", "prepare", "commit"}
    BY <1>5 DEF LoadLegs, At
  <2>2. (x.op = "commit" /\ p = "committing") \/ (x.op # "commit" /\ p \in {"rollback", "preparing"}) BY <2>1
  <2> HIDE DEF p
  <2>3. new.legs = leg /\ new.pc = p /\ new.op = x.op BY <1>0 DEF ThreadType
  <2> HIDE DEF new
  <2>4. batch # "COMMITTED" /\ (x.op # "commit" => batch # "PREPARED") BY <1>0, <2>1 DEF DriverOK, CommittedOK, PreparedOK
  <2>5. Follows(new, leg) BY <2>3 DEF Follows
  <2>6. x.op = "commit" => \A l \in Legs : leg[l] \in Settled BY <1>0, <2>1 DEF DriverOK, LoadOK
  <2>7. DriverOK(new, batch, leg, chain)
    BY <2>2, <2>3, <2>4, <2>5, <2>6 DEF DriverOK, CommittedOK, PreparedOK, LoadOK, PrepareOK, CommitOK, ExecuteOK
  <2> QED BY <1>1, <2>1, <2>7
<1>6. CASE PreparePhase(d)
  <2> DEFINE at == [l \in Legs |-> IF l \in Loaded(d) THEN "start" ELSE "passed"]
             new == [x EXCEPT !.batch = "PREPARING", !.pc = "prepareLegs", !.at = at]
  <2>1. Set(d, new) /\ UNCHANGED <<leg, chain>> /\ x.pc = "preparing" /\ batch' = "PREPARING" BY <1>6 DEF PreparePhase, At
  <2> HIDE DEF at
  <2>3. new.legs = x.legs /\ new.pc = "prepareLegs" BY <1>0 DEF ThreadType
  <2> HIDE DEF new
  <2>4. Follows(new, leg) BY <1>0, <2>1, <2>3 DEF Follows, DriverOK, PrepareOK
  <2>5. DriverOK(new, batch', leg, chain)
    BY <2>1, <2>3, <2>4 DEF DriverOK, CommittedOK, PreparedOK, LoadOK, PrepareOK, CommitOK, ExecuteOK
  <2> QED BY <1>1, <2>1, <2>5
<1>7. CASE PreparePhasePrepared(d)
  <2> DEFINE p == IF thread[d].op = "execute" THEN "committing" ELSE "return"
             new == [x EXCEPT !.batch = "PREPARED", !.pc = p]
  <2>1. Set(d, new) /\ UNCHANGED <<leg, chain>> /\ x.pc = "prepareLegs" /\ batch' = "PREPARED" /\ p \in {"committing", "return"}
    BY <1>7 DEF PreparePhasePrepared, At, SaveBatch
  <2> HIDE DEF p
  <2>3. new.legs = x.legs /\ new.pc = p BY <1>0 DEF ThreadType
  <2> HIDE DEF new
  <2>4. Follows(x, leg) BY <1>0, <2>1 DEF DriverOK, PrepareOK
  <2>5. \A l \in Legs : x.legs[l] \in Settled
    BY <1>7 DEF PreparePhasePrepared, AllPrepared, Loaded, Settled, Gone
  <2>6. \A l \in Legs : leg[l] \in Settled BY <2>4, <2>5 DEF Follows, Settled, Gone
  <2>7. Follows(new, leg) /\ \A l \in Legs : new.legs[l] \in Settled BY <2>3, <2>4, <2>5 DEF Follows
  <2>8. DriverOK(new, batch', leg, chain)
    BY <2>1, <2>3, <2>6, <2>7 DEF DriverOK, CommittedOK, PreparedOK, LoadOK, PrepareOK, CommitOK, ExecuteOK
  <2> QED BY <1>1, <2>1, <2>8
<1>8. CASE PreparePhaseThrows(d)
  <2> DEFINE p == IF thread[d].op = "execute" THEN "rollback" ELSE "return"
  <2>1. Goto(d, p) /\ p \notin Bound /\ x.pc = "prepareLegs" /\ batch' = batch BY <1>8 DEF PreparePhaseThrows, At, Bound
  <2> HIDE DEF p
  <2> QED BY <1>26, <1>b, <2>1
<1>9. CASE CommitPhase(d)
  <2> DEFINE at == NotPreparedPassed(d)
             new == [x EXCEPT !.batch = "COMMITTING", !.pc = "executeLegs", !.at = at]
  <2>1. Set(d, new) /\ UNCHANGED <<leg, chain>> /\ x.pc = "committing" /\ batch' = "COMMITTING" BY <1>9 DEF CommitPhase, At
  <2>2. \A l \in Legs : at[l] = (IF x.legs[l] = "PREPARED" THEN "start" ELSE "passed") BY DEF NotPreparedPassed
  <2> HIDE DEF at
  <2>3. new.legs = x.legs /\ new.pc = "executeLegs" /\ new.at = at BY <1>0 DEF ThreadType
  <2> HIDE DEF new
  <2>4. Follows(x, leg) /\ \A l \in Legs : x.legs[l] \in Settled BY <1>0, <2>1 DEF DriverOK, CommitOK
  <2>5. ExecuteOK(new, leg) BY <2>2, <2>3, <2>4 DEF ExecuteOK, Follows, Settled, Gone
  <2>6. DriverOK(new, batch', leg, chain)
    BY <2>1, <2>3, <2>5 DEF DriverOK, CommittedOK, PreparedOK, LoadOK, PrepareOK, CommitOK
  <2> QED BY <1>1, <2>1, <2>6
<1>10. CASE CommitPhaseCommitted(d)
  <2> DEFINE new == [x EXCEPT !.batch = "COMMITTED", !.pc = "return"]
  <2>1. Set(d, new) /\ UNCHANGED <<leg, chain>> /\ x.pc = "executeLegs" /\ batch' = "COMMITTED"
    BY <1>10 DEF CommitPhaseCommitted, At, SaveBatch
  <2>2. new.pc = "return" BY <1>0 DEF ThreadType
  <2> HIDE DEF new
  <2>3. ASSUME NEW l \in Legs PROVE chain[l] > 0 \/ leg[l] \in Gone
    <3>1. x.at[l] \in {"done", "passed"} /\ ~(x.at[l] = "done" /\ x.legs[l] = "FAILED")
      BY <1>10 DEF CommitPhaseCommitted, AllDone, FailedLegs
    <3>2. CASE x.at[l] = "passed" BY <1>0, <2>1, <3>2 DEF DriverOK, ExecuteOK
    <3>3. CASE x.at[l] = "done"
      <4>1. x.legs[l] = "EXECUTED" BY <1>0, <2>1, <3>1, <3>3 DEF DriverOK, ExecuteOK
      <4> QED BY <4>1 DEF EffectsBacked, Backed
    <3> QED BY <3>1, <3>2, <3>3
  <2>4. DriverOK(new, batch', leg, chain)
    BY <2>1, <2>2, <2>3 DEF DriverOK, CommittedOK, PreparedOK, LoadOK, PrepareOK, CommitOK, ExecuteOK
  <2> QED BY <1>1, <2>1, <2>4
<1>11. CASE CommitPhaseFailed(d) BY <1>11, <1>20, <1>b DEF CommitPhaseFailed, At, Bound
<1>12. CASE RollbackPhase(d) BY <1>3, <1>12 DEF RollbackPhase, Bound
<1>13. CASE RollbackPhaseLegs(d)
  <2> DEFINE todo == {l \in Legs : leg[l] = "EXECUTED"}
             new == [x EXCEPT !.legs = leg, !.pc = "rollbackLegs", !.todo = todo]
  <2>2. Set(d, new) /\ batch' = batch /\ x.pc = "rollbackLoad" BY <1>13 DEF RollbackPhaseLegs, At
  <2> HIDE DEF todo
  <2>3. new.pc \notin Bound BY <1>0 DEF ThreadType, Bound
  <2> HIDE DEF new
  <2> QED BY <1>2, <1>b, <2>2, <2>3
<1>14. CASE RollbackLeg(d)
  <2>0. PICK l \in x.todo : IF x.legs[l] = "EXECUTED"
               THEN SaveLeg(d, l, "ROLLING_BACK", "done")
               ELSE /\ leg' = [leg EXCEPT ![l] = "ROLLED_BACK"]
                    /\ Set(d, [x EXCEPT !.legs = [@ EXCEPT ![l] = "ROLLED_BACK"], !.todo = @ \ {l}])
    BY <1>14 DEF RollbackLeg
  <2>1. x.pc = "rollbackLegs" /\ batch' = batch BY <1>14 DEF RollbackLeg, At
  <2>2. [x EXCEPT !.legs = [@ EXCEPT ![l] = "ROLLED_BACK"], !.todo = @ \ {l}].pc \notin Bound
    BY <1>0, <2>1 DEF ThreadType, Bound
  <2>3. [x EXCEPT !.legs = [@ EXCEPT ![l] = "ROLLING_BACK"], !.at = [@ EXCEPT ![l] = "done"]].pc \notin Bound
    BY <1>0, <2>1 DEF ThreadType, Bound
  <2> QED BY <1>2, <1>b, <2>0, <2>1, <2>2, <2>3 DEF SaveLeg
<1>15. CASE RollbackDone(d) BY <1>3, <1>15 DEF RollbackDone, Bound
<1>16. CASE Return(d)
  <2>1. DriverOK(Idle, batch, leg, chain) BY <1>0, <1>16, <1>i, RestOK DEF Return, At
  <2> QED BY <1>1, <1>16, <2>1 DEF Return, Finish
<1>17. CASE CancelBatchRollingBack(d) BY <1>3, <1>17 DEF CancelBatchRollingBack, Bound
<1>18. CASE CancelBatchLegs(d) BY <1>18, <1>20, <1>b DEF CancelBatchLegs, At, Bound
<1>19. CASE RollBackFound(d)
  <2>0. PICK l \in x.todo : leg' = [leg EXCEPT ![l] = "ROLLED_BACK"] /\ Set(d, [x EXCEPT !.todo = @ \ {l}])
    BY <1>19 DEF RollBackFound
  <2>1. [x EXCEPT !.todo = @ \ {l}].pc = x.pc /\ x.pc \in {"cancelled", "expired"} /\ batch' = batch
    BY <1>0, <1>19 DEF ThreadType, RollBackFound
  <2> QED BY <1>2, <1>b, <2>0, <2>1 DEF Bound
<1>21. CASE CancelBatchDone(d) BY <1>2, <1>21, <1>i DEF CancelBatchDone
<1>22. CASE HandleBatchTimeout(d) BY <1>2, <1>22, <1>26, <1>b, <1>i DEF HandleBatchTimeout, At, Bound
<1>23. CASE ExpireBatch(d) BY <1>3, <1>23 DEF ExpireBatch, Bound
<1>24. CASE ExpireBatchLegs(d) BY <1>20, <1>24, <1>b DEF ExpireBatchLegs, At, Bound
<1>25. CASE ExpireBatchDone(d) BY <1>2, <1>25, <1>b, <1>i DEF ExpireBatchDone, At
<1> QED BY <1>4, <1>5, <1>6, <1>7, <1>8, <1>9, <1>10, <1>11, <1>12, <1>13, <1>14, <1>15, <1>16, <1>17,
           <1>18, <1>19, <1>21, <1>22, <1>23, <1>24, <1>25, DriverLeg DEF Step

\* And every step of the system, the start of requests included.
LEMMA DriverNext ==
  ASSUME NEW r, OneClientDrives(r)
  PROVE  TypeOK /\ EffectsBacked /\ DriverInv(<<r, "request">>) /\ [Next]_vars => DriverInv(<<r, "request">>)'
<1> DEFINE d == <<r, "request">>
           x == thread[d]
<1> SUFFICES ASSUME TypeOK, EffectsBacked, DriverInv(d), [Next]_vars PROVE DriverInv(d)' OBVIOUS
<1>d. d \in Threads /\ r \in Requests BY DEF Threads, OneClientDrives
<1>0. x \in ThreadType /\ OthersCalm(d) /\ DriverOK(x, batch, leg, chain) BY <1>d DEF TypeOK, DriverInv
<1>1. ASSUME NEW q \in Requests, NEW op, op # "cancel", NEW st, NEW pc, Accept(q, op, st, pc), UNCHANGED <<leg, chain>>,
             pc = "load" \/ pc = "saveLegs", op = "commit" => batch = "PREPARED" /\ pc = "load",
             batch \notin {"COMMITTED"}, op # "commit" => batch # "PREPARED",
             batch' = batch \/ batch' = "CREATED", op = "commit" => batch' = batch
      PROVE  DriverInv(d)'
  <2> DEFINE new == [Idle EXCEPT !.op = op, !.pc = pc, !.batch = batch]
  <2>0. q = r BY <1>1 DEF Accept, OneClientDrives
  <2>1. new.pc = pc /\ new.op = op BY DEF Idle
  <2>2. Set(d, new) BY <1>1, <2>0 DEF Accept
  <2> HIDE DEF new
  <2>3. op = "commit" => \A l \in Legs : leg[l] \in Settled BY <1>0, <1>1 DEF DriverOK, PreparedOK
  <2>4. DriverOK(new, batch', leg, chain)
    BY <1>1, <2>1, <2>3 DEF DriverOK, CommittedOK, PreparedOK, LoadOK, PrepareOK, CommitOK, ExecuteOK
  <2> QED BY <1>0, <1>1, <1>d, <2>2, <2>4, DriverSets DEF DriverInv
<1>2. ASSUME NEW q \in Requests, CreateBatch(q) PROVE DriverInv(d)' BY <1>1, <1>2 DEF CreateBatch, Accept
<1>3. ASSUME NEW q \in Requests, ExecuteBatch(q) PROVE DriverInv(d)' BY <1>1, <1>3 DEF ExecuteBatch, Accept
<1>4. ASSUME NEW q \in Requests, PrepareBatch(q) PROVE DriverInv(d)' BY <1>1, <1>4 DEF PrepareBatch, Accept
<1>5. ASSUME NEW q \in Requests, CommitBatch(q) PROVE DriverInv(d)' BY <1>1, <1>5 DEF CommitBatch, Accept
<1>6. ASSUME NEW q \in Requests, CancelBatch(q) PROVE DriverInv(d)'
  <2> DEFINE pc == IF batch = "CREATED" THEN "cancelled" ELSE "cancelling"
             new == [Idle EXCEPT !.op = "cancel", !.pc = pc, !.batch = batch]
             c == <<q, "request">>
  <2>0. thread[c] = Idle /\ Set(c, new) /\ c \in Threads /\ batch \in {"CREATED", "PREPARING", "PREPARED"}
        /\ UNCHANGED <<batch, leg, chain>>
    BY <1>6 DEF CancelBatch, Accept, Threads
  <2>1. pc \in {"cancelled", "cancelling"} /\ (batch = "PREPARED" => pc = "cancelling") BY <2>0
  <2> HIDE DEF pc
  <2>2. new.pc = pc BY DEF Idle
  <2> HIDE DEF new
  <2>3. CASE c = d
    <3>1. DriverOK(new, batch', leg', chain')
      BY <1>0, <2>0, <2>1, <2>2 DEF DriverOK, CommittedOK, PreparedOK, LoadOK, PrepareOK, CommitOK, ExecuteOK
    <3> QED BY <1>0, <1>d, <2>0, <2>3, <3>1, DriverSets DEF DriverInv
  <2>4. CASE c # d BY <1>0, <1>d, <2>0, <2>1, <2>2, <2>4, OtherSets DEF DriverInv, CalmPc
  <2> QED BY <2>3, <2>4
<1>7. ASSUME NEW q \in Requests, TimerFires(q) PROVE DriverInv(d)'
  <2> DEFINE new == [Idle EXCEPT !.op = "timeout", !.pc = "expiring"]
  <2>1. new.pc \in CalmPc BY DEF Idle, CalmPc
  <2>2. Set(<<q, "timer">>, new) /\ <<q, "timer">> \in Threads /\ UNCHANGED <<batch, leg, chain>> /\ <<q, "timer">> # d
    BY <1>7 DEF TimerFires, Threads
  <2> HIDE DEF new
  <2> QED BY <1>0, <1>d, <2>1, <2>2, OtherSets DEF DriverInv
<1>8. ASSUME NEW t \in Threads, Step(t) PROVE DriverInv(d)' BY <1>8, <1>d, DriverStep, OtherStep
<1>9. CASE Crash
  <2>1. UNCHANGED <<batch, leg, chain>> /\ \A t \in Threads : thread'[t] = Idle BY <1>9 DEF Crash
  <2>2. DriverOK(Idle, batch, leg, chain)
    BY <1>0, IdleCalm DEF DriverOK, CommittedOK, PreparedOK, LoadOK, PrepareOK, CommitOK, ExecuteOK
  <2> QED BY <1>d, <2>1, <2>2, IdleCalm DEF DriverInv, OthersCalm
<1>10. CASE UNCHANGED vars BY <1>10 DEF vars, DriverInv, OthersCalm
<1> QED BY <1>2, <1>3, <1>4, <1>5, <1>6, <1>7, <1>8, <1>9, <1>10 DEF Next

\* A batch that reports COMMITTED has every leg on the ledger, skipped or
\* rolled back, for any number of legs, retries, failures, cancellations and
\* expiries, as long as one client drives it (commitBatch, executeBatch).
THEOREM BatchAtomic ==
  ASSUME NEW r, OneClientDrives(r)
  PROVE  Spec => []BatchIsAtomic
<1> DEFINE d == <<r, "request">>
<1>1. Init => EffectsBacked /\ DriverInv(d)
  <2> SUFFICES ASSUME Init PROVE EffectsBacked /\ DriverInv(d) OBVIOUS
  <2>1. d \in Threads /\ \A t \in Threads : thread[t] = Idle BY DEF Init, Threads, OneClientDrives
  <2>2. DriverOK(Idle, batch, leg, chain) BY FreeOK DEF Init, Idle, Bound
  <2>3. DriverInv(d) BY <2>1, <2>2, IdleCalm DEF DriverInv, OthersCalm
  <2>4. EffectsBacked BY DEF Init, EffectsBacked, Backed, Idle, NoLegs
  <2> QED BY <2>3, <2>4
<1>2. TypeOK /\ EffectsBacked /\ DriverInv(d) => BatchIsAtomic
  BY DEF BatchIsAtomic, EffectsBacked, Backed, ExecutedTookEffect, DriverInv, DriverOK, CommittedOK, CommittedIsComplete, Gone
<1>3. TypeOK /\ EffectsBacked /\ DriverInv(d) /\ [Next]_vars => DriverInv(d)' BY DriverNext
<1> HIDE DEF d
<1> QED BY <1>1, <1>2, <1>3, BackedNext, BatchTyped, PTL DEF Spec
=============================================================================
