-------------------------- MODULE BatchCoordinator --------------------------
(***************************************************************************)
(* One multi-leg swap batch and its two-phase commit                       *)
(* (src/src/modules/transaction-coordinator: the coordinator and the       *)
(* executor services).                                                     *)
(*                                                                         *)
(* Handlers run as threads that interleave at every await: requests, and   *)
(* for every executeBatch a timer.  Each keeps its own copy of the batch   *)
(* and of the legs, and save() writes the copy back whatever the row has   *)
(* become.  The legs of one layer are prepared and executed in parallel.   *)
(* Audit rows and events are left out.                                     *)
(***************************************************************************)
EXTENDS Integers, FiniteSets

CONSTANTS
    Legs,           \* the legs of the batch, a set of order indices
    DependsOn,      \* the indices each leg names in its dependencies
    Conditional,    \* the legs with a price condition
    Requests,       \* requests that can be in progress at the same time
    Ops,            \* the operations each request may call
    Timeouts,       \* whether a timer may fire
    Faults,         \* whether simulations and invocations may fail
    LostReplies,    \* whether an invocation may take effect and still fail
    MaxCrashes,     \* bound on the crashes of the process
    MaxChain        \* bound on the invocations of a leg that take effect

ASSUME BatchAssumption ==
    /\ Legs \subseteq Nat /\ IsFiniteSet(Legs) /\ Legs # {}
    /\ DependsOn \in [Legs -> SUBSET Legs]
    /\ \A l \in Legs : \A d \in DependsOn[l] : d < l
    /\ Conditional \subseteq Legs
    /\ Ops \in [Requests -> SUBSET {"create", "execute", "prepare", "commit", "cancel"}]
    /\ Timeouts \in BOOLEAN /\ Faults \in BOOLEAN /\ LostReplies \in BOOLEAN
    /\ MaxCrashes \in Nat /\ MaxChain \in Nat

BatchStatus == {"CREATED", "PREPARING", "PREPARED", "COMMITTING", "COMMITTED", "ROLLING_BACK",
                "ROLLED_BACK", "FAILED", "EXPIRED"}
LegStatus == {"PENDING", "PREPARING", "PREPARED", "EXECUTING", "EXECUTED", "ROLLING_BACK",
              "ROLLED_BACK", "FAILED", "SKIPPED"}

\* maxRetries of executeLeg: three attempts in all.
MaxRetries == 2

Threads == Requests \X {"request", "timer"}
NoTimer == "none"

VARIABLES
    batch,     \* status of the row of transaction_batches
    leg,       \* status of each row of batch_legs
    chain,     \* how many invocations of each leg took effect on chain
    thread,    \* the handlers in progress
    armed,     \* the requests whose timer is running
    timer,     \* batchTimeouts: the timer registered for the batch
    crashes

vars == <<batch, leg, chain, thread, armed, timer, crashes>>

NoLegs == [l \in Legs |-> "ABSENT"]

Idle == [op |-> "none", pc |-> "idle", batch |-> "ABSENT", legs |-> NoLegs,
         at |-> [l \in Legs |-> "start"], tries |-> [l \in Legs |-> 0], todo |-> {}]

Init ==
    /\ batch = "ABSENT"
    /\ leg = NoLegs
    /\ chain = [l \in Legs |-> 0]
    /\ thread = [t \in Threads |-> Idle]
    /\ armed = {}
    /\ timer = NoTimer
    /\ crashes = 0

-----------------------------------------------------------------------------
(* Steps of a handler *)

At(t, pc) == thread[t].pc = pc
Set(t, new) == thread' = [thread EXCEPT ![t] = new]
Goto(t, pc) == Set(t, [thread[t] EXCEPT !.pc = pc])

\* batchRepo.save of the thread's copy with a new status
SaveBatch(t, status, pc) ==
    /\ batch' = status
    /\ Set(t, [thread[t] EXCEPT !.batch = status, !.pc = pc])

\* legRepo.save of the thread's copy of one leg with a new status
SaveLeg(t, l, status, at) ==
    /\ leg' = [leg EXCEPT ![l] = status]
    /\ Set(t, [thread[t] EXCEPT !.legs = [@ EXCEPT ![l] = status], !.at = [@ EXCEPT ![l] = at]])

Accept(r, op, statuses, pc) ==
    /\ op \in Ops[r]
    /\ thread[<<r, "request">>] = Idle
    /\ batch \in statuses
    /\ Set(<<r, "request">>, [Idle EXCEPT !.op = op, !.pc = pc, !.batch = batch])

AllDone(t) == \A l \in Legs : thread[t].at[l] \in {"done", "passed"}

\* A request that returns stops its timer and forgets the registered one.
Finish(t) ==
    /\ Set(t, Idle)
    /\ IF thread[t].op = "execute"
         THEN armed' = armed \ {t[1]} /\ timer' = NoTimer
         ELSE UNCHANGED <<armed, timer>>

-----------------------------------------------------------------------------
(* createBatch: the batch and its legs are two saves *)

CreateBatch(r) ==
    /\ Accept(r, "create", {"ABSENT"}, "saveLegs")
    /\ batch' = "CREATED"
    /\ UNCHANGED <<leg, chain, armed, timer, crashes>>

CreateBatchLegs(t) ==
    /\ At(t, "saveLegs")
    /\ leg' = [l \in Legs |-> "PENDING"]
    /\ Set(t, Idle)
    /\ UNCHANGED <<batch, chain, armed, timer, crashes>>

-----------------------------------------------------------------------------
(* executeBatch, prepareBatch, commitBatch: accept and load the legs *)

\* executeWithTimeout starts the timer, then the executor.
ExecuteBatch(r) ==
    /\ Accept(r, "execute", {"CREATED"}, "load")
    /\ armed' = armed \cup {r}
    /\ timer' = r
    /\ UNCHANGED <<batch, leg, chain, crashes>>

PrepareBatch(r) ==
    /\ Accept(r, "prepare", {"CREATED"}, "load")
    /\ UNCHANGED <<batch, leg, chain, armed, timer, crashes>>

CommitBatch(r) ==
    /\ Accept(r, "commit", {"PREPARED"}, "load")
    /\ UNCHANGED <<batch, leg, chain, armed, timer, crashes>>

\* checkPreExecution, of executeBatch only.  The checks of amounts and bounds
\* depend on fixed data alone and pass for the batches modelled.
CheckPreExecution(legs) == \A l \in Legs : legs[l] = "PENDING"

LoadLegs(t) ==
    /\ At(t, "load")
    /\ thread[t].op \in {"execute", "prepare", "commit"}
    /\ Set(t, [thread[t] EXCEPT !.legs = leg,
                 !.pc = CASE thread[t].op = "commit" -> "committing"
                          [] thread[t].op = "execute" /\ ~CheckPreExecution(leg) -> "rollback"
                          [] OTHER -> "preparing"])
    /\ UNCHANGED <<batch, leg, chain, armed, timer, crashes>>

-----------------------------------------------------------------------------
(* preparePhase *)

\* createBatch stores a dependency on leg d as "order_<d>" ...
StoredDependencies(l) == {<<"order", d>> : d \in DependsOn[l]}

\* ... and buildGraphFromLegs looks it up among the ids of the legs.
HasEdge(d, l) == <<"id", d>> \in StoredDependencies(l)

\* The first execution layer.  There is no edge, so it holds every leg, and
\* there is no second one.
ExecutionLayer == {l \in Legs : ~\E d \in Legs : HasEdge(d, l)}

\* A layer's legs become completed only after all of them were prepared.
DepsMet(l, completedLegs) == \A dep \in StoredDependencies(l) : dep[2] \in completedLegs

\* The legs that legRepo.find returned; none before createBatch saved them.
Loaded(t) == {l \in Legs : thread[t].legs[l] # "ABSENT"}

PreparePhase(t) ==
    /\ At(t, "preparing")
    /\ batch' = "PREPARING"
    /\ Set(t, [thread[t] EXCEPT !.batch = "PREPARING", !.pc = "prepareLegs",
                 !.at = [l \in Legs |-> IF l \in Loaded(t) THEN "start" ELSE "passed"]])
    /\ UNCHANGED <<leg, chain, armed, timer, crashes>>

PrepareLeg(t, l) ==
    /\ At(t, "prepareLegs")
    /\ l \in ExecutionLayer
    /\ thread[t].at[l] = "start"
    /\ SaveLeg(t, l, "PREPARING", "busy")
    /\ UNCHANGED <<batch, chain, armed, timer, crashes>>

\* The simulation succeeds or fails, with its retries; it changes nothing on
\* chain.  A condition that does not hold, or cannot be read, skips the leg.
PrepareLegOutcomes(l) ==
    IF ~DepsMet(l, {}) THEN {"FAILED"}
    ELSE {"PREPARED"} \cup (IF Faults THEN {"FAILED"} ELSE {})
                      \cup (IF l \in Conditional THEN {"SKIPPED"} ELSE {})

PrepareLegSave(t, l) ==
    /\ At(t, "prepareLegs")
    /\ thread[t].at[l] = "busy"
    /\ \E status \in PrepareLegOutcomes(l) : SaveLeg(t, l, status, "done")
    /\ UNCHANGED <<batch, chain, armed, timer, crashes>>

AllPrepared(t) == \A l \in Loaded(t) : thread[t].legs[l] \in {"PREPARED", "SKIPPED"}

PreparePhasePrepared(t) ==
    /\ At(t, "prepareLegs")
    /\ AllDone(t) /\ AllPrepared(t)
    /\ SaveBatch(t, "PREPARED", IF thread[t].op = "execute" THEN "committing" ELSE "return")
    /\ UNCHANGED <<leg, chain, armed, timer, crashes>>

\* A leg failed, or an expected output is out of bounds (checkPostPrepare):
\* executeBatch rolls back, prepareBatch passes the error on and leaves the
\* batch as it is.
PreparePhaseThrows(t) ==
    /\ At(t, "prepareLegs")
    /\ AllDone(t)
    /\ ~AllPrepared(t) \/ (Faults /\ \E l \in Legs : thread[t].legs[l] = "PREPARED")
    /\ Goto(t, IF thread[t].op = "execute" THEN "rollback" ELSE "return")
    /\ UNCHANGED <<batch, leg, chain, armed, timer, crashes>>

-----------------------------------------------------------------------------
(* commitPhase *)

\* Legs of the thread's copy that are not PREPARED are passed over.
NotPreparedPassed(t) ==
    [l \in Legs |-> IF thread[t].legs[l] = "PREPARED" THEN "start" ELSE "passed"]

CommitPhase(t) ==
    /\ At(t, "committing")
    /\ batch' = "COMMITTING"
    /\ Set(t, [thread[t] EXCEPT !.batch = "COMMITTING", !.pc = "executeLegs",
                                !.at = NotPreparedPassed(t)])
    /\ UNCHANGED <<leg, chain, armed, timer, crashes>>

ExecuteLeg(t, l) ==
    /\ At(t, "executeLegs")
    /\ thread[t].at[l] = "start"
    /\ SaveLeg(t, l, "EXECUTING", "invoke")
    /\ UNCHANGED <<batch, chain, armed, timer, crashes>>

\* The outcome of an invocation: the thread's copy has it, the row not yet.
Outcome(t, l, status) ==
    Set(t, [thread[t] EXCEPT !.legs = [@ EXCEPT ![l] = status], !.at = [@ EXCEPT ![l] = "save"]])
Retry(t, l) == Set(t, [thread[t] EXCEPT !.tries[l] = @ + 1])

Invoking(t, l) == At(t, "executeLegs") /\ thread[t].at[l] = "invoke"

InvokeLeg(t, l) ==
    /\ Invoking(t, l)
    /\ chain[l] < MaxChain
    /\ chain' = [chain EXCEPT ![l] = @ + 1]
    /\ Outcome(t, l, "EXECUTED")
    /\ UNCHANGED <<batch, leg, armed, timer, crashes>>

\* executeWithRetry: a transport error is retried up to the limit, another
\* error is final.
InvokeLegFails(t, l) ==
    /\ Faults
    /\ Invoking(t, l)
    /\ \/ thread[t].tries[l] < MaxRetries /\ Retry(t, l)
       \/ Outcome(t, l, "FAILED")
    /\ UNCHANGED <<batch, leg, chain, armed, timer, crashes>>

\* The transaction took effect, the reply was lost.
InvokeLegReplyLost(t, l) ==
    /\ LostReplies
    /\ Invoking(t, l)
    /\ chain[l] < MaxChain
    /\ chain' = [chain EXCEPT ![l] = @ + 1]
    /\ \/ thread[t].tries[l] < MaxRetries /\ Retry(t, l)
       \/ thread[t].tries[l] = MaxRetries /\ Outcome(t, l, "FAILED")
    /\ UNCHANGED <<batch, leg, armed, timer, crashes>>

ExecuteLegSave(t, l) ==
    /\ At(t, "executeLegs")
    /\ thread[t].at[l] = "save"
    /\ SaveLeg(t, l, thread[t].legs[l], "done")
    /\ UNCHANGED <<batch, chain, armed, timer, crashes>>

\* committedLegs and failedLegs of this phase
CommittedLegs(t) == {l \in Legs : thread[t].at[l] = "done" /\ thread[t].legs[l] = "EXECUTED"}
FailedLegs(t) == {l \in Legs : thread[t].at[l] = "done" /\ thread[t].legs[l] = "FAILED"}

\* Mutant: a failed leg does not prevent the commit.
CommitIgnoresFailures(t) ==
    /\ At(t, "executeLegs")
    /\ AllDone(t)
    /\ SaveBatch(t, "COMMITTED", "return")
    /\ UNCHANGED <<leg, chain, armed, timer, crashes>>

\* checkPostCommit runs after this save and its result is not used.
CommitPhaseCommitted(t) ==
    /\ At(t, "executeLegs")
    /\ AllDone(t) /\ FailedLegs(t) = {}
    /\ SaveBatch(t, "COMMITTED", "return")
    /\ UNCHANGED <<leg, chain, armed, timer, crashes>>

CommitPhaseFailed(t) ==
    /\ At(t, "executeLegs")
    /\ AllDone(t) /\ FailedLegs(t) # {}
    /\ Set(t, [thread[t] EXCEPT !.pc = "rollbackLegs", !.todo = CommittedLegs(t)])
    /\ UNCHANGED <<batch, leg, chain, armed, timer, crashes>>

-----------------------------------------------------------------------------
(* rollbackPhase and rollbackLegs of the executor *)

RollbackPhase(t) ==
    /\ At(t, "rollback")
    /\ SaveBatch(t, "ROLLING_BACK", "rollbackLoad")
    /\ UNCHANGED <<leg, chain, armed, timer, crashes>>

RollbackPhaseLegs(t) ==
    /\ At(t, "rollbackLoad")
    /\ Set(t, [thread[t] EXCEPT !.legs = leg, !.pc = "rollbackLegs",
                                !.todo = {l \in Legs : leg[l] = "EXECUTED"}])
    /\ UNCHANGED <<batch, leg, chain, armed, timer, crashes>>

\* From the last leg to the first; no inverse transaction is submitted.
RollbackLeg(t) ==
    /\ At(t, "rollbackLegs")
    /\ \E l \in thread[t].todo :
          /\ \A k \in thread[t].todo : k <= l
          /\ IF thread[t].legs[l] = "EXECUTED"
               THEN SaveLeg(t, l, "ROLLING_BACK", "done")
               ELSE /\ leg' = [leg EXCEPT ![l] = "ROLLED_BACK"]
                    /\ Set(t, [thread[t] EXCEPT !.legs = [@ EXCEPT ![l] = "ROLLED_BACK"],
                                                !.todo = @ \ {l}])
    /\ UNCHANGED <<batch, chain, armed, timer, crashes>>

\* Mutant: the final save is missing.
RollbackForgetsBatch(t) ==
    /\ At(t, "rollbackLegs")
    /\ thread[t].todo = {}
    /\ Goto(t, "return")
    /\ UNCHANGED <<batch, leg, chain, armed, timer, crashes>>

RollbackDone(t) ==
    /\ At(t, "rollbackLegs")
    /\ thread[t].todo = {}
    /\ SaveBatch(t, "ROLLED_BACK", "return")
    /\ UNCHANGED <<leg, chain, armed, timer, crashes>>

Return(t) ==
    /\ At(t, "return")
    /\ Finish(t)
    /\ UNCHANGED <<batch, leg, chain, crashes>>

-----------------------------------------------------------------------------
(* cancelBatch *)

CancelBatch(r) ==
    /\ Accept(r, "cancel", {"CREATED", "PREPARING", "PREPARED"},
              IF batch = "CREATED" THEN "cancelled" ELSE "cancelling")
    /\ UNCHANGED <<batch, leg, chain, armed, timer, crashes>>

CancelBatchRollingBack(t) ==
    /\ At(t, "cancelling")
    /\ SaveBatch(t, "ROLLING_BACK", "cancelLoad")
    /\ UNCHANGED <<leg, chain, armed, timer, crashes>>

CancelBatchLegs(t) ==
    /\ At(t, "cancelLoad")
    /\ Set(t, [thread[t] EXCEPT !.pc = "cancelled",
                                !.todo = {l \in Legs : leg[l] \in {"PREPARED", "EXECUTED"}}])
    /\ UNCHANGED <<batch, leg, chain, armed, timer, crashes>>

\* The loop of cancelBatch and of handleBatchTimeout: one save for each leg found.
RollBackFound(t) ==
    /\ thread[t].pc \in {"cancelled", "expired"}
    /\ \E l \in thread[t].todo :
          /\ leg' = [leg EXCEPT ![l] = "ROLLED_BACK"]
          /\ Set(t, [thread[t] EXCEPT !.todo = @ \ {l}])
    /\ UNCHANGED <<batch, chain, armed, timer, crashes>>

\* The registered timer is cleared; the executor is not told.
CancelBatchDone(t) ==
    /\ At(t, "cancelled")
    /\ thread[t].todo = {}
    /\ batch' = "ROLLED_BACK"
    /\ Set(t, Idle)
    /\ timer' = NoTimer /\ armed' = armed \ {timer}
    /\ UNCHANGED <<leg, chain, crashes>>

-----------------------------------------------------------------------------
(* handleBatchTimeout, on the timer's thread *)

TimerFires(r) ==
    /\ Timeouts
    /\ r \in armed
    /\ armed' = armed \ {r}
    /\ timer' = NoTimer
    /\ Set(<<r, "timer">>, [Idle EXCEPT !.op = "timeout", !.pc = "expiring"])
    /\ UNCHANGED <<batch, leg, chain, crashes>>

HandleBatchTimeout(t) ==
    /\ At(t, "expiring")
    /\ IF batch \in {"CREATED", "PREPARING", "PREPARED", "COMMITTING"}
         THEN Goto(t, "expireBatch") ELSE Set(t, Idle)
    /\ UNCHANGED <<batch, leg, chain, armed, timer, crashes>>

ExpireBatch(t) ==
    /\ At(t, "expireBatch")
    /\ SaveBatch(t, "EXPIRED", "expireLoad")
    /\ UNCHANGED <<leg, chain, armed, timer, crashes>>

ExpireBatchLegs(t) ==
    /\ At(t, "expireLoad")
    /\ Set(t, [thread[t] EXCEPT !.pc = "expired",
                                !.todo = {l \in Legs : leg[l] \in {"PREPARED", "EXECUTED", "EXECUTING"}}])
    /\ UNCHANGED <<batch, leg, chain, armed, timer, crashes>>

ExpireBatchDone(t) ==
    /\ At(t, "expired")
    /\ thread[t].todo = {}
    /\ Set(t, Idle)
    /\ UNCHANGED <<batch, leg, chain, armed, timer, crashes>>

-----------------------------------------------------------------------------
\* The process stops: handlers and timers are gone, the rows stay.
Crash ==
    /\ crashes < MaxCrashes
    /\ crashes' = crashes + 1
    /\ thread' = [t \in Threads |-> Idle]
    /\ armed' = {}
    /\ timer' = NoTimer
    /\ UNCHANGED <<batch, leg, chain>>

\* What a handler in progress does next.
LegStep(t, l) ==
    \/ PrepareLeg(t, l)
    \/ PrepareLegSave(t, l)
    \/ ExecuteLeg(t, l)
    \/ InvokeLeg(t, l)
    \/ InvokeLegFails(t, l)
    \/ InvokeLegReplyLost(t, l)
    \/ ExecuteLegSave(t, l)

Step(t) ==
    \/ CreateBatchLegs(t)
    \/ LoadLegs(t)
    \/ PreparePhase(t)
    \/ PreparePhasePrepared(t)
    \/ PreparePhaseThrows(t)
    \/ CommitPhase(t)
    \/ CommitPhaseCommitted(t)
    \/ CommitPhaseFailed(t)
    \/ RollbackPhase(t)
    \/ RollbackPhaseLegs(t)
    \/ RollbackLeg(t)
    \/ RollbackDone(t)
    \/ Return(t)
    \/ CancelBatchRollingBack(t)
    \/ CancelBatchLegs(t)
    \/ RollBackFound(t)
    \/ CancelBatchDone(t)
    \/ HandleBatchTimeout(t)
    \/ ExpireBatch(t)
    \/ ExpireBatchLegs(t)
    \/ ExpireBatchDone(t)
    \/ \E l \in Legs : LegStep(t, l)

Next ==
    \/ \E r \in Requests :
          \/ CreateBatch(r)
          \/ ExecuteBatch(r)
          \/ PrepareBatch(r)
          \/ CommitBatch(r)
          \/ CancelBatch(r)
          \/ TimerFires(r)
    \/ \E t \in Threads : Step(t)
    \/ Crash

Spec == Init /\ [][Next]_vars

\* A handler that was started goes on: the event loop serves every promise.
Fairness == \A t \in Threads : WF_vars(Step(t))

FairSpec == Spec /\ Fairness

-----------------------------------------------------------------------------
(* Properties *)

ThreadType ==
    [op : {"none", "create", "execute", "prepare", "commit", "cancel", "timeout"},
     pc : {"idle", "saveLegs", "load", "preparing", "prepareLegs", "committing", "executeLegs",
           "rollback", "rollbackLoad", "rollbackLegs", "return", "cancelling", "cancelLoad",
           "cancelled", "expiring", "expireBatch", "expireLoad", "expired"},
     batch : BatchStatus \cup {"ABSENT"},
     legs : [Legs -> LegStatus \cup {"ABSENT"}],
     at : [Legs -> {"start", "busy", "invoke", "save", "done", "passed"}],
     tries : [Legs -> 0..MaxRetries],
     todo : SUBSET Legs]

\* Every variable has the type the entities and the enums give it.
TypeOK ==
    /\ batch \in BatchStatus \cup {"ABSENT"}
    /\ leg \in [Legs -> LegStatus \cup {"ABSENT"}]
    /\ chain \in [Legs -> 0..MaxChain]
    /\ thread \in [Threads -> ThreadType]
    /\ armed \subseteq Requests
    /\ timer \in Requests \cup {NoTimer}
    /\ crashes \in 0..MaxCrashes

Quiet == \A t \in Threads : thread[t] = Idle
Closed == {"COMMITTED", "ROLLED_BACK", "EXPIRED"}

\* A committed batch has executed every leg it has that its condition did not
\* skip and no cancel has rolled back: it is never committed with a leg that
\* failed or was left PREPARED ("must all succeed or all fail atomically",
\* TransactionBatch).  A crash in createBatch leaves a batch that has no legs.
CommittedIsComplete ==
    batch = "COMMITTED" =>
        \A l \in Legs : chain[l] > 0 \/ leg[l] \in {"ABSENT", "SKIPPED", "ROLLED_BACK"}

\* A leg is shown as executed only when its invocation took effect, whatever
\* handlers and crashes do between the invocation and the save.
ExecutedTookEffect == \A l \in Legs : leg[l] = "EXECUTED" => chain[l] > 0

Executing == \E r \in Requests : thread[<<r, "request">>].op = "execute"

\* A batch that executeBatch has started on is eventually committed, rolled back
\* or expired, whatever fails (executeWithTimeout), unless the process crashes.
StartedBatchCloses ==
    (Executing /\ batch \in {"PREPARING", "COMMITTING", "ROLLING_BACK"}) ~>
        (batch \in Closed \/ crashes > 0)

-----------------------------------------------------------------------------
(* What the repository states and the code does not always keep: the cases are
   listed in the README. *)

\* When the batch was rolled back, no leg is left in effect on chain ("no
\* partial fills or stranded assets", TransactionBatch).
NothingStranded ==
    (Quiet /\ batch = "ROLLED_BACK") => \A l \in Legs : chain[l] = 0

\* After a rollback no leg is left PREPARING, PREPARED or EXECUTING
\* (checkPostRollback, which no code calls).
NoLegLeftBetween ==
    (Quiet /\ batch = "ROLLED_BACK") =>
        \A l \in Legs : leg[l] \notin {"PREPARING", "PREPARED", "EXECUTING"}

\* A leg fails only when its simulation or its invocation failed: a leg that
\* depends on others waits for them ("respecting dependencies between legs",
\* TransactionGraphBuilderService).
OnlyFaultsFail == Faults \/ \A l \in Legs : leg[l] # "FAILED"

\* A batch that was committed, rolled back or expired stays so.
ClosedIsFinal == [][(batch \in Closed) => (batch' = batch)]_vars

\* A leg takes effect only while its batch is being committed, never before
\* all legs are prepared and never after a cancel or a timeout.
EffectOnlyWhileCommitting == [][chain' # chain => batch = "COMMITTING"]_vars
=============================================================================
