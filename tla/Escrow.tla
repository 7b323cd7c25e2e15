------------------------------- MODULE Escrow -------------------------------
(***************************************************************************)
(* One multi-signature escrow account, as EscrowService keeps it in the    *)
(* database (src/src/modules/escrow).                                      *)
(*                                                                         *)
(* Every HTTP request runs as an async handler: it reads the escrow row,   *)
(* checks it, reads the signatories (or a milestone), checks those, and    *)
(* only then writes.  Requests interleave at every await, so a handler     *)
(* that is waiting is a slot of `req` holding the values it has read.      *)
(* repository.save(entity) writes the whole row the handler holds back     *)
(* over the stored one; releaseFunds writes with a guarded UPDATE instead. *)
(* A rejected request changes nothing and is not a step.  Abandon is a     *)
(* process crash or a database error at one of the awaits.                 *)
(*                                                                         *)
(* Amounts are integers, as they are (in stroops) in releaseFunds.         *)
(***************************************************************************)
EXTENDS Integers, FiniteSets, FiniteSetsExt

CONSTANTS
    Creator,          \* the user who opened the escrow
    Signatories,      \* users with a row in escrow_signatories
    Admins,           \* users whose role is admin
    Arbitrators,      \* users whose role is arbitrator
    Amount,           \* escrow.amount
    Milestones,       \* ids a dto may give to milestones
    MilestoneAmount,  \* amount of each of them
    Dtos,             \* the create requests users send
    Ops,              \* the operations clients call
    Slots,            \* requests that can be in progress at the same time
    Failures,         \* whether a handler may die at an await
    MaxPaid,          \* bound on the total paid out
    MaxEmit           \* bound on the emissions counted per event

MIN_REQUIRED_SIGNATURES == 2

EscrowType == {"STANDARD", "TIME_LOCKED", "MILESTONE_BASED"}

EscrowStatus == {"PENDING", "AWAITING_FUNDING", "FUNDED", "APPROVED",
                 "PARTIALLY_RELEASED", "SETTLED", "REFUNDED", "DISPUTED",
                 "EXPIRED", "CANCELLED"}

EscrowTimelineEventType ==
    {"ESCROW_CREATED", "ESCROW_FUNDED", "SIGNATORY_APPROVED",
     "SIGNATORY_REVOKED", "SIGNATURE_THRESHOLD_REACHED", "PARTIAL_RELEASE",
     "ESCROW_SETTLED", "ESCROW_REFUNDED", "TIMEOUT_TRIGGERED",
     "MILESTONE_COMPLETED", "DISPUTE_FLAGGED", "DISPUTE_RESOLVED",
     "ESCROW_CANCELLED"}

\* The events whose emissions are counted: those that say that money moved or
\* that settlement is possible.
EscrowEvents == {"SIGNATURE_THRESHOLD_REACHED", "ESCROW_SETTLED", "ESCROW_REFUNDED"}

\* No milestone / no user / no timeline event.
None == "none"

CreateEscrowDto ==
    [type : EscrowType, requiredSignatures : Nat \ {0, 1}, settlementDeadline : BOOLEAN,
     timeLockExpiry : BOOLEAN, milestones : SUBSET Milestones]

ASSUME ConstantsAssumption ==
    /\ Amount \in Nat \ {0}
    /\ IsFiniteSet(Signatories)
    /\ MilestoneAmount \in [Milestones -> Nat \ {0}]
    /\ Dtos \subseteq CreateEscrowDto
    /\ Failures \in BOOLEAN
    /\ MaxPaid \in Nat
    /\ MaxEmit \in Nat
    /\ None \notin Milestones

Users == {Creator} \cup Signatories \cup Admins \cup Arbitrators

VARIABLES
    terms,      \* the columns no operation changes, as given by the create dto
    row,        \* the columns of escrow_accounts that operations change
    approvals,  \* signatories with hasApproved
    completed,  \* milestones with isCompleted
    timeline,   \* event types logged in escrow_timeline
    emitted,    \* how often each of EscrowEvents was emitted
    paid,       \* total of the releases and settlements applied so far
    passed,     \* which of the two dates have passed
    req         \* the requests in progress

vars == <<terms, row, approvals, completed, timeline, emitted, paid, passed, req>>

\* escrow_accounts before createEscrow committed.
NoTerms == [type |-> None]
Absent == [status |-> "ABSENT", released |-> 0, fundedAt |-> FALSE,
           settledAt |-> FALSE, refundedAt |-> FALSE]

\* The mutable columns: the three dates only as set / not set.
EscrowAccount == [status : EscrowStatus \cup {"ABSENT"}, released : Nat,
                  fundedAt : BOOLEAN, settledAt : BOOLEAN, refundedAt : BOOLEAN]

Idle == [op |-> None, pc |-> "idle", escrow |-> Absent, signatories |-> {},
         user |-> None, admin |-> FALSE, amount |-> 0, milestone |-> None,
         flag |-> FALSE, event |-> None]

Init ==
    /\ terms = NoTerms
    /\ row = Absent
    /\ approvals = {}
    /\ completed = {}
    /\ timeline = {}
    /\ emitted = [e \in EscrowEvents |-> 0]
    /\ paid = 0
    /\ passed = {}
    /\ req = [s \in Slots |-> Idle]

-----------------------------------------------------------------------------
(* Steps every handler is made of. *)

At(s, op, pc) == req[s].op = op /\ req[s].pc = pc

\* getEscrowOrThrow: the request starts by reading the row.
Accept(s, op, u, pc) ==
    /\ op \in Ops
    /\ req[s] = Idle
    /\ row.status # "ABSENT"
    /\ req' = [req EXCEPT ![s] = [Idle EXCEPT !.op = op, !.pc = pc, !.escrow = row,
                                    !.user = u, !.admin = u \in Admins]]

Goto(s, pc) == req' = [req EXCEPT ![s].pc = pc]

Return(s) == req' = [req EXCEPT ![s] = Idle]

\* After a write: timelineService.addEvent without the transaction's manager.
ThenLog(s, event) == req' = [req EXCEPT ![s] = [@ EXCEPT !.pc = "log", !.event = event]]

\* escrowRepo.save(escrow): the row the handler holds replaces the stored one.
Save(s, escrow, event) ==
    /\ row' = escrow
    /\ ThenLog(s, event)

Emit(event) == emitted' = [emitted EXCEPT ![event] = @ + 1]

\* signatoryRepo.find, when the list read is used after a later await
ReadSignatories(s, pc) ==
    req' = [req EXCEPT ![s] = [@ EXCEPT !.signatories = approvals, !.pc = pc]]

\* calculateApprovalProgress(...).isThresholdMet
IsThresholdMet(signed) == Cardinality(signed) >= terms.requiredSignatures

-----------------------------------------------------------------------------
(* createEscrow *)

ValidCreate(dto) ==
    /\ dto.requiredSignatures <= Cardinality(Signatories)
    /\ dto.type = "TIME_LOCKED" => dto.timeLockExpiry
    /\ dto.type = "MILESTONE_BASED" =>
          /\ dto.milestones # {}
          /\ MapThenSumSet(LAMBDA m : MilestoneAmount[m], dto.milestones) = Amount

\* The account, its signatories and its milestones commit in one transaction.
CreateEscrow(s, dto) ==
    /\ "create" \in Ops
    /\ req[s] = Idle
    /\ row.status = "ABSENT"
    /\ ValidCreate(dto)
    /\ terms' = dto
    /\ row' = [row EXCEPT !.status = "PENDING"]
    /\ req' = [req EXCEPT ![s] = [Idle EXCEPT !.op = "create", !.pc = "log",
                                    !.event = "ESCROW_CREATED"]]
    /\ UNCHANGED <<approvals, completed, timeline, emitted, paid, passed>>

-----------------------------------------------------------------------------
(* fundEscrow *)

FundEscrow(s, u) ==
    /\ row.status = "PENDING"
    /\ u = Creator
    /\ Accept(s, "fund", None, "save")
    /\ UNCHANGED <<terms, row, approvals, completed, timeline, emitted, paid, passed>>

FundEscrowSave(s) ==
    /\ At(s, "fund", "save")
    /\ Save(s, [req[s].escrow EXCEPT !.status = "FUNDED", !.fundedAt = TRUE], "ESCROW_FUNDED")
    /\ UNCHANGED <<terms, approvals, completed, timeline, emitted, paid, passed>>

-----------------------------------------------------------------------------
(* approveEscrow and revokeApproval *)

ApproveEscrow(s, u) ==
    /\ row.status \in {"FUNDED", "APPROVED"}
    /\ Accept(s, "approve", u, "signatories")
    /\ UNCHANGED <<terms, row, approvals, completed, timeline, emitted, paid, passed>>

ApproveEscrowSignatories(s) ==
    /\ At(s, "approve", "signatories")
    /\ IF req[s].user \in Signatories \ approvals
         THEN ReadSignatories(s, "commit")
         ELSE Return(s)
    /\ UNCHANGED <<terms, row, approvals, completed, timeline, emitted, paid, passed>>

\* The signatories as read, with the caller's own approval added.
Signed(s) == req[s].signatories \cup {req[s].user}

\* Mutant: the list is counted without the caller's own approval.
ThresholdWithoutOwn(s) ==
    IsThresholdMet(req[s].signatories) /\ req[s].escrow.status # "APPROVED"

ReachesThreshold(s) == IsThresholdMet(Signed(s)) /\ req[s].escrow.status # "APPROVED"

\* One transaction: the signature, its timeline event and, when the threshold
\* is reached, the status and the threshold's timeline event.
ApproveEscrowCommit(s) ==
    /\ At(s, "approve", "commit")
    /\ approvals' = approvals \cup {req[s].user}
    /\ IF ReachesThreshold(s)
         THEN /\ row' = [req[s].escrow EXCEPT !.status = "APPROVED"]
              /\ timeline' = timeline \cup {"SIGNATORY_APPROVED", "SIGNATURE_THRESHOLD_REACHED"}
              /\ emitted["SIGNATURE_THRESHOLD_REACHED"] < MaxEmit
              /\ Emit("SIGNATURE_THRESHOLD_REACHED")
         ELSE /\ timeline' = timeline \cup {"SIGNATORY_APPROVED"}
              /\ UNCHANGED <<row, emitted>>
    /\ Return(s)
    /\ UNCHANGED <<terms, completed, paid, passed>>

\* The event is emitted before commitTransaction; the commit may still fail.
ApproveEscrowRollback(s) ==
    /\ Failures
    /\ At(s, "approve", "commit")
    /\ ReachesThreshold(s)
    /\ emitted["SIGNATURE_THRESHOLD_REACHED"] < MaxEmit
    /\ Emit("SIGNATURE_THRESHOLD_REACHED")
    /\ Return(s)
    /\ UNCHANGED <<terms, row, approvals, completed, timeline, paid, passed>>

RevokeApproval(s, u) ==
    /\ row.status = "FUNDED"
    /\ Accept(s, "revoke", u, "signatories")
    /\ UNCHANGED <<terms, row, approvals, completed, timeline, emitted, paid, passed>>

RevokeApprovalSignatories(s) ==
    /\ At(s, "revoke", "signatories")
    /\ IF req[s].user \in Signatories \cap approvals
         THEN Goto(s, "save")
         ELSE Return(s)
    /\ UNCHANGED <<terms, row, approvals, completed, timeline, emitted, paid, passed>>

RevokeApprovalSave(s) ==
    /\ At(s, "revoke", "save")
    /\ approvals' = approvals \ {req[s].user}
    /\ ThenLog(s, "SIGNATORY_REVOKED")
    /\ UNCHANGED <<terms, row, completed, timeline, emitted, paid, passed>>

-----------------------------------------------------------------------------
(* releaseFunds *)

\* What a release pays: dto.amount, or all that remains when it is left out (0).
ReleaseAmount(escrow, amount) == IF amount = 0 THEN Amount - escrow.released ELSE amount

\* Mutant: the amount is not compared with what remains.
ReleaseUnchecked(s, u, amount, m) ==
    /\ u \in Admins \/ row.status \in {"APPROVED", "PARTIALLY_RELEASED"}
    /\ ReleaseAmount(row, amount) >= 1
    /\ "release" \in Ops
    /\ req[s] = Idle
    /\ row.status # "ABSENT"
    /\ req' = [req EXCEPT ![s] = [Idle EXCEPT !.op = "release", !.pc = "signatories",
                  !.escrow = row, !.admin = u \in Admins, !.milestone = m,
                  !.amount = ReleaseAmount(row, amount)]]
    /\ UNCHANGED <<terms, row, approvals, completed, timeline, emitted, paid, passed>>

\* An admin is excused from the status and the threshold.
ReleaseFunds(s, u, amount, m) ==
    /\ u \in Admins \/ row.status \in {"APPROVED", "PARTIALLY_RELEASED"}
    /\ ReleaseAmount(row, amount) \in 1..(Amount - row.released)
    /\ "release" \in Ops
    /\ req[s] = Idle
    /\ row.status # "ABSENT"
    /\ req' = [req EXCEPT ![s] = [Idle EXCEPT !.op = "release", !.pc = "signatories",
                  !.escrow = row, !.admin = u \in Admins, !.milestone = m,
                  !.amount = ReleaseAmount(row, amount)]]
    /\ UNCHANGED <<terms, row, approvals, completed, timeline, emitted, paid, passed>>

ReleaseFundsSignatories(s) ==
    /\ At(s, "release", "signatories")
    /\ IF req[s].admin \/ IsThresholdMet(approvals)
         THEN Goto(s, IF req[s].milestone = None THEN "commit" ELSE "milestone")
         ELSE Return(s)
    /\ UNCHANGED <<terms, row, approvals, completed, timeline, emitted, paid, passed>>

ReleaseFundsMilestone(s) ==
    /\ At(s, "release", "milestone")
    /\ IF req[s].milestone \in terms.milestones \cap completed
         THEN Goto(s, "commit")
         ELSE Return(s)
    /\ UNCHANGED <<terms, row, approvals, completed, timeline, emitted, paid, passed>>

\* Mutant: an UPDATE without the expected releasedAmount.
ReleaseUnguarded(s) == TRUE

\* The UPDATE applies only if releasedAmount still is what the handler read.
ReleaseGuard(s) == row.released = req[s].escrow.released

ReleasedTo(s) == req[s].escrow.released + req[s].amount

SettledEvent(s) == IF ReleasedTo(s) = Amount THEN "ESCROW_SETTLED" ELSE "PARTIAL_RELEASE"

ReleaseFundsCommit(s) ==
    /\ At(s, "release", "commit")
    /\ IF ReleaseGuard(s)
         THEN /\ paid + req[s].amount <= MaxPaid
              /\ paid' = paid + req[s].amount
              /\ timeline' = timeline \cup {SettledEvent(s)}
              /\ IF ReleasedTo(s) = Amount
                   THEN /\ row' = [row EXCEPT !.released = Amount, !.status = "SETTLED",
                                               !.settledAt = TRUE]
                        /\ emitted["ESCROW_SETTLED"] < MaxEmit
                        /\ Emit("ESCROW_SETTLED")
                   ELSE /\ row' = [row EXCEPT !.released = ReleasedTo(s),
                                               !.status = "PARTIALLY_RELEASED",
                                               !.settledAt = row.settledAt \/ req[s].escrow.settledAt]
                        /\ UNCHANGED emitted
         ELSE UNCHANGED <<row, timeline, emitted, paid>>
    /\ Return(s)
    /\ UNCHANGED <<terms, approvals, completed, passed>>

\* ESCROW_SETTLED is emitted before commitTransaction; the commit may still fail.
ReleaseFundsRollback(s) ==
    /\ Failures
    /\ At(s, "release", "commit")
    /\ ReleaseGuard(s)
    /\ ReleasedTo(s) = Amount
    /\ emitted["ESCROW_SETTLED"] < MaxEmit
    /\ Emit("ESCROW_SETTLED")
    /\ Return(s)
    /\ UNCHANGED <<terms, row, approvals, completed, timeline, paid, passed>>

-----------------------------------------------------------------------------
(* refundEscrow, cancelEscrow *)

RefundEscrow(s, u) ==
    /\ row.status \in {"PENDING", "AWAITING_FUNDING", "FUNDED", "EXPIRED"}
    /\ u = Creator \/ u \in Admins
    /\ row.released = 0
    /\ Accept(s, "refund", None, "save")
    /\ UNCHANGED <<terms, row, approvals, completed, timeline, emitted, paid, passed>>

RefundEscrowSave(s) ==
    /\ At(s, "refund", "save")
    /\ Save(s, [req[s].escrow EXCEPT !.status = "REFUNDED", !.refundedAt = TRUE],
             "ESCROW_REFUNDED")
    /\ UNCHANGED <<terms, approvals, completed, timeline, emitted, paid, passed>>

CancelEscrow(s, u) ==
    /\ row.status = "PENDING"
    /\ u = Creator \/ u \in Admins
    /\ Accept(s, "cancel", None, "save")
    /\ UNCHANGED <<terms, row, approvals, completed, timeline, emitted, paid, passed>>

CancelEscrowSave(s) ==
    /\ At(s, "cancel", "save")
    /\ Save(s, [req[s].escrow EXCEPT !.status = "CANCELLED"], "ESCROW_CANCELLED")
    /\ UNCHANGED <<terms, approvals, completed, timeline, emitted, paid, passed>>

-----------------------------------------------------------------------------
(* handleTimeout: two saves with the timeline's write between them *)

\* Mutant: an approved escrow times out too.
TimeoutApproved(s) ==
    /\ "deadline" \in passed
    /\ row.status \in {"PENDING", "AWAITING_FUNDING", "FUNDED", "APPROVED"}
    /\ Accept(s, "timeout", None, "save")
    /\ UNCHANGED <<terms, row, approvals, completed, timeline, emitted, paid, passed>>

HandleTimeout(s) ==
    /\ "deadline" \in passed
    /\ row.status \in {"PENDING", "AWAITING_FUNDING", "FUNDED"}
    /\ Accept(s, "timeout", None, "save")
    /\ UNCHANGED <<terms, row, approvals, completed, timeline, emitted, paid, passed>>

HandleTimeoutSave(s) ==
    /\ At(s, "timeout", "save")
    /\ Save(s, [req[s].escrow EXCEPT !.status = "EXPIRED"], "TIMEOUT_TRIGGERED")
    /\ UNCHANGED <<terms, approvals, completed, timeline, emitted, paid, passed>>

HandleTimeoutRefund(s) ==
    /\ At(s, "timeout", "refund")
    /\ Save(s, [req[s].escrow EXCEPT !.status = "REFUNDED", !.refundedAt = TRUE],
             "ESCROW_REFUNDED")
    /\ UNCHANGED <<terms, approvals, completed, timeline, emitted, paid, passed>>

-----------------------------------------------------------------------------
(* handleTimeLockSettlement *)

HandleTimeLockSettlement(s) ==
    /\ "timeLock" \in passed /\ terms.type = "TIME_LOCKED"
    /\ row.status \in {"FUNDED", "PARTIALLY_RELEASED"}
    /\ Accept(s, "timelock", None, "save")
    /\ UNCHANGED <<terms, row, approvals, completed, timeline, emitted, paid, passed>>

\* Mutant: releasedAmount is left as it was.
TimeLockForgetsReleased(s) ==
    /\ At(s, "timelock", "save")
    /\ paid + Amount - req[s].escrow.released <= MaxPaid
    /\ paid' = paid + Amount - req[s].escrow.released
    /\ Save(s, [req[s].escrow EXCEPT !.status = "SETTLED", !.settledAt = TRUE], "ESCROW_SETTLED")
    /\ UNCHANGED <<terms, approvals, completed, timeline, emitted, passed>>

HandleTimeLockSettlementSave(s) ==
    LET remaining == Amount - req[s].escrow.released
    IN  /\ At(s, "timelock", "save")
        /\ paid + remaining <= MaxPaid
        /\ paid' = paid + remaining
        /\ Save(s, [req[s].escrow EXCEPT !.released = Amount, !.status = "SETTLED",
                                         !.settledAt = TRUE],
                 "ESCROW_SETTLED")
        /\ UNCHANGED <<terms, approvals, completed, timeline, emitted, passed>>

-----------------------------------------------------------------------------
(* updateMilestone: the timeline's write comes before the milestone's *)

UpdateMilestone(s, u, m, isCompleted) ==
    /\ row.status \in {"FUNDED", "APPROVED", "PARTIALLY_RELEASED"}
    /\ terms.type = "MILESTONE_BASED"
    /\ "milestone" \in Ops
    /\ req[s] = Idle
    /\ req' = [req EXCEPT ![s] = [Idle EXCEPT !.op = "milestone", !.pc = "signatories",
                  !.escrow = row, !.user = u, !.admin = u \in Admins,
                  !.milestone = m, !.flag = isCompleted]]
    /\ UNCHANGED <<terms, row, approvals, completed, timeline, emitted, paid, passed>>

UpdateMilestoneSignatories(s) ==
    /\ At(s, "milestone", "signatories")
    /\ IF req[s].user \in Signatories \/ req[s].admin
         THEN Goto(s, "milestone")
         ELSE Return(s)
    /\ UNCHANGED <<terms, row, approvals, completed, timeline, emitted, paid, passed>>

\* Completing logs first; only an admin may take a completion back.
UpdateMilestoneRead(s) ==
    LET m == req[s].milestone
    IN  /\ At(s, "milestone", "milestone")
        /\ CASE m \notin terms.milestones -> Return(s)
             [] m \in terms.milestones /\ req[s].flag /\ m \notin completed ->
                    ThenLog(s, "MILESTONE_COMPLETED")
             [] m \in terms.milestones /\ ~req[s].flag /\ m \in completed /\ ~req[s].admin ->
                    Return(s)
             [] OTHER -> Goto(s, "save")
        /\ UNCHANGED <<terms, row, approvals, completed, timeline, emitted, paid, passed>>

UpdateMilestoneSave(s) ==
    /\ At(s, "milestone", "save")
    /\ completed' = IF req[s].flag THEN completed \cup {req[s].milestone}
                                   ELSE completed \ {req[s].milestone}
    /\ Return(s)
    /\ UNCHANGED <<terms, row, approvals, timeline, emitted, paid, passed>>

-----------------------------------------------------------------------------
(* flagDispute, resolveDispute *)

\* disputeId is never set, so its check never rejects.
FlagDispute(s, u) ==
    /\ row.status \in {"FUNDED", "APPROVED", "PARTIALLY_RELEASED"}
    /\ Accept(s, "dispute", u, "signatories")
    /\ UNCHANGED <<terms, row, approvals, completed, timeline, emitted, paid, passed>>

FlagDisputeSignatories(s) ==
    /\ At(s, "dispute", "signatories")
    /\ IF req[s].user \in Signatories \cup {Creator}
         THEN Goto(s, "save")
         ELSE Return(s)
    /\ UNCHANGED <<terms, row, approvals, completed, timeline, emitted, paid, passed>>

FlagDisputeSave(s) ==
    /\ At(s, "dispute", "save")
    /\ Save(s, [req[s].escrow EXCEPT !.status = "DISPUTED"], "DISPUTE_FLAGGED")
    /\ UNCHANGED <<terms, approvals, completed, timeline, emitted, paid, passed>>

ResolveDispute(s, u, releaseToCreator) ==
    /\ row.status = "DISPUTED"
    /\ u \in Admins \cup Arbitrators
    /\ "resolve" \in Ops
    /\ req[s] = Idle
    /\ req' = [req EXCEPT ![s] = [Idle EXCEPT !.op = "resolve", !.pc = "save",
                  !.escrow = row, !.flag = releaseToCreator]]
    /\ UNCHANGED <<terms, row, approvals, completed, timeline, emitted, paid, passed>>

ResolveDisputeSave(s) ==
    /\ At(s, "resolve", "save")
    /\ Save(s, [req[s].escrow EXCEPT !.status = IF req[s].flag THEN "REFUNDED" ELSE "SETTLED",
                                     !.refundedAt = req[s].flag,
                                     !.settledAt = ~req[s].flag],
             "DISPUTE_RESOLVED")
    /\ UNCHANGED <<terms, approvals, completed, timeline, emitted, paid, passed>>

-----------------------------------------------------------------------------
(* timelineService.addEvent outside a transaction, and the emission after it *)

AddEvent(s) ==
    LET event == req[s].event
    IN  /\ req[s].pc = "log"
        /\ timeline' = timeline \cup {event}
        /\ IF event \in EscrowEvents
             THEN /\ emitted[event] < MaxEmit
                  /\ Emit(event)
             ELSE UNCHANGED emitted
        /\ CASE event = "TIMEOUT_TRIGGERED" -> Goto(s, "refund")
             [] event = "MILESTONE_COMPLETED" -> Goto(s, "save")
             [] OTHER -> Return(s)
        /\ UNCHANGED <<terms, row, approvals, completed, paid, passed>>

\* The deadline or the time-lock's expiry passes.
DatePasses(date) ==
    /\ row.status # "ABSENT"
    /\ date \notin passed
    /\ \/ date = "deadline" /\ terms.settlementDeadline
       \/ date = "timeLock" /\ terms.timeLockExpiry
    /\ passed' = passed \cup {date}
    /\ UNCHANGED <<terms, row, approvals, completed, timeline, emitted, paid, req>>

\* The process dies, or the database refuses, at the await of request s.
Abandon(s) ==
    /\ Failures
    /\ req[s] # Idle
    /\ Return(s)
    /\ UNCHANGED <<terms, row, approvals, completed, timeline, emitted, paid, passed>>

-----------------------------------------------------------------------------
\* A request arrives.
Request(s) ==
    \/ \E dto \in Dtos : CreateEscrow(s, dto)
    \/ HandleTimeout(s)
    \/ HandleTimeLockSettlement(s)
    \/ \E u \in Users :
          \/ FundEscrow(s, u)
          \/ ApproveEscrow(s, u)
          \/ RevokeApproval(s, u)
          \/ \E amount \in 0..Amount, m \in Milestones \cup {None} : ReleaseFunds(s, u, amount, m)
          \/ RefundEscrow(s, u)
          \/ CancelEscrow(s, u)
          \/ \E m \in Milestones, isCompleted \in BOOLEAN : UpdateMilestone(s, u, m, isCompleted)
          \/ FlagDispute(s, u)
          \/ \E releaseToCreator \in BOOLEAN : ResolveDispute(s, u, releaseToCreator)

\* The handler of a request takes its next step.
Continue(s) ==
    \/ FundEscrowSave(s)
    \/ ApproveEscrowSignatories(s)
    \/ ApproveEscrowCommit(s)
    \/ RevokeApprovalSignatories(s)
    \/ RevokeApprovalSave(s)
    \/ ReleaseFundsSignatories(s)
    \/ ReleaseFundsMilestone(s)
    \/ ReleaseFundsCommit(s)
    \/ RefundEscrowSave(s)
    \/ CancelEscrowSave(s)
    \/ HandleTimeoutSave(s)
    \/ HandleTimeoutRefund(s)
    \/ HandleTimeLockSettlementSave(s)
    \/ UpdateMilestoneSignatories(s)
    \/ UpdateMilestoneRead(s)
    \/ UpdateMilestoneSave(s)
    \/ FlagDisputeSignatories(s)
    \/ FlagDisputeSave(s)
    \/ ResolveDisputeSave(s)
    \/ AddEvent(s)

Next ==
    \/ \E s \in Slots :
          \/ Request(s)
          \/ Continue(s)
          \/ ApproveEscrowRollback(s)
          \/ ReleaseFundsRollback(s)
          \/ Abandon(s)
    \/ \E date \in {"deadline", "timeLock"} : DatePasses(date)

Spec == Init /\ [][Next]_vars

\* A handler that has started runs on: nothing but a failure stops the event
\* loop from resuming it once its await is answered.
FairSpec == Spec /\ \A s \in Slots : WF_vars(Continue(s))

-----------------------------------------------------------------------------
(* Properties *)

Operations == {"create", "fund", "approve", "revoke", "release", "refund", "cancel",
               "timeout", "timelock", "milestone", "dispute", "resolve"}

RequestType ==
    [op : Operations \cup {None},
     pc : {"idle", "signatories", "milestone", "save", "commit", "log", "refund"},
     escrow : EscrowAccount, signatories : SUBSET Signatories, user : Users \cup {None},
     admin : BOOLEAN, amount : Nat, milestone : Milestones \cup {None}, flag : BOOLEAN,
     event : EscrowTimelineEventType \cup {None}]

\* Every variable has the type the entities and the enums give it.
TypeOK ==
    /\ terms \in CreateEscrowDto \cup {NoTerms}
    /\ row \in EscrowAccount
    /\ approvals \subseteq Signatories
    /\ completed \subseteq Milestones
    /\ timeline \subseteq EscrowTimelineEventType
    /\ emitted \in [EscrowEvents -> Nat]
    /\ paid \in Nat
    /\ passed \subseteq {"deadline", "timeLock"}
    /\ req \in [Slots -> RequestType]

Quiet == \A s \in Slots : req[s] = Idle

Funded == {"FUNDED", "APPROVED", "PARTIALLY_RELEASED"}

Matured == terms.type = "TIME_LOCKED" /\ "timeLock" \in passed

\* The CHECK constraint on escrow_accounts: however requests interleave, the
\* stored releasedAmount, and every value a waiting release would store,
\* stays within the amount.
ReleasedWithinAmount ==
    /\ row.released <= Amount
    /\ \A s \in Slots : At(s, "release", "commit") => ReleasedTo(s) <= Amount

\* What was paid out is what releasedAmount says (releaseFunds and
\* handleTimeLockSettlement), also after requests that died half way.
PaidMatchesReleased == paid = row.released

\* When no request is in progress, an escrow on which m signatories approved
\* has left FUNDED: it is eligible for settlement (approveEscrow).
QuorumIsNoticed ==
    Quiet /\ row.status = "FUNDED" => ~IsThresholdMet(approvals)

CountedRelease ==
    \A s \in Slots : At(s, "release", "commit") /\ req'[s] = Idle /\ paid' # paid =>
        row'.released - row.released = paid' - paid

\* A release that pays raises the stored releasedAmount by what it pays: no
\* two releases that read the same releasedAmount are both applied.
ReleaseIsCounted == [][CountedRelease]_vars

-----------------------------------------------------------------------------
(* What the repository states and the code does not always keep: the cases are
   listed in the README. *)

\* The comment in releaseFunds: the total released never exceeds the amount.
TotalPaidWithinAmount == paid <= Amount

\* The threshold event is emitted at most once (comment in approveEscrow).
ThresholdEventOnce == emitted["SIGNATURE_THRESHOLD_REACHED"] <= 1

\* SETTLED, "fully settled - funds distributed": all of the amount was released.
SettledIsDistributed == row.status = "SETTLED" => row.released = Amount

\* CANCELLED, "cancelled ... before funding": no funding was recorded.
CancelledIsUnfunded == row.status = "CANCELLED" => "ESCROW_FUNDED" \notin timeline

\* A disputed escrow is frozen: as long as it is disputed nothing is paid out.
FrozenWhileDisputed == [][row.status = "DISPUTED" => UNCHANGED paid]_vars

\* An escrow that expired is refunded (handleTimeout's automatic refund).
ExpiredIsRefunded == row.status = "EXPIRED" ~> row.status = "REFUNDED"
=============================================================================
