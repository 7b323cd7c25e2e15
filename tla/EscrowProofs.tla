---------------------------- MODULE EscrowProofs ----------------------------
(***************************************************************************)
(* Proofs about Escrow for any parties, any amount, any create requests    *)
(* and any number of requests in progress.                                 *)
(*                                                                         *)
(* TypeOK and ReleasedWithinAmount are not inductive alone: a whole-row    *)
(* save writes back the copy a request took, and a release adds to the     *)
(* copy's releasedAmount.  GoodRequest therefore speaks of the copies that *)
(* waiting requests hold.                                                  *)
(*                                                                         *)
(* PaidMatchesReleased, QuorumIsNoticed and the refinement of              *)
(* EscrowContract are promises the service keeps only when requests do not *)
(* overlap (the run escrow_overpaid shows what two of them do), so their   *)
(* theorems assume OneAtATime, and the refinement also that no admin       *)
(* forces a release.                                                       *)
(***************************************************************************)
EXTENDS MCEscrow, FiniteSetTheorems, TLAPS

\* What a waiting request holds: a copy of a legal row, and arguments that its
\* earlier checks have passed.
GoodRequest ==
    {r \in RequestType :
        /\ r.escrow.released <= Amount
        /\ r.op = "release" => r.escrow.released + r.amount <= Amount
        /\ r.op = "approve" /\ r.pc = "commit" => r.user \in Signatories
        /\ r.op = "milestone" => r.milestone \in Milestones
        /\ r.pc = "log" => r.event # None}

\* The stored columns: those of TypeOK, with releasedAmount within the amount.
GoodRow == row \in EscrowAccount /\ row.released <= Amount

GoodRest ==
    /\ terms \in CreateEscrowDto \cup {NoTerms}
    /\ approvals \subseteq Signatories
    /\ completed \subseteq Milestones
    /\ timeline \subseteq EscrowTimelineEventType
    /\ emitted \in [EscrowEvents -> Nat]
    /\ paid \in Nat
    /\ passed \subseteq {"deadline", "timeLock"}

GoodRequests == req \in [Slots -> GoodRequest]

EscrowInv == GoodRow /\ GoodRest /\ GoodRequests

-----------------------------------------------------------------------------
(* The steps handlers are made of keep the requests good. *)

LEMMA IdleGood == Idle \in GoodRequest
<1>1. Idle \in RequestType
  BY DEF Idle, RequestType, Absent, EscrowAccount, Users
<1>. QED
  BY <1>1, ConstantsAssumption DEF Idle, GoodRequest, Absent, None

LEMMA AcceptGood ==
    ASSUME EscrowInv, NEW s \in Slots, NEW op \in Operations \ {"release", "milestone"},
           NEW u \in Users \cup {None}, NEW pc \in {"signatories", "save"},
           Accept(s, op, u, pc)
    PROVE  GoodRequests'
<1>. DEFINE r == [Idle EXCEPT !.op = op, !.pc = pc, !.escrow = row, !.user = u,
                              !.admin = u \in Admins]
<1>1. (u \in Admins) \in BOOLEAN
  OBVIOUS
<1>2. Idle \in RequestType
  BY IdleGood DEF GoodRequest
<1>3. r \in RequestType
  BY <1>1, <1>2 DEF EscrowInv, GoodRow, RequestType
<1>4. /\ r.op = op
      /\ r.pc = pc
      /\ r.escrow = row
  BY <1>2 DEF RequestType
<1>5. r \in GoodRequest
  BY <1>3, <1>4 DEF EscrowInv, GoodRow, GoodRequest
<1>. QED
  BY <1>5 DEF EscrowInv, GoodRequests, Accept

LEMMA GotoGood ==
    ASSUME EscrowInv, NEW s \in Slots, req[s].op # "approve",
           NEW pc \in {"save", "milestone", "commit", "refund"}, Goto(s, pc)
    PROVE  GoodRequests'
<1>1. [req[s] EXCEPT !.pc = pc] \in GoodRequest
  BY DEF EscrowInv, GoodRequests, GoodRequest, RequestType
<1>2. req' = [req EXCEPT ![s] = [req[s] EXCEPT !.pc = pc]]
  BY DEF Goto
<1>. QED
  BY <1>1, <1>2 DEF EscrowInv, GoodRequests

LEMMA ReturnGood ==
    ASSUME EscrowInv, NEW s \in Slots, Return(s)
    PROVE  GoodRequests'
BY IdleGood DEF EscrowInv, GoodRequests, Return

LEMMA ThenLogGood ==
    ASSUME EscrowInv, NEW s \in Slots, NEW e \in EscrowTimelineEventType, ThenLog(s, e)
    PROVE  GoodRequests'
<1>1. e # None
  BY DEF EscrowTimelineEventType, None
<1>. DEFINE r == [req[s] EXCEPT !.pc = "log", !.event = e]
<1>2. req[s] \in GoodRequest
  BY DEF EscrowInv, GoodRequests
<1>3. req[s] \in RequestType
  BY <1>2 DEF GoodRequest
<1>4. r \in RequestType
  BY <1>3 DEF RequestType
<1>5. /\ r.op = req[s].op /\ r.pc = "log" /\ r.event = e /\ r.escrow = req[s].escrow
      /\ r.amount = req[s].amount /\ r.milestone = req[s].milestone
  BY <1>3 DEF RequestType
<1>. HIDE DEF r
<1>6. r \in GoodRequest
  BY <1>1, <1>2, <1>4, <1>5 DEF GoodRequest
<1>7. req' = [req EXCEPT ![s] = r]
  BY DEF ThenLog, r
<1>. QED
  BY <1>6, <1>7 DEF EscrowInv, GoodRequests

LEMMA ReadSignatoriesGood ==
    ASSUME EscrowInv, NEW s \in Slots, req[s].user \in Signatories, ReadSignatories(s, "commit")
    PROVE  GoodRequests'
<1>. DEFINE r == [req[s] EXCEPT !.signatories = approvals, !.pc = "commit"]
<1>1. req[s] \in GoodRequest /\ approvals \subseteq Signatories
  BY DEF EscrowInv, GoodRequests, GoodRest
<1>2. req[s] \in RequestType
  BY <1>1 DEF GoodRequest
<1>3. r \in RequestType
  BY <1>1, <1>2 DEF RequestType
<1>4. /\ r.op = req[s].op /\ r.pc = "commit" /\ r.user = req[s].user /\ r.escrow = req[s].escrow
      /\ r.amount = req[s].amount /\ r.milestone = req[s].milestone
  BY <1>2 DEF RequestType
<1>. HIDE DEF r
<1>5. r \in GoodRequest
  BY <1>1, <1>3, <1>4 DEF GoodRequest
<1>6. req' = [req EXCEPT ![s] = r]
  BY DEF ReadSignatories, r
<1>. QED
  BY <1>5, <1>6 DEF EscrowInv, GoodRequests

\* A whole-row save writes a good row if only the status and the dates differ
\* from the copy the request holds.
LEMMA SaveGood ==
    ASSUME EscrowInv, NEW s \in Slots, NEW e \in EscrowTimelineEventType,
           NEW escrow \in EscrowAccount, escrow.released <= Amount, Save(s, escrow, e)
    PROVE  GoodRow' /\ GoodRequests'
<1>1. ThenLog(s, e)
  BY DEF Save
<1>. QED
  BY <1>1, ThenLogGood DEF Save, GoodRow

-----------------------------------------------------------------------------
(* Arriving requests change nothing but the slot they take. *)

LEMMA RequestInv ==
    ASSUME EscrowInv, NEW s \in Slots, Request(s)
    PROVE  EscrowInv'
<1>1. ASSUME NEW dto \in Dtos, CreateEscrow(s, dto)
      PROVE  EscrowInv'
  <2>. DEFINE r == [Idle EXCEPT !.op = "create", !.pc = "log", !.event = "ESCROW_CREATED"]
  <2>1. r \in GoodRequest
    <3>1. Idle \in RequestType /\ Idle.escrow.released <= Amount
      BY IdleGood DEF GoodRequest
    <3>2. r \in RequestType
      BY <3>1 DEF RequestType, Operations, EscrowTimelineEventType
    <3>3. r.op = "create" /\ r.escrow = Idle.escrow /\ r.event = "ESCROW_CREATED"
      BY <3>1 DEF RequestType
    <3>. QED
      BY <3>1, <3>2, <3>3 DEF GoodRequest, None
  <2>2. GoodRequests'
    BY <1>1, <2>1 DEF CreateEscrow, EscrowInv, GoodRequests
  <2>3. GoodRow'
    BY <1>1 DEF CreateEscrow, EscrowInv, GoodRow, EscrowAccount, EscrowStatus
  <2>4. GoodRest'
    BY <1>1, ConstantsAssumption DEF CreateEscrow, EscrowInv, GoodRest
  <2>. QED
    BY <2>2, <2>3, <2>4 DEF EscrowInv
<1>2. ASSUME HandleTimeout(s)
      PROVE  EscrowInv'
  <2>1. GoodRequests'
    BY <1>2, AcceptGood DEF HandleTimeout, Operations
  <2>. QED
    BY <1>2, <2>1 DEF HandleTimeout, EscrowInv, GoodRow, GoodRest
<1>3. ASSUME HandleTimeLockSettlement(s)
      PROVE  EscrowInv'
  <2>1. GoodRequests'
    BY <1>3, AcceptGood DEF HandleTimeLockSettlement, Operations
  <2>. QED
    BY <1>3, <2>1 DEF HandleTimeLockSettlement, EscrowInv, GoodRow, GoodRest
<1>4. ASSUME NEW u \in Users, FundEscrow(s, u)
      PROVE  EscrowInv'
  <2>1. GoodRequests'
    BY <1>4, AcceptGood DEF FundEscrow, Operations
  <2>. QED
    BY <1>4, <2>1 DEF FundEscrow, EscrowInv, GoodRow, GoodRest
<1>5. ASSUME NEW u \in Users, ApproveEscrow(s, u)
      PROVE  EscrowInv'
  <2>1. GoodRequests'
    BY <1>5, AcceptGood DEF ApproveEscrow, Operations
  <2>. QED
    BY <1>5, <2>1 DEF ApproveEscrow, EscrowInv, GoodRow, GoodRest
<1>6. ASSUME NEW u \in Users, RevokeApproval(s, u)
      PROVE  EscrowInv'
  <2>1. GoodRequests'
    BY <1>6, AcceptGood DEF RevokeApproval, Operations
  <2>. QED
    BY <1>6, <2>1 DEF RevokeApproval, EscrowInv, GoodRow, GoodRest
<1>7. ASSUME NEW u \in Users, RefundEscrow(s, u)
      PROVE  EscrowInv'
  <2>1. GoodRequests'
    BY <1>7, AcceptGood DEF RefundEscrow, Operations
  <2>. QED
    BY <1>7, <2>1 DEF RefundEscrow, EscrowInv, GoodRow, GoodRest
<1>8. ASSUME NEW u \in Users, CancelEscrow(s, u)
      PROVE  EscrowInv'
  <2>1. GoodRequests'
    BY <1>8, AcceptGood DEF CancelEscrow, Operations
  <2>. QED
    BY <1>8, <2>1 DEF CancelEscrow, EscrowInv, GoodRow, GoodRest
<1>9. ASSUME NEW u \in Users, FlagDispute(s, u)
      PROVE  EscrowInv'
  <2>1. GoodRequests'
    BY <1>9, AcceptGood DEF FlagDispute, Operations
  <2>. QED
    BY <1>9, <2>1 DEF FlagDispute, EscrowInv, GoodRow, GoodRest
<1>10. ASSUME NEW u \in Users, NEW amount \in 0..Amount, NEW m \in Milestones \cup {None},
             ReleaseFunds(s, u, amount, m)
      PROVE  EscrowInv'
  <2>. DEFINE a == ReleaseAmount(row, amount)
              r == [Idle EXCEPT !.op = "release", !.pc = "signatories", !.escrow = row,
                                !.admin = u \in Admins, !.milestone = m, !.amount = a]
  <2>1. (u \in Admins) \in BOOLEAN
    OBVIOUS
  <2>2. Idle \in RequestType
    BY IdleGood DEF GoodRequest
  <2>3. row.released \in Nat /\ Amount \in Nat
    BY ConstantsAssumption DEF EscrowInv, GoodRow, EscrowAccount
  <2>4. a \in Nat /\ row.released + a <= Amount
    BY <1>10, <2>3 DEF ReleaseFunds
  <2>. HIDE DEF a
  <2>5. r \in RequestType
    BY <2>1, <2>2, <2>4 DEF EscrowInv, GoodRow, RequestType, Operations
  <2>6. r.op = "release" /\ r.pc = "signatories" /\ r.escrow = row /\ r.amount = a
    BY <2>2 DEF RequestType
  <2>7. r \in GoodRequest
    BY <2>4, <2>5, <2>6 DEF EscrowInv, GoodRow, GoodRequest
  <2>8. GoodRequests'
    BY <1>10, <2>7 DEF ReleaseFunds, EscrowInv, GoodRequests, a
  <2>. QED
    BY <1>10, <2>8 DEF ReleaseFunds, EscrowInv, GoodRow, GoodRest
<1>11. ASSUME NEW u \in Users, NEW m \in Milestones, NEW isCompleted \in BOOLEAN,
             UpdateMilestone(s, u, m, isCompleted)
      PROVE  EscrowInv'
  <2>. DEFINE r == [Idle EXCEPT !.op = "milestone", !.pc = "signatories", !.escrow = row,
                                !.user = u, !.admin = u \in Admins, !.milestone = m,
                                !.flag = isCompleted]
  <2>1. (u \in Admins) \in BOOLEAN
    OBVIOUS
  <2>2. Idle \in RequestType
    BY IdleGood DEF GoodRequest
  <2>3. r \in RequestType
    BY <2>1, <2>2 DEF EscrowInv, GoodRow, RequestType, Operations
  <2>4. r.op = "milestone" /\ r.pc = "signatories" /\ r.escrow = row /\ r.milestone = m
    BY <2>2 DEF RequestType
  <2>5. r \in GoodRequest
    BY <2>3, <2>4 DEF EscrowInv, GoodRow, GoodRequest
  <2>6. GoodRequests'
    BY <1>11, <2>5 DEF UpdateMilestone, EscrowInv, GoodRequests
  <2>. QED
    BY <1>11, <2>6 DEF UpdateMilestone, EscrowInv, GoodRow, GoodRest
<1>12. ASSUME NEW u \in Users, NEW releaseToCreator \in BOOLEAN,
             ResolveDispute(s, u, releaseToCreator)
      PROVE  EscrowInv'
  <2>. DEFINE r == [Idle EXCEPT !.op = "resolve", !.pc = "save", !.escrow = row,
                                !.flag = releaseToCreator]
  <2>1. Idle \in RequestType
    BY IdleGood DEF GoodRequest
  <2>2. r \in RequestType
    BY <2>1 DEF EscrowInv, GoodRow, RequestType, Operations
  <2>3. r.op = "resolve" /\ r.pc = "save" /\ r.escrow = row
    BY <2>1 DEF RequestType
  <2>4. r \in GoodRequest
    BY <2>2, <2>3 DEF EscrowInv, GoodRow, GoodRequest
  <2>5. GoodRequests'
    BY <1>12, <2>4 DEF ResolveDispute, EscrowInv, GoodRequests
  <2>. QED
    BY <1>12, <2>5 DEF ResolveDispute, EscrowInv, GoodRow, GoodRest
<1>. QED
  BY <1>1, <1>2, <1>3, <1>4, <1>5, <1>6, <1>7, <1>8, <1>9, <1>10, <1>11, <1>12 DEF Request

-----------------------------------------------------------------------------
(* Resumed handlers. *)

LEMMA ContinueInv ==
    ASSUME EscrowInv, NEW s \in Slots, Continue(s)
    PROVE  EscrowInv'
<1>. DEFINE copy == req[s].escrow
<1>0. /\ req[s] \in RequestType
      /\ copy \in EscrowAccount
      /\ copy.released <= Amount
  BY DEF EscrowInv, GoodRequests, GoodRequest, RequestType
<1>00. Amount \in Nat
  BY ConstantsAssumption
<1>1. CASE FundEscrowSave(s)
  <2>. DEFINE escrow == [copy EXCEPT !.status = "FUNDED", !.fundedAt = TRUE]
  <2>1. escrow \in EscrowAccount /\ escrow.released = copy.released
    BY <1>0 DEF EscrowAccount, EscrowStatus
  <2>2. GoodRow' /\ GoodRequests'
    BY <1>0, <1>1, <2>1, SaveGood DEF FundEscrowSave, EscrowTimelineEventType
  <2>. QED
    BY <1>1, <2>2 DEF FundEscrowSave, EscrowInv, GoodRest
<1>2. CASE RefundEscrowSave(s)
  <2>. DEFINE escrow == [copy EXCEPT !.status = "REFUNDED", !.refundedAt = TRUE]
  <2>1. escrow \in EscrowAccount /\ escrow.released = copy.released
    BY <1>0 DEF EscrowAccount, EscrowStatus
  <2>2. GoodRow' /\ GoodRequests'
    BY <1>0, <1>2, <2>1, SaveGood DEF RefundEscrowSave, EscrowTimelineEventType
  <2>. QED
    BY <1>2, <2>2 DEF RefundEscrowSave, EscrowInv, GoodRest
<1>3. CASE CancelEscrowSave(s)
  <2>. DEFINE escrow == [copy EXCEPT !.status = "CANCELLED"]
  <2>1. escrow \in EscrowAccount /\ escrow.released = copy.released
    BY <1>0 DEF EscrowAccount, EscrowStatus
  <2>2. GoodRow' /\ GoodRequests'
    BY <1>0, <1>3, <2>1, SaveGood DEF CancelEscrowSave, EscrowTimelineEventType
  <2>. QED
    BY <1>3, <2>2 DEF CancelEscrowSave, EscrowInv, GoodRest
<1>4. CASE HandleTimeoutSave(s)
  <2>. DEFINE escrow == [copy EXCEPT !.status = "EXPIRED"]
  <2>1. escrow \in EscrowAccount /\ escrow.released = copy.released
    BY <1>0 DEF EscrowAccount, EscrowStatus
  <2>2. GoodRow' /\ GoodRequests'
    BY <1>0, <1>4, <2>1, SaveGood DEF HandleTimeoutSave, EscrowTimelineEventType
  <2>. QED
    BY <1>4, <2>2 DEF HandleTimeoutSave, EscrowInv, GoodRest
<1>5. CASE HandleTimeoutRefund(s)
  <2>. DEFINE escrow == [copy EXCEPT !.status = "REFUNDED", !.refundedAt = TRUE]
  <2>1. escrow \in EscrowAccount /\ escrow.released = copy.released
    BY <1>0 DEF EscrowAccount, EscrowStatus
  <2>2. GoodRow' /\ GoodRequests'
    BY <1>0, <1>5, <2>1, SaveGood DEF HandleTimeoutRefund, EscrowTimelineEventType
  <2>. QED
    BY <1>5, <2>2 DEF HandleTimeoutRefund, EscrowInv, GoodRest
<1>6. CASE FlagDisputeSave(s)
  <2>. DEFINE escrow == [copy EXCEPT !.status = "DISPUTED"]
  <2>1. escrow \in EscrowAccount /\ escrow.released = copy.released
    BY <1>0 DEF EscrowAccount, EscrowStatus
  <2>2. GoodRow' /\ GoodRequests'
    BY <1>0, <1>6, <2>1, SaveGood DEF FlagDisputeSave, EscrowTimelineEventType
  <2>. QED
    BY <1>6, <2>2 DEF FlagDisputeSave, EscrowInv, GoodRest
<1>7. CASE ResolveDisputeSave(s)
  <2>. DEFINE escrow == [copy EXCEPT !.status = IF req[s].flag THEN "REFUNDED" ELSE "SETTLED",
                                   !.refundedAt = req[s].flag, !.settledAt = ~req[s].flag]
  <2>1. req[s].flag \in BOOLEAN
    BY <1>0 DEF RequestType
  <2>2. (~req[s].flag) \in BOOLEAN
    OBVIOUS
  <2>3. escrow \in EscrowAccount /\ escrow.released = copy.released
    BY <1>0, <2>1, <2>2 DEF EscrowAccount, EscrowStatus
  <2>4. GoodRow' /\ GoodRequests'
    BY <1>0, <1>7, <2>3, SaveGood DEF ResolveDisputeSave, EscrowTimelineEventType
  <2>. QED
    BY <1>7, <2>4 DEF ResolveDisputeSave, EscrowInv, GoodRest
<1>8. CASE HandleTimeLockSettlementSave(s)
  <2>. DEFINE escrow == [copy EXCEPT !.released = Amount, !.status = "SETTLED",
                                     !.settledAt = TRUE]
  <2>1. escrow \in EscrowAccount /\ escrow.released = Amount
    BY <1>0, <1>00 DEF EscrowAccount, EscrowStatus
  <2>2. GoodRow' /\ GoodRequests'
    <3>1. Save(s, escrow, "ESCROW_SETTLED")
      BY <1>8 DEF HandleTimeLockSettlementSave
    <3>2. escrow.released <= Amount
      BY <1>00, <2>1
    <3>. HIDE DEF escrow
    <3>. QED
      BY <2>1, <3>1, <3>2, SaveGood DEF EscrowTimelineEventType
  <2>3. paid' \in Nat
    BY <1>0, <1>00, <1>8 DEF HandleTimeLockSettlementSave, EscrowAccount, EscrowInv, GoodRest
  <2>. QED
    BY <1>8, <2>2, <2>3 DEF HandleTimeLockSettlementSave, EscrowInv, GoodRest
<1>9. CASE RevokeApprovalSignatories(s)
  <2>1. GoodRequests'
    BY <1>9, GotoGood, ReturnGood DEF RevokeApprovalSignatories, At
  <2>. QED
    BY <1>9, <2>1 DEF RevokeApprovalSignatories, EscrowInv, GoodRow, GoodRest
<1>10. CASE ReleaseFundsSignatories(s)
  <2>1. GoodRequests'
    BY <1>10, GotoGood, ReturnGood DEF ReleaseFundsSignatories, At
  <2>. QED
    BY <1>10, <2>1 DEF ReleaseFundsSignatories, EscrowInv, GoodRow, GoodRest
<1>11. CASE ReleaseFundsMilestone(s)
  <2>1. GoodRequests'
    BY <1>11, GotoGood, ReturnGood DEF ReleaseFundsMilestone, At
  <2>. QED
    BY <1>11, <2>1 DEF ReleaseFundsMilestone, EscrowInv, GoodRow, GoodRest
<1>12. CASE UpdateMilestoneSignatories(s)
  <2>1. GoodRequests'
    BY <1>12, GotoGood, ReturnGood DEF UpdateMilestoneSignatories, At
  <2>. QED
    BY <1>12, <2>1 DEF UpdateMilestoneSignatories, EscrowInv, GoodRow, GoodRest
<1>13. CASE FlagDisputeSignatories(s)
  <2>1. GoodRequests'
    BY <1>13, GotoGood, ReturnGood DEF FlagDisputeSignatories, At
  <2>. QED
    BY <1>13, <2>1 DEF FlagDisputeSignatories, EscrowInv, GoodRow, GoodRest
<1>14. CASE ApproveEscrowSignatories(s)
  <2>1. GoodRequests'
    BY <1>14, ReadSignatoriesGood, ReturnGood DEF ApproveEscrowSignatories
  <2>. QED
    BY <1>14, <2>1 DEF ApproveEscrowSignatories, EscrowInv, GoodRow, GoodRest
<1>15. CASE ApproveEscrowCommit(s)
  <2>1. GoodRequests'
    BY <1>15, ReturnGood DEF ApproveEscrowCommit
  <2>2. req[s].user \in Signatories
    BY <1>15 DEF ApproveEscrowCommit, At, EscrowInv, GoodRequests, GoodRequest
  <2>3. GoodRow'
    BY <1>0, <1>15 DEF ApproveEscrowCommit, EscrowInv, GoodRow, EscrowAccount, EscrowStatus
  <2>4. GoodRest'
    BY <1>15, <2>2 DEF ApproveEscrowCommit, EscrowInv, GoodRest, Emit, EscrowEvents,
                      EscrowTimelineEventType
  <2>. QED
    BY <2>1, <2>3, <2>4 DEF EscrowInv
<1>16. CASE RevokeApprovalSave(s)
  <2>1. GoodRequests'
    BY <1>16, ThenLogGood DEF RevokeApprovalSave, EscrowTimelineEventType
  <2>. QED
    BY <1>16, <2>1 DEF RevokeApprovalSave, EscrowInv, GoodRow, GoodRest
<1>17. CASE ReleaseFundsCommit(s)
  <2>1. GoodRequests'
    BY <1>17, ReturnGood DEF ReleaseFundsCommit
  <2>2. /\ copy.released \in Nat
        /\ req[s].amount \in Nat
        /\ ReleasedTo(s) <= Amount
    BY <1>0, <1>17 DEF ReleaseFundsCommit, At, EscrowInv, GoodRequests, GoodRequest, RequestType,
                      EscrowAccount, ReleasedTo
  <2>3. ReleasedTo(s) \in Nat
    BY <2>2 DEF ReleasedTo
  <2>4. (row.settledAt \/ copy.settledAt) \in BOOLEAN
    OBVIOUS
  <2>5. GoodRow'
    <3>1. row \in EscrowAccount /\ row.released <= Amount /\ Amount \in Nat
      BY ConstantsAssumption DEF EscrowInv, GoodRow
    <3>2. CASE ReleaseGuard(s) /\ ReleasedTo(s) = Amount
      <4>1. row' = [row EXCEPT !.released = Amount, !.status = "SETTLED", !.settledAt = TRUE]
        BY <1>17, <3>2 DEF ReleaseFundsCommit
      <4>2. row' \in EscrowAccount
        BY <3>1, <4>1 DEF EscrowAccount, EscrowStatus
      <4>3. row'.released = Amount
        BY <3>1, <4>1 DEF EscrowAccount
      <4>. QED
        BY <3>1, <4>2, <4>3 DEF GoodRow
    <3>3. CASE ReleaseGuard(s) /\ ReleasedTo(s) # Amount
      <4>1. row' = [row EXCEPT !.released = ReleasedTo(s), !.status = "PARTIALLY_RELEASED",
                               !.settledAt = row.settledAt \/ copy.settledAt]
        BY <1>17, <3>3 DEF ReleaseFundsCommit
      <4>. QED
        BY <2>2, <2>3, <2>4, <3>1, <4>1 DEF GoodRow, EscrowAccount, EscrowStatus
    <3>4. CASE ~ReleaseGuard(s)
      <4>1. row' = row
        BY <1>17, <3>4 DEF ReleaseFundsCommit
      <4>. QED
        BY <3>1, <4>1 DEF GoodRow
    <3>. QED
      BY <3>2, <3>3, <3>4
  <2>6. paid' \in Nat
    BY <1>17, <2>2 DEF ReleaseFundsCommit, EscrowInv, GoodRest
  <2>7. GoodRest'
    BY <1>17, <2>6 DEF ReleaseFundsCommit, EscrowInv, GoodRest, Emit, EscrowEvents,
                      EscrowTimelineEventType, SettledEvent
  <2>. QED
    BY <2>1, <2>5, <2>7 DEF EscrowInv
<1>18. CASE UpdateMilestoneRead(s)
  <2>1. GoodRequests'
    BY <1>18, GotoGood, ReturnGood, ThenLogGood
      DEF UpdateMilestoneRead, At, EscrowTimelineEventType
  <2>. QED
    BY <1>18, <2>1 DEF UpdateMilestoneRead, EscrowInv, GoodRow, GoodRest
<1>19. CASE UpdateMilestoneSave(s)
  <2>1. GoodRequests'
    BY <1>19, ReturnGood DEF UpdateMilestoneSave
  <2>2. req[s].milestone \in Milestones
    BY <1>19 DEF UpdateMilestoneSave, At, EscrowInv, GoodRequests, GoodRequest
  <2>. QED
    BY <1>19, <2>1, <2>2 DEF UpdateMilestoneSave, EscrowInv, GoodRow, GoodRest
<1>20. CASE AddEvent(s)
  <2>1. req[s].event \in EscrowTimelineEventType
    BY <1>0, <1>20 DEF AddEvent, EscrowInv, GoodRequests, GoodRequest, RequestType
  <2>2. GoodRest'
    BY <1>20, <2>1 DEF AddEvent, EscrowInv, GoodRest, Emit
  <2>3. GoodRequests'
    <3>. DEFINE good(pc) == [req[s] EXCEPT !.pc = pc] \in GoodRequest
    <3>1. good("refund") /\ good("save")
      BY DEF EscrowInv, GoodRequests, GoodRequest, RequestType
    <3>2. \A pc : Goto(s, pc) /\ good(pc) => GoodRequests'
      BY DEF Goto, EscrowInv, GoodRequests
    <3>. HIDE DEF good
    <3>. QED
      BY <1>20, <3>1, <3>2, ReturnGood DEF AddEvent
  <2>. QED
    BY <1>20, <2>2, <2>3 DEF AddEvent, EscrowInv, GoodRow
<1>. QED
  BY <1>1, <1>2, <1>3, <1>4, <1>5, <1>6, <1>7, <1>8, <1>9, <1>10, <1>11, <1>12, <1>13, <1>14, <1>15, <1>16, <1>17, <1>18, <1>19, <1>20 DEF Continue

-----------------------------------------------------------------------------
LEMMA EscrowInvStep == EscrowInv /\ [Next]_vars => EscrowInv'
<1>. SUFFICES ASSUME EscrowInv, [Next]_vars
              PROVE  EscrowInv'
  OBVIOUS
<1>1. ASSUME NEW s \in Slots, ApproveEscrowRollback(s)
      PROVE  EscrowInv'
  BY <1>1, ReturnGood DEF ApproveEscrowRollback, EscrowInv, GoodRow, GoodRest, Emit, EscrowEvents
<1>2. ASSUME NEW s \in Slots, ReleaseFundsRollback(s)
      PROVE  EscrowInv'
  BY <1>2, ReturnGood DEF ReleaseFundsRollback, EscrowInv, GoodRow, GoodRest, Emit, EscrowEvents
<1>3. ASSUME NEW s \in Slots, Abandon(s)
      PROVE  EscrowInv'
  BY <1>3, ReturnGood DEF Abandon, EscrowInv, GoodRow, GoodRest
<1>4. ASSUME NEW date \in {"deadline", "timeLock"}, DatePasses(date)
      PROVE  EscrowInv'
  BY <1>4 DEF DatePasses, EscrowInv, GoodRow, GoodRest, GoodRequests
<1>5. CASE UNCHANGED vars
  BY <1>5 DEF vars, EscrowInv, GoodRow, GoodRest, GoodRequests
<1>. QED
  BY <1>1, <1>2, <1>3, <1>4, <1>5, RequestInv, ContinueInv DEF Next

LEMMA EscrowInvInit == Init => EscrowInv
<1>1. Init => GoodRow
  BY ConstantsAssumption DEF Init, GoodRow, Absent, EscrowAccount
<1>2. Init => GoodRest
  BY DEF Init, GoodRest
<1>3. Init => GoodRequests
  BY IdleGood DEF Init, GoodRequests
<1>. QED
  BY <1>1, <1>2, <1>3 DEF EscrowInv

\* EscrowInv holds however requests interleave and die.
THEOREM EscrowInvariant == Spec => []EscrowInv
BY EscrowInvInit, EscrowInvStep, PTL DEF Spec

\* Every reachable state of the service's tables and requests is well typed.
THEOREM TypeCorrect == Spec => []TypeOK
<1>1. EscrowInv => TypeOK
  BY DEF EscrowInv, GoodRow, GoodRest, GoodRequests, GoodRequest, TypeOK
<1>. QED
  BY <1>1, EscrowInvariant, PTL

\* releasedAmount stays within the amount, for any number of concurrent
\* releases, whole-row saves and failures: the CHECK constraint never fires.
THEOREM ReleasedBounded == Spec => []ReleasedWithinAmount
<1>1. EscrowInv => ReleasedWithinAmount
  BY DEF EscrowInv, GoodRow, GoodRequests, GoodRequest, ReleasedWithinAmount, At, ReleasedTo
<1>. QED
  BY <1>1, EscrowInvariant, PTL

\* releaseFunds' guarded UPDATE: a release is applied only on top of the
\* releasedAmount it read, whatever other requests saved in between.
THEOREM ReleaseCounted == Spec => ReleaseIsCounted
<1>1. EscrowInv /\ [Next]_vars => [CountedRelease]_vars
  <2>. SUFFICES ASSUME EscrowInv, [Next]_vars, NEW s \in Slots, At(s, "release", "commit"),
                       req'[s] = Idle, paid' # paid
                PROVE  row'.released - row.released = paid' - paid
    BY DEF CountedRelease
  <2>1. req[s] # Idle
    BY DEF At, Idle, None
  <2>2. PICK t \in Slots : ReleaseFundsCommit(t) \/ HandleTimeLockSettlementSave(t)
    <3>1. ASSUME NEW t \in Slots, Request(t)
          PROVE  FALSE
      BY <3>1 DEF Request, CreateEscrow, FundEscrow, ApproveEscrow, RevokeApproval, ReleaseFunds,
         RefundEscrow, CancelEscrow, HandleTimeout, HandleTimeLockSettlement, UpdateMilestone,
         FlagDispute, ResolveDispute
    <3>2. ASSUME NEW t \in Slots, Continue(t)
          PROVE  ReleaseFundsCommit(t) \/ HandleTimeLockSettlementSave(t)
      <4>. SUFFICES ASSUME ~ReleaseFundsCommit(t), ~HandleTimeLockSettlementSave(t)
                    PROVE  paid' = paid
        OBVIOUS
      <4>1. CASE \/ FundEscrowSave(t) \/ RefundEscrowSave(t) \/ CancelEscrowSave(t)
                 \/ HandleTimeoutSave(t) \/ HandleTimeoutRefund(t) \/ FlagDisputeSave(t)
                 \/ ResolveDisputeSave(t) \/ RevokeApprovalSave(t) \/ UpdateMilestoneSave(t)
        BY <4>1 DEF FundEscrowSave, RefundEscrowSave, CancelEscrowSave, HandleTimeoutSave,
           HandleTimeoutRefund, FlagDisputeSave, ResolveDisputeSave, RevokeApprovalSave,
           UpdateMilestoneSave
      <4>2. CASE \/ ApproveEscrowSignatories(t) \/ ApproveEscrowCommit(t)
                 \/ RevokeApprovalSignatories(t) \/ ReleaseFundsSignatories(t)
                 \/ ReleaseFundsMilestone(t) \/ UpdateMilestoneSignatories(t)
                 \/ UpdateMilestoneRead(t) \/ FlagDisputeSignatories(t) \/ AddEvent(t)
        BY <4>2 DEF ApproveEscrowSignatories, ApproveEscrowCommit, RevokeApprovalSignatories,
           ReleaseFundsSignatories, ReleaseFundsMilestone, UpdateMilestoneSignatories,
           UpdateMilestoneRead, FlagDisputeSignatories, AddEvent
      <4>. QED
        BY <3>2, <4>1, <4>2 DEF Continue
    <3>3. ASSUME NEW t \in Slots,
                 ApproveEscrowRollback(t) \/ ReleaseFundsRollback(t) \/ Abandon(t)
          PROVE  FALSE
      BY <3>3 DEF ApproveEscrowRollback, ReleaseFundsRollback, Abandon
    <3>4. ASSUME NEW date, DatePasses(date)
          PROVE  FALSE
      BY <3>4 DEF DatePasses
    <3>. QED
      BY <3>1, <3>2, <3>3, <3>4 DEF Next, vars
  <2>3. t = s
    BY <2>1, <2>2 DEF ReleaseFundsCommit, HandleTimeLockSettlementSave, Save, ThenLog, Return,
                      EscrowInv, GoodRequests
  <2>4. ReleaseFundsCommit(s) /\ ReleaseGuard(s)
    BY <2>2, <2>3 DEF HandleTimeLockSettlementSave, ReleaseFundsCommit, At
  <2>5. /\ row.released \in Nat
        /\ row \in EscrowAccount
        /\ req[s].amount \in Nat
        /\ paid \in Nat
    BY DEF EscrowInv, GoodRow, GoodRest, EscrowAccount, GoodRequests, GoodRequest, RequestType
  <2>6. paid' - paid = req[s].amount
    BY <2>4, <2>5 DEF ReleaseFundsCommit
  <2>7. row'.released = row.released + req[s].amount
    BY <2>4, <2>5 DEF ReleaseFundsCommit, ReleaseGuard, ReleasedTo, EscrowAccount
  <2>. QED
    BY <2>5, <2>6, <2>7
<1>. QED
  BY <1>1, EscrowInvariant, PTL DEF Spec, ReleaseIsCounted

-----------------------------------------------------------------------------
(* One request at a time: the tables and the request that holds a copy of them. *)

\* A handler that still holds the row as it read it, before its first save.
Reading(q) == q.pc \in {"signatories", "milestone", "commit"} \/ (q.pc = "save" /\ q.op # "milestone")

\* The statuses in which each operation accepts the row it reads.
ReadIn(op) ==
    CASE op \in {"fund", "cancel"} -> {"PENDING"}
      [] op = "approve" -> {"FUNDED", "APPROVED"}
      [] op = "revoke" -> {"FUNDED"}
      [] op = "refund" -> {"PENDING", "AWAITING_FUNDING", "FUNDED", "EXPIRED"}
      [] op = "timeout" -> {"PENDING", "AWAITING_FUNDING", "FUNDED"}
      [] op = "timelock" -> {"FUNDED", "PARTIALLY_RELEASED"}
      [] op = "dispute" -> Funded
      [] op = "resolve" -> {"DISPUTED"}
      [] OTHER -> EscrowStatus

\* What the only request in progress knows of the tables: the copy it holds
\* is the stored row, its checks still hold when it writes, and an expired
\* escrow waits for its refund.
Knows(q) ==
    /\ q.op # None => row.status # "ABSENT"
    /\ q.op = "timeout" => q.escrow.released = row.released
    /\ q.op \notin {"create", None} /\ Reading(q) => q.escrow = row /\ row.status \in ReadIn(q.op)
    /\ q.op = "approve" /\ q.pc = "commit" => q.signatories = approvals /\ q.user \notin approvals
    /\ q.op = "revoke" /\ q.pc = "save" => q.user \in approvals
    /\ q.op = "release" => q.amount >= 1
    /\ q.op = "release" => q.admin \/ row.status \in {"APPROVED", "PARTIALLY_RELEASED"}
    /\ q.op = "release" /\ q.pc \in {"milestone", "commit"} => q.admin \/ IsThresholdMet(approvals)
    /\ q.op = "timelock" => Matured
    /\ q.pc = "refund" \/ (q.pc = "log" /\ q.event = "TIMEOUT_TRIGGERED") => row.status = "EXPIRED"
    /\ q.pc = "log" /\ q.event = "TIMEOUT_TRIGGERED" => q.op = "timeout"
    /\ q.pc = "log" /\ q.event = "MILESTONE_COMPLETED" => q.op = "milestone"
    /\ q.admin => Admins # {}

\* What the tables say of the escrow: nothing left before a quorum released
\* it, nobody signed before it was funded, and an escrow in FUNDED has no
\* quorum.
SoundRow ==
    /\ row.released = paid
    /\ row.status \in {"ABSENT", "PENDING", "AWAITING_FUNDING", "FUNDED", "APPROVED"} => row.released = 0
    /\ row.status = "PARTIALLY_RELEASED" => row.released < Amount
    /\ row.status \in {"ABSENT", "PENDING", "AWAITING_FUNDING"} => approvals = {}
    /\ row.status = "FUNDED" => ~IsThresholdMet(approvals)
    /\ row.status = "ABSENT" => passed = {}
    /\ row.status # "ABSENT" => terms \in CreateEscrowDto

\* The inductive invariant of one request at a time.
SequentialInv == SoundRow /\ \A s \in Slots : Knows(req[s])

\* At most one request is in progress: what a lock on the escrow row, which
\* the service does not take, would give.
OneAtATime == \A s, t \in Slots : s = t

\* The types and bounds that EscrowInv gives, field by field.
LEMMA RequestFields ==
    ASSUME EscrowInv, NEW s \in Slots
    PROVE  /\ req[s] \in RequestType /\ req[s].escrow \in EscrowAccount
           /\ req[s].escrow.released \in Nat /\ req[s].amount \in Nat
           /\ row \in EscrowAccount /\ row.released \in Nat /\ row.status \in EscrowStatus \cup {"ABSENT"}
           /\ paid \in Nat /\ Amount \in Nat \ {0}
           /\ row.released <= Amount
           /\ req[s].op = "release" => req[s].escrow.released + req[s].amount <= Amount
<1>1. req[s] \in RequestType /\ (req[s].op = "release" => req[s].escrow.released + req[s].amount <= Amount)
  BY DEF EscrowInv, GoodRequests, GoodRequest
<1>2. req[s].escrow \in EscrowAccount /\ req[s].amount \in Nat BY <1>1 DEF RequestType
<1>3. row \in EscrowAccount /\ paid \in Nat /\ row.released <= Amount BY DEF EscrowInv, GoodRow, GoodRest
<1>4. \A x \in EscrowAccount : x.released \in Nat /\ x.status \in EscrowStatus \cup {"ABSENT"} BY DEF EscrowAccount
<1> QED BY <1>1, <1>2, <1>3, <1>4, ConstantsAssumption

\* A step that writes a slot leaves in it what it wrote.
LEMMA SlotIs ==
    ASSUME EscrowInv, NEW s \in Slots, NEW q, req' = [req EXCEPT ![s] = q]
    PROVE  req'[s] = q
  BY DEF EscrowInv, GoodRequests

\* A request takes its slot, or moves on, and the tables stay as they are.
LEMMA SlotStep ==
    ASSUME OneAtATime, EscrowInv, SequentialInv, NEW s \in Slots, NEW q, req' = [req EXCEPT ![s] = q],
           UNCHANGED <<terms, row, approvals, paid, passed>>, Knows(q)
    PROVE  SequentialInv'
<1>1. req'[s] = q BY SlotIs
<1>2. SoundRow' BY DEF SequentialInv, SoundRow, IsThresholdMet
<1>3. \A t \in Slots : t = s BY DEF OneAtATime
<1>4. Knows(req[s])' BY <1>1 DEF Knows, IsThresholdMet, Matured, Reading
<1> QED BY <1>2, <1>3, <1>4 DEF SequentialInv

\* An idle slot claims nothing.
LEMMA IdleKnows == Knows(Idle)
<1>1. Idle.op = None /\ Idle.pc = "idle" /\ Idle.admin = FALSE BY DEF Idle
<1> QED BY <1>1 DEF Knows, None

\* A request is over: only the tables matter.
LEMMA ReturnStep ==
    ASSUME OneAtATime, EscrowInv, NEW s \in Slots, Return(s), SoundRow'
    PROVE  SequentialInv'
<1>1. req'[s] = Idle BY SlotIs DEF Return
<1>2. Idle.op = None /\ Idle.pc = "idle" /\ Idle.admin = FALSE BY DEF Idle
<1>3. \A t \in Slots : t = s BY DEF OneAtATime
<1>4. Knows(req[s])' BY <1>1, <1>2 DEF Knows, None
<1> QED BY <1>3, <1>4 DEF SequentialInv

\* A request goes on to log an event.
LEMMA LogStep ==
    ASSUME OneAtATime, EscrowInv, SequentialInv, NEW s \in Slots, NEW e \in EscrowTimelineEventType, ThenLog(s, e), SoundRow',
           row'.status # "ABSENT", req[s].op # "release", req[s].op = "timelock" => Matured',
           req[s].op = "timeout" => req[s].escrow.released = row'.released,
           e = "TIMEOUT_TRIGGERED" => row'.status = "EXPIRED" /\ req[s].op = "timeout",
           e = "MILESTONE_COMPLETED" => req[s].op = "milestone"
    PROVE  SequentialInv'
<1> DEFINE q == [req[s] EXCEPT !.pc = "log", !.event = e]
<1>1. req' = [req EXCEPT ![s] = q] BY DEF ThenLog
<1>2. q.op = req[s].op /\ q.pc = "log" /\ q.event = e /\ q.escrow = req[s].escrow /\ q.admin = req[s].admin BY RequestFields DEF RequestType
<1> HIDE DEF q
<1>3. req'[s] = q BY <1>1, SlotIs
<1>4. \A t \in Slots : t = s BY DEF OneAtATime
<1>5. req[s].admin => Admins # {} BY DEF SequentialInv, Knows
<1>6. Knows(req[s])' BY <1>2, <1>3, <1>5 DEF Knows, Reading
<1> QED BY <1>4, <1>6 DEF SequentialInv

\* A save that leaves the escrow in a status about which SoundRow says only
\* that paid is released.
LEMMA SaveStep ==
    ASSUME OneAtATime, EscrowInv, SequentialInv, NEW s \in Slots, NEW x \in EscrowAccount, NEW e \in EscrowTimelineEventType, Save(s, x, e),
           x.status \notin {"ABSENT", "PENDING", "AWAITING_FUNDING", "FUNDED", "APPROVED", "PARTIALLY_RELEASED"},
           x.released = paid', req[s].op # "release", req[s].op = "timelock" => Matured', terms' \in CreateEscrowDto,
           req[s].op = "timeout" => req[s].escrow.released = x.released,
           e = "TIMEOUT_TRIGGERED" => x.status = "EXPIRED" /\ req[s].op = "timeout", e # "MILESTONE_COMPLETED"
    PROVE  SequentialInv'
<1>1. row' = x /\ ThenLog(s, e) BY DEF Save
<1>2. SoundRow' BY <1>1 DEF SoundRow
<1> QED BY <1>1, <1>2, LogStep

\* A request goes on to its next await with what it has checked.
LEMMA GotoStep ==
    ASSUME OneAtATime, EscrowInv, SequentialInv, NEW s \in Slots, NEW pc \in {"save", "milestone", "commit", "refund"},
           Goto(s, pc), UNCHANGED <<terms, row, approvals, paid, passed>>,
           Reading(req[s]) \/ req[s].op = "milestone" \/ pc = "refund",
           pc # "commit" \/ req[s].op # "approve",
           req[s].op = "revoke" => req[s].user \in approvals,
           req[s].op = "release" => req[s].admin \/ IsThresholdMet(approvals),
           pc = "refund" => row.status = "EXPIRED",
           req[s].op = "milestone" => pc = "save" \/ Reading(req[s])
    PROVE  SequentialInv'
<1> DEFINE q == [req[s] EXCEPT !.pc = pc]
<1>1. req' = [req EXCEPT ![s] = q] BY DEF Goto
<1>2. /\ q.op = req[s].op /\ q.pc = pc /\ q.event = req[s].event /\ q.escrow = req[s].escrow /\ q.user = req[s].user
      /\ q.admin = req[s].admin /\ q.amount = req[s].amount /\ q.signatories = req[s].signatories
  BY RequestFields DEF RequestType
<1> HIDE DEF q
<1>3. Knows(req[s]) BY DEF SequentialInv
<1>4. Knows(q) BY <1>2, <1>3 DEF Knows, Reading
<1> QED BY <1>1, <1>4, SlotStep

-----------------------------------------------------------------------------
(* Requests arrive. *)

\* A request that has just read the row knows what it has to.
LEMMA FreshKnows ==
    ASSUME NEW q, q.op \notin {"create", None}, q.pc \in {"signatories", "save"}, q.escrow = row, row.status # "ABSENT",
           row.status \in ReadIn(q.op), q.op \in {"approve", "revoke", "release", "milestone"} => q.pc = "signatories",
           q.op = "timelock" => Matured, q.admin => Admins # {},
           q.op = "release" => q.amount >= 1 /\ (q.admin \/ row.status \in {"APPROVED", "PARTIALLY_RELEASED"})
    PROVE  Knows(q)
  BY DEF Knows, Reading

\* A request accepted by getEscrowOrThrow and its handler's checks.
LEMMA AcceptStep ==
    ASSUME OneAtATime, EscrowInv, SequentialInv, NEW s \in Slots, NEW op \in Operations \ {"create", "release", "milestone"},
           NEW u \in Users \cup {None}, NEW pc \in {"signatories", "save"}, Accept(s, op, u, pc),
           UNCHANGED <<terms, row, approvals, paid, passed>>, row.status \in ReadIn(op),
           op \in {"approve", "revoke"} => pc = "signatories", op = "timelock" => Matured
    PROVE  SequentialInv'
<1> DEFINE q == [Idle EXCEPT !.op = op, !.pc = pc, !.escrow = row, !.user = u, !.admin = u \in Admins]
<1>1. req' = [req EXCEPT ![s] = q] /\ row.status # "ABSENT" BY DEF Accept
<1>2. q.op = op /\ q.pc = pc /\ q.escrow = row /\ (q.admin => Admins # {}) BY DEF Idle
<1>3. op # None /\ op \notin {"create", "release", "milestone"} BY DEF Operations, None
<1> HIDE DEF q
<1>4. Knows(q) BY <1>1, <1>2, <1>3, FreshKnows
<1> QED BY <1>1, <1>4, SlotStep

\* Arriving requests keep the invariant.
LEMMA Arrives ==
    ASSUME OneAtATime, EscrowInv, SequentialInv, NEW s \in Slots, Request(s)
    PROVE  SequentialInv'
<1>f. /\ row.status \in EscrowStatus \cup {"ABSENT"} /\ row.released \in Nat /\ Amount \in Nat \ {0} /\ row \in EscrowAccount
  BY RequestFields
<1>1. ASSUME NEW dto \in Dtos, CreateEscrow(s, dto) PROVE SequentialInv'
  <2> DEFINE q == [Idle EXCEPT !.op = "create", !.pc = "log", !.event = "ESCROW_CREATED"]
  <2>1. /\ row.status = "ABSENT" /\ terms' = dto /\ row' = [row EXCEPT !.status = "PENDING"] /\ req' = [req EXCEPT ![s] = q]
        /\ UNCHANGED <<approvals, paid, passed>>
    BY <1>1 DEF CreateEscrow
  <2>2. q.op = "create" /\ q.pc = "log" /\ q.event = "ESCROW_CREATED" /\ q.admin = FALSE BY DEF Idle
  <2> HIDE DEF q
  <2>3. row'.status = "PENDING" /\ row'.released = row.released BY <1>f, <2>1 DEF EscrowAccount
  <2>4. dto \in CreateEscrowDto BY ConstantsAssumption
  <2>5. SoundRow' BY <2>1, <2>3, <2>4 DEF SequentialInv, SoundRow
  <2>6. req'[s] = q BY <2>1, SlotIs
  <2>7. Knows(req[s])' BY <2>2, <2>3, <2>6 DEF Knows, None
  <2> QED BY <2>5, <2>7 DEF SequentialInv, OneAtATime
<1>2. CASE HandleTimeout(s) BY <1>2, AcceptStep DEF HandleTimeout, Operations, ReadIn
<1>3. CASE HandleTimeLockSettlement(s) BY <1>3, AcceptStep DEF HandleTimeLockSettlement, Operations, ReadIn, Matured
<1>4. ASSUME NEW u \in Users, FundEscrow(s, u) PROVE SequentialInv' BY <1>4, AcceptStep DEF FundEscrow, Operations, ReadIn
<1>5. ASSUME NEW u \in Users, ApproveEscrow(s, u) PROVE SequentialInv' BY <1>5, AcceptStep DEF ApproveEscrow, Operations, ReadIn
<1>6. ASSUME NEW u \in Users, RevokeApproval(s, u) PROVE SequentialInv' BY <1>6, AcceptStep DEF RevokeApproval, Operations, ReadIn
<1>7. ASSUME NEW u \in Users, RefundEscrow(s, u) PROVE SequentialInv' BY <1>7, AcceptStep DEF RefundEscrow, Operations, ReadIn
<1>8. ASSUME NEW u \in Users, CancelEscrow(s, u) PROVE SequentialInv' BY <1>8, AcceptStep DEF CancelEscrow, Operations, ReadIn
<1>9. ASSUME NEW u \in Users, FlagDispute(s, u) PROVE SequentialInv' BY <1>9, AcceptStep DEF FlagDispute, Operations, ReadIn, Funded
<1>10. ASSUME NEW u \in Users, NEW amount \in 0..Amount, NEW m \in Milestones \cup {None}, ReleaseFunds(s, u, amount, m) PROVE SequentialInv'
  <2> DEFINE a == ReleaseAmount(row, amount)
             q == [Idle EXCEPT !.op = "release", !.pc = "signatories", !.escrow = row, !.admin = u \in Admins, !.milestone = m, !.amount = a]
  <2>1. /\ a \in 1..(Amount - row.released) /\ row.status # "ABSENT" /\ req' = [req EXCEPT ![s] = q]
        /\ (u \in Admins \/ row.status \in {"APPROVED", "PARTIALLY_RELEASED"}) /\ UNCHANGED <<terms, row, approvals, paid, passed>>
    BY <1>10 DEF ReleaseFunds
  <2>2. a >= 1 BY <1>f, <2>1
  <2> HIDE DEF a
  <2>3. q.op = "release" /\ q.pc = "signatories" /\ q.escrow = row /\ q.amount = a /\ q.admin = (u \in Admins) BY DEF Idle
  <2> HIDE DEF q
  <2>4. row.status \in ReadIn("release") BY <1>f, <2>1 DEF ReadIn
  <2>5. Knows(q) BY <2>1, <2>2, <2>3, <2>4, FreshKnows DEF None
  <2> QED BY <2>1, <2>5, SlotStep
<1>11. ASSUME NEW u \in Users, NEW m \in Milestones, NEW isCompleted \in BOOLEAN, UpdateMilestone(s, u, m, isCompleted) PROVE SequentialInv'
  <2> DEFINE q == [Idle EXCEPT !.op = "milestone", !.pc = "signatories", !.escrow = row, !.user = u, !.admin = u \in Admins,
                     !.milestone = m, !.flag = isCompleted]
  <2>1. row.status # "ABSENT" /\ req' = [req EXCEPT ![s] = q] /\ UNCHANGED <<terms, row, approvals, paid, passed>>
    BY <1>11 DEF UpdateMilestone
  <2>2. q.op = "milestone" /\ q.pc = "signatories" /\ q.escrow = row /\ (q.admin => Admins # {}) BY DEF Idle
  <2> HIDE DEF q
  <2>3. row.status \in ReadIn("milestone") BY <1>f, <2>1 DEF ReadIn
  <2>4. Knows(q) BY <2>1, <2>2, <2>3, FreshKnows DEF None
  <2> QED BY <2>1, <2>4, SlotStep
<1>12. ASSUME NEW u \in Users, NEW flag \in BOOLEAN, ResolveDispute(s, u, flag) PROVE SequentialInv'
  <2> DEFINE q == [Idle EXCEPT !.op = "resolve", !.pc = "save", !.escrow = row, !.flag = flag]
  <2>1. row.status = "DISPUTED" /\ req' = [req EXCEPT ![s] = q] /\ UNCHANGED <<terms, row, approvals, paid, passed>>
    BY <1>12 DEF ResolveDispute
  <2>2. q.op = "resolve" /\ q.pc = "save" /\ q.escrow = row /\ q.admin = FALSE BY DEF Idle
  <2> HIDE DEF q
  <2>3. row.status \in ReadIn("resolve") BY <2>1 DEF ReadIn
  <2>4. Knows(q) BY <2>1, <2>2, <2>3, FreshKnows DEF None
  <2> QED BY <2>1, <2>4, SlotStep
<1> QED BY <1>1, <1>2, <1>3, <1>4, <1>5, <1>6, <1>7, <1>8, <1>9, <1>10, <1>11, <1>12 DEF Request

\* A quorum is not empty, and taking back a signature does not make one.
LEMMA QuorumFacts ==
    ASSUME EscrowInv, SequentialInv, row.status # "ABSENT"
    PROVE  /\ terms \in CreateEscrowDto /\ terms.requiredSignatures \in Nat \ {0, 1}
           /\ IsFiniteSet(approvals) /\ ~(Cardinality({}) >= terms.requiredSignatures)
           /\ \A u : Cardinality(approvals \ {u}) >= terms.requiredSignatures => Cardinality(approvals) >= terms.requiredSignatures
<1>1. terms \in CreateEscrowDto BY DEF SequentialInv, SoundRow
<1>2. terms.requiredSignatures \in Nat \ {0, 1} BY <1>1 DEF CreateEscrowDto
<1>3. IsFiniteSet(approvals) BY FS_Subset, ConstantsAssumption DEF EscrowInv, GoodRest
<1>4. Cardinality({}) = 0 BY FS_EmptySet
<1>5. ASSUME NEW u, Cardinality(approvals \ {u}) >= terms.requiredSignatures PROVE Cardinality(approvals) >= terms.requiredSignatures
  <2>1. Cardinality(approvals \ {u}) <= Cardinality(approvals) /\ IsFiniteSet(approvals \ {u}) BY <1>3, FS_Subset
  <2>2. Cardinality(approvals) \in Nat /\ Cardinality(approvals \ {u}) \in Nat BY <1>3, <2>1, FS_CardinalityType
  <2> QED BY <1>2, <1>5, <2>1, <2>2
<1>6. ~(Cardinality({}) >= terms.requiredSignatures) BY <1>2, <1>4
<1> QED BY <1>1, <1>2, <1>3, <1>5, <1>6

-----------------------------------------------------------------------------
(* Handlers that save the whole row. *)

\* The whole-row saves: funding, refund, cancellation, both saves of the
\* timeout, the time-lock's settlement and the dispute's two.
LEMMA Closes ==
    ASSUME OneAtATime, EscrowInv, SequentialInv, NEW s \in Slots,
           \/ FundEscrowSave(s) \/ RefundEscrowSave(s) \/ CancelEscrowSave(s) \/ HandleTimeoutSave(s)
           \/ HandleTimeoutRefund(s) \/ HandleTimeLockSettlementSave(s) \/ FlagDisputeSave(s) \/ ResolveDisputeSave(s)
    PROVE  SequentialInv'
<1>k. Knows(req[s]) /\ SoundRow BY DEF SequentialInv
<1>f. /\ req[s] \in RequestType /\ req[s].escrow \in EscrowAccount /\ row \in EscrowAccount /\ row.released \in Nat
      /\ paid \in Nat /\ Amount \in Nat \ {0} /\ row.released <= Amount /\ req[s].escrow.released \in Nat
  BY RequestFields
<1>e. /\ "FUNDED" \in EscrowStatus /\ "REFUNDED" \in EscrowStatus /\ "CANCELLED" \in EscrowStatus /\ "EXPIRED" \in EscrowStatus
      /\ "SETTLED" \in EscrowStatus /\ "DISPUTED" \in EscrowStatus
  BY DEF EscrowStatus
<1>l. /\ "ESCROW_FUNDED" \in EscrowTimelineEventType /\ "ESCROW_REFUNDED" \in EscrowTimelineEventType
      /\ "ESCROW_CANCELLED" \in EscrowTimelineEventType /\ "TIMEOUT_TRIGGERED" \in EscrowTimelineEventType
      /\ "ESCROW_SETTLED" \in EscrowTimelineEventType /\ "DISPUTE_FLAGGED" \in EscrowTimelineEventType
      /\ "DISPUTE_RESOLVED" \in EscrowTimelineEventType
  BY DEF EscrowTimelineEventType
<1>p. row.released = paid /\ (row.status # "ABSENT" => terms \in CreateEscrowDto) BY <1>k DEF SoundRow
<1>h. ASSUME NEW op \in {"fund", "refund", "cancel", "timeout", "timelock", "dispute", "resolve"}, At(s, op, "save")
      PROVE  req[s].escrow = row /\ row.status \in ReadIn(op) /\ row.status # "ABSENT" /\ (op = "timelock" => Matured) /\ req[s].op = op
  BY <1>k, <1>h DEF Knows, Reading, At, None
<1>1. CASE FundEscrowSave(s)
  <2> DEFINE x == [req[s].escrow EXCEPT !.status = "FUNDED", !.fundedAt = TRUE]
  <2>1. At(s, "fund", "save") /\ Save(s, x, "ESCROW_FUNDED") /\ UNCHANGED <<terms, approvals, paid, passed>>
    BY <1>1 DEF FundEscrowSave
  <2>2. req[s].escrow = row /\ row.status = "PENDING" /\ req[s].op = "fund" BY <1>h, <2>1 DEF ReadIn
  <2>3. x \in EscrowAccount /\ x.status = "FUNDED" /\ x.released = row.released BY <1>e, <1>f, <2>2 DEF EscrowAccount
  <2> HIDE DEF x
  <2>4. row' = x /\ ThenLog(s, "ESCROW_FUNDED") BY <2>1 DEF Save
  <2>5. approvals = {} /\ row.released = 0 BY <1>k, <2>2 DEF SoundRow
  <2>6. ~(Cardinality({}) >= terms.requiredSignatures) BY <2>2, QuorumFacts
  <2>7. ~IsThresholdMet(approvals)' BY <2>1, <2>5, <2>6 DEF IsThresholdMet
  <2>8. SoundRow' BY <1>p, <2>1, <2>2, <2>3, <2>4, <2>5, <2>7 DEF SoundRow
  <2> QED BY <1>l, <2>2, <2>3, <2>4, <2>8, LogStep
<1>2. CASE RefundEscrowSave(s)
  <2> DEFINE x == [req[s].escrow EXCEPT !.status = "REFUNDED", !.refundedAt = TRUE]
  <2>1. At(s, "refund", "save") /\ Save(s, x, "ESCROW_REFUNDED") /\ UNCHANGED <<terms, approvals, paid, passed>>
    BY <1>2 DEF RefundEscrowSave
  <2>2. req[s].escrow = row /\ row.status # "ABSENT" /\ req[s].op = "refund" BY <1>h, <2>1
  <2>3. x \in EscrowAccount /\ x.status = "REFUNDED" /\ x.released = row.released BY <1>e, <1>f, <2>2 DEF EscrowAccount
  <2> HIDE DEF x
  <2> QED BY <1>l, <1>p, <2>1, <2>2, <2>3, SaveStep
<1>3. CASE CancelEscrowSave(s)
  <2> DEFINE x == [req[s].escrow EXCEPT !.status = "CANCELLED"]
  <2>1. At(s, "cancel", "save") /\ Save(s, x, "ESCROW_CANCELLED") /\ UNCHANGED <<terms, approvals, paid, passed>>
    BY <1>3 DEF CancelEscrowSave
  <2>2. req[s].escrow = row /\ row.status # "ABSENT" /\ req[s].op = "cancel" BY <1>h, <2>1
  <2>3. x \in EscrowAccount /\ x.status = "CANCELLED" /\ x.released = row.released BY <1>e, <1>f, <2>2 DEF EscrowAccount
  <2> HIDE DEF x
  <2> QED BY <1>l, <1>p, <2>1, <2>2, <2>3, SaveStep
<1>4. CASE HandleTimeoutSave(s)
  <2> DEFINE x == [req[s].escrow EXCEPT !.status = "EXPIRED"]
  <2>1. At(s, "timeout", "save") /\ Save(s, x, "TIMEOUT_TRIGGERED") /\ UNCHANGED <<terms, approvals, paid, passed>>
    BY <1>4 DEF HandleTimeoutSave
  <2>2. req[s].escrow = row /\ row.status # "ABSENT" /\ req[s].op = "timeout" BY <1>h, <2>1
  <2>3. x \in EscrowAccount /\ x.status = "EXPIRED" /\ x.released = row.released BY <1>e, <1>f, <2>2 DEF EscrowAccount
  <2> HIDE DEF x
  <2> QED BY <1>l, <1>p, <2>1, <2>2, <2>3, SaveStep
<1>5. CASE HandleTimeoutRefund(s)
  <2> DEFINE x == [req[s].escrow EXCEPT !.status = "REFUNDED", !.refundedAt = TRUE]
  <2>1. At(s, "timeout", "refund") /\ Save(s, x, "ESCROW_REFUNDED") /\ UNCHANGED <<terms, approvals, paid, passed>>
    BY <1>5 DEF HandleTimeoutRefund
  <2>2. req[s].escrow.released = row.released /\ row.status # "ABSENT" /\ req[s].op = "timeout" BY <1>k, <2>1 DEF At, Knows, None
  <2>3. x \in EscrowAccount /\ x.status = "REFUNDED" /\ x.released = row.released BY <1>e, <1>f, <2>2 DEF EscrowAccount
  <2> HIDE DEF x
  <2> QED BY <1>l, <1>p, <2>1, <2>2, <2>3, SaveStep
<1>6. CASE HandleTimeLockSettlementSave(s)
  <2> DEFINE x == [req[s].escrow EXCEPT !.released = Amount, !.status = "SETTLED", !.settledAt = TRUE]
  <2>1. /\ At(s, "timelock", "save") /\ Save(s, x, "ESCROW_SETTLED") /\ UNCHANGED <<terms, approvals, passed>>
        /\ paid' = paid + (Amount - req[s].escrow.released)
    BY <1>6 DEF HandleTimeLockSettlementSave
  <2>2. req[s].escrow = row /\ row.status # "ABSENT" /\ req[s].op = "timelock" /\ Matured BY <1>h, <2>1
  <2>3. x \in EscrowAccount /\ x.status = "SETTLED" /\ x.released = Amount BY <1>e, <1>f DEF EscrowAccount
  <2> HIDE DEF x
  <2>4. paid' = Amount BY <1>f, <1>p, <2>1, <2>2
  <2>5. Matured' BY <2>1, <2>2 DEF Matured
  <2> QED BY <1>l, <1>p, <2>1, <2>2, <2>3, <2>4, <2>5, SaveStep
<1>7. CASE FlagDisputeSave(s)
  <2> DEFINE x == [req[s].escrow EXCEPT !.status = "DISPUTED"]
  <2>1. At(s, "dispute", "save") /\ Save(s, x, "DISPUTE_FLAGGED") /\ UNCHANGED <<terms, approvals, paid, passed>>
    BY <1>7 DEF FlagDisputeSave
  <2>2. req[s].escrow = row /\ row.status # "ABSENT" /\ req[s].op = "dispute" BY <1>h, <2>1
  <2>3. x \in EscrowAccount /\ x.status = "DISPUTED" /\ x.released = row.released BY <1>e, <1>f, <2>2 DEF EscrowAccount
  <2> HIDE DEF x
  <2> QED BY <1>l, <1>p, <2>1, <2>2, <2>3, SaveStep
<1>8. CASE ResolveDisputeSave(s)
  <2> DEFINE st == IF req[s].flag THEN "REFUNDED" ELSE "SETTLED"
             x == [req[s].escrow EXCEPT !.status = st, !.refundedAt = req[s].flag, !.settledAt = ~req[s].flag]
  <2>1. At(s, "resolve", "save") /\ Save(s, x, "DISPUTE_RESOLVED") /\ UNCHANGED <<terms, approvals, paid, passed>>
    BY <1>8 DEF ResolveDisputeSave
  <2>2. req[s].escrow = row /\ row.status # "ABSENT" /\ req[s].op = "resolve" BY <1>h, <2>1
  <2>3. req[s].flag \in BOOLEAN BY <1>f DEF RequestType
  <2>4. st \in {"REFUNDED", "SETTLED"} OBVIOUS
  <2>5. st \in EscrowStatus BY <1>e, <2>4
  <2>6. (~req[s].flag) \in BOOLEAN OBVIOUS
  <2> HIDE DEF st
  <2>7. x \in EscrowAccount /\ x.status = st /\ x.released = row.released BY <1>f, <2>2, <2>3, <2>5, <2>6 DEF EscrowAccount
  <2> HIDE DEF x
  <2> QED BY <1>l, <1>p, <2>1, <2>2, <2>4, <2>7, SaveStep
<1> QED BY <1>1, <1>2, <1>3, <1>4, <1>5, <1>6, <1>7, <1>8

-----------------------------------------------------------------------------
(* Handlers that sign, release and log; the theorems. *)

\* approveEscrow and revokeApproval: the status follows the signatures.
LEMMA Signs ==
    ASSUME OneAtATime, EscrowInv, SequentialInv, NEW s \in Slots,
           \/ ApproveEscrowSignatories(s) \/ ApproveEscrowCommit(s) \/ RevokeApprovalSignatories(s) \/ RevokeApprovalSave(s)
    PROVE  SequentialInv'
<1>k. Knows(req[s]) /\ SoundRow BY DEF SequentialInv
<1>f. req[s] \in RequestType /\ row \in EscrowAccount BY RequestFields
<1>1. CASE ApproveEscrowSignatories(s)
  <2>1. At(s, "approve", "signatories") /\ UNCHANGED <<terms, row, approvals, paid, passed>>
    BY <1>1 DEF ApproveEscrowSignatories
  <2>2. CASE req[s].user \in Signatories \ approvals
    <3> DEFINE q == [req[s] EXCEPT !.signatories = approvals, !.pc = "commit"]
    <3>1. req' = [req EXCEPT ![s] = q] BY <1>1, <2>2 DEF ApproveEscrowSignatories, ReadSignatories
    <3>2. /\ q.op = "approve" /\ q.pc = "commit" /\ q.signatories = approvals /\ q.user = req[s].user /\ q.admin = req[s].admin /\ q.escrow = req[s].escrow
      BY <1>f, <2>1 DEF RequestType, At
    <3> HIDE DEF q
    <3>3. Knows(q) BY <1>k, <2>1, <2>2, <3>2 DEF Knows, Reading, At, None
    <3> QED BY <2>1, <3>1, <3>3, SlotStep
  <2>3. CASE req[s].user \notin Signatories \ approvals
    <3>1. Return(s) BY <1>1, <2>3 DEF ApproveEscrowSignatories
    <3>2. SoundRow' BY <1>k, <2>1 DEF SoundRow, IsThresholdMet
    <3> QED BY <3>1, <3>2, ReturnStep
  <2> QED BY <2>2, <2>3
<1>2. CASE ApproveEscrowCommit(s)
  <2>1. At(s, "approve", "commit") /\ approvals' = approvals \cup {req[s].user} /\ Return(s) /\ UNCHANGED <<terms, paid, passed>>
    BY <1>2 DEF ApproveEscrowCommit
  <2>2. req[s].escrow = row /\ row.status \in {"FUNDED", "APPROVED"} /\ req[s].signatories = approvals
    BY <1>k, <2>1 DEF Knows, At, Reading, ReadIn, None
  <2>3. approvals' = Signed(s) BY <2>1, <2>2 DEF Signed
  <2>4. CASE ReachesThreshold(s)
    <3>1. row' = [row EXCEPT !.status = "APPROVED"] BY <1>2, <2>2, <2>4 DEF ApproveEscrowCommit
    <3>2. row'.status = "APPROVED" /\ row'.released = row.released BY <1>f, <3>1 DEF EscrowAccount
    <3>3. SoundRow' BY <1>k, <2>1, <2>2, <3>2 DEF SoundRow
    <3> QED BY <2>1, <3>3, ReturnStep
  <2>5. CASE ~ReachesThreshold(s)
    <3>1. row' = row BY <1>2, <2>5 DEF ApproveEscrowCommit
    <3>2. row.status = "FUNDED" => ~IsThresholdMet(Signed(s)) BY <2>2, <2>5 DEF ReachesThreshold
    <3>3. row'.status = "FUNDED" => ~IsThresholdMet(approvals)' BY <2>1, <2>3, <3>1, <3>2 DEF IsThresholdMet
    <3>4. SoundRow' BY <1>k, <2>1, <2>2, <3>1, <3>3 DEF SoundRow
    <3> QED BY <2>1, <3>4, ReturnStep
  <2> QED BY <2>4, <2>5
<1>3. CASE RevokeApprovalSignatories(s)
  <2>1. At(s, "revoke", "signatories") /\ UNCHANGED <<terms, row, approvals, paid, passed>>
    BY <1>3 DEF RevokeApprovalSignatories
  <2>2. CASE req[s].user \in Signatories \cap approvals
    <3>1. Goto(s, "save") BY <1>3, <2>2 DEF RevokeApprovalSignatories
    <3> QED BY <2>1, <2>2, <3>1, GotoStep DEF At, Reading
  <2>3. CASE req[s].user \notin Signatories \cap approvals
    <3>1. Return(s) BY <1>3, <2>3 DEF RevokeApprovalSignatories
    <3>2. SoundRow' BY <1>k, <2>1 DEF SoundRow, IsThresholdMet
    <3> QED BY <3>1, <3>2, ReturnStep
  <2> QED BY <2>2, <2>3
<1>4. CASE RevokeApprovalSave(s)
  <2>1. /\ At(s, "revoke", "save") /\ approvals' = approvals \ {req[s].user} /\ ThenLog(s, "SIGNATORY_REVOKED")
        /\ UNCHANGED <<terms, row, paid, passed>>
    BY <1>4 DEF RevokeApprovalSave
  <2>2. row.status = "FUNDED" /\ req[s].op = "revoke" BY <1>k, <2>1 DEF Knows, At, Reading, ReadIn, None
  <2>3. ~(Cardinality(approvals \ {req[s].user}) >= terms.requiredSignatures)
    BY <1>k, <2>2, QuorumFacts DEF SoundRow, IsThresholdMet
  <2>4. ~IsThresholdMet(approvals)' BY <2>1, <2>3 DEF IsThresholdMet
  <2>5. SoundRow' BY <1>k, <2>1, <2>2, <2>4 DEF SoundRow
  <2>6. "SIGNATORY_REVOKED" \in EscrowTimelineEventType BY DEF EscrowTimelineEventType
  <2> QED BY <2>1, <2>2, <2>5, <2>6, LogStep
<1> QED BY <1>1, <1>2, <1>3, <1>4

\* releaseFunds: what the guarded UPDATE adds is what was paid.
LEMMA Releases ==
    ASSUME OneAtATime, EscrowInv, SequentialInv, NEW s \in Slots,
           ReleaseFundsSignatories(s) \/ ReleaseFundsMilestone(s) \/ ReleaseFundsCommit(s)
    PROVE  SequentialInv'
<1>k. Knows(req[s]) /\ SoundRow BY DEF SequentialInv
<1>f. /\ req[s] \in RequestType /\ row \in EscrowAccount /\ row.released \in Nat /\ req[s].amount \in Nat /\ Amount \in Nat \ {0}
      /\ req[s].op = "release" => req[s].escrow.released + req[s].amount <= Amount
  BY RequestFields
<1>1. CASE ReleaseFundsSignatories(s)
  <2>1. At(s, "release", "signatories") /\ UNCHANGED <<terms, row, approvals, paid, passed>>
    BY <1>1 DEF ReleaseFundsSignatories
  <2>2. CASE req[s].admin \/ IsThresholdMet(approvals)
    <3>1. PICK pc \in {"commit", "milestone"} : Goto(s, pc) BY <1>1, <2>2 DEF ReleaseFundsSignatories
    <3> QED BY <2>1, <2>2, <3>1, GotoStep DEF At, Reading
  <2>3. CASE ~(req[s].admin \/ IsThresholdMet(approvals))
    <3>1. Return(s) BY <1>1, <2>3 DEF ReleaseFundsSignatories
    <3>2. SoundRow' BY <1>k, <2>1 DEF SoundRow, IsThresholdMet
    <3> QED BY <3>1, <3>2, ReturnStep
  <2> QED BY <2>2, <2>3
<1>2. CASE ReleaseFundsMilestone(s)
  <2>1. At(s, "release", "milestone") /\ UNCHANGED <<terms, row, approvals, paid, passed>>
    BY <1>2 DEF ReleaseFundsMilestone
  <2>2. req[s].admin \/ IsThresholdMet(approvals) BY <1>k, <2>1 DEF Knows, At
  <2>3. Goto(s, "commit") \/ Return(s) BY <1>2 DEF ReleaseFundsMilestone
  <2>4. CASE Goto(s, "commit") BY <2>1, <2>2, <2>4, GotoStep DEF At, Reading
  <2>5. CASE Return(s)
    <3>2. SoundRow' BY <1>k, <2>1 DEF SoundRow, IsThresholdMet
    <3> QED BY <2>5, <3>2, ReturnStep
  <2> QED BY <2>3, <2>4, <2>5
<1>3. CASE ReleaseFundsCommit(s)
  <2>1. At(s, "release", "commit") /\ Return(s) /\ UNCHANGED <<terms, approvals, passed>> BY <1>3 DEF ReleaseFundsCommit
  <2>2. req[s].escrow = row /\ row.status # "ABSENT" BY <1>k, <2>1 DEF Knows, At, Reading, None
  <2>3. paid' = paid + req[s].amount BY <1>3, <2>2 DEF ReleaseFundsCommit, ReleaseGuard
  <2>4. ReleasedTo(s) = row.released + req[s].amount /\ ReleasedTo(s) <= Amount /\ ReleasedTo(s) \in Nat
    BY <1>f, <2>1, <2>2 DEF ReleasedTo, At
  <2>5. CASE ReleasedTo(s) = Amount
    <3>1. row' = [row EXCEPT !.released = Amount, !.status = "SETTLED", !.settledAt = TRUE]
      BY <1>3, <2>2, <2>5 DEF ReleaseFundsCommit, ReleaseGuard
    <3>2. row'.status = "SETTLED" /\ row'.released = Amount BY <1>f, <3>1 DEF EscrowAccount
    <3>3. paid' = Amount BY <1>k, <2>3, <2>4, <2>5 DEF SoundRow
    <3>4. SoundRow' BY <1>k, <2>1, <2>2, <3>2, <3>3 DEF SoundRow
    <3> QED BY <2>1, <3>4, ReturnStep
  <2>6. CASE ReleasedTo(s) # Amount
    <3>1. row' = [row EXCEPT !.released = ReleasedTo(s), !.status = "PARTIALLY_RELEASED",
                             !.settledAt = row.settledAt \/ req[s].escrow.settledAt]
      BY <1>3, <2>2, <2>6 DEF ReleaseFundsCommit, ReleaseGuard
    <3>2. row'.status = "PARTIALLY_RELEASED" /\ row'.released = ReleasedTo(s) BY <1>f, <3>1 DEF EscrowAccount
    <3>3. paid' = ReleasedTo(s) BY <1>k, <2>3, <2>4 DEF SoundRow
    <3>4. ReleasedTo(s) < Amount BY <1>f, <2>4, <2>6
    <3>5. SoundRow' BY <1>k, <2>1, <2>2, <3>2, <3>3, <3>4 DEF SoundRow
    <3> QED BY <2>1, <3>5, ReturnStep
  <2> QED BY <2>5, <2>6
<1> QED BY <1>1, <1>2, <1>3

\* Milestones, the dispute's check and the timeline leave the row alone.
LEMMA Tracks ==
    ASSUME OneAtATime, EscrowInv, SequentialInv, NEW s \in Slots,
           \/ UpdateMilestoneSignatories(s) \/ UpdateMilestoneRead(s) \/ UpdateMilestoneSave(s)
           \/ FlagDisputeSignatories(s) \/ AddEvent(s)
    PROVE  SequentialInv'
<1>k. Knows(req[s]) /\ SoundRow BY DEF SequentialInv
<1>u. UNCHANGED <<terms, row, approvals, paid, passed>>
  BY DEF UpdateMilestoneSignatories, UpdateMilestoneRead, UpdateMilestoneSave, FlagDisputeSignatories, AddEvent
<1>r. CASE Return(s)
  <2>1. SoundRow' BY <1>k, <1>u DEF SoundRow, IsThresholdMet
  <2> QED BY <1>r, <2>1, ReturnStep
<1>1. CASE UpdateMilestoneSignatories(s)
  <2>1. At(s, "milestone", "signatories") /\ (Goto(s, "milestone") \/ Return(s)) BY <1>1 DEF UpdateMilestoneSignatories
  <2>2. CASE Goto(s, "milestone") BY <1>u, <2>1, <2>2, GotoStep DEF At, Reading
  <2> QED BY <1>r, <2>1, <2>2
<1>2. CASE UpdateMilestoneRead(s)
  <2>1. At(s, "milestone", "milestone") /\ (Goto(s, "save") \/ ThenLog(s, "MILESTONE_COMPLETED") \/ Return(s))
    BY <1>2 DEF UpdateMilestoneRead
  <2>2. CASE Goto(s, "save") BY <1>u, <2>1, <2>2, GotoStep DEF At, Reading
  <2>3. CASE ThenLog(s, "MILESTONE_COMPLETED")
    <3>1. SoundRow' BY <1>k, <1>u DEF SoundRow, IsThresholdMet
    <3>2. row.status # "ABSENT" /\ req[s].op = "milestone" BY <1>k, <2>1 DEF Knows, At, None
    <3>3. "MILESTONE_COMPLETED" \in EscrowTimelineEventType BY DEF EscrowTimelineEventType
    <3> QED BY <1>u, <2>3, <3>1, <3>2, <3>3, LogStep
  <2> QED BY <1>r, <2>1, <2>2, <2>3
<1>3. CASE UpdateMilestoneSave(s) BY <1>3, <1>r DEF UpdateMilestoneSave
<1>4. CASE FlagDisputeSignatories(s)
  <2>1. At(s, "dispute", "signatories") /\ (Goto(s, "save") \/ Return(s)) BY <1>4 DEF FlagDisputeSignatories
  <2>2. CASE Goto(s, "save") BY <1>u, <2>1, <2>2, GotoStep DEF At, Reading
  <2> QED BY <1>r, <2>1, <2>2
<1>5. CASE AddEvent(s)
  <2>1. /\ req[s].pc = "log"
        /\ \/ req[s].event = "TIMEOUT_TRIGGERED" /\ Goto(s, "refund")
           \/ req[s].event = "MILESTONE_COMPLETED" /\ Goto(s, "save")
           \/ Return(s)
    BY <1>5 DEF AddEvent
  <2>2. CASE req[s].event = "TIMEOUT_TRIGGERED" /\ Goto(s, "refund")
    <3>1. req[s].op = "timeout" /\ row.status = "EXPIRED" BY <1>k, <2>1, <2>2 DEF Knows
    <3> QED BY <1>u, <2>2, <3>1, GotoStep
  <2>3. CASE req[s].event = "MILESTONE_COMPLETED" /\ Goto(s, "save")
    <3>1. req[s].op = "milestone" BY <1>k, <2>1, <2>3 DEF Knows
    <3> QED BY <1>u, <2>3, <3>1, GotoStep
  <2> QED BY <1>r, <2>1, <2>2, <2>3
<1> QED BY <1>1, <1>2, <1>3, <1>4, <1>5

\* Every step keeps the invariant.
LEMMA SequentialInvStep ==
    ASSUME OneAtATime, EscrowInv, SequentialInv, [Next]_vars
    PROVE  SequentialInv'
<1>k. SoundRow BY DEF SequentialInv
<1>1. ASSUME NEW s \in Slots, Request(s) PROVE SequentialInv' BY <1>1, Arrives
<1>2. ASSUME NEW s \in Slots, Continue(s) PROVE SequentialInv'
  BY <1>2, Closes, Signs, Releases, Tracks DEF Continue
<1>3. ASSUME NEW s \in Slots, ApproveEscrowRollback(s) \/ ReleaseFundsRollback(s) \/ Abandon(s) PROVE SequentialInv'
  <2>1. Return(s) /\ UNCHANGED <<terms, row, approvals, paid, passed>>
    BY <1>3 DEF ApproveEscrowRollback, ReleaseFundsRollback, Abandon
  <2>2. SoundRow' BY <1>k, <2>1 DEF SoundRow, IsThresholdMet
  <2> QED BY <2>1, <2>2, ReturnStep
<1>4. ASSUME NEW date \in {"deadline", "timeLock"}, DatePasses(date) PROVE SequentialInv'
  <2>1. row.status # "ABSENT" /\ passed' = passed \cup {date} /\ UNCHANGED <<terms, row, approvals, paid, req>>
    BY <1>4 DEF DatePasses
  <2>2. SoundRow' BY <1>k, <2>1 DEF SoundRow, IsThresholdMet
  <2>3. ASSUME NEW s \in Slots PROVE Knows(req[s])'
    <3>1. Knows(req[s]) BY DEF SequentialInv
    <3> QED BY <2>1, <3>1 DEF Knows, IsThresholdMet, Matured, Reading
  <2> QED BY <2>2, <2>3 DEF SequentialInv
<1>5. CASE UNCHANGED vars
  <2>2. SoundRow' BY <1>5, <1>k DEF SoundRow, IsThresholdMet, vars
  <2>3. ASSUME NEW s \in Slots PROVE Knows(req[s])'
    <3>1. Knows(req[s]) BY DEF SequentialInv
    <3> QED BY <1>5, <3>1 DEF Knows, IsThresholdMet, Matured, Reading, vars
  <2> QED BY <2>2, <2>3 DEF SequentialInv
<1> QED BY <1>1, <1>2, <1>3, <1>4, <1>5 DEF Next

\* It holds before the escrow exists.
LEMMA SequentialInvInit == Init => SequentialInv
<1> SUFFICES ASSUME Init PROVE SequentialInv OBVIOUS
<1>1. row.status = "ABSENT" /\ row.released = 0 /\ paid = 0 /\ approvals = {} /\ passed = {} BY DEF Init, Absent
<1>2. SoundRow BY <1>1 DEF SoundRow
<1>3. \A s \in Slots : req[s] = Idle BY DEF Init
<1> QED BY <1>2, <1>3, IdleKnows DEF SequentialInv

\* One request at a time, every handler still sees when it writes what it saw
\* when it read, also after requests that died half way.
THEOREM SequentialInvariant == ASSUME OneAtATime PROVE Spec => []SequentialInv
<1>1. Init => SequentialInv BY SequentialInvInit
<1>2. EscrowInv /\ SequentialInv /\ [Next]_vars => SequentialInv' BY SequentialInvStep
<1> QED BY <1>1, <1>2, EscrowInvariant, PTL DEF Spec

\* One request at a time, releasedAmount is what releaseFunds and
\* handleTimeLockSettlement have paid out, for any amounts, parties and
\* failures.
THEOREM PaidIsReleased == ASSUME OneAtATime PROVE Spec => []PaidMatchesReleased
<1>1. SequentialInv => PaidMatchesReleased BY DEF SequentialInv, SoundRow, PaidMatchesReleased
<1> QED BY <1>1, SequentialInvariant, PTL

\* One request at a time, the total released never exceeds the amount (the
\* comment in releaseFunds). Two concurrent requests can exceed it: the run
\* escrow_overpaid.
THEOREM NeverOverpaid == ASSUME OneAtATime PROVE Spec => []TotalPaidWithinAmount
<1>1. EscrowInv /\ SequentialInv => TotalPaidWithinAmount
  BY DEF EscrowInv, GoodRow, SequentialInv, SoundRow, TotalPaidWithinAmount
<1> QED BY <1>1, EscrowInvariant, SequentialInvariant, PTL

\* One request at a time, no escrow rests in FUNDED with the signatures of
\* its quorum (approveEscrow).
THEOREM QuorumNoticed == ASSUME OneAtATime PROVE Spec => []QuorumIsNoticed
<1>1. SequentialInv => QuorumIsNoticed BY DEF SequentialInv, SoundRow, QuorumIsNoticed
<1> QED BY <1>1, SequentialInvariant, PTL

-----------------------------------------------------------------------------
(* The refinement of EscrowContract: its state and its actions. *)

\* The state of EscrowContract as MCEscrow's instance reads it off the row.
Phase ==
    CASE row.status = "ABSENT" -> "none"
      [] row.status \in {"PENDING", "AWAITING_FUNDING"} -> "open"
      [] row.status \in Funded -> "held"
      [] row.status = "DISPUTED" -> "frozen"
      [] OTHER -> "closed"

\* The contract's number of signatures.
Required == IF row.status = "ABSENT" THEN 0 ELSE terms.requiredSignatures

\* The contract's matured time-lock.
Ripe == row.status # "ABSENT" /\ Matured

\* The phase of each status.
LEMMA PhaseIs ==
    /\ row.status = "ABSENT" => Phase = "none"
    /\ row.status \in {"PENDING", "AWAITING_FUNDING"} => Phase = "open"
    /\ row.status \in Funded => Phase = "held"
    /\ row.status = "DISPUTED" => Phase = "frozen"
    /\ row.status \in {"SETTLED", "REFUNDED", "EXPIRED", "CANCELLED"} => Phase = "closed"
  BY DEF Phase, Funded

\* The phase after a step.
LEMMA PhaseNext ==
    /\ row'.status = "ABSENT" => Phase' = "none"
    /\ row'.status \in {"PENDING", "AWAITING_FUNDING"} => Phase' = "open"
    /\ row'.status \in Funded => Phase' = "held"
    /\ row'.status = "DISPUTED" => Phase' = "frozen"
    /\ row'.status \in {"SETTLED", "REFUNDED", "EXPIRED", "CANCELLED"} => Phase' = "closed"
  BY DEF Phase, Funded

\* EscrowContract brings its own copy of FiniteSets.
LEMMA SameCardinality == \A S : Contract!Cardinality(S) = Cardinality(S)
  BY DEF Contract!Cardinality, Cardinality

\* The contract's actions in terms of the service's variables.
LEMMA ContractIs ==
    /\ \A m : Contract!Open(m) <=> Phase = "none" /\ Phase' = "open" /\ Required' = m /\ UNCHANGED <<approvals, paid, Ripe>>
    /\ Contract!Deposit <=> Phase = "open" /\ Phase' = "held" /\ UNCHANGED <<Required, approvals, paid, Ripe>>
    /\ \A u : Contract!Sign(u) <=> /\ Phase = "held" /\ paid = 0 /\ u \notin approvals /\ approvals' = approvals \cup {u}
                                   /\ UNCHANGED <<Phase, Required, paid, Ripe>>
    /\ \A u : Contract!Unsign(u) <=> /\ Phase = "held" /\ paid = 0 /\ u \in approvals /\ ~(Cardinality(approvals) >= Required)
                                     /\ approvals' = approvals \ {u} /\ UNCHANGED <<Phase, Required, paid, Ripe>>
    /\ \A a : Contract!Pay(a) <=> /\ Phase = "held" /\ (Cardinality(approvals) >= Required \/ Ripe) /\ paid + a <= Amount
                                  /\ paid' = paid + a /\ Phase' = (IF paid' = Amount THEN "closed" ELSE "held")
                                  /\ UNCHANGED <<Required, approvals, Ripe>>
    /\ Contract!Freeze <=> Phase = "held" /\ Phase' = "frozen" /\ UNCHANGED <<Required, approvals, paid, Ripe>>
    /\ Contract!Close <=> /\ \/ Phase = "open"
                             \/ Phase = "held" /\ paid = 0 /\ ~(Cardinality(approvals) >= Required)
                             \/ Phase = "frozen"
                          /\ Phase' = "closed" /\ UNCHANGED <<Required, approvals, paid, Ripe>>
    /\ Contract!Mature <=> Phase # "none" /\ ~Ripe /\ Ripe' = TRUE /\ UNCHANGED <<Phase, Required, approvals, paid>>
    /\ UNCHANGED Contract!contractVars <=> UNCHANGED <<Phase, Required, approvals, paid, Ripe>>
<1>1. \A m : Contract!Open(m) <=> Phase = "none" /\ Phase' = "open" /\ Required' = m /\ UNCHANGED <<approvals, paid, Ripe>>
  BY DEF Contract!Open, Phase, Required, Ripe
<1>2. Contract!Deposit <=> Phase = "open" /\ Phase' = "held" /\ UNCHANGED <<Required, approvals, paid, Ripe>>
  BY DEF Contract!Deposit, Phase, Required, Ripe
<1>3. \A u : Contract!Sign(u) <=> /\ Phase = "held" /\ paid = 0 /\ u \notin approvals /\ approvals' = approvals \cup {u}
                                  /\ UNCHANGED <<Phase, Required, paid, Ripe>>
  BY DEF Contract!Sign, Phase, Required, Ripe
<1>4. \A u : Contract!Unsign(u) <=> /\ Phase = "held" /\ paid = 0 /\ u \in approvals /\ ~(Cardinality(approvals) >= Required)
                                    /\ approvals' = approvals \ {u} /\ UNCHANGED <<Phase, Required, paid, Ripe>>
  BY SameCardinality DEF Contract!Unsign, Contract!Quorum, Phase, Required, Ripe
<1>5. \A a : Contract!Pay(a) <=> /\ Phase = "held" /\ (Cardinality(approvals) >= Required \/ Ripe) /\ paid + a <= Amount
                                 /\ paid' = paid + a /\ Phase' = (IF paid' = Amount THEN "closed" ELSE "held")
                                 /\ UNCHANGED <<Required, approvals, Ripe>>
  BY SameCardinality DEF Contract!Pay, Contract!Quorum, Phase, Required, Ripe
<1>6. Contract!Freeze <=> Phase = "held" /\ Phase' = "frozen" /\ UNCHANGED <<Required, approvals, paid, Ripe>>
  BY DEF Contract!Freeze, Phase, Required, Ripe
<1>7. Contract!Close <=> /\ \/ Phase = "open"
                            \/ Phase = "held" /\ paid = 0 /\ ~(Cardinality(approvals) >= Required)
                            \/ Phase = "frozen"
                         /\ Phase' = "closed" /\ UNCHANGED <<Required, approvals, paid, Ripe>>
  BY SameCardinality DEF Contract!Close, Contract!Quorum, Phase, Required, Ripe
<1>8. Contract!Mature <=> Phase # "none" /\ ~Ripe /\ Ripe' = TRUE /\ UNCHANGED <<Phase, Required, approvals, paid>>
  BY DEF Contract!Mature, Phase, Required, Ripe
<1>9. UNCHANGED Contract!contractVars <=> UNCHANGED <<Phase, Required, approvals, paid, Ripe>>
  BY DEF Contract!contractVars, Phase, Required, Ripe
<1> QED BY <1>1, <1>2, <1>3, <1>4, <1>5, <1>6, <1>7, <1>8, <1>9

-----------------------------------------------------------------------------
(* Steps of the service as steps of the contract. *)

\* A step that leaves the tables the contract sees is a stutter.
LEMMA Silent ==
    ASSUME UNCHANGED <<terms, row, approvals, paid, passed>>
    PROVE  [Contract!ContractNext]_(Contract!contractVars)
<1>1. UNCHANGED <<Phase, Required, approvals, paid, Ripe>> BY DEF Phase, Required, Ripe, Matured
<1> QED BY <1>1, ContractIs

\* A whole-row save that pays nothing deposits, freezes, closes or stutters.
LEMMA SaveMaps ==
    ASSUME NEW st \in EscrowStatus, row.status # "ABSENT", row'.status = st, UNCHANGED <<terms, approvals, paid, passed>>,
           \/ row.status \in {"PENDING", "AWAITING_FUNDING"} /\ st \in {"FUNDED", "CANCELLED", "REFUNDED", "EXPIRED"}
           \/ /\ row.status = "FUNDED" /\ st \in {"REFUNDED", "EXPIRED"}
              /\ paid = 0 /\ ~IsThresholdMet(approvals)
           \/ row.status = "EXPIRED" /\ st = "REFUNDED"
           \/ row.status \in Funded /\ st = "DISPUTED"
           \/ row.status = "DISPUTED" /\ st \in {"REFUNDED", "SETTLED"}
    PROVE  [Contract!ContractNext]_(Contract!contractVars)
<1>1. UNCHANGED <<Required, approvals, paid, Ripe>>
  <2>1. row'.status # "ABSENT" BY DEF EscrowStatus
  <2> QED BY <2>1 DEF Required, Ripe, Matured
<1>2. CASE row.status \in {"PENDING", "AWAITING_FUNDING"} /\ st = "FUNDED"
  <2>1. Phase = "open" /\ Phase' = "held" BY <1>2, PhaseIs, PhaseNext DEF Funded
  <2> QED BY <1>1, <2>1, ContractIs DEF Contract!ContractNext
<1>3. CASE row.status \in {"PENDING", "AWAITING_FUNDING"} /\ st \in {"CANCELLED", "REFUNDED", "EXPIRED"}
  <2>1. Phase = "open" /\ Phase' = "closed" BY <1>3, PhaseIs, PhaseNext
  <2> QED BY <1>1, <2>1, ContractIs DEF Contract!ContractNext
<1>4. CASE row.status = "FUNDED" /\ st \in {"REFUNDED", "EXPIRED"} /\ paid = 0 /\ ~IsThresholdMet(approvals)
  <2>1. Phase = "held" /\ Phase' = "closed" BY <1>4, PhaseIs, PhaseNext DEF Funded
  <2>2. ~(Cardinality(approvals) >= Required) BY <1>4 DEF IsThresholdMet, Required
  <2> QED BY <1>1, <1>4, <2>1, <2>2, ContractIs DEF Contract!ContractNext
<1>5. CASE row.status = "EXPIRED" /\ st = "REFUNDED"
  <2>1. Phase = "closed" /\ Phase' = "closed" BY <1>5, PhaseIs, PhaseNext
  <2> QED BY <1>1, <2>1, ContractIs
<1>6. CASE row.status \in Funded /\ st = "DISPUTED"
  <2>1. Phase = "held" /\ Phase' = "frozen" BY <1>6, PhaseIs, PhaseNext
  <2> QED BY <1>1, <2>1, ContractIs DEF Contract!ContractNext
<1>7. CASE row.status = "DISPUTED" /\ st \in {"REFUNDED", "SETTLED"}
  <2>1. Phase = "frozen" /\ Phase' = "closed" BY <1>7, PhaseIs, PhaseNext
  <2> QED BY <1>1, <2>1, ContractIs DEF Contract!ContractNext
<1> QED BY <1>2, <1>3, <1>4, <1>5, <1>6, <1>7

\* A payment out of a held escrow, on a quorum or a matured time-lock.
LEMMA PayMaps ==
    ASSUME row.status \in Funded, NEW a \in 1..Amount, paid \in Nat, paid + a <= Amount, paid' = paid + a,
           IsThresholdMet(approvals) \/ Matured,
           row'.status = (IF paid' = Amount THEN "SETTLED" ELSE "PARTIALLY_RELEASED"),
           UNCHANGED <<terms, approvals, passed>>
    PROVE  [Contract!ContractNext]_(Contract!contractVars)
<1>1. row.status # "ABSENT" /\ row'.status # "ABSENT" BY DEF Funded
<1>2. UNCHANGED <<Required, approvals, Ripe>> BY <1>1 DEF Required, Ripe, Matured
<1>3. Phase = "held" BY PhaseIs
<1>4. Cardinality(approvals) >= Required \/ Ripe BY <1>1 DEF IsThresholdMet, Required, Ripe
<1>5. Phase' = (IF paid' = Amount THEN "closed" ELSE "held")
  <2>1. CASE paid' = Amount BY <2>1, PhaseNext
  <2>2. CASE paid' # Amount BY <2>2, PhaseNext DEF Funded
  <2> QED BY <2>1, <2>2
<1>6. Contract!Pay(a) BY <1>2, <1>3, <1>4, <1>5, ContractIs
<1> QED BY <1>6 DEF Contract!ContractNext

\* createEscrow opens the contract with a quorum that the signatories can
\* reach.
LEMMA CreateMaps ==
    ASSUME EscrowInv, SequentialInv, NEW s \in Slots, NEW dto \in Dtos, CreateEscrow(s, dto)
    PROVE  [Contract!ContractNext]_(Contract!contractVars)
<1>1. /\ row.status = "ABSENT" /\ terms' = dto /\ row' = [row EXCEPT !.status = "PENDING"] /\ ValidCreate(dto)
      /\ UNCHANGED <<approvals, paid, passed>>
  BY DEF CreateEscrow
<1>2. row \in EscrowAccount BY RequestFields
<1>3. row'.status = "PENDING" BY <1>1, <1>2 DEF EscrowAccount
<1>4. passed = {} BY <1>1 DEF SequentialInv, SoundRow
<1>5. Ripe = FALSE /\ Ripe' = FALSE BY <1>1, <1>4 DEF Ripe, Matured
<1>6. Required' = dto.requiredSignatures BY <1>1, <1>3 DEF Required
<1>7. Phase = "none" /\ Phase' = "open" BY <1>1, <1>3, PhaseIs, PhaseNext
<1>8. Contract!Open(dto.requiredSignatures) BY <1>1, <1>5, <1>6, <1>7, ContractIs
<1>9. dto.requiredSignatures \in 1..Contract!Cardinality(Signatories)
  <2>1. dto.requiredSignatures \in Nat \ {0, 1} BY ConstantsAssumption DEF CreateEscrowDto
  <2>2. dto.requiredSignatures <= Cardinality(Signatories) BY <1>1 DEF ValidCreate
  <2>3. Cardinality(Signatories) \in Nat BY ConstantsAssumption, FS_CardinalityType
  <2> QED BY <2>1, <2>2, <2>3, SameCardinality
<1> QED BY <1>8, <1>9 DEF Contract!ContractNext

-----------------------------------------------------------------------------
(* Every handler, and the theorem. *)

\* No other arriving request touches the contract.
LEMMA ArrivesMaps ==
    ASSUME EscrowInv, SequentialInv, NEW s \in Slots, Request(s)
    PROVE  [Contract!ContractNext]_(Contract!contractVars)
<1>1. CASE \E dto \in Dtos : CreateEscrow(s, dto) BY <1>1, CreateMaps
<1>2. CASE ~ \E dto \in Dtos : CreateEscrow(s, dto)
  <2>1. UNCHANGED <<terms, row, approvals, paid, passed>>
    BY <1>2 DEF Request, HandleTimeout, HandleTimeLockSettlement, FundEscrow, ApproveEscrow, RevokeApproval, ReleaseFunds,
                RefundEscrow, CancelEscrow, UpdateMilestone, FlagDispute, ResolveDispute
  <2> QED BY <2>1, Silent
<1> QED BY <1>1, <1>2

\* The whole-row saves that pay nothing.
LEMMA ClosesMaps ==
    ASSUME EscrowInv, SequentialInv, NEW s \in Slots,
           \/ FundEscrowSave(s) \/ RefundEscrowSave(s) \/ CancelEscrowSave(s) \/ HandleTimeoutSave(s)
           \/ HandleTimeoutRefund(s) \/ FlagDisputeSave(s) \/ ResolveDisputeSave(s)
    PROVE  [Contract!ContractNext]_(Contract!contractVars)
<1>k. Knows(req[s]) /\ SoundRow BY DEF SequentialInv
<1>f. req[s] \in RequestType /\ req[s].escrow \in EscrowAccount /\ row.status \in EscrowStatus \cup {"ABSENT"} BY RequestFields
<1>s. \A st : [req[s].escrow EXCEPT !.status = st].status = st
  BY <1>f DEF EscrowAccount
<1>h. ASSUME NEW op \in {"fund", "refund", "cancel", "timeout", "timelock", "dispute", "resolve"}, At(s, op, "save")
      PROVE  row.status \in ReadIn(op) /\ row.status # "ABSENT"
  BY <1>k, <1>h DEF Knows, Reading, At, None
<1>p. row.status = "FUNDED" => paid = 0 /\ ~IsThresholdMet(approvals) BY <1>k DEF SoundRow
<1>1. CASE FundEscrowSave(s)
  <2>1. row'.status = "FUNDED" BY <1>1, <1>f DEF FundEscrowSave, Save, EscrowAccount
  <2>2. row.status = "PENDING" BY <1>1, <1>h DEF FundEscrowSave, ReadIn
  <2>3. UNCHANGED <<terms, approvals, paid, passed>> BY <1>1 DEF FundEscrowSave
  <2> QED BY <2>1, <2>2, <2>3, SaveMaps DEF EscrowStatus
<1>2. CASE RefundEscrowSave(s)
  <2>1. row'.status = "REFUNDED" BY <1>2, <1>f DEF RefundEscrowSave, Save, EscrowAccount
  <2>2. row.status \in {"PENDING", "AWAITING_FUNDING", "FUNDED", "EXPIRED"} BY <1>2, <1>h DEF RefundEscrowSave, ReadIn
  <2>3. UNCHANGED <<terms, approvals, paid, passed>> BY <1>2 DEF RefundEscrowSave
  <2> QED BY <1>p, <2>1, <2>2, <2>3, SaveMaps DEF EscrowStatus
<1>3. CASE CancelEscrowSave(s)
  <2>1. row'.status = "CANCELLED" BY <1>3, <1>f DEF CancelEscrowSave, Save, EscrowAccount
  <2>2. row.status = "PENDING" BY <1>3, <1>h DEF CancelEscrowSave, ReadIn
  <2>3. UNCHANGED <<terms, approvals, paid, passed>> BY <1>3 DEF CancelEscrowSave
  <2> QED BY <2>1, <2>2, <2>3, SaveMaps DEF EscrowStatus
<1>4. CASE HandleTimeoutSave(s)
  <2>1. row'.status = "EXPIRED" BY <1>4, <1>f DEF HandleTimeoutSave, Save, EscrowAccount
  <2>2. row.status \in {"PENDING", "AWAITING_FUNDING", "FUNDED"} BY <1>4, <1>h DEF HandleTimeoutSave, ReadIn
  <2>3. UNCHANGED <<terms, approvals, paid, passed>> BY <1>4 DEF HandleTimeoutSave
  <2> QED BY <1>p, <2>1, <2>2, <2>3, SaveMaps DEF EscrowStatus
<1>5. CASE HandleTimeoutRefund(s)
  <2>1. row'.status = "REFUNDED" BY <1>5, <1>f DEF HandleTimeoutRefund, Save, EscrowAccount
  <2>2. row.status = "EXPIRED" BY <1>5, <1>k DEF HandleTimeoutRefund, Knows, At
  <2>3. UNCHANGED <<terms, approvals, paid, passed>> BY <1>5 DEF HandleTimeoutRefund
  <2> QED BY <2>1, <2>2, <2>3, SaveMaps DEF EscrowStatus
<1>6. CASE FlagDisputeSave(s)
  <2>1. row'.status = "DISPUTED" BY <1>6, <1>f DEF FlagDisputeSave, Save, EscrowAccount
  <2>2. row.status \in Funded /\ row.status # "ABSENT" BY <1>6, <1>h DEF FlagDisputeSave, ReadIn
  <2>3. UNCHANGED <<terms, approvals, paid, passed>> BY <1>6 DEF FlagDisputeSave
  <2> QED BY <2>1, <2>2, <2>3, SaveMaps DEF EscrowStatus
<1>7. CASE ResolveDisputeSave(s)
  <2>1. row'.status = (IF req[s].flag THEN "REFUNDED" ELSE "SETTLED") BY <1>7, <1>f DEF ResolveDisputeSave, Save, EscrowAccount
  <2>2. row.status = "DISPUTED" BY <1>7, <1>h DEF ResolveDisputeSave, ReadIn
  <2>3. UNCHANGED <<terms, approvals, paid, passed>> BY <1>7 DEF ResolveDisputeSave
  <2>4. row'.status \in {"REFUNDED", "SETTLED"} BY <2>1
  <2> QED BY <2>2, <2>3, <2>4, SaveMaps DEF EscrowStatus
<1> QED BY <1>1, <1>2, <1>3, <1>4, <1>5, <1>6, <1>7

\* Signatures are given and taken back only while nothing was paid.
LEMMA SignsMaps ==
    ASSUME EscrowInv, SequentialInv, NEW s \in Slots, ApproveEscrowCommit(s) \/ RevokeApprovalSave(s)
    PROVE  [Contract!ContractNext]_(Contract!contractVars)
<1>k. Knows(req[s]) /\ SoundRow BY DEF SequentialInv
<1>f. req[s] \in RequestType /\ row \in EscrowAccount BY RequestFields
<1>g. (req[s].op = "approve" /\ req[s].pc = "commit" => req[s].user \in Signatories) /\ approvals \subseteq Signatories
  BY DEF EscrowInv, GoodRequests, GoodRequest, GoodRest
<1>1. CASE ApproveEscrowCommit(s)
  <2>1. At(s, "approve", "commit") /\ approvals' = approvals \cup {req[s].user} /\ UNCHANGED <<terms, paid, passed>>
    BY <1>1 DEF ApproveEscrowCommit
  <2>2. req[s].escrow = row /\ row.status \in {"FUNDED", "APPROVED"} /\ req[s].user \notin approvals
    BY <1>k, <2>1 DEF Knows, At, Reading, ReadIn, None
  <2>3. row'.status \in {"FUNDED", "APPROVED"}
    <3>1. CASE ReachesThreshold(s) BY <1>1, <1>f, <2>2, <3>1 DEF ApproveEscrowCommit, EscrowAccount
    <3>2. CASE ~ReachesThreshold(s) BY <1>1, <2>2, <3>2 DEF ApproveEscrowCommit
    <3> QED BY <3>1, <3>2
  <2>4. Phase = "held" /\ Phase' = "held" BY <2>2, <2>3, PhaseIs, PhaseNext DEF Funded
  <2>5. UNCHANGED <<Required, Ripe>> BY <2>1, <2>2, <2>3 DEF Required, Ripe, Matured
  <2>6. paid = 0 BY <1>k, <2>2 DEF SoundRow
  <2>7. Contract!Sign(req[s].user) BY <2>1, <2>2, <2>4, <2>5, <2>6, ContractIs
  <2> QED BY <1>g, <2>1, <2>7 DEF Contract!ContractNext, At
<1>2. CASE RevokeApprovalSave(s)
  <2>1. At(s, "revoke", "save") /\ approvals' = approvals \ {req[s].user} /\ UNCHANGED <<terms, row, paid, passed>>
    BY <1>2 DEF RevokeApprovalSave
  <2>2. row.status = "FUNDED" /\ req[s].user \in approvals
    BY <1>k, <2>1 DEF Knows, At, Reading, ReadIn, None
  <2>4. Phase = "held" /\ Phase' = "held" BY <2>1, <2>2, PhaseIs, PhaseNext DEF Funded
  <2>5. UNCHANGED <<Required, Ripe>> BY <2>1, <2>2 DEF Required, Ripe, Matured
  <2>6. paid = 0 /\ ~(Cardinality(approvals) >= Required) BY <1>k, <2>2 DEF SoundRow, IsThresholdMet, Required
  <2>7. Contract!Unsign(req[s].user) BY <2>1, <2>2, <2>4, <2>5, <2>6, ContractIs
  <2> QED BY <1>g, <2>2, <2>7 DEF Contract!ContractNext
<1> QED BY <1>1, <1>2

\* Without admins a release needs the quorum; the time-lock pays what
\* remains.
LEMMA PaysMaps ==
    ASSUME Admins = {}, EscrowInv, SequentialInv, NEW s \in Slots, ReleaseFundsCommit(s) \/ HandleTimeLockSettlementSave(s)
    PROVE  [Contract!ContractNext]_(Contract!contractVars)
<1>k. Knows(req[s]) /\ SoundRow BY DEF SequentialInv
<1>f. /\ req[s] \in RequestType /\ row \in EscrowAccount /\ row.released \in Nat /\ req[s].amount \in Nat /\ Amount \in Nat \ {0}
      /\ req[s].op = "release" => req[s].escrow.released + req[s].amount <= Amount
      /\ row.released <= Amount /\ paid \in Nat
  BY RequestFields
<1>p. paid = row.released BY <1>k DEF SoundRow
<1>1. CASE ReleaseFundsCommit(s)
  <2>1. At(s, "release", "commit") /\ UNCHANGED <<terms, approvals, passed>> BY <1>1 DEF ReleaseFundsCommit
  <2>2. /\ req[s].escrow = row /\ row.status \in {"APPROVED", "PARTIALLY_RELEASED"} /\ IsThresholdMet(approvals)
        /\ req[s].amount >= 1
    BY <1>k, <2>1 DEF Knows, At, Reading, None
  <2>3. paid' = paid + req[s].amount BY <1>1, <2>2 DEF ReleaseFundsCommit, ReleaseGuard
  <2>4. ReleasedTo(s) = paid' BY <1>p, <2>2, <2>3 DEF ReleasedTo
  <2>5. paid + req[s].amount <= Amount /\ req[s].amount \in 1..Amount BY <1>f, <1>p, <2>1, <2>2 DEF At
  <2>6. row'.status = (IF paid' = Amount THEN "SETTLED" ELSE "PARTIALLY_RELEASED")
    <3>1. CASE paid' = Amount BY <1>1, <1>f, <2>2, <2>4, <3>1 DEF ReleaseFundsCommit, ReleaseGuard, EscrowAccount
    <3>2. CASE paid' # Amount BY <1>1, <1>f, <2>2, <2>4, <3>2 DEF ReleaseFundsCommit, ReleaseGuard, EscrowAccount
    <3> QED BY <3>1, <3>2
  <2>7. row.status \in Funded BY <2>2 DEF Funded
  <2> QED BY <1>f, <2>1, <2>2, <2>3, <2>5, <2>6, <2>7, PayMaps
<1>2. CASE HandleTimeLockSettlementSave(s)
  <2> DEFINE a == Amount - row.released
  <2>1. /\ At(s, "timelock", "save") /\ UNCHANGED <<terms, approvals, passed>>
    BY <1>2 DEF HandleTimeLockSettlementSave
  <2>2. /\ req[s].escrow = row /\ row.status \in {"FUNDED", "PARTIALLY_RELEASED"} /\ Matured
    BY <1>k, <2>1 DEF Knows, At, Reading, ReadIn, None
  <2>3. paid' = paid + a BY <1>2, <2>2 DEF HandleTimeLockSettlementSave
  <2>4. row.released < Amount BY <1>f, <1>k, <2>2 DEF SoundRow
  <2>5. a \in 1..Amount /\ paid + a = Amount BY <1>f, <1>p, <2>4
  <2>6. row'.status = "SETTLED" BY <1>2, <1>f, <2>2 DEF HandleTimeLockSettlementSave, Save, EscrowAccount
  <2>7. row.status \in Funded BY <2>2 DEF Funded
  <2>8. paid + a <= Amount /\ row'.status = (IF paid' = Amount THEN "SETTLED" ELSE "PARTIALLY_RELEASED")
    BY <1>f, <2>3, <2>5, <2>6
  <2> HIDE DEF a
  <2> QED BY <1>f, <2>1, <2>2, <2>3, <2>5, <2>7, <2>8, PayMaps
<1> QED BY <1>1, <1>2

\* A date that passes matures the contract or is not seen by it.
LEMMA DateMaps ==
    ASSUME EscrowInv, SequentialInv, NEW date \in {"deadline", "timeLock"}, DatePasses(date)
    PROVE  [Contract!ContractNext]_(Contract!contractVars)
<1>1. row.status # "ABSENT" /\ passed' = passed \cup {date} /\ UNCHANGED <<terms, row, approvals, paid>>
  BY DEF DatePasses
<1>2. UNCHANGED <<Phase, Required, approvals, paid>> BY <1>1 DEF Phase, Required
<1>3. Ripe => Ripe' BY <1>1 DEF Ripe, Matured
<1>t. Ripe \in BOOLEAN /\ Ripe' \in BOOLEAN BY DEF Ripe, Matured
<1>4. CASE Ripe' = Ripe BY <1>2, <1>4, ContractIs
<1>5. CASE ~(Ripe' = Ripe)
  <2>1. Ripe' = TRUE /\ ~Ripe BY <1>3, <1>5, <1>t
  <2>2. Phase # "none" BY <1>1 DEF Phase
  <2> QED BY <1>2, <2>1, <2>2, ContractIs DEF Contract!ContractNext
<1> QED BY <1>4, <1>5

\* Every step of the service is a step of the contract or a stutter.
LEMMA RefinementStep ==
    ASSUME Admins = {}, EscrowInv, SequentialInv, [Next]_vars
    PROVE  [Contract!ContractNext]_(Contract!contractVars)
<1>1. ASSUME NEW s \in Slots, Request(s) PROVE [Contract!ContractNext]_(Contract!contractVars) BY <1>1, ArrivesMaps
<1>2. ASSUME NEW s \in Slots, Continue(s) PROVE [Contract!ContractNext]_(Contract!contractVars)
  <2>1. CASE \/ FundEscrowSave(s) \/ RefundEscrowSave(s) \/ CancelEscrowSave(s) \/ HandleTimeoutSave(s)
             \/ HandleTimeoutRefund(s) \/ FlagDisputeSave(s) \/ ResolveDisputeSave(s)
    BY <2>1, ClosesMaps
  <2>2. CASE ApproveEscrowCommit(s) \/ RevokeApprovalSave(s) BY <2>2, SignsMaps
  <2>3. CASE ReleaseFundsCommit(s) \/ HandleTimeLockSettlementSave(s) BY <2>3, PaysMaps
  <2>4. CASE \/ ApproveEscrowSignatories(s) \/ RevokeApprovalSignatories(s) \/ ReleaseFundsSignatories(s)
             \/ ReleaseFundsMilestone(s) \/ UpdateMilestoneSignatories(s) \/ UpdateMilestoneRead(s)
             \/ UpdateMilestoneSave(s) \/ FlagDisputeSignatories(s) \/ AddEvent(s)
    <3>1. UNCHANGED <<terms, row, approvals, paid, passed>>
      BY <2>4 DEF ApproveEscrowSignatories, RevokeApprovalSignatories, ReleaseFundsSignatories, ReleaseFundsMilestone,
                  UpdateMilestoneSignatories, UpdateMilestoneRead, UpdateMilestoneSave, FlagDisputeSignatories, AddEvent
    <3> QED BY <3>1, Silent
  <2> QED BY <1>2, <2>1, <2>2, <2>3, <2>4 DEF Continue
<1>3. ASSUME NEW s \in Slots, ApproveEscrowRollback(s) \/ ReleaseFundsRollback(s) \/ Abandon(s)
      PROVE  [Contract!ContractNext]_(Contract!contractVars)
  <2>1. UNCHANGED <<terms, row, approvals, paid, passed>> BY <1>3 DEF ApproveEscrowRollback, ReleaseFundsRollback, Abandon
  <2> QED BY <2>1, Silent
<1>4. ASSUME NEW date \in {"deadline", "timeLock"}, DatePasses(date) PROVE [Contract!ContractNext]_(Contract!contractVars)
  BY <1>4, DateMaps
<1>5. CASE UNCHANGED vars BY <1>5, Silent DEF vars
<1> QED BY <1>1, <1>2, <1>3, <1>4, <1>5 DEF Next

\* No escrow is a contract that is not open yet.
LEMMA RefinementInit == Init => Contract!ContractInit
<1> SUFFICES ASSUME Init PROVE Contract!ContractInit OBVIOUS
<1>1. row.status = "ABSENT" /\ paid = 0 /\ approvals = {} BY DEF Init, Absent
<1>2. Phase = "none" /\ Required = 0 /\ ~Ripe BY <1>1, PhaseIs DEF Required, Ripe
<1>3. Contract!ContractInit <=> Phase = "none" /\ Required = 0 /\ approvals = {} /\ paid = 0 /\ Ripe = FALSE
  BY DEF Contract!ContractInit, Phase, Required, Ripe
<1>4. Ripe = FALSE BY <1>2 DEF Ripe
<1> QED BY <1>1, <1>2, <1>3, <1>4

\* One request at a time, and without an admin's force, the service
\* implements EscrowContract: the amount is deposited once, leaves only on a
\* quorum or a matured time-lock, goes back only before both, and a closed
\* escrow stays closed.
THEOREM ContractKept == ASSUME OneAtATime, Admins = {} PROVE Spec => ImplementsContract
<1>1. Init => Contract!ContractInit BY RefinementInit
<1>2. EscrowInv /\ SequentialInv /\ [Next]_vars => [Contract!ContractNext]_(Contract!contractVars) BY RefinementStep
<1> QED BY <1>1, <1>2, EscrowInvariant, SequentialInvariant, PTL DEF Spec, ImplementsContract, Contract!ContractSpec
=============================================================================
