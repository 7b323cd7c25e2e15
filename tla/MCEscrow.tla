------------------------------ MODULE MCEscrow ------------------------------
(* Small instances of Escrow for TLC. *)
EXTENDS Escrow

CONSTANTS s1, s2, s3, m1, m2

\* Two milestones that add up to an amount of 2; each alone falls short.
MC_MilestoneAmount == [m \in Milestones |-> 1]

Standard(m) == [type |-> "STANDARD", requiredSignatures |-> m, settlementDeadline |-> TRUE,
                timeLockExpiry |-> FALSE, milestones |-> {}]
TimeLocked(m) == [type |-> "TIME_LOCKED", requiredSignatures |-> m, settlementDeadline |-> FALSE,
                  timeLockExpiry |-> TRUE, milestones |-> {}]
MilestoneBased(m, ms) == [type |-> "MILESTONE_BASED", requiredSignatures |-> m,
                          settlementDeadline |-> TRUE, timeLockExpiry |-> FALSE,
                          milestones |-> ms]

\* Every type of escrow, 2-of-n and 3-of-n, and requests createEscrow refuses
\* (more signatures than signatories, milestones that do not add up, no expiry).
MC_AllDtos ==
    {Standard(2), Standard(3), Standard(4), TimeLocked(2),
     [TimeLocked(2) EXCEPT !.timeLockExpiry = FALSE],
     MilestoneBased(2, {m1, m2}), MilestoneBased(2, {m1}), MilestoneBased(2, {})}

MC_StandardDtos == {Standard(2)}
MC_TimeLockedDtos == {TimeLocked(2)}

\* The escrow as its parties see it: EscrowContract's state read off the row.
Contract == INSTANCE EscrowContract WITH
    phase <- CASE row.status = "ABSENT" -> "none"
               [] row.status \in {"PENDING", "AWAITING_FUNDING"} -> "open"
               [] row.status \in Funded -> "held"
               [] row.status = "DISPUTED" -> "frozen"
               [] OTHER -> "closed",
    required <- IF row.status = "ABSENT" THEN 0 ELSE terms.requiredSignatures,
    signed <- approvals,
    out <- paid,
    matured <- row.status # "ABSENT" /\ Matured

\* One request at a time, and without an admin's force, the service keeps the
\* promise of EscrowContract.
ImplementsContract == Contract!ContractSpec
=============================================================================
