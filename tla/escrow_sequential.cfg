SPECIFICATION Spec
CONSTANTS
    s1 = s1 s2 = s2 s3 = s3 m1 = m1 m2 = m2
    Creator = creator
    Signatories = {s1, s2, s3}
    Admins = {}
    Arbitrators = {arb}
    Amount = 2
    Milestones = {m1, m2}
    MilestoneAmount <- MC_MilestoneAmount
    Dtos <- MC_AllDtos
    Ops = {"create", "fund", "approve", "revoke", "release", "refund", "cancel", "timeout", "timelock", "milestone", "dispute", "resolve"}
    Slots = {r1}
    Failures = TRUE
    MaxPaid = 4
    MaxEmit = 2
INVARIANTS PaidMatchesReleased QuorumIsNoticed
PROPERTIES ImplementsContract
CHECK_DEADLOCK FALSE
