SPECIFICATION Spec
CONSTANTS
    s1 = s1 s2 = s2 s3 = s3 m1 = m1 m2 = m2
    Creator = creator
    Signatories = {s1, s2, s3}
    Admins = {}
    Arbitrators = {arb}
    Amount = 2
    Milestones = {}
    MilestoneAmount <- MC_MilestoneAmount
    Dtos <- MC_StandardDtos
    Ops = {"create", "fund", "approve", "release"}
    Slots = {r1, r2}
    Failures = FALSE
    MaxPaid = 4
    MaxEmit = 2
INVARIANTS TotalPaidWithinAmount
CHECK_DEADLOCK FALSE
