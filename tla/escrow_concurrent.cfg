SPECIFICATION Spec
CONSTANTS
    s1 = s1 s2 = s2 s3 = s3 m1 = m1 m2 = m2
    Creator = creator
    Signatories = {s1, s2}
    Admins = {admin}
    Arbitrators = {}
    Amount = 2
    Milestones = {}
    MilestoneAmount <- MC_MilestoneAmount
    Dtos <- MC_TimeLockedDtos
    Ops = {"create", "fund", "approve", "release", "refund", "dispute", "timelock"}
    Slots = {r1, r2}
    Failures = FALSE
    MaxPaid = 4
    MaxEmit = 2
INVARIANTS ReleasedWithinAmount
PROPERTIES ReleaseIsCounted
CHECK_DEADLOCK FALSE
