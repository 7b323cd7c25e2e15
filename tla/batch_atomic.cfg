SPECIFICATION Spec
CONSTANTS
    r1 = r1 r2 = r2
    Legs = {0, 1}
    DependsOn <- MC_Independent
    Conditional = {1}
    Requests = {r1, r2}
    Ops <- MC_Ops
    Timeouts = TRUE
    Faults = TRUE
    LostReplies = TRUE
    MaxCrashes = 1
    MaxChain = 2
INVARIANTS BatchIsAtomic
CHECK_DEADLOCK FALSE
