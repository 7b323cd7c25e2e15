SPECIFICATION FairSpec
CONSTANTS
    Slots = {a, b}
    Overlap = FALSE
    Resets = {0, 1}
    MaxLedger = 2
    MaxCalls = 5
    MaxFaults = 3
INVARIANTS OneConnection
PROPERTIES LedgersAreDelivered
CHECK_DEADLOCK FALSE
