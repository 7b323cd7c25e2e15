SPECIFICATION MCSpec
CONSTANTS
    Dtos <- MC_FewDtos
    LimitDtos <- MC_LimitDtos
    MaxOrders = 3
    Ops = {"create", "cancel", "expire"}
    Slots = {h1, h2}
    TxFails = TRUE
    MaxRestarts = 1
    EarlyRequests = FALSE
SYMMETRY HandlerSymmetry
INVARIANTS NoOverfill BookIsRight
CHECK_DEADLOCK FALSE
