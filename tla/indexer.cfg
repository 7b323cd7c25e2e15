SPECIFICATION FairSpec
CONSTANTS
    MaxLedger = 3
    Txs = 1
    BatchMaxSize = 2
    MaxHandlers = 2
    ColdStart = FALSE
    MaxFetchFails = 1
    MaxInsertFails = 1
    MaxStateFails = 1
    MaxCrashes = 1
INVARIANTS NoLedgerSkipped TableIsExact
PROPERTIES DeliveredIsStored
CHECK_DEADLOCK FALSE
