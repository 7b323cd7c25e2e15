SPECIFICATION FairPollerSpec
CONSTANTS
    MaxTx = 4
    Failed = {2}
    PageLimit = 2
    FetchFails = TRUE
    MaxErrors = 1
    MaxCrashes = 1
INVARIANTS NothingSkipped PublishedOnce
PROPERTIES EveryTransactionIndexed
CHECK_DEADLOCK FALSE
