SPECIFICATION FairSpec
CONSTANTS
    MaxRetries = 2
    MaxDeliveries = 1
    MaxHookFaults = 1
    Couriers = {1, 2}
    MAX_RETRIES = 3
    MaxNotes = 1
    MaxNoteFaults = 1
    GatewayRequests = {1, 2, 3, 4}
    QUEUE_MAX = 2
    CONCURRENT_MAX = 3
    POOL_MIN = 1
    POOL_MAX = 2
    PER_MINUTE = 1
    BURST_LIMIT = 2
    MaxMinutes = 1
    PAGE_LIMIT = 2
    MAX_PAGES = 2
    MaxLedgers = 3
    MaxPerLedger = 2
    MaxIndexFaults = 1
INVARIANTS  ConnectionsAreExclusive IndexedBeforeCursor
PROPERTIES DeliveriesSettle 
CHECK_DEADLOCK FALSE
