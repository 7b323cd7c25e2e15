SPECIFICATION Spec
CONSTANTS
    Parties = {"maker"}
    Arbitrators = {"ann"}
    Experts = {"ann"}
    Generalists = {}
    MAX_ACTIVE = 1
    MAX_PER_MONTH = 2
    DisputeCallers = {c1, c2}
    MaxDisputes = 2
    MaxDecisions = 2
    MaxDisputeFaults = 1
    OrderIds = {c1, c2}
    Prices = {1, 2}
    Offers <- MC_Offers
    Cancellers = {k1}
    MaxMoves = 2
    MaxJobs = 2
    AlertEvents <- MC_AlertEvents
    Handlers = {1, 2}
    MAX_PER_HOUR = 1
    MAX_PER_DAY = 2
    MaxMessages = 4
    MaxTicks = 1
    MaxAlertErrors = 1
    Contracts = {v1, v2, v3}
    Kinds = {"swap", "escrow"}
    Upgraders = {c1, c2}
    MaxRegistrations = 2
    StartDays <- MC_StartDays
    MaxScheduleChanges = 2
    MaxRuns = 2
    MaxReportFaults = 1
    Clients = {c1, c2}
    EventTypes = {"trade", "payment"}
    BUFFER_MAX = 2
    MaxSubscriptions = 2
    MaxEvents = 4
    MaxPerTransaction = 3
    UNITS = 3
    CUTOFF = 1
    MaxPipelineJobs = 2
    MaxPipelineFaults = 1
    NLegs = 4
    MaxCalls = 3
    MaxLedger = 3
    MaxReorgs = 2
    MaxDepth = 2
    MaxBackfillLedgers = 1
SYMMETRY Symmetry
INVARIANTS DisputesAreSound OrdersAreSound AlertsAreBounded OneActiveVersion ReportsAreOnTime StreamIsWhole  PlanIsRight RecoveryIsSound
 
CHECK_DEADLOCK FALSE
