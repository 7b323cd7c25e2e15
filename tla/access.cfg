SPECIFICATION Spec
CONSTANTS
    Callers = {c1, c2}
    MAX_FAILURES = 2
    CHALLENGE_MAX = 2
    MaxChallenges = 2
    MaxCallCrashes = 1
    SessionCallers = {c1, c2}
    MaxTokens = 2
    MaxResets = 1
    MaxSessionCrashes = 1
    Keys = {"master", "a", "b"}
    Setups <- MC_Setups
    MAX_SIGNERS = 2
    PoolCallers = {c1, c2}
    MaxPooled = 2
    MaxLostAnswers = 1
    WalletIds = {w1, w2}
    WalletCallers = {c1, c2}
    MaxWalletWrites = 3
    KycCallers = {c1, c2}
    MaxKycWrites = 3
    People = {p1, p2, p3}
    AuthRequests <- MC_AuthRequests
    Chains <- MC_Chains
    Policies <- MC_Policies
    Markets <- MC_Markets
    BASE_MIN = 1
    BASE_MAX = 10
    MaxDelegations = 1
    MaxHour = 2
    MaxTrail = 1
    MaxActions = 1
    WINDOW = 2
    Quotas = {1, 2}
    OVERRIDE = 2
    Admins = {a1}
    MaxTime = 3
    MaxChecks = 4
    MaxQuotaChanges = 1
INVARIANTS LoginsAreSafe ResetEndsSessions  WalletsAreSound  
PROPERTIES  DelegationIsLive
CHECK_DEADLOCK FALSE
