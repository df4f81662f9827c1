SPECIFICATION Spec
CONSTANTS
    Actors = {a1, a2}
    Lone = a1
    Scopes = {"key_rpm", "team_rpm"}
    RateLimit <- MCRateLimit
    MaxParallel = 1
    MaxBudget = 1
    MaxPeriods = 2
    MaxLost = 1
    MaxDrift = 1
    Deployment = Deployment
    Deployments = {Deployment}
    NoDeployment = NoDeployment
    Group <- OneDeployment
    Fallbacks <- OneDeployment
    ClassifiedFallbacks <- OneDeployment
    AllowedFails = 0
    FailureThreshold = 2
    NumRetries = 1
    MaxFailures = 2
    MaxCrashes = 1
    CacheKeys = {"k"}
    StreamLength = 2
    MaxFragments = 1
    MaxVersions = 4
    Orgs = {"o1", "o2"}
    MaxRows = 3
    SelfServiceKeys = 1
    Senders = {"s"}
    Cancellers = {"c"}
    MaxInvitations = 2
    MaxTokens = 3
    MaxPasswords = 2
    MaxSessions = 2
    MaxLinks = 1
    MaxSecrets = 2
    MaxApprovals = 2
    MaxServerSessions = 2
    MaxPrunes = 1
    MaxToolHops = 1
    MaxConcurrency = 2
SYMMETRY Symmetry
INVARIANTS
    
    SlotsAccountedFor
    LostSlotsExpire
    OneResetPerPeriod
    
    
    AuthRecordsFollow
    SnapshotsFollow
    
    LiveVersionKept
    
    ClosedOnce
    SessionsEndWithReset
    OneActiveRequest
PROPERTY LiveSessionKept
CHECK_DEADLOCK FALSE
