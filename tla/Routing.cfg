SPECIFICATION Spec
CONSTANTS
    d1 = d1
    d2 = d2
    Deployments = {d1, d2}
    Requests = {r1}
    Group <- MCGroup
    Fallbacks <- MCFallbacks
    ClassifiedFallbacks <- MCFallbacks
    AllowedFails = 0
    FailureThreshold = 1
    NumRetries = 1
    HealthChecks = TRUE
    ClassifiedServerErrors = FALSE
    NoDeployment = NoDeployment
    MaxFailures = 1
    MaxCrashes = 1
INVARIANTS ActiveCounted OnlyFaultyLeaveRotation
PROPERTIES  EveryRequestEnds
