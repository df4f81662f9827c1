SPECIFICATION Spec
CONSTANTS
    d1 = d1
    d2 = d2
    Deployments = {d1}
    Requests = {r1}
    Group <- MCGroup
    Fallbacks <- MCGroup
    ClassifiedFallbacks <- MCGroup
    AllowedFails = 0
    FailureThreshold = 2
    NumRetries = 1
    HealthChecks = FALSE
    ClassifiedServerErrors = FALSE
    NoDeployment = NoDeployment
    MaxFailures = 2
    MaxCrashes = 0

PROPERTY CooldownEnds
