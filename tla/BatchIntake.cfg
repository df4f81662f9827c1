\* Two requests with or without one key, one batch may be active; two workers
\* claim three items of two tenants.
SPECIFICATION IntakeSpec
CONSTANTS
  r1 = r1
  r2 = r2
  s1 = s1
  s2 = s2
  k1 = k1
  Requests = {r1, r2}
  Sessions = {s1, s2}
  Keys = {k1}
  NoKey = NoKey
  NoSession = NoSession
  NoTenant = NoTenant
  MaxPending = 1
  MaxFaults = 1
  FairWorkers = {"w1"}
  CapacityWorkers = {"w2"}
  Tenants = {1, 2}
  Jobs = {1, 2}
  TenantOf <- MCTenantOf
  SchedulerItems = {1, 2, 3}
  JobOf <- MCJobOf
  Units <- MCUnits
  SizeAware = FALSE
  Dual = TRUE
  MaxItems = 2
  MaxWork = 2
  TenantMax = 2
  Quantum = 1
  Multiplier = 2
  MaxInFlight = 2
  MaxClaimFaults = 1
SYMMETRY Symmetry
INVARIANTS BatchIffCompleted OneBatchPerKey PendingWithinLimit StagedWorkIsKept CapacityKept
PROPERTY FairClaimWithinTenantLimit
CHECK_DEADLOCK FALSE
