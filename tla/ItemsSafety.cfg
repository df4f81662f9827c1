\* One worker in each claim mode; cancel requests, two faults.
SPECIFICATION Spec
CONSTANTS
  i1 = i1
  i2 = i2
  w1 = w1
  w2 = w2
  Items = {i1, i2}
  Workers = {w1, w2}
  NoWorker = NoWorker
  SliceWorkers = {w1}
  CancelAllowed = TRUE
  MaxAttempts = 2
  ClaimLimit = 2
  MaxEpoch = 2
  MaxFaults = 2
SYMMETRY ItemSymmetry
INVARIANT BilledExactlyCompleted
INVARIANT LastClaimWins
PROPERTY ExclusiveWhileLeased
PROPERTY RefinesLifecycle
CHECK_DEADLOCK FALSE
