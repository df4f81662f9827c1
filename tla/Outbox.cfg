\* Two replicas deliver two completions, one of them without an api key.
SPECIFICATION FairSpec
CONSTANTS
  c1 = c1
  c2 = c2
  w1 = w1
  w2 = w2
  Completions = {c1, c2}
  Keyed = {c1}
  Workers = {w1, w2}
  NoWorker = NoWorker
  MaxAttempts = 2
  MaxBatch = 2
  MaxConcurrency = 1
  MaxFaults = 4
INVARIANT ChargedOnce
PROPERTY EventuallySettled
CHECK_DEADLOCK FALSE
