\* One worker in each claim mode; every item ends.
SPECIFICATION FairSpec
CONSTANTS
  i1 = i1
  i2 = i2
  w1 = w1
  w2 = w2
  Items = {i1, i2}
  Workers = {w1, w2}
  NoWorker = NoWorker
  SliceWorkers = {w1}
  CancelAllowed = FALSE
  MaxAttempts = 2
  ClaimLimit = 2
  MaxEpoch = 3
  MaxFaults = 1
PROPERTY EventuallyTerminal
CHECK_DEADLOCK FALSE
