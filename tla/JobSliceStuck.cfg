\* Both workers in claim mode work_slice.
SPECIFICATION FairSpec
CONSTANTS
  i1 = i1
  i2 = i2
  w1 = w1
  w2 = w2
  Items = {i1, i2}
  Workers = {w1, w2}
  NoWorker = NoWorker
  Admin = Admin
  Sweeper = Sweeper
  SliceWorkers = {w1, w2}
  RefreshRaces = TRUE
  AckLoss = FALSE
  MaxRepairs = 0
  MaxFaults = 1
PROPERTY JobEventuallyTerminal
CHECK_DEADLOCK FALSE
