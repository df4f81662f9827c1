\* Both workers in claim mode job_fifo; the job ends.
SPECIFICATION FairSpec
CONSTANTS
  i1 = i1
  i2 = i2
  w1 = w1
  w2 = w2
  Items = {i1, i2}
  Workers = {w1, w2}
  NoWorker = NoWorker
  Admin = Admin
  Sweeper = Sweeper
  SliceWorkers = {}
  RefreshRaces = TRUE
  AckLoss = TRUE
  MaxRepairs = 0
  MaxFaults = 2
PROPERTY JobEventuallyTerminal
CHECK_DEADLOCK FALSE
