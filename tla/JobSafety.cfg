\* One worker in each claim mode; refreshes overtake each other.
SPECIFICATION Spec
CONSTANTS
  i1 = i1
  i2 = i2
  w1 = w1
  w2 = w2
  Items = {i1, i2}
  Workers = {w1, w2}
  NoWorker = NoWorker
  Admin = Admin
  Sweeper = Sweeper
  SliceWorkers = {w1}
  RefreshRaces = TRUE
  AckLoss = FALSE
  MaxRepairs = 1
  MaxFaults = 1
SYMMETRY ItemSymmetry
INVARIANT FinalizingMeansDone
INVARIANT ProgressNotOverstated
INVARIANT FilesUnlessOvertaken
PROPERTY TerminalJobIsFinal
CHECK_DEADLOCK FALSE
