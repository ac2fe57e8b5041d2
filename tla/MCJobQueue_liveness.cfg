SPECIFICATION FairSpec
CONSTANTS
  w1 = w1
  w2 = w2
  Jobs = {j1}
  Clients = {c1}
  Sweepers = {s1}
  Workers = {w1}
  NoJob = NoJob
  MaxAttempts = 2
  Abortable = {c1}
  MaxAborts = 1
  MaxOutages = 1
  MaxRevivals = 0
  MaxRuns = 6
PROPERTY EveryJobSettles
CHECK_DEADLOCK FALSE
