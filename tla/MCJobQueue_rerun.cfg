SPECIFICATION Spec
CONSTANTS
  w1 = w1
  w2 = w2
  Jobs = {j1}
  Clients = {c1}
  Sweepers = {s1}
  Workers = {w1, w2}
  NoJob = NoJob
  MaxAttempts = 2
  Abortable = {}
  MaxAborts = 0
  MaxOutages = 0
  MaxRevivals = 0
  MaxRuns = 3
SYMMETRY WorkerSymmetry
PROPERTY HandledJobIsNotRerun
CHECK_DEADLOCK FALSE
