SPECIFICATION Spec
CONSTANTS
  w1 = w1
  w2 = w2
  Jobs = {j1}
  Clients = {c1}
  Sweepers = {s1}
  Workers = {w1, w2}
  NoJob = NoJob
  MaxAttempts = 2
  Abortable = {w1, w2}
  MaxAborts = 1
  MaxOutages = 0
  MaxRevivals = 1
  MaxRuns = 3
SYMMETRY WorkerSymmetry
CONSTRAINT OneFault
INVARIANT TypeOK
INVARIANT RunningIsOwned
INVARIANT VerdictIsEarned
INVARIANT AttemptsNeverOvercount
CHECK_DEADLOCK FALSE
PROPERTY LedgerIsKept
