SPECIFICATION FairSpec
CONSTANTS
  p1 = p1
  p2 = p2
  Procs = {p1, p2}
  NumTasks = 2
  Interval <- MCInterval
  MinTtl = 2
  MaxHold <- MCMaxHold
  Horizon = 3
  Nobody = Nobody
  MaxCrashes = 1
  MaxOutages = 1
INVARIANT TypeOK
INVARIANT OneRunAtATime
PROPERTY EveryTaskKeepsRunning
