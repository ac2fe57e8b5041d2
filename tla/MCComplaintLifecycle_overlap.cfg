SPECIFICATION Spec
CONSTANTS
  p1 = p1
  p2 = p2
  o1 = o1
  o2 = o2
  d1 = d1
  d2 = d2
  Procs = {p1, p2}
  Nobody = Nobody
  Depts = {d1, d2}
  Officers = {o1, o2}
  OfficerDept <- MCOfficerDept
  None = None
  MaxLevel = 1
  PolicyLevel = 2
  NumRules = 2
  Trigger <- MCOverlapTriggers
  RuleAction <- MCOverlapActions
SYMMETRY ProcSymmetry
CONSTRAINT OneDetour
INVARIANT TypeOK
INVARIANT RoutingFits
INVARIANT StampMeansResolved
INVARIANT SpentCloseRuleClosed
INVARIANT RuleRunsOnce
INVARIANT FiledOnce
INVARIANT StatusWasRecorded
INVARIANT WorkPrecedesResolution
PROPERTY StatusIsTracedUnlessLost
PROPERTY EndIsFinal
