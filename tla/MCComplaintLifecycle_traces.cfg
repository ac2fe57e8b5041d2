SPECIFICATION Spec
CONSTANTS
  p1 = p1
  p2 = p2
  o1 = o1
  o2 = o2
  d1 = d1
  d2 = d2
  Procs = {p1, p2}
  Nobody = Nobody
  Depts = {d1}
  Officers = {o1}
  OfficerDept <- MCOfficerDept
  None = None
  MaxLevel = 0
  PolicyLevel = 0
  NumRules = 2
  Trigger <- MCTwoTriggers
  RuleAction <- MCTwoActions
SYMMETRY ProcSymmetry
CONSTRAINT MainLine
PROPERTY StatusIsTraced
