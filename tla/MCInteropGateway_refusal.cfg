SPECIFICATION Spec
CONSTANTS
  r1 = r1
  r2 = r2
  d1 = d1
  d2 = d2
  o1 = o1
  a1 = a1
  b1 = b1
  e1 = e1
  m1 = m1
  m2 = m2
  c1 = c1
  c2 = c2
  Requests = {r1}
  Deciders = {d1, d2}
  Officers = {}
  Apps = {a1}
  Bens = {b1}
  Residents = {e1}
  BenOf <- MCBenOf
  ResOf <- MCResOf
  Known = {}
  Ambiguous = {}
  Switched = {}
  Masters = {m1}
  CandIds = {c1}
  MaxGrants = 1
  None = None
  Nobody = Nobody
SYMMETRY ThreadSymmetry
PROPERTY RefusalIsFinal
