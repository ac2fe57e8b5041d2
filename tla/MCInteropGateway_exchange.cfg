SPECIFICATION Spec
CONSTANTS
  r1 = r1
  r2 = r2
  d1 = d1
  d2 = d2
  o1 = o1
  a1 = a1
  b1 = b1
  e1 = e1
  m1 = m1
  m2 = m2
  c1 = c1
  c2 = c2
  Requests = {r1, r2}
  Deciders = {d1, d2}
  Officers = {o1}
  Apps = {a1}
  Bens = {b1}
  Residents = {e1}
  BenOf <- MCBenOf
  ResOf <- MCResOf
  Known = {e1}
  Ambiguous = {e1}
  Switched = {"dept_a"}
  Masters = {m1, m2}
  CandIds = {c1, c2}
  MaxGrants = 2
  None = None
  Nobody = Nobody
SYMMETRY ThreadSymmetry
CONSTRAINT OffEarly
CONSTRAINT TwoAlone
CONSTRAINT CalmAfterTwo
INVARIANT TypeOK
INVARIANT AtMostOnePending
INVARIANT RulingsHold
INVARIANT VerifiedIsTracked
PROPERTY ConsentsAreKept
PROPERTY TransferJoinsOnePerson
PROPERTY RefusalsSettle
