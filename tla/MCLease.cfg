CONSTANTS
  c1 = c1
  c2 = c2
  Client = {c1, c2}
  Ino = {i1}
  Call = {k1, k2, k3}
  None = None
  Period = 2
  MaxTime = 4
  Skew <- MCSkew
SYMMETRY CallSymmetry
SPECIFICATION Spec
INVARIANTS TypeOK LeaseExclusive ValidAgrees DueBounded
PROPERTIES RunningLeaseStays ImplementsLeadership
