CONSTANTS
  c1 = c1
  c2 = c2
  Client = {c1, c2}
  Ino = {i1}
  Call = {k1, k2}
  None = None
  Period = 2
  MaxTime = 5
  MaxRestarts = 1
  Skew <- MCSkew
SYMMETRY CallSymmetry
SPECIFICATION RestartSpec
INVARIANTS ExclusiveAfterGrace
