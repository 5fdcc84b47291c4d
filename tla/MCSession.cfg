CONSTANTS
  Client = {c1, c2, c3}
  Limit = 6
  None = None
  MaxCrashes = 2
SYMMETRY ClientSymmetry
SPECIFICATION Spec
INVARIANT TypeOK
PROPERTY FreshId
