CONSTANTS
  Client = {c1, c2, c3}
  f1 = f1
  n1 = n1
  File = {f1, f2}
  Name = {n1, n2}
  First <- MCFirst
  Nil = Nil
  Keep = Keep
  MaxValue = 1
  MaxWork = 5
SYMMETRY ClientSymmetry
SPECIFICATION Spec
CHECK_DEADLOCK FALSE
INVARIANTS TypeOK AttributesKept NameHolds
CONSTRAINT Representative
