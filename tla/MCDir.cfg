CONSTANTS
  Client = {c1, c2, c3}
  Root = Root
  s1 = s1
  s2 = s2
  f1 = f1
  f2 = f2
  a = a
  b = b
  SubDir = {s1, s2}
  File = {f1, f2}
  Name = {a, b}
  Starts <- MCTwoFiles
  Nil = Nil
  Keep = Keep
  Here = Here
  MaxWork = 5
SYMMETRY ClientSymmetry
SPECIFICATION Spec
CHECK_DEADLOCK FALSE
INVARIANTS Agreement Loads NoDoubleLink
 
CONSTRAINT LessWork
