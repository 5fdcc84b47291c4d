CONSTANTS
  Client = {c1, c2}
  Root = Root
  s1 = s1
  s2 = s2
  f1 = f1
  f2 = f2
  a = a
  b = b
  SubDir = {s1}
  File = {f1}
  Name = {a, b}
  Starts <- MCStarts
  Nil = Nil
  Keep = Keep
  Here = Here
  MaxWork = 4
SPECIFICATION FairSpec
CHECK_DEADLOCK FALSE
INVARIANT TypeOK
PROPERTY OperationsEnd
