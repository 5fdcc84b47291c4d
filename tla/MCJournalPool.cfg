CONSTANTS
  q1 = q1
  q2 = q2
  Root = root
  Dir = {root, d1}
  File = {f1, f2}
  Name = {a, b}
  Worker = {w1, w2}
  Queue = {q1, q2}
  QueueOf <- MCQueueOf
  None = None
  Null = Null
  Stop = Stop
  MaxOps = 4
  MaxRetries = 1
SYMMETRY Symmetry
SPECIFICATION Spec
INVARIANTS NamesKept InodesKept NoLogicError WriteAhead DrainedAtExit
CHECK_DEADLOCK FALSE
CONSTRAINT OneKind
