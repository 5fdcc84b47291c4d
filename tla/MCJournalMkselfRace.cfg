CONSTANTS
  q1 = q1
  q2 = q2
  Root = root
  Dir = {root, d1}
  File = {f1}
  Name = {a}
  Worker = {w1, w2}
  Queue = {q1, q2}
  QueueOf <- MCQueueOf
  None = None
  Null = Null
  Stop = Stop
  MaxOps = 2
  MaxRetries = 1
SYMMETRY Symmetry
SPECIFICATION Spec
INVARIANT DentryObjectFound
CHECK_DEADLOCK FALSE
