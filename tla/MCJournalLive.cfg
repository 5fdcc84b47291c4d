CONSTANTS
  q1 = q1
  q2 = q2
  Root = root
  Dir = {root, d1}
  File = {f1}
  Name = {a}
  Worker = {w1}
  Queue = {q1, q2}
  QueueOf <- MCQueueOf
  None = None
  Null = Null
  Stop = Stop
  MaxOps = 2
  MaxRetries = 1
SPECIFICATION FairSpec
INVARIANT TypeOK
PROPERTIES EventuallyCheckpointed ShutdownEnds
CHECK_DEADLOCK FALSE
