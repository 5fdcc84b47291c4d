SPECIFICATION Spec
CONSTANTS
  Proc = {t1, r1, r2}
  Local = {t1}
  Kinds = {"write", "append", "truncate", "unlink", "open"}
  ObjSize = 2
  Zero = Zero
  None = None
  MaxSize = 4
  MaxLen = 2
  MaxOps = 3
  MaxCrashes = 1
INVARIANTS SizeIsLength NoHoles AppendsDisjoint
CHECK_DEADLOCK FALSE
SYMMETRY Threads
CONSTRAINT Whole
