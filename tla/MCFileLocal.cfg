SPECIFICATION FairSpec
CONSTANTS
  Proc = {t1, t2}
  Local = {t1, t2}
  Kinds = {"write", "append", "truncate", "unlink", "read", "open"}
  ObjSize = 2
  Zero = Zero
  None = None
  MaxSize = 5
  MaxLen = 2
  MaxOps = 3
  MaxCrashes = 0
INVARIANTS TypeOK StripedIsFlat SizeIsLength ReadsFile
PROPERTIES FillsHolesOnly OperationsEnd
CHECK_DEADLOCK FALSE
