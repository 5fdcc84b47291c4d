SPECIFICATION Spec
CONSTANTS
  Proc = {r1, r2}
  Local = {}
  Kinds = {"append"}
  ObjSize = 2
  Zero = Zero
  None = None
  MaxSize = 5
  MaxLen = 3
  MaxOps = 2
  MaxCrashes = 0
PROPERTIES FillsHolesOnly
CHECK_DEADLOCK FALSE
