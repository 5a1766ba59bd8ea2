SPECIFICATION Spec
CONSTANTS
  Cmds = {c1, c2}
  Kinds = {"propose", "request", "execute"}
  Ids = {i1, i2}
  Plans = {k1, k2}
  Providers = {"slack", "n8n"}
  None = None
  FreshIds = TRUE
  CmdTimeout = 1
  WaitTimeout = 1
  MaxTime = 1
CHECK_DEADLOCK FALSE
SYMMETRY Symmetry
INVARIANTS TypeOK AppliedPlanWasApproved
