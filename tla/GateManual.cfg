SPECIFICATION Spec
CONSTANTS
  Cmds = {c1}
  Kinds = {"propose", "execute"}
  Ids = {i1}
  Plans = {k1, k2}
  Providers = {"manual"}
  None = None
  FreshIds = TRUE
  CmdTimeout = 2
  WaitTimeout = 1
  MaxTime = 2
CHECK_DEADLOCK FALSE
INVARIANTS AppliedPlanWasApproved
