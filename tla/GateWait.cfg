SPECIFICATION FairSpec
CONSTANTS
  Cmds = {c1}
  Kinds = {"propose", "execute"}
  Ids = {i1}
  Plans = {k1}
  Providers = {"manual", "slack", "telegram"}
  None = None
  FreshIds = TRUE
  CmdTimeout = 5
  WaitTimeout = 3
  MaxTime = 5
CHECK_DEADLOCK FALSE
INVARIANTS TimedOutUnanswered
PROPERTIES WaitEnds
