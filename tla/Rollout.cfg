SPECIFICATION FairSpec
CONSTANTS
  Executors = {e1}
  Operations <- AllOperations
  Strategies = {"RollingUpdate", "Recreate"}
  MaxReplicas = 2
  None = None
  VerifyTimeout = 2
  CtxTimeout = 3
  MaxGeneration = 3
  MaxTime = 3
CHECK_DEADLOCK FALSE
INVARIANTS VerifiedScaleWasReached RecreatedPodsAreAvailable RolledOutInTimeIsVerified
PROPERTIES ApplyEnds
