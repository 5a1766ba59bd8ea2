SPECIFICATION Spec
CONSTANTS
  Ids = {"id", "id2"}
  Starts <- MCStarts
  Lower <- MCLower
  Chat = "ours"
  Chats = {"ours", "theirs"}
  Window = 3
  Locals = {1, 2, 3}
  MaxUpdates = 2
  MaxPieces = 2
  SystemNamespaces = {"kube"}
  SystemPrefixed = {"kube"}
  KubeNamespaces = {1}
  IncludeSystem = FALSE
  Unset <- MCUnset
  MaxSamples = 2
  MaxHints = 1
INVARIANTS
  AnswersAreDecisions ConfigurationIsWhole EditsStayInBlock
  QueryFallsBack BackendsAreDiscovered
  ScoresAreMonotone AlarmsAreTrue LossIsReported RepositoryIsLinked ReportIsFair
  CrashesAreEscalated AnalyzersAgree
CHECK_DEADLOCK FALSE
