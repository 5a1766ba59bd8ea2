SPECIFICATION Spec
CONSTANTS
  Ids = {a, b}
  Commands = {c1}
  Handlers = {h1}
  None = None
  MaxRequests = 2
  MaxClicks = 3
  MaxActive = 1
  Faults = TRUE
CHECK_DEADLOCK FALSE
INVARIANTS PostedIdsAreKnown StoredUnlessUpdateFailed
PROPERTIES ImplementsLedger
