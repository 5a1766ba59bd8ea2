SPECIFICATION Spec
CONSTANTS
  Ids = {a, b}
  Commands = {c1}
  Handlers = {h1}
  None = None
  MaxRequests = 1
  MaxClicks = 1
  MaxActive = 2
  Faults = FALSE
CHECK_DEADLOCK FALSE
INVARIANTS StoredUnlessUpdateFailed
