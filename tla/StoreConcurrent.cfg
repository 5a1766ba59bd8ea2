SPECIFICATION Spec
CONSTANTS
  Ids = {a, b}
  Commands = {c1, c2}
  Handlers = {h1, h2}
  None = None
  MaxRequests = 1
  MaxClicks = 2
  MaxActive = 3
  Faults = TRUE
CHECK_DEADLOCK FALSE
SYMMETRY Symmetry
INVARIANTS TypeOK AnswersComeFromClicks
PROPERTIES BrokenStoreIsNeverReplaced
