SPECIFICATION Spec
CONSTANTS
  Files = {1, 2, 3, 4}
  Graphs <- AllGraphs
  MaxDepth = 2
  Limit = 4
  Bases <- SomeBases
  RefSets <- SomeRefs
  LockSets <- SomeLocks
  Size <- Sizes
  MaxFiles = 3
  SeedCap = 2
  MaxBytes = 3
CHECK_DEADLOCK FALSE
INVARIANTS ScoredIsLinked ChoiceIsDetermined SpaceGoesToTheBest
