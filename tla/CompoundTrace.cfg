SPECIFICATION Spec
CONSTANTS
  Faults = TRUE
  ResultFails = TRUE
CHECK_DEADLOCK FALSE
INVARIANTS TraceIsTrue OkIsComplete
PROPERTIES ImplementsSequence
