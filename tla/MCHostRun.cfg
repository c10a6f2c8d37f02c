SPECIFICATION Spec
CONSTANTS
  MaxInput = 3
  PipeMax = 2
  MaxSteps = 3
  MaxErrors = 1
INVARIANTS StreamsExact FdsOnce
PROPERTIES Returns
CHECK_DEADLOCK FALSE
