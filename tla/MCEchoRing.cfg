SPECIFICATION Spec
CONSTANTS
  Frame = 3
  Cap = 5
  Lengths <- MCLengths
  Longest = 8
  MaxCalls = 3
  MaxFails = 1
INVARIANTS RingWindow Delayed LockStep
PROPERTIES ImplementsQueue
CHECK_DEADLOCK FALSE
