SPECIFICATION Spec
CONSTANTS
  w1 = w1
  w2 = w2
  up = up
  Workers <- MCWorkers
  Uploads <- MCUploads
  Pids <- MCPids
  MaxUpload = 2
  MaxOps = 2
  Careful <- AllCareful
INVARIANTS NoLeak HandlesHold SentWhole
PROPERTIES Answered
CHECK_DEADLOCK FALSE
