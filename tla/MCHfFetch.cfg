SPECIFICATION Spec
CONSTANTS
  c1 = c1
  c2 = c2
  Bad = Bad
  NoFile = NoFile
  Commits <- TwoCommits
  Size <- SizesDiffer
  Corrupts = TRUE
  MaxStalls = 2
  SyncEvery = 2
  MaxRuns = 3
INVARIANTS InPlace OnlyVerified NeverLost
PROPERTIES HealsToOk
CHECK_DEADLOCK FALSE
