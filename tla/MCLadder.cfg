SPECIFICATION LadderSpec
CONSTANTS
  None = None
  PRs = {p1, p2}
  Pkgs = {a, b}
  LastVersion = 3
  MaxPushes = 3
  MaxLegs = 2
  MaxReruns = 1
  MaxLate = 1
  Bumped = TRUE
INVARIANTS ShipsWhatLanded PassedPublishes NothingSilent
PROPERTIES TagNeverBack
SYMMETRY Alike
CHECK_DEADLOCK FALSE
