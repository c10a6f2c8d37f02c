SPECIFICATION Spec
CONSTANTS
  f1 = f1
  f2 = f2
  k1 = k1
  k2 = k2
  self = self
  SelfPid = self
  Running = Running
  Stopped = Stopped
  None = None
  Careful = {"wait", "pid", "rmdir", "umask"}
  KPids = {k1, k2}
  ForkPids <- TwoForkPids
  Mems = {m1, m2}
  Dirs = {dir1, dir2}
  Masks = {mask1}
  Fds = {fd}
  Descs = {desc}
  Statuses = {ok}
  MaxDepth = 2
INVARIANTS RefsExact
PROPERTIES Processes
SYMMETRY Alike
CHECK_DEADLOCK FALSE
