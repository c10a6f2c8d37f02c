SPECIFICATION Spec
CONSTANTS
  f1 = f1
  f2 = f2
  k1 = k1
  k2 = k2
  self = self
  SelfPid = self
  Running = Running
  Stopped = Stopped
  None = None
  Careful = {"pid", "rmdir", "umask"}
  KPids = {k1, k2}
  ForkPids <- TwoForkPids
  Mems = {m1}
  Dirs = {dir1, dir2}
  Masks = {mask1, mask2}
  Fds = {}
  Descs = {desc}
  Statuses = {ok}
  MaxDepth = 2
PROPERTIES Processes
CHECK_DEADLOCK FALSE
