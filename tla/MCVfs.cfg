\* Two callers and two slots; mounts are made before the tasks run, as kernel_main does.
CONSTANTS
  b = b
  p1 = p1
  Proc = {b, p1}
  Boot = b
  Mounters = {}
  Driver = {"ramfs"}
  MaxDrivers = 1
  NMounts = 2
  PathMax = 8
  Points <- MCPoints
  Paths <- MCPaths
  MaxSb = 2
  NULL = NULL
SPECIFICATION Spec
INVARIANTS
  MountsPinned
  CwdNormal
PROPERTIES
  LongestWins
