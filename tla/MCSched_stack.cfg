\* A task in a ready queue may still be executed by the CPU that queued it.
CONSTANTS
  NCpus = 2
  t1 = t1
  t2 = t2
  Task = {t1, t2}
  Pinned = {}
  Sleepers = {t1, t2}
  Idle = Idle
  Null = Null
  MaxJiffies = 1
  MaxSleep = 1
SPECIFICATION Spec
SYMMETRY TaskSymmetry
INVARIANT QueuedNotRunning
