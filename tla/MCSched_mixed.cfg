\* Two CPUs: two tasks that are pinned and sleep, as the user task of
\* kernel_main does, and one that may be stolen but does not sleep.
CONSTANTS
  NCpus = 2
  t1 = t1
  t2 = t2
  t3 = t3
  Task = {t1, t2, t3}
  Pinned = {t1, t2}
  Sleepers = {t1, t2}
  Idle = Idle
  Null = Null
  MaxJiffies = 1
  MaxSleep = 1
SPECIFICATION Spec
INVARIANTS
  LockDiscipline
  QueuesExact
  TasksKept
  SleepListExact
  PinnedSafe
PROPERTIES
  SleepNotEarly
  ImplementsTaskLife
