\* The machine of the Makefile (-smp 1) with fair interrupts.
CONSTANTS
  NCpus = 1
  t1 = t1
  t2 = t2
  t3 = t3
  Task = {t1, t2, t3}
  Pinned = {t1}
  Sleepers = {t1, t2}
  Idle = Idle
  Null = Null
  MaxJiffies = 2
  MaxSleep = 2
SPECIFICATION FairSpec
PROPERTIES
  SleeperWakes
  ReadyRuns
