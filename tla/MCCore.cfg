\* Nine managed pages of two units, all memory maps of MCMemMaps; a heap of four pages of
\* 16 units; four APs of which any of the first three may never answer and the last may be
\* late.  The heap stops after the fault and init_smp ends, hence no check for deadlock.
CONSTANTS
  PageSize = 2
  MaxPages = 9
  MemMaps <- MCMemMaps
  KernelStart = 2
  KernelEnd = 5
  BootInfo = 6
  MapAddr = 9
  MapSize = 2
  Trampoline = 12
  Invalid = Invalid
  HeapPage = 16
  Hdr = 4
  Align = 2
  InitPages = 1
  Pages = {1, 2, 3, 4}
  Sizes <- MCSizes
  MaxLive = 3
  NULL = NULL
  NAps = 4
  Late = {4}
  CR3 = 4096
SPECIFICATION MCSpec
CHECK_DEADLOCK FALSE
INVARIANTS
  FreeCountExact
  GrantedOnce
  ReservedKept
  AnswersTrue
  HeapSound
  
  
PROPERTIES
  StaleFreeIgnored
  ApsComeUp
