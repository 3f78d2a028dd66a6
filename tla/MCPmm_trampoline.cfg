\* The trampoline page lies in usable memory that init_pmm does not reserve.
CONSTANTS
  PageSize = 2
  MaxPages = 9
  MemMaps <- MCMemMaps
  KernelStart = 2
  KernelEnd = 5
  BootInfo = 6
  MapAddr = 9
  MapSize = 2
  Trampoline = 12
  Invalid = Invalid
SPECIFICATION Spec
INVARIANT TrampolineSpared
