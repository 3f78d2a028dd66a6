SPECIFICATION MCSpec
CONSTANTS
  KernelFile <- MCKernelFile
  PageCells = 2
  CfgMax = 8
  NoText = NoConfig
  MaxRetry = 2
  MaxEvents = 3
  Disks <- MCDisks
  NoDisk = NoDisk
  MaxPerDrive = 3
  ExtGuard = 3
  Config <- MCConfig
  NoConfig = NoConfig
  MaxMountLines = 6
  MaxMounts = 8
  DevName <- MCDevName
  Radix = 4
  Ram = 32
  Framebuffer <- MCFramebuffer
  Kernel <- MCKernel
  Pool <- MCPool
  Cells = 2
  UserEnd = 256
  Space = 1024
  StackPage = 65
  Image <- MCImage
  MinFile = 2
  MaxFile = 8
  MaxSegs = 3
  MaxSegMem = 8
INVARIANTS HandedOver  MountsExact 
 
CHECK_DEADLOCK FALSE
