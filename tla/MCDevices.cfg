\* A tick of 10 ms; a ring of three keys; a console of 3 columns, 2 rows below the splash
\* and 5 in all; a disk whose 28-bit addresses end inside a partition.  The bounds stop
\* the clock and the disk, hence no check for deadlock.
CONSTANTS
  Hz = 100
  Width = 16
  Ms = {0, 1, 10, 15, 20, 29}
  MaxNow = 64
  KbdSize = 3
  ScanCode = {"make_a", "make_b", "break_a"}
  KeyMap <- MCKeyMap
  MaxRead = 4
  Cols = 3
  BootRows = 2
  FullRows = 5
  TabStop = 2
  Letter = {"a"}
  Writes <- MCWrites
  MaxLine = 4
  MaxMsg = 2
  NoText = NoText
  Task = {"t1", "t2"}
  Start <- MCStart
  NBlocks <- MCNBlocks
  Sectors = 18
  Bs = 2
  Radix = 2
  Nibble = 2
  Lba48 = TRUE
  Clamp = 2
  Split = 3
  MaxOps = 1
  Nobody = Nobody
  Volume <- MCVolume
  FsBlock = 4
  MaxDepth = 2
  RecHeader = 2
  RootIno = 2
  ExtPath <- MCExtPath
  MaxSeek = 24
SPECIFICATION MCSpec
CHECK_DEADLOCK FALSE
INVARIANTS
  
  KeysExact
  ScreenExact
  DiskExact
  

  
