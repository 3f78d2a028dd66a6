\* Five clusters of two cells; every name takes two slots, so directories grow at once.
CONSTANTS
  p1 = p1
  p2 = p2
  Proc = {p1, p2}
  NClus = 5
  Cells = 2
  Name = {"a", "b"}
  Lfn <- MCLfn
  FilePath <- MCFilePath
  DirPath <- MCDirPath
  SeekPos = {0, 4}
  MaxPos = 5
  NULL = NULL
SYMMETRY MCSymmetry
SPECIFICATION Spec
INVARIANTS
  
  DataExact
  
