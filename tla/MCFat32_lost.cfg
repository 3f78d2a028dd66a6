\* One name takes two slots and the other one: the two do not fill a cluster evenly.
CONSTANTS
  p1 = p1
  p2 = p2
  Proc = {p1, p2}
  NClus = 5
  Cells = 2
  Name = {"a", "b"}
  Lfn <- MCLfnMixed
  FilePath <- MCFilePath
  DirPath <- MCDirPath
  SeekPos = {0, 2}
  MaxPos = 3
  NULL = NULL
SYMMETRY MCSymmetry
SPECIFICATION Spec
INVARIANTS
  CreatedFound
