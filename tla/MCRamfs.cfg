\* Two callers; three names in the root and one below, room for three nodes.
CONSTANTS
  p1 = p1
  p2 = p2
  Proc = {p1, p2}
  Lister = {p1}
  Opens <- MCOpens
  DirPath <- MCDirPath
  MaxNode = 3
  DefCap = 1
  Value = {1}
  Junk = Junk
  MaxPos = 2
  NULL = NULL
SPECIFICATION Spec
INVARIANTS
  RefsExact
  ContentExact
  ListingComplete
