\* Five devices, two of them of the same name, and room for three nodes besides the root.
CONSTANTS
  p1 = p1
  p2 = p2
  Proc = {p1, p2}
  Device = {"d1", "d2", "d3", "d4", "d5"}
  Path <- MCPath
  MaxNode = 3
  NULL = NULL
SYMMETRY Sym
SPECIFICATION Spec
INVARIANTS
  NodesPinned
  NodesMatch
