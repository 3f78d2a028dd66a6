------------------------------- MODULE MCPmm -------------------------------
(* Small instances of the page allocator for TLC.                          *)
EXTENDS Pmm

\* Memory maps of up to three adjacent regions, as UEFI reports them: sorted,
\* disjoint, page aligned; and one map that is not sorted.
Region(s, n, u) == [start |-> s * PageSize, pages |-> n, usable |-> u]

Layouts(n) ==
  {<<Region(0, a, u), Region(a, b, v), Region(a + b, n - a - b, w)>> :
     a \in {3, 7}, b \in 1 .. 2, u \in BOOLEAN, v \in BOOLEAN, w \in BOOLEAN}

NoMemory == <<Region(0, 4, FALSE)>>

MCMemMaps ==
  Layouts(10) \cup {<<Region(6, 2, TRUE), Region(0, 3, TRUE)>>, NoMemory}

=============================================================================
