------------------------------- MODULE MCVfs -------------------------------
(* Small instances of the virtual file system for TLC.                     *)
EXTENDS Vfs

MCPoints == {<<>>, <<"a">>, <<"a", "b">>}

\* "/a/b" from outside; "..", "a", "." and "b/.." from the working directory.
MCPaths ==
  {[abs |-> TRUE, comps |-> <<"a", "b">>],
   [abs |-> FALSE, comps |-> <<"..">>],
   [abs |-> FALSE, comps |-> <<"a">>],
   [abs |-> FALSE, comps |-> <<".">>],
   [abs |-> FALSE, comps |-> <<"b", "..">>]}

=============================================================================
