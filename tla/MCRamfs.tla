------------------------------- MODULE MCRamfs -------------------------------
(* A small instance of the memory file system for TLC.                     *)
EXTENDS Ramfs

MCDirPath == {<<2>>, <<3>>, <<2, 1>>}

Flag(path, w, c, t, a, d) ==
  [path |-> path, write |-> w, creat |-> c, trunc |-> t, append |-> a, directory |-> d]

\* Create and truncate, append, read only, and a directory.
MCOpens ==
  {Flag(<<1>>, TRUE, TRUE, TRUE, FALSE, FALSE),
   Flag(<<1>>, TRUE, FALSE, FALSE, TRUE, FALSE),
   Flag(<<1>>, FALSE, FALSE, TRUE, FALSE, FALSE),
   Flag(<<2>>, FALSE, FALSE, FALSE, FALSE, TRUE)}

=============================================================================
