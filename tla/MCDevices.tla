------------------------------ MODULE MCDevices ------------------------------
(***************************************************************************)
(* Small instances of the clock, the keyboard, the console, the disk and   *)
(* the ext4 driver for TLC.  The five share no variable: a behaviour runs  *)
(* one of them, and the others stay as they start.                         *)
(***************************************************************************)
EXTENDS Timer, Kbd, Console, Disk, Ext4, TLC

MCKeyMap == ("make_a" :> "a") @@ ("make_b" :> "b") @@ ("break_a" :> "none")

MCWrites == {<<c>> : c \in Letter \cup Control} \cup {<<"a", "nl">>, <<"a", "cr">>}

\* A partition on both sides of the last 28-bit address, and its neighbour.
MCStart == ("t1" :> 13) @@ ("t2" :> 17)
MCNBlocks == ("t1" :> 4) @@ ("t2" :> 1)

\* An ext4 volume with blocks of four cells.  The file "a" has an index of two leaves with
\* a hole and an extent without data; "b" is damaged: its index leads back to itself.
Leaf(extents) == [ok |-> TRUE, depth |-> 0, entries |-> extents]
Extent(b, span, start) == [b |-> b, span |-> span, uninit |-> FALSE, start |-> start]
Index(depth, entries) == [ok |-> TRUE, depth |-> depth, entries |-> entries]
Child(b, block) == [b |-> b, child |-> block]
Node(type, size, root) ==
  [type |-> type, size |-> size, root |-> root, extents |-> TRUE, unreadable |-> FALSE]
Rec(ino, rec, name) == [ino |-> ino, rec |-> rec, name |-> name]

Sound ==
  [super |-> "good", unreadable |-> {},
   inodes |->
     (2 :> Node("dir", 12, Leaf(<<Extent(0, 1, 10), Extent(2, 1, 11)>>))) @@
     (3 :> Node("file", 23, Index(1, <<Child(0, 20), Child(3, 21)>>))) @@
     (4 :> Node("file", 6, Index(1, <<Child(0, 22)>>))) @@
     (5 :> Node("link", 2, Leaf(<<>>))) @@
     (6 :> Node("dir", 4, Leaf(<<Extent(0, 1, 12)>>))) @@
     (7 :> [Node("file", 4, Leaf(<<Extent(0, 1, 1)>>)) EXCEPT !.extents = FALSE]),
   nodes |->
     (20 :> Leaf(<<Extent(0, 2, 1)>>)) @@
     (21 :> Leaf(<<Extent(3, 0, 9), Extent(3, 1, 3), [Extent(4, 1, 4) EXCEPT !.uninit = TRUE], Extent(5, 1, 4)>>)) @@
     (22 :> Index(1, <<Child(0, 22)>>)),
   data |-> [b \in 1 .. 4 |-> [c \in 1 .. 4 |-> 10 * b + c]],
   dirs |->
     (10 :> ((0 :> Rec(3, 2, "a")) @@ (2 :> Rec(4, 2, "b")))) @@
     (11 :> ((0 :> Rec(0, 2, "x")) @@ (2 :> Rec(6, 2, "d")))) @@
     (12 :> ((0 :> Rec(5, 2, "l")) @@ (2 :> Rec(7, 2, "o"))))]

MCVolume ==
  { Sound,
    [Sound EXCEPT !.unreadable = {2, 11}], [Sound EXCEPT !.unreadable = {21}],
    [Sound EXCEPT !.nodes[21].ok = FALSE], [Sound EXCEPT !.inodes[6].unreadable = TRUE],
    [Sound EXCEPT !.dirs[11][2].rec = 3], [Sound EXCEPT !.super = "other"],
    [Sound EXCEPT !.inodes[2] = Node("file", 4, Leaf(<<Extent(0, 1, 1)>>))] }

MCExtPath == {<<>>, <<"a">>, <<"b">>, <<"x">>, <<"d">>, <<"a", "a">>, <<"d", "l">>, <<"d", "o">>}

VARIABLE device

MCInit ==
  /\ device \in {"clock", "keyboard", "console", "disk", "ext4"}
  /\ TimerInit /\ KbdInit /\ ConsoleInit /\ DiskInit /\ Ext4Init
  /\ device # "ext4" => volume = Sound

MCNext ==
  /\ UNCHANGED device
  /\ \/ device = "clock" /\ TimerNext /\ UNCHANGED <<kbdVars, consoleVars, diskVars, extVars>>
     \/ device = "keyboard" /\ KbdNext /\ UNCHANGED <<timerVars, consoleVars, diskVars, extVars>>
     \/ device = "console" /\ ConsoleNext /\ UNCHANGED <<timerVars, kbdVars, diskVars, extVars>>
     \/ device = "disk" /\ DiskNext /\ UNCHANGED <<timerVars, kbdVars, consoleVars, extVars>>
     \/ device = "ext4" /\ Ext4Next /\ UNCHANGED <<timerVars, kbdVars, consoleVars, diskVars>>

MCSpec == MCInit /\ [][MCNext]_<<device, timerVars, kbdVars, consoleVars, diskVars, extVars>>

=============================================================================
