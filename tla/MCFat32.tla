------------------------------- MODULE MCFat32 -------------------------------
(* Small instances of the FAT32 driver for TLC.                            *)
EXTENDS Fat32, TLC

MCFilePath == {<<"a">>, <<"b", "a">>}
MCDirPath == {<<"b">>}

\* Every name takes a long-name slot, or only one of the two does.
MCLfn == [n \in Name |-> 1]
MCLfnMixed == [n \in Name |-> IF n = "a" THEN 0 ELSE 1]

\* The callers are interchangeable.
MCSymmetry == Permutations(Proc)

=============================================================================
