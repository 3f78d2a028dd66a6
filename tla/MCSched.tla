------------------------------ MODULE MCSched ------------------------------
(* Small instances of the scheduler for TLC.                               *)
EXTENDS Sched

\* Tasks are interchangeable as long as all or none of them are pinned.
TaskSymmetry == Permutations(Task)

=============================================================================
