---------------------------- MODULE MCLegacyQueue ----------------------------
(***************************************************************************)
(* Small instances of LegacyQueue for TLC.                                 *)
(***************************************************************************)
EXTENDS LegacyQueue, TLC

CONSTANTS t1, t2, t3

TwoTasks == {t1, t2}
ThreeTasks == {t1, t2, t3}

\* Task ids are interchangeable.
Symmetry == Permutations(Tasks)
=============================================================================
