---------------------------- MODULE MCAdminRoutes ----------------------------
(***************************************************************************)
(* Small instances of AdminRoutes for TLC.                                 *)
(***************************************************************************)
EXTENDS AdminRoutes, TLC

CONSTANTS t1, t2, r1, r2, q1, q2

OneTask == {t1}
OneRobot == {r1}
TwoRobots == {r1, r2}
OneRequest == {q1}
TwoRequests == {q1, q2}
AllFaults == {"crash", "store", "retryable"}
NoFaults == {}

Symmetry == Permutations(Tasks) \cup Permutations(Robots) \cup Permutations(Requests)
=============================================================================
