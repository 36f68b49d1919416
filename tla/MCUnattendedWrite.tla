-------------------------- MODULE MCUnattendedWrite --------------------------
(***************************************************************************)
(* Small instances of UnattendedWrite for TLC.                             *)
(***************************************************************************)
EXTENDS UnattendedWrite

CONSTANTS t1, w1, w2

OneTask == {t1}
TwoWorkers == {w1, w2}
NoFaults == {}

\* A corp that is new to JDY and to WeCom, and one whose app is configured with a
\* secret that JDY does not have.
NewOrForeign == {[jdy |-> 0, wecom |-> 0], [jdy |-> 0, wecom |-> 2]}
=============================================================================
