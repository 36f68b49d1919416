---------------------------- MODULE MCDeployments ----------------------------
(***************************************************************************)
(* Small instances of LoginRecovery and HybridRunner for TLC.  The two run *)
(* in different processes and share no state, so one of them is at work    *)
(* and the other stays in its initial state: the states TLC explores are   *)
(* the sum of both, not the product.                                       *)
(***************************************************************************)
EXTENDS LoginRecovery, MCHybridRunner, TLC

VARIABLE
    deployment   \* the one at work: "login" or "platform"

vars == <<deployment, recoveryVars, hybridVars>>

\* JDY and WeCom chained; WeCom only, with and without notifications; a worker
\* whose recovery is switched off.
FourSetups ==
    {[mode |-> "unattended", enabled |-> TRUE, notify |-> TRUE],
     [mode |-> "readonly", enabled |-> TRUE, notify |-> TRUE],
     [mode |-> "readonly", enabled |-> TRUE, notify |-> FALSE],
     [mode |-> "unattended", enabled |-> FALSE, notify |-> TRUE]}

Init ==
    /\ deployment \in {"login", "platform"}
    /\ RecoveryInit
    /\ HybridInit
    /\ deployment = "platform" =>
          /\ setup = [mode |-> "unattended", enabled |-> TRUE, notify |-> TRUE]
          /\ \A s \in Sides : cookie[s] = "none" /\ export[s] = "absent"

Next ==
    \/ deployment = "login" /\ RecoveryNext /\ UNCHANGED <<deployment, hybridVars>>
    \/ deployment = "platform" /\ HybridNext /\ UNCHANGED <<deployment, recoveryVars>>

Spec == Init /\ [][Next]_vars /\ RecoveryFairness

\* The type invariant of the modules of this run.
TypeOK == RecoveryTypeOK /\ HybridTypeOK
=============================================================================
