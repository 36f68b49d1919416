----------------------------- MODULE MCBindings -----------------------------
(***************************************************************************)
(* Small instances of BindRunner and UnattendedWrite for TLC.  They are two *)
(* ways to the same end, in different processes and without shared state:   *)
(* one of them is at work and the other stays in an initial state.          *)
(***************************************************************************)
EXTENDS BindRunner, UnattendedWrite, TLC

CONSTANTS t1, t2, r1, r2, c1, c2, w1, w2

VARIABLE
    path   \* the one at work: "platform" or "unattended"

vars == <<path, workerVars, writeVars>>

TwoTasks == {t1, t2}
TwoRobots == {r1, r2}
WorkerErrors == {"crash", "retryable"}

TwoBindings == {c1, c2}
TwoWorkers == {w1, w2}
WriteErrors == {"crash", "disk"}

\* A corp that is new to JDY and to WeCom, one whose app is configured with a
\* secret that JDY does not have, and one for which JDY holds another.  A corp
\* that only JDY knows, and one whose secrets agree, are what a first run on the
\* new one leaves.
NewAndConfigured ==
    {[jdy |-> 0, wecom |-> 0], [jdy |-> 0, wecom |-> 2], [jdy |-> 1, wecom |-> 2]}

\* The bindings of UnattendedWrite are interchangeable, and its workers.
Symmetry == Permutations(WriteTasks) \cup Permutations(Workers)

Init ==
    /\ path \in {"platform", "unattended"}
    /\ RunnerInit
    /\ WriteInit
    /\ path = "platform" => \A t \in WriteTasks : wecomSecret[t] = 0

Next ==
    \/ path = "platform" /\ WorkerNext /\ UNCHANGED <<path, writeVars>>
    \/ path = "unattended" /\ WriteNext /\ UNCHANGED <<path, workerVars>>

Spec == Init /\ [][Next]_vars
=============================================================================
