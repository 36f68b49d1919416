------------------------------ MODULE MCWorkers ------------------------------
(***************************************************************************)
(* Small instances of BindRunner and C360Runtime for TLC: the two worker    *)
(* loops of the platform under fairness.  They run in different processes   *)
(* and share no state: one of them is at work and the other stays in its    *)
(* initial state.                                                          *)
(***************************************************************************)
EXTENDS BindRunner, C360Runtime

CONSTANTS t1, t2, r1, r2

VARIABLE
    loop   \* the one at work: "scheduler" or "runtime"

allVars == <<loop, workerVars, vars>>

TwoTasks == {t1, t2}
TwoRobots == {r1, r2}
StoreErrors == {"store"}

\* The kind whose handler ends in every way but one, among them an exception,
\* and a kind whose handler ends with a bare result.
ServedKinds == {"diagnostics", "unattended"}

LoopsInit ==
    /\ loop \in {"scheduler", "runtime"}
    /\ RunnerInit
    /\ Init

SchedulerStep == loop = "scheduler" /\ WorkerNext /\ UNCHANGED <<loop, vars>>
RuntimeStep == loop = "runtime" /\ Next /\ UNCHANGED <<loop, workerVars>>

\* The fairness of WorkerFairness and of FairSpec, each owed by the loop that is
\* at work.
Scheduled(A) == loop = "scheduler" /\ A

FairLoops ==
    /\ LoopsInit
    /\ [][SchedulerStep \/ RuntimeStep]_allVars
    /\ \A r \in Robots :
          WF_workerVars(Scheduled(Claim(r))) /\ WF_workerVars(Scheduled(RunStep(r)))
    /\ \A t \in Tasks : WF_workerVars(Scheduled(TimePasses(t)))
    /\ WF_vars(loop = "runtime" /\ WorkerStep)
=============================================================================
