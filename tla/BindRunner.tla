----------------------------- MODULE BindRunner -----------------------------
(***************************************************************************)
(* Workers running TaskScheduler.run_once with a WecomBindServiceRunner:   *)
(* claim a task, then either start the bind (which creates an online order *)
(* at WeCom and parks the task for five minutes) or, for a task parked     *)
(* earlier, submit the recorded order.  Every store call and every call to *)
(* the back offices is a step of its own, so other workers, the clock, a   *)
(* crash of the worker process or an exception can come between any two.   *)
(*                                                                         *)
(* Writes nobody reads back (task_steps rows, current_step_key, the        *)
(* auditorder_status in the context) are left out.                         *)
(***************************************************************************)
EXTENDS PlatformStore

CONSTANTS
    NoTask,   \* a worker that has no task in hand
    Faults    \* which of "crash", "store", "retryable" may happen

ASSUME RunnerAssumption ==
    /\ NoTask \notin Tasks
    /\ Faults \subseteq {"crash", "store", "retryable"}

VARIABLES
    pc,        \* where run_claimed_task is, per worker (one per robot row)
    job,       \* the task_id argument of the running call
    made,      \* online orders created at WeCom for the task (external)
    submits,   \* calls of order/set for the task (external)
    accepted   \* the last order WeCom accepted an order/set for, 0 if none (external)

external == <<made, submits, accepted>>
runnerVars == <<pc, job, external>>
workerVars == <<storeVars, runnerVars>>

\* The body of run_claimed_task up to the last thing it does for its task.
Serving == {"claimed", "start", "calling", "merging", "park", "submit", "finish", "defer"}

RunnerInit ==
    /\ StoreInit
    /\ pc = [r \in Robots |-> "idle"]
    /\ job = [r \in Robots |-> NoTask]
    /\ made = [t \in Tasks |-> 0]
    /\ submits = [t \in Tasks |-> 0]
    /\ accepted = [t \in Tasks |-> 0]

RunnerTypeOK ==
    /\ StoreTypeOK
    /\ pc \in [Robots -> Serving \cup {"idle", "close", "failing", "release"}]
    /\ job \in [Robots -> Tasks \cup {NoTask}]
    /\ \A r \in Robots : job[r] = NoTask <=> pc[r] = "idle"
    /\ made \in [Tasks -> Nat]
    /\ submits \in [Tasks -> Nat]
    /\ accepted \in [Tasks -> Nat]

Goto(r, l) == pc' = [pc EXCEPT ![r] = l] /\ UNCHANGED job
-----------------------------------------------------------------------------
\* A webhook request for a key that has no task yet.
ReceiveWebhook(t) ==
    /\ CreateTask(t)
    /\ UNCHANGED runnerVars

TimePasses(t) ==
    /\ CheckComesDue(t)
    /\ UNCHANGED runnerVars

\* run_once: claim a task and enter the runner.
Claim(r) ==
    \E t \in Tasks :
        /\ pc[r] = "idle"
        /\ ClaimNext(r, t)
        /\ pc' = [pc EXCEPT ![r] = "claimed"]
        /\ job' = [job EXCEPT ![r] = t]
        /\ UNCHANGED external

\* Mutant of IsClaimedOnlineDelay: the claim's own status is forgotten.
IsOnlineDelay(t) == status[t] = "waiting_wecom_online_delay"

\* The test that sends a claimed task to the submit path.
IsClaimedOnlineDelay(t) ==
    \/ status[t] = "waiting_wecom_online_delay"
    \/ status[t] = "checking_login" /\ orderId[t] # 0

ChoosePath(r) ==
    /\ pc[r] = "claimed"
    /\ Goto(r, IF IsClaimedOnlineDelay(job[r]) THEN "submit" ELSE "start")
    /\ UNCHANGED <<storeVars, external>>

StartRunning(r) ==
    /\ pc[r] = "start"
    /\ SetTaskStatus(job[r], "running", "none", r)
    /\ Goto(r, "calling")
    /\ UNCHANGED external

\* start_bind returned: its last call created an online order.
BindReturns(r) ==
    /\ pc[r] = "calling"
    /\ made' = [made EXCEPT ![job[r]] = @ + 1]
    /\ Goto(r, "merging")
    /\ UNCHANGED <<storeVars, submits, accepted>>

\* start_bind raised, before the order was created or after (the answer to
\* order/add was lost or could not be parsed).
BindRaises(r) ==
    /\ pc[r] = "calling"
    /\ \/ UNCHANGED made
       \/ made' = [made EXCEPT ![job[r]] = @ + 1]
    /\ Goto(r, "failing")
    /\ UNCHANGED <<storeVars, submits, accepted>>

RecordOrder(r) ==
    /\ pc[r] = "merging"
    /\ MergeOrder(job[r], made[job[r]])
    /\ Goto(r, "park")
    /\ UNCHANGED external

\* Mutant of ParkTask: the order is submitted under the claim that created it.
ParkAndSubmit(r) ==
    /\ pc[r] = "park"
    /\ SetTaskStatus(job[r], "waiting_wecom_online_delay", "later", NoRobot)
    /\ Goto(r, "submit")
    /\ UNCHANGED external

\* Mutant of ParkTask: next_check_at is left out of the call, hence NULL.
ParkWithoutCheck(r) ==
    /\ pc[r] = "park"
    /\ SetTaskStatus(job[r], "waiting_wecom_online_delay", "none", NoRobot)
    /\ Goto(r, "release")
    /\ UNCHANGED external

ParkTask(r) ==
    /\ pc[r] = "park"
    /\ SetTaskStatus(job[r], "waiting_wecom_online_delay", "later", NoRobot)
    /\ Goto(r, "release")
    /\ UNCHANGED external

\* order/set answered without an error.
SubmitAccepted(r) ==
    /\ pc[r] = "submit"
    /\ submits' = [submits EXCEPT ![job[r]] = @ + 1]
    /\ accepted' = [accepted EXCEPT ![job[r]] = orderId[job[r]]]
    /\ Goto(r, "finish")
    /\ UNCHANGED <<storeVars, made>>

\* Mutant of SubmitDeferred: the refusal is taken for an acceptance.
SubmitRefusalIgnored(r) ==
    /\ "retryable" \in Faults
    /\ pc[r] = "submit"
    /\ submits' = [submits EXCEPT ![job[r]] = @ + 1]
    /\ Goto(r, "finish")
    /\ UNCHANGED <<storeVars, made, accepted>>

\* order/set raised RetryableWecomOrderError: not allowed online yet.
SubmitDeferred(r) ==
    /\ "retryable" \in Faults
    /\ pc[r] = "submit"
    /\ submits' = [submits EXCEPT ![job[r]] = @ + 1]
    /\ Goto(r, "defer")
    /\ UNCHANGED <<storeVars, made, accepted>>

\* order/set raised anything else.
SubmitRaises(r) ==
    /\ pc[r] = "submit"
    /\ submits' = [submits EXCEPT ![job[r]] = @ + 1]
    /\ Goto(r, "failing")
    /\ UNCHANGED <<storeVars, made, accepted>>

FinishTask(r) ==
    /\ pc[r] = "finish"
    /\ SetTaskStatus(job[r], "success", "none", NoRobot)
    /\ Goto(r, "close")
    /\ UNCHANGED external

DeferTask(r) ==
    /\ pc[r] = "defer"
    /\ SetTaskStatus(job[r], "waiting_wecom_online_delay", "later", NoRobot)
    /\ Goto(r, "close")
    /\ UNCHANGED external

\* The whole submit path runs inside one try block, up to and including the
\* call that releases the robot: a store error anywhere in it (the database
\* locked for 30 seconds, the disk full) is handled as a failed submission.
SubmitPathRaises(r) ==
    /\ "store" \in Faults
    /\ pc[r] \in {"submit", "finish", "defer", "close"}
    /\ Goto(r, "failing")
    /\ UNCHANGED <<storeVars, external>>

\* Mutant of FailTask: the failure path forgets the robot.
FailTaskKeepsRobot(r) ==
    /\ pc[r] = "failing"
    /\ SetTaskStatus(job[r], "failed", "none", NoRobot)
    /\ pc' = [pc EXCEPT ![r] = "idle"]
    /\ job' = [job EXCEPT ![r] = NoTask]
    /\ UNCHANGED external

\* _record_failure: the status; the exception is raised again afterwards.
FailTask(r) ==
    /\ pc[r] = "failing"
    /\ SetTaskStatus(job[r], "failed", "none", NoRobot)
    /\ Goto(r, "release")
    /\ UNCHANGED external

\* Mutant of ReleaseRobot: the task stays in hand.
ReleaseKeepsJob(r) ==
    /\ pc[r] \in {"close", "release"}
    /\ SetRobot(r, "idle")
    /\ Goto(r, "idle")
    /\ UNCHANGED external

\* The last store call of each path: the robot is free for the next claim.
ReleaseRobot(r) ==
    /\ pc[r] \in {"close", "release"}
    /\ SetRobot(r, "idle")
    /\ pc' = [pc EXCEPT ![r] = "idle"]
    /\ job' = [job EXCEPT ![r] = NoTask]
    /\ UNCHANGED external

\* The worker process dies, or a store error escapes run_claimed_task outside
\* its try blocks.  The rows keep what the call had written; the worker that
\* runs under this robot afterwards is refused every claim while its row says
\* 'busy'.
Abandon(r) ==
    /\ "crash" \in Faults
    /\ pc[r] # "idle"
    /\ pc' = [pc EXCEPT ![r] = "idle"]
    /\ job' = [job EXCEPT ![r] = NoTask]
    /\ UNCHANGED <<storeVars, external>>
-----------------------------------------------------------------------------
\* One step of run_claimed_task.
RunStep(r) ==
    \/ ChoosePath(r)
    \/ StartRunning(r)
    \/ BindReturns(r)
    \/ BindRaises(r)
    \/ RecordOrder(r)
    \/ ParkTask(r)
    \/ SubmitAccepted(r)
    \/ SubmitDeferred(r)
    \/ SubmitRaises(r)
    \/ FinishTask(r)
    \/ DeferTask(r)
    \/ SubmitPathRaises(r)
    \/ FailTask(r)
    \/ ReleaseRobot(r)

WorkerNext ==
    \/ \E t \in Tasks : ReceiveWebhook(t) \/ TimePasses(t)
    \/ \E r \in Robots : Claim(r) \/ RunStep(r) \/ Abandon(r)

WorkerSpec == RunnerInit /\ [][WorkerNext]_workerVars

\* Workers poll for ever and a call that was entered proceeds; the clock runs.
\* Webhooks and faults are not fair.
WorkerFairness ==
    /\ \A r \in Robots : WF_workerVars(Claim(r)) /\ WF_workerVars(RunStep(r))
    /\ \A t \in Tasks : WF_workerVars(TimePasses(t))

FairWorkerSpec == WorkerSpec /\ WorkerFairness
-----------------------------------------------------------------------------
\* No two workers are inside a runner call for one task: the claim and the
\* statuses the runner writes keep a task that is being served out of every
\* other claim.
ServedByOne ==
    \A r1, r2 \in Robots :
        pc[r1] \in Serving /\ pc[r2] \in Serving /\ job[r1] = job[r2] => r1 = r2

\* Re-claiming a parked task, crashing or failing never creates a second
\* online order for it at WeCom.
OneOrder == \A t \in Tasks : made[t] <= 1

\* The status claims success only for a task whose recorded order exists and
\* was accepted by WeCom.
SuccessIsAccepted ==
    \A t \in Tasks :
        status[t] = "success" =>
            orderId[t] \in 1..made[t] /\ accepted[t] = orderId[t]

\* An order is put online no more often than the task was claimed out of its
\* delay: no claim submits twice and none submits an order created under the
\* same claim.
SubmitsFollowDelay == \A t \in Tasks : submits[t] <= attempts[t]

\* Nothing a worker does takes a task out of a terminal status, for which the
\* transition table has no successor: a finished task is never claimed, and no
\* worker is still at work on one that another has finished.
TerminalAbsorbing ==
    [][\A t \in Tasks : status[t] \in TerminalStatus => status'[t] = status[t]]_status

\* Once a robot is claimed for a task it is released again, whatever the back
\* offices answer.
RobotsComeBack == \A r \in Robots : robotRow[r] = "busy" ~> robotRow[r] = "idle"

\* Every requested task is carried to success or to failed.
TasksSettle == \A t \in Tasks : Exists(t) ~> status[t] \in {"success", "failed"}

\* The workers implement the lease on the order: a task is held while a
\* worker is in a call for it, a recorded claim out of the delay makes an
\* ordered task ready, and an accepted order/set puts it online.
Holders(t) == {r \in Robots : job[r] = t /\ pc[r] \in Serving \cup {"failing"}}

OneOf(S) == CHOOSE x \in S : TRUE

HolderOf(t) == IF Holders(t) = {} THEN NoRobot ELSE OneOf(Holders(t))

StageOf(t) ==
    IF accepted[t] # 0 THEN "online"
    ELSE IF made[t] = 0 THEN "none"
    ELSE IF attempts[t] = 0 THEN "ordered"
    ELSE "ready"

Lease == INSTANCE OrderLease WITH
    holder <- [t \in Tasks |-> HolderOf(t)],
    stage <- [t \in Tasks |-> StageOf(t)]

ImplementsLease == Lease!Spec

-----------------------------------------------------------------------------
(***************************************************************************)
(* The inductive invariant behind the safety properties above.             *)
(***************************************************************************)

\* The statuses in which a claim may find a task, now or once it is due.
ClaimStatus ==
    {"pending", "ready_to_online", "jdy_callback_failed",
     "waiting_wecom_review", "waiting_wecom_online_delay"}

\* While a task is served its status keeps it out of every claim, and is not
\* yet the final one.
ServedStatus ==
    \A r \in Robots :
        pc[r] \in Serving => status[job[r]] \notin ClaimStatus \cup {"absent", "success"}

\* Only these members of ClaimStatus occur in the bind flow.
BindStatus ==
    \A t \in Tasks :
        status[t] \notin {"ready_to_online", "jdy_callback_failed", "waiting_wecom_review"}

\* The context names an order that exists, and a task that was never claimed
\* has none.
RecordedOrder ==
    \A t \in Tasks :
        /\ orderId[t] <= made[t]
        /\ status[t] \in {"absent", "pending"} => orderId[t] = 0 /\ made[t] = 0

\* What a worker on the submit path relies on.
SubmitPath ==
    \A r \in Robots :
        /\ pc[r] \in {"submit", "finish", "defer"} => orderId[job[r]] # 0
        /\ pc[r] = "finish" => accepted[job[r]] = orderId[job[r]]
        /\ pc[r] = "claimed" /\ orderId[job[r]] # 0 => submits[job[r]] < attempts[job[r]]
        /\ pc[r] = "submit" => submits[job[r]] < attempts[job[r]]

IInv ==
    /\ RunnerTypeOK
    /\ ServedByOne
    /\ ServedStatus
    /\ BindStatus
    /\ RecordedOrder
    /\ SubmitPath
    /\ SuccessIsAccepted
    /\ SubmitsFollowDelay

\* Without store errors a worker that records a failure still has its task to
\* itself, and how far the order has come can be read off where it is.
HeldByOne ==
    /\ \A r1, r2 \in Robots :
          pc[r1] \in Serving \cup {"failing"} /\ pc[r2] \in Serving \cup {"failing"}
              /\ job[r1] = job[r2] => r1 = r2
    /\ \A r \in Robots :
          pc[r] \in Serving \cup {"failing"} => status[job[r]] \in {"checking_login", "running"}

OrderProgress ==
    /\ \A t \in Tasks : status[t] = "waiting_wecom_online_delay" => orderId[t] = made[t] /\ made[t] = 1
    /\ \A r \in Robots :
          /\ pc[r] = "claimed" => status[job[r]] = "checking_login" /\ orderId[job[r]] = made[job[r]]
          /\ pc[r] \in {"start", "calling"} => made[job[r]] = 0
          /\ pc[r] \in {"merging", "park"} => made[job[r]] = 1
          /\ pc[r] \in {"park", "submit", "finish", "defer"} => orderId[job[r]] = made[job[r]]

OrderInv ==
    /\ HeldByOne
    /\ OrderProgress
    /\ OneOrder
=============================================================================
