---------------------------- MODULE HybridRunner ----------------------------
(***************************************************************************)
(* Workers that run TaskScheduler.run_once with a HybridFlowRunner, which   *)
(* walks through the steps of the task's snapshot, or with the FakeRunner   *)
(* that only checks the logins; next to the routes that edit the flows.    *)
(* Every store call that others can see and every call to JDY or WeCom is  *)
(* a step; rows nobody reads back (task_steps, current_step_key) are left  *)
(* out.  An exception escapes run_once: nothing is written for it.         *)
(***************************************************************************)
EXTENDS FlowCatalog, Sequences

CONSTANTS
    FakeRobots,   \* the robots whose worker runs a FakeRunner
    NoTask        \* a worker that has no task in hand

\* The steps left to a later claim.
LaterActions == {"wecom_wait_review", "wecom_submit_online"}

\* The actions the runner knows, and one it does not.  A step that is not
\* enabled is not there.
Actions ==
    {"jdy_resolve_corp", "derive_wecom_urls", "wecom_configure_app", "jdy_check_owner",
     "jdy_install_bind", "wecom_submit_review", "other"} \cup LaterActions

ASSUME HybridAssumption ==
    /\ FakeRobots \subseteq Robots
    /\ NoTask \notin Tasks
    /\ Scripts \subseteq Seq(Actions)

VARIABLES
    at,         \* where run_claimed_task is, per worker (one per robot row)
    job,        \* its task_id
    next,       \* the step it has come to
    context,    \* per task: what runtime_context_json holds
    reviews     \* per task: reviews submitted at WeCom (external)

call == <<at, job, next>>
effects == <<context, reviews>>
hybridVars == <<platformVars, call, effects>>

\* The last status each way out of a call writes, and the next_check_at.
StatusAfter ==
    [login |-> "waiting_login", manual |-> "waiting_manual_intervention",
     review |-> "waiting_wecom_review", ended |-> "success",
     approved |-> "ready_to_online", online |-> "success"]

CheckAfter(l) == IF l = "review" THEN "later" ELSE "none"

\* Up to that write the call has the task.
Working == {"claimed", "started", "step", "stub", "pause"} \cup DOMAIN StatusAfter

HybridInit ==
    /\ StoreInit
    /\ CatalogInit
    /\ at = [r \in Robots |-> "idle"]
    /\ job = [r \in Robots |-> NoTask]
    /\ next = [r \in Robots |-> 1]
    /\ context = [t \in Tasks |-> {}]
    /\ reviews = [t \in Tasks |-> 0]

HybridTypeOK ==
    /\ StoreTypeOK
    /\ CatalogTypeOK
    /\ at \in [Robots -> Working \cup {"idle", "free"}]
    /\ job \in [Robots -> Tasks \cup {NoTask}]
    /\ \A r \in Robots : job[r] = NoTask <=> at[r] = "idle"
    /\ next \in [Robots -> Nat \ {0}]
    /\ context \in [Tasks -> SUBSET {"corp", "token"}]
    /\ reviews \in [Tasks -> Nat]

Move(r, l) == at' = [at EXCEPT ![r] = l] /\ UNCHANGED <<job, next>>
Steps(r) == script[snapshot[job[r]]]
Doing(r, a) == at[r] = "step" /\ next[r] <= Len(Steps(r)) /\ Steps(r)[next[r]] = a
Proceed(r) == next' = [next EXCEPT ![r] = @ + 1]
-----------------------------------------------------------------------------
EditFlows ==
    /\ CatalogStep
    /\ UNCHANGED <<call, effects>>

ReviewComesDue(t) ==
    /\ CheckComesDue(t)
    /\ UNCHANGED <<catalogVars, call, effects>>

ClaimTask(r, t) ==
    /\ at[r] = "idle"
    /\ ClaimNext(r, t)
    /\ at' = [at EXCEPT ![r] = "claimed"]
    /\ job' = [job EXCEPT ![r] = t]
    /\ next' = [next EXCEPT ![r] = 1]
    /\ UNCHANGED <<catalogVars, effects>>

\* The status the runner reads decides what the call does: a task under review
\* is checked, one that may go online is put online, any other starts from its
\* first step.
ReadStatus(r) ==
    /\ at[r] = "claimed" /\ r \notin FakeRobots
    /\ CASE status[job[r]] = "waiting_wecom_review" -> \E l \in {"approved", "review"} : Move(r, l)
         [] status[job[r]] = "ready_to_online" -> Move(r, "online")
         [] OTHER -> Move(r, "started")
    /\ UNCHANGED <<platformVars, effects>>

StartSteps(r) ==
    /\ at[r] = "started"
    /\ SetTaskStatus(job[r], "running", "none", r)
    /\ Move(r, "step")
    /\ UNCHANGED <<catalogVars, effects>>

\* resolve_unique_corp answers; the corp goes into the context.
ResolveCorp(r) ==
    /\ Doing(r, "jdy_resolve_corp")
    /\ context' = [context EXCEPT ![job[r]] = @ \cup {"corp"}]
    /\ Proceed(r)
    /\ UNCHANGED <<platformVars, at, job, reviews>>

\* What a step of the flow looks up in the context.
Needs ==
    [a \in Actions |->
        IF a \in {"derive_wecom_urls", "jdy_check_owner"} THEN {"corp"}
        ELSE IF a = "jdy_install_bind" THEN {"corp", "token"}
        ELSE {}]

\* Steps that only ask or write elsewhere: derive_wecom_urls, check_wework_owner
\* saying that the user can bind, install_corp_deploy, and the steps that are
\* left to a later claim.
PassStep(r) ==
    /\ \E a \in {"derive_wecom_urls", "jdy_check_owner", "jdy_install_bind"} \cup LaterActions :
          Doing(r, a) /\ Needs[a] \subseteq context[job[r]]
    /\ Proceed(r)
    /\ UNCHANGED <<platformVars, at, job, effects>>

\* The browser configures the app, or finds no login, or needs a person.
ConfigureApp(r) ==
    /\ Doing(r, "wecom_configure_app")
    /\ context' = [context EXCEPT ![job[r]] = @ \cup {"token"}]
    /\ Proceed(r)
    /\ UNCHANGED <<platformVars, at, job, reviews>>

BrowserPauses(r) ==
    /\ Doing(r, "wecom_configure_app")
    /\ Move(r, "pause")
    /\ UNCHANGED <<platformVars, effects>>

\* Submitting is the last step of a claim.  The answer is not looked at: the
\* browser may have found no login and submitted nothing.
SubmitReview(r) ==
    /\ Doing(r, "wecom_submit_review")
    /\ \E submitted \in {0, 1} : reviews' = [reviews EXCEPT ![job[r]] = @ + submitted]
    /\ Move(r, "review")
    /\ UNCHANGED <<platformVars, context>>

\* A flow without a review is finished with its last step.
StepsEnd(r) ==
    /\ at[r] = "step"
    /\ next[r] > Len(Steps(r))
    /\ Move(r, "ended")
    /\ UNCHANGED <<platformVars, effects>>

\* A call to JDY or WeCom fails (a review may have been submitted by then), the
\* owner cannot bind, an earlier step's output is missing, the action is
\* unknown: the task keeps its status and the robot's row stays 'busy'.
StepRaises(r) ==
    /\ at[r] = "step"
    /\ next[r] <= Len(Steps(r))
    /\ \/ UNCHANGED reviews
       \/ Doing(r, "wecom_submit_review") /\ reviews' = [reviews EXCEPT ![job[r]] = @ + 1]
    /\ at' = [at EXCEPT ![r] = "idle"]
    /\ job' = [job EXCEPT ![r] = NoTask]
    /\ UNCHANGED <<platformVars, next, context>>

\* _pause_for_manual_action: the row for the administrator first.
InsertPause(r) ==
    /\ at[r] = "pause"
    /\ InsertAction(job[r])
    /\ \E l \in {"login", "manual"} : Move(r, l)
    /\ UNCHANGED <<catalogVars, effects>>

\* The status the call leaves the task with.
LeaveTask(r) ==
    /\ at[r] \in DOMAIN StatusAfter
    /\ SetTaskStatus(job[r], StatusAfter[at[r]], CheckAfter(at[r]), NoRobot)
    /\ Move(r, "free")
    /\ UNCHANGED <<catalogVars, effects>>

\* update_robot_status, the last call.
FreeRobot(r) ==
    /\ at[r] = "free"
    /\ SetRobot(r, "idle")
    /\ at' = [at EXCEPT ![r] = "idle"]
    /\ job' = [job EXCEPT ![r] = NoTask]
    /\ UNCHANGED <<catalogVars, next, effects>>

\* FakeRunner with a LoginHealthChecker: the task waits for a login, or is set
\* to running, twice, and left so.
ProbeLogins(r) ==
    /\ at[r] = "claimed" /\ r \in FakeRobots
    /\ \/ SetTaskStatus(job[r], "waiting_login", "none", NoRobot) /\ Move(r, "free")
       \/ SetTaskStatus(job[r], "running", "none", r) /\ Move(r, "stub")
    /\ UNCHANGED <<catalogVars, effects>>

RunStub(r) ==
    /\ at[r] = "stub"
    /\ SetTaskStatus(job[r], "running", "none", r)
    /\ Move(r, "free")
    /\ UNCHANGED <<catalogVars, effects>>

WorkStep(r) ==
    \/ ReadStatus(r)
    \/ StartSteps(r)
    \/ ResolveCorp(r)
    \/ PassStep(r)
    \/ ConfigureApp(r)
    \/ BrowserPauses(r)
    \/ SubmitReview(r)
    \/ StepsEnd(r)
    \/ StepRaises(r)
    \/ InsertPause(r)
    \/ LeaveTask(r)
    \/ FreeRobot(r)
    \/ ProbeLogins(r)
    \/ RunStub(r)

HybridNext ==
    \/ EditFlows
    \/ \E t \in Tasks : ReviewComesDue(t)
    \/ \E r \in Robots : WorkStep(r) \/ \E t \in Tasks : ClaimTask(r, t)

HybridSpec == HybridInit /\ [][HybridNext]_hybridVars
-----------------------------------------------------------------------------
\* A task is in the hands of one robot at most, whose row says 'busy' and whose
\* task is neither parked nor finished.
OneRobotPerTask ==
    /\ \A r1, r2 \in Robots :
          at[r1] \in Working /\ at[r2] \in Working /\ job[r1] = job[r2] => r1 = r2
    /\ \A r \in Robots :
          /\ at[r] # "idle" => robotRow[r] = "busy"
          /\ at[r] \in Working => status[job[r]] \in {"checking_login", "running"}

\* What the design says of a task under review: when its check comes due a robot
\* reads the review, and parks the task again or puts it online.  It does not
\* submit the task a second time.
SubmittedOnce == \A t \in Tasks : reviews[t] <= 1
=============================================================================
