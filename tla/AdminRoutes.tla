----------------------------- MODULE AdminRoutes -----------------------------
(***************************************************************************)
(* The platform's server next to its workers: the two routes that let an   *)
(* administrator stop a task with a manual action and continue it.  FastAPI *)
(* runs these handlers in a thread pool, each makes two store calls, and   *)
(* the workers write to the same database in between.                      *)
(***************************************************************************)
EXTENDS BindRunner

CONSTANTS
    Requests,   \* slots for requests being handled at the same time
    NoRequest

ASSUME RoutesAssumption == NoRequest \notin [task : Tasks, to : Status]

VARIABLES
    action,   \* per slot: a manual action inserted, its status not yet set
    resume    \* per slot: a resume that has read the status, not yet written

inFlight == <<action, resume>>
vars == <<workerVars, inFlight>>

Pending == [task : Tasks, to : Status]

Init ==
    /\ RunnerInit
    /\ action = [q \in Requests |-> NoRequest]
    /\ resume = [q \in Requests |-> NoRequest]

TypeOK ==
    /\ RunnerTypeOK
    /\ action \in [Requests -> Pending \cup {NoRequest}]
    /\ resume \in [Requests -> Pending \cup {NoRequest}]

Free(q) == action[q] = NoRequest /\ resume[q] = NoRequest

\* POST manual-actions, first call: the manual_actions row.  A task without a
\* row fails the foreign key and changes nothing.
PostAction(q, t, target) ==
    /\ Free(q)
    /\ Exists(t)
    /\ InsertAction(t)
    /\ action' = [action EXCEPT ![q] = [task |-> t, to |-> target]]
    /\ UNCHANGED <<runnerVars, resume>>

\* Second call: the status, whatever it is by now; the robot and the time of
\* the next check are cleared with it.
ApplyAction(q) ==
    /\ action[q] # NoRequest
    /\ SetTaskStatus(action[q].task, action[q].to, "none", NoRobot)
    /\ action' = [action EXCEPT ![q] = NoRequest]
    /\ UNCHANGED <<runnerVars, resume>>

\* POST resume, first call: read the task and check the transition.  Any other
\* status is answered 409.
ReadResume(q, t) ==
    /\ Free(q)
    /\ Exists(t)
    /\ status[t] \in Resumable
    /\ CanTransition(status[t], ResumeTarget(status[t]))
    /\ resume' = [resume EXCEPT ![q] = [task |-> t, to |-> ResumeTarget(status[t])]]
    /\ UNCHANGED <<workerVars, action>>

\* Second call: write the target computed from that read.
ApplyResume(q) ==
    /\ resume[q] # NoRequest
    /\ WriteResume(resume[q].task, resume[q].to)
    /\ resume' = [resume EXCEPT ![q] = NoRequest]
    /\ UNCHANGED <<runnerVars, action>>

\* The server stops, or the second call fails, between the two calls.
DropRequest(q) ==
    /\ "crash" \in Faults
    /\ ~Free(q)
    /\ action' = [action EXCEPT ![q] = NoRequest]
    /\ resume' = [resume EXCEPT ![q] = NoRequest]
    /\ UNCHANGED workerVars

RouteStep(q) ==
    \/ \E t \in Tasks : ReadResume(q, t) \/ \E s \in ActionTarget : PostAction(q, t, s)
    \/ ApplyAction(q)
    \/ ApplyResume(q)
    \/ DropRequest(q)

Next ==
    \/ WorkerNext /\ UNCHANGED inFlight
    \/ \E q \in Requests : RouteStep(q)

Spec == Init /\ [][Next]_vars

\* The workers and the clock as before; nobody is obliged to call a route, but
\* a handler that made its first call makes its second or is dropped.
Fairness ==
    /\ \A r \in Robots : WF_vars(Claim(r) /\ UNCHANGED inFlight)
    /\ \A r \in Robots : WF_vars(RunStep(r) /\ UNCHANGED inFlight)
    /\ \A t \in Tasks : WF_vars(TimePasses(t) /\ UNCHANGED inFlight)
    /\ \A q \in Requests : WF_vars(ApplyAction(q) \/ ApplyResume(q))

FairSpec == Spec /\ Fairness
-----------------------------------------------------------------------------
\* A task the administrator continues is taken up by a worker again: a status
\* of work in progress with no robot assigned is what resume_task writes.
ResumedTaskRunsAgain ==
    \A t \in Tasks :
        status[t] \in {"checking_login", "running"} /\ assigned[t] = NoRobot
            ~> (\E r \in Robots : job[r] = t) \/ status[t] \in TerminalStatus
=============================================================================
