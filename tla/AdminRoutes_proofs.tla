------------------------- MODULE AdminRoutes_proofs -------------------------
(***************************************************************************)
(* The workers' invariant survives the administrator's routes: what the    *)
(* routes write, late as it may come, never makes a served task claimable. *)
(***************************************************************************)
EXTENDS AdminRoutes, BindRunner_proofs

\* What the handlers in flight are about to write.
InFlightTargets ==
    \A q \in Requests :
        /\ action[q] # NoRequest => action[q].to \in ActionTarget
        /\ resume[q] # NoRequest => resume[q].to \in {"checking_login", "running"}

Inv == TypeOK /\ IInv /\ InFlightTargets

\* At the start no request is in flight.
LEMMA RoutesInit == Init => Inv
<1> SUFFICES ASSUME Init
             PROVE  Inv
  OBVIOUS
<1>1. IInv
  BY InvInit DEF Init
<1> QED
  BY <1>1 DEF Init, Inv, TypeOK, IInv, InFlightTargets

\* A status written by a route leaves the workers' invariant alone as long as
\* it is none of those a claim looks for and not a final one.
LEMMA StatusWrite ==
    ASSUME IInv, NEW t \in Tasks, NEW s \in ActionTarget \cup {"checking_login", "running"},
           status' = [status EXCEPT ![t] = s],
           UNCHANGED <<attempts, born, orderId, robotRow, runnerVars>>,
           check' \in [Tasks -> {"none", "later", "due"}],
           assigned' \in [Tasks -> Robots \cup {NoRobot}],
           openActions' \in [Tasks -> BOOLEAN]
    PROVE  IInv'
<1> USE DEF runnerVars, external, ActionTarget
<1>1. RunnerTypeOK'
  BY DEF IInv, RunnerTypeOK, StoreTypeOK, Status
<1>2. ServedByOne' /\ SubmitPath' /\ SubmitsFollowDelay'
  BY DEF IInv, ServedByOne, SubmitPath, SubmitsFollowDelay
<1>3. ServedStatus' /\ BindStatus' /\ RecordedOrder' /\ SuccessIsAccepted'
  BY
     DEF IInv, RunnerTypeOK, StoreTypeOK, ServedStatus, BindStatus, RecordedOrder,
         SuccessIsAccepted,
         ClaimStatus
<1> QED
  BY <1>1, <1>2, <1>3 DEF IInv

\* A step of a route keeps what the workers rely on: the statuses it reads are
\* not claimed, and those it writes are none a claim looks for.
LEMMA RoutesStep == Inv /\ [Next]_vars => Inv'
<1> SUFFICES ASSUME Inv, [Next]_vars
             PROVE  Inv'
  OBVIOUS
<1>1. CASE WorkerNext /\ UNCHANGED inFlight
  <2>1. IInv'
    BY <1>1, InvStep DEF Inv
  <2> QED
    BY <1>1, <2>1 DEF Inv, TypeOK, IInv, InFlightTargets, inFlight
<1>2. ASSUME NEW q \in Requests, NEW t \in Tasks, NEW s \in ActionTarget, PostAction(q, t, s)
      PROVE  Inv'
  <2>1. /\ UNCHANGED <<taskRow, orderId, robotRow, runnerVars, resume>>
        /\ openActions' \in [Tasks -> BOOLEAN]
        /\ action' = [action EXCEPT ![q] = [task |-> t, to |-> s]]
    BY <1>2 DEF PostAction, InsertAction, Inv, IInv, RunnerTypeOK, StoreTypeOK
  <2>2. IInv'
    BY <2>1 DEF Inv, IInv, RunnerTypeOK, StoreTypeOK, taskRow, runnerVars, external, ServedByOne,
                ServedStatus, BindStatus, RecordedOrder, SubmitPath, SuccessIsAccepted,
                SubmitsFollowDelay
  <2>3. TypeOK' /\ InFlightTargets'
    BY <2>1, <2>2 DEF Inv, TypeOK, IInv, InFlightTargets, Pending, ActionTarget, Status
  <2> QED
    BY <2>2, <2>3 DEF Inv
<1>3. ASSUME NEW q \in Requests, ApplyAction(q)
      PROVE  Inv'
  <2> DEFINE t == action[q].task
             s == action[q].to
  <2>1. t \in Tasks /\ s \in ActionTarget
    BY <1>3 DEF ApplyAction, Inv, TypeOK, InFlightTargets, Pending
  <2>2. /\ status' = [status EXCEPT ![t] = s]
        /\ check' = [check EXCEPT ![t] = "none"]
        /\ assigned' = [assigned EXCEPT ![t] = NoRobot]
        /\ UNCHANGED <<attempts, born, orderId, openActions, robotRow, runnerVars>>
    BY <1>3 DEF ApplyAction, SetTaskStatus
  <2>3. IInv'
    <3>1. /\ check' \in [Tasks -> {"none", "later", "due"}]
          /\ assigned' \in [Tasks -> Robots \cup {NoRobot}]
          /\ openActions' \in [Tasks -> BOOLEAN]
      BY <2>1, <2>2 DEF Inv, IInv, RunnerTypeOK, StoreTypeOK
    <3> QED
      BY <2>1, <2>2, <3>1, StatusWrite DEF Inv
  <2>4. TypeOK' /\ InFlightTargets'
    BY <1>3, <2>3 DEF ApplyAction, Inv, TypeOK, IInv, InFlightTargets
  <2> QED
    BY <2>3, <2>4 DEF Inv
<1>4. ASSUME NEW q \in Requests, NEW t \in Tasks, ReadResume(q, t)
      PROVE  Inv'
  <2>1. IInv'
    BY <1>4 DEF ReadResume, workerVars, storeVars, taskRow, runnerVars, external, Inv, IInv,
                RunnerTypeOK, StoreTypeOK, ServedByOne, ServedStatus, BindStatus, RecordedOrder,
                SubmitPath, SuccessIsAccepted, SubmitsFollowDelay
  <2>2. resume' = [resume EXCEPT ![q] = [task |-> t, to |-> ResumeTarget(status[t])]]
        /\ action' = action
    BY <1>4 DEF ReadResume
  <2>3. ResumeTarget(status[t]) \in {"checking_login", "running"}
    BY DEF ResumeTarget
  <2>4. TypeOK' /\ InFlightTargets'
    BY <2>1, <2>2, <2>3 DEF Inv, TypeOK, IInv, InFlightTargets, Pending, Status
  <2> QED
    BY <2>1, <2>4 DEF Inv
<1>5. ASSUME NEW q \in Requests, ApplyResume(q)
      PROVE  Inv'
  <2> DEFINE t == resume[q].task
             s == resume[q].to
  <2>1. t \in Tasks /\ s \in {"checking_login", "running"}
    BY <1>5 DEF ApplyResume, Inv, TypeOK, InFlightTargets, Pending
  <2>2. /\ status' = [status EXCEPT ![t] = s]
        /\ assigned' = [assigned EXCEPT ![t] = NoRobot]
        /\ openActions' = [openActions EXCEPT ![t] = FALSE]
        /\ UNCHANGED <<check, attempts, born, orderId, robotRow, runnerVars>>
    BY <1>5 DEF ApplyResume, WriteResume
  <2>3. IInv'
    <3>1. /\ check' \in [Tasks -> {"none", "later", "due"}]
          /\ assigned' \in [Tasks -> Robots \cup {NoRobot}]
          /\ openActions' \in [Tasks -> BOOLEAN]
      BY <2>1, <2>2 DEF Inv, IInv, RunnerTypeOK, StoreTypeOK
    <3> QED
      BY <2>1, <2>2, <3>1, StatusWrite DEF Inv
  <2>4. TypeOK' /\ InFlightTargets'
    BY <1>5, <2>3 DEF ApplyResume, Inv, TypeOK, IInv, InFlightTargets
  <2> QED
    BY <2>3, <2>4 DEF Inv
<1>6. ASSUME NEW q \in Requests, DropRequest(q)
      PROVE  Inv'
  <2>1. IInv'
    BY <1>6 DEF DropRequest, workerVars, storeVars, taskRow, runnerVars, external, Inv, IInv,
                RunnerTypeOK, StoreTypeOK, ServedByOne, ServedStatus, BindStatus, RecordedOrder,
                SubmitPath, SuccessIsAccepted, SubmitsFollowDelay
  <2> QED
    BY <1>6, <2>1 DEF DropRequest, Inv, TypeOK, IInv, InFlightTargets
<1>7. CASE UNCHANGED vars
  <2>1. UNCHANGED workerVars /\ UNCHANGED inFlight
    BY <1>7 DEF vars
  <2>2. IInv'
    BY <2>1, InvStep DEF Inv
  <2> QED
    BY <2>1, <2>2 DEF Inv, TypeOK, IInv, InFlightTargets, inFlight
<1> QED
  BY <1>1, <1>2, <1>3, <1>4, <1>5, <1>6, <1>7 DEF Next, RouteStep

\* The invariant holds with administrators at work.
LEMMA RoutesInvariant == Spec => []Inv
BY RoutesInit, RoutesStep, PTL DEF Spec

\* Whatever administrators post and continue meanwhile, a task is never served
\* by two workers.
THEOREM RoutesServedByOne == Spec => []ServedByOne
BY RoutesInvariant, PTL DEF Inv, IInv

\* No late write of a route forges a success: the status still stands for an
\* accepted order.
THEOREM RoutesSuccess == Spec => []SuccessIsAccepted
BY RoutesInvariant, PTL DEF Inv, IInv

\* A continued or stopped task is not submitted once more than it was claimed
\* out of its delay.
THEOREM RoutesSubmits == Spec => []SubmitsFollowDelay
BY RoutesInvariant, PTL DEF Inv, IInv

\* Type correctness of the system with its routes.
THEOREM RoutesTypes == Spec => []TypeOK
BY RoutesInvariant, PTL DEF Inv
=============================================================================
