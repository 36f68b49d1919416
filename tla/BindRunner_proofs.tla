------------------------- MODULE BindRunner_proofs -------------------------
(***************************************************************************)
(* Proofs about BindRunner, for every set of tasks, of robots and of       *)
(* faults.                                                                 *)
(***************************************************************************)
EXTENDS BindRunner, FiniteSetTheorems, TLAPS

\* The rank a new row gets is a number.
LEMMA RankType == Cardinality({u \in Tasks : Exists(u)}) \in Nat
<1>1. IsFiniteSet({u \in Tasks : Exists(u)})
  BY StoreAssumption, FS_Subset
<1>2. QED
  BY <1>1, FS_CardinalityType

\* The initial states are typed.
LEMMA TypeInit == RunnerInit => RunnerTypeOK
BY StoreAssumption, RunnerAssumption
   DEF RunnerInit, StoreInit, RunnerTypeOK, StoreTypeOK, Status, Serving

\* Every step of a worker, of the webhook or of the clock keeps the types.
LEMMA TypeStep == RunnerTypeOK /\ [WorkerNext]_workerVars => RunnerTypeOK'
<1> SUFFICES ASSUME RunnerTypeOK, [WorkerNext]_workerVars
             PROVE  RunnerTypeOK'
  OBVIOUS
<1> USE RunnerAssumption DEF RunnerTypeOK, StoreTypeOK, Status, Serving
<1>1. ASSUME NEW t \in Tasks, ReceiveWebhook(t)
      PROVE  RunnerTypeOK'
  BY <1>1, RankType DEF ReceiveWebhook, CreateTask, runnerVars, external
<1>2. ASSUME NEW t \in Tasks, TimePasses(t)
      PROVE  RunnerTypeOK'
  BY <1>2 DEF TimePasses, CheckComesDue, runnerVars, external
<1>3. ASSUME NEW r \in Robots, Claim(r)
      PROVE  RunnerTypeOK'
  BY <1>3 DEF Claim, ClaimNext, external
<1>4. ASSUME NEW r \in Robots, Abandon(r)
      PROVE  RunnerTypeOK'
  BY <1>4 DEF Abandon, storeVars, taskRow, external
<1>5. ASSUME NEW r \in Robots, RunStep(r)
      PROVE  RunnerTypeOK'
  <2>1. CASE ChoosePath(r)
    BY <2>1, <1>5, StoreAssumption DEF ChoosePath, Goto, storeVars, taskRow, external
  <2>2. CASE StartRunning(r)
    BY <2>2, <1>5, StoreAssumption DEF StartRunning, Goto, SetTaskStatus, taskRow, external
  <2>3. CASE BindReturns(r)
    BY <2>3, <1>5, StoreAssumption DEF BindReturns, Goto, storeVars, taskRow, external
  <2>4. CASE BindRaises(r)
    BY <2>4, <1>5, StoreAssumption DEF BindRaises, Goto, storeVars, taskRow, external
  <2>5. CASE RecordOrder(r)
    BY <2>5, <1>5, StoreAssumption DEF RecordOrder, Goto, MergeOrder, taskRow, external
  <2>6. CASE ParkTask(r)
    BY <2>6, <1>5, StoreAssumption DEF ParkTask, Goto, SetTaskStatus, taskRow, external
  <2>7. CASE SubmitAccepted(r)
    BY <2>7, <1>5, StoreAssumption DEF SubmitAccepted, Goto, storeVars, taskRow, external
  <2>8. CASE SubmitDeferred(r)
    BY <2>8, <1>5, StoreAssumption DEF SubmitDeferred, Goto, storeVars, taskRow, external
  <2>9. CASE SubmitRaises(r)
    BY <2>9, <1>5, StoreAssumption DEF SubmitRaises, Goto, storeVars, taskRow, external
  <2>10. CASE FinishTask(r)
    BY <2>10, <1>5, StoreAssumption DEF FinishTask, Goto, SetTaskStatus, taskRow, external
  <2>11. CASE DeferTask(r)
    BY <2>11, <1>5, StoreAssumption DEF DeferTask, Goto, SetTaskStatus, taskRow, external
  <2>12. CASE SubmitPathRaises(r)
    BY <2>12, <1>5, StoreAssumption DEF SubmitPathRaises, Goto, storeVars, taskRow, external
  <2>13. CASE FailTask(r)
    BY <2>13, <1>5, StoreAssumption DEF FailTask, Goto, SetTaskStatus, taskRow, external
  <2>14. CASE ReleaseRobot(r)
    BY <2>14, <1>5, StoreAssumption DEF ReleaseRobot, SetRobot, taskRow, external
  <2> QED
    BY <1>5, <2>1, <2>2, <2>3, <2>4, <2>5, <2>6, <2>7, <2>8, <2>9, <2>10, <2>11, <2>12,
       <2>13, <2>14
       DEF RunStep
<1>6. CASE UNCHANGED workerVars
  BY <1>6 DEF workerVars, storeVars, taskRow, runnerVars, external
<1> QED
  BY <1>1, <1>2, <1>3, <1>4, <1>5, <1>6 DEF WorkerNext

\* The rows, the workers' positions and the back office's counters keep their
\* types through every claim, every runner call and every fault.
THEOREM TypeCorrect == WorkerSpec => []RunnerTypeOK
BY TypeInit, TypeStep, PTL DEF WorkerSpec
-----------------------------------------------------------------------------
\* The invariant holds before the first task.
LEMMA InvInit == RunnerInit => IInv
<1> SUFFICES ASSUME RunnerInit
             PROVE  IInv
  OBVIOUS
<1>1. RunnerTypeOK
  BY TypeInit
<1> QED
  BY <1>1
     DEF RunnerInit, StoreInit, IInv, ServedByOne, ServedStatus, BindStatus, RecordedOrder,
         SubmitPath, SuccessIsAccepted, SubmitsFollowDelay, Serving

\* Every step keeps it, store errors and crashes included.
LEMMA InvStep == IInv /\ [WorkerNext]_workerVars => IInv'
<1> SUFFICES ASSUME IInv, [WorkerNext]_workerVars
             PROVE  IInv'
  OBVIOUS
<1>0. RunnerTypeOK'
  BY TypeStep DEF IInv
<1> USE <1>0, RunnerAssumption
    DEF IInv, RunnerTypeOK, StoreTypeOK, ServedByOne, ServedStatus, BindStatus, RecordedOrder,
        SubmitPath, SuccessIsAccepted, SubmitsFollowDelay, Serving, ClaimStatus
<1>1. ASSUME NEW t \in Tasks, ReceiveWebhook(t)
      PROVE  IInv'
  BY <1>1 DEF ReceiveWebhook, CreateTask, Exists, runnerVars, external
<1>2. ASSUME NEW t \in Tasks, TimePasses(t)
      PROVE  IInv'
  BY <1>2 DEF TimePasses, CheckComesDue, runnerVars, external
<1>3. ASSUME NEW r \in Robots, Claim(r)
      PROVE  IInv'
  <2>1. PICK t \in Tasks : /\ ClaimNext(r, t)
                           /\ pc' = [pc EXCEPT ![r] = "claimed"]
                           /\ job' = [job EXCEPT ![r] = t]
                           /\ UNCHANGED external
    BY <1>3 DEF Claim
  <2>2. status[t] \in {"pending", "waiting_wecom_online_delay"}
    BY <2>1 DEF ClaimNext, Claimable
  <2>3. (ServedByOne /\ ServedStatus /\ BindStatus)'
    BY <2>1, <2>2 DEF ClaimNext
  <2>4. (RecordedOrder /\ SuccessIsAccepted /\ SubmitsFollowDelay)'
    BY <2>1, <2>2 DEF ClaimNext, external
  <2>5. SubmitPath'
    BY <2>1, <2>2 DEF ClaimNext, external
  <2> QED
    BY <2>3, <2>4, <2>5
<1>4. ASSUME NEW r \in Robots, Abandon(r)
      PROVE  IInv'
  BY <1>4 DEF Abandon, storeVars, taskRow, external
<1>5. ASSUME NEW r \in Robots, RunStep(r)
      PROVE  IInv'
  <2>1. CASE ChoosePath(r)
    BY <2>1, <1>5, StoreAssumption
       DEF ChoosePath, Goto, storeVars, taskRow, external, IsClaimedOnlineDelay
  <2>2. CASE StartRunning(r)
    BY <2>2, <1>5, StoreAssumption DEF StartRunning, Goto, SetTaskStatus, taskRow, external
  <2>3. CASE BindReturns(r)
    BY <2>3, <1>5, StoreAssumption DEF BindReturns, Goto, storeVars, taskRow, external
  <2>4. CASE BindRaises(r)
    BY <2>4, <1>5, StoreAssumption DEF BindRaises, Goto, storeVars, taskRow, external
  <2>5. CASE RecordOrder(r)
    BY <2>5, <1>5, StoreAssumption DEF RecordOrder, Goto, MergeOrder, taskRow, external
  <2>6. CASE ParkTask(r)
    BY <2>6, <1>5, StoreAssumption DEF ParkTask, Goto, SetTaskStatus, taskRow, external
  <2>7. CASE SubmitAccepted(r)
    BY <2>7, <1>5, StoreAssumption DEF SubmitAccepted, Goto, storeVars, taskRow, external
  <2>8. CASE SubmitDeferred(r)
    BY <2>8, <1>5, StoreAssumption DEF SubmitDeferred, Goto, storeVars, taskRow, external
  <2>9. CASE SubmitRaises(r)
    BY <2>9, <1>5, StoreAssumption DEF SubmitRaises, Goto, storeVars, taskRow, external
  <2>10. CASE FinishTask(r)
    BY <2>10, <1>5, StoreAssumption DEF FinishTask, Goto, SetTaskStatus, taskRow, external
  <2>11. CASE DeferTask(r)
    BY <2>11, <1>5, StoreAssumption DEF DeferTask, Goto, SetTaskStatus, taskRow, external
  <2>12. CASE SubmitPathRaises(r)
    BY <2>12, <1>5, StoreAssumption DEF SubmitPathRaises, Goto, storeVars, taskRow, external
  <2>13. CASE FailTask(r)
    BY <2>13, <1>5, StoreAssumption DEF FailTask, Goto, SetTaskStatus, taskRow, external
  <2>14. CASE ReleaseRobot(r)
    BY <2>14, <1>5, StoreAssumption DEF ReleaseRobot, SetRobot, taskRow, external
  <2> QED
    BY <1>5, <2>1, <2>2, <2>3, <2>4, <2>5, <2>6, <2>7, <2>8, <2>9, <2>10, <2>11, <2>12,
       <2>13, <2>14
       DEF RunStep
<1>6. CASE UNCHANGED workerVars
  BY <1>6 DEF workerVars, storeVars, taskRow, runnerVars, external
<1> QED
  BY <1>1, <1>2, <1>3, <1>4, <1>5, <1>6 DEF WorkerNext

\* It is an invariant of the workers.
LEMMA Invariant == WorkerSpec => []IInv
BY InvInit, InvStep, PTL DEF WorkerSpec

\* No two workers are ever inside run_claimed_task for one task, whatever
\* crashes and store errors come in between.
THEOREM ServedByOneHolds == WorkerSpec => []ServedByOne
BY Invariant, PTL DEF IInv

\* A status 'success' always stands for an existing, recorded order that WeCom
\* has accepted.
THEOREM SuccessHolds == WorkerSpec => []SuccessIsAccepted
BY Invariant, PTL DEF IInv

\* An order is never put online under the claim that created it, nor twice
\* under one claim.
THEOREM SubmitsHolds == WorkerSpec => []SubmitsFollowDelay
BY Invariant, PTL DEF IInv
-----------------------------------------------------------------------------
\* Arithmetic for counters of orders.
LEMMA OneIfNotZero == \A m \in Nat : m <= 1 /\ m # 0 => m = 1
OBVIOUS

\* No worker is at any order at the start.
LEMMA OrderInit == RunnerInit => OrderInv
<1> SUFFICES ASSUME RunnerInit
             PROVE  OrderInv
  OBVIOUS
<1> QED
  BY DEF RunnerInit, StoreInit, OrderInv, HeldByOne, OrderProgress, OneOrder, Serving

\* Without store errors, every step keeps the progress of the order readable off
\* its worker's position.
LEMMA OrderStep ==
    ASSUME "store" \notin Faults
    PROVE  IInv /\ OrderInv /\ [WorkerNext]_workerVars => OrderInv'
<1> SUFFICES ASSUME IInv, OrderInv, [WorkerNext]_workerVars
             PROVE  OrderInv'
  OBVIOUS
<1>0. RunnerTypeOK'
  BY TypeStep DEF IInv
<1> USE <1>0, RunnerAssumption
    DEF IInv, RunnerTypeOK, StoreTypeOK, RecordedOrder, BindStatus, SubmitPath, Serving,
        ClaimStatus,
        OrderInv, HeldByOne, OrderProgress, OneOrder
<1>1. ASSUME NEW t \in Tasks, ReceiveWebhook(t)
      PROVE  OrderInv'
  BY <1>1 DEF ReceiveWebhook, CreateTask, Exists, runnerVars, external
<1>2. ASSUME NEW t \in Tasks, TimePasses(t)
      PROVE  OrderInv'
  BY <1>2 DEF TimePasses, CheckComesDue, runnerVars, external
<1>3. ASSUME NEW r \in Robots, Claim(r)
      PROVE  OrderInv'
  BY <1>3 DEF Claim, ClaimNext, Claimable, external
<1>4. ASSUME NEW r \in Robots, Abandon(r)
      PROVE  OrderInv'
  BY <1>4 DEF Abandon, storeVars, taskRow, external
<1>5. ASSUME NEW r \in Robots, RunStep(r)
      PROVE  OrderInv'
  <2>1. CASE ChoosePath(r)
    BY <2>1, <1>5 DEF ChoosePath, Goto, storeVars, taskRow, external, IsClaimedOnlineDelay
  <2>2. CASE StartRunning(r)
    BY <2>2, <1>5 DEF StartRunning, Goto, SetTaskStatus, taskRow, external
  <2>3. CASE BindReturns(r)
    BY <2>3, <1>5 DEF BindReturns, Goto, storeVars, taskRow, external
  <2>4. CASE BindRaises(r)
    BY <2>4, <1>5 DEF BindRaises, Goto, storeVars, taskRow, external
  <2>5. CASE RecordOrder(r)
    BY <2>5, <1>5 DEF RecordOrder, Goto, MergeOrder, taskRow, external
  <2>6. CASE ParkTask(r)
    BY <2>6, <1>5 DEF ParkTask, Goto, SetTaskStatus, taskRow, external
  <2>7. CASE SubmitAccepted(r)
    BY <2>7, <1>5 DEF SubmitAccepted, Goto, storeVars, taskRow, external
  <2>8. CASE SubmitDeferred(r)
    BY <2>8, <1>5 DEF SubmitDeferred, Goto, storeVars, taskRow, external
  <2>9. CASE SubmitRaises(r)
    BY <2>9, <1>5 DEF SubmitRaises, Goto, storeVars, taskRow, external
  <2>10. CASE FinishTask(r)
    BY <2>10, <1>5 DEF FinishTask, Goto, SetTaskStatus, taskRow, external
  <2>11. CASE DeferTask(r)
    <3>1. job[r] \in Tasks /\ job' = job /\ pc' = [pc EXCEPT ![r] = "close"]
      BY <2>11, <1>5 DEF DeferTask, Goto
    <3>2. made[job[r]] = 1 /\ orderId[job[r]] = 1
      <4>1. orderId[job[r]] # 0
        BY <2>11, <1>5 DEF DeferTask
      <4>2. orderId[job[r]] = made[job[r]]
        BY <2>11, <1>5 DEF DeferTask
      <4>3. made[job[r]] <= 1 /\ made[job[r]] \in Nat
        BY <3>1
      <4> QED
        BY <4>1, <4>2, <4>3, OneIfNotZero, Zenon
    <3>3. /\ status' = [status EXCEPT ![job[r]] = "waiting_wecom_online_delay"]
          /\ made' = made /\ orderId' = orderId
      BY <2>11 DEF DeferTask, SetTaskStatus, external
    <3>4. HeldByOne'
      BY <2>11, <1>5, <3>1, <3>3 DEF DeferTask
    <3>5. OrderProgress'
      BY <2>11, <1>5, <3>1, <3>2, <3>3 DEF DeferTask
    <3> QED
      BY <3>3, <3>4, <3>5
  <2>12. CASE SubmitPathRaises(r)
    BY <2>12, <1>5 DEF SubmitPathRaises, Goto, storeVars, taskRow, external
  <2>13. CASE FailTask(r)
    BY <2>13, <1>5 DEF FailTask, Goto, SetTaskStatus, taskRow, external
  <2>14. CASE ReleaseRobot(r)
    BY <2>14, <1>5 DEF ReleaseRobot, SetRobot, taskRow, external
  <2> QED
    BY <1>5, <2>1, <2>2, <2>3, <2>4, <2>5, <2>6, <2>7, <2>8, <2>9, <2>10, <2>11, <2>12,
       <2>13, <2>14
       DEF RunStep
<1>6. CASE UNCHANGED workerVars
  BY <1>6 DEF workerVars, storeVars, taskRow, runnerVars, external
<1> QED
  BY <1>1, <1>2, <1>3, <1>4, <1>5, <1>6 DEF WorkerNext

\* As long as no store error is mistaken for a failed submission, a task gets
\* at most one online order, whichever worker claims it when and dies where.
THEOREM OneOrderHolds ==
    ASSUME "store" \notin Faults
    PROVE  WorkerSpec => []OneOrder
<1>1. RunnerInit => IInv /\ OrderInv
  BY InvInit, OrderInit
<1>2. (IInv /\ OrderInv) /\ [WorkerNext]_workerVars => (IInv /\ OrderInv)'
  BY InvStep, OrderStep
<1>3. IInv /\ OrderInv => OneOrder
  BY DEF OrderInv
<1> QED
  BY <1>1, <1>2, <1>3, PTL DEF WorkerSpec

\* No step of a worker touches the status of a finished task.
LEMMA TerminalStep ==
    ASSUME IInv, OrderInv, [WorkerNext]_workerVars
    PROVE  \A t \in Tasks : status[t] \in TerminalStatus => status'[t] = status[t]
<1> DEFINE Kept == \A t \in Tasks : status[t] \in TerminalStatus => status'[t] = status[t]
<1> USE DEF IInv, RunnerTypeOK, StoreTypeOK, TerminalStatus
<1>1. ASSUME NEW t \in Tasks, ReceiveWebhook(t)
      PROVE  Kept
  BY <1>1 DEF ReceiveWebhook, CreateTask, Exists
<1>2. ASSUME NEW t \in Tasks, TimePasses(t)
      PROVE  Kept
  BY <1>2 DEF TimePasses, CheckComesDue
<1>3. ASSUME NEW r \in Robots, Claim(r)
      PROVE  Kept
  BY <1>3 DEF Claim, ClaimNext, Claimable
<1>4. ASSUME NEW r \in Robots, Abandon(r)
      PROVE  Kept
  BY <1>4 DEF Abandon, storeVars, taskRow
<1>5. ASSUME NEW r \in Robots, RunStep(r)
      PROVE  Kept
  <2>1. CASE UNCHANGED status
    BY <2>1
  <2>2. CASE pc[r] \in Serving \cup {"failing"}
             /\ \E s : status' = [status EXCEPT ![job[r]] = s]
    BY <2>2 DEF OrderInv, HeldByOne
  <2>3. CASE ChoosePath(r) \/ BindReturns(r) \/ BindRaises(r) \/ SubmitAccepted(r)
             \/ SubmitDeferred(r) \/ SubmitRaises(r) \/ SubmitPathRaises(r)
    BY <2>1, <2>3 DEF ChoosePath, BindReturns, BindRaises, SubmitAccepted, SubmitDeferred,
        SubmitRaises, SubmitPathRaises, storeVars, taskRow
  <2>4. CASE RecordOrder(r) \/ ReleaseRobot(r)
    BY <2>1, <2>4 DEF RecordOrder, MergeOrder, ReleaseRobot, SetRobot, taskRow
  <2>5. CASE StartRunning(r) \/ ParkTask(r) \/ FinishTask(r) \/ DeferTask(r) \/ FailTask(r)
    BY <2>2, <2>5 DEF StartRunning, ParkTask, FinishTask, DeferTask, FailTask, SetTaskStatus,
        Serving
  <2> QED
    BY <1>5, <2>3, <2>4, <2>5 DEF RunStep
<1>6. CASE UNCHANGED workerVars
  BY <1>6 DEF workerVars, storeVars, taskRow
<1> QED
  BY <1>1, <1>2, <1>3, <1>4, <1>5, <1>6 DEF WorkerNext

\* Terminal statuses are final as far as the workers are concerned.
THEOREM TerminalHolds ==
    ASSUME "store" \notin Faults
    PROVE  WorkerSpec => TerminalAbsorbing
<1>1. RunnerInit => IInv /\ OrderInv
  BY InvInit, OrderInit
<1>2. (IInv /\ OrderInv) /\ [WorkerNext]_workerVars => (IInv /\ OrderInv)'
  BY InvStep, OrderStep
<1>3. (IInv /\ OrderInv) /\ [WorkerNext]_workerVars
        => [\A t \in Tasks : status[t] \in TerminalStatus => status'[t] = status[t]]_status
  BY TerminalStep
<1> QED
  BY <1>1, <1>2, <1>3, PTL DEF WorkerSpec, TerminalAbsorbing
-----------------------------------------------------------------------------
(***************************************************************************)
(* The workers implement OrderLease, for every set of tasks and of robots, *)
(* when no store call fails: a crash between any two steps and every       *)
(* answer of the back offices included.                                    *)
(***************************************************************************)

\* A worker in a call; the values the lease's variables are mapped to.
InCall(r) == pc[r] \in Serving \cup {"failing"}
HolderMap == [t \in Tasks |-> HolderOf(t)]
StageMap == [t \in Tasks |-> StageOf(t)]

\* What the refinement needs beyond IInv and OrderInv: an order that is online
\* is out of reach of every claim and only its worker's last write is left, and
\* claims out of the delay are counted only for a task with an order.
OnlineIsLeft ==
    /\ \A t \in Tasks :
          /\ accepted[t] # 0 => status[t] \notin ClaimStatus \cup {"absent"}
          /\ made[t] = 0 => attempts[t] = 0
    /\ \A r \in Robots : InCall(r) /\ accepted[job[r]] # 0 => pc[r] = "finish"

LeaseInv == IInv /\ OrderInv /\ OnlineIsLeft


\* The holder of a task is the one worker in a call for it.
LEMMA HolderIs ==
    ASSUME NEW t, NEW r, Holders(t) = {r}
    PROVE  HolderOf(t) = r
BY DEF HolderOf, OneOf

\* A worker in a call is the one holder of its task.
LEMMA SomeHolder ==
    ASSUME HeldByOne, NEW r \in Robots, InCall(r)
    PROVE  Holders(job[r]) = {r}
BY DEF Holders, HeldByOne, InCall

\* A step that neither enters nor leaves a call changes no holder.
LEMMA SameHolders ==
    ASSUME \A r \in Robots : InCall(r)' <=> InCall(r),
           \A r \in Robots : InCall(r) => job'[r] = job[r]
    PROVE  HolderMap' = HolderMap
<1>1. ASSUME NEW t \in Tasks
      PROVE  HolderOf(t)' = HolderOf(t)
  <2>1. Holders(t)' = Holders(t)
    BY DEF Holders, InCall
  <2> QED
    BY <2>1 DEF HolderOf
<1> QED
  BY <1>1 DEF HolderMap

\* A step that takes one worker out of its call frees that worker's task.
LEMMA WorkerLeaves ==
    ASSUME HeldByOne, HeldByOne', NoRobot \notin Robots,
           NEW r \in Robots, NEW t \in Tasks, job[r] = t, InCall(r), ~InCall(r)',
           \A r2 \in Robots \ {r} : pc'[r2] = pc[r2] /\ job'[r2] = job[r2]
    PROVE  /\ HolderMap[t] # NoRobot
           /\ HolderMap' = [HolderMap EXCEPT ![t] = NoRobot]
<1>1. HolderOf(t) = r
  BY SomeHolder, HolderIs
<1>2. HolderOf(t)' = NoRobot
  <2>1. Holders(t)' = {}
    BY DEF Holders, HeldByOne, InCall
  <2> QED
    BY <2>1 DEF HolderOf
<1>3. ASSUME NEW u \in Tasks, u # t
      PROVE  HolderOf(u)' = HolderOf(u)
  <2>1. Holders(u)' = Holders(u)
    BY <1>3 DEF Holders, InCall
  <2> QED
    BY <2>1 DEF HolderOf
<1> QED
  BY <1>1, <1>2, <1>3 DEF HolderMap

\* A step that takes one worker into a call for a free task makes it the holder.
LEMMA WorkerEnters ==
    ASSUME HeldByOne, HeldByOne', NoRobot \notin Robots,
           NEW r \in Robots, NEW t \in Tasks, job'[r] = t, ~InCall(r), InCall(r)',
           \A r2 \in Robots \ {r} : pc'[r2] = pc[r2] /\ job'[r2] = job[r2]
    PROVE  /\ HolderMap[t] = NoRobot
           /\ \A u \in Tasks : HolderMap[u] # r
           /\ HolderMap' = [HolderMap EXCEPT ![t] = r]
<1>1. HolderOf(t) = NoRobot
  <2>1. Holders(t) = {}
    BY DEF Holders, HeldByOne, InCall
  <2> QED
    BY <2>1 DEF HolderOf
<1>2. HolderOf(t)' = r
  <2>1. Holders(t)' = {r}
    BY DEF Holders, HeldByOne, InCall
  <2> QED
    BY <2>1 DEF HolderOf, OneOf
<1>3. ASSUME NEW u \in Tasks, u # t
      PROVE  HolderOf(u)' = HolderOf(u)
  <2>1. Holders(u)' = Holders(u)
    BY <1>3 DEF Holders, InCall
  <2> QED
    BY <2>1 DEF HolderOf
<1>4. ASSUME NEW u \in Tasks
      PROVE  HolderOf(u) # r
  <2>1. r \notin Holders(u)
    BY DEF Holders, InCall
  <2>2. Holders(u) \subseteq Robots
    BY DEF Holders
  <2>3. HolderOf(u) \in Holders(u) \cup {NoRobot}
    BY DEF HolderOf, OneOf
  <2> QED
    BY <2>1, <2>3
<1> QED
  BY <1>1, <1>2, <1>3, <1>4 DEF HolderMap

\* OnlineIsLeft holds initially and is kept by every step.
LEMMA OnlineInit == RunnerInit => OnlineIsLeft
BY StoreAssumption DEF RunnerInit, StoreInit, OnlineIsLeft, InCall, Serving

\* Without store errors no step brings an online order back to a claim.
LEMMA OnlineStep ==
    ASSUME "store" \notin Faults, IInv, OrderInv, OnlineIsLeft, [WorkerNext]_workerVars
    PROVE  OnlineIsLeft'
<1> USE RunnerAssumption DEF IInv, RunnerTypeOK, StoreTypeOK, OrderInv, HeldByOne, OrderProgress,
    OneOrder, RecordedOrder, SubmitPath, OnlineIsLeft, InCall, Serving, ClaimStatus
<1>1. ASSUME NEW t \in Tasks, ReceiveWebhook(t)
      PROVE  OnlineIsLeft'
  BY <1>1 DEF ReceiveWebhook, CreateTask, Exists, runnerVars, external
<1>2. ASSUME NEW t \in Tasks, TimePasses(t)
      PROVE  OnlineIsLeft'
  BY <1>2 DEF TimePasses, CheckComesDue, runnerVars, external
<1>3. ASSUME NEW r \in Robots, Claim(r)
      PROVE  OnlineIsLeft'
  BY <1>3 DEF Claim, ClaimNext, Claimable, external, BindStatus
<1>4. ASSUME NEW r \in Robots, Abandon(r)
      PROVE  OnlineIsLeft'
  BY <1>4 DEF Abandon, storeVars, taskRow, external
<1>5. ASSUME NEW r \in Robots, RunStep(r)
      PROVE  OnlineIsLeft'
  <2>1. CASE ChoosePath(r)
    BY <2>1, <1>5 DEF ChoosePath, Goto, storeVars, taskRow, external
  <2>2. CASE StartRunning(r)
    BY <2>2, <1>5 DEF StartRunning, Goto, SetTaskStatus, taskRow, external
  <2>3. CASE BindReturns(r)
    BY <2>3, <1>5 DEF BindReturns, Goto, storeVars, taskRow, external
  <2>4. CASE BindRaises(r)
    BY <2>4, <1>5 DEF BindRaises, Goto, storeVars, taskRow, external
  <2>5. CASE RecordOrder(r)
    BY <2>5, <1>5 DEF RecordOrder, Goto, MergeOrder, taskRow, external
  <2>6. CASE ParkTask(r)
    BY <2>6, <1>5 DEF ParkTask, Goto, SetTaskStatus, external
  <2>7. CASE SubmitAccepted(r)
    BY <2>7, <1>5 DEF SubmitAccepted, Goto, storeVars, taskRow, external
  <2>8. CASE SubmitDeferred(r)
    BY <2>8, <1>5 DEF SubmitDeferred, Goto, storeVars, taskRow, external
  <2>9. CASE SubmitRaises(r)
    BY <2>9, <1>5 DEF SubmitRaises, Goto, storeVars, taskRow, external
  <2>10. CASE FinishTask(r)
    BY <2>10, <1>5 DEF FinishTask, Goto, SetTaskStatus, external
  <2>11. CASE DeferTask(r)
    BY <2>11, <1>5 DEF DeferTask, Goto, SetTaskStatus, external
  <2>12. CASE SubmitPathRaises(r)
    BY <2>12, <1>5 DEF SubmitPathRaises, Goto, storeVars, taskRow, external
  <2>13. CASE FailTask(r)
    BY <2>13, <1>5 DEF FailTask, Goto, SetTaskStatus, external
  <2>14. CASE ReleaseRobot(r)
    BY <2>14, <1>5 DEF ReleaseRobot, SetRobot, taskRow, external
  <2> QED
    BY <1>5, <2>1, <2>2, <2>3, <2>4, <2>5, <2>6, <2>7, <2>8,
       <2>9, <2>10, <2>11, <2>12, <2>13, <2>14 DEF RunStep
<1>6. CASE UNCHANGED workerVars
  BY <1>6 DEF workerVars, storeVars, taskRow, runnerVars, external
<1> QED
  BY <1>1, <1>2, <1>3, <1>4, <1>5, <1>6 DEF WorkerNext

\* The steps of the lease in terms of the two mapped functions.
LEMMA MappedSteps ==
    /\ HolderMap' = HolderMap /\ StageMap' = StageMap => UNCHANGED Lease!leaseVars
    /\ \A t \in Tasks :
          HolderMap[t] # NoRobot /\ HolderMap' = [HolderMap EXCEPT ![t] = NoRobot]
            /\ StageMap' = StageMap => Lease!Leave(t)
    /\ \A t \in Tasks :
          HolderMap[t] # NoRobot /\ HolderMap' = HolderMap /\ StageMap[t] = "none"
            /\ StageMap' = [StageMap EXCEPT ![t] = "ordered"] => Lease!CreateOrder(t)
    /\ \A t \in Tasks :
          HolderMap[t] # NoRobot /\ HolderMap' = HolderMap /\ StageMap[t] = "ready"
            /\ StageMap' = [StageMap EXCEPT ![t] = "online"] => Lease!PutOnline(t)
    /\ \A t \in Tasks, r \in Robots :
          /\ HolderMap[t] = NoRobot
          /\ \A u \in Tasks : HolderMap[u] # r
          /\ StageMap[t] # "online"
          /\ HolderMap' = [HolderMap EXCEPT ![t] = r]
          /\ StageMap' = [StageMap EXCEPT ![t] = IF @ = "ordered" THEN "ready" ELSE @]
          => Lease!Take(r, t)
BY DEF HolderMap, StageMap, Lease!leaseVars, Lease!Leave, Lease!CreateOrder, Lease!PutOnline,
    Lease!Take

\* A step that creates no order and has none accepted, for tasks whose claims
\* it does not count, changes no stage.
LEMMA SameStages ==
    ASSUME UNCHANGED <<made, attempts, accepted>>
    PROVE  StageMap' = StageMap
BY DEF StageMap, StageOf

\* The lease starts where the workers start: nobody holds a task, no order.
LEMMA LeaseInit == RunnerInit => Lease!Init
<1> SUFFICES ASSUME RunnerInit
             PROVE  Lease!Init
  OBVIOUS
<1>1. ASSUME NEW t \in Tasks
      PROVE  HolderOf(t) = NoRobot
  <2>1. Holders(t) = {}
    BY DEF RunnerInit, Holders, Serving
  <2> QED
    BY <2>1 DEF HolderOf
<1>2. ASSUME NEW t \in Tasks
      PROVE  StageOf(t) = "none"
  BY DEF RunnerInit, StageOf
<1> QED
  BY <1>1, <1>2 DEF Lease!Init

\* A step that moves no worker in or out of a call and touches no order is a
\* stutter of the lease.
LEMMA Stutters ==
    ASSUME UNCHANGED <<made, attempts, accepted>>,
           \A r \in Robots : InCall(r)' <=> InCall(r),
           \A r \in Robots : InCall(r) => job'[r] = job[r]
    PROVE  UNCHANGED Lease!leaseVars
BY SameStages, SameHolders, MappedSteps

\* A step that takes one worker out of its call and touches no order is the
\* end of its lease.
LEMMA LeavesLease ==
    ASSUME HeldByOne, HeldByOne', NoRobot \notin Robots,
           NEW r \in Robots, NEW t \in Tasks, job[r] = t, InCall(r), ~InCall(r)',
           \A r2 \in Robots \ {r} : pc'[r2] = pc[r2] /\ job'[r2] = job[r2],
           UNCHANGED <<made, attempts, accepted>>
    PROVE  Lease!Leave(t)
BY WorkerLeaves, SameStages, MappedSteps

\* Every step of the workers is a step of the lease or changes nothing in it.
LEMMA LeaseStep ==
    ASSUME "store" \notin Faults, LeaseInv, LeaseInv', [WorkerNext]_workerVars
    PROVE  [Lease!Next]_(Lease!leaseVars)
<1>a. /\ HeldByOne /\ HeldByOne' /\ NoRobot \notin Robots
      /\ RunnerTypeOK
  BY StoreAssumption DEF LeaseInv, OrderInv, IInv
<1>b. /\ pc \in [Robots -> Serving \cup {"idle", "close", "failing", "release"}]
      /\ job \in [Robots -> Tasks \cup {NoTask}]
      /\ \A r \in Robots : pc[r] # "idle" => job[r] \in Tasks
  BY <1>a DEF RunnerTypeOK
<1>1. ASSUME NEW t \in Tasks, ReceiveWebhook(t)
      PROVE  UNCHANGED Lease!leaseVars
  BY <1>1, Stutters DEF ReceiveWebhook, CreateTask, runnerVars, external, InCall
<1>2. ASSUME NEW t \in Tasks, TimePasses(t)
      PROVE  UNCHANGED Lease!leaseVars
  BY <1>2, Stutters DEF TimePasses, CheckComesDue, runnerVars, external, InCall
<1>3. ASSUME NEW r \in Robots, Claim(r)
      PROVE  Lease!Next
  <2>1. PICK t \in Tasks : /\ pc[r] = "idle"
                          /\ ClaimNext(r, t)
                          /\ pc' = [pc EXCEPT ![r] = "claimed"]
                          /\ job' = [job EXCEPT ![r] = t]
                          /\ UNCHANGED external
    BY <1>3 DEF Claim
  <2>2. /\ HolderMap[t] = NoRobot
        /\ \A u \in Tasks : HolderMap[u] # r
        /\ HolderMap' = [HolderMap EXCEPT ![t] = r]
    <3>1. job'[r] = t /\ ~InCall(r) /\ InCall(r)'
      BY <2>1, <1>b DEF InCall, Serving
    <3>2. \A r2 \in Robots \ {r} : pc'[r2] = pc[r2] /\ job'[r2] = job[r2]
      BY <2>1, <1>b
    <3> QED
      BY <3>1, <3>2, <1>a, WorkerEnters
  <2>3. /\ StageOf(t) # "online"
        /\ StageOf(t)' = IF StageOf(t) = "ordered" THEN "ready" ELSE StageOf(t)
        /\ \A u \in Tasks \ {t} : StageOf(u)' = StageOf(u)
    <3>1. status[t] \in ClaimStatus /\ accepted[t] = 0
      BY <2>1 DEF ClaimNext, Claimable, ClaimStatus, LeaseInv, OnlineIsLeft
    <3>2. UNCHANGED <<made, accepted>>
      BY <2>1 DEF external
    <3>3. CASE status[t] = "waiting_wecom_online_delay"
      <4>1. made[t] = 1
        BY <3>3 DEF LeaseInv, OrderInv, OrderProgress
      <4>2. attempts' = [attempts EXCEPT ![t] = @ + 1] /\ attempts \in [Tasks -> Nat]
        BY <2>1, <3>3, <1>a DEF ClaimNext, RunnerTypeOK, StoreTypeOK
      <4>3. attempts'[t] # 0
        BY <4>2
      <4> QED
        BY <3>1, <3>2, <4>1, <4>2, <4>3 DEF StageOf
    <3>4. CASE status[t] = "pending"
      <4>1. made[t] = 0 /\ attempts' = attempts
        BY <3>4, <2>1 DEF ClaimNext, LeaseInv, IInv, RecordedOrder
      <4> QED
        BY <3>1, <3>2, <4>1 DEF StageOf
    <3> QED
      BY <3>1, <3>3, <3>4 DEF ClaimStatus, LeaseInv, IInv, BindStatus
  <2>4. /\ StageMap[t] # "online"
        /\ StageMap' = [StageMap EXCEPT ![t] = IF @ = "ordered" THEN "ready" ELSE @]
    BY <2>3 DEF StageMap
  <2>5. Lease!Take(r, t)
    BY <2>2, <2>4, MappedSteps
  <2> QED
    BY <2>5 DEF Lease!Next
<1>4. ASSUME NEW r \in Robots, Abandon(r)
      PROVE  [Lease!Next]_(Lease!leaseVars)
  <2>1. /\ pc' = [pc EXCEPT ![r] = "idle"] /\ job' = [job EXCEPT ![r] = NoTask]
        /\ UNCHANGED <<made, attempts, accepted>>
        /\ job[r] \in Tasks
    BY <1>4, <1>b DEF Abandon, storeVars, taskRow, external
  <2>2. ~InCall(r)'
    BY <2>1, <1>b DEF InCall, Serving
  <2>3. CASE InCall(r)
    <3>1. PICK t \in Tasks : job[r] = t
      BY <2>1
    <3>2. \A r2 \in Robots \ {r} : pc'[r2] = pc[r2] /\ job'[r2] = job[r2]
      BY <2>1, <1>b
    <3>3. Lease!Leave(t)
      BY <3>1, <3>2, <2>1, <2>2, <2>3, <1>a, LeavesLease
    <3> QED
      BY <3>3 DEF Lease!Next
  <2>4. CASE ~InCall(r)
    <3>1. \A r2 \in Robots : InCall(r2)' <=> InCall(r2)
      BY <2>1, <2>2, <2>4, <1>b DEF InCall
    <3>2. \A r2 \in Robots : InCall(r2) => job'[r2] = job[r2]
      BY <2>1, <2>4, <1>b
    <3> QED
      BY <3>1, <3>2, <2>1, Stutters
  <2> QED
    BY <2>3, <2>4
<1>5. ASSUME NEW r \in Robots, RunStep(r)
      PROVE  [Lease!Next]_(Lease!leaseVars)
  <2>a. pc[r] # "idle" /\ job[r] \in Tasks
    BY <1>5, <1>b DEF RunStep, ChoosePath, StartRunning, BindReturns, BindRaises, RecordOrder,
       ParkTask, SubmitAccepted, SubmitDeferred, SubmitRaises, FinishTask, DeferTask,
       SubmitPathRaises, FailTask, ReleaseRobot
  <2>b. PICK t \in Tasks : job[r] = t
    BY <2>a
  \* Steps inside the call that touch no order.
  <2>c. ASSUME NEW l \in Serving \cup {"failing"}, Goto(r, l), InCall(r)
        PROVE  HolderMap' = HolderMap
    <3>1. \A r2 \in Robots : InCall(r2)' <=> InCall(r2)
      BY <2>c, <1>b DEF InCall, Goto
    <3> QED
      BY <3>1, <2>c, SameHolders DEF Goto
  \* Steps that leave the call for the release of the robot.
  <2>d. ASSUME NEW l \in {"close", "release"}, Goto(r, l), InCall(r),
               UNCHANGED <<made, attempts, accepted>>
        PROVE  Lease!Next
    <3>1. ~InCall(r)'
      BY <2>d, <1>b DEF InCall, Goto, Serving
    <3>2. \A r2 \in Robots \ {r} : pc'[r2] = pc[r2] /\ job'[r2] = job[r2]
      BY <2>d, <1>b DEF Goto
    <3>3. Lease!Leave(t)
      BY <3>1, <3>2, <2>b, <2>d, <1>a, LeavesLease
    <3> QED
      BY <3>3 DEF Lease!Next
  <2>1. CASE ChoosePath(r) \/ StartRunning(r) \/ RecordOrder(r) \/ SubmitDeferred(r) \/ SubmitRaises(r)
    <3>1. UNCHANGED <<made, attempts, accepted>> /\ InCall(r)
      BY <2>1 DEF ChoosePath, StartRunning, RecordOrder, SubmitDeferred, SubmitRaises,
         SetTaskStatus, MergeOrder, storeVars, taskRow, external, InCall, Serving
    <3>2. PICK l \in Serving \cup {"failing"} : Goto(r, l)
      BY <2>1 DEF ChoosePath, StartRunning, RecordOrder, SubmitDeferred, SubmitRaises, Serving
    <3> QED
      BY <3>1, <3>2, <2>c, SameStages, MappedSteps
  <2>2. CASE ParkTask(r) \/ FinishTask(r) \/ DeferTask(r) \/ FailTask(r)
    <3>1. UNCHANGED <<made, attempts, accepted>> /\ InCall(r)
      BY <2>2
         DEF ParkTask, FinishTask, DeferTask, FailTask, SetTaskStatus, external, InCall,
             Serving
    <3>2. PICK l \in {"close", "release"} : Goto(r, l)
      BY <2>2 DEF ParkTask, FinishTask, DeferTask, FailTask
    <3> QED
      BY <3>1, <3>2, <2>d
  <2>3. CASE BindReturns(r) \/ BindRaises(r)
    <3>1. /\ pc[r] = "calling" /\ InCall(r)
          /\ UNCHANGED <<attempts, accepted>>
          /\ \/ UNCHANGED made
             \/ made' = [made EXCEPT ![t] = @ + 1]
      BY <2>3, <2>b DEF BindReturns, BindRaises, storeVars, taskRow, InCall, Serving
    <3>2. PICK l \in Serving \cup {"failing"} : Goto(r, l)
      BY <2>3 DEF BindReturns, BindRaises, Serving
    <3>3. HolderMap' = HolderMap
      BY <3>1, <3>2, <2>c
    <3>4. CASE UNCHANGED made
      BY <3>1, <3>3, <3>4, SameStages, MappedSteps
    <3>5. CASE made' = [made EXCEPT ![t] = @ + 1]
      <4>1. made[t] = 0 /\ attempts[t] = 0 /\ accepted[t] = 0 /\ made \in [Tasks -> Nat]
        BY <3>1, <2>b, <1>a
           DEF LeaseInv, OnlineIsLeft, OrderInv, OrderProgress, RunnerTypeOK
      <4>2. StageOf(t) = "none" /\ StageOf(t)' = "ordered"
        BY <4>1, <3>1, <3>5 DEF StageOf
      <4>3. \A u \in Tasks \ {t} : StageOf(u)' = StageOf(u)
        BY <4>1, <3>1, <3>5 DEF StageOf
      <4>4. StageMap[t] = "none" /\ StageMap' = [StageMap EXCEPT ![t] = "ordered"]
        BY <4>2, <4>3 DEF StageMap
      <4>5. HolderMap[t] # NoRobot
        BY <3>1, <2>b, <1>a, SomeHolder, HolderIs DEF HolderMap
      <4>6. Lease!CreateOrder(t)
        BY <3>3, <4>4, <4>5, MappedSteps
      <4> QED
        BY <4>6 DEF Lease!Next
    <3> QED
      BY <3>1, <3>4, <3>5
  <2>4. CASE SubmitAccepted(r)
    <3>1. /\ pc[r] = "submit" /\ InCall(r)
          /\ UNCHANGED <<made, attempts>>
          /\ accepted' = [accepted EXCEPT ![t] = orderId[t]]
          /\ Goto(r, "finish")
      BY <2>4, <2>b DEF SubmitAccepted, storeVars, taskRow, InCall, Serving
    <3>2. HolderMap' = HolderMap
      BY <3>1, <2>c DEF Serving
    <3>3. /\ accepted[t] = 0 /\ orderId[t] # 0 /\ made[t] # 0 /\ attempts[t] # 0
          /\ accepted \in [Tasks -> Nat]
      <4>1. accepted[t] = 0
        BY <3>1, <2>b DEF LeaseInv, OnlineIsLeft
      <4>2. orderId[t] # 0 /\ submits[t] < attempts[t]
        BY <3>1, <2>b DEF LeaseInv, IInv, SubmitPath
      <4>3. made[t] = orderId[t]
        BY <3>1, <2>b DEF LeaseInv, OrderInv, OrderProgress
      <4>4. submits \in [Tasks -> Nat] /\ attempts \in [Tasks -> Nat] /\ accepted \in [Tasks -> Nat]
        BY <1>a DEF RunnerTypeOK, StoreTypeOK
      <4>5. attempts[t] # 0
        BY <4>2, <4>4
      <4> QED
        BY <4>1, <4>2, <4>3, <4>4, <4>5
    <3>4. StageOf(t) = "ready" /\ StageOf(t)' = "online"
      BY <3>1, <3>3 DEF StageOf
    <3>5. \A u \in Tasks \ {t} : StageOf(u)' = StageOf(u)
      BY <3>1, <3>3 DEF StageOf
    <3>6. StageMap[t] = "ready" /\ StageMap' = [StageMap EXCEPT ![t] = "online"]
      BY <3>4, <3>5 DEF StageMap
    <3>7. HolderMap[t] # NoRobot
      BY <3>1, <2>b, <1>a, SomeHolder, HolderIs DEF HolderMap
    <3>8. Lease!PutOnline(t)
      BY <3>2, <3>6, <3>7, MappedSteps
    <3> QED
      BY <3>8 DEF Lease!Next
  <2>5. CASE SubmitPathRaises(r)
    BY <2>5 DEF SubmitPathRaises
  <2>6. CASE ReleaseRobot(r)
    <3>1. /\ UNCHANGED <<made, attempts, accepted>> /\ ~InCall(r)
          /\ pc' = [pc EXCEPT ![r] = "idle"] /\ job' = [job EXCEPT ![r] = NoTask]
      BY <2>6 DEF ReleaseRobot, SetRobot, taskRow, external, InCall, Serving
    <3>2. \A r2 \in Robots : InCall(r2)' <=> InCall(r2)
      BY <3>1, <1>b DEF InCall, Serving
    <3>3. \A r2 \in Robots : InCall(r2) => job'[r2] = job[r2]
      BY <3>1, <1>b
    <3> QED
      BY <3>1, <3>2, <3>3, Stutters
  <2> QED
    BY <1>5, <2>1, <2>2, <2>3, <2>4, <2>5, <2>6 DEF RunStep
<1>6. CASE UNCHANGED workerVars
  BY <1>6, Stutters DEF workerVars, storeVars, taskRow, runnerVars, external, InCall
<1> QED
  BY <1>1, <1>2, <1>3, <1>4, <1>5, <1>6 DEF WorkerNext

\* The workers implement the lease on the order: whatever crashes and whatever
\* the back offices answer, an order is created once and put online once, under
\* a later claim than the one that created it, and only by the worker that
\* holds the task.
THEOREM LeaseImplemented ==
    ASSUME "store" \notin Faults
    PROVE  WorkerSpec => ImplementsLease
<1>1. RunnerInit => LeaseInv
  BY InvInit, OrderInit, OnlineInit DEF LeaseInv
<1>2. LeaseInv /\ [WorkerNext]_workerVars => LeaseInv'
  BY InvStep, OrderStep, OnlineStep DEF LeaseInv
<1>3. LeaseInv /\ LeaseInv' /\ [WorkerNext]_workerVars => [Lease!Next]_(Lease!leaseVars)
  BY LeaseStep
<1> QED
  BY <1>1, <1>2, <1>3, LeaseInit, PTL DEF WorkerSpec, ImplementsLease, Lease!Spec
-----------------------------------------------------------------------------
(***************************************************************************)
(* What stands behind RobotsComeBack and TasksSettle and is not a matter   *)
(* of fairness: a call has a bounded number of steps left, and at any time *)
(* somebody, the clock or a worker, has the next move on every task.       *)
(***************************************************************************)

\* How many steps a call has left at most.
StepsLeft ==
    [idle |-> 0, release |-> 1, failing |-> 2, close |-> 3, finish |-> 4, defer |-> 4,
     park |-> 4, submit |-> 5, merging |-> 5, calling |-> 6, start |-> 7, claimed |-> 8]

\* No path through run_claimed_task goes in a circle, with a refused order, a
\* failure or a failure of the failure path: a call ends after eight steps, and
\* nobody else prolongs it.
CallShortens ==
    [][\A r \in Robots : pc[r] # "idle" =>
          /\ StepsLeft[pc'[r]] <= StepsLeft[pc[r]]
          /\ RunStep(r) => StepsLeft[pc'[r]] < StepsLeft[pc[r]]]_workerVars

\* A robot's row says 'busy' exactly while its worker is in a call: no way out
\* of a call leaves a robot that is refused every later claim.
RowFitsCall == \A r \in Robots : robotRow[r] = "busy" <=> pc[r] # "idle"

\* A task that was requested is queued, parked with the time of its next check,
\* in the hands of a worker whose next write leaves it in one of these states,
\* or finished: it never rests in a status no claim looks for.
InHands(t) == \E r \in Robots : job[r] = t /\ pc[r] \in Serving \cup {"failing"}

OnItsWay ==
    \A t \in Tasks :
        \/ status[t] \in {"absent", "pending", "success", "failed"}
        \/ status[t] = "waiting_wecom_online_delay" /\ check[t] \in {"later", "due"}
        \/ InHands(t)

\* StepsLeft, place by place.
LEMMA StepsLeftAt ==
    /\ StepsLeft["idle"] = 0
    /\ StepsLeft["release"] = 1 /\ StepsLeft["failing"] = 2
    /\ StepsLeft["close"] = 3
    /\ StepsLeft["finish"] = 4
    /\ StepsLeft["defer"] = 4
    /\ StepsLeft["park"] = 4
    /\ StepsLeft["submit"] = 5
    /\ StepsLeft["merging"] = 5
    /\ StepsLeft["calling"] = 6
    /\ StepsLeft["start"] = 7
    /\ StepsLeft["claimed"] = 8
BY DEF StepsLeft

\* A step of a worker brings its call nearer to its end; another's does not make
\* it longer.
LEMMA CallStep ==
    ASSUME RunnerTypeOK, [WorkerNext]_workerVars, NEW r \in Robots, pc[r] # "idle"
    PROVE  /\ StepsLeft[pc'[r]] <= StepsLeft[pc[r]]
           /\ RunStep(r) => StepsLeft[pc'[r]] < StepsLeft[pc[r]]
<1> DEFINE Fewer == StepsLeft[pc'[r]] < StepsLeft[pc[r]]
<1>a. /\ pc \in [Robots -> Serving \cup {"idle", "close", "failing", "release"}]
      /\ StepsLeft[pc[r]] \in Nat /\ StepsLeft["idle"] = 0
      /\ pc[r] # "idle" => StepsLeft[pc[r]] > 0
  BY StepsLeftAt DEF RunnerTypeOK, Serving
<1>1. ASSUME RunStep(r)
      PROVE  Fewer
  <2>a. ASSUME NEW l, Goto(r, l)
        PROVE  pc'[r] = l
    BY <2>a, <1>a DEF Goto
  <2>1. CASE ChoosePath(r) \/ StartRunning(r) \/ BindReturns(r) \/ BindRaises(r) \/ RecordOrder(r)
    <3>1. \/ pc[r] = "claimed" /\ pc'[r] \in {"submit", "start"}
          \/ pc[r] = "start" /\ pc'[r] = "calling"
          \/ pc[r] = "calling" /\ pc'[r] \in {"merging", "failing"}
          \/ pc[r] = "merging" /\ pc'[r] = "park"
      BY <2>1, <2>a DEF ChoosePath, StartRunning, BindReturns, BindRaises, RecordOrder
    <3> QED
      BY <3>1, StepsLeftAt
  <2>2. CASE ParkTask(r) \/ SubmitAccepted(r) \/ SubmitDeferred(r) \/ SubmitRaises(r)
    <3>1. \/ pc[r] = "park" /\ pc'[r] = "release"
          \/ pc[r] = "submit" /\ pc'[r] \in {"finish", "defer", "failing"}
      BY <2>2, <2>a DEF ParkTask, SubmitAccepted, SubmitDeferred, SubmitRaises
    <3> QED
      BY <3>1, StepsLeftAt
  <2>3. CASE FinishTask(r) \/ DeferTask(r) \/ SubmitPathRaises(r) \/ FailTask(r)
    <3>1. \/ pc[r] \in {"finish", "defer"} /\ pc'[r] = "close"
          \/ pc[r] \in {"submit", "finish", "defer", "close"} /\ pc'[r] = "failing"
          \/ pc[r] = "failing" /\ pc'[r] = "release"
      BY <2>3, <2>a DEF FinishTask, DeferTask, SubmitPathRaises, FailTask
    <3> QED
      BY <3>1, StepsLeftAt
  <2>4. CASE ReleaseRobot(r)
    <3>1. pc[r] \in {"close", "release"} /\ pc'[r] = "idle"
      BY <2>4, <1>a DEF ReleaseRobot
    <3> QED
      BY <3>1, StepsLeftAt
  <2> QED
    BY <1>1, <2>1, <2>2, <2>3, <2>4 DEF RunStep
<1>2. ASSUME NEW q \in Robots \ {r}, RunStep(q)
      PROVE  pc'[r] = pc[r]
  BY <1>2, <1>a DEF RunStep, ChoosePath, StartRunning, BindReturns, BindRaises, RecordOrder,
     ParkTask, SubmitAccepted, SubmitDeferred, SubmitRaises, FinishTask, DeferTask,
     SubmitPathRaises, FailTask, ReleaseRobot, Goto
<1>3. ASSUME NEW q \in Robots, Claim(q)
      PROVE  pc'[r] = pc[r]
  BY <1>3, <1>a DEF Claim
<1>4. ASSUME NEW q \in Robots, Abandon(q)
      PROVE  pc'[r] = pc[r] \/ pc'[r] = "idle"
  BY <1>4, <1>a DEF Abandon
<1>5. ASSUME NEW t \in Tasks, ReceiveWebhook(t) \/ TimePasses(t)
      PROVE  pc' = pc
  BY <1>5 DEF ReceiveWebhook, TimePasses, runnerVars
<1>6. ASSUME UNCHANGED workerVars
      PROVE  pc' = pc
  BY <1>6 DEF workerVars, runnerVars
<1>7. \/ pc'[r] = pc[r]
      \/ pc'[r] = "idle"
      \/ Fewer
  <2>1. CASE UNCHANGED workerVars
    BY <2>1, <1>6
  <2>2. CASE \E t \in Tasks : ReceiveWebhook(t) \/ TimePasses(t)
    BY <2>2, <1>5
  <2>3. CASE \E q \in Robots : Claim(q) \/ RunStep(q) \/ Abandon(q)
    <3>1. PICK q \in Robots : Claim(q) \/ RunStep(q) \/ Abandon(q)
      BY <2>3
    <3>2. CASE RunStep(q)
      BY <3>2, <1>1, <1>2
    <3> QED
      BY <3>1, <3>2, <1>3, <1>4
  <2> QED
    BY <2>1, <2>2, <2>3 DEF WorkerNext
<1>8. StepsLeft[pc'[r]] \in Nat
  <2>1. RunnerTypeOK'
    BY TypeStep
  <2> QED
    BY <2>1, StepsLeftAt DEF RunnerTypeOK, Serving
<1> QED
  BY <1>1, <1>7, <1>8, <1>a

\* Every call that was entered is over after at most eight steps of its own,
\* whatever faults occur.
THEOREM CallsGetShorter == WorkerSpec => CallShortens
<1>1. RunnerTypeOK /\ [WorkerNext]_workerVars =>
        [\A r \in Robots : pc[r] # "idle" =>
            /\ StepsLeft[pc'[r]] <= StepsLeft[pc[r]]
            /\ RunStep(r) => StepsLeft[pc'[r]] < StepsLeft[pc[r]]]_workerVars
  BY CallStep
<1> QED
  BY <1>1, TypeCorrect, PTL DEF WorkerSpec, CallShortens

\* A row becomes 'busy' with the claim and 'idle' with the end of the call.
LEMMA RowStep ==
    ASSUME "crash" \notin Faults, RunnerTypeOK, RowFitsCall, [WorkerNext]_workerVars
    PROVE  RowFitsCall'
<1> USE DEF RowFitsCall, RunnerTypeOK, StoreTypeOK, Serving
<1>1. ASSUME NEW t \in Tasks, ReceiveWebhook(t) \/ TimePasses(t)
      PROVE  RowFitsCall'
  BY <1>1 DEF ReceiveWebhook, CreateTask, TimePasses, CheckComesDue, runnerVars
<1>2. ASSUME NEW r \in Robots, Claim(r)
      PROVE  RowFitsCall'
  BY <1>2 DEF Claim, ClaimNext
<1>3. ASSUME NEW r \in Robots, RunStep(r)
      PROVE  RowFitsCall'
  <2>1. CASE ReleaseRobot(r)
    BY <2>1 DEF ReleaseRobot, SetRobot
  <2>2. CASE /\ pc[r] # "idle" /\ robotRow' = robotRow
             /\ \E l \in Serving \cup {"close", "failing", "release"} : pc' = [pc EXCEPT ![r] = l]
    BY <2>2
  <2>3. CASE ChoosePath(r) \/ StartRunning(r) \/ BindReturns(r) \/ BindRaises(r) \/ RecordOrder(r)
             \/ ParkTask(r)
    BY <2>2, <2>3 DEF ChoosePath, StartRunning, BindReturns, BindRaises, RecordOrder, ParkTask,
       Goto, SetTaskStatus, MergeOrder, storeVars
  <2>4. CASE SubmitAccepted(r) \/ SubmitDeferred(r) \/ SubmitRaises(r) \/ FinishTask(r)
             \/ DeferTask(r) \/ SubmitPathRaises(r) \/ FailTask(r)
    BY <2>2, <2>4 DEF SubmitAccepted, SubmitDeferred, SubmitRaises, FinishTask, DeferTask,
       SubmitPathRaises, FailTask, Goto, SetTaskStatus, storeVars
  <2> QED
    BY <1>3, <2>1, <2>3, <2>4 DEF RunStep
<1>4. CASE UNCHANGED workerVars
  BY <1>4 DEF workerVars, storeVars, runnerVars
<1> QED
  BY <1>1, <1>2, <1>3, <1>4 DEF WorkerNext, Abandon

\* As long as no worker dies inside a call, store errors included, no robot is
\* left 'busy' without a call.
THEOREM RowsFitCalls ==
    ASSUME "crash" \notin Faults
    PROVE  WorkerSpec => []RowFitsCall
<1>1. RunnerInit => RowFitsCall
  BY DEF RunnerInit, StoreInit, RowFitsCall
<1>2. RunnerTypeOK /\ RowFitsCall /\ [WorkerNext]_workerVars => RowFitsCall'
  BY RowStep
<1> QED
  BY <1>1, <1>2, TypeCorrect, PTL DEF WorkerSpec

\* A worker's write leaves its task on its way, or the task in its hands; every
\* other task is where it was.
LEMMA OnItsWayStep ==
    ASSUME "crash" \notin Faults, IInv, OnItsWay, [WorkerNext]_workerVars
    PROVE  OnItsWay'
<1> USE RunnerAssumption DEF IInv, RunnerTypeOK, StoreTypeOK, OnItsWay, InHands, Serving, BindStatus
<1>1. ASSUME NEW t \in Tasks, ReceiveWebhook(t)
      PROVE  OnItsWay'
  BY <1>1 DEF ReceiveWebhook, CreateTask, Exists, runnerVars
<1>2. ASSUME NEW t \in Tasks, TimePasses(t)
      PROVE  OnItsWay'
  BY <1>2 DEF TimePasses, CheckComesDue, runnerVars
<1>3. ASSUME NEW r \in Robots, Claim(r)
      PROVE  OnItsWay'
  BY <1>3 DEF Claim, ClaimNext
<1>4. ASSUME NEW r \in Robots, RunStep(r)
      PROVE  OnItsWay'
  <2>1. CASE ChoosePath(r)
    BY <2>1, <1>4 DEF ChoosePath, Goto, storeVars, taskRow
  <2>2. CASE StartRunning(r)
    BY <2>2, <1>4 DEF StartRunning, Goto, SetTaskStatus
  <2>3. CASE BindReturns(r) \/ BindRaises(r)
    BY <2>3, <1>4 DEF BindReturns, BindRaises, Goto, storeVars, taskRow
  <2>4. CASE RecordOrder(r)
    BY <2>4, <1>4 DEF RecordOrder, Goto, MergeOrder, taskRow
  <2>5. CASE ParkTask(r) \/ DeferTask(r)
    BY <2>5, <1>4 DEF ParkTask, DeferTask, Goto, SetTaskStatus
  <2>6. CASE SubmitAccepted(r) \/ SubmitDeferred(r) \/ SubmitRaises(r) \/ SubmitPathRaises(r)
    BY <2>6, <1>4 DEF SubmitAccepted, SubmitDeferred, SubmitRaises, SubmitPathRaises, Goto,
       storeVars, taskRow
  <2>7. CASE FinishTask(r) \/ FailTask(r)
    BY <2>7, <1>4 DEF FinishTask, FailTask, Goto, SetTaskStatus
  <2>8. CASE ReleaseRobot(r)
    BY <2>8, <1>4 DEF ReleaseRobot, SetRobot, taskRow
  <2> QED
    BY <1>4, <2>1, <2>2, <2>3, <2>4, <2>5, <2>6, <2>7, <2>8 DEF RunStep
<1>5. CASE UNCHANGED workerVars
  BY <1>5 DEF workerVars, storeVars, taskRow, runnerVars
<1> QED
  BY <1>1, <1>2, <1>3, <1>4, <1>5 DEF WorkerNext, Abandon

\* As long as no worker dies inside a call, no task ever rests where nobody
\* looks for it: what the back offices answer and store errors make no
\* difference.
THEOREM TasksOnTheirWay ==
    ASSUME "crash" \notin Faults
    PROVE  WorkerSpec => []OnItsWay
<1>1. RunnerInit => OnItsWay
  BY DEF RunnerInit, StoreInit, OnItsWay
<1>2. IInv /\ OnItsWay /\ [WorkerNext]_workerVars => OnItsWay'
  BY OnItsWayStep
<1> QED
  BY <1>1, <1>2, Invariant, PTL DEF WorkerSpec
=============================================================================
