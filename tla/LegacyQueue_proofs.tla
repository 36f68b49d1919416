------------------------- MODULE LegacyQueue_proofs -------------------------
(***************************************************************************)
(* Proofs of the safety properties of LegacyQueue for every set of task    *)
(* ids and every number of alerts and restarts.                            *)
(***************************************************************************)
EXTENDS LegacyQueue, TLAPS

\* Every action keeps the variables in their types.
LEMMA TypeStep ==
    ASSUME TypeOK, [Next]_vars
    PROVE  TypeOK'
<1> USE QueueAssumption
    DEF vars, tasksTable, queueState, worker, history,
        Exists, TypeOK, Outcome, RowStatus, NoHandler, Handlers
<1>1. CASE PollPause
    BY <1>1 DEF PollPause
<1>2. CASE PickTask
    BY <1>2 DEF PickTask, Oldest
<1>3. CASE MarkRunning
    BY <1>3 DEF MarkRunning
<1>4. CASE ExecuteWorkflow
    BY <1>4 DEF ExecuteWorkflow
<1>5. CASE Report
    BY <1>5 DEF Report
<1>6. CASE StoreRaises
    BY <1>6 DEF StoreRaises
<1>7. CASE Detect
  <2>1. issued + 1 \in Nat
    BY DEF TypeOK
  <2>2. QED
    BY <1>7, <2>1 DEF Detect
<1>8. CASE TokenExpires
    BY <1>8 DEF TokenExpires
<1>9. ASSUME NEW t \in Tasks, Submit(t)
      PROVE  TypeOK'
    BY <1>9 DEF Submit, SaveTask
<1>10. ASSUME NEW t \in Tasks, ReadRetry(t)
      PROVE  TypeOK'
    BY <1>10 DEF ReadRetry, NoHandler
<1>11. ASSUME NEW link \in 1..issued, CheckToken(link)
      PROVE  TypeOK'
    BY <1>11 DEF CheckToken, NoHandler
<1>12. CASE ForceResume
    BY <1>12 DEF ForceResume, DeleteKeys
<1>13. CASE ResumeByToken
    BY <1>13 DEF ResumeByToken, DeleteKeys
<1>14. ASSUME NEW new \in Tasks, CopyTask(new)
      PROVE  TypeOK'
    BY <1>14 DEF CopyTask, SaveTask
<1>15. CASE MarkRetried
    BY <1>15 DEF MarkRetried
<1>16. CASE Restart
    BY <1>16 DEF Restart
<1>17. CASE UNCHANGED vars
    BY <1>17
<1>18. QED
    BY <1>1, <1>2, <1>3, <1>4, <1>5, <1>6, <1>7, <1>8, <1>9, <1>10, <1>11, <1>12,
       <1>13, <1>14, <1>15, <1>16, <1>17 DEF Next, WorkerStep, HandlerStep

\* Every action keeps the bound on executions.
LEMMA RunsStep ==
    ASSUME TypeOK, TypeOK', WorkersRow, RunInHand, RunsBounded, [Next]_vars
    PROVE  (WorkersRow /\ RunInHand /\ RunsBounded)'
<1> USE QueueAssumption
    DEF vars, tasksTable, queueState, worker, history,
        Exists, TypeOK, WorkersRow, RunInHand, RunsBounded, Outcome
<1>1. CASE PollPause
    BY <1>1 DEF PollPause
<1>2. CASE PickTask
    BY <1>2 DEF PickTask, Oldest
<1>3. CASE MarkRunning
    BY <1>3 DEF MarkRunning
<1>4. CASE ExecuteWorkflow
    BY <1>4 DEF ExecuteWorkflow
<1>5. CASE Report
    BY <1>5 DEF Report
<1>6. CASE StoreRaises
    BY <1>6 DEF StoreRaises
<1>7. CASE Detect
    BY <1>7 DEF Detect
<1>8. CASE TokenExpires
    BY <1>8 DEF TokenExpires
<1>9. ASSUME NEW t \in Tasks, Submit(t)
      PROVE  (WorkersRow /\ RunInHand /\ RunsBounded)'
    BY <1>9 DEF Submit, SaveTask
<1>10. ASSUME NEW t \in Tasks, ReadRetry(t)
      PROVE  (WorkersRow /\ RunInHand /\ RunsBounded)'
    BY <1>10 DEF ReadRetry, NoHandler
<1>11. ASSUME NEW link \in 1..issued, CheckToken(link)
      PROVE  (WorkersRow /\ RunInHand /\ RunsBounded)'
    BY <1>11 DEF CheckToken, NoHandler
<1>12. CASE ForceResume
    BY <1>12 DEF ForceResume, DeleteKeys
<1>13. CASE ResumeByToken
    BY <1>13 DEF ResumeByToken, DeleteKeys
<1>14. ASSUME NEW new \in Tasks, CopyTask(new)
      PROVE  (WorkersRow /\ RunInHand /\ RunsBounded)'
    BY <1>14 DEF CopyTask, SaveTask
<1>15. CASE MarkRetried
    BY <1>15 DEF MarkRetried
<1>16. CASE Restart
    BY <1>16 DEF Restart
<1>17. CASE UNCHANGED vars
    BY <1>17
<1>18. QED
    BY <1>1, <1>2, <1>3, <1>4, <1>5, <1>6, <1>7, <1>8, <1>9, <1>10, <1>11, <1>12,
       <1>13, <1>14, <1>15, <1>16, <1>17 DEF Next, WorkerStep, HandlerStep

\* Every action keeps the copy of a retried row.
LEMMA CopyStep ==
    ASSUME TypeOK, TypeOK', CopyFirst, RetriedHasCopy, [Next]_vars
    PROVE  (CopyFirst /\ RetriedHasCopy)'
<1> USE QueueAssumption
    DEF vars, tasksTable, queueState, worker, history,
        Exists, TypeOK, CopyFirst, RetriedHasCopy, Outcome, NoHandler, Handlers
<1>1. CASE PollPause
    BY <1>1 DEF PollPause
<1>2. CASE PickTask
    BY <1>2 DEF PickTask, Oldest
<1>3. CASE MarkRunning
    BY <1>3 DEF MarkRunning
<1>4. CASE ExecuteWorkflow
    BY <1>4 DEF ExecuteWorkflow
<1>5. CASE Report
    BY <1>5 DEF Report
<1>6. CASE StoreRaises
    BY <1>6 DEF StoreRaises
<1>7. CASE Detect
    BY <1>7 DEF Detect
<1>8. CASE TokenExpires
    BY <1>8 DEF TokenExpires
<1>9. ASSUME NEW t \in Tasks, Submit(t)
      PROVE  (CopyFirst /\ RetriedHasCopy)'
    BY <1>9 DEF Submit, SaveTask
<1>10. ASSUME NEW t \in Tasks, ReadRetry(t)
      PROVE  (CopyFirst /\ RetriedHasCopy)'
    BY <1>10 DEF ReadRetry, NoHandler
<1>11. ASSUME NEW link \in 1..issued, CheckToken(link)
      PROVE  (CopyFirst /\ RetriedHasCopy)'
    BY <1>11 DEF CheckToken, NoHandler
<1>12. CASE ForceResume
    BY <1>12 DEF ForceResume, DeleteKeys
<1>13. CASE ResumeByToken
    BY <1>13 DEF ResumeByToken, DeleteKeys
<1>14. ASSUME NEW new \in Tasks, CopyTask(new)
      PROVE  (CopyFirst /\ RetriedHasCopy)'
    BY <1>14 DEF CopyTask, SaveTask
<1>15. CASE MarkRetried
    BY <1>15 DEF MarkRetried
<1>16. CASE Restart
    BY <1>16 DEF Restart
<1>17. CASE UNCHANGED vars
    BY <1>17
<1>18. QED
    BY <1>1, <1>2, <1>3, <1>4, <1>5, <1>6, <1>7, <1>8, <1>9, <1>10, <1>11, <1>12,
       <1>13, <1>14, <1>15, <1>16, <1>17 DEF Next, WorkerStep, HandlerStep

\* Without failing database calls every action keeps the running row with the
\* worker.
LEMMA ServedStep ==
    ASSUME StoreFaults = FALSE, TypeOK, TypeOK', RunningIsServed, [Next]_vars
    PROVE  RunningIsServed'
<1> USE QueueAssumption
    DEF vars, tasksTable, queueState, worker, history,
        Exists, TypeOK, RunningIsServed, Outcome
<1>1. CASE PollPause
    BY <1>1 DEF PollPause
<1>2. CASE PickTask
    BY <1>2 DEF PickTask, Oldest
<1>3. CASE MarkRunning
    BY <1>3 DEF MarkRunning
<1>4. CASE ExecuteWorkflow
    BY <1>4 DEF ExecuteWorkflow
<1>5. CASE Report
    BY <1>5 DEF Report
<1>6. CASE StoreRaises
    BY <1>6 DEF StoreRaises
<1>7. CASE Detect
    BY <1>7 DEF Detect
<1>8. CASE TokenExpires
    BY <1>8 DEF TokenExpires
<1>9. ASSUME NEW t \in Tasks, Submit(t)
      PROVE  RunningIsServed'
    BY <1>9 DEF Submit, SaveTask
<1>10. ASSUME NEW t \in Tasks, ReadRetry(t)
      PROVE  RunningIsServed'
    BY <1>10 DEF ReadRetry, NoHandler
<1>11. ASSUME NEW link \in 1..issued, CheckToken(link)
      PROVE  RunningIsServed'
    BY <1>11 DEF CheckToken, NoHandler
<1>12. CASE ForceResume
    BY <1>12 DEF ForceResume, DeleteKeys
<1>13. CASE ResumeByToken
    BY <1>13 DEF ResumeByToken, DeleteKeys
<1>14. ASSUME NEW new \in Tasks, CopyTask(new)
      PROVE  RunningIsServed'
    BY <1>14 DEF CopyTask, SaveTask
<1>15. CASE MarkRetried
    BY <1>15 DEF MarkRetried
<1>16. CASE Restart
    BY <1>16 DEF Restart
<1>17. CASE UNCHANGED vars
    BY <1>17
<1>18. QED
    BY <1>1, <1>2, <1>3, <1>4, <1>5, <1>6, <1>7, <1>8, <1>9, <1>10, <1>11, <1>12,
       <1>13, <1>14, <1>15, <1>16, <1>17 DEF Next, WorkerStep, HandlerStep

\* Every action keeps the count of starts during a pause.
LEMMA PauseStep ==
    ASSUME TypeOK, TypeOK', PauseInv, [Next]_vars
    PROVE  PauseInv'
<1> USE QueueAssumption
    DEF vars, tasksTable, queueState, worker, history,
        TypeOK, PauseInv, PauseHolds
<1>1. CASE PollPause
    BY <1>1 DEF PollPause
<1>2. CASE PickTask
    BY <1>2 DEF PickTask, Oldest
<1>3. CASE MarkRunning
    BY <1>3 DEF MarkRunning
<1>4. CASE ExecuteWorkflow
    BY <1>4 DEF ExecuteWorkflow
<1>5. CASE Report
    BY <1>5 DEF Report
<1>6. CASE StoreRaises
    BY <1>6 DEF StoreRaises
<1>7. CASE Detect
    BY <1>7 DEF Detect
<1>8. CASE TokenExpires
    BY <1>8 DEF TokenExpires
<1>9. ASSUME NEW t \in Tasks, Submit(t)
      PROVE  PauseInv'
    BY <1>9 DEF Submit, SaveTask
<1>10. ASSUME NEW t \in Tasks, ReadRetry(t)
      PROVE  PauseInv'
    BY <1>10 DEF ReadRetry, NoHandler
<1>11. ASSUME NEW link \in 1..issued, CheckToken(link)
      PROVE  PauseInv'
    BY <1>11 DEF CheckToken, NoHandler
<1>12. CASE ForceResume
    BY <1>12 DEF ForceResume, DeleteKeys
<1>13. CASE ResumeByToken
    BY <1>13 DEF ResumeByToken, DeleteKeys
<1>14. ASSUME NEW new \in Tasks, CopyTask(new)
      PROVE  PauseInv'
    BY <1>14 DEF CopyTask, SaveTask
<1>15. CASE MarkRetried
    BY <1>15 DEF MarkRetried
<1>16. CASE Restart
    BY <1>16 DEF Restart
<1>17. CASE UNCHANGED vars
    BY <1>17
<1>18. QED
    BY <1>1, <1>2, <1>3, <1>4, <1>5, <1>6, <1>7, <1>8, <1>9, <1>10, <1>11, <1>12,
       <1>13, <1>14, <1>15, <1>16, <1>17 DEF Next, WorkerStep, HandlerStep

\* Every action keeps the order of executions.
LEMMA OrderStep ==
    ASSUME TypeOK, TypeOK', WorkersRow, OrderInv, [Next]_vars
    PROVE  OrderInv'
<1> USE QueueAssumption
    DEF vars, tasksTable, queueState, worker, history,
        Exists, TypeOK, WorkersRow, OrderInv, NoOvertaking, Outcome
<1>1. CASE PollPause
    BY <1>1 DEF PollPause
<1>2. CASE PickTask
    BY <1>2 DEF PickTask, Oldest
<1>3. CASE MarkRunning
    BY <1>3 DEF MarkRunning
<1>4. CASE ExecuteWorkflow
    BY <1>4 DEF ExecuteWorkflow
<1>5. CASE Report
    BY <1>5 DEF Report
<1>6. CASE StoreRaises
    BY <1>6 DEF StoreRaises
<1>7. CASE Detect
    BY <1>7 DEF Detect
<1>8. CASE TokenExpires
    BY <1>8 DEF TokenExpires
<1>9. ASSUME NEW new \in Tasks, NEW from, SaveTask(new, from), UNCHANGED <<worker, history>>
      PROVE  OrderInv'
  <2>1. \A u \in Tasks : born[u] <= born'[new]
    BY <1>9 DEF SaveTask
  <2>2. \A u \in Tasks \ {new} : born'[u] = born[u] /\ status'[u] = status[u]
    BY <1>9 DEF SaveTask
  <2>3. ~Exists(new) /\ runs[new] = 0
    BY <1>9 DEF SaveTask
  <2>4. pc \in {"picked", "execute"} => born'[cur] = born[cur]
    BY <2>2, <2>3
  <2> QED
    BY <1>9, <2>1, <2>2, <2>3, <2>4 DEF SaveTask
<1>10. ASSUME NEW t \in Tasks, ReadRetry(t)
      PROVE  OrderInv'
    BY <1>10 DEF ReadRetry, NoHandler
<1>11. ASSUME NEW link \in 1..issued, CheckToken(link)
      PROVE  OrderInv'
    BY <1>11 DEF CheckToken, NoHandler
<1>12. CASE ForceResume
    BY <1>12 DEF ForceResume, DeleteKeys
<1>13. CASE ResumeByToken
    BY <1>13 DEF ResumeByToken, DeleteKeys
<1>14. ASSUME NEW t \in Tasks, Submit(t) \/ CopyTask(t)
      PROVE  OrderInv'
    BY <1>9, <1>14 DEF Submit, CopyTask
<1>15. CASE MarkRetried
    BY <1>15 DEF MarkRetried
<1>16. CASE Restart
    BY <1>16 DEF Restart
<1>17. CASE UNCHANGED vars
    BY <1>17
<1>18. QED
    BY <1>1, <1>2, <1>3, <1>4, <1>5, <1>6, <1>7, <1>8, <1>10, <1>11, <1>12,
       <1>13, <1>14, <1>15, <1>16, <1>17 DEF Next, WorkerStep, HandlerStep

\* The invariant holds initially.
LEMMA InitHolds == Init => IInv /\ RunningIsServed
<1> SUFFICES ASSUME Init PROVE IInv /\ RunningIsServed
    OBVIOUS
<1>1. TypeOK
    BY QueueAssumption DEF Init, TypeOK, RowStatus, Outcome, Handlers
<1>2. WorkersRow /\ RunInHand /\ RunsBounded
    BY DEF Init, WorkersRow, RunInHand, RunsBounded
<1>3. CopyFirst /\ RetriedHasCopy /\ RunningIsServed
    BY DEF Init, CopyFirst, RetriedHasCopy, RunningIsServed, Exists, NoHandler
<1>4. QED
    BY <1>1, <1>2, <1>3 DEF IInv

\* IInv is inductive.
LEMMA IInvHolds == Spec => []IInv
<1>1. Init => IInv
    BY InitHolds
<1>2. IInv /\ [Next]_vars => IInv'
    BY TypeStep, RunsStep, CopyStep DEF IInv
<1>3. QED
    BY <1>1, <1>2, PTL DEF Spec

\* Type correctness of the queue.
THEOREM QueueTypes == Spec => []TypeOK
<1>1. IInv => TypeOK
    BY DEF IInv
<1>2. QED
    BY <1>1, IInvHolds, PTL

\* The worker executes a row once, and once more for each restart that found
\* it running, whatever the handlers, the monitor and the database do.
THEOREM ExecutionsBounded == Spec => []RunsBounded
<1>1. IInv => RunsBounded
    BY DEF IInv
<1>2. QED
    BY <1>1, IInvHolds, PTL

\* A retry keeps the work: a row marked 'retried' has its copy.
THEOREM RetryKeepsWork == Spec => []RetriedHasCopy
<1>1. IInv => RetriedHasCopy
    BY DEF IInv
<1>2. QED
    BY <1>1, IInvHolds, PTL

\* With a database that answers, only the row in the worker's hands is marked
\* 'running'.
THEOREM RunningServed == ASSUME StoreFaults = FALSE PROVE Spec => []RunningIsServed
<1>1. Init => IInv /\ RunningIsServed
    BY InitHolds
<1>2. IInv /\ RunningIsServed /\ [Next]_vars => IInv' /\ RunningIsServed'
    BY TypeStep, RunsStep, CopyStep, ServedStep DEF IInv
<1>3. QED
    BY <1>1, <1>2, PTL DEF Spec

\* A pause lets at most one more task start.
THEOREM PauseStopsTheQueue == Spec => []PauseHolds
<1>1. Init => TypeOK /\ PauseInv
    BY InitHolds DEF Init, IInv, PauseInv, PauseHolds
<1>2. TypeOK /\ PauseInv /\ [Next]_vars => TypeOK' /\ PauseInv'
    BY TypeStep, PauseStep
<1>3. PauseInv => PauseHolds
    BY DEF PauseInv
<1>4. QED
    BY <1>1, <1>2, <1>3, PTL DEF Spec

\* Rows are executed in the order of their creation, unless a restart put one
\* back.
THEOREM RowsKeepTheirOrder == Spec => []NoOvertaking
<1>1. Init => IInv /\ OrderInv
    BY InitHolds DEF Init, OrderInv, NoOvertaking
<1>2. IInv /\ OrderInv /\ [Next]_vars => IInv' /\ OrderInv'
    BY TypeStep, RunsStep, CopyStep, OrderStep DEF IInv
<1>3. OrderInv => NoOvertaking
    BY DEF OrderInv
<1>4. QED
    BY <1>1, <1>2, <1>3, PTL DEF Spec

-----------------------------------------------------------------------------
(***************************************************************************)
(* What becomes of a row that has its outcome.                             *)
(***************************************************************************)

\* A row that has its outcome is never queued or executed again and its outcome
\* never changes: a retry, which makes a copy, may only mark it.
OutcomesKept ==
    [][\A t \in Tasks : status[t] \in Outcome => status'[t] \in {status[t], "retried"}]_vars

\* No row has an outcome without its workflow having run.
OutcomeRan == \A t \in Tasks : status[t] \in Outcome => runs[t] > 0

\* Behind these two: the row in the worker's hands has no outcome yet, and has
\* run when one is reported.
HeldIsOpen ==
    /\ pc \in {"picked", "execute", "report"} => status[cur] \notin Outcome
    /\ pc = "report" => runs[cur] > 0

\* A copy is of another row, which is still there.
CopyOfARow == \A t \in Tasks : parent[t] # NoTask => Exists(parent[t]) /\ parent[t] # t

\* Behind it: a retry in progress is about a row that is there.
RetryOfARow == handler.at \in {"copy", "mark"} => Exists(handler.task)

\* Every action keeps the open row with the worker.
LEMMA OutcomeStep ==
    ASSUME TypeOK, TypeOK', WorkersRow, OutcomeRan, HeldIsOpen, [Next]_vars
    PROVE  (OutcomeRan /\ HeldIsOpen)'
<1> USE QueueAssumption
    DEF vars, tasksTable, queueState, worker, history,
        Exists, TypeOK, WorkersRow, OutcomeRan, HeldIsOpen, Outcome
<1>1. CASE PollPause
    BY <1>1 DEF PollPause
<1>2. CASE PickTask
    BY <1>2 DEF PickTask, Oldest
<1>3. CASE MarkRunning
    BY <1>3 DEF MarkRunning
<1>4. CASE ExecuteWorkflow
    BY <1>4 DEF ExecuteWorkflow
<1>5. CASE Report
    BY <1>5 DEF Report
<1>6. CASE StoreRaises
    BY <1>6 DEF StoreRaises
<1>7. CASE Detect
    BY <1>7 DEF Detect
<1>8. CASE TokenExpires
    BY <1>8 DEF TokenExpires
<1>9. ASSUME NEW t \in Tasks, Submit(t)
      PROVE  (OutcomeRan /\ HeldIsOpen)'
    BY <1>9 DEF Submit, SaveTask
<1>10. ASSUME NEW t \in Tasks, ReadRetry(t)
      PROVE  (OutcomeRan /\ HeldIsOpen)'
    BY <1>10 DEF ReadRetry, NoHandler
<1>11. ASSUME NEW link \in 1..issued, CheckToken(link)
      PROVE  (OutcomeRan /\ HeldIsOpen)'
    BY <1>11 DEF CheckToken, NoHandler
<1>12. CASE ForceResume
    BY <1>12 DEF ForceResume, DeleteKeys
<1>13. CASE ResumeByToken
    BY <1>13 DEF ResumeByToken, DeleteKeys
<1>14. ASSUME NEW new \in Tasks, CopyTask(new)
      PROVE  (OutcomeRan /\ HeldIsOpen)'
    BY <1>14 DEF CopyTask, SaveTask
<1>15. CASE MarkRetried
    BY <1>15 DEF MarkRetried
<1>16. CASE Restart
    BY <1>16 DEF Restart
<1>17. CASE UNCHANGED vars
    BY <1>17
<1>18. QED
    BY <1>1, <1>2, <1>3, <1>4, <1>5, <1>6, <1>7, <1>8, <1>9, <1>10, <1>11, <1>12,
       <1>13, <1>14, <1>15, <1>16, <1>17 DEF Next, WorkerStep, HandlerStep

\* No action but a retry changes a row that has its outcome.
LEMMA KeptStep ==
    ASSUME TypeOK, HeldIsOpen, NEW r \in Tasks, status[r] \in Outcome, [Next]_vars
    PROVE  status'[r] \in {status[r], "retried"}
<1> USE QueueAssumption
    DEF vars, tasksTable, queueState, worker, history,
        Exists, TypeOK, HeldIsOpen, Outcome
<1>1. CASE PollPause
    BY <1>1 DEF PollPause
<1>2. CASE PickTask
    BY <1>2 DEF PickTask, Oldest
<1>3. CASE MarkRunning
    BY <1>3 DEF MarkRunning
<1>4. CASE ExecuteWorkflow
    BY <1>4 DEF ExecuteWorkflow
<1>5. CASE Report
    BY <1>5 DEF Report
<1>6. CASE StoreRaises
    BY <1>6 DEF StoreRaises
<1>7. CASE Detect
    BY <1>7 DEF Detect
<1>8. CASE TokenExpires
    BY <1>8 DEF TokenExpires
<1>9. ASSUME NEW t \in Tasks, Submit(t)
      PROVE  status'[r] \in {status[r], "retried"}
    BY <1>9 DEF Submit, SaveTask
<1>10. ASSUME NEW t \in Tasks, ReadRetry(t)
      PROVE  status'[r] \in {status[r], "retried"}
    BY <1>10 DEF ReadRetry, NoHandler
<1>11. ASSUME NEW link \in 1..issued, CheckToken(link)
      PROVE  status'[r] \in {status[r], "retried"}
    BY <1>11 DEF CheckToken, NoHandler
<1>12. CASE ForceResume
    BY <1>12 DEF ForceResume, DeleteKeys
<1>13. CASE ResumeByToken
    BY <1>13 DEF ResumeByToken, DeleteKeys
<1>14. ASSUME NEW new \in Tasks, CopyTask(new)
      PROVE  status'[r] \in {status[r], "retried"}
    BY <1>14 DEF CopyTask, SaveTask
<1>15. CASE MarkRetried
    BY <1>15 DEF MarkRetried
<1>16. CASE Restart
    BY <1>16 DEF Restart
<1>17. CASE UNCHANGED vars
    BY <1>17
<1>18. QED
    BY <1>1, <1>2, <1>3, <1>4, <1>5, <1>6, <1>7, <1>8, <1>9, <1>10, <1>11, <1>12,
       <1>13, <1>14, <1>15, <1>16, <1>17 DEF Next, WorkerStep, HandlerStep

\* Every action keeps the originals of the copies.
LEMMA CopyOfStep ==
    ASSUME TypeOK, TypeOK', CopyOfARow, RetryOfARow, [Next]_vars
    PROVE  (CopyOfARow /\ RetryOfARow)'
<1> USE QueueAssumption
    DEF vars, tasksTable, queueState, worker, history,
        Exists, TypeOK, CopyOfARow, RetryOfARow, Outcome, RowStatus, NoHandler, Handlers
<1>1. CASE PollPause
    BY <1>1 DEF PollPause
<1>2. CASE PickTask
    BY <1>2 DEF PickTask, Oldest
<1>3. CASE MarkRunning
    BY <1>3 DEF MarkRunning
<1>4. CASE ExecuteWorkflow
    BY <1>4 DEF ExecuteWorkflow
<1>5. CASE Report
    BY <1>5 DEF Report
<1>6. CASE StoreRaises
    BY <1>6 DEF StoreRaises
<1>7. CASE Detect
    BY <1>7 DEF Detect
<1>8. CASE TokenExpires
    BY <1>8 DEF TokenExpires
<1>9. ASSUME NEW t \in Tasks, Submit(t)
      PROVE  (CopyOfARow /\ RetryOfARow)'
    BY <1>9 DEF Submit, SaveTask
<1>10. ASSUME NEW t \in Tasks, ReadRetry(t)
      PROVE  (CopyOfARow /\ RetryOfARow)'
    BY <1>10 DEF ReadRetry, NoHandler
<1>11. ASSUME NEW link \in 1..issued, CheckToken(link)
      PROVE  (CopyOfARow /\ RetryOfARow)'
    BY <1>11 DEF CheckToken, NoHandler
<1>12. CASE ForceResume
    BY <1>12 DEF ForceResume, DeleteKeys
<1>13. CASE ResumeByToken
    BY <1>13 DEF ResumeByToken, DeleteKeys
<1>14. ASSUME NEW new \in Tasks, CopyTask(new)
      PROVE  (CopyOfARow /\ RetryOfARow)'
    BY <1>14 DEF CopyTask, SaveTask
<1>15. CASE MarkRetried
    BY <1>15 DEF MarkRetried
<1>16. CASE Restart
    BY <1>16 DEF Restart
<1>17. CASE UNCHANGED vars
    BY <1>17
<1>18. QED
    BY <1>1, <1>2, <1>3, <1>4, <1>5, <1>6, <1>7, <1>8, <1>9, <1>10, <1>11, <1>12,
       <1>13, <1>14, <1>15, <1>16, <1>17 DEF Next, WorkerStep, HandlerStep

\* The three invariants together.
LEMMA OutcomesHold == Spec => [](IInv /\ OutcomeRan /\ HeldIsOpen)
<1>1. Init => IInv /\ OutcomeRan /\ HeldIsOpen
    BY InitHolds DEF Init, OutcomeRan, HeldIsOpen, Outcome
<1>2. IInv /\ OutcomeRan /\ HeldIsOpen /\ [Next]_vars => IInv' /\ OutcomeRan' /\ HeldIsOpen'
    BY TypeStep, RunsStep, CopyStep, OutcomeStep DEF IInv
<1>3. QED
    BY <1>1, <1>2, PTL DEF Spec

\* An outcome is final but for the mark of a retry, whatever restarts, retries,
\* pauses and failing database calls there are.
THEOREM OutcomesAreFinal == Spec => OutcomesKept
<1>1. IInv /\ HeldIsOpen /\ [Next]_vars =>
        [\A t \in Tasks : status[t] \in Outcome => status'[t] \in {status[t], "retried"}]_vars
    BY KeptStep DEF IInv
<1>2. QED
    BY <1>1, OutcomesHold, PTL DEF Spec, OutcomesKept

\* Every outcome is the outcome of an execution.
THEOREM OutcomesAreEarned == Spec => []OutcomeRan
    BY OutcomesHold, PTL

\* Every copy has its original, even if the process dies inside the retry.
THEOREM CopiesHaveOriginals == Spec => []CopyOfARow
<1>1. Init => TypeOK /\ CopyOfARow /\ RetryOfARow
    BY InitHolds DEF Init, IInv, CopyOfARow, RetryOfARow, NoHandler
<1>2. TypeOK /\ CopyOfARow /\ RetryOfARow /\ [Next]_vars => TypeOK' /\ CopyOfARow' /\ RetryOfARow'
    BY TypeStep, CopyOfStep
<1>3. QED
    BY <1>1, <1>2, PTL DEF Spec
=============================================================================
