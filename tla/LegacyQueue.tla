---------------------------- MODULE LegacyQueue ----------------------------
(***************************************************************************)
(* The legacy RPA program: one process with a SQLite file, in which three  *)
(* threads share the tasks and queue_state tables.                         *)
(*                                                                         *)
(*   - the queue worker (queue_worker.py) polls the pause flag, picks the  *)
(*     oldest pending row, marks it running, executes the workflow and     *)
(*     writes the outcome;                                                 *)
(*   - the monitor (RPA.py) pauses the queue when it sees the risk-control *)
(*     picture, and sends a link with a fresh resume token;                *)
(*   - the event loop (RPA.py) runs the HTTP handlers.  They are async     *)
(*     functions that never await, so at most one is in progress.          *)
(*                                                                         *)
(* Each call of database.py is one step; between two calls of a thread the *)
(* others may make theirs, or the process may die and be started again.    *)
(***************************************************************************)
EXTENDS Integers, FiniteSets

CONSTANTS
    Tasks,        \* task ids (uuid4: never drawn twice)
    NoTask,
    MaxAlerts,    \* bound: times the monitor pauses the queue
    MaxRestarts,  \* bound: times the process dies
    StoreFaults   \* whether a database call of the worker may raise

ASSUME QueueAssumption ==
    /\ NoTask \notin Tasks
    /\ MaxAlerts \in Nat
    /\ MaxRestarts \in Nat
    /\ StoreFaults \in BOOLEAN

VARIABLES
    status,    \* tasks.status, "absent" while there is no row
    born,      \* tasks.created_at, as a rank; one second may see several rows
    paused,    \* queue_state: queue_paused
    token,     \* queue_state: resume_token, 0 if absent
    stale,     \* its expires_at has passed
    pc,        \* where _worker_loop is
    cur,       \* its task
    outcome,   \* what the workflow it executed returned or raised
    handler,   \* the HTTP handler between two of its database calls
    \* history
    parent,    \* the row a retry copied this one from
    runs,      \* times the workflow was executed for the row
    cut,       \* restarts that found the row running
    slipped,   \* tasks started during the current pause
    issued,    \* resume tokens drawn
    restarts

tasksTable == <<status, born, parent>>
queueState == <<paused, token, stale, issued>>
worker == <<pc, cur, outcome>>
history == <<runs, cut, slipped, restarts>>
vars == <<tasksTable, queueState, worker, handler, history>>

Outcome == {"success", "failed", "group_not_found"}
RowStatus == {"pending", "running", "retried"} \cup Outcome

Exists(t) == status[t] # "absent"

\* A handler in progress, at the named point, with the task or token it is about.
NoHandler == [at |-> "none"]
Handlers ==
    {NoHandler} \cup [at : {"copy", "mark"}, task : Tasks] \cup [at : {"resume"}, link : Nat]

Init ==
    /\ status = [t \in Tasks |-> "absent"]
    /\ born = [t \in Tasks |-> 0]
    /\ parent = [t \in Tasks |-> NoTask]
    /\ paused = FALSE /\ token = 0 /\ stale = FALSE /\ issued = 0
    /\ pc = "poll" /\ cur = NoTask /\ outcome = "none"
    /\ handler = NoHandler
    /\ runs = [t \in Tasks |-> 0]
    /\ cut = [t \in Tasks |-> 0]
    /\ slipped = 0 /\ restarts = 0

TypeOK ==
    /\ status \in [Tasks -> RowStatus \cup {"absent"}]
    /\ born \in [Tasks -> Nat]
    /\ parent \in [Tasks -> Tasks \cup {NoTask}]
    /\ paused \in BOOLEAN /\ token \in Nat /\ stale \in BOOLEAN /\ issued \in Nat
    /\ pc \in {"poll", "pick", "picked", "execute", "report"}
    /\ cur \in Tasks \cup {NoTask}
    /\ cur \in Tasks <=> pc \in {"picked", "execute", "report"}
    /\ outcome \in Outcome \cup {"none"}
    /\ pc = "report" => outcome \in Outcome
    /\ handler \in Handlers
    /\ runs \in [Tasks -> Nat]
    /\ cut \in [Tasks -> Nat]
    /\ slipped \in Nat /\ restarts \in Nat
-----------------------------------------------------------------------------
(***************************************************************************)
(* The worker thread.                                                      *)
(***************************************************************************)

\* Mutant of PollPause: the pause flag is not read.
PollIgnoresPause ==
    /\ pc = "poll"
    /\ pc' = "pick"
    /\ UNCHANGED <<cur, outcome, tasksTable, queueState, handler, history>>

\* A paused queue is looked at again after TASK_RETRY_DELAY.
PollPause ==
    /\ pc = "poll"
    /\ ~paused
    /\ pc' = "pick"
    /\ UNCHANGED <<cur, outcome, tasksTable, queueState, handler, history>>

\* Mutant of Oldest: no ORDER BY.
AnyPending(t) == status[t] = "pending"

Oldest(t) ==
    /\ status[t] = "pending"
    /\ \A u \in Tasks : status[u] = "pending" => born[t] <= born[u]

\* get_next_pending_task.  Its statuses other than 'pending', which the loop
\* tests next, cannot come out of this query.
PickTask ==
    /\ pc = "pick"
    /\ \/ \E t \in Tasks : Oldest(t) /\ cur' = t /\ pc' = "picked"
       \/ /\ \A t \in Tasks : status[t] # "pending"
          /\ pc' = "poll"
          /\ UNCHANGED cur
    /\ UNCHANGED <<outcome, tasksTable, queueState, handler, history>>

\* update_task_status(task_id, 'running'): unconditional.
MarkRunning ==
    /\ pc = "picked"
    /\ status' = [status EXCEPT ![cur] = "running"]
    /\ pc' = "execute"
    /\ slipped' = IF paused THEN slipped + 1 ELSE slipped
    /\ UNCHANGED <<born, parent, queueState, cur, outcome, handler, runs, cut, restarts>>

\* execute_workflow or execute_send_message_workflow: the desktop is operated,
\* with whatever result.
ExecuteWorkflow ==
    /\ pc = "execute"
    /\ runs' = [runs EXCEPT ![cur] = @ + 1]
    /\ outcome' \in Outcome
    /\ pc' = "report"
    /\ UNCHANGED <<cur, tasksTable, queueState, handler, cut, slipped, restarts>>

\* Mutant of Report: the task stays in hand.
ReportKeepsTask ==
    /\ pc = "report"
    /\ status' = [status EXCEPT ![cur] = outcome]
    /\ pc' = "poll" /\ outcome' = "none"
    /\ UNCHANGED <<cur, born, parent, queueState, handler, history>>

\* The update_task_status call of the outcome.
Report ==
    /\ pc = "report"
    /\ status' = [status EXCEPT ![cur] = outcome]
    /\ pc' = "poll" /\ cur' = NoTask /\ outcome' = "none"
    /\ UNCHANGED <<born, parent, queueState, handler, history>>

\* A database call raises.  The one that reports a success or a missing group
\* sits in a try block whose handler reports a failure instead; the others end
\* in the loop's own handler, which goes on with the next task.
StoreRaises ==
    /\ StoreFaults
    /\ \/ /\ pc \in {"pick", "picked"}
          /\ pc' = "poll" /\ cur' = NoTask
          /\ UNCHANGED outcome
       \/ /\ pc = "report" /\ outcome # "failed"
          /\ outcome' = "failed"
          /\ UNCHANGED <<pc, cur>>
       \/ /\ pc = "report" /\ outcome = "failed"
          /\ pc' = "poll" /\ cur' = NoTask /\ outcome' = "none"
    /\ UNCHANGED <<tasksTable, queueState, handler, history>>
-----------------------------------------------------------------------------
(***************************************************************************)
(* The monitor thread and the clock.                                       *)
(***************************************************************************)

\* pause_queue: both keys in one transaction.  Nothing after it in
\* handle_risk_control_detection writes the database: the monitor passes no
\* task configuration.  (A failed screenshot returns before this call.)
Detect ==
    /\ issued < MaxAlerts
    /\ paused' = TRUE
    /\ issued' = issued + 1
    /\ token' = issued + 1
    /\ stale' = FALSE
    /\ UNCHANGED <<tasksTable, worker, handler, history>>

TokenExpires ==
    /\ token # 0 /\ ~stale
    /\ stale' = TRUE
    /\ UNCHANGED <<tasksTable, paused, token, issued, worker, handler, history>>
-----------------------------------------------------------------------------
(***************************************************************************)
(* The HTTP handlers.                                                      *)
(***************************************************************************)

\* save_task with a new id, in the second of the newest row or a later one.
SaveTask(t, from) ==
    /\ ~Exists(t)
    /\ status' = [status EXCEPT ![t] = "pending"]
    /\ parent' = [parent EXCEPT ![t] = from]
    /\ \E newest \in Tasks :
          /\ \A u \in Tasks : born[u] <= born[newest]
          /\ \E b \in {born[newest], born[newest] + 1} : born' = [born EXCEPT ![t] = b]

\* start_automation; send_message does this once for each message.
Submit(t) ==
    /\ handler = NoHandler
    /\ SaveTask(t, NoTask)
    /\ UNCHANGED <<queueState, worker, handler, history>>

\* resume_queue with a token: read the stored one and compare.
CheckToken(link) ==
    /\ handler = NoHandler
    /\ token = link
    /\ ~stale
    /\ handler' = [at |-> "resume", link |-> link]
    /\ UNCHANGED <<tasksTable, queueState, worker, history>>

DeleteKeys ==
    /\ paused' = FALSE
    /\ token' = 0
    /\ stale' = FALSE
    /\ slipped' = 0
    /\ UNCHANGED <<issued, tasksTable, worker, runs, cut, restarts>>

\* Then, on a second connection, delete both keys, whichever token is there.
ResumeByToken ==
    /\ handler.at = "resume"
    /\ DeleteKeys
    /\ handler' = NoHandler

\* The administrator's button: no token asked.
ForceResume ==
    /\ handler = NoHandler
    /\ DeleteKeys
    /\ UNCHANGED handler

\* Mutant of ReadRetry: the original is marked before the copy is saved.
ReadRetryMarksFirst(t) ==
    /\ handler = NoHandler
    /\ \E u \in Tasks : ~Exists(u)
    /\ Exists(t)
    /\ status[t] # "retried"
    /\ status' = [status EXCEPT ![t] = "retried"]
    /\ handler' = [at |-> "copy", task |-> t]
    /\ UNCHANGED <<born, parent, queueState, worker, history>>

\* api_retry_task: read the task; only 'retried' is refused.  (Bound: an id is
\* left for the copy.)
ReadRetry(t) ==
    /\ handler = NoHandler
    /\ \E u \in Tasks : ~Exists(u)
    /\ Exists(t)
    /\ status[t] # "retried"
    /\ handler' = [at |-> "copy", task |-> t]
    /\ UNCHANGED <<tasksTable, queueState, worker, history>>

CopyTask(new) ==
    /\ handler.at = "copy"
    /\ SaveTask(new, handler.task)
    /\ handler' = [at |-> "mark", task |-> handler.task]
    /\ UNCHANGED <<queueState, worker, history>>

MarkRetried ==
    /\ handler.at = "mark"
    /\ status' = [status EXCEPT ![handler.task] = "retried"]
    /\ handler' = NoHandler
    /\ UNCHANGED <<born, parent, queueState, worker, history>>
-----------------------------------------------------------------------------
\* Mutant of Restart: recover_interrupted_tasks is not called.
RestartWithoutRecovery ==
    /\ restarts < MaxRestarts
    /\ restarts' = restarts + 1
    /\ pc' = "poll" /\ cur' = NoTask /\ outcome' = "none"
    /\ handler' = NoHandler
    /\ UNCHANGED <<tasksTable, queueState, runs, cut, slipped>>

\* Mutant of Restart: failed rows are put back as well.
RestartRequeuesFailed ==
    /\ restarts < MaxRestarts
    /\ restarts' = restarts + 1
    /\ status' = [t \in Tasks |->
          IF status[t] \in {"running", "failed"} THEN "pending" ELSE status[t]]
    /\ cut' = [t \in Tasks |-> IF status[t] = "running" THEN cut[t] + 1 ELSE cut[t]]
    /\ pc' = "poll" /\ cur' = NoTask /\ outcome' = "none"
    /\ handler' = NoHandler
    /\ UNCHANGED <<born, parent, queueState, runs, slipped>>

\* The process dies and is started again: startup_event puts the rows found
\* 'running' back before it starts the threads.  The pause flag survives.
Restart ==
    /\ restarts < MaxRestarts
    /\ restarts' = restarts + 1
    /\ status' = [t \in Tasks |-> IF status[t] = "running" THEN "pending" ELSE status[t]]
    /\ cut' = [t \in Tasks |-> IF status[t] = "running" THEN cut[t] + 1 ELSE cut[t]]
    /\ pc' = "poll" /\ cur' = NoTask /\ outcome' = "none"
    /\ handler' = NoHandler
    /\ UNCHANGED <<born, parent, queueState, runs, slipped>>

WorkerStep ==
    \/ PollPause
    \/ PickTask
    \/ MarkRunning
    \/ ExecuteWorkflow
    \/ Report
    \/ StoreRaises

HandlerStep ==
    \/ ResumeByToken
    \/ \E new \in Tasks : CopyTask(new)
    \/ MarkRetried

Next ==
    \/ WorkerStep
    \/ Detect
    \/ TokenExpires
    \/ \E t \in Tasks : Submit(t) \/ ReadRetry(t)
    \/ \E link \in 1..issued : CheckToken(link)
    \/ ForceResume
    \/ HandlerStep
    \/ Restart

Spec == Init /\ [][Next]_vars

\* The worker thread loops for ever.  Requests, alerts and restarts may come
\* or not; StoreRaises is part of the worker and must not be needed.
FairSpec == Spec /\ WF_vars(WorkerStep)
-----------------------------------------------------------------------------
\* Every row marked 'running' is the one the worker is on, so after any crash,
\* retry or pause no task is left running for ever and never two are.
RunningIsServed ==
    \A t \in Tasks : status[t] = "running" => cur = t /\ pc \in {"execute", "report"}

\* The workflow runs once for a row, and once more for each restart that found
\* the row running: pausing, retrying and failed database calls add nothing.
RunsBounded == \A t \in Tasks : runs[t] <= 1 + cut[t]

\* A retry never loses the work: a row marked 'retried' has its copy, even if
\* the process died inside the handler.
RetriedHasCopy ==
    \A t \in Tasks : status[t] = "retried" => \E u \in Tasks : parent[u] = t

\* A pause lets at most one more task start, the one the worker was already
\* committed to, however long it lasts and whatever restarts or alerts occur.
PauseHolds == slipped <= 1

\* Tasks run in the order they were requested: no row waits while a row of a
\* later second has been executed, unless a restart put it back.
NoOvertaking ==
    \A t, u \in Tasks :
        status[t] = "pending" /\ cut[t] = 0 /\ runs[u] > 0 => born[u] <= born[t]

\* Every requested task comes to an outcome or is replaced by a retry, unless
\* the queue is paused: crashes only delay it.
TasksEnd ==
    \A t \in Tasks :
        status[t] \in {"pending", "running"} ~> status[t] \in Outcome \cup {"retried"} \/ paused

\* A task is retried once: the second request for it is refused.
RetriedOnce == \A t \in Tasks : Cardinality({u \in Tasks : parent[u] = t}) <= 1
-----------------------------------------------------------------------------
(***************************************************************************)
(* The inductive invariant behind the properties above.                    *)
(***************************************************************************)

\* What the worker holds is a row, and once it is marked it is not pending.
WorkersRow ==
    /\ pc \in {"picked", "execute", "report"} => Exists(cur)
    /\ pc \in {"execute", "report"} => status[cur] # "pending"

\* A row that may still be executed has an execution in hand.
RunInHand ==
    /\ \A t \in Tasks : status[t] \in {"absent", "pending"} => runs[t] <= cut[t]
    /\ pc \in {"picked", "execute"} => runs[cur] <= cut[cur]

\* The copy is there before the original is marked.
CopyFirst ==
    /\ \A t \in Tasks : ~Exists(t) => parent[t] = NoTask
    /\ handler.at = "mark" => \E u \in Tasks : parent[u] = handler.task

\* Behind PauseHolds: a worker before its start has not used the one start the
\* current pause allows, and there is no count without a pause.
PauseInv ==
    /\ slipped > 0 => paused /\ pc \notin {"pick", "picked"}
    /\ PauseHolds

\* Behind NoOvertaking: only rows that exist were executed, and the row in the
\* worker's hands was the oldest when it was picked; later rows are younger.
OrderInv ==
    /\ \A t \in Tasks : ~Exists(t) => runs[t] = 0
    /\ pc \in {"picked", "execute"} =>
          \A t \in Tasks : status[t] = "pending" /\ cut[t] = 0 => born[cur] <= born[t]
    /\ NoOvertaking

IInv ==
    /\ TypeOK
    /\ WorkersRow
    /\ RunInHand
    /\ RunsBounded
    /\ CopyFirst
    /\ RetriedHasCopy
=============================================================================
