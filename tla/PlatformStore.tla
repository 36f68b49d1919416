---------------------------- MODULE PlatformStore ----------------------------
(***************************************************************************)
(* The tables of the platform's SQLite database and the transactions of    *)
(* SQLiteStore on them.  A transaction is one step: SQLite serialises      *)
(* writers, and the claim takes the write lock before it reads             *)
(* (BEGIN IMMEDIATE).  What is NOT one step is a sequence of two store     *)
(* calls; the modules that call the store give each call its own action.   *)
(*                                                                         *)
(* A task is named by its idempotency key, so a second request for a key   *)
(* finds the row and changes nothing.  next_check_at is abstracted to      *)
(* what the claim's WHERE clause tells apart: "none" (NULL), "later" and   *)
(* "due".  runtime_context_json is abstracted to the auditorderid it       *)
(* holds, 0 standing for an absent one.                                    *)
(***************************************************************************)
EXTENDS TaskStateMachine, Naturals, FiniteSets

CONSTANTS
    Tasks,      \* idempotency keys of the tasks that may be requested
    Robots,     \* rows of the robots table, all registered
    NoRobot,    \* assigned_robot_id IS NULL
    MaxChecks   \* bound: claims of a waiting task per task

ASSUME StoreAssumption ==
    /\ IsFiniteSet(Tasks)
    /\ NoRobot \notin Robots
    /\ MaxChecks \in Nat

VARIABLES
    status,       \* tasks.status, "absent" while there is no row
    assigned,     \* tasks.assigned_robot_id
    check,        \* tasks.next_check_at
    attempts,     \* tasks.check_attempts
    born,         \* tasks.created_at, as a rank
    orderId,      \* auditorderid in tasks.runtime_context_json
    openActions,  \* the task has manual_actions rows with status 'pending'
    robotRow      \* robots.status

taskRow == <<status, assigned, check, attempts, born>>
storeVars == <<taskRow, orderId, openActions, robotRow>>

Exists(t) == status[t] # "absent"

\* Rows a claim can pick, whatever the robot.
Claimable(t) ==
    \/ status[t] \in {"pending", "ready_to_online", "jdy_callback_failed"}
    \/ /\ status[t] \in {"waiting_wecom_review", "waiting_wecom_online_delay"}
       /\ check[t] = "due"

\* The CASE of the claim's ORDER BY.
Rank(s) ==
    CASE s = "pending" -> 1
      [] s = "ready_to_online" -> 2
      [] s = "waiting_wecom_review" -> 3
      [] s = "jdy_callback_failed" -> 4
      [] s = "waiting_wecom_online_delay" -> 5
      [] OTHER -> 9

Before(t, u) ==
    \/ Rank(status[t]) < Rank(status[u])
    \/ Rank(status[t]) = Rank(status[u]) /\ born[t] <= born[u]

StoreInit ==
    /\ status = [t \in Tasks |-> "absent"]
    /\ assigned = [t \in Tasks |-> NoRobot]
    /\ check = [t \in Tasks |-> "none"]
    /\ attempts = [t \in Tasks |-> 0]
    /\ born = [t \in Tasks |-> 0]
    /\ orderId = [t \in Tasks |-> 0]
    /\ openActions = [t \in Tasks |-> FALSE]
    /\ robotRow = [r \in Robots |-> "idle"]

StoreTypeOK ==
    /\ status \in [Tasks -> Status \cup {"absent"}]
    /\ assigned \in [Tasks -> Robots \cup {NoRobot}]
    /\ check \in [Tasks -> {"none", "later", "due"}]
    /\ attempts \in [Tasks -> Nat]
    /\ born \in [Tasks -> Nat]
    /\ orderId \in [Tasks -> Nat]
    /\ openActions \in [Tasks -> BOOLEAN]
    /\ robotRow \in [Robots -> {"idle", "busy"}]
-----------------------------------------------------------------------------
\* create_task_from_published_flow for a key that has no row yet.
CreateTask(t) ==
    /\ ~Exists(t)
    /\ status' = [status EXCEPT ![t] = "pending"]
    /\ born' = [born EXCEPT ![t] = Cardinality({u \in Tasks : Exists(u)}) + 1]
    /\ UNCHANGED <<assigned, check, attempts, orderId, openActions, robotRow>>

\* Mutant of ClaimNext: the claim assigns the row but leaves its status.
ClaimNextKeepsStatus(r, t) ==
    /\ robotRow[r] = "idle"
    /\ Claimable(t)
    /\ \A u \in Tasks : Claimable(u) => Before(t, u)
    /\ assigned' = [assigned EXCEPT ![t] = r]
    /\ robotRow' = [robotRow EXCEPT ![r] = "busy"]
    /\ UNCHANGED <<status, attempts, check, born, orderId, openActions>>

\* claim_next_runnable_task when it returns task t to robot r.
ClaimNext(r, t) ==
    /\ robotRow[r] = "idle"
    /\ Claimable(t)
    /\ \A u \in Tasks : Claimable(u) => Before(t, u)
    /\ IF status[t] \in {"waiting_wecom_review", "waiting_wecom_online_delay"}
       THEN /\ attempts[t] < MaxChecks
            /\ attempts' = [attempts EXCEPT ![t] = @ + 1]
       ELSE UNCHANGED attempts
    /\ status' = [status EXCEPT ![t] = "checking_login"]
    /\ assigned' = [assigned EXCEPT ![t] = r]
    /\ robotRow' = [robotRow EXCEPT ![r] = "busy"]
    /\ UNCHANGED <<check, born, orderId, openActions>>

\* set_task_status: unconditional; next_check_at and assigned_robot_id are
\* overwritten even when the caller leaves them out.
SetTaskStatus(t, s, next, r) ==
    /\ status' = [status EXCEPT ![t] = s]
    /\ check' = [check EXCEPT ![t] = next]
    /\ assigned' = [assigned EXCEPT ![t] = r]
    /\ UNCHANGED <<attempts, born, orderId, openActions, robotRow>>

\* merge_task_context with the context of a started bind.
MergeOrder(t, id) ==
    /\ orderId' = [orderId EXCEPT ![t] = id]
    /\ UNCHANGED <<taskRow, openActions, robotRow>>

\* update_robot_status.
SetRobot(r, s) ==
    /\ robotRow' = [robotRow EXCEPT ![r] = s]
    /\ UNCHANGED <<taskRow, orderId, openActions>>

\* create_manual_action: the insert; the task row is untouched.
InsertAction(t) ==
    /\ openActions' = [openActions EXCEPT ![t] = TRUE]
    /\ UNCHANGED <<taskRow, orderId, robotRow>>

\* The write transaction of resume_task: it does not look at the status again.
WriteResume(t, target) ==
    /\ status' = [status EXCEPT ![t] = target]
    /\ assigned' = [assigned EXCEPT ![t] = NoRobot]
    /\ openActions' = [openActions EXCEPT ![t] = FALSE]
    /\ UNCHANGED <<check, attempts, born, orderId, robotRow>>

\* The clock passes the next_check_at of task t.
CheckComesDue(t) ==
    /\ check[t] = "later"
    /\ check' = [check EXCEPT ![t] = "due"]
    /\ UNCHANGED <<status, assigned, attempts, born, orderId, openActions, robotRow>>
=============================================================================
