-------------------------- MODULE TaskStateMachine --------------------------
(***************************************************************************)
(* The status vocabulary of the platform's tasks: the enumeration, the     *)
(* table of allowed transitions and the status an administrator's          *)
(* "continue" moves a waiting task to.                                     *)
(***************************************************************************)

\* TaskStatus: every value a row of the tasks table can hold.
Status ==
    {"pending", "checking_login", "running", "waiting_login",
     "waiting_manual_selection", "waiting_manual_intervention",
     "waiting_wecom_review", "waiting_wecom_online_delay", "ready_to_online",
     "waiting_test_confirmation", "jdy_callback_failed",
     "success", "failed", "cancelled"}

TerminalStatus == {"success", "failed", "cancelled"}

\* ALLOWED_TASK_TRANSITIONS, row by row.
Allowed(s) ==
    CASE s = "pending" -> {"checking_login", "running", "cancelled"}
      [] s = "checking_login" -> {"running", "waiting_login", "failed"}
      [] s = "running" -> Status \ {"pending", "checking_login", "running"}
      [] s = "waiting_login" -> {"checking_login", "running", "cancelled"}
      [] s = "waiting_manual_selection" ->
            {"checking_login", "running", "waiting_manual_intervention", "cancelled"}
      [] s = "waiting_manual_intervention" -> {"checking_login", "running", "cancelled"}
      [] s = "waiting_wecom_review" ->
            {"checking_login", "running", "ready_to_online",
             "waiting_manual_intervention", "failed", "cancelled"}
      [] s = "waiting_wecom_online_delay" ->
            {"checking_login", "running", "success", "failed",
             "waiting_manual_intervention", "cancelled"}
      [] s = "ready_to_online" ->
            {"checking_login", "running", "success", "failed", "cancelled"}
      [] s = "waiting_test_confirmation" ->
            {"running", "waiting_manual_intervention", "cancelled"}
      [] s = "jdy_callback_failed" -> {"running", "success", "failed", "cancelled"}
      [] s \in TerminalStatus -> {}

\* ensure_task_transition: the check that raises InvalidTaskTransition.
CanTransition(from, to) == to \in Allowed(from)

\* The statuses resume_task accepts, and the one it moves each of them to.
Resumable ==
    {"waiting_login", "waiting_manual_selection",
     "waiting_manual_intervention", "waiting_test_confirmation"}

ResumeTarget(s) == IF s = "waiting_login" THEN "checking_login" ELSE "running"

\* Mutant of ActionTarget: an action for a task that only needs to go online.
ActionTargetWithOnline ==
    {"waiting_login", "waiting_manual_selection", "ready_to_online"}

\* ACTION_STATUS_MAP: the waiting statuses a manual action can put a task in.
ActionTarget ==
    {"waiting_login", "waiting_manual_selection", "waiting_manual_intervention"}
=============================================================================
