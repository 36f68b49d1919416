---------------------------- MODULE FlowReleases ----------------------------
(***************************************************************************)
(* What the platform promises about flows and their releases, with no      *)
(* rows, pointers or overlapping requests in sight.  A flow's versions are *)
(* counted 1, 2, 3 and so on; a version that is there can be released, at  *)
(* any time and again; a task runs one version, once and for all, and that *)
(* one was released.                                                       *)
(***************************************************************************)
EXTENDS Naturals

CONSTANTS Flows, WebhookFlow, Tasks

VARIABLES
    count,      \* per flow: how many versions it has
    released,   \* per flow: the versions that were ever released
    live,       \* per flow: the one released last, 0 if none
    runs        \* per task: the version it runs, 0 while there is no task

releaseVars == <<count, released, live, runs>>

Init ==
    /\ count = [f \in Flows |-> 0]
    /\ released = [f \in Flows |-> {}]
    /\ live = [f \in Flows |-> 0]
    /\ runs = [t \in Tasks |-> 0]

Draft(f) ==
    /\ count' = [count EXCEPT ![f] = @ + 1]
    /\ UNCHANGED <<released, live, runs>>

Release(f, n) ==
    /\ n \in 1..count[f]
    /\ released' = [released EXCEPT ![f] = @ \cup {n}]
    /\ live' = [live EXCEPT ![f] = n]
    /\ UNCHANGED <<count, runs>>

Start(t, n) ==
    /\ runs[t] = 0
    /\ n \in released[WebhookFlow]
    /\ runs' = [runs EXCEPT ![t] = n]
    /\ UNCHANGED <<count, released, live>>

Next ==
    \/ \E f \in Flows : Draft(f) \/ \E n \in 1..count[f] : Release(f, n)
    \/ \E t \in Tasks : \E n \in released[WebhookFlow] : Start(t, n)

Spec == Init /\ [][Next]_releaseVars
=============================================================================
