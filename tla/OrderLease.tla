----------------------------- MODULE OrderLease -----------------------------
(***************************************************************************)
(* What the platform promises about the online order of a bind task, with  *)
(* no database, statuses or queues in sight.  A worker holds a lease on a  *)
(* task while it serves it; only the holder touches the order; the order   *)
(* is created once, and it is put online under a later lease than the one  *)
(* it was created under.                                                   *)
(***************************************************************************)
CONSTANTS Tasks, Robots, NoRobot

VARIABLES
    holder,   \* the worker serving the task, NoRobot if none
    stage     \* "none", "ordered", "ready" (taken again since), "online"

leaseVars == <<holder, stage>>

Init ==
    /\ holder = [t \in Tasks |-> NoRobot]
    /\ stage = [t \in Tasks |-> "none"]

\* A free worker takes a task nobody serves and that is not online yet.
Take(r, t) ==
    /\ holder[t] = NoRobot
    /\ \A u \in Tasks : holder[u] # r
    /\ stage[t] # "online"
    /\ holder' = [holder EXCEPT ![t] = r]
    /\ stage' = [stage EXCEPT ![t] = IF @ = "ordered" THEN "ready" ELSE @]

CreateOrder(t) ==
    /\ holder[t] # NoRobot
    /\ stage[t] = "none"
    /\ stage' = [stage EXCEPT ![t] = "ordered"]
    /\ UNCHANGED holder

PutOnline(t) ==
    /\ holder[t] # NoRobot
    /\ stage[t] = "ready"
    /\ stage' = [stage EXCEPT ![t] = "online"]
    /\ UNCHANGED holder

\* The worker is done with the task for now, or died.
Leave(t) ==
    /\ holder[t] # NoRobot
    /\ holder' = [holder EXCEPT ![t] = NoRobot]
    /\ UNCHANGED stage

Next ==
    \E t \in Tasks :
        \/ \E r \in Robots : Take(r, t)
        \/ CreateOrder(t)
        \/ PutOnline(t)
        \/ Leave(t)

Spec == Init /\ [][Next]_leaseVars
=============================================================================
