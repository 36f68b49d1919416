----------------------------- MODULE C360Runtime -----------------------------
(***************************************************************************)
(* The worker of the C360 control plane: C360WorkerRuntime under            *)
(* _run_forever.  It serves the dispatches of one websocket connection one  *)
(* after another and sends every message about one twice, on the websocket  *)
(* and then as an HTTP post.  The connection may close at any moment, with  *)
(* messages under way in both directions.                                   *)
(*                                                                         *)
(* The control plane is external: it sends dispatches while it sees the     *)
(* connection, at its own discretion, and remembers what it was told.  A    *)
(* handler is an outcome; what it does to the task is UnattendedWrite.      *)
(***************************************************************************)
EXTENDS Naturals, Sequences

CONSTANTS
    Kinds,          \* what may be dispatched
    MaxDispatches,  \* bound: dispatches
    MaxFaults       \* bound: closed connections, failed posts and crashes

AllKinds == {"diagnostics", "unsupported", "readonly", "unattended"}

ASSUME RuntimeAssumption ==
    /\ Kinds \subseteq AllKinds
    /\ MaxDispatches \in Nat
    /\ MaxFaults \in Nat

VARIABLES
    conn,       \* "up" or "closed"
    inbox,      \* dispatches under way or not yet received
    wire,       \* messages under way on the websocket
    told,       \* messages the control plane has got (external)
    phase,      \* where the worker is
    serving,    \* the dispatch it serves or served last, 0 at first
    pos,        \* how many messages about it are out of hand
    sent,       \* did the websocket take the next one
    kinds,      \* what was dispatched, in the order of dispatch (external)
    outcome,    \* how a handler ended
    excused,    \* history: dispatches unread when their connection ended, cut
                \* short by a crash, or with a message that HTTP did not take
    faults

worker == <<phase, serving, pos, sent>>
vars == <<conn, inbox, wire, told, worker, kinds, outcome, excused, faults>>

Dispatches == 1..MaxDispatches
Pending == "pending"

\* How the handler of a kind of task can end.  'waiting' is any result that
\* asks for a login, 'failed' of a read-only run any status without a case.
Outcomes(k) ==
    CASE k = "diagnostics" -> {"result"}
      [] k = "unsupported" -> {"raised"}
      [] k = "readonly"    -> {"waiting", "ready", "unexecutable", "failed", "raised"}
      [] k = "unattended"  -> {"waiting", "blocked", "unexecutable", "success", "failed", "raised"}

AllOutcomes == UNION {Outcomes(k) : k \in AllKinds}

\* The progress messages that come with a WorkerTaskResult.  Two carry a
\* control of the task queue, for which they are named.
Progress(k, o) ==
    CASE o \in {"result", "raised"} -> << >>
      [] o = "waiting" -> <<"preflight_started", "pause">>
      [] o = "ready" -> <<"preflight_started", "resume">>
      [] k = "readonly" /\ o \in {"unexecutable", "failed"} -> <<"preflight_started", o>>
      [] k = "unattended" /\ o \in {"blocked", "unexecutable"} ->
            <<"preflight_started", "preflight_completed">>
      [] k = "unattended" /\ o = "success" ->
            <<"preflight_started", "preflight_completed", "write_started", "write_completed">>
      [] k = "unattended" /\ o = "failed" ->
            <<"preflight_started", "preflight_completed", "write_started", "write_failed">>

WireStatus(o) == IF o \in {"failed", "blocked", "raised"} THEN "failed" ELSE "succeeded"

\* Everything said about a dispatch: on arrival, and when its handler ended.
Opening == <<"accepted", "running">>
Script(k, o) ==
    IF o = Pending THEN Opening
    ELSE Opening \o Progress(k, o) \o <<WireStatus(o)>>

Served(d) == Script(kinds[d], outcome[d])

Message == [dispatch : Dispatches, at : Nat]

\* The message the worker is about to send, or has sent by one channel.
Current == [dispatch |-> serving, at |-> pos + 1]

Init ==
    /\ conn = "closed"
    /\ inbox = << >>
    /\ wire = << >>
    /\ told = {}
    /\ phase = "off"
    /\ serving = 0
    /\ pos = 0
    /\ sent = FALSE
    /\ kinds = << >>
    /\ outcome = [d \in Dispatches |-> Pending]
    /\ excused = {}
    /\ faults = 0

TypeOK ==
    /\ conn \in {"up", "closed"}
    /\ inbox \in Seq(Dispatches)
    /\ wire \in Seq(Message)
    /\ told \in SUBSET Message
    /\ phase \in {"off", "hello", "receive", "send", "post", "handle"}
    /\ serving \in 0..MaxDispatches
    /\ phase \in {"send", "post", "handle"} => serving # 0
    /\ phase \in {"send", "post"} => pos < Len(Served(serving))
    /\ pos \in Nat
    /\ sent \in BOOLEAN
    /\ kinds \in Seq(Kinds)
    /\ Len(kinds) <= MaxDispatches
    /\ outcome \in [Dispatches -> AllOutcomes \cup {Pending}]
    /\ excused \in SUBSET Dispatches
    /\ faults \in 0..MaxFaults

Fault ==
    /\ faults < MaxFaults
    /\ faults' = faults + 1

Enter(p) == phase' = p /\ UNCHANGED <<serving, pos, sent>>
-----------------------------------------------------------------------------
(***************************************************************************)
(* The control plane and the network.                                      *)
(***************************************************************************)

\* Any task, new, queued again by an administrator or replayed.
Dispatch(k) ==
    /\ conn = "up"
    /\ Len(kinds) < MaxDispatches
    /\ kinds' = Append(kinds, k)
    /\ inbox' = Append(inbox, Len(kinds) + 1)
    /\ UNCHANGED <<conn, wire, told, worker, outcome, excused, faults>>

Deliver ==
    /\ wire # << >>
    /\ told' = told \cup {Head(wire)}
    /\ wire' = Tail(wire)
    /\ UNCHANGED <<conn, inbox, worker, kinds, outcome, excused, faults>>

\* By the server or the network, as happens while a handler blocks the event
\* loop for minutes.  The worker notices when it next uses the connection.
Close ==
    /\ conn = "up"
    /\ Fault
    /\ conn' = "closed"
    /\ UNCHANGED <<inbox, wire, told, worker, kinds, outcome, excused>>
-----------------------------------------------------------------------------
(***************************************************************************)
(* One connection cycle.                                                   *)
(***************************************************************************)

\* After the delay.  What the old connection still had under way is lost.
Connect ==
    /\ phase = "off"
    /\ conn' = "up"
    /\ wire' = << >>
    /\ Enter("hello")
    /\ UNCHANGED <<inbox, told, kinds, outcome, excused, faults>>

\* The cycle ends, by return or by exception: the connection goes, with the
\* dispatches that were not read.
EndCycle(cut) ==
    /\ conn' = "closed"
    /\ inbox' = << >>
    /\ excused' = excused \cup cut \cup {inbox[i] : i \in 1..Len(inbox)}
    /\ Enter("off")

\* The greeting goes by the websocket only.
SendHello ==
    /\ phase = "hello"
    /\ conn = "up"
    /\ Enter("receive")
    /\ UNCHANGED <<conn, inbox, wire, told, kinds, outcome, excused, faults>>

HelloRaises ==
    /\ phase = "hello"
    /\ conn = "closed"
    /\ EndCycle({})
    /\ UNCHANGED <<wire, told, kinds, outcome, faults>>

\* Mutant of Receive: the position of the last dispatch is kept.
ReceiveKeepsPosition ==
    /\ phase = "receive"
    /\ inbox # << >>
    /\ inbox' = Tail(inbox)
    /\ phase' = "send"
    /\ serving' = Head(inbox)
    /\ UNCHANGED <<pos, sent, conn, wire, told, kinds, outcome, excused, faults>>

\* Dispatches that arrived before the connection closed can still be read.
Receive ==
    /\ phase = "receive"
    /\ inbox # << >>
    /\ inbox' = Tail(inbox)
    /\ phase' = "send"
    /\ serving' = Head(inbox)
    /\ pos' = 0
    /\ sent' = FALSE
    /\ UNCHANGED <<conn, wire, told, kinds, outcome, excused, faults>>

\* receive_json answers None: the cycle returns as idle.
ReceiveNone ==
    /\ phase = "receive"
    /\ conn = "closed"
    /\ EndCycle({})
    /\ UNCHANGED <<wire, told, kinds, outcome, faults>>

\* The websocket takes a message, which says nothing of its arrival, or the
\* send raises; the error is kept for later.
SendWebsocket ==
    /\ phase = "send"
    /\ IF conn = "up"
       THEN wire' = Append(wire, Current) /\ sent' = TRUE
       ELSE UNCHANGED wire /\ sent' = FALSE
    /\ phase' = "post"
    /\ UNCHANGED <<serving, pos, conn, inbox, told, kinds, outcome, excused, faults>>

\* The message is out of hand: the next one, the handler, or the next dispatch.
Proceed ==
    /\ pos' = pos + 1
    /\ phase' = CASE pos + 1 < Len(Served(serving)) -> "send"
                  [] pos + 1 >= Len(Served(serving)) /\ outcome[serving] = Pending -> "handle"
                  [] pos + 1 >= Len(Served(serving)) /\ outcome[serving] # Pending -> "receive"
    /\ UNCHANGED <<serving, sent>>

\* Mutant of Post: HTTP is tried only if the websocket refused the message.
PostOnFailure ==
    /\ phase = "post"
    /\ told' = IF sent THEN told ELSE told \cup {Current}
    /\ Proceed
    /\ UNCHANGED <<conn, inbox, wire, kinds, outcome, excused, faults>>

\* Mutant of Post: the error of the websocket is raised although HTTP worked.
PostThenRaise ==
    /\ phase = "post"
    /\ told' = told \cup {Current}
    /\ IF sent
       THEN Proceed /\ UNCHANGED <<conn, inbox, excused>>
       ELSE EndCycle({})
    /\ UNCHANGED <<wire, kinds, outcome, faults>>

Post ==
    /\ phase = "post"
    /\ told' = told \cup {Current}
    /\ Proceed
    /\ UNCHANGED <<conn, inbox, wire, kinds, outcome, excused, faults>>

\* The post raises, whether it arrived or not.  The error is logged and the
\* worker goes on, even if the websocket raised too: 'reported' still holds the
\* coroutine of the reporter, which is not false.
PostRaises ==
    /\ phase = "post"
    /\ Fault
    /\ told' \in {told, told \cup {Current}}
    /\ Proceed
    /\ excused' = excused \cup {serving}
    /\ UNCHANGED <<conn, inbox, wire, kinds, outcome>>

\* Mutant of Handle: an exception of a handler leaves the runtime.
HandleUncaught ==
    /\ phase = "handle"
    /\ \E o \in Outcomes(kinds[serving]) :
          /\ outcome' = [outcome EXCEPT ![serving] = o]
          /\ IF o = "raised"
             THEN EndCycle({})
             ELSE Enter("send") /\ UNCHANGED <<conn, inbox, excused>>
    /\ UNCHANGED <<wire, told, kinds, faults>>

\* The handler returns or raises.
Handle ==
    /\ phase = "handle"
    /\ \E o \in Outcomes(kinds[serving]) : outcome' = [outcome EXCEPT ![serving] = o]
    /\ Enter("send")
    /\ UNCHANGED <<conn, inbox, wire, told, kinds, excused, faults>>

\* The process dies and is started again by the loop around it.
Crash ==
    /\ phase # "off"
    /\ Fault
    /\ EndCycle(IF phase \in {"hello", "receive"} THEN {} ELSE {serving})
    /\ UNCHANGED <<wire, told, kinds, outcome>>

WorkerStep ==
    \/ Connect
    \/ SendHello
    \/ HelloRaises
    \/ Receive
    \/ ReceiveNone
    \/ SendWebsocket
    \/ Post
    \/ PostRaises
    \/ Handle

Next ==
    \/ \E k \in Kinds : Dispatch(k)
    \/ Deliver
    \/ Close
    \/ Crash
    \/ WorkerStep

Spec == Init /\ [][Next]_vars

FairSpec == Spec /\ WF_vars(WorkerStep)
-----------------------------------------------------------------------------
Answered(d) ==
    /\ outcome[d] # Pending
    /\ [dispatch |-> d, at |-> Len(Served(d))] \in told

\* The worker is done with a dispatch it has taken.
Finished(d) == d < serving \/ (d = serving /\ phase \in {"off", "hello", "receive"})

\* When the worker has turned to something else, the control plane knows all
\* there is to say about a dispatch, even if the websocket closed at any point
\* of it, unless HTTP failed as well or the process died.
ServedIsReported ==
    \A d \in 1..serving \ excused :
        Finished(d) =>
            /\ outcome[d] # Pending
            /\ \A i \in 1..Len(Served(d)) : [dispatch |-> d, at |-> i] \in told

\* Whatever a message tells, the control plane has got everything before it,
\* although each comes by two channels of different speed, one of which loses.
EventsInOrder ==
    \A m \in told : m.dispatch \notin excused =>
        \A i \in 1..(m.at - 1) : [m EXCEPT !.at = i] \in told

\* A dispatch is answered, unless its connection ended before it was read, HTTP
\* failed on one of its messages or the process died.
DispatchesAnswered ==
    \A d \in Dispatches : d <= Len(kinds) ~> (Answered(d) \/ d \in excused)

\* What the runbook says: the worker goes past a message only if the websocket
\* or HTTP took it; when both failed the cycle ends.
PassedWasTaken ==
    [][pos' = pos + 1 => sent \/ Current \in told']_vars
-----------------------------------------------------------------------------
(***************************************************************************)
(* The inductive invariant behind the first two.                           *)
(***************************************************************************)

\* A handler ends as those of its kind can, and has not begun before its turn.
OutcomeOfKind ==
    /\ \A d \in 1..Len(kinds) : outcome[d] \in Outcomes(kinds[d]) \cup {Pending}
    /\ \A d \in Dispatches : d > serving => outcome[d] = Pending

\* Dispatches are read in the order they were sent, and one that was passed
\* over went with its connection.
ReadInOrder ==
    /\ serving <= Len(kinds)
    /\ \A i \in 1..Len(inbox) : inbox[i] > serving /\ inbox[i] <= Len(kinds)
    /\ \A i, j \in 1..Len(inbox) : i < j => inbox[i] < inbox[j]
    /\ \A d \in (serving + 1)..Len(kinds) :
          d \in excused \/ \E i \in 1..Len(inbox) : inbox[i] = d

\* Everything the worker has got out of hand about its dispatch is known.
ToldSoFar ==
    /\ phase \in {"send", "post", "handle"} /\ serving \notin excused =>
          \A i \in 1..pos : [dispatch |-> serving, at |-> i] \in told
    /\ phase = "handle" => outcome[serving] = Pending /\ pos = Len(Opening)

\* A message still on the websocket is about something that HTTP has reported
\* up to there.
WireBehind ==
    \A i \in 1..Len(wire) : wire[i].dispatch \notin excused =>
        \A j \in 1..(wire[i].at - 1) : [wire[i] EXCEPT !.at = j] \in told

RuntimeInv ==
    /\ TypeOK
    /\ OutcomeOfKind
    /\ ReadInOrder
    /\ ToldSoFar
    /\ WireBehind
    /\ EventsInOrder
    /\ ServedIsReported
=============================================================================
