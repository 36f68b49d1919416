-------------------------- MODULE C360Runtime_proofs --------------------------
(***************************************************************************)
(* Proofs of the safety properties of C360Runtime for any kinds of task and *)
(* any number of dispatches and faults.                                     *)
(***************************************************************************)
EXTENDS C360Runtime, SequenceTheorems, TLAPS

\* Every status that a progress message names.
Words ==
    {"accepted", "running", "preflight_started", "preflight_completed", "pause", "resume",
     "write_started", "write_completed", "write_failed", "unexecutable", "succeeded", "failed"}

\* The tuples a script is made of are sequences.
LEMMA Tuples ==
    ASSUME NEW S, NEW a \in S, NEW b \in S, NEW c \in S, NEW d \in S
    PROVE  /\ <<a>> \in Seq(S) /\ Len(<<a>>) = 1
           /\ <<a, b>> \in Seq(S) /\ Len(<<a, b>>) = 2
           /\ <<a, b, c, d>> \in Seq(S) /\ Len(<<a, b, c, d>>) = 4
  OBVIOUS

\* The length of three sequences in a row.
LEMMA ThreeParts ==
    ASSUME NEW S, NEW a \in Seq(S), NEW b \in Seq(S), NEW c \in Seq(S)
    PROVE  Len(a \o b \o c) = Len(a) + Len(b) + Len(c)
<1>1. a \o b \in Seq(S) /\ Len(a \o b) = Len(a) + Len(b)
  BY ConcatProperties
<1>2. Len((a \o b) \o c) = Len(a \o b) + Len(c)
  BY <1>1, ConcatProperties
<1> QED
  BY <1>1, <1>2

\* Whatever the handler of a known kind ended with, its progress is a sequence
\* of four messages at most.
LEMMA ProgressIsSeq ==
    ASSUME NEW k \in AllKinds, NEW o \in Outcomes(k)
    PROVE  Progress(k, o) \in Seq(Words) /\ Len(Progress(k, o)) <= 4
<1>1. CASE o \in {"result", "raised"}
  <2>1. Progress(k, o) = << >>
    BY <1>1 DEF Progress
  <2> QED
    BY <2>1
<1>2. CASE o = "waiting"
  <2>1. Progress(k, o) = <<"preflight_started", "pause">>
    BY <1>2 DEF Progress
  <2> QED
    BY <2>1, Tuples DEF Words
<1>3. CASE o = "ready"
  <2>1. Progress(k, o) = <<"preflight_started", "resume">>
    BY <1>3 DEF Progress
  <2> QED
    BY <2>1, Tuples DEF Words
<1>4. CASE k = "readonly" /\ o \in {"unexecutable", "failed"}
  <2>1. Progress(k, o) = <<"preflight_started", o>> /\ o \in Words
    BY <1>4 DEF Progress, Words
  <2> QED
    BY <2>1, Tuples DEF Words
<1>5. CASE k = "unattended" /\ o \in {"blocked", "unexecutable"}
  <2>1. Progress(k, o) = <<"preflight_started", "preflight_completed">>
    BY <1>5 DEF Progress
  <2> QED
    BY <2>1, Tuples DEF Words
<1>6. CASE k = "unattended" /\ o = "success"
  <2>1. Progress(k, o) =
          <<"preflight_started", "preflight_completed", "write_started", "write_completed">>
    BY <1>6 DEF Progress
  <2> QED
    BY <2>1, Tuples DEF Words
<1>7. CASE k = "unattended" /\ o = "failed"
  <2>1. Progress(k, o) =
          <<"preflight_started", "preflight_completed", "write_started", "write_failed">>
    BY <1>7 DEF Progress
  <2> QED
    BY <2>1, Tuples DEF Words
<1> QED
  BY <1>1, <1>2, <1>3, <1>4, <1>5, <1>6, <1>7 DEF AllKinds, Outcomes

\* How long what is said about a dispatch is: two messages on arrival, and at
\* least one and at most five more when its handler has ended.
LEMMA ScriptLength ==
    ASSUME NEW k \in AllKinds, NEW o \in Outcomes(k) \cup {Pending}
    PROVE  /\ Len(Script(k, o)) \in Nat
           /\ o = Pending => Len(Script(k, o)) = 2
           /\ o # Pending => Len(Script(k, o)) > 2 /\ Len(Script(k, o)) <= 7
<1>1. Opening \in Seq(Words) /\ Len(Opening) = 2
  BY Tuples DEF Opening, Words
<1>2. o = Pending => Len(Script(k, o)) = 2
  BY <1>1 DEF Script
<1>3. ASSUME o # Pending
      PROVE  Len(Script(k, o)) \in Nat /\ Len(Script(k, o)) > 2 /\ Len(Script(k, o)) <= 7
  <2> DEFINE P == Progress(k, o)
             W == <<WireStatus(o)>>
  <2>1. Script(k, o) = Opening \o P \o W
    BY <1>3 DEF Script
  <2>2. P \in Seq(Words) /\ Len(P) <= 4
    BY <1>3, ProgressIsSeq
  <2>3. W \in Seq(Words) /\ Len(W) = 1
    <3>1. WireStatus(o) \in Words
      BY DEF WireStatus, Words
    <3> QED
      BY <3>1, Tuples
  <2> HIDE DEF P, W
  <2>4. Len(Opening \o P \o W) = Len(Opening) + Len(P) + Len(W)
    <3>1. \A a, b, c \in Seq(Words) : Len(a \o b \o c) = Len(a) + Len(b) + Len(c)
      BY ThreeParts
    <3>2. Opening \in Seq(Words) /\ P \in Seq(Words) /\ W \in Seq(Words)
      BY <1>1, <2>2, <2>3
    <3> QED
      BY <3>1, <3>2, Zenon
  <2>5. Len(Script(k, o)) = 2 + Len(P) + 1
    BY <1>1, <2>1, <2>3, <2>4
  <2>6. Len(P) \in Nat
    BY <2>2, LenProperties
  <2> QED
    BY <2>2, <2>5, <2>6
<1> QED
  BY <1>2, <1>3

\* The same of a dispatch.
LEMMA ServedLength ==
    ASSUME TypeOK, OutcomeOfKind, NEW d \in 1..Len(kinds)
    PROVE  /\ Len(Served(d)) \in Nat
           /\ outcome[d] = Pending => Len(Served(d)) = 2
           /\ outcome[d] # Pending => Len(Served(d)) > 2 /\ Len(Served(d)) <= 7
<1>1. kinds[d] \in AllKinds
  BY RuntimeAssumption DEF TypeOK
<1>2. outcome[d] \in Outcomes(kinds[d]) \cup {Pending}
  BY DEF OutcomeOfKind
<1> QED
  BY <1>1, <1>2, ScriptLength DEF Served

\* A worker that has not started satisfies the inductive invariant.
LEMMA InvInit == Init => RuntimeInv
<1> SUFFICES ASSUME Init PROVE RuntimeInv
  OBVIOUS
<1> USE RuntimeAssumption DEF Init
<1>1. TypeOK
  <2>1. inbox \in Seq(Dispatches) /\ wire \in Seq(Message) /\ kinds \in Seq(Kinds)
    BY EmptySeq
  <2>2. Len(kinds) <= MaxDispatches /\ serving \in 0..MaxDispatches /\ faults \in 0..MaxFaults
    OBVIOUS
  <2> QED
    BY <2>1, <2>2 DEF TypeOK
<1>2. OutcomeOfKind /\ ReadInOrder /\ ToldSoFar /\ WireBehind
  BY DEF OutcomeOfKind, ReadInOrder, ToldSoFar, WireBehind, Dispatches, Pending
<1>3. EventsInOrder /\ ServedIsReported
  BY DEF EventsInOrder, ServedIsReported
<1> QED
  BY <1>1, <1>2, <1>3 DEF RuntimeInv

\* What is said about a dispatch stays the same until its handler ends.
LEMMA ServedStays ==
    ASSUME TypeOK, [Next]_vars, NEW d \in 1..Len(kinds), ~(phase = "handle" /\ d = serving)
    PROVE  Served(d)' = Served(d) /\ outcome'[d] = outcome[d] /\ d \in 1..Len(kinds')
<1>1. ASSUME NEW k \in Kinds, Dispatch(k)
      PROVE  kinds'[d] = kinds[d] /\ outcome' = outcome /\ d \in 1..Len(kinds')
  <2>1. kinds \in Seq(Kinds) /\ kinds' = Append(kinds, k)
    BY <1>1 DEF Dispatch, TypeOK
  <2>2. kinds'[d] = kinds[d] /\ Len(kinds') = Len(kinds) + 1
    BY <2>1, AppendProperties
  <2> QED
    BY <1>1, <2>1, <2>2, LenProperties DEF Dispatch
<1>2. CASE Handle
  <2>1. PICK o \in Outcomes(kinds[serving]) : outcome' = [outcome EXCEPT ![serving] = o]
    BY <1>2 DEF Handle
  <2>2. kinds' = kinds /\ d # serving
    BY <1>2 DEF Handle
  <2> QED
    BY <2>1, <2>2 DEF TypeOK, Served
<1>3. CASE ~Handle /\ \A k \in Kinds : ~Dispatch(k)
  <2>1. kinds' = kinds /\ outcome' = outcome
    BY <1>3 DEF Next, WorkerStep, vars, Deliver, Close, Crash, Connect, SendHello, HelloRaises,
                Receive, ReceiveNone, SendWebsocket, Post, PostRaises
  <2> QED
    BY <2>1 DEF Served
<1> QED
  BY <1>1, <1>2, <1>3 DEF Served

\* The end of a cycle keeps the variables it touches in their types.
LEMMA EndCycleTypes ==
    ASSUME TypeOK, NEW cut \in SUBSET Dispatches, EndCycle(cut)
    PROVE  /\ conn' = "closed" /\ inbox' = << >> /\ phase' = "off"
           /\ inbox' \in Seq(Dispatches)
           /\ UNCHANGED <<serving, pos, sent>>
           /\ excused' \in SUBSET Dispatches
           /\ excused \subseteq excused' /\ cut \subseteq excused'
           /\ \A i \in 1..Len(inbox) : inbox[i] \in excused'
<1>1. \A i \in 1..Len(inbox) : inbox[i] \in Dispatches
  BY DEF TypeOK
<1> QED
  BY <1>1, EmptySeq DEF EndCycle, Enter, TypeOK

\* The types of everything but the position of the worker.
Typed ==
    /\ conn \in {"up", "closed"}
    /\ inbox \in Seq(Dispatches)
    /\ wire \in Seq(Message)
    /\ told \in SUBSET Message
    /\ phase \in {"off", "hello", "receive", "send", "post", "handle"}
    /\ serving \in 0..MaxDispatches
    /\ phase \in {"send", "post", "handle"} => serving # 0
    /\ pos \in Nat
    /\ sent \in BOOLEAN
    /\ kinds \in Seq(Kinds)
    /\ Len(kinds) <= MaxDispatches
    /\ outcome \in [Dispatches -> AllOutcomes \cup {Pending}]
    /\ excused \in SUBSET Dispatches
    /\ faults \in 0..MaxFaults

\* Every step keeps those types.
LEMMA TypedStep ==
    ASSUME TypeOK, ReadInOrder, [Next]_vars
    PROVE  Typed'
<1> USE RuntimeAssumption DEF TypeOK, Typed
<1>0. phase \in {"send", "post", "handle"} => serving \in Dispatches /\ Current \in Message
  BY DEF Dispatches, Current, Message
<1>1. ASSUME NEW k \in Kinds, Dispatch(k)
      PROVE  Typed'
  <2>1. Len(kinds) \in Nat /\ Len(kinds) + 1 \in Dispatches
    BY <1>1 DEF Dispatch, Dispatches
  <2>2. inbox' \in Seq(Dispatches) /\ kinds' \in Seq(Kinds) /\ Len(kinds') = Len(kinds) + 1
    BY <1>1, <2>1, AppendProperties DEF Dispatch
  <2> QED
    BY <1>1, <2>1, <2>2 DEF Dispatch, worker
<1>2. CASE Deliver
  <2>1. Head(wire) \in Message /\ Tail(wire) \in Seq(Message)
    BY <1>2, HeadTailProperties DEF Deliver
  <2> QED
    BY <1>2, <2>1 DEF Deliver, worker
<1>3. CASE Close
  BY <1>3 DEF Close, Fault, worker
<1>4. CASE Crash
  <2>1. phase \notin {"hello", "receive", "off"} => serving \in Dispatches
    BY <1>0
  <2>2. EndCycle(IF phase \in {"hello", "receive"} THEN {} ELSE {serving})
    BY <1>4 DEF Crash
  <2>3. (IF phase \in {"hello", "receive"} THEN {} ELSE {serving}) \in SUBSET Dispatches
    BY <1>4, <2>1 DEF Crash
  <2>4. inbox' \in Seq(Dispatches) /\ conn' = "closed" /\ phase' = "off" /\ UNCHANGED <<serving, pos, sent>>
        /\ excused' \in SUBSET Dispatches
    BY <2>2, <2>3, EndCycleTypes
  <2> QED
    BY <1>4, <2>4 DEF Crash, Fault
<1>5. CASE Connect
  BY <1>5 DEF Connect, Enter
<1>6. CASE SendHello
  BY <1>6 DEF SendHello, Enter
<1>7. CASE HelloRaises
  <2>1. EndCycle({}) /\ {} \in SUBSET Dispatches
    BY <1>7 DEF HelloRaises
  <2>2. inbox' \in Seq(Dispatches) /\ conn' = "closed" /\ phase' = "off"
        /\ UNCHANGED <<serving, pos, sent>> /\ excused' \in SUBSET Dispatches
    BY <2>1, EndCycleTypes
  <2> QED
    BY <1>7, <2>2 DEF HelloRaises
<1>8. CASE Receive
  <2>1. Head(inbox) \in Dispatches /\ Tail(inbox) \in Seq(Dispatches)
    BY <1>8, HeadTailProperties DEF Receive
  <2> QED
    <3>1. serving' \in 0..MaxDispatches /\ serving' # 0
      BY <1>8, <2>1 DEF Receive, Dispatches
    <3> QED
      BY <1>8, <2>1, <3>1 DEF Receive
<1>9. CASE ReceiveNone
  <2>1. EndCycle({}) /\ {} \in SUBSET Dispatches
    BY <1>9 DEF ReceiveNone
  <2>2. inbox' \in Seq(Dispatches) /\ conn' = "closed" /\ phase' = "off"
        /\ UNCHANGED <<serving, pos, sent>> /\ excused' \in SUBSET Dispatches
    BY <2>1, EndCycleTypes
  <2> QED
    BY <1>9, <2>2 DEF ReceiveNone
<1>10. CASE SendWebsocket
  <2>1. Append(wire, Current) \in Seq(Message)
    BY <1>0, <1>10, AppendProperties DEF SendWebsocket
  <2> QED
    BY <1>10, <2>1 DEF SendWebsocket
<1>11. CASE Post
  BY <1>0, <1>11 DEF Post, Proceed
<1>12. CASE PostRaises
  <2>1. told' \in SUBSET Message /\ {serving} \in SUBSET Dispatches
    BY <1>0, <1>12 DEF PostRaises
  <2> QED
    BY <1>12, <2>1 DEF PostRaises, Proceed, Fault
<1>13. CASE Handle
  <2>1. serving \in 1..Len(kinds)
    BY <1>13 DEF Handle, ReadInOrder
  <2>2. kinds[serving] \in AllKinds
    BY <2>1
  <2>3. Outcomes(kinds[serving]) \subseteq AllOutcomes
    BY <2>2 DEF AllOutcomes
  <2>4. outcome' \in [Dispatches -> AllOutcomes \cup {Pending}]
    BY <1>13, <2>3 DEF Handle
  <2> QED
    BY <1>13, <2>4 DEF Handle, Enter
<1>14. CASE UNCHANGED vars
  BY <1>14 DEF vars, worker
<1> QED
  BY <1>1, <1>2, <1>3, <1>4, <1>5, <1>6, <1>7, <1>8, <1>9, <1>10, <1>11, <1>12, <1>13, <1>14
     DEF Next, WorkerStep

\* Handlers end as those of their kind do, each in its turn.
LEMMA OutcomeStep ==
    ASSUME TypeOK, OutcomeOfKind, ReadInOrder, [Next]_vars
    PROVE  OutcomeOfKind'
<1> USE RuntimeAssumption DEF OutcomeOfKind
<1>1. ASSUME NEW k \in Kinds, Dispatch(k)
      PROVE  OutcomeOfKind'
  <2>1. kinds \in Seq(Kinds) /\ kinds' = Append(kinds, k) /\ Len(kinds) \in Nat
    BY <1>1 DEF Dispatch, TypeOK
  <2>2. Len(kinds') = Len(kinds) + 1 /\ \A d \in 1..Len(kinds) : kinds'[d] = kinds[d]
    BY <2>1, AppendProperties
  <2>3. serving' = serving /\ outcome' = outcome /\ Len(kinds) + 1 \in Dispatches
    BY <1>1, <2>1 DEF Dispatch, worker, Dispatches
  <2>4. outcome[Len(kinds) + 1] = Pending
    BY <2>1, <2>3 DEF ReadInOrder, TypeOK
  <2> QED
    BY <2>1, <2>2, <2>3, <2>4
<1>2. CASE Handle
  <2>1. PICK o \in Outcomes(kinds[serving]) : outcome' = [outcome EXCEPT ![serving] = o]
    BY <1>2 DEF Handle
  <2>2. kinds' = kinds /\ serving' = serving
    BY <1>2 DEF Handle, Enter
  <2> QED
    BY <2>1, <2>2 DEF TypeOK, ReadInOrder, Dispatches
<1>3. CASE Receive
  <2>1. serving' = inbox[1] /\ 1 \in 1..Len(inbox) /\ kinds' = kinds /\ outcome' = outcome
    BY <1>3 DEF Receive, TypeOK
  <2>2. serving' > serving /\ serving' \in Nat
    BY <2>1 DEF ReadInOrder, TypeOK, Dispatches
  <2> QED
    BY <2>1, <2>2 DEF TypeOK, Dispatches
<1>4. CASE ~Handle /\ ~Receive /\ \A k \in Kinds : ~Dispatch(k)
  <2>1. kinds' = kinds /\ outcome' = outcome /\ serving' = serving
    BY <1>4 DEF Next, WorkerStep, vars, worker, Deliver, Close, Crash, Connect, SendHello,
                HelloRaises, ReceiveNone, SendWebsocket, Post, PostRaises, Proceed, EndCycle, Enter
  <2> QED
    BY <2>1
<1> QED
  BY <1>1, <1>2, <1>3, <1>4

\* The dispatches under way are numbered.
LEMMA InboxOfNat ==
    ASSUME inbox \in Seq(Dispatches), NEW i \in 1..Len(inbox)
    PROVE  inbox[i] \in Nat
<1>1. inbox[i] \in Dispatches
  BY ElementOfSeq
<1> QED
  BY <1>1 DEF Dispatches

\* The end of a cycle excuses the dispatches it leaves unread.
LEMMA EndCycleReads ==
    ASSUME TypeOK, ReadInOrder, kinds' = kinds,
           NEW cut \in SUBSET Dispatches, EndCycle(cut)
    PROVE  ReadInOrder'
<1>1. inbox' = << >> /\ serving' = serving /\ excused \subseteq excused'
      /\ \A i \in 1..Len(inbox) : inbox[i] \in excused'
  BY EndCycleTypes
<1>2. Len(inbox') = 0
  BY <1>1
<1> QED
  BY <1>1, <1>2 DEF ReadInOrder

\* Dispatches are read in order or go with their connection.
LEMMA ReadStep ==
    ASSUME TypeOK, ReadInOrder, [Next]_vars
    PROVE  ReadInOrder'
<1>1. ASSUME NEW k \in Kinds, Dispatch(k)
      PROVE  ReadInOrder'
  <2>1. kinds \in Seq(Kinds) /\ Len(kinds) \in Nat /\ Len(kinds) + 1 \in Dispatches
    BY <1>1, RuntimeAssumption DEF Dispatch, TypeOK, Dispatches
  <2>2. Len(kinds') = Len(kinds) + 1
    BY <1>1, <2>1, AppendProperties DEF Dispatch
  <2>3. inbox \in Seq(Dispatches) /\ inbox' = Append(inbox, Len(kinds) + 1)
    BY <1>1 DEF Dispatch, TypeOK
  <2>4. /\ Len(inbox') = Len(inbox) + 1
        /\ \A i \in 1..Len(inbox) : inbox'[i] = inbox[i]
        /\ inbox'[Len(inbox) + 1] = Len(kinds) + 1
    BY <2>1, <2>3, AppendProperties
  <2>5. serving' = serving /\ excused' = excused /\ serving \in Nat /\ Len(inbox) \in Nat
    BY <1>1, <2>3, LenProperties DEF Dispatch, worker, TypeOK
  <2>6. \A i \in 1..Len(inbox) : inbox[i] \in Nat
    BY <2>3, InboxOfNat
  <2>7. /\ serving' <= Len(kinds')
        /\ \A i \in 1..Len(inbox') : inbox'[i] > serving' /\ inbox'[i] <= Len(kinds')
    BY <2>1, <2>2, <2>4, <2>5, <2>6 DEF ReadInOrder
  <2>8. \A i, j \in 1..Len(inbox') : i < j => inbox'[i] < inbox'[j]
    BY <2>1, <2>4, <2>5, <2>6 DEF ReadInOrder
  <2>9. \A d \in (serving' + 1)..Len(kinds') :
           d \in excused' \/ \E i \in 1..Len(inbox') : inbox'[i] = d
    <3> TAKE d \in (serving' + 1)..Len(kinds')
    <3>1. CASE d = Len(kinds) + 1
      BY <2>4, <2>5, <3>1
    <3>2. CASE d # Len(kinds) + 1
      <4>1. d \in (serving + 1)..Len(kinds)
        BY <2>1, <2>2, <2>5, <3>2
      <4>2. d \in excused \/ \E i \in 1..Len(inbox) : inbox[i] = d
        BY <4>1 DEF ReadInOrder
      <4> QED
        BY <2>4, <2>5, <4>2
    <3> QED
      BY <3>1, <3>2
  <2> QED
    BY <2>7, <2>8, <2>9 DEF ReadInOrder
<1>2. CASE Receive
  <2>1. inbox \in Seq(Dispatches) /\ inbox # << >>
    BY <1>2 DEF Receive, TypeOK
  <2>2. /\ inbox' = Tail(inbox)
        /\ Len(inbox') = Len(inbox) - 1
        /\ \A i \in 1..Len(inbox') : inbox'[i] = inbox[i + 1]
    BY <1>2, <2>1, HeadTailProperties DEF Receive
  <2>3. serving' = inbox[1] /\ kinds' = kinds /\ excused' = excused
    BY <1>2, <2>1 DEF Receive
  <2>4. Len(inbox) \in Nat /\ Len(inbox) > 0 /\ Len(kinds) \in Nat /\ serving \in Nat
    BY <2>1, LenProperties, EmptySeq DEF TypeOK
  <2>5. \A i \in 1..Len(inbox) : inbox[i] \in Nat
    BY <2>1, InboxOfNat
  <2>6. \A d \in (serving' + 1)..Len(kinds') :
           d \in excused' \/ \E i \in 1..Len(inbox') : inbox'[i] = d
    <3> TAKE d \in (serving' + 1)..Len(kinds')
    <3>1. d \in (serving + 1)..Len(kinds) /\ d # inbox[1]
      BY <2>3, <2>4, <2>5 DEF ReadInOrder
    <3>2. CASE d \in excused
      BY <2>3, <3>2
    <3>3. ASSUME NEW i \in 1..Len(inbox), inbox[i] = d
          PROVE  \E j \in 1..Len(inbox') : inbox'[j] = d
      <4>1. i - 1 \in 1..Len(inbox') /\ inbox'[i - 1] = inbox[(i - 1) + 1]
        BY <2>2, <2>4, <3>1, <3>3
      <4> QED
        BY <3>3, <4>1
    <3> QED
      BY <3>1, <3>2, <3>3 DEF ReadInOrder
  <2> QED
    BY <2>2, <2>3, <2>4, <2>5, <2>6 DEF ReadInOrder
<1>3. CASE Crash
  <2>1. phase \notin {"hello", "receive", "off"} => serving \in Dispatches
    BY DEF TypeOK, Dispatches
  <2>2. (IF phase \in {"hello", "receive"} THEN {} ELSE {serving}) \in SUBSET Dispatches
    BY <1>3, <2>1 DEF Crash
  <2> QED
    BY <1>3, <2>2, EndCycleReads DEF Crash
<1>4. CASE HelloRaises \/ ReceiveNone
  <2>1. EndCycle({}) /\ kinds' = kinds /\ {} \in SUBSET Dispatches
    BY <1>4 DEF HelloRaises, ReceiveNone
  <2> QED
    BY <2>1, EndCycleReads
<1>5. CASE ~Receive /\ ~Crash /\ ~HelloRaises /\ ~ReceiveNone /\ \A k \in Kinds : ~Dispatch(k)
  <2>1. inbox' = inbox /\ kinds' = kinds /\ serving' = serving /\ excused \subseteq excused'
    BY <1>5 DEF Next, WorkerStep, vars, worker, Deliver, Close, Connect, SendHello,
                SendWebsocket, Post, PostRaises, Proceed, Handle, Enter
  <2> QED
    BY <2>1 DEF ReadInOrder
<1> QED
  BY <1>1, <1>2, <1>3, <1>4, <1>5

\* Where a message that is out of hand takes the worker.
LEMMA ProceedGoes ==
    ASSUME TypeOK, OutcomeOfKind, serving \in 1..Len(kinds), Proceed
    PROVE  /\ pos' = pos + 1 /\ serving' = serving
           /\ phase' \in {"send", "handle", "receive"}
           /\ phase' = "send" => pos + 1 < Len(Served(serving))
           /\ phase' = "handle" => outcome[serving] = Pending /\ pos + 1 >= Len(Served(serving))
           /\ phase' = "receive" => outcome[serving] # Pending /\ pos + 1 >= Len(Served(serving))
<1>1. Len(Served(serving)) \in Nat /\ pos + 1 \in Nat
  BY ServedLength DEF TypeOK
<1>2. CASE pos + 1 < Len(Served(serving))
  BY <1>1, <1>2 DEF Proceed
<1>3. CASE pos + 1 >= Len(Served(serving)) /\ outcome[serving] = Pending
  BY <1>1, <1>3 DEF Proceed
<1>4. CASE pos + 1 >= Len(Served(serving)) /\ outcome[serving] # Pending
  BY <1>1, <1>4 DEF Proceed
<1> QED
  BY <1>1, <1>2, <1>3, <1>4

\* The worker sends no message there is not.
LEMMA PositionStep ==
    ASSUME TypeOK, OutcomeOfKind, OutcomeOfKind', ReadInOrder, ReadInOrder', ToldSoFar, [Next]_vars
    PROVE  TypeOK'
<1>1. Typed'
  BY TypedStep
<1>2. ASSUME phase' \in {"send", "post"}
      PROVE  pos' < Len(Served(serving))'
  <2>1. CASE Receive
    <3>1. inbox \in Seq(Dispatches) /\ inbox # << >>
      BY <2>1 DEF Receive, TypeOK
    <3>2. serving' \in Dispatches /\ serving' > serving /\ serving' \in 1..Len(kinds)
      <4>1. serving' = inbox[1] /\ 1 \in 1..Len(inbox)
        BY <2>1, <3>1, EmptySeq DEF Receive
      <4>2. inbox[1] \in Dispatches /\ inbox[1] \in Nat
        BY <3>1, <4>1, InboxOfNat, ElementOfSeq
      <4> QED
        BY <4>1, <4>2 DEF ReadInOrder, TypeOK, Dispatches
    <3>3. outcome[serving'] = Pending
      BY <3>2 DEF OutcomeOfKind
    <3>4. Len(Served(serving')) = 2
      BY <3>2, <3>3, ServedLength
    <3> QED
      BY <2>1, <3>4 DEF Receive, Served
  <2>2. CASE Handle
    <3>1. serving \in 1..Len(kinds) /\ serving \in Dispatches
      BY <2>2 DEF Handle, ReadInOrder, TypeOK, Dispatches
    <3>2. kinds' = kinds /\ serving' = serving /\ pos' = pos /\ pos = 2
      BY <2>2 DEF Handle, Enter, ToldSoFar, Opening
    <3>3. PICK o \in Outcomes(kinds[serving]) : outcome' = [outcome EXCEPT ![serving] = o]
      BY <2>2 DEF Handle
    <3>4. outcome'[serving] = o /\ o # Pending
      <4>1. kinds[serving] \in AllKinds
        BY <3>1, RuntimeAssumption DEF TypeOK
      <4> QED
        BY <3>1, <3>3, <4>1 DEF TypeOK, AllKinds, Outcomes, Pending
    <3>5. Len(Script(kinds[serving], o)) > 2
      <4>1. kinds[serving] \in AllKinds
        BY <3>1, RuntimeAssumption DEF TypeOK
      <4> QED
        BY <3>4, <4>1, ScriptLength
    <3> QED
      BY <3>2, <3>4, <3>5 DEF Served
  <2>3. CASE ~Receive /\ ~Handle
    <3>1. serving' = serving /\ serving \in 1..Len(kinds) /\ phase # "handle" /\ phase \in {"send", "post"}
      BY <1>2, <2>3
         DEF Next, WorkerStep, vars, worker, Deliver, Close, Connect, SendHello, Dispatch,
                HelloRaises, ReceiveNone, Crash, EndCycle, TypeOK, ReadInOrder,
                SendWebsocket, Post, PostRaises, Proceed, Enter
    <3>2. Served(serving)' = Served(serving)
      BY <3>1, ServedStays DEF Served
    <3>3. CASE Proceed
      <4>1. pos' = pos + 1 /\ pos + 1 < Len(Served(serving))
        BY <1>2, <3>1, <3>3, ProceedGoes
      <4> QED
        BY <3>1, <3>2, <4>1
    <3>4. CASE ~Proceed
      <4>1. pos' = pos
        BY <1>2, <2>3, <3>4 DEF Next, WorkerStep, vars, worker, Deliver, Close, Connect, SendHello,
                  Dispatch, HelloRaises, ReceiveNone, Crash, EndCycle, SendWebsocket, Post,
                  PostRaises, Enter
      <4> QED
        BY <3>1, <3>2, <4>1 DEF TypeOK
    <3> QED
      BY <3>3, <3>4
  <2> QED
    BY <2>1, <2>2, <2>3
<1> QED
  BY <1>1, <1>2 DEF Typed, TypeOK

\* What is told and what is excused only grows, and so what was told in order
\* stays so; new is only the message in hand, or the head of the websocket.
LEMMA ToldGrows ==
    ASSUME TypeOK, ReadInOrder, [Next]_vars
    PROVE  /\ told \subseteq told' /\ excused \subseteq excused'
           /\ told' \subseteq told \cup (IF phase = "post" THEN {Current} ELSE {})
                              \cup (IF wire # << >> THEN {Head(wire)} ELSE {})
<1>1. CASE Crash
  BY <1>1 DEF Crash, EndCycle
<1>2. CASE ~Crash
  BY <1>2 DEF Next, WorkerStep, vars, worker, Dispatch, Deliver, Close, Connect, SendHello,
            HelloRaises, Receive, ReceiveNone, SendWebsocket, Post, PostRaises, Handle, EndCycle
<1> QED
  BY <1>1, <1>2

\* A message of the dispatch in hand has everything before it told.
LEMMA CurrentInOrder ==
    ASSUME TypeOK, ToldSoFar, phase \in {"send", "post"}, serving \notin excused
    PROVE  \A j \in 1..(Current.at - 1) : [Current EXCEPT !.at = j] \in told
<1>1. Current.at - 1 = pos
  BY DEF Current, TypeOK
<1>2. \A j \in 1..pos : [Current EXCEPT !.at = j] = [dispatch |-> serving, at |-> j]
  BY DEF Current
<1> QED
  BY <1>1, <1>2 DEF ToldSoFar

\* Messages are told in order, also those that come late.
LEMMA OrderStep ==
    ASSUME TypeOK, ReadInOrder, ToldSoFar, WireBehind, EventsInOrder, [Next]_vars
    PROVE  EventsInOrder' /\ WireBehind'
<1> DEFINE Ordered(m) == \A j \in 1..(m.at - 1) : [m EXCEPT !.at = j] \in told
<1>1. told \subseteq told' /\ excused \subseteq excused'
  BY ToldGrows
<1>2. ASSUME NEW m \in told', m.dispatch \notin excused'
      PROVE  Ordered(m)
  <2>1. CASE m \in told
    BY <1>1, <1>2, <2>1 DEF EventsInOrder
  <2>2. CASE phase = "post" /\ m = Current
    BY <1>1, <1>2, <2>2, CurrentInOrder DEF Current
  <2>3. CASE wire # << >> /\ m = Head(wire)
    <3>1. m = wire[1] /\ 1 \in 1..Len(wire)
      BY <2>3, EmptySeq DEF TypeOK
    <3> QED
      BY <1>1, <1>2, <3>1 DEF WireBehind
  <2> QED
    BY <1>2, <2>1, <2>2, <2>3, ToldGrows
<1>3. ASSUME NEW i \in 1..Len(wire'), wire'[i].dispatch \notin excused'
      PROVE  Ordered(wire'[i])
  <2>1. wire \in Seq(Message)
    BY DEF TypeOK
  <2>2. CASE Deliver
    <3>1. wire # << >> /\ wire' = Tail(wire)
      BY <2>2 DEF Deliver
    <3>2. wire'[i] = wire[i + 1] /\ i + 1 \in 1..Len(wire)
      BY <1>3, <2>1, <3>1, HeadTailProperties, LenProperties
    <3> QED
      BY <1>1, <1>3, <3>2 DEF WireBehind
  <2>3. CASE SendWebsocket /\ conn = "up"
    <3>1. wire' = Append(wire, Current) /\ phase = "send" /\ Current \in Message
      BY <2>3 DEF SendWebsocket, Current, Message, TypeOK, Dispatches
    <3>2. Len(wire') = Len(wire) + 1 /\ wire'[Len(wire) + 1] = Current
          /\ \A k \in 1..Len(wire) : wire'[k] = wire[k]
      BY <2>1, <3>1, AppendProperties
    <3>3. CASE i \in 1..Len(wire)
      BY <1>1, <1>3, <3>2, <3>3 DEF WireBehind
    <3>4. CASE i = Len(wire) + 1
      <4>1. wire'[i] = Current /\ serving \notin excused
        BY <1>1, <1>3, <3>2, <3>4 DEF Current
      <4> QED
        BY <3>1, <4>1, CurrentInOrder
    <3> QED
      BY <1>3, <2>1, <3>2, <3>3, <3>4, LenProperties
  <2>4. CASE wire' = << >>
    BY <1>3, <2>4
  <2>5. CASE ~Deliver /\ ~(SendWebsocket /\ conn = "up") /\ wire' # << >>
    <3>1. wire' = wire
      BY <2>5 DEF Next, WorkerStep, vars, worker, Dispatch, Close, Crash, Connect, SendHello,
            HelloRaises, Receive, ReceiveNone, SendWebsocket, Post, PostRaises, Handle
    <3> QED
      BY <1>1, <1>3, <3>1 DEF WireBehind
  <2> QED
    BY <2>2, <2>3, <2>4, <2>5
<1>4. EventsInOrder'
  BY <1>1, <1>2 DEF EventsInOrder
<1>5. WireBehind'
  BY <1>1, <1>3 DEF WireBehind
<1> QED
  BY <1>4, <1>5

\* What the worker has out of hand is told, unless it is excused.
LEMMA ToldStep ==
    ASSUME TypeOK, OutcomeOfKind, ReadInOrder, ToldSoFar, [Next]_vars
    PROVE  ToldSoFar'
<1>1. told \subseteq told' /\ excused \subseteq excused'
  BY ToldGrows
<1>2. CASE Receive
  BY <1>2 DEF Receive, ToldSoFar
<1>3. CASE phase = "post" /\ Proceed /\ (Post \/ PostRaises)
  <2>1. serving \in 1..Len(kinds) /\ pos < Len(Served(serving))
    BY <1>3 DEF TypeOK, ReadInOrder
  <2>2. /\ pos' = pos + 1 /\ serving' = serving
        /\ phase' = "handle" => outcome[serving] = Pending /\ pos + 1 >= Len(Served(serving))
    BY <1>3, <2>1, ProceedGoes
  <2>3. ASSUME serving \notin excused'
        PROVE  \A i \in 1..(pos + 1) : [dispatch |-> serving, at |-> i] \in told'
    <3>1. [dispatch |-> serving, at |-> pos + 1] \in told'
      <4>1. CASE Post
        BY <4>1 DEF Post, Current
      <4>2. CASE PostRaises
        BY <2>3, <4>2 DEF PostRaises
      <4> QED
        BY <1>3, <4>1, <4>2
    <3>2. \A i \in 1..pos : [dispatch |-> serving, at |-> i] \in told'
      BY <1>1, <1>3, <2>3 DEF ToldSoFar
    <3>3. \A i \in 1..(pos + 1) : i \in 1..pos \/ i = pos + 1
      BY DEF TypeOK
    <3> QED
      BY <3>1, <3>2, <3>3
  <2>4. ASSUME phase' = "handle"
        PROVE  outcome'[serving] = Pending /\ pos + 1 = 2
    <3>1. Len(Served(serving)) = 2 /\ outcome' = outcome
      BY <1>3, <2>1, <2>2, <2>4, ServedLength DEF Post, PostRaises
    <3> QED
      BY <2>1, <2>2, <2>4, <3>1 DEF TypeOK
  <2> QED
    BY <2>2, <2>3, <2>4 DEF ToldSoFar, Opening
<1>4. CASE phase' \in {"off", "hello", "receive"}
  BY <1>4 DEF ToldSoFar
<1>5. CASE Handle
  BY <1>1, <1>5 DEF Handle, Enter, ToldSoFar
<1>6. CASE SendWebsocket
  BY <1>1, <1>6 DEF SendWebsocket, ToldSoFar
<1>7. CASE UNCHANGED <<phase, serving, pos, outcome>>
  BY <1>1, <1>7 DEF ToldSoFar
<1> QED
  <2>1. CASE ~Receive /\ ~Handle /\ ~SendWebsocket /\ phase' \notin {"off", "hello", "receive"}
             /\ ~(phase = "post" /\ Proceed /\ (Post \/ PostRaises))
    <3>1. UNCHANGED <<phase, serving, pos, outcome>>
      BY <2>1 DEF Next, WorkerStep, vars, worker, Dispatch, Deliver, Close, Crash, Connect,
                  SendHello, HelloRaises, ReceiveNone, Post, PostRaises, EndCycle, Enter
    <3> QED
      BY <1>7, <3>1
  <2> QED
    BY <1>2, <1>3, <1>4, <1>5, <1>6, <2>1

\* A dispatch that stays finished stays reported.
LEMMA ReportedStays ==
    ASSUME TypeOK, ReadInOrder, ServedIsReported, [Next]_vars,
           NEW d \in 1..serving, d \notin excused, Finished(d)
    PROVE  /\ outcome'[d] # Pending
           /\ \A i \in 1..Len(Served(d)') : [dispatch |-> d, at |-> i] \in told'
<1>1. d \in 1..Len(kinds) /\ ~(phase = "handle" /\ d = serving)
  BY DEF Finished, TypeOK, ReadInOrder
<1>2. Served(d)' = Served(d) /\ outcome'[d] = outcome[d] /\ told \subseteq told'
  BY <1>1, ServedStays, ToldGrows
<1> QED
  BY <1>2 DEF ServedIsReported

\* When the worker turns to something else, its dispatch is reported.
LEMMA ReportStep ==
    ASSUME TypeOK, OutcomeOfKind, ReadInOrder, ToldSoFar, ToldSoFar', ServedIsReported, [Next]_vars
    PROVE  ServedIsReported'
<1>1. told \subseteq told' /\ excused \subseteq excused'
  BY ToldGrows
<1> SUFFICES ASSUME NEW d \in 1..serving', d \notin excused', Finished(d)'
             PROVE  /\ outcome'[d] # Pending
                    /\ \A i \in 1..Len(Served(d)') : [dispatch |-> d, at |-> i] \in told'
  BY DEF ServedIsReported
<1>2. CASE d \in 1..serving /\ Finished(d)
  BY <1>1, <1>2, ReportedStays
<1>3. CASE Receive
  <2>1. inbox \in Seq(Dispatches) /\ inbox # << >> /\ serving' = inbox[1] /\ phase' = "send"
    BY <1>3 DEF Receive, TypeOK
  <2>2. 1 \in 1..Len(inbox) /\ Len(inbox) \in Nat
    BY <2>1, EmptySeq, LenProperties
  <2>3. \A i \in 1..Len(inbox) : inbox[i] \in Nat
    BY <2>1, InboxOfNat
  <2>4. d < inbox[1] /\ d \in Nat
    BY <2>1, <2>2, <2>3 DEF Finished
  <2>5. d \notin excused
    BY <1>1
  <2>6. \A i \in 1..Len(inbox) : inbox[i] # d
    BY <2>2, <2>3, <2>4 DEF ReadInOrder
  <2>7. d \notin (serving + 1)..Len(kinds)
    BY <2>5, <2>6 DEF ReadInOrder
  <2>8. d <= serving
    BY <2>2, <2>3, <2>4, <2>7 DEF ReadInOrder, TypeOK
  <2>9. d \in 1..serving /\ Finished(d)
    BY <1>3, <2>4, <2>8 DEF Receive, Finished, TypeOK
  <2> QED
    BY <1>2, <2>9
<1>4. CASE ~Receive /\ ~(d \in 1..serving /\ Finished(d))
  <2>1. serving' = serving
    BY <1>4 DEF Next, WorkerStep, vars, worker, Dispatch, Deliver, Close, Crash, Connect,
                SendHello, HelloRaises, ReceiveNone, SendWebsocket, Post, PostRaises, Proceed,
                Handle, EndCycle, Enter
  <2>2. d = serving /\ phase \in {"send", "post", "handle"} /\ phase' \in {"off", "hello", "receive"}
    BY <1>4, <2>1 DEF Finished, TypeOK
  <2>3. ~Crash
    BY <2>2 DEF Crash, EndCycle
  <2>4. phase = "post" /\ Proceed /\ (Post \/ PostRaises)
    BY <2>2, <2>3, <1>4
       DEF Next, WorkerStep, vars, worker, Dispatch, Deliver, Close, Connect, SendHello,
           HelloRaises, ReceiveNone, SendWebsocket, Post, PostRaises, Proceed, Handle,
           EndCycle, Enter
  <2>5. ~PostRaises
    BY <2>2 DEF PostRaises, Proceed
  <2>6. Post
    BY <2>4, <2>5
  <2>7. serving \in 1..Len(kinds) /\ pos < Len(Served(serving)) /\ pos \in Nat
    BY <2>2, <2>4 DEF TypeOK, ReadInOrder
  <2>8. pos' = pos + 1 /\ outcome[serving] # Pending /\ pos + 1 >= Len(Served(serving))
    BY <2>2, <2>4, <2>7, ProceedGoes
  <2>9. Len(Served(serving)) = pos + 1
    BY <2>7, <2>8, ServedLength
  <2>10. Served(d)' = Served(d) /\ outcome' = outcome
    BY <2>2, <2>6, <2>7, ServedStays DEF Post
  <2>11. \A i \in 1..pos : [dispatch |-> serving, at |-> i] \in told'
    BY <1>1, <2>2 DEF ToldSoFar
  <2>12. [dispatch |-> serving, at |-> pos + 1] \in told'
    BY <2>6 DEF Post, Current
  <2>13. \A i \in 1..(pos + 1) : i \in 1..pos \/ i = pos + 1
    BY <2>7
  <2> QED
    BY <2>2, <2>8, <2>9, <2>10, <2>11, <2>12, <2>13
<1> QED
  BY <1>2, <1>3, <1>4

\* Every step of the worker, the control plane or the network preserves it.
LEMMA InvStep == RuntimeInv /\ [Next]_vars => RuntimeInv'
<1> SUFFICES ASSUME RuntimeInv, [Next]_vars PROVE RuntimeInv'
  OBVIOUS
<1> USE DEF RuntimeInv
<1>1. OutcomeOfKind'
  BY OutcomeStep
<1>2. ReadInOrder'
  BY ReadStep
<1>3. TypeOK'
  BY <1>1, <1>2, PositionStep
<1>4. ToldSoFar'
  BY ToldStep
<1>5. EventsInOrder' /\ WireBehind'
  BY OrderStep
<1>6. ServedIsReported'
  BY <1>4, ReportStep
<1> QED
  BY <1>1, <1>2, <1>3, <1>4, <1>5, <1>6

\* The connection, the queues, the worker's position and what is known of every
\* dispatch keep their types.
THEOREM RuntimeTypes == Spec => []TypeOK
<1>1. RuntimeInv => TypeOK
  BY DEF RuntimeInv
<1> QED
  BY <1>1, InvInit, InvStep, PTL DEF Spec

\* Whenever the worker is done with a dispatch the control plane knows all that
\* is to say about it, however often the websocket closed, unless HTTP failed on
\* one of its messages or the process died.
THEOREM ReportsArrive == Spec => []ServedIsReported
<1>1. RuntimeInv => ServedIsReported
  BY DEF RuntimeInv
<1> QED
  BY <1>1, InvInit, InvStep, PTL DEF Spec

\* What the control plane is told of a dispatch by either channel never comes
\* before what precedes it.
THEOREM OrderHolds == Spec => []EventsInOrder
<1>1. RuntimeInv => EventsInOrder
  BY DEF RuntimeInv
<1> QED
  BY <1>1, InvInit, InvStep, PTL DEF Spec

-----------------------------------------------------------------------------
(***************************************************************************)
(* More that the control plane can rely on.                                *)
(***************************************************************************)

\* A dispatch is handled once: what its handler ended with is never replaced,
\* whatever becomes of the messages about it.  What C360 wants run again it has
\* to dispatch again.
HandledOnce == [][\A d \in Dispatches : outcome[d] # Pending => outcome'[d] = outcome[d]]_vars

\* No dispatch falls between two stools: it is answered, under way to the
\* worker, in its hands, or lost for one of the three reasons.
NothingLost ==
    \A d \in 1..Len(kinds) :
        \/ Answered(d) \/ d \in excused
        \/ \E i \in 1..Len(inbox) : inbox[i] = d
        \/ d = serving /\ phase \in {"send", "post", "handle"}

\* The worker has taken the dispatch of m, and it has this message to send
\* about it.
Said(m) == m.dispatch \in 1..serving /\ m.at \in 1..Len(Served(m.dispatch))

\* Nothing is told that has not happened: no status after 'running' of a
\* dispatch whose handler has not ended, nothing of one that was not taken.
NothingSaidAhead == \A m \in told : Said(m)

\* The messages under way, too.
AllSaid == NothingSaidAhead /\ \A i \in 1..Len(wire) : Said(wire[i])

\* When the control plane is told anything of a dispatch it knows all there is
\* to say about those before it, late messages of the websocket included.
OneAfterAnother ==
    \A m \in told : \A e \in 1..(m.dispatch - 1) \ excused :
        /\ outcome[e] # Pending
        /\ \A i \in 1..Len(Served(e)) : [dispatch |-> e, at |-> i] \in told

\* Only the handler of the dispatch in hand gives it an outcome, its first.
LEMMA OutcomeStays ==
    ASSUME RuntimeInv, [Next]_vars, NEW d \in Dispatches, outcome[d] # Pending
    PROVE  outcome'[d] = outcome[d]
<1>1. CASE Handle
  <2>1. outcome[serving] = Pending /\ serving # d
    BY <1>1 DEF Handle, RuntimeInv, ToldSoFar
  <2> QED
    BY <1>1, <2>1 DEF Handle, RuntimeInv, TypeOK
<1>2. CASE ~Handle
  BY <1>2 DEF Next, WorkerStep, vars, Dispatch, Deliver, Close, Crash, Connect, SendHello,
              HelloRaises, Receive, ReceiveNone, SendWebsocket, Post, PostRaises
<1> QED
  BY <1>1, <1>2

\* A dispatch is never handled twice, however often connections close, messages
\* are lost or the worker dies.
THEOREM DispatchesHandledOnce == Spec => HandledOnce
<1>1. RuntimeInv /\ [Next]_vars =>
        [\A d \in Dispatches : outcome[d] # Pending => outcome'[d] = outcome[d]]_vars
  BY OutcomeStays
<1> QED
  BY <1>1, InvInit, InvStep, PTL DEF Spec, HandledOnce

\* Where a dispatch can be.
LEMMA NoneLost == RuntimeInv => NothingLost
<1> SUFFICES ASSUME RuntimeInv, NEW d \in 1..Len(kinds), d \notin excused,
                    \A i \in 1..Len(inbox) : inbox[i] # d,
                    ~(d = serving /\ phase \in {"send", "post", "handle"})
             PROVE  Answered(d)
  BY DEF NothingLost
<1>1. d \in 1..serving
  BY DEF RuntimeInv, ReadInOrder, TypeOK
<1>2. Finished(d)
  BY <1>1 DEF Finished, RuntimeInv, TypeOK
<1>3. outcome[d] # Pending /\ \A i \in 1..Len(Served(d)) : [dispatch |-> d, at |-> i] \in told
  BY <1>1, <1>2 DEF RuntimeInv, ServedIsReported
<1>4. Len(Served(d)) \in 1..Len(Served(d))
  BY <1>3, ServedLength DEF RuntimeInv
<1> QED
  BY <1>3, <1>4 DEF Answered

\* Every dispatch is accounted for at any time.
THEOREM DispatchesAccountedFor == Spec => []NothingLost
BY NoneLost, InvInit, InvStep, PTL DEF Spec

\* What could be said about a dispatch can still be said.
LEMMA SaidStays ==
    ASSUME RuntimeInv, RuntimeInv', [Next]_vars, NEW m \in Message, Said(m)
    PROVE  Said(m)'
<1> DEFINE d == m.dispatch
<1>a. d \in 1..Len(kinds) /\ m.at \in Nat /\ serving \in Nat /\ serving' \in Nat
  BY DEF RuntimeInv, TypeOK, ReadInOrder, Said, Message
<1>1. serving <= serving'
  <2>1. CASE Receive
    <3>1. inbox \in Seq(Dispatches) /\ inbox # << >>
      BY <2>1 DEF Receive, RuntimeInv, TypeOK
    <3>2. serving' = inbox[1] /\ 1 \in 1..Len(inbox)
      BY <2>1, <3>1, EmptySeq DEF Receive
    <3> QED
      BY <1>a, <3>2 DEF RuntimeInv, ReadInOrder
  <2>2. CASE ~Receive
    <3>1. serving' = serving
      BY <2>2 DEF Next, WorkerStep, vars, worker, Dispatch, Deliver, Close, Crash, Connect,
                  SendHello, HelloRaises, ReceiveNone, SendWebsocket, Post, PostRaises,
                  Proceed, Handle, EndCycle, Enter
    <3> QED
      BY <1>a, <3>1
  <2> QED
    BY <2>1, <2>2
<1>2. CASE ~(phase = "handle" /\ d = serving)
  <2>1. Served(d)' = Served(d)
    BY <1>2, <1>a, ServedStays DEF RuntimeInv
  <2> QED
    BY <1>1, <1>a, <2>1 DEF Said
<1>3. CASE phase = "handle" /\ d = serving
  <2>1. m.at \in 1..2
    <3>1. Len(Served(d)) = 2
      BY <1>3, <1>a, ServedLength DEF RuntimeInv, ToldSoFar
    <3> QED
      BY <3>1 DEF Said
  <2>2. Len(Served(d)') \in Nat /\ Len(Served(d)') >= 2
    <3>1. d \in 1..Len(kinds')
      BY <1>1, <1>3, <1>a DEF RuntimeInv, ReadInOrder, TypeOK
    <3>2. kinds'[d] \in AllKinds
      BY <3>1, RuntimeAssumption DEF RuntimeInv, TypeOK
    <3>3. outcome'[d] \in Outcomes(kinds'[d]) \cup {Pending}
      BY <3>1 DEF RuntimeInv, OutcomeOfKind
    <3>4. ASSUME NEW k \in AllKinds, NEW o \in Outcomes(k) \cup {Pending}
          PROVE  Len(Script(k, o)) \in Nat /\ Len(Script(k, o)) >= 2
      BY <3>4, ScriptLength
    <3>5. Len(Script(kinds'[d], outcome'[d])) \in Nat /\ Len(Script(kinds'[d], outcome'[d])) >= 2
      BY <3>2, <3>3, <3>4
    <3> QED
      BY <3>5 DEF Served
  <2> QED
    BY <1>1, <1>3, <1>a, <2>1, <2>2 DEF Said
<1> QED
  BY <1>2, <1>3

\* The message in hand says what has happened.
LEMMA CurrentSaid ==
    ASSUME RuntimeInv, phase \in {"send", "post"}
    PROVE  Current \in Message /\ Said(Current)
<1>1. serving \in 1..Len(kinds) /\ pos \in Nat /\ pos < Len(Served(serving))
  BY DEF RuntimeInv, TypeOK, ReadInOrder
<1>2. Len(Served(serving)) \in Nat
  BY <1>1, ServedLength DEF RuntimeInv
<1> QED
  BY <1>1, <1>2 DEF Said, Current, Message, RuntimeInv, TypeOK, Dispatches

\* Steps put nothing on the websocket but the message in hand.
LEMMA WireGrows ==
    ASSUME TypeOK, [Next]_vars, NEW i \in 1..Len(wire')
    PROVE  \/ \E j \in 1..Len(wire) : wire'[i] = wire[j]
           \/ phase = "send" /\ wire'[i] = Current
<1>1. wire \in Seq(Message)
  BY DEF TypeOK
<1>2. CASE Deliver
  <2>1. wire # << >> /\ wire' = Tail(wire)
    BY <1>2 DEF Deliver
  <2>2. wire'[i] = wire[i + 1] /\ i + 1 \in 1..Len(wire)
    BY <1>1, <2>1, HeadTailProperties, LenProperties
  <2> QED
    BY <2>2
<1>3. CASE SendWebsocket /\ conn = "up"
  <2>1. wire' = Append(wire, Current) /\ phase = "send" /\ Current \in Message
    BY <1>3 DEF SendWebsocket, Current, Message, TypeOK, Dispatches
  <2>2. Len(wire') = Len(wire) + 1 /\ wire'[Len(wire) + 1] = Current
        /\ \A k \in 1..Len(wire) : wire'[k] = wire[k]
    BY <1>1, <2>1, AppendProperties
  <2> QED
    BY <1>1, <2>1, <2>2, LenProperties
<1>4. CASE Connect
  <2>1. Len(wire') = 0
    BY <1>4 DEF Connect
  <2> QED
    BY <2>1
<1>5. CASE ~Deliver /\ ~(SendWebsocket /\ conn = "up") /\ ~Connect
  <2>1. wire' = wire
    BY <1>5 DEF Next, WorkerStep, vars, worker, Dispatch, Close, Crash, SendHello,
                HelloRaises, Receive, ReceiveNone, SendWebsocket, Post, PostRaises, Handle
  <2> QED
    BY <2>1
<1> QED
  BY <1>2, <1>3, <1>4, <1>5

\* Every step keeps to what has happened.
LEMMA SaidStep ==
    ASSUME RuntimeInv, RuntimeInv', AllSaid, [Next]_vars
    PROVE  AllSaid'
<1>1. \A m \in Message : Said(m) => Said(m)'
  BY SaidStays
<1>2. /\ \A m \in told : m \in Message /\ Said(m)
      /\ \A j \in 1..Len(wire) : wire[j] \in Message /\ Said(wire[j])
  <2>1. \A j \in 1..Len(wire) : wire[j] \in Message
    BY ElementOfSeq DEF RuntimeInv, TypeOK
  <2> QED
    BY <2>1 DEF AllSaid, NothingSaidAhead, RuntimeInv, TypeOK
<1>3. ASSUME NEW m \in told'
      PROVE  Said(m)'
  <2>1. CASE m \in told
    BY <1>1, <1>2, <2>1
  <2>2. CASE phase = "post" /\ m = Current
    <3>1. m \in Message /\ Said(m)
      BY <2>2, CurrentSaid
    <3> QED
      BY <1>1, <3>1
  <2>3. CASE wire # << >> /\ m = Head(wire)
    <3>1. m = wire[1] /\ 1 \in 1..Len(wire)
      BY <2>3, EmptySeq DEF RuntimeInv, TypeOK
    <3> QED
      BY <1>1, <1>2, <3>1
  <2> QED
    BY <1>3, <2>1, <2>2, <2>3, ToldGrows DEF RuntimeInv
<1>4. ASSUME NEW i \in 1..Len(wire'), NEW m, m = wire'[i]
      PROVE  Said(m)'
  <2>1. m \in Message /\ Said(m)
    <3>1. CASE \E j \in 1..Len(wire) : m = wire[j]
      BY <1>2, <3>1
    <3>2. CASE phase = "send" /\ m = Current
      BY <3>2, CurrentSaid
    <3> QED
      BY <1>4, <3>1, <3>2, WireGrows DEF RuntimeInv
  <2> QED
    BY <1>1, <2>1
<1>5. NothingSaidAhead'
  BY <1>3 DEF NothingSaidAhead, Said
<1>6. (\A i \in 1..Len(wire) : Said(wire[i]))'
  BY <1>4 DEF Said
<1> QED
  BY <1>5, <1>6 DEF AllSaid

\* The two invariants together.
LEMMA AllSaidHolds == Spec => [](RuntimeInv /\ AllSaid)
<1>1. Init => AllSaid
  <2>1. Len(<< >>) = 0
    OBVIOUS
  <2> QED
    BY <2>1 DEF Init, AllSaid, NothingSaidAhead
<1> QED
  BY <1>1, InvInit, InvStep, SaidStep, PTL DEF Spec

\* The control plane is told of nothing that has not happened, over either
\* channel.
THEOREM NothingToldAhead == Spec => []NothingSaidAhead
<1>1. AllSaid => NothingSaidAhead
  BY DEF AllSaid
<1> QED
  BY <1>1, AllSaidHolds, PTL

\* It learns of the dispatches one after another, unless one of the three
\* reasons excuses what is missing.
THEOREM DispatchesInTurn == Spec => []OneAfterAnother
<1>1. ASSUME RuntimeInv, AllSaid, NEW m \in told, NEW e \in 1..(m.dispatch - 1) \ excused
      PROVE  /\ outcome[e] # Pending
             /\ \A i \in 1..Len(Served(e)) : [dispatch |-> e, at |-> i] \in told
  <2>1. m.dispatch \in 1..serving /\ serving \in Nat
    BY <1>1 DEF AllSaid, NothingSaidAhead, Said, RuntimeInv, TypeOK
  <2>2. e \in 1..serving \ excused /\ Finished(e)
    BY <2>1 DEF Finished
  <2> QED
    BY <1>1, <2>2 DEF RuntimeInv, ServedIsReported
<1>2. RuntimeInv /\ AllSaid => OneAfterAnother
  BY <1>1 DEF OneAfterAnother
<1> QED
  BY <1>2, AllSaidHolds, PTL

-----------------------------------------------------------------------------
(***************************************************************************)
(* How long a dispatch can keep the worker.  That DispatchesAnswered holds *)
(* is checked by TLC; that no fault sends the worker round in a circle is  *)
(* proved here.                                                            *)
(***************************************************************************)

\* The steps the worker has before it at most until it receives again: two for
\* each message, and after the second the handler, with five more messages.
HandLeft ==
    IF phase \in {"send", "post", "handle"}
    THEN (IF outcome[serving] = Pending THEN 2 * (2 - pos) + 12
          ELSE 2 * (Len(Served(serving)) - pos))
         + (IF phase = "send" THEN 1 ELSE 0)
    ELSE 0

HandStep == SendWebsocket \/ Post \/ PostRaises \/ Handle

InHand == phase \in {"send", "post", "handle"}

\* Whatever fails, a message is sent and posted once and the worker goes on: it
\* is back at the queue after a bounded number of steps, and nobody else's step
\* holds it up.
HandShortens ==
    [][InHand => HandLeft' <= HandLeft /\ (HandStep => HandLeft' < HandLeft)]_vars

\* The dispatch in hand and its messages.
LEMMA InHandFacts ==
    ASSUME RuntimeInv, InHand
    PROVE  /\ serving \in 1..Len(kinds) /\ serving \in Dispatches
           /\ pos \in Nat /\ Len(Served(serving)) \in Nat
           /\ outcome[serving] = Pending => Len(Served(serving)) = 2
           /\ outcome[serving] # Pending => Len(Served(serving)) <= 7
           /\ phase \in {"send", "post"} => pos < Len(Served(serving))
           /\ phase = "handle" => outcome[serving] = Pending /\ pos = 2
<1>1. serving \in 1..Len(kinds) /\ serving \in Dispatches /\ pos \in Nat
  BY DEF InHand, RuntimeInv, TypeOK, ReadInOrder, Dispatches
<1>2. phase = "handle" => outcome[serving] = Pending /\ pos = 2
  BY DEF RuntimeInv, ToldSoFar, Opening
<1>3. phase \in {"send", "post"} => pos < Len(Served(serving))
  BY DEF RuntimeInv, TypeOK
<1> QED
  BY <1>1, <1>2, <1>3, ServedLength DEF RuntimeInv

\* A step for the dispatch in hand.
LEMMA HandGoesOn ==
    ASSUME RuntimeInv, [Next]_vars, HandStep
    PROVE  HandLeft' < HandLeft /\ HandLeft' <= HandLeft
<1> DEFINE n == Len(Served(serving))
<1>1. InHand
  BY DEF HandStep, InHand, SendWebsocket, Post, PostRaises, Handle
<1>2. /\ serving \in 1..Len(kinds) /\ serving \in Dispatches
      /\ pos \in Nat /\ n \in Nat
      /\ outcome[serving] = Pending => n = 2
      /\ outcome[serving] # Pending => n <= 7
      /\ phase \in {"send", "post"} => pos < n
      /\ phase = "handle" => outcome[serving] = Pending /\ pos = 2
  BY <1>1, InHandFacts
<1>3. CASE SendWebsocket
  <2>1. phase = "send" /\ phase' = "post" /\ UNCHANGED <<serving, pos, outcome, kinds>>
    BY <1>3 DEF SendWebsocket
  <2>2. Served(serving)' = Served(serving)
    BY <2>1 DEF Served
  <2> HIDE DEF n
  <2>3. HandLeft = (IF outcome[serving] = Pending THEN 2 * (2 - pos) + 12 ELSE 2 * (n - pos)) + 1
    BY <2>1 DEF HandLeft, n
  <2>4. HandLeft' = IF outcome[serving] = Pending THEN 2 * (2 - pos) + 12 ELSE 2 * (n - pos)
    BY <1>2, <2>1, <2>2 DEF HandLeft, n
  <2> QED
    BY <1>2, <2>3, <2>4
<1>4. CASE Post \/ PostRaises
  <2>1. phase = "post" /\ Proceed /\ UNCHANGED <<outcome, kinds>>
    BY <1>4 DEF Post, PostRaises
  <2>2. /\ pos' = pos + 1 /\ serving' = serving
        /\ phase' \in {"send", "handle", "receive"}
        /\ phase' = "send" => pos + 1 < n
        /\ phase' = "handle" => outcome[serving] = Pending
    BY <1>2, <2>1, ProceedGoes DEF RuntimeInv
  <2>3. Served(serving)' = Served(serving)
    BY <2>1, <2>2 DEF Served
  <2> HIDE DEF n
  <2>4. HandLeft = IF outcome[serving] = Pending THEN 2 * (2 - pos) + 12 ELSE 2 * (n - pos)
    BY <1>2, <2>1 DEF HandLeft, n
  <2>5. HandLeft \in Nat /\ HandLeft > 0
    BY <1>2, <2>1, <2>4
  <2>6. CASE phase' = "receive"
    <3>1. HandLeft' = 0
      BY <2>6 DEF HandLeft
    <3> QED
      BY <2>5, <3>1
  <2>7. CASE phase' # "receive"
    <3>1. HandLeft' = (IF outcome[serving] = Pending THEN 2 * (2 - (pos + 1)) + 12
                       ELSE 2 * (n - (pos + 1)))
                      + (IF phase' = "send" THEN 1 ELSE 0)
      BY <2>1, <2>2, <2>3, <2>7 DEF HandLeft, n
    <3> QED
      BY <1>2, <2>4, <3>1
  <2> QED
    BY <2>6, <2>7
<1>5. CASE Handle
  <2>1. PICK o \in Outcomes(kinds[serving]) : outcome' = [outcome EXCEPT ![serving] = o]
    BY <1>5 DEF Handle
  <2>2. phase = "handle" /\ phase' = "send" /\ UNCHANGED <<serving, pos, kinds>>
    BY <1>5 DEF Handle, Enter
  <2>3. kinds[serving] \in AllKinds
    BY <1>2, RuntimeAssumption DEF RuntimeInv, TypeOK
  <2>4. outcome'[serving] = o /\ o # Pending
    BY <1>2, <2>1, <2>3 DEF RuntimeInv, TypeOK, AllKinds, Outcomes, Pending
  <2>5. Len(Script(kinds[serving], o)) \in Nat /\ Len(Script(kinds[serving], o)) <= 7
    BY <2>3, <2>4, ScriptLength
  <2>6. HandLeft = 12
    BY <1>2, <2>2 DEF HandLeft
  <2>7. HandLeft' = 2 * (Len(Script(kinds[serving], o)) - 2) + 1
    BY <1>2, <2>2, <2>4 DEF HandLeft, Served
  <2> QED
    BY <2>5, <2>6, <2>7
<1> QED
  BY <1>3, <1>4, <1>5 DEF HandStep

\* A dispatch keeps the worker for a bounded number of its steps, whatever
\* fails.
THEOREM HandsGetFree == Spec => HandShortens
<1>1. ASSUME RuntimeInv, RuntimeInv', [Next]_vars, InHand
      PROVE  HandLeft' <= HandLeft /\ (HandStep => HandLeft' < HandLeft)
  <2>1. HandLeft \in Nat
    <3> DEFINE n == Len(Served(serving))
               base == IF outcome[serving] = Pending THEN 2 * (2 - pos) + 12 ELSE 2 * (n - pos)
    <3>1. HandLeft = base + (IF phase = "send" THEN 1 ELSE 0)
      BY <1>1 DEF HandLeft, InHand
    <3>2. /\ pos \in Nat /\ n \in Nat
          /\ outcome[serving] = Pending => n = 2
          /\ phase \in {"send", "post"} => pos < n
          /\ phase = "handle" => outcome[serving] = Pending /\ pos = 2
      BY <1>1, InHandFacts
    <3> HIDE DEF n
    <3>3. base \in Nat
      BY <1>1, <3>2 DEF InHand
    <3> HIDE DEF base
    <3> QED
      BY <3>1, <3>3
  <2>2. CASE HandStep
    BY <1>1, <2>2, HandGoesOn
  <2>3. CASE phase' = "off"
    <3>1. HandLeft' = 0
      BY <2>3 DEF HandLeft
    <3> QED
      BY <1>1, <2>1, <2>2, <3>1, HandGoesOn
  <2>4. CASE ~HandStep /\ phase' # "off"
    <3>1. serving \in 1..Len(kinds) /\ serving \in Dispatches
      BY <1>1, InHandFacts
    <3>2. UNCHANGED <<phase, serving, pos>>
      BY <1>1, <2>4 DEF Next, WorkerStep, HandStep, InHand, vars, worker, Dispatch, Deliver,
         Close, Crash, Connect, SendHello, HelloRaises, Receive, ReceiveNone, EndCycle, Enter
    <3>3. outcome' = outcome
      BY <1>1, <2>4 DEF Next, WorkerStep, HandStep, vars, Dispatch, Deliver,
         Close, Crash, Connect, SendHello, HelloRaises, Receive, ReceiveNone
    <3>4. kinds'[serving] = kinds[serving]
      <4>1. ASSUME NEW k \in Kinds, Dispatch(k)
            PROVE  kinds'[serving] = kinds[serving]
        <5>1. kinds \in Seq(Kinds) /\ kinds' = Append(kinds, k)
          BY <1>1, <4>1 DEF Dispatch, RuntimeInv, TypeOK
        <5> QED
          BY <3>1, <5>1, AppendProperties
      <4>2. CASE \A k \in Kinds : ~Dispatch(k)
        BY <1>1, <2>4, <4>2 DEF Next, WorkerStep, HandStep, vars, Deliver,
           Close, Crash, Connect, SendHello, HelloRaises, Receive, ReceiveNone
      <4> QED
        BY <4>1, <4>2
    <3>5. HandLeft' = HandLeft
      BY <3>2, <3>3, <3>4 DEF HandLeft, Served
    <3> QED
      BY <2>1, <2>4, <3>5
  <2> QED
    BY <2>2, <2>3, <2>4
<1>2. RuntimeInv /\ RuntimeInv' /\ [Next]_vars =>
        [InHand => HandLeft' <= HandLeft /\ (HandStep => HandLeft' < HandLeft)]_vars
  BY <1>1
<1> QED
  BY <1>2, InvInit, InvStep, PTL DEF Spec, HandShortens
=============================================================================
