----------------------- MODULE UnattendedWrite_proofs -----------------------
(***************************************************************************)
(* Proofs about UnattendedWrite, for every set of workers, of tasks and of  *)
(* faults.                                                                 *)
(***************************************************************************)
EXTENDS UnattendedWrite, TLAPS

\* The initial states are typed.
LEMMA TypeInit == WriteInit => WriteTypeOK
<1> SUFFICES ASSUME WriteInit
             PROVE  WriteTypeOK
  OBVIOUS
<1>1. jdySecret \in [WriteTasks -> Nat] /\ wecomSecret \in [WriteTasks -> Nat]
  <2>1. PICK app \in [WriteTasks -> Apps] :
           /\ jdySecret = [t \in WriteTasks |-> app[t].jdy]
           /\ wecomSecret = [t \in WriteTasks |-> app[t].wecom]
    BY DEF WriteInit
  <2>2. \A t \in WriteTasks : app[t].jdy \in Nat /\ app[t].wecom \in Nat
    BY <2>1, WriteAssumption
  <2> QED
    BY <2>1, <2>2
<1> QED
  BY <1>1, WriteAssumption DEF WriteInit, WriteTypeOK, Context, Blank

\* Every step keeps the types.
LEMMA TypeStep ==
    ASSUME WriteTypeOK, [WriteNext]_writeVars
    PROVE  WriteTypeOK'
<1> USE WriteAssumption DEF WriteTypeOK, Context, Blank, Inside, Recording
<1>1. ASSUME NEW w \in Workers, NEW t \in WriteTasks, Dispatch(w, t)
      PROVE  WriteTypeOK'
  BY <1>1 DEF Dispatch, office
<1>2. ASSUME NEW w \in Workers, Crash(w)
      PROVE  WriteTypeOK'
  <2>1. w \in Workers /\ place[w] # "idle" /\ task[w] \in WriteTasks
    BY <1>2 DEF Crash
  <2>2. file' \in [WriteTasks -> Context] /\ lock' \in {"free", "held", "left"}
    <3>1. Blank \in Context
      BY DEF Blank, Context
    <3>2. CASE UNCHANGED file
      BY <1>2, <3>2 DEF Crash
    <3>3. CASE file' = [file EXCEPT ![task[w]] = Blank]
      BY <1>2, <2>1, <3>1, <3>3 DEF Crash
    <3> QED
      BY <1>2, <3>2, <3>3 DEF Crash
  <2>3. UNCHANGED <<ctx, issued, jdySecret, wecomSecret, orders, online, calls>>
    BY <1>2 DEF Crash, office
  <2>4. place' = [place EXCEPT ![w] = "idle"] /\ task' = [task EXCEPT ![w] = NoWrite]
    BY <1>2 DEF Crash, Leave
  <2> QED
    BY <2>1, <2>2, <2>3, <2>4
<1>3. CASE ClearLock
  BY <1>3 DEF ClearLock, call, office
<1>4. ASSUME NEW w \in Workers, CallStep(w)
      PROVE  WriteTypeOK'
  <2>1. CASE CheckContext(w)
    BY <2>1, <1>4 DEF CheckContext, MoveTo, Leave, office
  <2>2. CASE AcquireLock(w)
    BY <2>2, <1>4 DEF AcquireLock, MoveTo, Leave, office
  <2>3. CASE RefuseLock(w)
    BY <2>3, <1>4 DEF RefuseLock, MoveTo, Leave, office
  <2>4. CASE AcquireRaises(w)
    BY <2>4, <1>4 DEF AcquireRaises, MoveTo, Leave, office
  <2>5. CASE ReadOwner(w)
    <3>1. task[w] \in WriteTasks /\ jdySecret[task[w]] \in Nat /\ issued + 1 \in Nat /\ ctx[w] \in Context
      BY <2>5, <1>4 DEF ReadOwner
    <3>2. \E n \in Nat : ctx' = [ctx EXCEPT ![w].secret = n]
      BY <3>1, <2>5 DEF ReadOwner
    <3>3. ctx' \in [Workers -> Context]
      BY <3>1, <3>2
    <3>4. issued' \in Nat
      BY <3>1, <2>5 DEF ReadOwner
    <3> QED
      BY <3>1, <3>3, <3>4, <2>5, <1>4 DEF ReadOwner, MoveTo, office
  <2>6. CASE Install(w)
    BY <2>6, <1>4 DEF Install, MoveTo, Leave, office, InstallEffect
  <2>7. CASE SaveInfo(w)
    BY <2>7, <1>4 DEF SaveInfo, MoveTo, Leave, office, SaveEffect
  <2>8. CASE CreateOrder(w)
    <3>1. task[w] \in WriteTasks /\ orders[task[w]] + 1 \in Nat /\ ctx[w] \in Context
      BY <2>8, <1>4 DEF CreateOrder
    <3>2. ctx' \in [Workers -> Context]
      BY <3>1, <2>8 DEF CreateOrder
    <3>3. orders' \in [WriteTasks -> Nat]
      BY <3>1, <2>8 DEF CreateOrder, OrderEffect
    <3> QED
      BY <3>1, <3>2, <3>3, <2>8, <1>4 DEF CreateOrder, MoveTo, OrderEffect
  <2>9. CASE SubmitOrder(w)
    BY <2>9, <1>4 DEF SubmitOrder, MoveTo, Leave, office, SubmitEffect
  <2>10. CASE CallRaises(w)
    <3>1. task[w] \in WriteTasks /\ place[w] # "idle"
      BY <2>10, <1>4 DEF CallRaises
    <3>2. /\ jdySecret' \in [WriteTasks -> Nat] /\ wecomSecret' \in [WriteTasks -> Nat]
          /\ orders' \in [WriteTasks -> Nat] /\ online' \in [WriteTasks -> SUBSET Nat]
      <4>1. CASE UNCHANGED office
        BY <4>1 DEF office
      <4>2. CASE InstallEffect(w)
        BY <4>2, <3>1, <1>4 DEF InstallEffect
      <4>3. CASE SaveEffect(w)
        BY <4>3, <3>1, <1>4 DEF SaveEffect
      <4>4. CASE OrderEffect(w)
        BY <4>4, <3>1, <1>4 DEF OrderEffect
      <4>5. CASE SubmitEffect(w)
        BY <4>5, <3>1, <1>4 DEF SubmitEffect
      <4> QED
        BY <4>1, <4>2, <4>3, <4>4, <4>5, <2>10 DEF CallRaises
    <3> QED
      BY <3>1, <3>2, <2>10, <1>4 DEF CallRaises, MoveTo
  <2>11. CASE Record(w)
    BY <2>11, <1>4 DEF Record, MoveTo, Leave, office, AfterRecord
  <2>12. CASE RecordRaises(w)
    <3>1. CASE UNCHANGED file
      BY <3>1, <2>12, <1>4 DEF RecordRaises, MoveTo, office
    <3>2. CASE file' = [file EXCEPT ![task[w]] = Blank]
      BY <3>2, <2>12, <1>4 DEF RecordRaises, MoveTo, office
    <3> QED
      BY <3>1, <3>2, <2>12 DEF RecordRaises
  <2>13. CASE ReleaseLock(w)
    BY <2>13, <1>4 DEF ReleaseLock, MoveTo, Leave, office
  <2> QED
    BY <1>4, <2>1, <2>2, <2>3, <2>4, <2>5, <2>6, <2>7, <2>8, <2>9, <2>10, <2>11, <2>12,
       <2>13
       DEF CallStep
<1>5. CASE UNCHANGED writeVars
  BY <1>5 DEF writeVars, call, office
<1> QED
  BY <1>1, <1>2, <1>3, <1>4, <1>5 DEF WriteNext

\* The lock, the context files, the workers' positions and what the back
\* offices hold keep their types.
THEOREM WriteTypes == WriteSpec => []WriteTypeOK
BY TypeInit, TypeStep, PTL DEF WriteSpec
-----------------------------------------------------------------------------
\* Whoever comes into the section between lock and release found no lock file,
\* and the file is there until it leaves.
LEMMA LockStep ==
    ASSUME WriteTypeOK, WriteTypeOK', OneWriter, [WriteNext]_writeVars
    PROVE  OneWriter'
<1> USE WriteAssumption DEF WriteTypeOK, OneWriter, Inside, Recording
<1>1. ASSUME NEW w \in Workers, NEW t \in WriteTasks, Dispatch(w, t)
      PROVE  OneWriter'
  BY <1>1 DEF Dispatch, office
<1>2. ASSUME NEW w \in Workers, Crash(w)
      PROVE  OneWriter'
  BY <1>2 DEF Crash, Leave, office
<1>3. CASE ClearLock
  BY <1>3 DEF ClearLock, call, office
<1>4. ASSUME NEW w \in Workers, CallStep(w)
      PROVE  OneWriter'
  <2>1. CASE CheckContext(w)
    BY <2>1, <1>4 DEF CheckContext, MoveTo, Leave, office
  <2>2. CASE AcquireLock(w)
    BY <2>2, <1>4 DEF AcquireLock, MoveTo, Leave, office
  <2>3. CASE RefuseLock(w)
    BY <2>3, <1>4 DEF RefuseLock, MoveTo, Leave, office
  <2>4. CASE AcquireRaises(w)
    BY <2>4, <1>4 DEF AcquireRaises, MoveTo, Leave, office
  <2>5. CASE ReadOwner(w)
    BY <2>5, <1>4 DEF ReadOwner, MoveTo, Leave, office
  <2>6. CASE Install(w)
    BY <2>6, <1>4 DEF Install, MoveTo, Leave, office, InstallEffect
  <2>7. CASE SaveInfo(w)
    BY <2>7, <1>4 DEF SaveInfo, MoveTo, Leave, office, SaveEffect
  <2>8. CASE CreateOrder(w)
    BY <2>8, <1>4 DEF CreateOrder, MoveTo, Leave, office, OrderEffect
  <2>9. CASE SubmitOrder(w)
    BY <2>9, <1>4 DEF SubmitOrder, MoveTo, Leave, office, SubmitEffect
  <2>10. CASE CallRaises(w)
    BY <2>10, <1>4
       DEF CallRaises, MoveTo, Leave, office, InstallEffect, SaveEffect, OrderEffect,
           SubmitEffect
  <2>11. CASE Record(w)
    BY <2>11, <1>4 DEF Record, MoveTo, Leave, office, AfterRecord
  <2>12. CASE RecordRaises(w)
    BY <2>12, <1>4 DEF RecordRaises, MoveTo, Leave, office
  <2>13. CASE ReleaseLock(w)
    BY <2>13, <1>4 DEF ReleaseLock, MoveTo, Leave, office
  <2> QED
    BY <1>4, <2>1, <2>2, <2>3, <2>4, <2>5, <2>6, <2>7, <2>8, <2>9, <2>10, <2>11, <2>12,
       <2>13
       DEF CallStep
<1>5. CASE UNCHANGED writeVars
  BY <1>5 DEF writeVars, call, office
<1> QED
  BY <1>1, <1>2, <1>3, <1>4, <1>5 DEF WriteNext

\* At most one worker is inside the write and the lock file stands for it,
\* whatever raises, crashes or is dispatched twice.
THEOREM OneWriterHolds == WriteSpec => []OneWriter
<1>1. WriteInit => WriteTypeOK /\ OneWriter
  BY TypeInit DEF WriteInit, OneWriter, Inside, Recording
<1>2. WriteTypeOK /\ OneWriter /\ [WriteNext]_writeVars => WriteTypeOK' /\ OneWriter'
  BY TypeStep, LockStep
<1> QED
  BY <1>1, <1>2, PTL DEF WriteSpec
-----------------------------------------------------------------------------
\* Nobody but the worker inside the write touches the secrets of its task.
LEMMA SecretStep ==
    ASSUME WriteInv, WriteTypeOK', OneWriter', [WriteNext]_writeVars
    PROVE  SecretInHand'
<1> USE WriteAssumption DEF WriteInv, WriteTypeOK, OneWriter, SecretInHand,
    Context, Blank, Inside, Recording
<1>1. ASSUME NEW w \in Workers, NEW t \in WriteTasks, Dispatch(w, t)
      PROVE  SecretInHand'
  BY <1>1 DEF Dispatch, office
<1>2. ASSUME NEW w \in Workers, Crash(w)
      PROVE  SecretInHand'
  BY <1>2 DEF Crash, Leave, office
<1>3. CASE ClearLock
  BY <1>3 DEF ClearLock, call, office
<1>4. ASSUME NEW w \in Workers, CallStep(w)
      PROVE  SecretInHand'
  <2>1. CASE CheckContext(w)
    BY <2>1, <1>4 DEF CheckContext, MoveTo, Leave, office
  <2>2. CASE AcquireLock(w)
    BY <2>2, <1>4 DEF AcquireLock, MoveTo, Leave, office
  <2>3. CASE RefuseLock(w)
    BY <2>3, <1>4 DEF RefuseLock, MoveTo, Leave, office
  <2>4. CASE AcquireRaises(w)
    BY <2>4, <1>4 DEF AcquireRaises, MoveTo, Leave, office
  <2>5. CASE ReadOwner(w)
    BY <2>5, <1>4 DEF ReadOwner, MoveTo, Leave, office
  <2>6. CASE Install(w)
    BY <2>6, <1>4 DEF Install, MoveTo, Leave, office, InstallEffect
  <2>7. CASE SaveInfo(w)
    BY <2>7, <1>4 DEF SaveInfo, MoveTo, Leave, office, SaveEffect
  <2>8. CASE CreateOrder(w)
    BY <2>8, <1>4 DEF CreateOrder, MoveTo, Leave, office, OrderEffect
  <2>9. CASE SubmitOrder(w)
    BY <2>9, <1>4 DEF SubmitOrder, MoveTo, Leave, office, SubmitEffect
  <2>10. CASE CallRaises(w)
    BY <2>10, <1>4
       DEF CallRaises, MoveTo, Leave, office, InstallEffect, SaveEffect, OrderEffect,
           SubmitEffect
  <2>11. CASE Record(w)
    BY <2>11, <1>4 DEF Record, MoveTo, Leave, office, AfterRecord
  <2>12. CASE RecordRaises(w)
    <3>1. CASE UNCHANGED file
      BY <3>1, <2>12, <1>4 DEF RecordRaises, MoveTo, office
    <3>2. CASE file' = [file EXCEPT ![task[w]] = Blank]
      BY <3>2, <2>12, <1>4 DEF RecordRaises, MoveTo, office
    <3> QED
      BY <3>1, <3>2, <2>12 DEF RecordRaises
  <2>13. CASE ReleaseLock(w)
    BY <2>13, <1>4 DEF ReleaseLock, MoveTo, Leave, office
  <2> QED
    BY <1>4, <2>1, <2>2, <2>3, <2>4, <2>5, <2>6, <2>7, <2>8, <2>9, <2>10, <2>11, <2>12,
       <2>13
       DEF CallStep
<1>5. CASE UNCHANGED writeVars
  BY <1>5 DEF writeVars, call, office
<1> QED
  BY <1>1, <1>2, <1>3, <1>4, <1>5 DEF WriteNext

\* No step says of an order what did not happen at WeCom.
LEMMA OrderStep ==
    ASSUME WriteInv, WriteTypeOK', OneWriter', [WriteNext]_writeVars
    PROVE  OrderInHand' /\ CompletedIsOnline'
<1> USE WriteAssumption DEF WriteInv, WriteTypeOK, OneWriter, OrderInHand, CompletedIsOnline,
    Context, Blank, Inside, Recording
<1>1. ASSUME NEW w \in Workers, NEW t \in WriteTasks, Dispatch(w, t)
      PROVE  OrderInHand' /\ CompletedIsOnline'
  BY <1>1 DEF Dispatch, office
<1>2. ASSUME NEW w \in Workers, Crash(w)
      PROVE  OrderInHand' /\ CompletedIsOnline'
  BY <1>2 DEF Crash, Leave, office
<1>3. CASE ClearLock
  BY <1>3 DEF ClearLock, call, office
<1>4. ASSUME NEW w \in Workers, CallStep(w)
      PROVE  OrderInHand' /\ CompletedIsOnline'
  <2>1. CASE CheckContext(w)
    BY <2>1, <1>4 DEF CheckContext, MoveTo, Leave, office
  <2>2. CASE AcquireLock(w)
    BY <2>2, <1>4 DEF AcquireLock, MoveTo, Leave, office
  <2>3. CASE RefuseLock(w)
    BY <2>3, <1>4 DEF RefuseLock, MoveTo, Leave, office
  <2>4. CASE AcquireRaises(w)
    BY <2>4, <1>4 DEF AcquireRaises, MoveTo, Leave, office
  <2>5. CASE ReadOwner(w)
    BY <2>5, <1>4 DEF ReadOwner, MoveTo, Leave, office
  <2>6. CASE Install(w)
    BY <2>6, <1>4 DEF Install, MoveTo, Leave, office, InstallEffect
  <2>7. CASE SaveInfo(w)
    BY <2>7, <1>4 DEF SaveInfo, MoveTo, Leave, office, SaveEffect
  <2>8. CASE CreateOrder(w)
    BY <2>8, <1>4 DEF CreateOrder, MoveTo, Leave, office, OrderEffect
  <2>9. CASE SubmitOrder(w)
    BY <2>9, <1>4 DEF SubmitOrder, MoveTo, Leave, office, SubmitEffect
  <2>10. CASE CallRaises(w)
    <3>1. place' = [place EXCEPT ![w] = "release"] /\ UNCHANGED <<task, file, ctx>> /\ task[w] \in WriteTasks
      BY <2>10, <1>4 DEF CallRaises, MoveTo
    <3>2. CASE place[w] \in {"preflight", "install", "save", "order", "submit"} /\ UNCHANGED office
      BY <3>1, <3>2, <1>4 DEF office
    <3>3. CASE place[w] = "install" /\ InstallEffect(w)
      BY <3>1, <3>3, <1>4 DEF InstallEffect
    <3>4. CASE place[w] = "save" /\ SaveEffect(w)
      BY <3>1, <3>4, <1>4 DEF SaveEffect
    <3>5. CASE place[w] = "order" /\ OrderEffect(w)
      BY <3>1, <3>5, <1>4 DEF OrderEffect
    <3>6. CASE place[w] = "submit" /\ SubmitEffect(w)
      BY <3>1, <3>6, <1>4 DEF SubmitEffect
    <3> QED
      BY <3>2, <3>3, <3>4, <3>5, <3>6, <2>10 DEF CallRaises
  <2>11. CASE Record(w)
    BY <2>11, <1>4 DEF Record, MoveTo, Leave, office, AfterRecord
  <2>12. CASE RecordRaises(w)
    BY <2>12, <1>4 DEF RecordRaises, MoveTo, Leave, office
  <2>13. CASE ReleaseLock(w)
    BY <2>13, <1>4 DEF ReleaseLock, MoveTo, Leave, office
  <2> QED
    BY <1>4, <2>1, <2>2, <2>3, <2>4, <2>5, <2>6, <2>7, <2>8, <2>9, <2>10, <2>11, <2>12,
       <2>13
       DEF CallStep
<1>5. CASE UNCHANGED writeVars
  BY <1>5 DEF writeVars, call, office
<1> QED
  BY <1>1, <1>2, <1>3, <1>4, <1>5 DEF WriteNext

\* The invariant holds before the first dispatch.
LEMMA InvInit == WriteInit => WriteInv
<1> SUFFICES ASSUME WriteInit
             PROVE  WriteInv
  OBVIOUS
<1>1. WriteTypeOK
  BY TypeInit
<1> QED
  BY <1>1 DEF WriteInit, WriteInv, OneWriter, SecretInHand, OrderInHand, CompletedIsOnline,
     Blank, Inside, Recording

\* Every step keeps it, wherever a run ends.
LEMMA InvStep == WriteInv /\ [WriteNext]_writeVars => WriteInv'
<1> SUFFICES ASSUME WriteInv, [WriteNext]_writeVars
             PROVE  WriteInv'
  OBVIOUS
<1>1. WriteTypeOK'
  BY TypeStep DEF WriteInv
<1>2. OneWriter'
  BY <1>1, LockStep DEF WriteInv
<1> QED
  BY <1>1, <1>2, SecretStep, OrderStep DEF WriteInv

\* A context that says 'completed' names an order that was created and submitted.
THEOREM CompletedHolds == WriteSpec => []CompletedIsOnline
<1>1. WriteInv => CompletedIsOnline
  BY DEF WriteInv
<1> QED
  BY <1>1, InvInit, InvStep, PTL DEF WriteSpec
-----------------------------------------------------------------------------
\* Without overlapping dispatches, whoever passed the check of a context works on
\* a task that is not completed.
LEMMA OneCallStep ==
    ASSUME ~Overlap, WriteInv, OneCallPerTask, [WriteNext]_writeVars
    PROVE  OneCallPerTask'
<1> USE WriteAssumption DEF WriteInv, WriteTypeOK, OneWriter, OrderInHand, OneCallPerTask, Undone,
    Context, Blank, Inside, Recording
<1>1. ASSUME NEW w \in Workers, NEW t \in WriteTasks, Dispatch(w, t)
      PROVE  OneCallPerTask'
  BY <1>1 DEF Dispatch, office
<1>2. ASSUME NEW w \in Workers, Crash(w)
      PROVE  OneCallPerTask'
  BY <1>2 DEF Crash, Leave, office
<1>3. CASE ClearLock
  BY <1>3 DEF ClearLock, call, office
<1>4. ASSUME NEW w \in Workers, CallStep(w)
      PROVE  OneCallPerTask'
  <2>1. CASE CheckContext(w)
    <3>1. place[w] = "check" /\ task[w] \in WriteTasks
      BY <2>1, <1>4 DEF CheckContext
    <3>2. Readable(task[w]) = {file[task[w]]}
      BY <3>1, <1>4 DEF Readable
    <3>3. CASE file[task[w]].done
      <4>1. /\ place' = [place EXCEPT ![w] = "idle"] /\ task' = [task EXCEPT ![w] = NoWrite]
            /\ UNCHANGED file
        BY <3>2, <3>3, <2>1 DEF CheckContext, Leave
      <4> QED
        BY <4>1, <1>4
    <3>4. CASE ~file[task[w]].done
      BY <3>1, <3>2, <3>4, <2>1, <1>4 DEF CheckContext, MoveTo, office
    <3> QED
      BY <3>3, <3>4
  <2>2. CASE AcquireLock(w)
    BY <2>2, <1>4 DEF AcquireLock, MoveTo, Leave, office
  <2>3. CASE RefuseLock(w)
    BY <2>3, <1>4 DEF RefuseLock, MoveTo, Leave, office
  <2>4. CASE AcquireRaises(w)
    BY <2>4, <1>4 DEF AcquireRaises, MoveTo, Leave, office
  <2>5. CASE ReadOwner(w)
    BY <2>5, <1>4 DEF ReadOwner, MoveTo, Leave, office
  <2>6. CASE Install(w)
    BY <2>6, <1>4 DEF Install, MoveTo, Leave, office, InstallEffect
  <2>7. CASE SaveInfo(w)
    BY <2>7, <1>4 DEF SaveInfo, MoveTo, Leave, office, SaveEffect
  <2>8. CASE CreateOrder(w)
    BY <2>8, <1>4 DEF CreateOrder, MoveTo, Leave, office, OrderEffect
  <2>9. CASE SubmitOrder(w)
    BY <2>9, <1>4 DEF SubmitOrder, MoveTo, Leave, office, SubmitEffect
  <2>10. CASE CallRaises(w)
    BY <2>10, <1>4
       DEF CallRaises, MoveTo, Leave, office, InstallEffect, SaveEffect, OrderEffect,
           SubmitEffect
  <2>11. CASE Record(w)
    BY <2>11, <1>4 DEF Record, MoveTo, Leave, office, AfterRecord
  <2>12. CASE RecordRaises(w)
    BY <2>12, <1>4 DEF RecordRaises, MoveTo, Leave, office
  <2>13. CASE ReleaseLock(w)
    BY <2>13, <1>4 DEF ReleaseLock, MoveTo, Leave, office
  <2> QED
    BY <1>4, <2>1, <2>2, <2>3, <2>4, <2>5, <2>6, <2>7, <2>8, <2>9, <2>10, <2>11, <2>12,
       <2>13
       DEF CallStep
<1>5. CASE UNCHANGED writeVars
  BY <1>5 DEF writeVars, call, office
<1> QED
  BY <1>1, <1>2, <1>3, <1>4, <1>5 DEF WriteNext

\* Then no step writes the context of a completed task or adds an order to it.
LEMMA FinalStep ==
    ASSUME WriteInv, OneCallPerTask, [WriteNext]_writeVars
    PROVE  \A t \in WriteTasks : file[t].done => file'[t] = file[t] /\ orders'[t] = orders[t]
<1> DEFINE Final == \A t \in WriteTasks : file[t].done => file'[t] = file[t] /\ orders'[t] = orders[t]
<1> USE WriteAssumption DEF WriteInv, WriteTypeOK, OneCallPerTask, Undone, Context, Blank, Inside, Recording
<1>1. ASSUME NEW w \in Workers, NEW t \in WriteTasks, Dispatch(w, t)
      PROVE  Final
  BY <1>1 DEF Dispatch, office
<1>2. ASSUME NEW w \in Workers, Crash(w)
      PROVE  Final
  BY <1>2 DEF Crash, Leave, office
<1>3. CASE ClearLock
  BY <1>3 DEF ClearLock, call, office
<1>4. ASSUME NEW w \in Workers, CallStep(w)
      PROVE  Final
  <2>1. CASE CheckContext(w)
    BY <2>1, <1>4 DEF CheckContext, MoveTo, Leave, office
  <2>2. CASE AcquireLock(w)
    BY <2>2, <1>4 DEF AcquireLock, MoveTo, Leave, office
  <2>3. CASE RefuseLock(w)
    BY <2>3, <1>4 DEF RefuseLock, MoveTo, Leave, office
  <2>4. CASE AcquireRaises(w)
    BY <2>4, <1>4 DEF AcquireRaises, MoveTo, Leave, office
  <2>5. CASE ReadOwner(w)
    BY <2>5, <1>4 DEF ReadOwner, MoveTo, Leave, office
  <2>6. CASE Install(w)
    BY <2>6, <1>4 DEF Install, MoveTo, Leave, office, InstallEffect
  <2>7. CASE SaveInfo(w)
    BY <2>7, <1>4 DEF SaveInfo, MoveTo, Leave, office, SaveEffect
  <2>8. CASE CreateOrder(w)
    BY <2>8, <1>4 DEF CreateOrder, MoveTo, Leave, office, OrderEffect
  <2>9. CASE SubmitOrder(w)
    BY <2>9, <1>4 DEF SubmitOrder, MoveTo, Leave, office, SubmitEffect
  <2>10. CASE CallRaises(w)
    BY <2>10, <1>4
       DEF CallRaises, MoveTo, Leave, office, InstallEffect, SaveEffect, OrderEffect,
           SubmitEffect
  <2>11. CASE Record(w)
    BY <2>11, <1>4 DEF Record, MoveTo, Leave, office, AfterRecord
  <2>12. CASE RecordRaises(w)
    BY <2>12, <1>4 DEF RecordRaises, MoveTo, Leave, office
  <2>13. CASE ReleaseLock(w)
    BY <2>13, <1>4 DEF ReleaseLock, MoveTo, Leave, office
  <2> QED
    BY <1>4, <2>1, <2>2, <2>3, <2>4, <2>5, <2>6, <2>7, <2>8, <2>9, <2>10, <2>11, <2>12,
       <2>13
       DEF CallStep
<1>5. CASE UNCHANGED writeVars
  BY <1>5 DEF writeVars, call, office
<1> QED
  BY <1>1, <1>2, <1>3, <1>4, <1>5 DEF WriteNext

\* As long as no task is dispatched while another worker is on it, a completed
\* task stays completed and gets no further order, also across crashes.
THEOREM FinalHolds ==
    ASSUME ~Overlap
    PROVE  WriteSpec => CompletedIsFinal
<1>1. WriteInit => WriteInv /\ OneCallPerTask
  <2>1. WriteInit => OneCallPerTask
    BY DEF WriteInit, OneCallPerTask, Undone, Recording
  <2> QED
    BY <2>1, InvInit
<1>2. WriteInv /\ OneCallPerTask /\ [WriteNext]_writeVars => WriteInv' /\ OneCallPerTask'
  BY InvStep, OneCallStep
<1>3. WriteInv /\ OneCallPerTask /\ [WriteNext]_writeVars
        => [\A t \in WriteTasks : file[t].done => file'[t] = file[t] /\ orders'[t] = orders[t]]_writeVars
  BY FinalStep
<1> QED
  BY <1>1, <1>2, <1>3, PTL DEF WriteSpec, CompletedIsFinal
-----------------------------------------------------------------------------
(***************************************************************************)
(* The secrets.                                                            *)
(***************************************************************************)

\* Which steps touch them, and whose: an install JDY's, a save WeCom's, each by
\* the worker that is inside the write.
LEMMA SecretsMove ==
    ASSUME [WriteNext]_writeVars
    PROVE  \/ UNCHANGED <<jdySecret, wecomSecret>>
           \/ \E w \in Workers : place[w] = "install" /\ InstallEffect(w) /\ UNCHANGED file
           \/ \E w \in Workers : place[w] = "save" /\ SaveEffect(w) /\ UNCHANGED file
<1> DEFINE Moves ==
      \/ UNCHANGED <<jdySecret, wecomSecret>>
      \/ \E w \in Workers : place[w] = "install" /\ InstallEffect(w) /\ UNCHANGED file
      \/ \E w \in Workers : place[w] = "save" /\ SaveEffect(w) /\ UNCHANGED file
<1>1. ASSUME NEW w \in Workers, CallStep(w)
      PROVE  Moves
  <2>1. CASE CheckContext(w) \/ AcquireLock(w) \/ RefuseLock(w) \/ AcquireRaises(w) \/ ReadOwner(w)
    BY <2>1 DEF CheckContext, AcquireLock, RefuseLock, AcquireRaises, ReadOwner, office
  <2>2. CASE Install(w)
    BY <2>2 DEF Install
  <2>3. CASE SaveInfo(w)
    BY <2>3 DEF SaveInfo
  <2>4. CASE CreateOrder(w) \/ SubmitOrder(w)
    BY <2>4 DEF CreateOrder, SubmitOrder, OrderEffect, SubmitEffect
  <2>5. CASE CallRaises(w)
    BY <2>5 DEF CallRaises, OrderEffect, SubmitEffect, office
  <2>6. CASE Record(w) \/ RecordRaises(w) \/ ReleaseLock(w)
    BY <2>6 DEF Record, RecordRaises, ReleaseLock, office
  <2> QED
    BY <1>1, <2>1, <2>2, <2>3, <2>4, <2>5, <2>6 DEF CallStep
<1>2. ASSUME NEW w \in Workers, Crash(w) \/ \E t \in WriteTasks : Dispatch(w, t)
      PROVE  Moves
  BY <1>2 DEF Crash, Dispatch, office
<1>3. CASE ClearLock \/ UNCHANGED writeVars
  BY <1>3 DEF ClearLock, writeVars, office
<1> QED
  BY <1>1, <1>2, <1>3 DEF WriteNext

\* What is saved is the secret in hand, which the lock keeps equal to JDY's.
LEMMA SavedStep ==
    ASSUME WriteInv, [WriteNext]_writeVars, NEW t \in WriteTasks, wecomSecret'[t] # wecomSecret[t]
    PROVE  wecomSecret[t] = 0 /\ wecomSecret'[t] = jdySecret[t]
<1>1. \E w \in Workers : place[w] = "save" /\ SaveEffect(w)
  BY SecretsMove DEF InstallEffect
<1>2. PICK w \in Workers : place[w] = "save" /\ SaveEffect(w)
  BY <1>1
<1>3. wecomSecret \in [WriteTasks -> Nat] /\ ctx[w].secret = jdySecret[task[w]]
  BY <1>2 DEF WriteInv, WriteTypeOK, SecretInHand
<1> QED
  BY <1>2, <1>3 DEF SaveEffect

\* Whatever dispatches overlap and wherever runs die, development info is
\* written once, with the secret that JDY holds.
THEOREM SavedHolds == WriteSpec => SavedIsInstalled
<1>1. WriteInit => WriteInv
  BY InvInit
<1>2. WriteInv /\ [WriteNext]_writeVars => WriteInv'
  BY InvStep
<1>3. WriteInv /\ [WriteNext]_writeVars =>
        [\A t \in WriteTasks :
            wecomSecret'[t] # wecomSecret[t] =>
                wecomSecret[t] = 0 /\ wecomSecret'[t] = jdySecret[t]]_writeVars
  BY SavedStep
<1> QED
  BY <1>1, <1>2, <1>3, PTL DEF WriteSpec, SavedIsInstalled

\* A secret is installed only for a task that is not completed, and the last
\* record is the one that says so.
LEMMA RecordedStep ==
    ASSUME WriteInv, OneCallPerTask, RecordedIsInstalled, [WriteNext]_writeVars
    PROVE  RecordedIsInstalled'
<1> SUFFICES ASSUME NEW t \in WriteTasks, file'[t].done
             PROVE  file'[t].secret = jdySecret'[t] /\ 0 \notin {jdySecret'[t], wecomSecret'[t]}
  BY DEF RecordedIsInstalled
<1>a. /\ file \in [WriteTasks -> Context] /\ task \in [Workers -> WriteTasks \cup {NoWrite}]
      /\ jdySecret \in [WriteTasks -> Nat] /\ wecomSecret \in [WriteTasks -> Nat]
  BY DEF WriteInv, WriteTypeOK
<1>b. file[t].done => file[t].secret = jdySecret[t] /\ jdySecret[t] # 0 /\ wecomSecret[t] # 0
  BY DEF RecordedIsInstalled
<1>1. CASE file'[t] = file[t]
  <2>1. CASE UNCHANGED <<jdySecret, wecomSecret>>
    BY <1>1, <1>b, <2>1
  <2>2. ASSUME NEW w \in Workers, place[w] = "install", InstallEffect(w)
        PROVE  UNCHANGED wecomSecret /\ jdySecret'[t] = jdySecret[t]
    <3>1. task[w] # t
      BY <1>1, <2>2 DEF OneCallPerTask, Undone
    <3> QED
      BY <3>1, <2>2, <1>a DEF InstallEffect
  <2>3. ASSUME NEW w \in Workers, place[w] = "save", SaveEffect(w)
        PROVE  UNCHANGED jdySecret /\ wecomSecret'[t] = wecomSecret[t]
    <3>1. task[w] # t
      BY <1>1, <2>3 DEF OneCallPerTask, Undone
    <3> QED
      BY <3>1, <2>3, <1>a DEF SaveEffect
  <2> QED
    BY <1>1, <1>b, <2>1, <2>2, <2>3, SecretsMove
<1>2. CASE file'[t] # file[t]
  <2>1. UNCHANGED <<jdySecret, wecomSecret>>
    BY <1>2, SecretsMove
  <2>2. PICK w \in Workers : Record(w) \/ RecordRaises(w) \/ Crash(w)
    BY <1>2 DEF WriteNext, CallStep, Dispatch, CheckContext, AcquireLock, RefuseLock, AcquireRaises,
       ReadOwner, Install, SaveInfo, CreateOrder, SubmitOrder, CallRaises, ReleaseLock, ClearLock,
       writeVars
  <2>3. CASE file'[t] = Blank
    BY <2>3 DEF Blank
  <2>4. CASE Record(w) /\ task[w] = t
    <3>1. file'[t] = ctx[w] /\ ctx[w].done /\ place[w] \in Recording
      BY <2>4, <1>a DEF Record
    <3>2. place[w] = "recordDone"
      BY <3>1 DEF WriteInv, OrderInHand, Recording
    <3> QED
      BY <2>1, <2>4, <3>1, <3>2 DEF WriteInv, SecretInHand
  <2>5. file'[t] = Blank \/ (Record(w) /\ task[w] = t)
    BY <1>2, <2>2, <1>a DEF Record, RecordRaises, Crash
  <2> QED
    BY <2>3, <2>4, <2>5
<1> QED
  BY <1>1, <1>2

\* As long as no task is dispatched while another worker is on it, what a
\* completed task reports to the form is the secret JDY holds.
THEOREM RecordedHolds ==
    ASSUME ~Overlap
    PROVE  WriteSpec => []RecordedIsInstalled
<1>1. WriteInit => WriteInv /\ OneCallPerTask /\ RecordedIsInstalled
  <2>1. WriteInit => OneCallPerTask /\ RecordedIsInstalled
    BY DEF WriteInit, OneCallPerTask, Undone, Recording, RecordedIsInstalled, Blank
  <2> QED
    BY <2>1, InvInit
<1>2. WriteInv /\ OneCallPerTask /\ RecordedIsInstalled /\ [WriteNext]_writeVars
        => WriteInv' /\ OneCallPerTask' /\ RecordedIsInstalled'
  BY InvStep, OneCallStep, RecordedStep
<1> QED
  BY <1>1, <1>2, PTL DEF WriteSpec
-----------------------------------------------------------------------------
(***************************************************************************)
(* A call comes to its end.                                                *)
(***************************************************************************)

\* How many steps a call has left at most, the release of the lock included.
StepsLeft ==
    [idle |-> 0, release |-> 1, recordDone |-> 2, submit |-> 3, recordOrder |-> 4,
     order |-> 5, save |-> 6, recordSecret |-> 7, install |-> 8, preflight |-> 9,
     lock |-> 10, check |-> 11]

\* Every path of a call, those of its failures included, goes on to its end and
\* never back, so the worker that holds the lock is a bounded number of its own
\* steps away from releasing it; nobody else's step makes the way longer.
CallShortens ==
    [][\A w \in Workers : place[w] # "idle" =>
          /\ StepsLeft[place'[w]] <= StepsLeft[place[w]]
          /\ CallStep(w) => StepsLeft[place'[w]] < StepsLeft[place[w]]]_writeVars

\* StepsLeft, place by place.
LEMMA StepsLeftAt ==
    /\ StepsLeft["idle"] = 0 /\ StepsLeft["release"] = 1 /\ StepsLeft["recordDone"] = 2
    /\ StepsLeft["submit"] = 3 /\ StepsLeft["recordOrder"] = 4 /\ StepsLeft["order"] = 5
    /\ StepsLeft["save"] = 6 /\ StepsLeft["recordSecret"] = 7 /\ StepsLeft["install"] = 8
    /\ StepsLeft["preflight"] = 9 /\ StepsLeft["lock"] = 10 /\ StepsLeft["check"] = 11
BY DEF StepsLeft

\* A step of a call brings it nearer to its end, with or without success; another's
\* does not make it longer.
LEMMA CallGoesOn ==
    ASSUME WriteTypeOK, [WriteNext]_writeVars, NEW w \in Workers, place[w] # "idle"
    PROVE  /\ StepsLeft[place'[w]] <= StepsLeft[place[w]]
           /\ CallStep(w) => StepsLeft[place'[w]] < StepsLeft[place[w]]
<1> DEFINE Fewer == StepsLeft[place'[w]] < StepsLeft[place[w]]
<1>a. /\ place \in [Workers -> Inside \cup {"idle", "check", "lock"}]
      /\ StepsLeft[place[w]] \in Nat /\ StepsLeft["idle"] = 0 /\ StepsLeft[place[w]] > 0
  BY StepsLeftAt DEF WriteTypeOK, Inside, Recording
<1>b. StepsLeft[place'[w]] \in Nat
  <2>1. WriteTypeOK'
    BY TypeStep
  <2> QED
    BY <2>1, StepsLeftAt DEF WriteTypeOK, Inside, Recording
<1>1. ASSUME CallStep(w)
      PROVE  Fewer
  <2>a. ASSUME NEW l, MoveTo(w, l)
        PROVE  place'[w] = l
    BY <2>a, <1>a DEF MoveTo
  <2>b. ASSUME Leave(w)
        PROVE  place'[w] = "idle"
    BY <2>b, <1>a DEF Leave
  <2>1. CASE CheckContext(w) \/ AcquireLock(w) \/ RefuseLock(w) \/ AcquireRaises(w) \/ ReadOwner(w)
    <3>1. \/ place[w] = "check" /\ place'[w] \in {"idle", "lock"}
          \/ place[w] = "lock" /\ place'[w] \in {"idle", "preflight"}
          \/ place[w] = "preflight" /\ place'[w] \in {"recordSecret", "install"}
      BY <2>1, <2>a, <2>b DEF CheckContext, AcquireLock, RefuseLock, AcquireRaises, ReadOwner
    <3> QED
      BY <3>1, StepsLeftAt
  <2>2. CASE Install(w) \/ SaveInfo(w) \/ CreateOrder(w) \/ SubmitOrder(w) \/ CallRaises(w)
    <3>1. \/ place[w] = "install" /\ place'[w] = "recordSecret"
          \/ place[w] = "save" /\ place'[w] = "order"
          \/ place[w] = "order" /\ place'[w] = "recordOrder"
          \/ place[w] = "submit" /\ place'[w] = "recordDone"
          \/ place[w] \in {"preflight", "install", "save", "order", "submit"} /\ place'[w] = "release"
      BY <2>2, <2>a DEF Install, SaveInfo, CreateOrder, SubmitOrder, CallRaises
    <3> QED
      BY <3>1, StepsLeftAt
  <2>3. CASE Record(w) \/ RecordRaises(w) \/ ReleaseLock(w)
    <3>1. \/ place[w] = "recordSecret" /\ place'[w] \in {"save", "release"}
          \/ place[w] = "recordOrder" /\ place'[w] \in {"submit", "release"}
          \/ place[w] = "recordDone" /\ place'[w] = "release"
          \/ place[w] = "release" /\ place'[w] = "idle"
      BY <2>3, <2>a, <2>b DEF Record, RecordRaises, ReleaseLock, Recording, AfterRecord
    <3> QED
      BY <3>1, StepsLeftAt
  <2> QED
    BY <1>1, <2>1, <2>2, <2>3 DEF CallStep
<1>2. ASSUME NEW v \in Workers \ {w}, CallStep(v)
      PROVE  place'[w] = place[w]
  BY <1>2, <1>a DEF CallStep, CheckContext, AcquireLock, RefuseLock, AcquireRaises, ReadOwner,
     Install, SaveInfo, CreateOrder, SubmitOrder, CallRaises, Record, RecordRaises, ReleaseLock,
     MoveTo, Leave
<1>3. ASSUME NEW v \in Workers, Crash(v)
      PROVE  place'[w] = place[w] \/ place'[w] = "idle"
  BY <1>3, <1>a DEF Crash, Leave
<1>4. ASSUME NEW v \in Workers, NEW t \in WriteTasks, Dispatch(v, t)
      PROVE  place'[w] = place[w]
  BY <1>4, <1>a DEF Dispatch
<1>5. ASSUME ClearLock \/ UNCHANGED writeVars
      PROVE  place' = place
  BY <1>5 DEF ClearLock, writeVars, call
<1>6. \/ place'[w] = place[w]
      \/ place'[w] = "idle"
      \/ Fewer
  <2>1. CASE ClearLock \/ UNCHANGED writeVars
    BY <2>1, <1>5
  <2>2. ASSUME NEW v \in Workers, CallStep(v) \/ Crash(v) \/ \E t \in WriteTasks : Dispatch(v, t)
        PROVE  place'[w] = place[w] \/ place'[w] = "idle" \/ Fewer
    <3>1. CASE CallStep(v)
      BY <3>1, <1>1, <1>2
    <3> QED
      BY <2>2, <3>1, <1>3, <1>4
  <2> QED
    BY <2>1, <2>2 DEF WriteNext
<1> QED
  BY <1>1, <1>6, <1>a, <1>b

\* A call that was entered is over after at most eleven steps of its own, for
\* any number of workers and on every path.
THEOREM CallsGetShorter == WriteSpec => CallShortens
<1>1. WriteTypeOK /\ [WriteNext]_writeVars =>
        [\A w \in Workers : place[w] # "idle" =>
            /\ StepsLeft[place'[w]] <= StepsLeft[place[w]]
            /\ CallStep(w) => StepsLeft[place'[w]] < StepsLeft[place[w]]]_writeVars
  BY CallGoesOn
<1> QED
  BY <1>1, WriteTypes, PTL DEF WriteSpec, CallShortens
=============================================================================
