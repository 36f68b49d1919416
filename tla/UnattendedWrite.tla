--------------------------- MODULE UnattendedWrite ---------------------------
(***************************************************************************)
(* Unattended real writes: worker processes on one machine that run         *)
(* run_unattended_wecom_bind_write.  They share a lock file and one context *)
(* file per task; the secrets they install and the orders they create       *)
(* live at JDY and at WeCom.  Every file operation and every back-office    *)
(* call that writes is a step; each may raise, with or without its effect,  *)
(* and the process may die before it.                                       *)
(*                                                                         *)
(* The login recovery that runs before the call changes nothing of this     *)
(* state.  Of the reads at JDY and WeCom only the ones the write depends on *)
(* are kept: whether JDY returns the secret it holds, and whether the app   *)
(* has development info.  A secret stands for a token and its AES key.      *)
(***************************************************************************)
EXTENDS Naturals, FiniteSets

CONSTANTS
    Workers,
    WriteTasks,
    NoWrite,
    OldSecrets,   \* how many secrets JDY and WeCom may hold from earlier bindings
    Apps,         \* what they may hold for a task at first
    Overlap,      \* may a task be dispatched while another worker is on it
    WriteFaults,  \* which of "crash", "disk" may happen
    MaxCalls      \* bound: number of dispatches

ASSUME WriteAssumption ==
    /\ NoWrite \notin WriteTasks
    /\ OldSecrets \in Nat
    /\ Apps \subseteq [jdy : 0..OldSecrets, wecom : 0..OldSecrets]
    /\ Overlap \in BOOLEAN
    /\ WriteFaults \subseteq {"crash", "disk"}
    /\ MaxCalls \in Nat

VARIABLES
    lock,         \* the lock file: "free" (absent), "held", "left" behind
    file,         \* the context file of a task
    place,        \* where the call of a worker is
    task,         \* its task
    ctx,          \* the context it has in memory
    issued,       \* secrets generated so far, the old ones included
    jdySecret,    \* the secret installed at JDY, 0 if none (external)
    wecomSecret,  \* the secret in the app's development info, 0 if that is
                  \* not filled in with the URLs of this corp (external)
    orders,       \* online orders created (external)
    online,       \* the orders WeCom accepted (external)
    calls

office == <<jdySecret, wecomSecret, orders, online>>
call == <<place, task>>
writeVars == <<lock, file, call, ctx, issued, office, calls>>

Context == [secret : Nat, order : Nat, done : BOOLEAN]

\* An absent, empty or unparsable file loads as {}: no secret, no order, not
\* completed.
Blank == [secret |-> 0, order |-> 0, done |-> FALSE]

\* The three writes of the context file, each with the step after it.
AfterRecord == [recordSecret |-> "save", recordOrder |-> "submit", recordDone |-> "release"]
Recording == {"recordSecret", "recordOrder", "recordDone"}

\* Between _acquire_lock and _release_lock.
Inside == Recording \cup {"preflight", "install", "save", "order", "submit", "release"}

WriteInit ==
    /\ lock = "free"
    /\ file = [t \in WriteTasks |-> Blank]
    /\ place = [w \in Workers |-> "idle"]
    /\ task = [w \in Workers |-> NoWrite]
    /\ ctx = [w \in Workers |-> Blank]
    /\ issued = OldSecrets
    /\ \E app \in [WriteTasks -> Apps] :
          /\ jdySecret = [t \in WriteTasks |-> app[t].jdy]
          /\ wecomSecret = [t \in WriteTasks |-> app[t].wecom]
    /\ orders = [t \in WriteTasks |-> 0]
    /\ online = [t \in WriteTasks |-> {}]
    /\ calls = 0

WriteTypeOK ==
    /\ lock \in {"free", "held", "left"}
    /\ file \in [WriteTasks -> Context]
    /\ place \in [Workers -> Inside \cup {"idle", "check", "lock"}]
    /\ task \in [Workers -> WriteTasks \cup {NoWrite}]
    /\ \A w \in Workers : task[w] = NoWrite <=> place[w] = "idle"
    /\ ctx \in [Workers -> Context]
    /\ issued \in Nat
    /\ jdySecret \in [WriteTasks -> Nat]
    /\ wecomSecret \in [WriteTasks -> Nat]
    /\ orders \in [WriteTasks -> Nat]
    /\ online \in [WriteTasks -> SUBSET Nat]
    /\ calls \in Nat

MoveTo(w, l) == place' = [place EXCEPT ![w] = l] /\ UNCHANGED task

\* The call returns to the handler.
Leave(w) ==
    /\ place' = [place EXCEPT ![w] = "idle"]
    /\ task' = [task EXCEPT ![w] = NoWrite]
-----------------------------------------------------------------------------
(***************************************************************************)
(* Before the lock.                                                        *)
(***************************************************************************)

Dispatch(w, t) ==
    /\ calls < MaxCalls
    /\ place[w] = "idle"
    /\ Overlap \/ \A v \in Workers : task[v] # t
    /\ calls' = calls + 1
    /\ place' = [place EXCEPT ![w] = "check"]
    /\ task' = [task EXCEPT ![w] = t]
    /\ ctx' = [ctx EXCEPT ![w] = Blank]
    /\ UNCHANGED <<lock, file, issued, office>>

\* What a reader of the context file finds: write_text truncates first.
Readable(t) ==
    {file[t]} \cup {Blank : w \in {v \in Workers : task[v] = t /\ place[v] \in Recording}}

\* Mutant of CheckContext: a task with an order is not looked at further.
CheckOrderOnly(w) ==
    /\ place[w] = "check"
    /\ \E found \in Readable(task[w]) :
          IF found.done /\ found.order = 0 THEN Leave(w) ELSE MoveTo(w, "lock")
    /\ UNCHANGED <<lock, file, ctx, issued, office, calls>>

\* A completed task is answered 'already_completed'.  The lock is not held yet.
CheckContext(w) ==
    /\ place[w] = "check"
    /\ \E found \in Readable(task[w]) :
          IF found.done THEN Leave(w) ELSE MoveTo(w, "lock")
    /\ UNCHANGED <<lock, file, ctx, issued, office, calls>>

\* Mutant of AcquireLock: the file is opened without O_EXCL.
AcquireSharedLock(w) ==
    /\ place[w] = "lock"
    /\ lock' = "held"
    /\ MoveTo(w, "preflight")
    /\ UNCHANGED <<file, ctx, issued, office, calls>>

AcquireLock(w) ==
    /\ place[w] = "lock"
    /\ lock = "free"
    /\ lock' = "held"
    /\ MoveTo(w, "preflight")
    /\ UNCHANGED <<file, ctx, issued, office, calls>>

\* The file exists, whoever left it: 'write_already_running'.
RefuseLock(w) ==
    /\ place[w] = "lock"
    /\ lock # "free"
    /\ Leave(w)
    /\ UNCHANGED <<lock, file, ctx, issued, office, calls>>

\* Writing the task id into the new file raises, outside the try block.
AcquireRaises(w) ==
    /\ "disk" \in WriteFaults
    /\ place[w] = "lock"
    /\ lock = "free"
    /\ lock' = "left"
    /\ Leave(w)
    /\ UNCHANGED <<file, ctx, issued, office, calls>>
-----------------------------------------------------------------------------
(***************************************************************************)
(* The write, inside the lock.                                             *)
(***************************************************************************)

\* Mutant of ReadOwner: whenever JDY holds a secret the install is left out,
\* also if its answer did not contain it.
InstallOnlyOnce(w) ==
    /\ place[w] = "preflight"
    /\ \/ /\ jdySecret[task[w]] # 0
          /\ ctx' = [ctx EXCEPT ![w].secret = jdySecret[task[w]]]
          /\ MoveTo(w, "recordSecret")
          /\ UNCHANGED issued
       \/ /\ issued' = issued + 1
          /\ ctx' = [ctx EXCEPT ![w].secret = issued + 1]
          /\ MoveTo(w, IF jdySecret[task[w]] = 0 THEN "install" ELSE "recordSecret")
    /\ UNCHANGED <<lock, file, office, calls>>

\* Preflight passed and check_wework_owner answered.  A secret that JDY holds
\* and returns to an owner who can update it is used again.  Without both, a
\* new one is generated and installed, over whatever JDY holds.
ReadOwner(w) ==
    /\ place[w] = "preflight"
    /\ \/ /\ jdySecret[task[w]] # 0
          /\ ctx' = [ctx EXCEPT ![w].secret = jdySecret[task[w]]]
          /\ MoveTo(w, "recordSecret")
          /\ UNCHANGED issued
       \/ /\ issued' = issued + 1
          /\ ctx' = [ctx EXCEPT ![w].secret = issued + 1]
          /\ MoveTo(w, "install")
    /\ UNCHANGED <<lock, file, office, calls>>

\* The effects of the four calls that write at JDY or WeCom.
InstallEffect(w) ==
    /\ jdySecret' = [jdySecret EXCEPT ![task[w]] = ctx[w].secret]
    /\ UNCHANGED <<wecomSecret, orders, online>>

\* Development info that was there when the app was read, with the URLs of this
\* corp, is left alone whatever secret is in it; any other is overwritten.
\* Nobody else writes it while the lock is held.
SaveEffect(w) ==
    /\ wecomSecret' = [wecomSecret EXCEPT ![task[w]] = IF @ = 0 THEN ctx[w].secret ELSE @]
    /\ UNCHANGED <<jdySecret, orders, online>>

OrderEffect(w) ==
    /\ orders' = [orders EXCEPT ![task[w]] = @ + 1]
    /\ UNCHANGED <<jdySecret, wecomSecret, online>>

SubmitEffect(w) ==
    /\ online' = [online EXCEPT ![task[w]] = @ \cup {ctx[w].order}]
    /\ UNCHANGED <<jdySecret, wecomSecret, orders>>

Install(w) ==
    /\ place[w] = "install"
    /\ InstallEffect(w)
    /\ MoveTo(w, "recordSecret")
    /\ UNCHANGED <<lock, file, ctx, issued, calls>>

SaveInfo(w) ==
    /\ place[w] = "save"
    /\ SaveEffect(w)
    /\ MoveTo(w, "order")
    /\ UNCHANGED <<lock, file, ctx, issued, calls>>

\* Privileges, trial rule and redirect domain, then order/add, whose status is
\* recorded with the order: that of a new order, which is not online yet.
CreateOrder(w) ==
    /\ place[w] = "order"
    /\ OrderEffect(w)
    /\ ctx' = [ctx EXCEPT ![w].order = orders[task[w]] + 1, ![w].done = FALSE]
    /\ MoveTo(w, "recordOrder")
    /\ UNCHANGED <<lock, file, issued, calls>>

\* After the wait: order/set answers with the status of the order, which is
\* taken for a success whatever it is and recorded as it is.
SubmitOrder(w) ==
    /\ place[w] = "submit"
    /\ SubmitEffect(w)
    /\ \E accepted \in BOOLEAN : ctx' = [ctx EXCEPT ![w].done = accepted]
    /\ MoveTo(w, "recordDone")
    /\ UNCHANGED <<lock, file, issued, calls>>

\* Mutant of CallRaises: an order/set that raised is recorded as completed.
CallSwallowed(w) ==
    /\ place[w] = "submit"
    /\ ctx' = [ctx EXCEPT ![w].done = TRUE]
    /\ MoveTo(w, "recordDone")
    /\ UNCHANGED <<lock, file, issued, office, calls>>

\* Mutant of CallRaises: after an install that raised the run goes on, as if the
\* secret were there.
InstallSwallowed(w) ==
    /\ place[w] = "install"
    /\ MoveTo(w, "recordSecret")
    /\ UNCHANGED <<lock, file, ctx, issued, office, calls>>

\* A call raises, or the preflight blocks: with the call's effect or without.
CallRaises(w) ==
    /\ \/ place[w] \in {"preflight", "install", "save", "order", "submit"} /\ UNCHANGED office
       \/ place[w] = "install" /\ InstallEffect(w)
       \/ place[w] = "save" /\ SaveEffect(w)
       \/ place[w] = "order" /\ OrderEffect(w)
       \/ place[w] = "submit" /\ SubmitEffect(w)
    /\ MoveTo(w, "release")
    /\ UNCHANGED <<lock, file, ctx, issued, calls>>

\* _write_private_json.
Record(w) ==
    /\ place[w] \in Recording
    /\ file' = [file EXCEPT ![task[w]] = ctx[w]]
    /\ MoveTo(w, AfterRecord[place[w]])
    /\ UNCHANGED <<lock, ctx, issued, office, calls>>

\* The write raises, before it truncated the file or after.
RecordRaises(w) ==
    /\ "disk" \in WriteFaults
    /\ place[w] \in Recording
    /\ \/ UNCHANGED file
       \/ file' = [file EXCEPT ![task[w]] = Blank]
    /\ MoveTo(w, "release")
    /\ UNCHANGED <<lock, ctx, issued, office, calls>>

\* Mutant of ReleaseLock: the task stays in hand.
ReleaseKeepsTask(w) ==
    /\ place[w] = "release"
    /\ lock' = "free"
    /\ MoveTo(w, "idle")
    /\ UNCHANGED <<file, ctx, issued, office, calls>>

\* The finally block.
ReleaseLock(w) ==
    /\ place[w] = "release"
    /\ lock' = "free"
    /\ Leave(w)
    /\ UNCHANGED <<file, ctx, issued, office, calls>>
-----------------------------------------------------------------------------
\* The process dies: its lock file stays, and so does a truncated context.
Crash(w) ==
    /\ "crash" \in WriteFaults
    /\ place[w] # "idle"
    /\ lock' = IF place[w] \in Inside THEN "left" ELSE lock
    /\ \/ UNCHANGED file
       \/ place[w] \in Recording /\ file' = [file EXCEPT ![task[w]] = Blank]
    /\ Leave(w)
    /\ UNCHANGED <<ctx, issued, office, calls>>

\* Nothing in the code removes a lock file that was left behind; an operator
\* does, once no run is behind it.
ClearLock ==
    /\ lock = "left"
    /\ lock' = "free"
    /\ UNCHANGED <<file, call, ctx, issued, office, calls>>

CallStep(w) ==
    \/ CheckContext(w)
    \/ AcquireLock(w)
    \/ RefuseLock(w)
    \/ AcquireRaises(w)
    \/ ReadOwner(w)
    \/ Install(w)
    \/ SaveInfo(w)
    \/ CreateOrder(w)
    \/ SubmitOrder(w)
    \/ CallRaises(w)
    \/ Record(w)
    \/ RecordRaises(w)
    \/ ReleaseLock(w)

WriteNext ==
    \/ \E w \in Workers :
          \/ \E t \in WriteTasks : Dispatch(w, t)
          \/ CallStep(w)
          \/ Crash(w)
    \/ ClearLock

WriteSpec == WriteInit /\ [][WriteNext]_writeVars
-----------------------------------------------------------------------------
\* At most one worker is inside the write, the lock file exists as long as one
\* is, and a call that ends takes its lock file with it on every path.
OneWriter ==
    /\ \A v, w \in Workers : place[v] \in Inside /\ place[w] \in Inside => v = w
    /\ lock = "held" <=> \E w \in Workers : place[w] \in Inside

\* The secret of a completed task, which its results write back to the form, is
\* the one JDY holds, and the app has development info: however many runs it
\* took, whichever of them installed a secret, and wherever they failed.
RecordedIsInstalled ==
    \A t \in WriteTasks :
        file[t].done =>
            /\ file[t].secret = jdySecret[t]
            /\ 0 \notin {jdySecret[t], wecomSecret[t]}

\* Development info is written once, and with the secret JDY holds then: no run
\* saves a secret that another has replaced.
SavedIsInstalled ==
    [][\A t \in WriteTasks :
          wecomSecret'[t] # wecomSecret[t] =>
              wecomSecret[t] = 0 /\ wecomSecret'[t] = jdySecret[t]]_writeVars

\* What the runbook demands: the token and AES key in the app's development info
\* are the ones JDY holds, once a task is completed.
SecretsAgree == \A t \in WriteTasks : file[t].done => wecomSecret[t] = jdySecret[t]

\* A context says 'completed' only of an order that was created and that WeCom
\* has been asked to put online.
CompletedIsOnline ==
    \A t \in WriteTasks : file[t].done => file[t].order \in online[t] \cap 1..orders[t]

\* A completed task stays completed and gets no further order.
CompletedIsFinal ==
    [][\A t \in WriteTasks :
          file[t].done => file'[t] = file[t] /\ orders'[t] = orders[t]]_writeVars
-----------------------------------------------------------------------------
(***************************************************************************)
(* The inductive invariant behind the properties above.                    *)
(***************************************************************************)

\* Inside the write the secret in hand is the one JDY holds, or is about to,
\* and once the development info is saved there is some.
SecretInHand ==
    \A w \in Workers :
        /\ place[w] = "install" => ctx[w].secret # 0
        /\ place[w] \in Recording \cup {"save", "order", "submit"} =>
              ctx[w].secret # 0 /\ ctx[w].secret = jdySecret[task[w]]
        /\ place[w] \in {"order", "recordOrder", "submit", "recordDone"} =>
              wecomSecret[task[w]] # 0

\* The order in hand exists, and only the last record may say that it is
\* completed.
OrderInHand ==
    \A w \in Workers :
        /\ place[w] \in {"recordOrder", "submit", "recordDone"} => ctx[w].order \in 1..orders[task[w]]
        /\ place[w] = "recordDone" => ctx[w].order \in online[task[w]]
        /\ place[w] \notin {"idle", "recordDone", "release"} => ~ctx[w].done

WriteInv ==
    /\ WriteTypeOK
    /\ OneWriter
    /\ SecretInHand
    /\ OrderInHand
    /\ CompletedIsOnline

\* Without overlapping dispatches a task has one worker, and one that has
\* passed the check of a context works on a task that is not completed.
Undone == {"lock", "preflight", "install", "save", "order", "submit"} \cup Recording

OneCallPerTask ==
    /\ \A v, w \in Workers : task[v] = task[w] /\ task[v] # NoWrite => v = w
    /\ \A w \in Workers : place[w] \in Undone => ~file[task[w]].done
=============================================================================
