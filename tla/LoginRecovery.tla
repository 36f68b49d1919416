--------------------------- MODULE LoginRecovery ---------------------------
(***************************************************************************)
(* The login recovery that comes before every bind a C360 worker runs.  A  *)
(* read-only preflight uses two cookie files, JDY's and WeCom's.  When one *)
(* session is no good an orchestrator opens a browser at the login page,   *)
(* sends a picture of its QR code to a chat, and until a deadline copies   *)
(* the browser's cookies into the file and probes it.  An unattended run   *)
(* chains JDY's orchestrator and WeCom's, a readonly run has WeCom's only. *)
(*                                                                         *)
(* One worker process serves one dispatch at a time; the task modelled is  *)
(* dispatched again as often as C360 likes, with the notify_attempts of    *)
(* its last result that carried one.  The browser is a process of its own: *)
(* it writes its cookies once a second, exits by itself and outlives a     *)
(* worker that dies.  A person scans the code, or does not.  A session     *)
(* ends everywhere at once.                                                *)
(***************************************************************************)
EXTENDS Naturals

CONSTANTS
    Setups,         \* how workers may have been started
    MaxPolls,       \* max(1, ttl_seconds / poll_interval_seconds)
    MaxNotify,      \* max_notify_times, of both orchestrators
    MaxDispatches,  \* bound: dispatches of the task
    MaxExpiries     \* bound: sessions that end

\* LoginRecoveryConfig as the two builders read it from the environment (the
\* JDY switches default to WeCom's), and the handler that was built.
AllSetups == [mode : {"readonly", "unattended"}, enabled : BOOLEAN, notify : BOOLEAN]

ASSUME RecoveryAssumption ==
    /\ Setups \subseteq AllSetups
    /\ MaxPolls \in Nat \ {0}
    /\ MaxNotify \in Nat
    /\ MaxDispatches \in Nat
    /\ MaxExpiries \in Nat

VARIABLES
    setup,       \* how the worker was started
    cookie,      \* per side: the cookie file the clients are built from
    export,      \* per side: last-wecom-cookie-export.json in node_work_dir
    profile,     \* per side: is the browser profile logged in (external)
    browser,     \* per side: the QR browser, "orphan" when its worker died
    stage,       \* where the run of the dispatch is
    side,        \* the orchestrator at work
    round,       \* the polling round of run
    notified,    \* this orchestrator has counted a notification
    pending,     \* the result on its way through the finally block
    outcome,     \* the result reported for the last dispatch
    counted,     \* notify_attempts C360 sends with the next dispatch (external)
    paused,      \* C360 has paused the queue of its kind (external)
    lapsed,      \* a session has ended since the last preflight of the run
    dispatches,
    expiries

sessions == <<cookie, export, profile, browser>>
run == <<stage, side, round, notified, pending>>
control == <<outcome, counted, paused>>
bounds == <<dispatches, expiries>>
recoveryVars == <<setup, sessions, run, control, lapsed, bounds>>

Sides == {"jdy", "wecom"}

\* trigger_reason of an orchestrator.
TriggerReason == [jdy |-> "jdyExpired", wecom |-> "wecomExpired"]

\* ready_for_real_bind and manual_confirm_required: what a preflight that
\* passes is mapped to.
Passed == {"ready", "confirm"}

\* Results that end an orchestrator, and what a handler makes of an exception.
Results ==
    Passed \cup {"jdyExpired", "wecomExpired", "blocked", "unexecutable",
                 "waiting", "exhausted", "raised"}

\* Inside the try block of run, whose finally closes the browser.
Guarded == {"notify", "refresh", "verify", "again", "close"}

RecoveryInit ==
    /\ setup \in Setups
    /\ cookie \in [Sides -> {"none", "dead", "good"}]
    /\ export \in [Sides -> {"absent", "dead"}]
    /\ profile = [s \in Sides |-> "out"]
    /\ browser = [s \in Sides |-> "none"]
    /\ stage = "idle"
    /\ side = "none"
    /\ round = 0
    /\ notified = FALSE
    /\ pending = "none"
    /\ outcome = "none"
    /\ counted = 0
    /\ lapsed = FALSE
    /\ paused = FALSE
    /\ dispatches = 0
    /\ expiries = 0

RecoveryTypeOK ==
    /\ setup \in Setups
    /\ cookie \in [Sides -> {"none", "dead", "good"}]
    /\ export \in [Sides -> {"absent", "empty", "garbled", "dead", "good"}]
    /\ profile \in [Sides -> {"out", "good"}]
    /\ browser \in [Sides -> {"none", "running", "orphan"}]
    /\ stage \in Guarded \cup {"idle", "preflight", "capture", "await"}
    /\ side \in Sides \cup {"none"}
    /\ side = "none" <=> stage = "idle"
    /\ round \in 0..MaxPolls
    /\ notified \in BOOLEAN
    /\ pending \in Results \cup {"none"}
    /\ pending # "none" <=> stage = "close"
    /\ outcome \in Results \cup {"none"}
    /\ counted \in Nat
    /\ paused \in BOOLEAN
    /\ lapsed \in BOOLEAN
    /\ dispatches \in Nat
    /\ expiries \in Nat
-----------------------------------------------------------------------------
(***************************************************************************)
(* The preflight and the ends of a run.                                    *)
(***************************************************************************)

\* A cookie file that is missing: both are read before any call, JDY's first.
\* WeCom's orchestrator takes either for its own.
MissingCookie ==
    IF cookie["jdy"] = "none" /\ side = "jdy" THEN "jdyExpired" ELSE "wecomExpired"

\* Mutant of PreflightResults: any missing cookie is taken for WeCom's.
BlameWecom ==
    IF "none" \in {cookie["jdy"], cookie["wecom"]} THEN {"wecomExpired", "raised"}
    ELSE {"unexecutable", "blocked", "raised"} \cup
         (IF cookie["jdy"] # "good" THEN {"jdyExpired"}
          ELSE IF cookie["wecom"] # "good" THEN {"wecomExpired"}
          ELSE Passed)

\* What the preflight of the orchestrator at work can return.  JDY is asked
\* before WeCom.  A call that fails for another reason, or is answered with a
\* page, and an enterprise or app that is not found end as 'unexecutable' or
\* 'blocked'; a file that cannot be read raises.
PreflightResults ==
    IF "none" \in {cookie["jdy"], cookie["wecom"]} THEN {MissingCookie, "raised"}
    ELSE {"unexecutable", "blocked", "raised"} \cup
         (IF cookie["jdy"] # "good" THEN {"jdyExpired"}
          ELSE IF cookie["wecom"] # "good" THEN {"wecomExpired"}
          ELSE Passed)

\* What the queue_control of a result asks C360 to do: a run that waits for a
\* scan, or may not ask again, pauses the queue of its kind; only a readonly run
\* that passes resumes it.
ReadonlyControl(r) ==
    paused' = (r \in {"waiting", "exhausted"} \/ (paused /\ r \notin Passed))

UnattendedControl(r) ==
    paused' = (r \in {"waiting", "exhausted"} \/ paused)

\* The handler reports the result and C360 acts on it.
Report(r) ==
    /\ outcome' = r
    /\ IF setup.mode = "unattended" THEN UnattendedControl(r) ELSE ReadonlyControl(r)
    /\ counted' = IF r = "waiting" /\ notified THEN counted + 1 ELSE counted

\* Mutant of Return: JDY's recovery waves every blocked result on to WeCom.
ReturnAlways(r) ==
    /\ round' = 0
    /\ notified' = FALSE
    /\ pending' = "none"
    /\ lapsed' = FALSE
    /\ IF side = "jdy" /\ r \notin Passed
       THEN /\ stage' = "preflight"
            /\ side' = "wecom"
            /\ UNCHANGED control
       ELSE /\ stage' = "idle"
            /\ side' = "none"
            /\ Report(r)

\* An orchestrator returns r, to the chain or to the handler.
Return(r) ==
    /\ round' = 0
    /\ notified' = FALSE
    /\ pending' = "none"
    /\ lapsed' = FALSE
    /\ IF side = "jdy" /\ r = "wecomExpired"
       THEN /\ stage' = "preflight"
            /\ side' = "wecom"
            /\ UNCHANGED control
       ELSE /\ stage' = "idle"
            /\ side' = "none"
            /\ Report(r)

\* Goes on to the next stage, or into the finally block with a result.
Goto(l) ==
    /\ stage' = l
    /\ UNCHANGED <<side, round, notified, pending>>

Finally(r) ==
    /\ stage' = "close"
    /\ pending' = r
    /\ UNCHANGED <<side, round, notified>>

\* C360 dispatches the task.  Without a CorpID and a name it is answered at
\* once.
Dispatch ==
    /\ stage = "idle"
    /\ dispatches < MaxDispatches
    /\ dispatches' = dispatches + 1
    /\ \/ /\ stage' = "preflight"
          /\ side' = IF setup.mode = "unattended" THEN "jdy" ELSE "wecom"
          /\ outcome' = "none"
          /\ UNCHANGED <<counted, paused>>
       \/ Report("unexecutable") /\ UNCHANGED <<stage, side>>
    /\ UNCHANGED <<setup, sessions, round, notified, pending, lapsed, expiries>>

\* The notifications of this task are used up.
Exhausted == setup.notify /\ MaxNotify > 0 /\ counted >= MaxNotify

\* Mutant of Preflight: the limit is checked one notification too late.
PreflightLate ==
    /\ stage = "preflight"
    /\ \E r \in PreflightResults :
          IF r # TriggerReason[side] \/ ~setup.enabled THEN Return(r)
          ELSE IF setup.notify /\ MaxNotify > 0 /\ counted > MaxNotify THEN Return("exhausted")
          ELSE Goto("capture") /\ UNCHANGED control
    /\ lapsed' = FALSE
    /\ UNCHANGED <<setup, sessions, bounds>>

\* The first preflight of run, and the tests after it.
Preflight ==
    /\ stage = "preflight"
    /\ \E r \in PreflightResults :
          IF r # TriggerReason[side] \/ ~setup.enabled THEN Return(r)
          ELSE IF Exhausted THEN Return("exhausted")
          ELSE Goto("capture") /\ UNCHANGED control
    /\ lapsed' = FALSE
    /\ UNCHANGED <<setup, sessions, bounds>>
-----------------------------------------------------------------------------
(***************************************************************************)
(* The QR browser.                                                         *)
(***************************************************************************)

\* What writeCookieExport finds in the profile: the login page may have set
\* cookies of its own before anybody is logged in.
Exported(s) == IF profile[s] = "good" THEN {"good"} ELSE {"empty", "dead"}

SetBrowser(s, b) == browser' = [browser EXCEPT ![s] = b]

\* capture, up to the node process.  It cannot open a profile an orphan holds.
StartBrowser ==
    /\ stage = "capture"
    /\ IF browser[side] = "orphan" THEN UNCHANGED browser ELSE SetBrowser(side, "running")
    /\ Goto("await")
    /\ UNCHANGED <<setup, cookie, export, profile, control, lapsed, bounds>>

\* npm install or Popen raises: there is no process, and no try block yet.
StartRaises ==
    /\ stage = "capture"
    /\ Return("raised")
    /\ UNCHANGED <<setup, sessions, bounds>>

\* The picture of the QR code is there.
ArtifactAppears ==
    /\ stage = "await"
    /\ browser[side] = "running"
    /\ Goto("notify")
    /\ UNCHANGED <<setup, sessions, control, lapsed, bounds>>

\* Mutant of CaptureRaises: the exception leaves the browser open.
CaptureLeaks ==
    /\ stage = "await"
    /\ Return("raised")
    /\ UNCHANGED <<setup, sessions, bounds>>

\* The process has exited, or there is no picture in 30 seconds: the page
\* shows no QR code, for one when the profile is logged in already.
CaptureRaises ==
    /\ stage = "await"
    /\ IF browser[side] = "running" THEN SetBrowser(side, "none") ELSE UNCHANGED browser
    /\ Return("raised")
    /\ UNCHANGED <<setup, cookie, export, profile, bounds>>

\* notify_qr, when notifications are on.
Notify ==
    /\ stage = "notify"
    /\ stage' = "refresh"
    /\ round' = 1
    /\ notified' = (setup.notify /\ MaxNotify > 0)
    /\ UNCHANGED <<setup, sessions, side, pending, control, lapsed, bounds>>

\* One of its messages fails; those sent before it are not counted.
NotifyRaises ==
    /\ stage = "notify"
    /\ setup.notify /\ MaxNotify > 0
    /\ Finally("raised")
    /\ UNCHANGED <<setup, sessions, control, lapsed, bounds>>
-----------------------------------------------------------------------------
(***************************************************************************)
(* The polling rounds.                                                     *)
(***************************************************************************)

\* Mutant of EndRound: one round more than the deadline allows.
EndRoundLate ==
    IF round <= MaxPolls
    THEN stage' = "refresh" /\ round' = round + 1 /\ UNCHANGED <<side, notified, pending>>
    ELSE Finally("waiting")

\* Mutant of EndRound: a round that failed is not counted.
EndRoundUncounted ==
    IF round < MaxPolls
    THEN stage' = "refresh" /\ UNCHANGED <<side, round, notified, pending>>
    ELSE Finally("waiting")

\* Sleep and poll again, or give up.
EndRound ==
    IF round < MaxPolls
    THEN stage' = "refresh" /\ round' = round + 1 /\ UNCHANGED <<side, notified, pending>>
    ELSE Finally("waiting")

\* refresh with the cookies the live export holds, logged in or not.
RefreshFromLive ==
    /\ stage = "refresh"
    /\ export[side] \in {"dead", "good"}
    /\ cookie' = [cookie EXCEPT ![side] = export[side]]
    /\ Goto("verify")
    /\ UNCHANGED <<setup, export, profile, browser, control, lapsed, bounds>>

\* There is no live export, or an old one without cookies: the export command
\* opens the profile, which only works when no other browser has it.
RefreshByCommand ==
    /\ stage = "refresh"
    /\ export[side] = "absent"
    /\ browser[side] = "none"
    /\ \E e \in Exported(side) :
          /\ export' = [export EXCEPT ![side] = e]
          /\ IF e = "empty"
             THEN EndRound /\ UNCHANGED cookie
             ELSE Goto("verify") /\ cookie' = [cookie EXCEPT ![side] = e]
    /\ UNCHANGED <<setup, profile, browser, control, lapsed, bounds>>

\* refresh raises: half an export, a fresh one without cookies, a command or a
\* disk that fails.
RefreshRaises ==
    /\ stage = "refresh"
    /\ EndRound
    /\ UNCHANGED <<setup, sessions, control, lapsed, bounds>>

\* Mutant of HealthRestored: the probe's answer is the result of the run.
HealthIsEnough ==
    /\ stage = "verify"
    /\ cookie[side] = "good"
    /\ Finally("ready")
    /\ UNCHANGED <<setup, sessions, control, lapsed, bounds>>

\* The probe of this side's cookie is answered with data: RESTORED.
HealthRestored ==
    /\ stage = "verify"
    /\ cookie[side] = "good"
    /\ Goto("again")
    /\ UNCHANGED <<setup, sessions, control, lapsed, bounds>>

\* EXPIRED; or ERROR, which a good cookie may meet too.
HealthNotRestored ==
    /\ stage = "verify"
    /\ EndRound
    /\ UNCHANGED <<setup, sessions, control, lapsed, bounds>>

\* The second preflight: its result is the run's, whatever it is.
PreflightAgain ==
    /\ stage = "again"
    /\ \E r \in PreflightResults : Finally(r)
    /\ lapsed' = FALSE
    /\ UNCHANGED <<setup, sessions, control, bounds>>

\* The finally block, then the return.
Close ==
    /\ stage = "close"
    /\ IF browser[side] = "running" THEN SetBrowser(side, "none") ELSE UNCHANGED browser
    /\ Return(pending)
    /\ UNCHANGED <<setup, cookie, export, profile, bounds>>
-----------------------------------------------------------------------------
(***************************************************************************)
(* What happens around the run.                                            *)
(***************************************************************************)

\* The worker process dies; its browser does not, and nothing is reported.
WorkerDies ==
    /\ stage # "idle"
    /\ stage' = "idle"
    /\ round' = 0
    /\ notified' = FALSE
    /\ pending' = "none"
    /\ side' = "none"
    /\ lapsed' = FALSE
    /\ IF browser[side] = "running" THEN SetBrowser(side, "orphan") ELSE UNCHANGED browser
    /\ UNCHANGED <<setup, cookie, export, profile, control, bounds>>

\* writeCookieExport of an open browser; a reader may find half of it.
LiveExport(s) ==
    /\ browser[s] # "none"
    /\ \E e \in Exported(s) \cup {"garbled"} : export' = [export EXCEPT ![s] = e]
    /\ UNCHANGED <<setup, cookie, profile, browser, run, control, lapsed, bounds>>

\* keepalive-seconds are over, or the script fails: it exports a last time.
BrowserExits(s) ==
    /\ browser[s] # "none"
    /\ SetBrowser(s, "none")
    /\ \E e \in Exported(s) \cup {export[s]} : export' = [export EXCEPT ![s] = e]
    /\ UNCHANGED <<setup, cookie, profile, run, control, lapsed, bounds>>

\* An export without cookies counts as absent after five minutes.
ExportAges(s) ==
    /\ export[s] = "empty"
    /\ browser[s] = "none"
    /\ export' = [export EXCEPT ![s] = "absent"]
    /\ UNCHANGED <<setup, cookie, profile, browser, run, control, lapsed, bounds>>

\* Somebody scans the code of an open browser.
Scan(s) ==
    /\ browser[s] # "none"
    /\ profile' = [profile EXCEPT ![s] = "good"]
    /\ UNCHANGED <<setup, cookie, export, browser, run, control, lapsed, bounds>>

\* The session of a side ends, for every copy of its cookies.
Expire(s) ==
    /\ expiries < MaxExpiries
    /\ expiries' = expiries + 1
    /\ lapsed' = (stage # "idle")
    /\ profile' = [profile EXCEPT ![s] = "out"]
    /\ cookie' = [cookie EXCEPT ![s] = IF @ = "good" THEN "dead" ELSE @]
    /\ export' = [export EXCEPT ![s] = IF @ = "good" THEN "dead" ELSE @]
    /\ UNCHANGED <<setup, browser, run, control, dispatches>>

RunStep ==
    \/ Preflight
    \/ StartBrowser
    \/ StartRaises
    \/ ArtifactAppears
    \/ CaptureRaises
    \/ Notify
    \/ NotifyRaises
    \/ RefreshFromLive
    \/ RefreshByCommand
    \/ RefreshRaises
    \/ HealthRestored
    \/ HealthNotRestored
    \/ PreflightAgain
    \/ Close

RecoveryNext ==
    \/ Dispatch
    \/ RunStep
    \/ WorkerDies
    \/ \E s \in Sides :
          LiveExport(s) \/ BrowserExits(s) \/ ExportAges(s) \/ Scan(s) \/ Expire(s)

RecoverySpec == RecoveryInit /\ [][RecoveryNext]_recoveryVars

\* A run that was entered goes on: every wait in it has a timeout.  Nobody has
\* to scan and C360 does not have to dispatch.
RecoveryFairness == WF_recoveryVars(RunStep)
-----------------------------------------------------------------------------
\* A QR browser runs only while its orchestrator does: every way out of a run,
\* exceptions included, closes the one it opened, so that the next run can
\* open the profile.
BrowserClosed ==
    \A s \in Sides : browser[s] = "running" => side = s /\ stage \in Guarded \cup {"await"}

\* An unattended run asks for a scan only where one is needed: the session of
\* the side it asks for had failed, and the cookie of JDY, which comes first,
\* is there before anybody is asked to log in at WeCom.
QrIsNeeded ==
    setup.mode = "unattended" /\ stage \in {"capture", "await", "notify"} =>
        /\ cookie[side] # "good"
        /\ side = "wecom" => cookie["jdy"] # "none"

\* An unattended run never replaces a cookie that works by one that does not:
\* polling goes on after a probe has failed, and the export it reads may be
\* older than the login.
WorkingCookieKept ==
    [][setup.mode = "unattended" =>
          \A s \in Sides :
              cookie[s] = "good" /\ expiries' = expiries => cookie'[s] = "good"]_recoveryVars

\* A run is ready for the write, and a paused queue is resumed, only when both
\* sessions work, unless one has ended since the run's last preflight: that the
\* session waited for is back does not make a run ready.
ReadyIsChecked ==
    [][(outcome \notin Passed /\ outcome' \in Passed) \/ (paused /\ ~paused') =>
          lapsed \/ \A s \in Sides : cookie[s] = "good"]_recoveryVars

\* Once the notifications of a task are used up no run of it opens a browser
\* or sends another QR code, however often it is dispatched.
ExhaustedIsQuiet == Exhausted => stage \in {"idle", "preflight"}

\* Every run comes to an end, even when each refresh raises.
RunEnds == stage # "idle" ~> stage = "idle"
=============================================================================
