------------------------- MODULE LoginRecovery_proofs -------------------------
(***************************************************************************)
(* Proofs of the safety properties of LoginRecovery for any setups, any     *)
(* deadline, notification limit, number of dispatches and of sessions that  *)
(* end.                                                                     *)
(***************************************************************************)
EXTENDS LoginRecovery, TLAPS

\* Two halves of the type invariant: what the browser and the files hold, and
\* where the run is.
SessionsTyped ==
    /\ cookie \in [Sides -> {"none", "dead", "good"}]
    /\ export \in [Sides -> {"absent", "empty", "garbled", "dead", "good"}]
    /\ profile \in [Sides -> {"out", "good"}]
    /\ browser \in [Sides -> {"none", "running", "orphan"}]

RunTyped ==
    /\ stage \in Guarded \cup {"idle", "preflight", "capture", "await"}
    /\ side \in Sides \cup {"none"}
    /\ side = "none" <=> stage = "idle"
    /\ round \in 0..MaxPolls
    /\ notified \in BOOLEAN
    /\ pending \in Results \cup {"none"}
    /\ pending # "none" <=> stage = "close"
    /\ outcome \in Results \cup {"none"}
    /\ counted \in Nat
    /\ paused \in BOOLEAN
    /\ lapsed \in BOOLEAN

\* WeCom's recovery follows JDY's only when JDY's cookie file is there.
JdyFirst ==
    setup.mode = "unattended" /\ (side = "wecom" \/ pending = "wecomExpired") =>
        cookie["jdy"] # "none"

\* An export is logged in only while the profile it was taken from is.
ExportIsLive == \A s \in Sides : export[s] = "good" => profile[s] = "good"

\* A cookie that an unattended run has made work comes from a profile that is
\* logged in, and no older export is left to overwrite it.
PolledCookieIsLive ==
    setup.mode = "unattended" /\ stage \in {"refresh", "verify"} =>
        (cookie[side] = "good" => profile[side] = "good" /\ export[side] # "dead")

\* A result that is about to be returned as passed was true at its preflight.
PassedIsFresh ==
    pending \in Passed => lapsed \/ \A s \in Sides : cookie[s] = "good"

IInv ==
    /\ RecoveryTypeOK
    /\ BrowserClosed
    /\ QrIsNeeded
    /\ ExhaustedIsQuiet
    /\ JdyFirst
    /\ ExportIsLive
    /\ PolledCookieIsLive
    /\ PassedIsFresh

-----------------------------------------------------------------------------
\* The halves are the whole.
LEMMA TypeParts ==
    RecoveryTypeOK <=>
        /\ setup \in Setups /\ SessionsTyped /\ RunTyped
        /\ dispatches \in Nat /\ expiries \in Nat
  BY Zenon DEF RecoveryTypeOK, SessionsTyped, RunTyped

\* What is reported has its type.
LEMMA ReportTyped ==
    ASSUME RunTyped, NEW r \in Results, Report(r)
    PROVE  outcome' \in Results \cup {"none"} /\ paused' \in BOOLEAN /\ counted' \in Nat
<1>1. outcome' \in Results \cup {"none"}
  BY DEF Report, ReadonlyControl, UnattendedControl
<1>2. paused' \in BOOLEAN
  BY Zenon DEF Report, ReadonlyControl, UnattendedControl, RunTyped
<1>3. counted' \in Nat
  BY DEF Report, ReadonlyControl, UnattendedControl, RunTyped
<1> QED
  BY <1>1, <1>2, <1>3

\* Where an orchestrator that returns leaves the run: at its end, or in the
\* preflight of WeCom's orchestrator.
LEMMA ReturnLeaves ==
    ASSUME NEW r, Return(r)
    PROVE  /\ round' = 0 /\ notified' = FALSE /\ pending' = "none" /\ lapsed' = FALSE
           /\ \/ stage' = "idle" /\ side' = "none" /\ Report(r)
              \/ /\ side = "jdy" /\ r = "wecomExpired"
                 /\ stage' = "preflight" /\ side' = "wecom"
                 /\ UNCHANGED control
<1>1. round' = 0 /\ notified' = FALSE /\ pending' = "none" /\ lapsed' = FALSE
  BY Zenon DEF Return
<1>2. CASE side = "jdy" /\ r = "wecomExpired"
  <2>1. stage' = "preflight" /\ side' = "wecom" /\ UNCHANGED control
    BY <1>2, Zenon DEF Return
  <2> QED
    BY <1>1, <1>2, <2>1
<1>3. CASE ~(side = "jdy" /\ r = "wecomExpired")
  <2>1. stage' = "idle" /\ side' = "none" /\ Report(r)
    BY <1>3, Zenon DEF Return
  <2> QED
    BY <1>1, <2>1
<1> QED
  BY <1>2, <1>3

\* It leaves the run with its type.
LEMMA ReturnTyped ==
    ASSUME RunTyped, NEW r \in Results, Return(r)
    PROVE  RunTyped'
<1>1. round' = 0 /\ pending' = "none"
  BY ReturnLeaves
<1>2. notified' \in BOOLEAN /\ lapsed' \in BOOLEAN
  BY ReturnLeaves, Zenon
<1>3. round' \in 0..MaxPolls
  BY <1>1, RecoveryAssumption
<1>4. outcome' \in Results \cup {"none"} /\ paused' \in BOOLEAN /\ counted' \in Nat
  <2>1. CASE Report(r)
    BY <2>1, ReportTyped
  <2>2. CASE UNCHANGED control
    BY <2>2 DEF control, RunTyped
  <2> QED
    BY <2>1, <2>2, ReturnLeaves, Zenon
<1>5. \/ stage' = "idle" /\ side' = "none"
      \/ stage' = "preflight" /\ side' = "wecom"
  BY ReturnLeaves, Zenon
<1>6. /\ stage' \in Guarded \cup {"idle", "preflight", "capture", "await"}
      /\ side' \in Sides \cup {"none"}
      /\ (side = "none" <=> stage = "idle")'
      /\ stage' # "close"
  BY <1>5 DEF Guarded, Sides
<1> QED
  BY <1>1, <1>2, <1>3, <1>4, <1>6 DEF RunTyped

\* Outside the preflight a run returns with one of the known results.
LEMMA Returning ==
    ASSUME RunTyped, StartRaises \/ CaptureRaises \/ Close
    PROVE  \E r \in Results : Return(r)
<1>1. CASE StartRaises \/ CaptureRaises
  BY <1>1 DEF StartRaises, CaptureRaises, Results
<1>2. CASE Close
  BY <1>2 DEF Close, RunTyped
<1> QED
  BY <1>1, <1>2

\* What a preflight leads to: a result, or a browser for a session that failed,
\* as long as notifications are left.
LEMMA PreflightLeads ==
    ASSUME Preflight
    PROVE  \/ \E r \in Results : (r \in PreflightResults \/ r = "exhausted") /\ Return(r)
           \/ /\ Goto("capture") /\ UNCHANGED control /\ ~Exhausted
              /\ TriggerReason[side] \in PreflightResults
<1>1. PICK r \in PreflightResults :
          \/ Return(r)
          \/ Return("exhausted")
          \/ /\ r = TriggerReason[side]
             /\ ~Exhausted
             /\ Goto("capture") /\ UNCHANGED control
  BY DEF Preflight
<1>2. r \in Results /\ "exhausted" \in Results
  BY DEF PreflightResults, MissingCookie, Results, Passed
<1> QED
  BY <1>1, <1>2

\* A run that has not begun satisfies the inductive invariant.
LEMMA InvInit == RecoveryInit => IInv
<1> SUFFICES ASSUME RecoveryInit PROVE IInv
  OBVIOUS
<1>1. SessionsTyped
  BY DEF RecoveryInit, SessionsTyped, Sides
<1>2. RunTyped
  <2>1. notified \in BOOLEAN /\ paused \in BOOLEAN /\ lapsed \in BOOLEAN
    BY Zenon DEF RecoveryInit
  <2>2. stage = "idle" /\ side = "none" /\ round = 0 /\ pending = "none" /\ outcome = "none" /\ counted = 0
    BY DEF RecoveryInit
  <2> QED
    BY <2>1, <2>2, RecoveryAssumption DEF RunTyped, Guarded, Sides
<1>3. RecoveryTypeOK
  <2>1. setup \in Setups /\ dispatches \in Nat /\ expiries \in Nat
    BY DEF RecoveryInit
  <2> QED
    BY <1>1, <1>2, <2>1, TypeParts
<1>4. BrowserClosed
  BY DEF RecoveryInit, BrowserClosed, Sides
<1>5. QrIsNeeded /\ ExhaustedIsQuiet /\ JdyFirst /\ PolledCookieIsLive
  BY DEF RecoveryInit, QrIsNeeded, ExhaustedIsQuiet, JdyFirst, PolledCookieIsLive
<1>6. ExportIsLive
  BY DEF RecoveryInit, ExportIsLive, Sides
<1>7. PassedIsFresh
  BY DEF RecoveryInit, PassedIsFresh, Passed
<1> QED
  BY <1>3, <1>4, <1>5, <1>6, <1>7 DEF IInv

\* The files and the browsers keep their type.
LEMMA SessionsStep ==
    ASSUME RecoveryTypeOK, [RecoveryNext]_recoveryVars
    PROVE  SessionsTyped'
<1>1. SessionsTyped
  BY TypeParts
<1> USE <1>1 DEF SessionsTyped, Sides
<1>2. CASE Dispatch \/ Preflight \/ StartRaises \/ ArtifactAppears \/ Notify
  BY <1>2 DEF sessions, Dispatch, Preflight, StartRaises, ArtifactAppears, Notify
<1>3. CASE NotifyRaises \/ RefreshRaises \/ HealthRestored \/ HealthNotRestored \/ PreflightAgain
  BY <1>3
     DEF sessions, NotifyRaises, RefreshRaises, HealthRestored, HealthNotRestored,
         PreflightAgain
<1>4. CASE StartBrowser \/ CaptureRaises \/ Close \/ WorkerDies
  BY <1>4 DEF StartBrowser, CaptureRaises, Close, WorkerDies, SetBrowser
<1>5. CASE RefreshFromLive
  BY <1>5 DEF RefreshFromLive
<1>6. CASE RefreshByCommand
  <2>1. PICK e \in Exported(side) :
          /\ export' = [export EXCEPT ![side] = e]
          /\ IF e = "empty" THEN EndRound /\ UNCHANGED cookie
             ELSE Goto("verify") /\ cookie' = [cookie EXCEPT ![side] = e]
    BY <1>6 DEF RefreshByCommand
  <2>2. UNCHANGED <<profile, browser>> /\ e \in {"empty", "dead", "good"}
    BY <1>6 DEF RefreshByCommand, Exported
  <2>3. CASE e = "empty"
    BY <2>1, <2>2, <2>3
  <2>4. CASE e # "empty"
    BY <2>1, <2>2, <2>4
  <2> QED
    BY <2>3, <2>4
<1>7. ASSUME NEW s \in Sides, LiveExport(s) PROVE SessionsTyped'
  BY <1>7 DEF LiveExport, Exported
<1>8. ASSUME NEW s \in Sides, BrowserExits(s) PROVE SessionsTyped'
  BY <1>8 DEF BrowserExits, Exported, SetBrowser
<1>9. ASSUME NEW s \in Sides, ExportAges(s) PROVE SessionsTyped'
  BY <1>9 DEF ExportAges
<1>10. ASSUME NEW s \in Sides, Scan(s) PROVE SessionsTyped'
  BY <1>10 DEF Scan
<1>11. ASSUME NEW s \in Sides, Expire(s) PROVE SessionsTyped'
  BY <1>11 DEF Expire
<1>12. CASE UNCHANGED recoveryVars
  BY <1>12 DEF recoveryVars, sessions
<1> QED
  BY <1>2, <1>3, <1>4, <1>5, <1>6, <1>7, <1>8, <1>9, <1>10, <1>11, <1>12 DEF RecoveryNext, RunStep

\* The run keeps its type.
LEMMA RunStepTyped ==
    ASSUME RecoveryTypeOK, [RecoveryNext]_recoveryVars
    PROVE  RunTyped'
<1>1. RunTyped /\ RecoveryTypeOK
  BY TypeParts
<1> USE RecoveryAssumption
<1>2. CASE Dispatch
  <2>1. CASE UNCHANGED <<counted, paused>>
    BY <1>1, <1>2, <2>1
       DEF Dispatch, Report, ReadonlyControl, UnattendedControl, RunTyped, Guarded, Sides,
           Results
  <2>2. CASE Report("unexecutable") /\ UNCHANGED <<stage, side>>
    <3>1. outcome' \in Results \cup {"none"} /\ paused' \in BOOLEAN /\ counted' \in Nat
      BY <1>1, <2>2, ReportTyped DEF Results
    <3> QED
      BY <1>1, <1>2, <2>2, <3>1 DEF Dispatch, RunTyped
  <2> QED
    BY <1>2, <2>1, <2>2 DEF Dispatch
<1>3. CASE Preflight
  <2>1. CASE Goto("capture") /\ UNCHANGED control
    BY <1>1, <1>3, <2>1 DEF Preflight, Goto, control, RunTyped, Guarded
  <2> QED
    BY <1>1, <1>3, <2>1, PreflightLeads, ReturnTyped
<1>4. CASE StartRaises \/ CaptureRaises \/ Close
  BY <1>1, <1>4, Returning, ReturnTyped
<1>5. CASE StartBrowser
  BY <1>1, <1>5 DEF StartBrowser, Goto, control, RunTyped, Guarded
<1>6. CASE ArtifactAppears
  BY <1>1, <1>6 DEF ArtifactAppears, Goto, control, RunTyped, Guarded
<1>7. CASE Notify
  BY <1>1, <1>7 DEF Notify, control, RunTyped, Guarded
<1>8. CASE NotifyRaises
  BY <1>1, <1>8 DEF NotifyRaises, Finally, Results, control, RunTyped, Guarded
<1>9. CASE RefreshFromLive
  BY <1>1, <1>9 DEF RefreshFromLive, Goto, control, RunTyped, Guarded
<1>10. CASE RefreshByCommand
  BY <1>1, <1>10 DEF RefreshByCommand, EndRound, Finally, Goto, Results, control, RunTyped, Guarded
<1>11. CASE RefreshRaises
  BY <1>1, <1>11 DEF RefreshRaises, EndRound, Finally, Results, control, RunTyped, Guarded
<1>12. CASE HealthRestored
  BY <1>1, <1>12 DEF HealthRestored, Goto, control, RunTyped, Guarded
<1>13. CASE HealthNotRestored
  BY <1>1, <1>13 DEF HealthNotRestored, EndRound, Finally, Results, control, RunTyped, Guarded
<1>14. CASE PreflightAgain
  BY <1>1, <1>14
     DEF PreflightAgain, PreflightResults, MissingCookie, Passed, Finally, Results, control,
         RunTyped, Guarded
<1>15. CASE WorkerDies
  <2>1. notified' \in BOOLEAN /\ lapsed' \in BOOLEAN
    BY <1>15, Zenon DEF WorkerDies
  <2> QED
    BY <1>1, <1>15, <2>1 DEF WorkerDies, control, RunTyped, Guarded
<1>16. ASSUME NEW s \in Sides, LiveExport(s) PROVE RunTyped'
  BY <1>1, <1>16 DEF LiveExport, run, control, RunTyped
<1>17. ASSUME NEW s \in Sides, BrowserExits(s) PROVE RunTyped'
  BY <1>1, <1>17 DEF BrowserExits, run, control, RunTyped
<1>18. ASSUME NEW s \in Sides, ExportAges(s) PROVE RunTyped'
  BY <1>1, <1>18 DEF ExportAges, run, control, RunTyped
<1>19. ASSUME NEW s \in Sides, Scan(s) PROVE RunTyped'
  BY <1>1, <1>19 DEF Scan, run, control, RunTyped
<1>20. ASSUME NEW s \in Sides, Expire(s) PROVE RunTyped'
  BY <1>1, <1>20 DEF Expire, run, control, RunTyped
<1>21. CASE UNCHANGED recoveryVars
  BY <1>1, <1>21 DEF recoveryVars, run, control, RunTyped
<1> QED
  BY <1>2, <1>3, <1>4, <1>5, <1>6, <1>7, <1>8, <1>9, <1>10, <1>11, <1>12, <1>13, <1>14,
     <1>15, <1>16, <1>17, <1>18, <1>19, <1>20, <1>21
     DEF RecoveryNext, RunStep

\* Every run closes the browser it opened.
LEMMA BrowserStep ==
    ASSUME RecoveryTypeOK, BrowserClosed, [RecoveryNext]_recoveryVars
    PROVE  BrowserClosed'
<1> USE TypeParts DEF SessionsTyped, RunTyped, BrowserClosed, Guarded, Sides
<1>1. CASE Dispatch
  BY <1>1 DEF Dispatch, sessions
<1>2. CASE Preflight
  <2>1. \A s \in Sides : browser[s] # "running"
    BY <1>2 DEF Preflight
  <2>2. UNCHANGED browser
    BY <1>2 DEF Preflight, sessions
  <2> QED
    BY <2>1, <2>2
<1>3. CASE StartBrowser
  BY <1>3 DEF StartBrowser, Goto, SetBrowser
<1>4. CASE StartRaises
  <2>1. \A s \in Sides : browser[s] # "running"
    BY <1>4 DEF StartRaises
  <2>2. UNCHANGED browser
    BY <1>4 DEF StartRaises, sessions
  <2> QED
    BY <2>1, <2>2
<1>5. CASE ArtifactAppears
  BY <1>5 DEF ArtifactAppears, Goto, sessions
<1>6. CASE CaptureRaises
  <2>1. \A s \in Sides : browser'[s] # "running"
    BY <1>6 DEF CaptureRaises, SetBrowser
  <2> QED
    BY <2>1
<1>7. CASE Notify
  BY <1>7 DEF Notify, sessions
<1>8. CASE NotifyRaises
  BY <1>8 DEF NotifyRaises, Finally, sessions
<1>9. CASE RefreshFromLive
  BY <1>9 DEF RefreshFromLive, Goto
<1>10. CASE RefreshByCommand
  BY <1>10 DEF RefreshByCommand, EndRound, Finally, Goto
<1>11. CASE RefreshRaises
  BY <1>11 DEF RefreshRaises, EndRound, Finally, sessions
<1>12. CASE HealthRestored
  BY <1>12 DEF HealthRestored, Goto, sessions
<1>13. CASE HealthNotRestored
  BY <1>13 DEF HealthNotRestored, EndRound, Finally, sessions
<1>14. CASE PreflightAgain
  BY <1>14 DEF PreflightAgain, Finally, sessions
<1>15. CASE Close
  <2>1. \A s \in Sides : browser'[s] # "running"
    BY <1>15 DEF Close, SetBrowser
  <2> QED
    BY <2>1
<1>16. CASE WorkerDies
  <2>1. \A s \in Sides : browser'[s] # "running"
    BY <1>16 DEF WorkerDies, SetBrowser
  <2> QED
    BY <2>1
<1>17. ASSUME NEW s \in Sides, LiveExport(s) PROVE BrowserClosed'
  BY <1>17 DEF LiveExport, Exported, run
<1>18. ASSUME NEW s \in Sides, BrowserExits(s) PROVE BrowserClosed'
  BY <1>18 DEF BrowserExits, Exported, SetBrowser, run
<1>19. ASSUME NEW s \in Sides, ExportAges(s) PROVE BrowserClosed'
  BY <1>19 DEF ExportAges, run
<1>20. ASSUME NEW s \in Sides, Scan(s) PROVE BrowserClosed'
  BY <1>20 DEF Scan, run
<1>21. ASSUME NEW s \in Sides, Expire(s) PROVE BrowserClosed'
  BY <1>21 DEF Expire, run
<1>22. CASE UNCHANGED recoveryVars
  BY <1>22 DEF recoveryVars, sessions, run
<1> QED
  BY <1>1, <1>2, <1>3, <1>4, <1>5, <1>6, <1>7, <1>8, <1>9, <1>10, <1>11, <1>12, <1>13,
     <1>14, <1>15, <1>16, <1>17, <1>18, <1>19, <1>20, <1>21, <1>22
     DEF RecoveryNext, RunStep

\* A run that asks for a scan needs it.
LEMMA QrStep ==
    ASSUME RecoveryTypeOK, QrIsNeeded, JdyFirst, [RecoveryNext]_recoveryVars
    PROVE  QrIsNeeded'
<1> USE TypeParts DEF SessionsTyped, RunTyped, QrIsNeeded, JdyFirst, Sides
<1>1. CASE Dispatch
  BY <1>1 DEF Dispatch
<1>2. CASE Preflight
  <2>1. ASSUME NEW r \in Results, Return(r) PROVE QrIsNeeded'
    BY <2>1, ReturnLeaves
  <2>2. ASSUME Goto("capture"), TriggerReason[side] \in PreflightResults
        PROVE  QrIsNeeded'
    BY <1>2, <2>2
       DEF Preflight, Goto, sessions, PreflightResults, MissingCookie, TriggerReason, Passed
  <2> QED
    BY <1>2, <2>1, <2>2, PreflightLeads
<1>3. CASE StartBrowser
  BY <1>3 DEF StartBrowser, Goto
<1>4. CASE StartRaises
  BY <1>4, Returning, ReturnLeaves
<1>5. CASE ArtifactAppears
  BY <1>5 DEF ArtifactAppears, Goto, sessions
<1>6. CASE CaptureRaises
  BY <1>6, Returning, ReturnLeaves
<1>7. CASE Notify
  BY <1>7 DEF Notify
<1>8. CASE NotifyRaises
  BY <1>8 DEF NotifyRaises, Finally
<1>9. CASE RefreshFromLive
  BY <1>9 DEF RefreshFromLive, Goto
<1>10. CASE RefreshByCommand
  BY <1>10 DEF RefreshByCommand, EndRound, Finally, Goto
<1>11. CASE RefreshRaises
  BY <1>11 DEF RefreshRaises, EndRound, Finally
<1>12. CASE HealthRestored
  BY <1>12 DEF HealthRestored, Goto
<1>13. CASE HealthNotRestored
  BY <1>13 DEF HealthNotRestored, EndRound, Finally
<1>14. CASE PreflightAgain
  BY <1>14 DEF PreflightAgain, Finally
<1>15. CASE Close
  BY <1>15, Returning, ReturnLeaves
<1>16. CASE WorkerDies
  BY <1>16 DEF WorkerDies
<1>17. ASSUME NEW s \in Sides, LiveExport(s) PROVE QrIsNeeded'
  BY <1>17 DEF LiveExport, Exported, run
<1>18. ASSUME NEW s \in Sides, BrowserExits(s) PROVE QrIsNeeded'
  BY <1>18 DEF BrowserExits, Exported, SetBrowser, run
<1>19. ASSUME NEW s \in Sides, ExportAges(s) PROVE QrIsNeeded'
  BY <1>19 DEF ExportAges, run
<1>20. ASSUME NEW s \in Sides, Scan(s) PROVE QrIsNeeded'
  BY <1>20 DEF Scan, run
<1>21. ASSUME NEW s \in Sides, Expire(s) PROVE QrIsNeeded'
  BY <1>21 DEF Expire, run
<1>22. CASE UNCHANGED recoveryVars
  BY <1>22 DEF recoveryVars, sessions, run
<1> QED
  BY <1>1, <1>2, <1>3, <1>4, <1>5, <1>6, <1>7, <1>8, <1>9, <1>10, <1>11, <1>12, <1>13,
     <1>14, <1>15, <1>16, <1>17, <1>18, <1>19, <1>20, <1>21, <1>22
     DEF RecoveryNext, RunStep

\* Nothing is counted while a run goes on, so that one that may ask for a scan
\* at its start still may later.
LEMMA ExhaustedStep ==
    ASSUME RecoveryTypeOK, ExhaustedIsQuiet, [RecoveryNext]_recoveryVars
    PROVE  ExhaustedIsQuiet'
<1> USE TypeParts DEF RunTyped, ExhaustedIsQuiet
<1>1. CASE Dispatch
  BY <1>1 DEF Dispatch
<1>2. CASE Preflight
  <2>1. ASSUME NEW r \in Results, Return(r) PROVE ExhaustedIsQuiet'
    BY <2>1, ReturnLeaves
  <2>2. ASSUME Goto("capture"), UNCHANGED control, ~Exhausted
        PROVE  ExhaustedIsQuiet'
    BY <1>2, <2>2 DEF Preflight, control, Exhausted
  <2> QED
    BY <1>2, <2>1, <2>2, PreflightLeads
<1>3. CASE StartBrowser
  BY <1>3 DEF StartBrowser, Goto, control, Exhausted
<1>4. CASE StartRaises
  BY <1>4, Returning, ReturnLeaves
<1>5. CASE ArtifactAppears
  BY <1>5 DEF ArtifactAppears, Goto, control, Exhausted
<1>6. CASE CaptureRaises
  BY <1>6, Returning, ReturnLeaves
<1>7. CASE Notify
  BY <1>7 DEF Notify, control, Exhausted
<1>8. CASE NotifyRaises
  BY <1>8 DEF NotifyRaises, Finally, control, Exhausted
<1>9. CASE RefreshFromLive
  BY <1>9 DEF RefreshFromLive, Goto, control, Exhausted
<1>10. CASE RefreshByCommand
  BY <1>10 DEF RefreshByCommand, EndRound, Finally, Goto, control, Exhausted
<1>11. CASE RefreshRaises
  BY <1>11 DEF RefreshRaises, EndRound, Finally, control, Exhausted
<1>12. CASE HealthRestored
  BY <1>12 DEF HealthRestored, Goto, control, Exhausted
<1>13. CASE HealthNotRestored
  BY <1>13 DEF HealthNotRestored, EndRound, Finally, control, Exhausted
<1>14. CASE PreflightAgain
  BY <1>14 DEF PreflightAgain, Finally, control, Exhausted
<1>15. CASE Close
  BY <1>15, Returning, ReturnLeaves
<1>16. CASE WorkerDies
  BY <1>16 DEF WorkerDies, control, Exhausted
<1>17. ASSUME NEW s \in Sides, LiveExport(s) PROVE ExhaustedIsQuiet'
  BY <1>17 DEF LiveExport, Exported, run, control, Exhausted
<1>18. ASSUME NEW s \in Sides, BrowserExits(s) PROVE ExhaustedIsQuiet'
  BY <1>18 DEF BrowserExits, Exported, SetBrowser, run, control, Exhausted
<1>19. ASSUME NEW s \in Sides, ExportAges(s) PROVE ExhaustedIsQuiet'
  BY <1>19 DEF ExportAges, run, control, Exhausted
<1>20. ASSUME NEW s \in Sides, Scan(s) PROVE ExhaustedIsQuiet'
  BY <1>20 DEF Scan, run, control, Exhausted
<1>21. ASSUME NEW s \in Sides, Expire(s) PROVE ExhaustedIsQuiet'
  BY <1>21 DEF Expire, run, control, Exhausted
<1>22. CASE UNCHANGED recoveryVars
  BY <1>22 DEF recoveryVars, sessions, run, control, Exhausted
<1> QED
  BY <1>1, <1>2, <1>3, <1>4, <1>5, <1>6, <1>7, <1>8, <1>9, <1>10, <1>11, <1>12, <1>13,
     <1>14, <1>15, <1>16, <1>17, <1>18, <1>19, <1>20, <1>21, <1>22
     DEF RecoveryNext, RunStep

\* WeCom's recovery follows JDY's only with JDY's cookie in its file.
LEMMA JdyFirstStep ==
    ASSUME RecoveryTypeOK, JdyFirst, [RecoveryNext]_recoveryVars
    PROVE  JdyFirst'
<1> USE TypeParts DEF SessionsTyped, RunTyped, JdyFirst, Sides
<1>1. CASE Dispatch
  BY <1>1 DEF Dispatch, sessions
<1>2. CASE Preflight
  <2>1. UNCHANGED <<setup, cookie>> /\ pending = "none"
    BY <1>2 DEF Preflight, sessions
  <2>2. ASSUME NEW r \in Results, r \in PreflightResults \/ r = "exhausted", Return(r)
        PROVE  JdyFirst'
    <3>1. CASE side' = "wecom" /\ setup.mode = "unattended"
      <4>1. side = "jdy" /\ r = "wecomExpired"
        BY <2>2, <3>1, ReturnLeaves
      <4> QED
        BY <2>1, <2>2, <4>1 DEF PreflightResults, MissingCookie
    <3>2. CASE ~(side' = "wecom" /\ setup.mode = "unattended")
      BY <2>1, <2>2, <3>2, ReturnLeaves
    <3> QED
      BY <3>1, <3>2
  <2>3. ASSUME Goto("capture") PROVE JdyFirst'
    BY <2>1, <2>3 DEF Goto
  <2> QED
    BY <1>2, <2>2, <2>3, PreflightLeads
<1>3. CASE StartBrowser
  BY <1>3 DEF StartBrowser, Goto
<1>4. CASE StartRaises
  <2>1. UNCHANGED <<setup, cookie>>
    BY <1>4 DEF StartRaises, sessions
  <2>2. Return("raised")
    BY <1>4 DEF StartRaises
  <2>3. side' # "wecom" /\ pending' = "none"
    BY <2>2 DEF Return
  <2> QED
    BY <2>1, <2>3
<1>5. CASE ArtifactAppears
  BY <1>5 DEF ArtifactAppears, Goto, sessions
<1>6. CASE CaptureRaises
  <2>1. UNCHANGED <<setup, cookie>>
    BY <1>6 DEF CaptureRaises
  <2>2. Return("raised")
    BY <1>6 DEF CaptureRaises
  <2>3. side' # "wecom" /\ pending' = "none"
    BY <2>2 DEF Return
  <2> QED
    BY <2>1, <2>3
<1>7. CASE Notify
  BY <1>7 DEF Notify, sessions
<1>8. CASE NotifyRaises
  BY <1>8 DEF NotifyRaises, Finally, sessions
<1>9. CASE RefreshFromLive
  BY <1>9 DEF RefreshFromLive, Goto
<1>10. CASE RefreshByCommand
  BY <1>10 DEF RefreshByCommand, EndRound, Finally, Goto
<1>11. CASE RefreshRaises
  BY <1>11 DEF RefreshRaises, EndRound, Finally, sessions
<1>12. CASE HealthRestored
  BY <1>12 DEF HealthRestored, Goto, sessions
<1>13. CASE HealthNotRestored
  BY <1>13 DEF HealthNotRestored, EndRound, Finally, sessions
<1>14. CASE PreflightAgain
  BY <1>14 DEF PreflightAgain, Finally, sessions, PreflightResults, MissingCookie
<1>15. CASE Close
  <2>1. UNCHANGED <<setup, cookie>> /\ Return(pending)
    BY <1>15 DEF Close
  <2> QED
    BY <2>1, ReturnLeaves
<1>16. CASE WorkerDies
  BY <1>16 DEF WorkerDies
<1>17. ASSUME NEW s \in Sides, LiveExport(s) PROVE JdyFirst'
  BY <1>17 DEF LiveExport, Exported, run
<1>18. ASSUME NEW s \in Sides, BrowserExits(s) PROVE JdyFirst'
  BY <1>18 DEF BrowserExits, Exported, SetBrowser, run
<1>19. ASSUME NEW s \in Sides, ExportAges(s) PROVE JdyFirst'
  BY <1>19 DEF ExportAges, run
<1>20. ASSUME NEW s \in Sides, Scan(s) PROVE JdyFirst'
  BY <1>20 DEF Scan, run
<1>21. ASSUME NEW s \in Sides, Expire(s) PROVE JdyFirst'
  BY <1>21 DEF Expire, run
<1>22. CASE UNCHANGED recoveryVars
  BY <1>22 DEF recoveryVars, sessions, run
<1> QED
  BY <1>1, <1>2, <1>3, <1>4, <1>5, <1>6, <1>7, <1>8, <1>9, <1>10, <1>11, <1>12, <1>13,
     <1>14, <1>15, <1>16, <1>17, <1>18, <1>19, <1>20, <1>21, <1>22
     DEF RecoveryNext, RunStep

\* An export is made of the profile as it is.
LEMMA ExportStep ==
    ASSUME RecoveryTypeOK, ExportIsLive, [RecoveryNext]_recoveryVars
    PROVE  ExportIsLive'
<1> USE TypeParts DEF SessionsTyped, RunTyped, ExportIsLive, Sides
<1>1. CASE Dispatch
  BY <1>1 DEF Dispatch, sessions
<1>2. CASE Preflight
  BY <1>2 DEF Preflight, sessions
<1>3. CASE StartBrowser
  BY <1>3 DEF StartBrowser, sessions
<1>4. CASE StartRaises
  BY <1>4 DEF StartRaises, sessions
<1>5. CASE ArtifactAppears
  BY <1>5 DEF ArtifactAppears, sessions
<1>6. CASE CaptureRaises
  BY <1>6 DEF CaptureRaises, sessions
<1>7. CASE Notify
  BY <1>7 DEF Notify, sessions
<1>8. CASE NotifyRaises
  BY <1>8 DEF NotifyRaises, sessions
<1>9. CASE RefreshFromLive
  BY <1>9 DEF RefreshFromLive, sessions
<1>10. CASE RefreshByCommand
  BY <1>10 DEF RefreshByCommand, Exported
<1>11. CASE RefreshRaises
  BY <1>11 DEF RefreshRaises, sessions
<1>12. CASE HealthRestored
  BY <1>12 DEF HealthRestored, sessions
<1>13. CASE HealthNotRestored
  BY <1>13 DEF HealthNotRestored, sessions
<1>14. CASE PreflightAgain
  BY <1>14 DEF PreflightAgain, sessions
<1>15. CASE Close
  BY <1>15 DEF Close, sessions
<1>16. CASE WorkerDies
  BY <1>16 DEF WorkerDies, sessions
<1>17. ASSUME NEW s \in Sides, LiveExport(s) PROVE ExportIsLive'
  BY <1>17 DEF LiveExport, Exported, run
<1>18. ASSUME NEW s \in Sides, BrowserExits(s) PROVE ExportIsLive'
  BY <1>18 DEF BrowserExits, Exported, SetBrowser, run
<1>19. ASSUME NEW s \in Sides, ExportAges(s) PROVE ExportIsLive'
  BY <1>19 DEF ExportAges, run
<1>20. ASSUME NEW s \in Sides, Scan(s) PROVE ExportIsLive'
  BY <1>20 DEF Scan, run
<1>21. ASSUME NEW s \in Sides, Expire(s) PROVE ExportIsLive'
  BY <1>21 DEF Expire, run
<1>22. CASE UNCHANGED recoveryVars
  BY <1>22 DEF recoveryVars, sessions, run
<1> QED
  BY <1>1, <1>2, <1>3, <1>4, <1>5, <1>6, <1>7, <1>8, <1>9, <1>10, <1>11, <1>12, <1>13,
     <1>14, <1>15, <1>16, <1>17, <1>18, <1>19, <1>20, <1>21, <1>22
     DEF RecoveryNext, RunStep

\* A cookie that polling made work stays live.
LEMMA PolledStep ==
    ASSUME RecoveryTypeOK, QrIsNeeded, ExportIsLive, PolledCookieIsLive, [RecoveryNext]_recoveryVars
    PROVE  PolledCookieIsLive'
<1> USE TypeParts DEF SessionsTyped, RunTyped, QrIsNeeded, ExportIsLive, PolledCookieIsLive, Sides
<1>1. CASE Dispatch
  BY <1>1 DEF Dispatch
<1>2. CASE Preflight
  <2>1. ASSUME NEW r \in Results, Return(r) PROVE PolledCookieIsLive'
    BY <2>1, ReturnLeaves
  <2>2. ASSUME Goto("capture") PROVE PolledCookieIsLive'
    BY <2>2 DEF Goto
  <2> QED
    BY <1>2, <2>1, <2>2, PreflightLeads
<1>3. CASE StartBrowser
  BY <1>3 DEF StartBrowser, Goto
<1>4. CASE StartRaises
  BY <1>4, Returning, ReturnLeaves
<1>5. CASE ArtifactAppears
  BY <1>5 DEF ArtifactAppears, Goto
<1>6. CASE CaptureRaises
  BY <1>6, Returning, ReturnLeaves
<1>7. CASE Notify
  BY <1>7 DEF Notify, sessions
<1>8. CASE NotifyRaises
  BY <1>8 DEF NotifyRaises, Finally
<1>9. CASE RefreshFromLive
  BY <1>9 DEF RefreshFromLive, Goto
<1>10. CASE RefreshByCommand
  <2>1. PICK e \in Exported(side) :
          /\ export' = [export EXCEPT ![side] = e]
          /\ e # "empty" => cookie' = [cookie EXCEPT ![side] = e]
          /\ e = "empty" => UNCHANGED cookie
    BY <1>10 DEF RefreshByCommand
  <2>2. UNCHANGED <<setup, profile, side>> /\ stage = "refresh"
    BY <1>10 DEF RefreshByCommand, EndRound, Finally, Goto
  <2>3. CASE profile[side] = "good"
    BY <2>1, <2>2, <2>3 DEF Exported
  <2>4. CASE profile[side] # "good"
    <3>1. e \in {"empty", "dead"} /\ side \in Sides
      BY <2>1, <2>2, <2>4 DEF Exported
    <3>2. CASE e = "empty"
      BY <2>1, <2>2, <2>4, <3>1, <3>2
    <3>3. CASE e = "dead"
      BY <2>1, <2>2, <3>1, <3>3
    <3> QED
      BY <3>1, <3>2, <3>3
  <2> QED
    BY <2>3, <2>4
<1>11. CASE RefreshRaises
  BY <1>11 DEF RefreshRaises, EndRound, Finally, sessions
<1>12. CASE HealthRestored
  BY <1>12 DEF HealthRestored, Goto
<1>13. CASE HealthNotRestored
  BY <1>13 DEF HealthNotRestored, EndRound, Finally, sessions
<1>14. CASE PreflightAgain
  BY <1>14 DEF PreflightAgain, Finally
<1>15. CASE Close
  BY <1>15, Returning, ReturnLeaves
<1>16. CASE WorkerDies
  BY <1>16 DEF WorkerDies
<1>17. ASSUME NEW s \in Sides, LiveExport(s) PROVE PolledCookieIsLive'
  BY <1>17 DEF LiveExport, Exported, run
<1>18. ASSUME NEW s \in Sides, BrowserExits(s) PROVE PolledCookieIsLive'
  BY <1>18 DEF BrowserExits, Exported, SetBrowser, run
<1>19. ASSUME NEW s \in Sides, ExportAges(s) PROVE PolledCookieIsLive'
  BY <1>19 DEF ExportAges, run
<1>20. ASSUME NEW s \in Sides, Scan(s) PROVE PolledCookieIsLive'
  BY <1>20 DEF Scan, run
<1>21. ASSUME NEW s \in Sides, Expire(s) PROVE PolledCookieIsLive'
  BY <1>21 DEF Expire, run
<1>22. CASE UNCHANGED recoveryVars
  BY <1>22 DEF recoveryVars, sessions, run
<1> QED
  BY <1>1, <1>2, <1>3, <1>4, <1>5, <1>6, <1>7, <1>8, <1>9, <1>10, <1>11, <1>12, <1>13,
     <1>14, <1>15, <1>16, <1>17, <1>18, <1>19, <1>20, <1>21, <1>22
     DEF RecoveryNext, RunStep

\* A result that passed stays true, or the lapse is noted, until it is returned.
LEMMA PassedStep ==
    ASSUME RecoveryTypeOK, PassedIsFresh, [RecoveryNext]_recoveryVars
    PROVE  PassedIsFresh'
<1> USE TypeParts DEF SessionsTyped, RunTyped, PassedIsFresh, Passed, Sides
<1>1. CASE Dispatch
  BY <1>1 DEF Dispatch
<1>2. CASE Preflight
  <2>1. ASSUME NEW r \in Results, Return(r) PROVE PassedIsFresh'
    BY <2>1, ReturnLeaves
  <2>2. ASSUME Goto("capture") PROVE PassedIsFresh'
    BY <1>2, <2>2 DEF Preflight, Goto
  <2> QED
    BY <1>2, <2>1, <2>2, PreflightLeads
<1>3. CASE StartBrowser
  BY <1>3 DEF StartBrowser, Goto, Results
<1>4. CASE StartRaises
  BY <1>4, Returning, ReturnLeaves
<1>5. CASE ArtifactAppears
  BY <1>5 DEF ArtifactAppears, Goto, Results
<1>6. CASE CaptureRaises
  BY <1>6, Returning, ReturnLeaves
<1>7. CASE Notify
  BY <1>7 DEF Notify, Results
<1>8. CASE NotifyRaises
  BY <1>8 DEF NotifyRaises, Finally, Results
<1>9. CASE RefreshFromLive
  BY <1>9 DEF RefreshFromLive, Goto, Results
<1>10. CASE RefreshByCommand
  BY <1>10 DEF RefreshByCommand, EndRound, Finally, Goto, Results
<1>11. CASE RefreshRaises
  BY <1>11 DEF RefreshRaises, EndRound, Finally, Results
<1>12. CASE HealthRestored
  BY <1>12 DEF HealthRestored, Goto, Results
<1>13. CASE HealthNotRestored
  BY <1>13 DEF HealthNotRestored, EndRound, Finally, Results
<1>14. CASE PreflightAgain
  <2>1. PICK r \in PreflightResults : pending' = r
    BY <1>14 DEF PreflightAgain, Finally
  <2>2. r \in Passed => \A s \in Sides : cookie[s] = "good"
    BY DEF PreflightResults, MissingCookie
  <2>3. UNCHANGED cookie
    BY <1>14 DEF PreflightAgain, sessions
  <2> QED
    BY <2>1, <2>2, <2>3
<1>15. CASE Close
  BY <1>15, Returning, ReturnLeaves
<1>16. CASE WorkerDies
  BY <1>16 DEF WorkerDies, Results
<1>17. ASSUME NEW s \in Sides, LiveExport(s) PROVE PassedIsFresh'
  BY <1>17 DEF LiveExport, Exported, run
<1>18. ASSUME NEW s \in Sides, BrowserExits(s) PROVE PassedIsFresh'
  BY <1>18 DEF BrowserExits, Exported, SetBrowser, run
<1>19. ASSUME NEW s \in Sides, ExportAges(s) PROVE PassedIsFresh'
  BY <1>19 DEF ExportAges, run
<1>20. ASSUME NEW s \in Sides, Scan(s) PROVE PassedIsFresh'
  BY <1>20 DEF Scan, run
<1>21. ASSUME NEW s \in Sides, Expire(s) PROVE PassedIsFresh'
  BY <1>21 DEF Expire, run
<1>22. CASE UNCHANGED recoveryVars
  BY <1>22 DEF recoveryVars, sessions, run
<1> QED
  BY <1>1, <1>2, <1>3, <1>4, <1>5, <1>6, <1>7, <1>8, <1>9, <1>10, <1>11, <1>12, <1>13,
     <1>14, <1>15, <1>16, <1>17, <1>18, <1>19, <1>20, <1>21, <1>22
     DEF RecoveryNext, RunStep

-----------------------------------------------------------------------------
\* Every step preserves the inductive invariant.
LEMMA InvStep == IInv /\ [RecoveryNext]_recoveryVars => IInv'
<1> SUFFICES ASSUME IInv, [RecoveryNext]_recoveryVars PROVE IInv'
  OBVIOUS
<1>1. RecoveryTypeOK'
  <2>1. SessionsTyped' /\ RunTyped'
    BY SessionsStep, RunStepTyped DEF IInv
  <2>2. (setup \in Setups /\ dispatches \in Nat /\ expiries \in Nat)'
    BY DEF IInv, RecoveryTypeOK, RecoveryNext, RunStep, recoveryVars, bounds,
           Dispatch, Preflight, StartBrowser, StartRaises, ArtifactAppears, CaptureRaises,
           Notify, NotifyRaises, RefreshFromLive, RefreshByCommand, RefreshRaises,
           HealthRestored, HealthNotRestored, PreflightAgain, Close, WorkerDies,
           LiveExport, BrowserExits, ExportAges, Scan, Expire
  <2>3. (setup \in Setups /\ SessionsTyped /\ RunTyped
         /\ dispatches \in Nat /\ expiries \in Nat)'
    BY <2>1, <2>2
  <2> QED
    BY <2>3, Zenon DEF RecoveryTypeOK, SessionsTyped, RunTyped
<1> QED
  BY <1>1, BrowserStep, QrStep, ExhaustedStep, JdyFirstStep, ExportStep, PolledStep, PassedStep
     DEF IInv

\* The inductive invariant holds in every reachable state.
THEOREM RecoveryInvariant == RecoverySpec => []IInv
BY InvInit, InvStep, PTL DEF RecoverySpec

\* Every variable keeps its type, whatever the setups and the bounds.
THEOREM RecoveryTypes == RecoverySpec => []RecoveryTypeOK
BY RecoveryInvariant, PTL DEF IInv

\* Every way out of a run closes the QR browser it opened.
THEOREM BrowsersClosed == RecoverySpec => []BrowserClosed
BY RecoveryInvariant, PTL DEF IInv

\* An unattended run asks for a scan only at the side whose session failed,
\* and at WeCom only once JDY's cookie is there.
THEOREM ScansAreNeeded == RecoverySpec => []QrIsNeeded
BY RecoveryInvariant, PTL DEF IInv

\* A task whose notifications are used up opens no browser.
THEOREM ExhaustedTasksAreQuiet == RecoverySpec => []ExhaustedIsQuiet
BY RecoveryInvariant, PTL DEF IInv

\* No cookie that works is replaced by one that does not.
THEOREM WorkingCookiesKept == RecoverySpec => WorkingCookieKept
<1> DEFINE Kept ==
      setup.mode = "unattended" =>
          \A s \in Sides : cookie[s] = "good" /\ expiries' = expiries => cookie'[s] = "good"
<1>1. ASSUME IInv, [RecoveryNext]_recoveryVars PROVE Kept
  <2> USE <1>1, TypeParts DEF IInv, SessionsTyped, RunTyped, PolledCookieIsLive, Sides
  <2>1. CASE RefreshFromLive
    BY <2>1 DEF RefreshFromLive
  <2>2. CASE RefreshByCommand
    <3>1. PICK e \in Exported(side) :
            /\ e # "empty" => cookie' = [cookie EXCEPT ![side] = e]
            /\ e = "empty" => UNCHANGED cookie
      BY <2>2 DEF RefreshByCommand
    <3>2. stage = "refresh"
      BY <2>2 DEF RefreshByCommand
    <3> QED
      BY <3>1, <3>2 DEF Exported
  <2>3. ASSUME NEW s \in Sides, Expire(s) PROVE Kept
    BY <2>3 DEF Expire
  <2>4. CASE UNCHANGED cookie
    BY <2>4
  <2> QED
    BY <2>1, <2>2, <2>3, <2>4
       DEF RecoveryNext, RunStep, recoveryVars, sessions,
           Dispatch, Preflight, StartBrowser, StartRaises, ArtifactAppears, CaptureRaises,
           Notify, NotifyRaises, RefreshRaises, HealthRestored, HealthNotRestored,
           PreflightAgain, Close, WorkerDies, LiveExport, BrowserExits, ExportAges, Scan
<1>2. IInv /\ [RecoveryNext]_recoveryVars => [Kept]_recoveryVars
  BY <1>1
<1> QED
  BY <1>2, RecoveryInvariant, PTL DEF RecoverySpec, WorkingCookieKept

\* A run passes, and a paused queue is resumed, only with two sessions that
\* worked at the run's last preflight.
THEOREM ReadyRunsAreChecked == RecoverySpec => ReadyIsChecked
<1> DEFINE Checked ==
      (outcome \notin Passed /\ outcome' \in Passed) \/ (paused /\ ~paused') =>
          lapsed \/ \A s \in Sides : cookie[s] = "good"
<1>1. ASSUME NEW r, Report(r), r \notin Passed PROVE Checked
  <2>1. outcome' \notin Passed
    BY <1>1 DEF Report, ReadonlyControl, UnattendedControl
  <2>2. paused => paused'
    BY <1>1, Zenon DEF Report, ReadonlyControl, UnattendedControl
  <2> QED
    BY <2>1, <2>2
<1>2. ASSUME NEW r, Return(r), r \in Passed => lapsed \/ \A s \in Sides : cookie[s] = "good"
      PROVE  Checked
  <2>1. CASE Report(r)
    BY <1>1, <1>2, <2>1
  <2>2. CASE UNCHANGED control
    BY <2>2 DEF control
  <2> QED
    BY <1>2, <2>1, <2>2, ReturnLeaves, Zenon
<1>3. ASSUME IInv, [RecoveryNext]_recoveryVars PROVE Checked
  <2>1. CASE UNCHANGED control
    BY <2>1 DEF control
  <2>2. CASE Dispatch
    <3>1. CASE Report("unexecutable")
      BY <1>1, <3>1 DEF Passed
    <3>2. CASE outcome' = "none" /\ UNCHANGED <<counted, paused>>
      BY <3>2 DEF Passed
    <3> QED
      BY <2>2, <3>1, <3>2 DEF Dispatch
  <2>3. CASE Preflight
    <3>1. ASSUME NEW r \in Results, r \in PreflightResults \/ r = "exhausted", Return(r)
          PROVE  Checked
      <4>1. r \in Passed => \A s \in Sides : cookie[s] = "good"
        BY <3>1 DEF PreflightResults, MissingCookie, Passed, Sides
      <4> QED
        BY <1>2, <3>1, <4>1
    <3> QED
      BY <2>1, <2>3, <3>1, PreflightLeads
  <2>4. CASE StartRaises \/ CaptureRaises
    <3>1. Return("raised") /\ "raised" \notin Passed
      BY <2>4 DEF StartRaises, CaptureRaises, Passed
    <3> QED
      BY <1>2, <3>1
  <2>5. CASE Close
    <3>1. Return(pending)
      BY <2>5 DEF Close
    <3>2. pending \in Passed => lapsed \/ \A s \in Sides : cookie[s] = "good"
      BY <1>3 DEF IInv, PassedIsFresh
    <3> QED
      BY <1>2, <3>1, <3>2
  <2> QED
    BY <1>3, <2>1, <2>2, <2>3, <2>4, <2>5
       DEF RecoveryNext, RunStep, recoveryVars, StartBrowser, ArtifactAppears, Notify,
           NotifyRaises, RefreshFromLive, RefreshByCommand, RefreshRaises, HealthRestored,
           HealthNotRestored, PreflightAgain, WorkerDies, LiveExport, BrowserExits,
           ExportAges, Scan, Expire
<1>4. IInv /\ [RecoveryNext]_recoveryVars => [Checked]_recoveryVars
  BY <1>3
<1> QED
  BY <1>4, RecoveryInvariant, PTL DEF RecoverySpec, ReadyIsChecked
-----------------------------------------------------------------------------
(***************************************************************************)
(* How long a run can still be.  That RunEnds holds is checked by TLC; that *)
(* no path of a run goes round in a circle is proved here.                 *)
(***************************************************************************)

\* The steps an orchestrator has before it at most, at a stage and in a round.
StepsFrom(l, n) ==
    [idle |-> 0, close |-> 1, again |-> 2,
     verify |-> 2 * (MaxPolls - n) + 3,
     refresh |-> 2 * (MaxPolls - n) + 4,
     notify |-> 2 * MaxPolls + 3,
     await |-> 2 * MaxPolls + 4,
     capture |-> 2 * MaxPolls + 5,
     preflight |-> 2 * MaxPolls + 6][l]

\* WeCom's orchestrator may follow JDY's.
StepsAfter(s) == IF s = "jdy" THEN 2 * MaxPolls + 6 ELSE 0

RunLeft == StepsFrom(stage, round) + StepsAfter(side)

\* Every path of a run leads to its end, whatever fails: each polling round is
\* counted, an orchestrator never starts again and JDY's never follows WeCom's.
\* What the browser, the person at the phone and the sessions do meanwhile does
\* not make a run longer.
RunShortens ==
    [][stage # "idle" =>
          /\ RunLeft' <= RunLeft
          /\ RunStep => RunLeft' < RunLeft]_recoveryVars

\* StepsFrom, stage by stage.
LEMMA StepsFromAt ==
    ASSUME NEW n
    PROVE  /\ StepsFrom("idle", n) = 0
           /\ StepsFrom("close", n) = 1
           /\ StepsFrom("again", n) = 2
           /\ StepsFrom("verify", n) = 2 * (MaxPolls - n) + 3
           /\ StepsFrom("refresh", n) = 2 * (MaxPolls - n) + 4
           /\ StepsFrom("notify", n) = 2 * MaxPolls + 3
           /\ StepsFrom("await", n) = 2 * MaxPolls + 4
           /\ StepsFrom("capture", n) = 2 * MaxPolls + 5
           /\ StepsFrom("preflight", n) = 2 * MaxPolls + 6
BY DEF StepsFrom

\* None has more than a whole orchestrator's before it, and none is left only
\* where there is no run.
LEMMA StepsFromBound ==
    ASSUME NEW l \in Guarded \cup {"idle", "preflight", "capture", "await"},
           NEW n \in 0..MaxPolls
    PROVE  /\ StepsFrom(l, n) \in Nat
           /\ StepsFrom(l, n) <= 2 * MaxPolls + 6
           /\ l # "idle" => StepsFrom(l, n) > 0
BY RecoveryAssumption, StepsFromAt DEF Guarded

\* A step of the run brings it nearer to its end.
LEMMA RunGoesOn ==
    ASSUME RecoveryTypeOK, RecoveryTypeOK', RunStep
    PROVE  RunLeft' < RunLeft
<1> DEFINE left == StepsFrom(stage, round)
           leftNext == StepsFrom(stage', round')
<1>a. /\ MaxPolls \in Nat \ {0} /\ RunTyped
      /\ round \in 0..MaxPolls /\ round' \in 0..MaxPolls
      /\ left \in Nat /\ leftNext \in Nat /\ leftNext <= 2 * MaxPolls + 6
      /\ stage # "idle" => left > 0
  <2>1. MaxPolls \in Nat \ {0} /\ RunTyped /\ RunTyped'
    BY TypeParts, RecoveryAssumption DEF RecoveryTypeOK, RunTyped
  <2> QED
    BY <2>1, StepsFromBound DEF RunTyped
<1>b. RunLeft = left + StepsAfter(side) /\ RunLeft' = leftNext + StepsAfter(side')
  BY DEF RunLeft
<1> HIDE DEF left, leftNext
<1>c. /\ StepsAfter("none") = 0 /\ StepsAfter("wecom") = 0
      /\ StepsAfter("jdy") = 2 * MaxPolls + 6
      /\ \A s : StepsAfter(s) \in Nat
  BY <1>a DEF StepsAfter
<1>1. ASSUME NEW r, Return(r), stage # "idle"
      PROVE  RunLeft' < RunLeft
  <2>1. CASE stage' = "idle" /\ side' = "none"
    <3>1. leftNext = 0
      BY <2>1, StepsFromAt DEF leftNext
    <3>2. StepsAfter(side) \in Nat /\ StepsAfter(side') = 0
      BY <1>c, <2>1
    <3> QED
      BY <1>1, <1>a, <1>b, <3>1, <3>2
  <2>2. CASE side = "jdy" /\ side' = "wecom"
    BY <1>1, <1>a, <1>b, <1>c, <2>2
  <2> QED
    BY <1>1, <2>1, <2>2, ReturnLeaves
<1>2. ASSUME side' = side, leftNext < left
      PROVE  RunLeft' < RunLeft
  <2>1. StepsAfter(side') = StepsAfter(side) /\ StepsAfter(side) \in Nat
    BY <1>2, <1>c
  <2> QED
    BY <1>2, <1>a, <1>b, <2>1
<1>3. ASSUME NEW r, Finally(r), stage \in {"notify", "refresh", "verify", "again"}
      PROVE  RunLeft' < RunLeft
  <2>1. side' = side /\ leftNext = 1
    BY <1>3, StepsFromAt DEF Finally, leftNext
  <2>2. left > 1
    BY <1>3, <1>a, StepsFromAt DEF left
  <2> QED
    BY <1>2, <2>1, <2>2
<1>4. ASSUME EndRound, stage \in {"refresh", "verify"}
      PROVE  RunLeft' < RunLeft
  <2>1. CASE round < MaxPolls
    <3>1. stage' = "refresh" /\ round' = round + 1 /\ side' = side
      BY <1>4, <2>1 DEF EndRound
    <3>2. leftNext = 2 * (MaxPolls - (round + 1)) + 4
      BY <3>1, StepsFromAt DEF leftNext
    <3>3. left >= 2 * (MaxPolls - round) + 3
      BY <1>4, <1>a, StepsFromAt DEF left
    <3> QED
      BY <1>2, <1>a, <3>1, <3>2, <3>3
  <2>2. CASE Finally("waiting")
    BY <1>3, <1>4, <2>2
  <2> QED
    BY <1>4, <2>1, <2>2 DEF EndRound
<1>5. ASSUME NEW l, Goto(l)
      PROVE  stage' = l /\ side' = side /\ round' = round
  BY <1>5 DEF Goto
<1>6. CASE Preflight
  <2>1. stage = "preflight"
    BY <1>6 DEF Preflight
  <2>2. ASSUME Goto("capture")
        PROVE  RunLeft' < RunLeft
    <3>1. leftNext = 2 * MaxPolls + 5 /\ left = 2 * MaxPolls + 6
      BY <1>5, <2>1, <2>2, StepsFromAt DEF left, leftNext
    <3> QED
      BY <1>2, <1>5, <1>a, <2>2, <3>1
  <2> QED
    BY <1>1, <1>6, <2>1, <2>2, PreflightLeads
<1>7. CASE StartRaises \/ CaptureRaises \/ Close
  <2>1. stage # "idle"
    BY <1>7 DEF StartRaises, CaptureRaises, Close
  <2> QED
    BY <1>1, <1>7, <1>a, <2>1, Returning
<1>8. CASE StartBrowser \/ ArtifactAppears \/ Notify
  <2>1. \/ stage = "capture" /\ stage' = "await" /\ side' = side
        \/ stage = "await" /\ stage' = "notify" /\ side' = side
        \/ stage = "notify" /\ stage' = "refresh" /\ side' = side /\ round' = 1
    BY <1>5, <1>8 DEF StartBrowser, ArtifactAppears, Notify
  <2>2. leftNext < left
    BY <1>a, <2>1, StepsFromAt DEF left, leftNext
  <2> QED
    BY <1>2, <2>1, <2>2
<1>9. CASE RefreshFromLive \/ RefreshByCommand \/ RefreshRaises
  <2>1. stage = "refresh" /\ (Goto("verify") \/ EndRound)
    BY <1>9 DEF RefreshFromLive, RefreshByCommand, RefreshRaises
  <2>2. ASSUME Goto("verify")
        PROVE  RunLeft' < RunLeft
    <3>1. leftNext = 2 * (MaxPolls - round) + 3 /\ left = 2 * (MaxPolls - round) + 4
      BY <1>5, <2>1, <2>2, StepsFromAt DEF left, leftNext
    <3> QED
      BY <1>2, <1>5, <1>a, <2>2, <3>1
  <2> QED
    BY <1>4, <2>1, <2>2
<1>10. CASE HealthRestored
  <2>1. stage = "verify" /\ stage' = "again" /\ side' = side
    BY <1>5, <1>10 DEF HealthRestored
  <2>2. left = 2 * (MaxPolls - round) + 3 /\ leftNext = 2
    BY <2>1, StepsFromAt DEF left, leftNext
  <2> QED
    BY <1>2, <1>a, <2>1, <2>2
<1>11. CASE HealthNotRestored
  BY <1>4, <1>11 DEF HealthNotRestored
<1>12. CASE NotifyRaises \/ PreflightAgain
  BY <1>3, <1>12 DEF NotifyRaises, PreflightAgain
<1> QED
  BY <1>6, <1>7, <1>8, <1>9, <1>10, <1>11, <1>12 DEF RunStep

\* From any stage a run is over after a bounded number of its own steps, for
\* any deadline and any limit of notifications.
THEOREM RunsGetShorter == RecoverySpec => RunShortens
<1>1. ASSUME RecoveryTypeOK, RecoveryTypeOK', [RecoveryNext]_recoveryVars, stage # "idle"
      PROVE  RunLeft' <= RunLeft /\ (RunStep => RunLeft' < RunLeft)
  <2>a. RunLeft \in Nat /\ RunLeft' \in Nat
    <3>1. MaxPolls \in Nat \ {0} /\ RunTyped /\ RunTyped'
      BY <1>1, TypeParts, RecoveryAssumption DEF RecoveryTypeOK, RunTyped
    <3>2. StepsFrom(stage, round) \in Nat /\ StepsFrom(stage', round') \in Nat
      BY <3>1, StepsFromBound DEF RunTyped
    <3>3. \A s : StepsAfter(s) \in Nat
      BY <3>1 DEF StepsAfter
    <3> QED
      BY <3>2, <3>3 DEF RunLeft
  <2>1. CASE RunStep
    BY <1>1, <2>1, <2>a, RunGoesOn
  <2>2. CASE WorkerDies
    <3>1. stage' = "idle" /\ side' = "none"
      BY <2>2 DEF WorkerDies
    <3>2. StepsFrom(stage', round') = 0 /\ StepsAfter(side') = 0
      BY <3>1, StepsFromAt DEF StepsAfter
    <3>3. RunLeft' = 0
      BY <3>2 DEF RunLeft
    <3> QED
      BY <2>1, <2>a, <3>3
  <2>3. CASE UNCHANGED run
    <3>1. RunLeft' = RunLeft
      BY <2>3 DEF run, RunLeft
    <3> QED
      BY <2>1, <2>a, <3>1
  <2> QED
    BY <1>1, <2>1, <2>2, <2>3
       DEF RecoveryNext, Dispatch, LiveExport, BrowserExits, ExportAges, Scan, Expire,
           recoveryVars
<1>2. RecoveryTypeOK /\ RecoveryTypeOK' /\ [RecoveryNext]_recoveryVars =>
        [stage # "idle" => RunLeft' <= RunLeft /\ (RunStep => RunLeft' < RunLeft)]_recoveryVars
  BY <1>1
<1> QED
  BY <1>2, RecoveryTypes, PTL DEF RecoverySpec, RunShortens
=============================================================================
