# A TLA+ model of RPA_GROUP

The repository holds two generations of one product: the **legacy RPA service** (`RPA.py`, `queue_worker.py`,
`database.py`), one process that creates WeCom/DingTalk groups and sends messages by operating a desktop, and the
**new platform** (`rpa_platform/`), a task server with workers that binds JianDaoYun (JDY) enterprises to WeCom apps
through back-office calls. This directory models how both share state: their task tables, claims, pauses, retries and
failures. It leaves out what only one thread of one process ever sees (desktop automation, message texts, HTML pages).

Paths below are relative to `src/`.

## 1. Inventory

| Component | State it keeps | Operations | What is hard about it | What makes it correct |
|---|---|---|---|---|
| Task state machine (`rpa_platform/domain/state_machine.py`) | none: an enumeration and a table | `ensure_task_transition` | almost no writer consults it | statuses move along the table; terminal means terminal |
| Platform store (`storage/sqlite_store.py`) | tables `tasks`, `robots`, `manual_actions`, `task_steps`, `task_artifacts`, `flow_templates`, `flow_versions` | create, claim, set status, merge context, resume, robot status, flow versions | each method is one transaction, its callers make sequences of them; several processes | a claim is exclusive; what callers write in sequence stays consistent |
| Scheduler and bind runner (`worker/scheduler.py`, `worker/wecom_bind_runner.py`, `services/wecom_bind_service.py`) | local variables of a call | claim, start bind, park five minutes, submit the order, park two more, fail | crash or exception between any two calls; the same task is claimed twice by design | one worker per task, one online order per task, success only if WeCom accepted it |
| Server routes (`server/app.py`, `webhook_service.py`, `task_routes.py`) | a request between two store calls | webhook, manual action, resume | thread pool next to workers; check and write are apart | an administrator's action neither lets a second worker in nor is lost |
| Flow catalogue (`server/flow_routes.py`, `domain/flow_steps.py`, `default_flows.py`, store 197-421) | templates, their versions and two pointers | create, draft, copy, publish, roll back, create a task | a SELECT before the first write is outside the transaction, so requests overlap | one published version; numbers without gaps; a task keeps a released snapshot |
| Hybrid runner (`worker/hybrid_runner.py`) | the task's context | run the snapshot's steps, pause for a person, check a review, go online | its branches on waiting statuses meet the claim's `checking_login`; an exception leaves task and robot as they are | one robot per task; a review that comes due is read, not submitted again |
| Fake runner, login health (`worker/runner.py`, `login_health.py`) | local | simulate, health check | a failed check must park the task and free the robot | waiting for a login is resumable |
| Unattended real write (`worker/wecom_bind_unattended_write.py`, `scripts/dev/run_wecom_bind_real_write.py`, `check_wecom_bind_real_readonly.py`) | lock file, context file per task | preflight, start or recover a bind, submit | a run may die at any call; two runs may start together | one writer at a time; completed means submitted and stays so; JDY and WeCom hold the same secret |
| Login recovery (`worker/wecom_login_recovery.py`, `wecom_bind_real_recovery.py`) | two cookie files, two exports, two browser profiles; phase and round | preflight, show QR, notify, wait, export cookies, probe, preflight again | a browser process of its own that outlives its worker, old exports, timeouts, two sites in a chain, a limit that C360 counts | ready only after a passing preflight; a working cookie stays; no needless scan; always ends |
| C360 worker (`worker/c360_*.py`, `wecom_bind_recovery_handler.py`) and its forerunner (`worker/websocket_*.py`) | connection, current dispatch | connect, greet, receive, accept, progress, handle, result, reconnect | lost connection at any message | a dispatch is answered, and all that is said of it arrives in order |
| Back-office clients (`integrations/`) | none | unique match, privilege check, orders | answers that look like success | the checks accept only what they should |
| Legacy queue (`queue_worker.py`, `database.py`) | tables `tasks`, `queue_state` | poll, pick, mark, execute, report, recover | a thread reading and writing in separate transactions | nothing lost, nothing run too often, a pause holds |
| Legacy service (`RPA.py`) | same tables; desktop | submit, retry, resume, forced resume, risk-control monitor | three threads and restarts | a retry keeps the work; a link ends the pause it was sent for |
| Redaction, drivers, diagnostics, scripts | none shared | | | |

Interactions. *Platform*: the webhook inserts a task; a worker process polls `run_once`, which claims a row in one
`BEGIN IMMEDIATE` transaction and calls a runner; the runner talks to the back offices and writes the row call by
call; administrators write the same row through the routes. All share the SQLite file and nothing else. *Legacy*: HTTP
handlers insert rows on the event loop; the worker thread takes them one by one; the monitor thread sets the pause
flag and sends a link whose token a handler checks. A restart resets `running` rows.

`PROJECT.json` lists the hazards at their lines.

## 2. Modules

| Module | Models | State | Actions |
|---|---|---|---|
| `TaskStateMachine` | `state_machine.py`, the resume targets | none | operators `Allowed`, `CanTransition`, `ResumeTarget` |
| `PlatformStore` | the transactions of `SQLiteStore` | one function per column that matters: `status`, `assigned`, `check` (`next_check_at`), `attempts`, `born` (`created_at`), `orderId` (the `auditorderid` of the context), `openActions`, `robotRow` | one operator per store method, used by the modules below as the body of a step |
| `BindRunner` | `TaskScheduler.run_once` with `WecomBindServiceRunner` and the service | `pc`, `job` per worker; `made`, `submits`, `accepted` are WeCom's side | one action per store call or back-office call of `run_claimed_task` |
| `OrderLease` | no code: the promise about a task's online order | `holder`, `stage` | take, create, put online, leave |
| `AdminRoutes` | `BindRunner` next to the two writing routes | `action`, `resume`: requests between their two store calls | first and second call of each route |
| `LegacyQueue` | the legacy worker, monitor, handlers and restart | the two tables, `pc`, `cur`, `outcome`, `handler`, and history variables | one action per call of `database.py` |
| `UnattendedWrite` | the unattended write, its lock file and its context files | `lock`, `file`; `place`, `task`, `ctx` per worker; `jdySecret`, `wecomSecret`, `orders`, `online` are the back offices' side | one action per file operation or back-office call that writes; a call may raise with or without its effect |
| `C360Runtime` | `C360WorkerRuntime` under `_run_forever`, the dispatch by kind and the messages of each result | `conn`, `inbox`, `wire`: the connection; `phase`, `serving`, `pos`, `sent`: the worker in `_handle_dispatch`; `kinds`, `told`: what the control plane dispatched and has got | the steps of one cycle: connect, greet, receive, send on the websocket, post by HTTP, handle; each send may fail; the network delivers and closes |
| `LoginRecovery` | the preflight and both login orchestrators in their chain, the QR browser, what a handler reports and C360 does with it | `cookie`, `export`, `profile`, `browser` per side; `stage`, `side`, `round`, `notified`, `pending`: the run; `outcome`, `counted`, `paused`: C360's view | one action per phase of `WecomLoginRecoveryOrchestrator.run` and way out of it; the browser exports and exits by itself, people scan, sessions end, the worker dies |
| `FlowCatalog` | the flow routes, the version tables, task creation | `templates`, `flowOf`, `number`, `release`, `script`, `published`, `draft`, `snapshot`; `insertion`, `hook`: requests after their SELECT | each SELECT and each write transaction of a handler |
| `FlowReleases` | no code: the promise about a flow's releases | `count`, `released`, `live`, `runs` | draft, release, start |
| `HybridRunner` | `TaskScheduler.run_once` with `HybridFlowRunner` or `FakeRunner`, next to `FlowCatalog`, over `PlatformStore` | `at`, `job`, `next` per worker; `context`; `reviews` is WeCom's side | one action per store call others can see and per outcome of a step |
| `MCDeployments` | nothing: puts `LoginRecovery` and `HybridRunner` in one run | `deployment`: which of the two a behaviour is about; the other one's variables keep their initial values | either component's |
| `MCBindings` | nothing: puts `BindRunner` and `UnattendedWrite`, the two ways to a binding, in one run | `path`: which of the two is at work | either module's |
| `MCWorkers` | nothing: puts `BindRunner` and `C360Runtime` in one run | `loop`: which of the two is at work | either module's, with its fairness |
| `*_proofs` | | | theorems, section 5 |
| other `MC*` | instances for TLC | | |

Names follow the code. A definition whose comment starts with "Mutant of" is a faulty variant of the definition it
precedes; no specification uses it. Each is there to show that some property notices that fault when the variant takes
the definition's place.

Abstractions worth knowing:

- A task is its idempotency key; the times `next_check_at` and `created_at` are reduced to the comparisons the claim
  makes. `task_steps` rows and `current_step_key` are written and never read back by this code, so they are left out.
- `start_bind` is one step. Its calls before `order/add` change JDY and WeCom but no shared table, and a repeated run
  repeats them; what the properties tell apart is whether an order was created.
- A store call that raises inside a `try` is an action (`SubmitPathRaises`, `StoreRaises`); one that raises outside is
  like a crash of the call (`Abandon`): the rows stay as they are.
- In the legacy service handlers are `async` functions without `await`: at most one is between two database calls
  (`handler`). Threads interleave with it freely.
- In `C360Runtime` a dispatch is a number in the order of dispatch: one task dispatched twice is two of them. A
  message is its dispatch and its place in what is said of it (`Script`). A handler is one step with an outcome; what
  it does meanwhile is `UnattendedWrite`. Close and delivery can come before or after it, which is all a worker sees
  whose handler blocks the event loop. A message the websocket took may never arrive. The `kinds` of a run are chosen
  so that the short, the long and the failing scripts occur.
- In `LoginRecovery` a cookie file is missing, dead or good, and so is what a browser exports, which may also be half
  written or empty. A session that ends, ends in every copy of its cookies. Times are gone but for the number of
  polling rounds (`MaxPolls`, the deadline divided by the interval). The environment variables that carry a cookie are
  unset, those that name a cookie file (`JDY_ADMIN_COOKIE_FILE`, `WECOM_ADMIN_COOKIE_FILE`) are set to one file per
  side, as in the runbook (`docs/rpa_platform_windows_websocket_runbook.md:158`, `:699`), and each side has a profile
  of its own. With a file variable unset the preflights of the two orchestrators resolve the file differently
  (`wecom_bind_real_recovery.py:187`, `:252`); the model and `QrIsNeeded` do not speak of that configuration.
- In `UnattendedWrite` an app may be new, or be known to JDY and configured at WeCom with any secret (`Apps`). A
  secret stands for a token with its AES key. `ReadOwner` leaves open whether JDY returns the secret it holds to an
  owner who can update it: if it does the secret is used again, if not (the owner can bind, or the answer has no
  token or key) a new one is installed over it. A `wecomSecret` of 0 is an app without development info or with the
  URLs of something else: both are saved over. `CreateOrder` records the status that `order/add` returns
  (`run_wecom_bind_real_write.py:282`) as that of an order that is not online: the runbook
  (`docs/jdy_wework_bind_full_flow_runbook.md:523`) says it is 1, and a completed task is told by 5.
- In `FlowCatalog` the steps of a version never change, so a snapshot is the row it was taken from. The list of
  actions of a step is all that `HybridRunner` needs; a disabled step is one that is not there.
- `HybridRunner` has no administrators: a resumed task is never claimed again, and races with the routes are the
  subject of `AdminRoutes`. `FakeRunner` is built by tests only.

## 3. Runs

`tlc -config <run>.cfg <module>`; CHECK_DEADLOCK is off for the platform modules, where every task may be finished,
and on for `LegacyQueue`, which always polls or can be resumed.

| Run | Question | Bounds, and why they suffice |
|---|---|---|
| `bindings` | platform: can two workers, crashing and refused at any call, create a second order (`OneOrder`), submit too early or too often (`SubmitsFollowDelay`), touch a finished task (`TerminalAbsorbing`), or do anything `OrderLease` does not allow (`ImplementsLease`)? No. Unattended write: can two writes run together (`OneWriter`), a run report a secret that JDY does not hold (`RecordedIsInstalled`) or save one at WeCom (`SavedIsInstalled`), a completed task have no submitted order (`CompletedIsOnline`) or be written again (`CompletedIsFinal`)? No, crashes and failing file writes included | platform: 2 tasks, 2 robots: a conflict needs two workers on one task, priorities need two tasks; 2 claims of a parked task: one refused, one accepted. Write: 2 workers, 2 tasks, 3 dispatches: a task can fail, be run again while the other worker competes for the lock, complete, and be dispatched once more; an app is new, configured with a secret unknown to JDY, or with another than JDY's |
| `workers_liveness` | bind workers: does every task settle (`TasksSettle`) and every robot come back (`RobotsComeBack`)? Yes, store errors on the submit path included; not after a crash, which leaves the row and the robot stuck by design of the code, and not for an order WeCom refuses for ever. C360 worker: does all that is said of a dispatch reach the control plane (`ServedIsReported`), in order although it goes by two channels (`EventsInOrder`), and is every dispatch answered (`DispatchesAnswered`)? Yes, unless HTTP failed on one of its messages, the process died over it, or its connection ended before it was read | bind workers: 2 tasks, 2 robots, 2 claims of a parked task, as in `bindings`. C360: 2 dispatches: one in hand and one waiting; 2 faults: a closed connection with a failed post or a crash, or two closings; 2 kinds, whose handlers between them end with every length of script and with an exception |
| `routes_safety` | can administrators let a second worker in (`ServedByOne`) or fake a success (`SuccessIsAccepted`)? No, store errors included. That they cause no extra submission either is proved (`RoutesSubmits`), and checked in `bindings` without them | 1 task, 2 robots, 2 concurrent requests: the races are per row, and two requests can be between their calls at the same time |
| `routes_second_order` | can they cause a second online order? Yes (below) | 1 task, 1 robot, 1 request |
| `routes_resume_stranded` | is a resumed task taken up again? No (below) | the same, fair |
| `legacy_safety` | is a row run too often (`RunsBounded`), a retry lost (`RetriedHasCopy`), a row overtaken (`NoOvertaking`), a pause ignored (`PauseHolds`)? No, failing database calls and a restart included | 3 rows (a row, its copy, another), 1 alert, 1 restart |
| `legacy_liveness` | does every row come to an end (`TasksEnd`), and is a running row always the worker's (`RunningIsServed`)? Yes, if the database answers | 2 rows, 1 alert, 1 restart |
| `legacy_retry_twice` | can a row be retried twice? Yes (below) | 3 rows |
| `write_secrets_differ` | do JDY and WeCom hold the same secret once a task is completed (`SecretsAgree`)? No (below) | 1 task, 2 workers, 2 dispatches, no faults but calls that raise; an app that is new or configured with a secret unknown to JDY |
| `deployments` | login recovery: does every run end (`RunEnds`) with its browser closed (`BrowserClosed`), is it ready only if the last preflight passed (`ReadyIsChecked`), does it keep a cookie that works (`WorkingCookieKept`), ask for a scan only where one is needed (`QrIsNeeded`) and stop at the limit (`ExhaustedIsQuiet`)? Platform: do pointers and numbers of a flow agree (`PointersAgree`, `NumbersInOrder`), does a task keep a released snapshot (`SnapshotReleased`, `SnapshotFixed`), has it one robot (`OneRobotPerTask`), and do flows and tasks do only what `FlowReleases` allows (`ImplementsReleases`)? Yes | recovery: 4 ways to start a worker, 2 rounds, 1 notification, 2 dispatches, 1 session that ends: a first round can fail and the second succeed, the limit is met by the second dispatch, and a session can end at any point. Platform: 1 flow, 2 step lists (the default flow, one without a review), 2 editors and 2 webhooks at once, 2 versions, 1 task, a hybrid and a fake robot, 1 check that comes due |
| `review_unanswered` | is a review submitted once (`SubmittedOnce`), and then only read? No (below) | as the platform of `deployments`, with two hybrid robots: 1 check that comes due |
| `runtime_refused` | does the worker end the cycle over a message that neither channel took? No (below) | 1 dispatch, 1 closing, 1 failed post |

`bindings`, `workers_liveness` and `deployments` are sums and not products: their two components share no state in
this code, so a behaviour is about one of them from its first state on, and the other's variables stay as they are.
Every property speaks of one component and holds of the other because it stands still; a mutant of the one it speaks
of breaks it. `MCWorkers` owes fairness to the loop at work only: the other would be obliged to move.

`bindings` sets `Overlap` to FALSE: a task is dispatched to one worker at a time, as the runbook asks
(`docs/rpa_platform_windows_websocket_runbook.md:739`). The code does not enforce it. With `Overlap` TRUE, TLC finds
`CompletedIsFinal` violated: the context is looked at before the lock is taken, so of two runs of one task the second
can pass the check, wait while the first completes it, and write it again with a second order (`CheckContext`,
`AcquireLock`); and `RecordedIsInstalled`, because that second run may install another secret at JDY while the context
still says 'completed'. The other properties of `UnattendedWrite` hold, and are proved, for both values.

Six runs show a disagreement between the code and what its tests, messages or documents say; TLC must find each
violated, and `PROJECT.json` quotes both sides.

- `routes_second_order`: a manual action between the claim of a parked task and the runner's own read of the status
  makes the runner start the bind again, although the context holds an order.
- `routes_resume_stranded`: `resume_task` writes `checking_login` or `running`, which no claim selects.
- `legacy_retry_twice`: the only memory of a retry is the status `retried`, which the worker overwrites.
- `write_secrets_differ`: whether a secret is installed at JDY is decided by JDY's answer, whether it is saved at
  WeCom by what is there. An app that is configured already keeps its secret while JDY gets a new one, and the task is
  completed with two secrets, against the runbook (`docs/jdy_wework_bind_full_flow_runbook.md:304`). A test
  (`tests/test_platform_wecom_bind_real_write.py:326`) ends like this and takes it for a success. From a new app two
  runs do the same: the first fails after it saved its secret, the second gets no token from JDY. What does hold is
  that the reported secret is JDY's and that a secret is JDY's when it is saved (run `bindings`).
- `review_unanswered`: a claim writes `checking_login` (`sqlite_store.py:783`), so the runner never meets the status
  whose branch reads the review (`hybrid_runner.py:24`), runs the flow from its first step and submits the review
  again at each check. The design (`docs/rpa_platform_refactor_design.md`, 5.7) has it read the review and park the
  task or put it online. The tests of these branches (`tests/test_platform_hybrid_runner.py:169`, `:194`) call the
  runner without a claim.
- `runtime_refused`: `reported` is assigned the reporter's coroutine before it is awaited. If the post raises, the
  coroutine is still there and counts as true, so the error of the websocket is not raised: with both channels gone
  the worker goes on and runs the handler of a task it could not even accept. The tests of the reporter only let it
  succeed.

Others of the same kind, visible in the modules and not given a run: `create_manual_action` sets a waiting status on a
finished task, against the transition table (`ApplyAction` has no guard; `TerminalAbsorbing` is therefore stated of
the workers); a worker overwrites the status a manual action set, after which that action cannot be continued
(`ReadResume` finds no resumable status); the bind runner goes from `checking_login` straight to `success` or back to
`waiting_wecom_online_delay`, which the table does not list as its successors; a row retried between the legacy
worker's read and its mark is executed as well as its copy (`MarkRunning` looks at nothing); and `resume_queue`
verifies a link in one transaction and lifts whatever pause there is in another (`CheckToken`, `ResumeByToken`); an
unattended run that is repeated creates another order although the context of the failed one holds an `auditorderid`
(`CreateOrder`). An unattended run that succeeds once the login is back sends no `queue_control` (`Progress`): if an
earlier run paused the queue, only a read-only run resumes it (`UnattendedControl`).

Of the login recovery, also without a run of their own:

- A read-only worker whose JDY cookie is missing takes the missing file for WeCom's (`MissingCookie`): it asks for a
  WeCom scan and may replace a working WeCom cookie by an export of the login page. `QrIsNeeded` and
  `WorkingCookieKept` are therefore stated of unattended runs. The runbook (line 690) wants JDY's code first, which an
  unattended run does except when JDY's file is dead and WeCom's is missing.
- Both orchestrators count notifications in one number (`counted`), so scans for JDY use up WeCom's; a notification
  that raises after one message went out is not counted (`NotifyRaises`). The runbook (line 426) promises no more
  codes after the limit, which `ExhaustedIsQuiet` confirms for what is counted.
- A login that lands after the last round leaves a profile that is logged in and a cookie file that is not: the next
  capture finds no QR code and raises (`CaptureRaises`).
- A worker that dies leaves its browser; until it exits by itself, no other can open the profile (`StartBrowser`), and
  what it exports is read by the next run.

Of the hybrid runner: what `review_unanswered` shows leaves both branches for a waiting status unreachable (two
outcomes of `ReadStatus` and of `LeaveTask`). `_submit_review` does not look at `needs_login` in its answer, so a
task may wait for a review nobody submitted (`SubmitReview`). An exception anywhere in a step leaves the task
`running` and the robot `busy` (`StepRaises`).

Bounds as constants: `MaxChecks` (claims of a waiting task), `MaxAlerts`, `MaxRestarts`, `MaxCalls` and
`MaxDispatches` (dispatches), `MaxFaults` (closings, failed posts and crashes together), `MaxExpiries` (sessions that
end), `MaxVersions` (rows of `flow_versions`). `MaxPolls` and `MaxNotify` are configuration, not bounds. A retry also
needs an unused id in the finite set of ids. `Faults` and `StoreFaults` choose the failures a run admits.

## 4. Fairness

- `WorkerFairness` (run `workers_liveness`): weak fairness of claiming, of the running call and of the clock. Workers
  poll in a loop and their HTTP calls have timeouts, so a call returns or raises. Each fairness condition covers all
  outcomes of a step: no outcome is owed.
- `AdminRoutes!Fairness` adds that a handler which made its first call makes its second. Administrators owe nothing.
- `LegacyQueue!FairSpec`: weak fairness of the worker thread only, a `while True` loop whose exceptions are caught.
  Nobody is obliged to resume a paused queue, so `TasksEnd` ends at a pause.
- `C360Runtime!FairSpec` (run `workers_liveness`): weak fairness of the worker's next step. `_run_forever` catches
  every exception and connects again; a post has a timeout, and handlers end by their own deadlines. The condition
  includes that a connection succeeds in the end (`Connect`); after a crash the restart is the operator's loop around
  the process (runbook line 539). The network owes nothing: a message on the websocket need never arrive.
- `RecoveryFairness` (run `deployments`): weak fairness of the run of a dispatch. Every wait in it has a timeout: the
  picture of the code 30 seconds, the rounds their deadline, the clients theirs; `npm install` and the export command
  have none of their own and are taken to end. All outcomes of a step are one action, so success is not owed: nobody
  has to scan, no session has to last, C360 need not dispatch, and the browser need not export.

`workers_liveness` admits no crash of a bind worker because a crash strands its row for good, and no refusal of
`order/set` because nothing in the code bounds how often it is retried; both are stated here and not hidden behind a
fairness condition. `TasksSettle` also needs finitely many tasks: pending tasks have priority over parked ones.

## 5. Proofs

TLAPS checks, for every value of the constants:

- `BindRunner_proofs`: `RunnerTypeOK`, `ServedByOne`, `SuccessIsAccepted`, `SubmitsFollowDelay`; when `"store"` is not
  among the faults, `OneOrder`, `TerminalAbsorbing`, and that the workers implement `OrderLease` (`ImplementsLease`);
  when `"crash"` is not, that no robot is busy without a call (`RowFitsCall`) and no task rests where no claim finds
  it (`OnItsWay`). A call gets shorter with every step of its own (`CallShortens`).
- `AdminRoutes_proofs`: `TypeOK`, `ServedByOne`, `SuccessIsAccepted` and `SubmitsFollowDelay` with administrators at
  work.
- `LegacyQueue_proofs`: `TypeOK`, `RunsBounded`, `RetriedHasCopy`, `NoOvertaking`, `PauseHolds`, and `RunningIsServed`
  when the database answers. A row with an outcome is never queued or run again (`OutcomesKept`) and has run
  (`OutcomeRan`); a copy is of another row that is still there (`CopyOfARow`).
- `UnattendedWrite_proofs`: `WriteTypeOK`, `OneWriter`, `SavedIsInstalled`, `CompletedIsOnline`, and, when dispatches
  of a task do not overlap, `RecordedIsInstalled` and `CompletedIsFinal`, for whatever JDY and WeCom hold at first. A
  call gets shorter (`CallShortens`).
- `C360Runtime_proofs`: `TypeOK`, `ServedIsReported` and `EventsInOrder`, for any number of dispatches and faults. A
  dispatch is handled once (`HandledOnce`) and never falls between control plane and worker (`NothingLost`); nothing
  is told before it happened (`NothingSaidAhead`) nor before what there is to say of earlier dispatches
  (`OneAfterAnother`); the work on the dispatch in hand gets shorter (`HandShortens`).
- `LoginRecovery_proofs`: `RecoveryTypeOK`, `BrowserClosed`, `QrIsNeeded`, `ExhaustedIsQuiet`, `WorkingCookieKept` and
  `ReadyIsChecked`, for any setups, any deadline and limit, and any number of dispatches and ended sessions; a run
  gets shorter (`RunShortens`).
- `HybridRunner_proofs`: `HybridTypeOK`, `PointersAgree`, `NumbersInOrder`, `SnapshotReleased`, `SnapshotFixed`, and
  `OneRobotPerTask`, for any flows, step lists, robots, tasks and overlapping requests. A claim submits one review at
  most (`OneReviewPerClaim`). A version's steps, number and flow never change (`VersionsFixed`), so a task has one
  list of steps for life (`RunsOneScript`); a call gets shorter (`WorkShortens`); catalogue and tasks implement
  `FlowReleases` (`ImplementsReleases`).
- `Deployments_proofs`: in the composition of `MCDeployments` either process does what it does alone (`RecoverySpec`,
  `HybridSpec`), so all theorems about it hold there too; `TypeOK` follows.

Each safety and action property of the passing runs is stated by one of these theorems; some hold under a condition on
the faults, given above, which the run that checks them meets.

Assumptions: the named ASSUMEs of the modules (finite `Tasks`, values such as `NoRobot` outside the sets they
complete, natural bounds).

Argument for the platform. `ServedByOne` is not inductive: what keeps a second worker out is that the status of a
served task is never one a claim selects (`ServedStatus`), for which only the statuses of the bind flow may occur
(`BindStatus`). `SuccessIsAccepted` needs what a worker on the submit path relies on (`SubmitPath`) and that a
recorded order exists (`RecordedOrder`). `IInv` is their conjunction. With administrators the invariant keeps its
form, because no status a route writes can be claimed. `OneOrder` adds that without store errors a worker that is
recording a failure still has its task to itself (`HeldByOne`) and that the progress of the order can be read off the
worker's position (`OrderProgress`). With store errors it fails: an exception from the last call of the deferred path
makes the worker write `failed` over a task that is no longer its own.

The refinement maps the holder of a task to the one worker in a call for it, and the stage of its order to what WeCom
has (`made`, `accepted`) and whether the task was claimed out of its delay since (`attempts`). It needs one more
invariant, `OnlineIsLeft`: an order that is online is out of reach of every claim, and its worker has only its last
write to do. Each step of a worker then takes a lease, ends one, creates the order, puts it online, or is a stutter.

Without crashes, a call is entered and left together with its row in `robots` (`RowFitsCall`), and a task that is in
no worker's hands has a status a claim selects, waits for its clock, or is finished (`OnItsWay`).

Argument for the legacy queue. A row that may still be executed has used fewer executions than it was granted
(`RunInHand`), the worker's row is never pending once marked (`WorkersRow`), and the copy of a retried row exists
before the mark (`CopyFirst`). `PauseInv`: a worker that has not started its task has not used the one start a pause
allows. `OrderInv`: the row in the worker's hands was the oldest when it was picked, and rows that came later are no
older. `OutcomesKept` and `OutcomeRan` need that the row in the worker's hands has no outcome yet (`HeldIsOpen`).

Argument for the unattended write. The lock makes the state a run works on its own. Inside, the secret in hand is,
from the install on, the one JDY holds, and development info is there once it was saved (`SecretInHand`); the order in
hand exists, and only the last record can say that it is completed (`OrderInHand`). Both survive a run that ends
anywhere, because they speak of runs still inside and of the back offices. `SavedIsInstalled` is `SecretInHand` at the
save. `CompletedIsFinal` adds `OneCallPerTask`: a worker that passed the check of its context works on a task that is
not completed. `RecordedIsInstalled` adds it too: no run installs a secret over that of a completed task.

Argument for the C360 worker. The post follows the websocket's send of the same message before anything else is sent,
so what the websocket carries is never ahead of what HTTP has reported by more than the message itself (`WireBehind`),
and everything up to the worker's position has been told (`ToldSoFar`). That gives the order. For the reports, a
dispatch is left only when its position has reached the end of its script, whose length changes once, when the handler
ends (`OutcomeOfKind`); and a dispatch that was skipped had gone with its connection (`ReadInOrder`). For
`NothingSaidAhead` the invariant says of the messages still under way what the property says of those that arrived
(`AllSaid`); `OneAfterAnother` follows with `ServedIsReported`, since the worker has left the dispatches before.

Argument for the login recovery. `QrIsNeeded` needs that a chain only reaches WeCom with JDY's cookie there
(`JdyFirst`). `WorkingCookieKept` rests on it: a run begins to poll with a cookie that failed, so one that works since
then was copied from an export of this login (`ExportIsLive`: an export is logged in only while its profile is), and
as long as that login lasts no export of before it is left to be copied (`PolledCookieIsLive`). `ReadyIsChecked` needs
that a passing result on its way out was true at the last preflight (`PassedIsFresh`).

Argument for catalogue and hybrid runner. Rows are inserted without a gap (`RowsInOrder`), and a number read by a
request is at most one ahead of the rows of its flow (`PendingNumbers`): if another request took it, the insertion
fails, else it is the next. What a webhook has read was released, and no release is taken back (`HookReleased`). For
the workers, a task in hand has a status no claim selects (`Alone`, `WorkFits`), only some statuses are ever reached
(`Reached`), and the reviews of a task are bounded by the checks that came due, one less while a run has not submitted
yet (`ReviewsFit`).

The refinement of `FlowReleases` maps a flow to how many versions it has, the numbers of those that are or were
published and the number of the one its pointer names, and a task to the number of its snapshot. Inserting a version
is `Draft`, publishing or rolling back is `Release`, inserting a task is `Start`, and all else is a stutter, the
workers' steps included. That the numbers are 1 to the count (`NumbersInOrder`) makes the released number one that
exists; that pointers and snapshots name rows that are there (`PointersAgree`, `SnapshotReleased`) keeps what they are
mapped to when a row is added; and `HookReleased` makes the version of a new task a released one, although the webhook
read it in an earlier step.

Termination. Liveness is out of the prover's reach, its core is not: for a call, a run of the login recovery or a
dispatch in hand there is a number that each step of its own makes smaller, on every path and whatever fails, and that
nobody else's step makes larger (`CallShortens`, twice, `HandShortens`, `RunShortens`, `WorkShortens`). For the bind
runner and the unattended write the number belongs to the position; for the login recovery it counts polling rounds
and the side still to come; for the hybrid runner, the steps of the flow not yet run. The last is a number at all only
because the next step is never more than one behind the last (`NextFits`), which in turn needs that the list of steps
stays the same (`ScriptKept`, as for `RunsOneScript`). So weak fairness of these steps is all that termination takes.

Only model-checked: the five liveness properties (`TasksSettle`, `RobotsComeBack`, `TasksEnd`, `DispatchesAnswered`,
`RunEnds`). They need fairness and so ENABLED, which the proof system does not reach.

## 6. Not modelled

- Desktop and browser drivers, notification texts, the error catalogue, diagnostics, worker identity: one process, no
  shared state, no protocol. What they answer is an outcome of the step that calls them.
- The platform websocket worker (`websocket_*.py`): the forerunner of the C360 worker with the same design; no entry
  point starts it.
- Redaction, and the matching and privilege rules of the back-office clients: pure functions of one document or
  answer, which tests reach.
- Task steps, artifacts and teams of the store, `current_step_key`: written, and read by GET routes only.
- The manual write scripts: they take no lock and are not meant to run next to a worker.
- C360 itself is not in the repository. Its dispatching, counting and pausing are modelled as the worker's messages
  ask for them.
- Hazards without a property: `merge_task_context` under two writers (only the serving worker merges), starvation of
  parked tasks by new ones (no bound in the code, finitely many tasks in the model), a resume link that lifts a newer
  pause, and a failed screenshot before a pause. `PROJECT.json` gives the reason at each.

## 7. What could follow

1. The privilege tree check and redaction as operators against reference definitions.
2. `LoginRecovery` and `C360Runtime` composed, with handlers that are runs and not outcomes, for the pause of a queue
   across several tasks.
