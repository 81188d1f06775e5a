# Verification of the SecAudit platform

TLA+ models of two sides of the platform.  On the server, where several processes
write the same rows: how a run (of a compliance job, a remediation, an inventory
scan, an audit flow) is created, dispatched, executed by a Celery worker, retried,
cancelled, swept and deleted.  In the web console, where a page keeps state of its
own while requests are under way: who is signed in, live logs, terminal, editors,
forms over lists, workflows, and the audit flow page against its server.  TLC
checks the models on small instances; TLAPS proves every safety property that a
passing run checks, and two refinements, for every instance.

Paths below are relative to the repository; `core/` stands for
`packages/secaudit_core/secaudit_core/`.

## 1. The system

| Part | State it keeps | Operations | Talks to |
|---|---|---|---|
| Run state (`core/run_state.py`, `api/app/services/dispatch.py`) | `status` of a run | claim, release, transition, cancel: guarded UPDATEs | database |
| Task outbox (`core/task_outbox.py`) | `task_outbox` rows: status, attempts, lease | enqueue, claim by lease, publish, record, reconcile | database, broker |
| Job and remediation runs (`routers/jobs.py`, `routers/remediations.py`, `tasks/compliance.py`, `tasks/remediation.py`) | runs, results | run, stop, delete; the two Celery tasks | outbox, broker, notifications |
| Sweeper (`core/stale_runs.py`, `tasks/maintenance.py`) | none | three selections of runs to fail, inspection of the workers | database, Celery control |
| Inventory scans (`routers/inventory.py`, `inventory_scan_runner.py`) | scans, hosts, a cancel flag in Redis | create, stop, delete; nmap and SNMP tasks | outbox, Redis |
| Audit flow (`audit_flow_runner.py`, `services/audit_flow.py`, `routers/audit_flow.py`) | runs, hosts, Redis flag and progress | scan, edit hosts, execute, refresh, cancel, delete | broker, job runs |
| Audit flow page (`AuditFlowPage.tsx`, `auditFlowHostState.ts`) | shown run, query cache | poll, optimistic edits, execute, cancel, delete | audit flow API |
| Sign-in (`AuthProvider.tsx`, `api/client.ts`, `LoginPage.tsx`, `clearAuthArtifacts.ts`) | sessionStorage, React state, bearer token, cache | login, refresh, retry after 401, sign-out, reload | auth API, every page |
| Live logs (`JobRunLogs.tsx`, `AuditFlowLogs.tsx`, `RemediationRunLogs.tsx`, `routers/ws.py`) | lines, known keys, socket, timer | connect, poll, merge, reconnect | websocket, Redis channel |
| Console terminal (`ConsoleTerminal.tsx`, `ConsolePage.tsx`) | socket, status, screen | new session, events | websocket |
| Script editors (`ProfilesPage.tsx`, `RemediationPage.tsx`, `PlaybooksPage.tsx`) | draft, dirty flag, cache | open, type, save | API |
| Record forms (eleven panels) | list, form, edited record, address | create, update, delete, edit | API |
| Schedule picker (`jobSchedule.ts`, `JobSchedulePicker.tsx`) | frequency and fields | parse, build, choose | forms of jobs |
| Remediation workflow (`RemediationWorkflowPanel.tsx`, `ReportsPage.tsx`) | workflow per run in sessionStorage | remediate, re-audit, poll | API |
| Directory sync (`directory_sync_runner.py`) | syncs, hosts | claim, search, record | outbox, LDAP |
| Dead letters (`core/dead_letter.py`) | dead letters | record, replay, discard | Celery signals, broker |
| Schedulers (`core/beat_lock.py`, scheduled tasks) | Redis lock, last-run times | lock, start due jobs | outbox |
| Waivers (`services/waivers.py`, `core/waivers.py`) | waivers | request, approve, reject, revoke, expire, match | database |
| Sessions, limits (`auth_sessions.py`, `demo_sessions.py`, `rate_limit.py`) | Redis sets and counters | login, refresh, revoke, count | Redis |
| Host parallelism (`host_parallel.py`) | thread pool | run per host, cancel, collect errors | executors |

`PROJECT.json` lists these and the rest (executors, reports, profiles, other pages,
deployment) with the reason why a part has no model.

**How they interact.**  An API request inserts a run and its outbox row in one
transaction, commits, and tries to dispatch at once; the beat task
`dispatch_outbox` does the same for whatever is left.  The message carries the
run's id.  A worker holds it until its task returns (late acknowledgement), so
every crash may deliver it again.  The status column of the run is the only
thing all of them share: API (stop, delete), dispatcher (fails a run it cannot
publish), worker (claim, outcome, release), sweeper (fails what looks lost).

**What is hard about it.**  The same message may be delivered more than once
(ambiguous publication, redispatch of a run that is merely queued, visibility
timeout, requeue after a crash, autoretry); the second transaction of a
dispatcher does not look at the row again; a task decides its outcome after its
last look at the run; the sweeper judges by an inspection that is over when it
acts; clean-up code runs in tasks that never had the claim.  The hazards are
listed one by one, at their lines, in `PROJECT.json`.

The console's pages call the API through TanStack Query.  A mutation's callbacks are
those of the latest render, so an answer is handled by whatever the page shows by
then; a query's answer goes to the cache under its key, and a write that invalidates
a list starts a query that is under way anew.  Sockets report their end when
another one may have taken their place.  The audit flow has no claim, no lock and no
guarded UPDATE: its task, its handlers and the page meet in one row and one flag.

**What makes it correct.**  A run is executed at most once and by one worker;
it ends, and ends once; what is announced is how it ended; nothing that is
PENDING is forgotten; two dispatchers do not work on one row while their leases
last; a run that is being executed is not taken for lost; an ended scan gets no
more results.  In the console: nothing of a user is left in a tab that was signed
out; what is shown, sent and cached belongs to one user, one run, one record, one
script; what was typed is saved where it belongs and is not lost to a list that is
read again; every line of a log is shown, once; what is shown as running does not
stay so; what a click launches is what was displayed at the click, unless a change of
the same hosts is still under way, or another request, scan or deletion of the run gets
in between (the page does not prevent it, see the defects in section 3).

## 2. Modules

| Module | Models | Kind |
|---|---|---|
| `RunState` | the guarded UPDATEs, as predicates on a status | operators |
| `Outbox` | outbox rows, dispatchers, broker queue | component, extended by the two below |
| `JobRuns` | API, workers, sweeper of job and remediation runs, on `Outbox` | composition |
| `InventoryScans` | API and workers of inventory scans, on `Outbox` | composition |
| `RunPromise` | what a user of the API may rely on for a run | abstract specification |
| `ScanPromise` | the same for an inventory scan, and who scans | abstract specification |
| `Outbox_proofs` | lemmas on the outbox for the next two | proofs |
| `JobRuns_proofs`, `InventoryScans_proofs` | theorems about `JobRuns` and `InventoryScans` | proofs |
| `WebSession_proofs`, `WebConsole_proofs`, `AuditFlow_proofs` | theorems about the module of that name | proofs |
| `ConsoleEditing_proofs` | lemmas on editors, forms and picker for `WebConsole_proofs` | proofs |
| `AuditFlowEdits_proofs` | theorems about edits and execution, on `AuditFlow_proofs` | proofs |
| `MCJobRuns`, `MCInventoryScans` | symmetry sets for TLC | instances |
| `AuditFlowRuns` | worker, API and job runs of an audit flow | component |
| `AuditFlowPage` | the page's cache and requests, on `AuditFlowRuns` | component |
| `AuditFlow` | page, API and worker together | composition |
| `WebSession` | sign-in of one browser tab | component |
| `LiveLogs`, `ConsoleTerminal`, `ScriptEditor`, `RecordForms`, `SchedulePicker`, `RemediationWorkflow` | one kind of view each | components |
| `WebConsole` | the six of them | composition |

### Correspondence with the code

*RunState.*  `claim_pending_run`, `release_running_run_for_retry`,
`transition_running_run` and `cancel_active_run` are each one
`UPDATE ... WHERE id = :id AND status ...` and a commit, so the WHERE clause and
the write are one step; `CanClaim`, `CanRelease`, `CanFinish`, `CanCancel` are
the WHERE clauses.  Status "NONE" is a run that does not exist yet, "GONE" one
that was deleted.

*Outbox.*  `outbox[r]` is the row whose callback is run `r`.  `disp[d]` is one
execution of the dispatch code, with the copy of the row its session holds.
Its steps are the code's transactions: claim and commit (`ClaimRow`,
`CancelRow`), first read after the commit (`BeginDispatch`), publication
(`PublishAccepted`, `PublishRefused`: a refused one may have reached the broker),
record and commit (`RecordSent`, `RecordFailure`).  The record is written the
way the ORM writes it: a column whose value in memory is again the one that was
loaded is not part of the UPDATE (`PutBack`, `FlushedAttempts`).  `queue[r]`
counts copies of r's message: they are equal, since the task id is derived from
the row.

*JobRuns.*  `worker[w].pc` says how far the task is: "received" (message held,
not claimed), "executing" (claimed), "deciding" (the last look for a
cancellation is over), "reporting" (outcome committed).  `age[r]` replaces the
clock: it counts the thresholds of the sweeper that the run has passed in its
present status.  `sweep` holds what the inspection found.  `starts` and
`retrying` are history: no action reads them.  Compliance and remediation runs
differ in table and task name only and are the same actions.

*InventoryScans.*  `flag[r]` is the Redis key `inventory_scan:{id}:cancel`,
`snmp` the scans created with method "snmp".  "cleaning" is the finally clause,
with `again` if an exception is on its way to Celery's autoretry.  `late` counts
the commits of results after the scan's end.

*AuditFlowRuns, AuditFlowPage, AuditFlow.*  A run finds one host, so the run's row and
its host's are one record `audit[r]`; `flag[r]` is the cancel key in Redis,
`scanner[r][d]` how far the scan of a delivered message is: in its ping sweep
("discover"), its service scan ("identify"), and then with a host that has a management
port ("managed", whose result is applied after another look at the flag, "applying") or
has none ("unmanaged", whose result is applied without one); "finish" is the commit of
READY.  An exception inside the inner try ends the run as FAILED (`ScanFails`); one
before it, or one of the except clauses themselves, which use the session without a
rollback, leaves the status as it is (`ScanAborts`, `ReceiveScan`).  Either way the
finally clause deletes the flag, unless Redis fails; Celery retries after some of the
exceptions, and "raised" is a task that it does not retry.  Handlers are functions of the row
they loaded: a request in `calls` is "sent", "loaded" (its session has read the row),
"answered" (committed) and then taken by the page, or lost.  `HostPatch` is the
page's preview (`auditFlowHostState.ts`), `ApplySelection` and `PatchHost` the
server's edit.  `launches`, `doomed`, `raced`, `strayed`, `together` and what
a call has `shown` are history.

*WebSession.*  `store` is sessionStorage, `shown` the React state, `bearer` the module
variable of `client.ts`.  `refresh["shared"]` is `refreshInFlight`, the others are the
interval timer's.  A request carries the session whose token it was sent with, and
loses it when the cache is cleared, since its answer then goes to an object nobody
looks at.

*The views of WebConsole.*  Each module has the variables of its component and of what
it sees of the server.  A behaviour is that of one view: they are on different pages
and share nothing but the query cache, under different keys.  `LiveLogs` has the three
log components (`logKind`), `ScriptEditor` the three editors (`editorKind`),
`RecordForms` eleven panels, told apart by a record of what differs (does a creation
empty the form, does a deletion end an edit, does the address name the record).
`SchedulePicker` has `parseCronExpression` and `buildCronExpression` as operators on
cron fields.

*Refinement.*  `Promise == INSTANCE RunPromise WITH ...` in `JobRuns` maps the runs'
status and starts.  In `InventoryScans` it is `ScanPromise`, with the scan's executors
as `scanner` and the SNMP scans as `shared`: a scan can begin again, but a worker
begins alone unless the scan is shared, "COMPLETED" comes from a worker that scans, and
an end stays until the scan is deleted.  `Implements` is the safety part of each,
checked and proved.

Each mapped definition names its lines in `PROJECT.json`.  Definitions named
`Bug...` are wrong variants of the definition after them; no specification uses
them, they show what each property depends on.

### Abstractions

* One status column per run; results, hosts, logs and profiles are left out.
  What a task does to hosts is "executing".
* Time is the order of steps: a lease "lapses", a run passes a threshold.  Which
  orders are possible is said by the constants `SlowDispatchers`,
  `SilentWorkers` and `SlowSweeper`, which name the processes that miss the
  code's time-outs.  A RUNNING run is older than `stale_run_timeout_effective`
  only when nobody executes it, because that time-out is twice `task_time_limit`.
* Rows that `with_for_update(skip_locked=True)` skips are found by the next poll:
  skipping is taking no step.
* A transaction's reads and writes are one step when the code holds the row lock
  or guards the write; where it does not, they are two.
* In the console a handler, the render after it and the effects of that render are
  one step: nothing else happens in the tab in between.
* A text is a number of changes to the script it came from, a record the number of
  times it was written, a log line its number.
* In `RecordForms` the address changes in the same step as the form, but the effect
  that follows the address may run once with the old one, as the router commits it in
  a transition (`Render`).
* `mixedUp`, `strayed`, `orphaned`, `overtaken`, `missed`, `raced` and `together` mark that one
  particular thing went wrong before (each says which, where it is declared).
  Properties that are conditional on them say that there is no other way to go wrong;
  the first four are defects that the code has, see below.  A run of an audit flow is
  `raced` when two of its requests overlap (but a read and a cancellation may), when
  two deliveries of its message scan it, when a request or its answer was lost or broken
  off, when it is deleted by another page or by age, or when a cancellation writes over
  a row that has changed since it loaded it.  It is `together` when two requests to
  execute it have loaded its row at once.

## 3. Checks

Run in this directory: `tlc -workers 2 -config X.cfg M.tla`, where `M` is `MCJobRuns`
for the runs, `MCInventoryScans` for the scans, and the module of the same name
otherwise (`WebSession` for `LateRefresh`).

| Configuration | Shows | Instance | States |
|---|---|---|---|
| `JobRunsSafety` | `TypeOK`, `SingleExecution`, `PendingIsDispatchable`, `NoticesTellTheOutcome`, `TerminalIsFinal`, `Implements` | 1 run, 2 dispatchers, 2 workers, all of them slow or silent, sweeps of any length, 2 attempts, 2 copies | 473k |
| `JobRunsLeases` | `LeaseExclusive`, `NoLiveRunFailed`, when time-outs are kept | the same, nobody slow | 49k |
| `JobRunsLive` | `EveryRunEnds` under `FairSpec` | 1 dispatcher, 2 workers, 1 attempt, 1 copy | 46k |
| `InventorySafety` | `TypeOK`, `OneScanner`, `StopEndsRecording`, `Implements` | 1 scan of either method, 1 slow dispatcher, 3 workers | 174k |
| `SilentWorker` | refutes `NoLiveRunFailed` when a worker misses the inspection | 1 worker | |
| `AutoRetry` | refutes `RetryIsNotTurnedAway` | 1 worker | |
| `SnmpRedelivery` | refutes `DuplicatesAreHarmless` for SNMP scans | 2 workers | |
| `StrandedScan` | refutes `WaitingScanIsNotForgotten` | 1 worker | |
| `AuditFlow` | `TypeOK`, `PreviewIsRight`, `AnswersLandInTheirRun`, `CancelStopsScan`, `LaunchedOnce`, `LaunchedAsShown`, `ShownRunEnds`, `ScanEnds` | 2 runs, 1 profile, 2 deliveries, 2 changes | 434k |
| `WebSession` | `TypeOK`, `NothingSurvivesSignOut`, `OneIdentity`, `RequestsSettle`, `EndedSessionIsLeft` | 2 users, 2 sessions, 2 requests, 1 timer refresh | 139k |
| `LateRefresh` | refutes `LogoutReturnsToLogin` | 1 user, 1 session | |
| `WebConsole` | `TypeOK`; logs: `NoLineTwice`, `OwnLinesOnly`, `NeverCutOff`, `EveryLineShown`; terminal: `ConsoleTellsItsSession`; editors: `SavedIntoItsOwnScript`, `CleanMeansSaved`; forms: `UpdateNeverCrosses`, `ListCatchesUp`, `TypedTextSurvives`; picker: `ScheduleSurvivesEditing`; workflow: `WorkflowOfItsRun`, `DoneByItsReaudit` | 2 runs, 2 sockets, 1 line; 3 sockets; 2 scripts, 2 changes; 2 records, 2 writes; 1 minute, 2 hours, 2 days, 3 weekdays; 2 reports, 2 re-audits | 1,116k |

**Bounds.**  One run suffices: runs share no state except the processes, and a
process that is busy with another run is one that takes no step.  (A sweep acts
on several runs at once, but on each by its own row; the proofs are for any
number.)  Two dispatchers are enough to overtake each other; a third only
matters for leases of two others while one is late, which the lease theorem
excludes by assumption.  Two workers hold the message and its duplicate, a
third one (inventory) a retry.  Two attempts are a first and a last one; two
copies a message and its duplicate.  The counters `attempts`, `queue`, `starts`,
`age` and `late` stop at their bounds instead of disabling the step.  Deadlock
is not checked: a system whose runs have all ended may stop.

The console's instances have two of whatever may be confused (users, runs, scripts,
records, reports) and as many requests of a kind as the code lets overlap.  A third
terminal socket lets two old ones report late.  Two hours, days and weekdays are the
ends of their ranges, and 7 the second name of Sunday.  Of the audit flow's two runs
one is edited, the other is there to be selected; a behaviour that includes the scan
has one change only (`MaxAskedOfScan`), and a fetch is served when it is sent while its
answer takes its time.  Lost requests are modelled for all of them; the break of the
connection while the server works only for Execute, the one request that takes long, and
requests nobody waits for that are alike in all are one.  What a probe without a login
concludes is always the same (`NoLogin`).  The visibility timeout lets a second delivery
come while the first is in its service scan, the longest part of it (`Redeliver`); a
worker that is lost, or a retry, uses up a delivery.  A run is deleted elsewhere while
the page asks nothing of it (`DeletedElsewhere`).

**Fairness.**  `EveryRunEnds` uses `FairSpec` of `JobRuns`.  `WF(Age)`: time passes.
`WF(TaskStep)`: a task that holds a message gets on, since `task_time_limit`
kills one that hangs (that is `WorkerLost`).  `WF(SweepInspect)`: beat starts the
sweeper every five minutes (`celery_app.py:92`).  `SF(SweepCommit)`: its transaction is not rolled back for
ever.  Nothing is assumed of the broker, the dispatchers and of workers taking
messages; the property says that the sweeper alone ends every run.
`WebSession`: calls are answered or fail (the browser times them out); a refresh is
answered in the end although the page is loaded anew now and then (`SF`); the
interval timer runs while somebody is signed in.  `WebConsole`: the log that is
displayed is polled (`refetchInterval`), nothing else.  `AuditFlow`: the shown run is
polled while it is active, answers that came are taken, compliance runs end
(`EveryRunEnds`), and an unacknowledged scan message is delivered and worked on.  Nothing
is assumed of requests that change something: they may be served never.
`ShownRunEnds` and `ScanEnds` name the two ways in which the code does not keep the
promise: a run that was deleted elsewhere, and a task that ended with an exception.

### Disagreements between code and text

* `silent_worker`: a worker that does not answer `control.inspect` within two
  seconds counts as one without tasks, so the run it executes is failed after
  three minutes.
* `auto_retry`: a transient error goes to Celery's autoretry with the run still
  RUNNING; the retry cannot claim it and returns.  The run ends by the sweeper.
* `snmp_redelivery`: the SNMP task claims inside its try block; a duplicate that
  meets a database error releases the claim of the worker that is scanning.
* `stranded_scan`: a scan released for a retry whose outbox row was cancelled
  meanwhile is PENDING for good once the retries are spent.
* `late_refresh`: a refresh answered after the click on Sign out signs the user in
  again; the end-to-end test expects the login screen.

Defects met while modelling that contradict no text of the repository, and that the
properties therefore step around, each at the place named:

* a socket's late `onclose` clears `wsRef` of its successor, which is never closed
  and goes on writing into the panel (`orphaned` of `LiveLogs`);
* the answer of a save is written to the script shown by then (`mixedUp` of
  `ScriptEditor`), the answer of a remediation or re-audit to the workflow of the
  report shown by then (`strayed` of `RemediationWorkflow`), the rollback of an audit
  flow edit to the run shown by then (`strayed` of `AuditFlowPage`);
* in the panels for credentials and users the success of a creation empties the form
  of a record whose edit began meanwhile, under that record's id (exempted in
  `UpdateNeverCrosses`); the feed's panel may end with an older list than the
  server's (exempted in `ListCatchesUp`);
* weekday 7, which the server takes for Sunday, is saved as Saturday when the job is
  edited (exempted in `ScheduleSurvivesEditing`);
* a cancellation of an audit flow that loaded the run during its scan and commits
  after it takes READY back, under an edit whose preview the page shows (`raced` of
  `AuditFlowPage`; it takes a change and a cancellation of one scan's run to see);
* Execute can be clicked while a change of the same hosts is under way (the button is
  disabled by `executeMutation.isPending` only, `AuditFlowPage.tsx:1857`): its session
  may load the row before the change is committed, so that a host is launched with
  another profile, or without the deselection, that the page shows.  `LaunchedAsShown`
  exempts such runs (`raced`);
* two requests to execute an audit flow that have loaded it at once launch its hosts
  twice, and the first compliance run is no longer known to the audit flow (`LaunchedOnce`
  says that this is the only way);
* a cancellation after the service scan does not stop the scan of a run without
  management ports: the results are applied and READY is written over CANCELLED
  (`audit_flow_runner.py:909-934`, `1010-1018`).  `CancelStopsScan` speaks of scanners
  with a look at the flag ahead of them only;
* a second scanner of a run, when it ends, deletes the flag that the first one has yet
  to see (`doomed` is emptied then);
* a run stays SCANNING for good when `set_audit_flow_progress` fails before the inner
  try (`audit_flow_runner.py:849`) or when an except clause uses the session that a
  database error left unusable (`1021`, `1029`), unless Celery retries: the sweeper does
  not look at audit flow runs (`"raised"` in `ScanEnds`);
* a flag that could not be deleted, as Redis failed in the finally clause, cancels the
  next scan of the run's message;
* a run that another page or `cleanup_expired` deletes is displayed, and polled in vain,
  until the user leaves it (`ShownRunEnds` exempts it);
* the effect that opens the record named by the address (`JobsPage.tsx:529`,
  `RemediationPage.tsx:436`) may run once more with the old address after the user
  closed the form, which opens it again.

## 4. Proofs

`JobRuns_proofs` proves, for any sets of runs, dispatchers and workers and any
bounds that satisfy `OutboxAssumption` and `WorkersAssumption`:

| Theorem | States |
|---|---|
| `TypeCorrect` | `Spec => []TypeOK` |
| `ClaimsAreExclusive` | `Spec => []SingleExecution` |
| `EndsAreFinal` | `Spec => TerminalIsFinal` |
| `RunsKeepThePromise` | `Spec => Implements` |
| `WaitingRunsAreDispatchable` | `Spec => []PendingIsDispatchable` |
| `NoticesAreTrue` | `Spec => []NoticesTellTheOutcome` |
| `LeasesExclude` | `Spec => []LeaseExclusive`, if `SlowDispatchers = {}` |
| `SweeperSparesLiveRuns` | `Spec => NoLiveRunFailed`, if `SilentWorkers = {}` and `~SlowSweeper` |

*The argument.*  `TypeOK` is not inductive: a dispatcher or worker that is at
work must also have a run, which is `Typed`.  `SingleExecution` is not inductive
either, since it says nothing of a run that was never claimed.  `ClaimedOnce`
adds that a run that does not exist or is PENDING was never started and has no
executor; then a claim, which needs PENDING, makes the one start and the one
executor, and no step leads back to PENDING.  `Inv` is `Typed /\ ClaimedOnce`.
From it `StepImplements` maps every step to one of `RunPromise` or to a stutter:
a stop, a sweep, an outcome and a failed dispatch end an active run, a claim
starts it, and everything else leaves status and starts alone.  `StatusMoves`
reads off `RunPromise` what can become of one run's status; finality, the
notices and the outbox property use it and look only at the few actions that
write their own variable.  The two conditional theorems have invariants of
their own: `LeaseHeld` (a dispatcher at work holds its row's lease, alone), and
`LiveRunsAreYoung` (while a sweep is on, a run that is executed is either held
by a worker that answered, or too young to be selected).

`InventoryScans_proofs` shares with it the lemmas of `Outbox_proofs` (the counters
stay in their ranges, a dispatcher at work has a run, and the outbox's steps
change a status only from PENDING to FAILED), under `OutboxAssumption`:

| Theorem | States |
|---|---|
| `ScansTypeCorrect` | `Spec => []TypeOK` |
| `OneWorkerScans` | `Spec => []OneScanner` |
| `StoppedScansRecordNoMore` | `Spec => []StopEndsRecording` |
| `ScansKeepThePromise` | `Spec => Implements` |

*The argument.*  An nmap scan is given back to PENDING when a transient error ends
its task, so "claimed at most once" is false of it.  What holds instead is that
nobody executes a scan that does not exist or is PENDING (`ClaimedByOne`): the
release is a guarded UPDATE and the executor leaves in the same step.  `LateIsInHand`
counts what the one executor can still record after the end by how far it is.  SNMP
scans are exempt, as their duplicates release a claim that is not theirs.
`ScanStepImplements` maps the claim to `Begin` (by `ClaimedByOne` nobody scans then),
every way out of a task that had the claim, lost processes included, to `Leave`, and
stop, delete and failed dispatch to `EndUnscanned`; a duplicate of an SNMP message that
fails is a `Leave` of a worker that never began, which only `shared` scans allow.

`WebSession_proofs` proves, under `WebSessionAssumption`:

| Theorem | States |
|---|---|
| `SessionTypeCorrect` | `Spec => []TypeOK` |
| `SigningOutLeavesNothing` | `Spec => []NothingSurvivesSignOut` |
| `OneUserAtATime` | `Spec => []OneIdentity` |

*The argument.*  `SessionInv` adds that a login under way has a user and that a live
session has one.  `OneIdentity` speaks of the screen; `OwnInv` says that storage,
screen and token are the same session (`OneToken`) and that cache and requests are
of its user, until a late refresh is answered (`overtaken`).

`WebConsole_proofs` has one invariant per view.  A step of one view leaves the
variables of the others alone, so each proof is about one component and `WebConsole`
carries it:

| Theorem | States | Assumption |
|---|---|---|
| `ConsoleTypeCorrect` | `Spec => []TypeOK` | those of the views, below |
| `TerminalTellsItsSession` | `Spec => []ConsoleTellsItsSession` | `ConsoleTerminalAssumption` |
| `SavesStayWithTheirScript` | `Spec => []SavedIntoItsOwnScript` | `ScriptEditorAssumption` |
| `CleanEditorsShowTheServer` | `Spec => []CleanMeansSaved` | `ScriptEditorAssumption` |
| `UpdatesKeepToTheirRecord` | `Spec => []UpdateNeverCrosses` | `RecordFormsAssumption` |
| `TypedTextIsKept` | `Spec => TypedTextSurvives` | `RecordFormsAssumption` |
| `ListsCatchUp` | `Spec => []ListCatchesUp` | `RecordFormsAssumption` |
| `SchedulesSurviveEditing` | `Spec => []ScheduleSurvivesEditing` | `SchedulePickerAssumption` |
| `LinesAreShownOnce` | `Spec => []NoLineTwice` | `LiveLogsAssumption` |
| `LinesAreOfTheRunShown` | `Spec => []OwnLinesOnly` | `LiveLogsAssumption` |
| `LogsStayConnected` | `Spec => []NeverCutOff` | `LiveLogsAssumption` |
| `CyclesEndByTheirReaudit` | `Spec => []DoneByItsReaudit` | `RemediationWorkflowAssumption` |
| `WorkflowsStayWithTheirRun` | `Spec => []WorkflowOfItsRun` | `RemediationWorkflowAssumption` |

*The arguments.*  Terminal: the property with its types is inductive.  Editors
(`TextsAreOwn`): every copy of a text, in the server, in the cache, on its way, in
the editor and in a save, is of the script it is kept for, until an answer was taken
for another script.  `CleanMeansSaved` speaks of quiet moments only; `CacheIsCurrent`
says what holds in between: the cache has what the server has but for the one script
whose save is written and not answered, and a clean editor shows the cache.  Forms
(`FormsAreOwn`): a form that is displayed holds values of the record it names, and so
does what was sent.  `ListIsCurrent`, for `ListCatchesUp`, is true while answers
overtake each other: what was read, on its way or in the list, is right for every
record whose write was answered, since an answered write starts the query anew.
Picker: `BuildInvertsParse`, a lemma on the two conversions alone, says that building
what was parsed gives the expression back, by cases on the five frequencies; the
invariant only adds that a form that was opened and not touched is what was parsed.
Logs: a displayed line has its key
among the keys seen (`OnceAndSeen`), and a socket that can still deliver is the one
the panel holds, on the run displayed, until one was lost (`SocketsOfTheView`).
Workflow: the panel's copy is the stored one of its own run, a status in the cache is
not ahead of the server's, a completed re-audit stays completed.

`AuditFlow_proofs` proves, under `AuditFlowPageAssumption` and for any number of
deliveries, changes and requests:

| Theorem | States |
|---|---|
| `AuditTypeCorrect` | `Spec => []TypeOK` |
| `AnswersKeepToTheirRun` | `Spec => []AnswersLandInTheirRun` |
| `CancelsStopTheirScans` | `Spec => []CancelStopsScan` |
| `LaunchesAreKept` | `Spec => []LaunchedOnce` |

*The argument.*  Nothing is locked, so the invariant is about what each party holds.
`Rows`: whatever handlers make of a row, and whatever columns of it are written over
a newer one, is a row of the same run (`WrittenTyped`, `PatchTyped`, `OutcomesTyped`).
`SoundCall`: what was loaded for a request, and what answers it, is of its run.
`OwnData`: cache entries and snapshots are of theirs, until a rollback strays.
`Stopping`: a scanner with a look ahead of it when the flag was set has not passed that
look while the flag is up, and leaves by the cancellation or an exception.
`LaunchInv`, for `LaunchedOnce`, rests on what sessions do not write: a row that was
launched remains so, whoever writes over it, as only a request to execute changes
`job` and only from FALSE to TRUE (`OutcomeKeepsJob`, `ServeKeepsLaunches`), until the run
is deleted.  So a request that loads the row after a launch finds it launched; and of the
requests that loaded it before, there is one, unless the run is `together`.

`AuditFlowEdits_proofs` goes on from there, under the same assumption:

| Theorem | States |
|---|---|
| `PreviewsComeTrue` | `Spec => []PreviewIsRight` |
| `ExecuteLaunchesWhatWasShown` | `Spec => LaunchedAsShown` |

*The argument.*  Page and server each compute the edit of a host; `SameEdit` says that
`applyAuditFlowHostPatch` and `patch_audit_flow_hosts` agree on a host that may be
edited, for every change.  That they start from the same row is the invariant `Calm`,
about the runs that are not `raced`: one scanner at a time; before it is done nothing
is READY anywhere, in the row, in the cache or in what a request loaded; requests do not
overlap, except a read and a cancellation; a row that is READY is the same wherever a
copy of it is; and an edit under way is at a definite stage, with the page's entry the
preview of the row it will be applied to (`InOrder`).  `Calm` is not true of a run
during whose scan a cancellation was loaded that commits after it; that counterexample,
found when the proof of `Serve` failed and confirmed by TLC once the bound on changes of
a scanned run was raised, is why `raced` includes it.

*Only model-checked.*  Every liveness property (`EveryRunEnds`, `RequestsSettle`,
`EndedSessionIsLeft`, `EveryLineShown`, `ShownRunEnds`, `ScanEnds`), since ENABLED and
fairness are out of the prover's reach.  Every other property of a passing run is a
theorem.

## 5. Not modelled, and the plan

Parts without a model and the reasons are in `PROJECT.json`.  Within the models
the following is left out: results of checks, audit events, metrics, permissions,
validation of fields, formatting, and the choice of what is due in the schedulers.

More than half of the frontend's lines are translations and most of the rest is
presentation: markup, charts, filters, column layout and the client's list of paths
and types.  It has no steps that could interleave; the models cover what keeps state.

Next, in this order:

1. Theorems: the sign-in of a tab as a refinement of an abstract session, and the lease
   of an outbox row as one of an abstract lock with expiry.
2. `ScheduledStarts`: the beat lock with its expiry and the last-run times; a due
   job is started once per period.  An abstract lock and its refinement.
3. `DeadLetters`: record by signal, replay, discard; one replay per dead letter.
4. `Waivers`: life cycle and expiry, which waiver applies to a result.
5. `DirectorySync` on `Outbox`; `HostParallel`; the server's side of sessions.
6. `HostsPage`: its form, with `getHost` for the host named by the address.
