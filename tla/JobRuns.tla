------------------------------ MODULE JobRuns ------------------------------
(***************************************************************************)
(* Compliance and remediation runs: api/v1/routers/jobs.py (and            *)
(* remediations.py, which is the same code for another table), the Celery  *)
(* tasks run_compliance_job and run_remediation_job, and the sweeper of    *)
(* stale runs, on top of the outbox.                                       *)
(*                                                                         *)
(* A delivered message is held by a worker until its task returns (late    *)
(* acknowledgement).  What the task does to hosts is one pc value,         *)
(* "executing"; what it writes to the run's status is modelled write by    *)
(* write.  Everything between two commits of one transaction is one step.  *)
(***************************************************************************)
EXTENDS Outbox

CONSTANTS
  Workers,       \* worker processes of the compliance and remediation queues
  SilentWorkers, \* those that may miss the 2 s window of control.inspect
  SlowSweeper    \* may a sweep last longer than the grace of 3 minutes?

ASSUME WorkersAssumption ==
  /\ SilentWorkers \subseteq Workers
  /\ SlowSweeper \in BOOLEAN

VARIABLES
  worker,    \* worker[w]: the message it holds and how far its task is
  starts,    \* history: how often a worker claimed the run (2 = twice or more)
  age,       \* age[r]: time in the present status, see AgeOf
  sweep,     \* the sweeper's local state
  revoked,   \* runs whose task id was broadcast with control.revoke
  retrying,  \* history: runs whose task asked Celery for another attempt
  notices    \* notices[r]: outcomes announced to the notification channels

taskVars == <<worker, starts, age, sweep, revoked, retrying, notices>>
vars == <<status, outbox, disp, queue, worker, starts, age, sweep, revoked, retrying, notices>>

-----------------------------------------------------------------------------

\* "received": the message is there, the run not yet claimed.  "executing":
\* the run is claimed, hosts are being checked.  "deciding": the last test
\* for cancellation was negative, the outcome is being computed.
\* "reporting": the outcome is committed, the notification is not yet sent.
Worker == [pc : {"idle", "received", "executing", "deciding", "reporting"},
           run : Runs \cup {NoRun}]

IdleWorker == [pc |-> "idle", run |-> NoRun]

\* Thresholds of the sweeper: a PENDING run of age 1 is older than
\* pending_orphan_timeout_effective; a RUNNING run of age 1 is older than the
\* 3 minutes of reconcile_worker_lost_runs, one of age 2 is older than
\* stale_run_timeout_effective.
AgeOf == 0..2

Sweeper == [pc : {"idle", "inspected"}, suspects : SUBSET Runs]

IdleSweeper == [pc |-> "idle", suspects |-> {}]

TypeOK ==
  /\ OutboxTypeOK
  /\ worker \in [Workers -> Worker]
  /\ starts \in [Runs -> 0..2]
  /\ age \in [Runs -> AgeOf]
  /\ sweep \in Sweeper
  /\ revoked \subseteq Runs
  /\ retrying \subseteq Runs
  /\ notices \in [Runs -> SUBSET {"COMPLETED", "FAILED"}]

Init ==
  /\ OutboxInit
  /\ worker = [w \in Workers |-> IdleWorker]
  /\ starts = [r \in Runs |-> 0]
  /\ age = [r \in Runs |-> 0]
  /\ sweep = IdleSweeper
  /\ revoked = {}
  /\ retrying = {}
  /\ notices = [r \in Runs |-> {}]

\* The workers that execute r (they claimed it and have not recorded its end).
Executors(r) == {w \in Workers : worker[w].run = r /\ worker[w].pc \in {"executing", "deciding"}}

-----------------------------------------------------------------------------
(* API.                                                                    *)

\* POST /jobs/{id}/run, and the beat tasks that start scheduled jobs.
RunJob(r) == EnqueueOutboxRow(r) /\ UNCHANGED taskVars

\* The rest of that handler: it has tried to dispatch the run, reads the run
\* again and, if it finds it FAILED, announces a failed dispatch.  By then the
\* run may just as well have been executed and failed, or swept.
AnnounceDispatchFailure(r) ==
  /\ status[r] = "FAILED"
  /\ notices' = [notices EXCEPT ![r] = @ \cup {"FAILED"}]
  /\ UNCHANGED <<status, outbox, disp, queue, worker, starts, age, sweep, revoked, retrying>>

\* POST /jobs/runs/{id}/stop: cancelled by a guarded update, revoked, and
\* committed when the request ends.
StopJobRun(r) ==
  /\ CanCancel(status[r])
  /\ status' = [status EXCEPT ![r] = "CANCELLED"]
  /\ revoked' = revoked \cup {r}
  /\ UNCHANGED <<outbox, disp, queue, worker, starts, age, sweep, retrying, notices>>

\* The broadcast goes out before the transaction's end: a stop whose commit
\* fails has revoked the task all the same.  So has DELETE /jobs/runs/{id}
\* of an active run, which answers 409.
RevokeOnly(r) ==
  /\ status[r] \in Active
  /\ revoked' = revoked \cup {r}
  /\ UNCHANGED <<status, outbox, disp, queue, worker, starts, age, sweep, retrying, notices>>

\* DELETE /jobs/runs/{id} of a finished run.  The outbox row stays.
DeleteJobRun(r) ==
  /\ status[r] \in Terminal
  /\ status' = [status EXCEPT ![r] = "GONE"]
  /\ UNCHANGED <<outbox, disp, queue, worker, starts, age, sweep, revoked, retrying, notices>>

-----------------------------------------------------------------------------
(* The Celery worker and run_compliance_job / run_remediation_job.         *)

Receive(w, r) ==
  /\ worker[w].pc = "idle" /\ queue[r] > 0
  /\ queue' = [queue EXCEPT ![r] = @ - 1]
  /\ worker' = [worker EXCEPT ![w] = [pc |-> "received", run |-> r]]
  /\ UNCHANGED <<status, outbox, disp, starts, age, sweep, revoked, retrying, notices>>

\* The worker drops its message, acknowledged: nothing is requeued.
Release(w) == worker' = [worker EXCEPT ![w] = IdleWorker]

\* A worker that heard the revocation discards the message, or terminates
\* the process that executes it.  The list of revoked ids is in the workers'
\* memory and the broadcast best-effort, so this may also never happen.
Revoked(w) ==
  /\ worker[w].pc # "idle" /\ worker[w].run \in revoked
  /\ Release(w)
  /\ UNCHANGED <<status, outbox, disp, queue, starts, age, sweep, revoked, retrying, notices>>

\* claim_pending_run succeeds.
ClaimRun(w) ==
  LET r == worker[w].run IN
  /\ worker[w].pc = "received"
  /\ CanClaim(status[r])
  /\ status' = [status EXCEPT ![r] = "RUNNING"]
  /\ starts' = [starts EXCEPT ![r] = IF @ < 2 THEN @ + 1 ELSE @]
  /\ age' = [age EXCEPT ![r] = 0]
  /\ worker' = [worker EXCEPT ![w].pc = "executing"]
  /\ UNCHANGED <<outbox, disp, queue, sweep, revoked, retrying, notices>>

\* claim_pending_run fails (or the run was deleted): the task returns.
ReturnUnclaimed(w) ==
  /\ worker[w].pc = "received"
  /\ ~CanClaim(status[worker[w].run])
  /\ Release(w)
  /\ UNCHANGED <<status, outbox, disp, queue, starts, age, sweep, revoked, retrying, notices>>

\* _is_run_cancelled between two hosts, in a host's thread, or before the
\* outcome is computed: the task returns, nothing is announced.
AbandonCancelled(w) ==
  /\ worker[w].pc = "executing" /\ status[worker[w].run] = "CANCELLED"
  /\ Release(w)
  /\ UNCHANGED <<status, outbox, disp, queue, starts, age, sweep, revoked, retrying, notices>>

\* The last _is_run_cancelled is negative: from here on the task goes for
\* its outcome.  FAILED and a deleted run do not stop it.
PassCancelCheck(w) ==
  /\ worker[w].pc = "executing" /\ status[worker[w].run] # "CANCELLED"
  /\ worker' = [worker EXCEPT ![w].pc = "deciding"]
  /\ UNCHANGED <<status, outbox, disp, queue, starts, age, sweep, revoked, retrying, notices>>

\* transition_running_run: from "deciding" with either outcome, and with
\* FAILED straight from "executing" (no hosts, any exception, soft time
\* limit).  It changes a RUNNING run only; either way the task reports.
FinishRun(w, outcome) ==
  LET r == worker[w].run IN
  /\ \/ worker[w].pc = "deciding" /\ outcome \in {"COMPLETED", "FAILED"}
     \/ worker[w].pc = "executing" /\ outcome = "FAILED"
  /\ status' = [status EXCEPT ![r] = Update(@, CanFinish(@), outcome)]
  /\ worker' = [worker EXCEPT ![w].pc = "reporting"]
  /\ UNCHANGED <<outbox, disp, queue, starts, age, sweep, revoked, retrying, notices>>

BugReportComputedOutcome(w) ==
  LET r == worker[w].run IN
  /\ worker[w].pc = "reporting"
  /\ notices' = [notices EXCEPT ![r] = @ \cup {"COMPLETED"}]
  /\ Release(w)
  /\ UNCHANGED <<status, outbox, disp, queue, starts, age, sweep, revoked, retrying>>

BugAnnounceAnyStatus(w) ==
  LET r == worker[w].run IN
  /\ worker[w].pc = "reporting"
  /\ notices' = [notices EXCEPT ![r] = @ \cup {status[r]}]
  /\ Release(w)
  /\ UNCHANGED <<status, outbox, disp, queue, starts, age, sweep, revoked, retrying>>

\* The run is read again and the status it really has is announced; a
\* cancellation is not announced, and for a deleted run the task fails.
Report(w) ==
  LET r == worker[w].run IN
  /\ worker[w].pc = "reporting"
  /\ notices' = [notices EXCEPT ![r] = @ \cup ({status[r]} \cap {"COMPLETED", "FAILED"})]
  /\ Release(w)
  /\ UNCHANGED <<status, outbox, disp, queue, starts, age, sweep, revoked, retrying>>

\* A transient error (reraise_if_transient, or the database during a write)
\* leaves the task: Celery publishes the message again, with the same id.
\* The status is not touched, so a claimed run stays RUNNING.
TransientError(w) ==
  LET r == worker[w].run IN
  /\ worker[w].pc \in {"executing", "deciding"}
  /\ queue' = [queue EXCEPT ![r] = AddCopy(@)]
  /\ retrying' = retrying \cup {r}
  /\ Release(w)
  /\ UNCHANGED <<status, outbox, disp, starts, age, sweep, revoked, notices>>

\* The process is gone: killed, out of memory, past task_time_limit, or an
\* error before the claim.  The message is requeued
\* (task_reject_on_worker_lost, or an autoretry) or not (time limit, no
\* retries left).
WorkerLost(w) ==
  LET r == worker[w].run IN
  /\ worker[w].pc # "idle"
  /\ \/ UNCHANGED queue
     \/ queue' = [queue EXCEPT ![r] = AddCopy(@)]
  /\ Release(w)
  /\ UNCHANGED <<status, outbox, disp, starts, age, sweep, revoked, retrying, notices>>

\* The broker's visibility timeout (1 h by default) ends before
\* task_time_limit does: an unacknowledged message is delivered again while
\* its task is still at work.
Redeliver(w) ==
  /\ worker[w].pc # "idle"
  /\ queue' = [queue EXCEPT ![worker[w].run] = AddCopy(@)]
  /\ UNCHANGED <<status, outbox, disp, worker, starts, age, sweep, revoked, retrying, notices>>

-----------------------------------------------------------------------------
(* Time and the sweeper (beat task sweep_stale_runs).                      *)

\* A RUNNING run gets older than stale_run_timeout_effective, twice
\* task_time_limit, only when no task executes it any more.  It does not
\* reach the age of 3 minutes in the course of a sweep, unless SlowSweeper.
Age(r) ==
  /\ \/ status[r] = "PENDING" /\ age[r] = 0
     \/ status[r] = "RUNNING" /\ age[r] = 0 /\ (SlowSweeper \/ sweep.pc = "idle")
     \/ status[r] = "RUNNING" /\ age[r] = 1 /\ Executors(r) = {}
  /\ age' = [age EXCEPT ![r] = @ + 1]
  /\ UNCHANGED <<status, outbox, disp, queue, worker, starts, sweep, revoked, retrying, notices>>

\* _active_celery_task_ids: suspects are the runs whose task no answering
\* worker holds; there are none if the inspection itself fails.
SweepInspect ==
  /\ sweep.pc = "idle"
  /\ \/ \E answering \in SUBSET Workers :
          /\ Workers \ SilentWorkers \subseteq answering
          /\ sweep' = [pc |-> "inspected",
                       suspects |-> {r \in Runs : \A w \in answering : worker[w].run # r}]
     \/ sweep' = [pc |-> "inspected", suspects |-> {}]
  /\ UNCHANGED <<status, outbox, disp, queue, worker, starts, age, revoked, retrying, notices>>

\* sweep_stale_job_runs.
Stale(r) == status[r] = "RUNNING" /\ age[r] = 2

BugNeverOrphan(r) == FALSE

\* sweep_orphan_pending_job_runs.
Orphan(r) == status[r] = "PENDING" /\ age[r] >= 1

BugNoGrace(r) == status[r] = "RUNNING" /\ r \in sweep.suspects

\* _sweep_worker_lost_runs: the rows are selected after the inspection, and
\* the grace spares those claimed since.
Lost(r) == status[r] = "RUNNING" /\ age[r] >= 1 /\ r \in sweep.suspects

Swept == {r \in Runs : Stale(r) \/ Orphan(r) \/ Lost(r)}

\* All three selections and the commit.  Rows the first two select are locked
\* until then, so selecting them at the end is no different.  The failures
\* are announced one by one afterwards: a crash may cut that short.
SweepCommit ==
  /\ sweep.pc = "inspected"
  /\ status' = [r \in Runs |-> IF r \in Swept THEN "FAILED" ELSE status[r]]
  /\ \E announced \in SUBSET Swept :
       notices' = [r \in Runs |-> IF r \in announced THEN notices[r] \cup {"FAILED"}
                                                     ELSE notices[r]]
  /\ sweep' = IdleSweeper
  /\ UNCHANGED <<outbox, disp, queue, worker, starts, age, revoked, retrying>>

\* The sweeper fails: its transaction is rolled back.
SweepAbort ==
  /\ sweep.pc = "inspected"
  /\ sweep' = IdleSweeper
  /\ UNCHANGED <<status, outbox, disp, queue, worker, starts, age, revoked, retrying, notices>>

-----------------------------------------------------------------------------

\* The steps of a task that is allowed to go on.
TaskStep(w) ==
  \/ ClaimRun(w) \/ ReturnUnclaimed(w)
  \/ AbandonCancelled(w) \/ PassCancelCheck(w)
  \/ \E outcome \in {"COMPLETED", "FAILED"} : FinishRun(w, outcome)
  \/ Report(w)

WorkerStep(w) ==
  \/ \E r \in Runs : Receive(w, r)
  \/ TaskStep(w)
  \/ Revoked(w) \/ TransientError(w) \/ WorkerLost(w) \/ Redeliver(w)

ApiStep ==
  \E r \in Runs :
    \/ RunJob(r) \/ AnnounceDispatchFailure(r)
    \/ StopJobRun(r) \/ RevokeOnly(r) \/ DeleteJobRun(r)

SweepStep == SweepInspect \/ SweepCommit \/ SweepAbort

Next ==
  \/ ApiStep
  \/ OutboxStep /\ UNCHANGED taskVars
  \/ \E w \in Workers : WorkerStep(w)
  \/ \E r \in Runs : Age(r)
  \/ SweepStep

Spec == Init /\ [][Next]_vars

\* Time passes; a task that holds a message gets somewhere (task_time_limit
\* ends those that would not); beat starts the sweeper every five minutes and its
\* transaction is not rolled back forever.  Nothing is assumed of the broker
\* and of the dispatchers: they may stop for good.
Fairness ==
  /\ \A r \in Runs : WF_vars(Age(r))
  /\ \A w \in Workers : WF_vars(TaskStep(w))
  /\ WF_vars(SweepInspect)
  /\ SF_vars(SweepCommit)

FairSpec == Spec /\ Fairness

-----------------------------------------------------------------------------
(* Properties.                                                             *)

\* However often a message is delivered, a run is claimed at most once, and
\* never two workers execute it.
SingleExecution ==
  \A r \in Runs :
    /\ starts[r] <= 1
    /\ \A v, w \in Executors(r) : v = w

\* A run's end is never overwritten: not by a task that finishes after the
\* run was cancelled or swept, nor by a late dispatcher.  (The database
\* enforces this with the trigger prevent_terminal_run_transition; the
\* property says that the code never runs into it.)
TerminalIsFinal ==
  [][\A r \in Runs : status[r] \in Terminal => status'[r] \in {status[r], "GONE"}]_vars

\* Whatever was announced of a run is how the run really ended.
NoticesTellTheOutcome ==
  \A r \in Runs : \A n \in notices[r] : status[r] \in {n, "GONE"}

\* The sweeper never fails a run a worker is executing.
NoLiveRunFailed ==
  [][\A r \in Runs : sweep.pc = "inspected" /\ sweep'.pc = "idle" /\ Executors(r) # {}
        => status'[r] = status[r]]_vars

\* An autoretry is for executing the run again: when the retried message is
\* turned away, the run has got its outcome elsewhere.
RetryIsNotTurnedAway ==
  [][\A w \in Workers : ReturnUnclaimed(w) /\ worker[w].run \in retrying
        => status[worker[w].run] # "RUNNING" \/ Executors(worker[w].run) # {}]_vars

\* Every run ends, even if its message is lost, the outbox row gave up, its
\* worker died or its autoretry was turned away.
EveryRunEnds ==
  \A r \in Runs : status[r] \in Active ~> status[r] \notin Active

\* The promise to whoever looks at runs only through the API.
Promise == INSTANCE RunPromise WITH Runs <- Runs, status <- status, starts <- starts

Implements == Promise!Safety

=============================================================================
