--------------------------- MODULE InventoryScans ---------------------------
(***************************************************************************)
(* Inventory scans: api/v1/routers/inventory.py and the worker's           *)
(* inventory_scan_runner.py, on top of the outbox.                         *)
(*                                                                         *)
(* They differ from job runs in three ways.  A stop is told to the worker  *)
(* by a flag in Redis as well as by the run's status.  A transient error   *)
(* gives the claim back (RUNNING becomes PENDING) before Celery tries      *)
(* again.  And no sweeper looks after them.                                *)
(***************************************************************************)
EXTENDS Outbox

CONSTANT Workers  \* worker processes of the inventory queue

VARIABLES
  snmp,      \* the scans created with method "snmp"; the others run nmap
  worker,    \* worker[w]: the message it holds and how far its task is
  flag,      \* flag[r]: the Redis key inventory_scan:{id}:cancel
  late       \* history: chunks of results committed after the scan's end

taskVars == <<snmp, worker, flag, late>>
vars == <<status, outbox, disp, queue, snmp, worker, flag, late>>

-----------------------------------------------------------------------------

\* "scanning": probing the network.  "recording": the scan was seen active,
\* a chunk of results is about to be committed.  "ports": in nmap's custom mode
\* the hosts are committed and their ports follow without another look.
\* "finishing": all chunks are in, the outcome is not.  "cleaning": in the finally clause, with the
\* exception still to be raised if again is TRUE.
Worker == [pc : {"idle", "received", "scanning", "recording", "ports", "finishing", "cleaning"},
           run : Runs \cup {NoRun}, again : BOOLEAN]

WorkerAt(pc, r, again) == [pc |-> pc, run |-> r, again |-> again]

IdleWorker == WorkerAt("idle", NoRun, FALSE)

Executing == {"scanning", "recording", "ports", "finishing"}

Executors(r) == {w \in Workers : worker[w].run = r /\ worker[w].pc \in Executing}

TypeOK ==
  /\ OutboxTypeOK
  /\ worker \in [Workers -> Worker]
  /\ flag \in [Runs -> BOOLEAN]
  /\ snmp \subseteq Runs
  /\ late \in [Runs -> 0..3]

Init ==
  /\ OutboxInit
  /\ worker = [w \in Workers |-> IdleWorker]
  /\ flag = [r \in Runs |-> FALSE]
  /\ snmp = {}
  /\ late = [r \in Runs |-> 0]

\* The worker goes on to pc with the same message.
Goto(w, pc) == worker' = [worker EXCEPT ![w].pc = pc]

\* It leaves the task through the finally clause; again: with an exception
\* that Celery retries.
Leave(w, again) == worker' = [worker EXCEPT ![w].pc = "cleaning", ![w].again = again]

-----------------------------------------------------------------------------
(* API.                                                                    *)

\* POST /inventory/scans, with either method.
CreateScan(r) ==
  /\ EnqueueOutboxRow(r)
  /\ snmp' \in {snmp, snmp \cup {r}}
  /\ UNCHANGED <<worker, flag, late>>

\* POST /inventory/scans/{id}/stop.
StopScan(r) ==
  /\ CanCancel(status[r])
  /\ status' = [status EXCEPT ![r] = "CANCELLED"]
  /\ flag' = [flag EXCEPT ![r] = TRUE]
  /\ UNCHANGED <<outbox, disp, queue, snmp, worker, late>>

\* The flag is set before the request's transaction commits, and stays if
\* the commit fails (of a stop or of a delete).  It would expire after a day.
StopRolledBack(r) ==
  /\ CanCancel(status[r])
  /\ flag' = [flag EXCEPT ![r] = TRUE]
  /\ UNCHANGED <<status, outbox, disp, queue, snmp, worker, late>>

\* DELETE /inventory/scans/{id}, in any status.
DeleteScan(r) ==
  /\ status[r] \in JobStatus
  /\ status' = [status EXCEPT ![r] = "GONE"]
  /\ flag' = [flag EXCEPT ![r] = @ \/ status[r] \in Active]
  /\ UNCHANGED <<outbox, disp, queue, snmp, worker, late>>

-----------------------------------------------------------------------------
(* The Celery worker and run_inventory_scan_sync / _run_snmp_scan_sync.    *)

Receive(w, r) ==
  /\ worker[w].pc = "idle" /\ queue[r] > 0
  /\ queue' = [queue EXCEPT ![r] = @ - 1]
  /\ worker' = [worker EXCEPT ![w] = WorkerAt("received", r, FALSE)]
  /\ UNCHANGED <<status, outbox, disp, snmp, flag, late>>

ClaimScan(w) ==
  LET r == worker[w].run IN
  /\ worker[w].pc = "received"
  /\ CanClaim(status[r])
  /\ status' = [status EXCEPT ![r] = "RUNNING"]
  /\ Goto(w, "scanning")
  /\ UNCHANGED <<outbox, disp, queue, snmp, flag, late>>

\* Somebody else has the scan: the nmap task (and that of a scan that is
\* gone, whose method it cannot tell) returns; the SNMP task has entered its
\* try block already and cleans up.
ReturnUnclaimed(w) ==
  LET r == worker[w].run IN
  /\ worker[w].pc = "received"
  /\ ~CanClaim(status[r])
  /\ \/ r \in snmp /\ Leave(w, FALSE)
     \/ (r \notin snmp \/ status[r] = "GONE") /\ worker' = [worker EXCEPT ![w] = IdleWorker]
  /\ UNCHANGED <<status, outbox, disp, queue, snmp, flag, late>>

BugGiveBackUnclaimed(s) == "PENDING"
BugReleaseAsRetry(s) == Update(s, CanRelease(s), "RETRY")

\* release_running_run_for_retry.
ReleaseForRetry(s) == Update(s, CanRelease(s), "PENDING")

\* The try block, whose except clause is _surface_inventory_scan_failure.  The
\* SNMP task claims inside it, so there an error of the claim counts too.
InTry(w) == worker[w].pc \in Executing \/ (worker[w].pc = "received" /\ worker[w].run \in snmp)

\* is_scan_cancelled while nmap or the probes run: ScanCancelledError.
SeeCancelFlag(w) ==
  LET r == worker[w].run IN
  /\ worker[w].pc = "scanning" /\ flag[r]
  /\ status' = [status EXCEPT ![r] = Update(@, CanFinish(@), "CANCELLED")]
  /\ Leave(w, FALSE)
  /\ UNCHANGED <<outbox, disp, queue, snmp, flag, late>>

\* _is_scan_active; the SNMP task only looks for a cancellation.
ScanActive(r) == IF r \in snmp THEN status[r] \notin {"CANCELLED", "GONE"}
                                ELSE status[r] = "RUNNING"

SeeInactive(w) ==
  /\ worker[w].pc = "scanning" /\ ~ScanActive(worker[w].run)
  /\ Leave(w, FALSE)
  /\ UNCHANGED <<status, outbox, disp, queue, snmp, flag, late>>

\* The probes are done and the scan was seen active: there is a chunk to
\* record, or nothing (more) was found.
BugNeverLookAgain(w) ==
  /\ worker[w].pc = "scanning"
  /\ Goto(w, "recording") \/ Goto(w, "finishing")
  /\ UNCHANGED <<status, outbox, disp, queue, snmp, flag, late>>

SeeActive(w) ==
  /\ worker[w].pc = "scanning" /\ ScanActive(worker[w].run)
  /\ Goto(w, "recording") \/ Goto(w, "finishing")
  /\ UNCHANGED <<status, outbox, disp, queue, snmp, flag, late>>

\* One more commit of results; late counts those that came after the end.
Commit(w) ==
  LET r == worker[w].run IN
  /\ status[r] # "GONE"
  /\ late' = [late EXCEPT ![r] = IF status[r] \in Terminal /\ @ < 3 THEN @ + 1 ELSE @]
  /\ UNCHANGED <<status, outbox, disp, queue, snmp, flag>>

\* _persist_discovered_hosts, _apply_port_info_chunk, _apply_snmp_hits.  nmap
\* goes on with the next chunk, or in custom mode with the ports of these hosts.
RecordHosts(w) ==
  /\ worker[w].pc = "recording"
  /\ Commit(w)
  /\ \/ Goto(w, "finishing")
     \/ worker[w].run \notin snmp /\ (Goto(w, "scanning") \/ Goto(w, "ports"))

RecordPorts(w) ==
  /\ worker[w].pc = "ports"
  /\ Commit(w)
  /\ Goto(w, "finishing")

FinishScan(w) ==
  LET r == worker[w].run IN
  /\ worker[w].pc = "finishing"
  /\ status' = [status EXCEPT ![r] = Update(@, CanFinish(@), "COMPLETED")]
  /\ Leave(w, FALSE)
  /\ UNCHANGED <<outbox, disp, queue, snmp, flag, late>>

\* _surface_inventory_scan_failure with an error that is not transient (or
\* the scan's row is gone): FAILED, and Celery files a dead letter.
FailScan(w) ==
  LET r == worker[w].run IN
  /\ InTry(w)
  /\ status' = [status EXCEPT ![r] = Update(@, CanFinish(@), "FAILED")]
  /\ Leave(w, FALSE)
  /\ UNCHANGED <<outbox, disp, queue, snmp, flag, late>>

\* With a transient error: the claim is given back and the error goes to
\* Celery, unless the scan is not RUNNING any more.
ReleaseScan(w) ==
  LET r == worker[w].run IN
  /\ InTry(w)
  /\ status' = [status EXCEPT ![r] = ReleaseForRetry(@)]
  /\ Leave(w, CanRelease(status[r]))
  /\ UNCHANGED <<outbox, disp, queue, snmp, flag, late>>

\* The transient error is the database's, and the release meets it too: that
\* second error goes to Celery, and the status is not touched.
ReleaseFails(w) ==
  /\ InTry(w)
  /\ Leave(w, TRUE)
  /\ UNCHANGED <<status, outbox, disp, queue, snmp, flag, late>>

\* clear_scan_state, then the exception if there is one: Celery publishes the
\* message again, or files a dead letter if that was the last retry.  If Redis
\* fails nothing is cleared, and that error is not one Celery retries.
CleanUp(w) ==
  LET r == worker[w].run IN
  /\ worker[w].pc = "cleaning"
  /\ \/ UNCHANGED <<flag, queue>>
     \/ /\ flag' = [flag EXCEPT ![r] = FALSE]
        /\ UNCHANGED queue \/ (worker[w].again /\ queue' = [queue EXCEPT ![r] = AddCopy(@)])
  /\ worker' = [worker EXCEPT ![w] = IdleWorker]
  /\ UNCHANGED <<status, outbox, disp, snmp, late>>

\* The process is gone, or an error struck the nmap task before its try block
\* (during the claim, or right after it); the message comes back or not.
WorkerLost(w) ==
  /\ worker[w].pc # "idle"
  /\ \/ UNCHANGED queue
     \/ queue' = [queue EXCEPT ![worker[w].run] = AddCopy(@)]
  /\ worker' = [worker EXCEPT ![w] = IdleWorker]
  /\ UNCHANGED <<status, outbox, disp, snmp, flag, late>>

\* The broker's visibility timeout.
Redeliver(w) ==
  /\ worker[w].pc # "idle"
  /\ queue' = [queue EXCEPT ![worker[w].run] = AddCopy(@)]
  /\ UNCHANGED <<status, outbox, disp, snmp, worker, flag, late>>

-----------------------------------------------------------------------------

ApiStep ==
  \E r \in Runs : CreateScan(r) \/ StopScan(r) \/ StopRolledBack(r) \/ DeleteScan(r)

WorkerStep(w) ==
  \/ \E r \in Runs : Receive(w, r)
  \/ ClaimScan(w) \/ ReturnUnclaimed(w)
  \/ SeeCancelFlag(w) \/ SeeInactive(w) \/ SeeActive(w)
  \/ RecordHosts(w) \/ RecordPorts(w) \/ FinishScan(w) \/ FailScan(w)
  \/ ReleaseScan(w) \/ ReleaseFails(w) \/ CleanUp(w)
  \/ WorkerLost(w) \/ Redeliver(w)

Next ==
  \/ ApiStep
  \/ OutboxStep /\ UNCHANGED taskVars
  \/ \E w \in Workers : WorkerStep(w)

Spec == Init /\ [][Next]_vars

-----------------------------------------------------------------------------
(* Properties.                                                             *)

\* However often the message is delivered and the claim given back, never
\* two workers run nmap for the same scan at the same time.
AtMostOneScanner(S) == \A r \in S : \A v, w \in Executors(r) : v = w

OneScanner == AtMostOneScanner(Runs \ snmp)

\* The same for the scans of both methods: "worker claims make any duplicate
\* delivery harmless" (comment in dispatch_outbox_row).
DuplicatesAreHarmless == AtMostOneScanner(Runs)

\* After its end an nmap scan gets at most what its worker had in hand, one
\* chunk or, in custom mode, the hosts and their ports: no retry, redelivery
\* or later chunk writes for it.
StopEndsRecording == \A r \in Runs \ snmp : late[r] <= 2

\* A scan that is PENDING is on its way to a worker, or will be put there.
WaitingScanIsNotForgotten ==
  \A r \in Runs : status[r] = "PENDING" =>
    \/ outbox[r].st \in {"PENDING", "DISPATCHING", "SENT"}
    \/ queue[r] > 0
    \/ \E w \in Workers : worker[w].run = r

\* The promise to whoever looks at scans only through the API, and at who scans.
Promise == INSTANCE ScanPromise
  WITH Scans <- Runs, status <- status, scanner <- [r \in Runs |-> Executors(r)], shared <- snmp

Implements == Promise!Spec

=============================================================================
