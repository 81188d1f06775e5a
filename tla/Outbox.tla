------------------------------- MODULE Outbox -------------------------------
(***************************************************************************)
(* The transactional task outbox of secaudit_core/task_outbox.py and the   *)
(* broker behind it.                                                       *)
(*                                                                         *)
(* A run is inserted together with its task_outbox row in one transaction. *)
(* Dispatchers (the API thread that tries at once, and every execution of  *)
(* the beat task dispatch_outbox) claim a row by a lease, commit, publish  *)
(* to the broker outside any transaction and record what happened in a     *)
(* second transaction that does not look at the row's status again.        *)
(*                                                                         *)
(* Modules that EXTEND this one add the consumers: what a worker does with *)
(* a delivered message and who else writes the run's status.               *)
(***************************************************************************)
EXTENDS Naturals, RunState

CONSTANTS
  Runs,             \* runs (job_runs, remediation_runs, inventory_scans...)
  Dispatchers,      \* concurrent executions of the dispatch code
  SlowDispatchers,  \* those that may still be publishing when the lease ends
  NoRun,            \* "no run": the value of an idle dispatcher's run
  MaxAttempts,      \* MAX_OUTBOX_ATTEMPTS
  MaxCopies         \* bound: copies of one message the broker holds

ASSUME OutboxAssumption ==
  /\ NoRun \notin Runs
  /\ SlowDispatchers \subseteq Dispatchers
  /\ MaxAttempts \in Nat \ {0}
  /\ MaxCopies \in Nat \ {0}

VARIABLES
  status,  \* status[r]: the status column of the run
  outbox,  \* outbox[r]: the task_outbox row whose callback is r
  disp,    \* disp[d]: a dispatcher's local state
  queue    \* queue[r]: copies of r's message waiting in the broker

outboxVars == <<status, outbox, disp, queue>>

-----------------------------------------------------------------------------
(* Types.  "NONE" stands for a row that was not inserted.                  *)

RowStatus == {"NONE", "PENDING", "DISPATCHING", "SENT", "FAILED", "CANCELLED"}

\* dispatch_started_at: within OUTBOX_DISPATCH_LEASE, or older.  The column
\* is read only in rows that are DISPATCHING; for all others it is "none".
Lease == {"none", "held", "lapsed"}

Row == [st : RowStatus, attempts : 0..MaxAttempts, lease : Lease]

\* attempts and bumped are the dispatcher's in-memory copy of the row: the
\* counter it read, and whether it marked the row DISPATCHING once more (and
\* counted one more attempt) without having flushed it.
Dispatcher ==
  [pc : {"idle", "claimed", "publishing", "accepted", "refused"},
   run : Runs \cup {NoRun}, attempts : 0..MaxAttempts, bumped : BOOLEAN]

OutboxTypeOK ==
  /\ status \in [Runs -> RunStatus]
  /\ outbox \in [Runs -> Row]
  /\ disp \in [Dispatchers -> Dispatcher]
  /\ queue \in [Runs -> 0..MaxCopies]

DispatcherAt(pc, r) == [pc |-> pc, run |-> r, attempts |-> 0, bumped |-> FALSE]

IdleDispatcher == DispatcherAt("idle", NoRun)

OutboxInit ==
  /\ status = [r \in Runs |-> "NONE"]
  /\ outbox = [r \in Runs |-> [st |-> "NONE", attempts |-> 0, lease |-> "none"]]
  /\ disp = [d \in Dispatchers |-> IdleDispatcher]
  /\ queue = [r \in Runs |-> 0]

-----------------------------------------------------------------------------
(* The conditions of the code.                                             *)

\* Counters: attempts is only ever compared with >= MAX_OUTBOX_ATTEMPTS, so
\* it stops there; the broker keeps at most MaxCopies copies of a message (a
\* further copy is as good as lost, which the broker may do anyway).
Bump(n) == IF n < MaxAttempts THEN n + 1 ELSE n
AddCopy(n) == IF n < MaxCopies THEN n + 1 ELSE n

\* _callback_is_dispatchable: the run exists and is still PENDING.
Dispatchable(r) == status[r] = "PENDING"

BugIgnoreLease(row) == row.st \in {"PENDING", "DISPATCHING"}

\* The WHERE clause of _claim_outbox_by_id.
LeaseAllows(row) == row.st = "PENDING" \/ (row.st = "DISPATCHING" /\ row.lease = "lapsed")

BugForgetRun(s) == s

\* _mark_dispatch_failed: WHERE status = PENDING, sets FAILED.
MarkDispatchFailed(s) == Update(s, s = "PENDING", "FAILED")

\* The test that makes a failed publication final.
AttemptsUsedUp(n) == n >= MaxAttempts

-----------------------------------------------------------------------------
(* Producer.                                                               *)

\* A handler or a scheduler inserts the run and its outbox row and commits.
\* enqueue_outbox_row also stores the task id in the run, so from here on
\* celery_task_id is never null and every publication uses that one id.
EnqueueOutboxRow(r) ==
  /\ status[r] = "NONE"
  /\ status' = [status EXCEPT ![r] = "PENDING"]
  /\ outbox' = [outbox EXCEPT ![r] = [st |-> "PENDING", attempts |-> 0, lease |-> "none"]]
  /\ UNCHANGED <<disp, queue>>

-----------------------------------------------------------------------------
(* Dispatcher: _claim_outbox_by_id, dispatch_outbox_row.                   *)

\* The claim of a row whose run is still PENDING, committed.
ClaimRow(d, r) ==
  /\ disp[d].pc = "idle"
  /\ LeaseAllows(outbox[r])
  /\ Dispatchable(r)
  /\ outbox' = [outbox EXCEPT ![r] =
       [st |-> "DISPATCHING", attempts |-> Bump(@.attempts), lease |-> "held"]]
  /\ disp' = [disp EXCEPT ![d] = DispatcherAt("claimed", r)]
  /\ UNCHANGED <<status, queue>>

\* The claim of a row whose run is gone or no longer PENDING: cancelled, and
\* nothing is published.
CancelRow(d, r) ==
  /\ disp[d].pc = "idle"
  /\ LeaseAllows(outbox[r])
  /\ ~Dispatchable(r)
  /\ outbox' = [outbox EXCEPT ![r] = [@ EXCEPT !.st = "CANCELLED", !.lease = "none"]]
  /\ UNCHANGED <<status, disp, queue>>

\* The first read after the claim's commit expired the row: another
\* dispatcher may have written it since.  A row that is back to PENDING is
\* marked again in memory, one that is settled is left alone.
BeginDispatch(d) ==
  LET row == outbox[disp[d].run]
      again == row.st = "PENDING" IN
  /\ disp[d].pc = "claimed"
  /\ disp' = [disp EXCEPT ![d] =
       IF row.st \in {"PENDING", "DISPATCHING"}
         THEN [pc |-> "publishing", run |-> @.run, bumped |-> again,
               attempts |-> IF again THEN Bump(row.attempts) ELSE row.attempts]
         ELSE IdleDispatcher]
  /\ UNCHANGED <<status, outbox, queue>>

\* send_task returns: the broker has the message.
PublishAccepted(d) ==
  /\ disp[d].pc = "publishing"
  /\ disp' = [disp EXCEPT ![d].pc = "accepted"]
  /\ queue' = [queue EXCEPT ![disp[d].run] = AddCopy(@)]
  /\ UNCHANGED <<status, outbox>>

\* send_task raises; the broker may have taken the message all the same.
PublishRefused(d) ==
  /\ disp[d].pc = "publishing"
  /\ disp' = [disp EXCEPT ![d].pc = "refused"]
  /\ \/ UNCHANGED queue
     \/ queue' = [queue EXCEPT ![disp[d].run] = AddCopy(@)]
  /\ UNCHANGED <<status, outbox>>

\* The counter column after the dispatcher's flush: it writes its own value
\* only if it changed it.
FlushedAttempts(d) ==
  IF disp[d].bumped THEN disp[d].attempts ELSE outbox[disp[d].run].attempts

\* Success: SENT, whatever the row became meanwhile.
RecordSent(d) ==
  /\ disp[d].pc = "accepted"
  /\ outbox' = [outbox EXCEPT ![disp[d].run] =
                  [st |-> "SENT", attempts |-> FlushedAttempts(d), lease |-> "none"]]
  /\ disp' = [disp EXCEPT ![d] = IdleDispatcher]
  /\ UNCHANGED <<status, queue>>

\* A refused publication that may be tried again puts the row back to
\* PENDING.  If the dispatcher itself found it PENDING and marked it in
\* memory only, the column is back at the value it was loaded with and the
\* ORM does not write it: the row keeps whatever others made of it.
PutBack(d, row) ==
  IF disp[d].bumped THEN row ELSE [row EXCEPT !.st = "PENDING", !.lease = "none"]

\* An exception: back to PENDING, or FAILED together with the run once the
\* attempts are used up.
RecordFailure(d) ==
  LET r == disp[d].run
      final == AttemptsUsedUp(disp[d].attempts)
      counted == [outbox[r] EXCEPT !.attempts = FlushedAttempts(d)] IN
  /\ disp[d].pc = "refused"
  /\ outbox' = [outbox EXCEPT ![r] =
       IF final THEN [counted EXCEPT !.st = "FAILED", !.lease = "none"]
                ELSE PutBack(d, counted)]
  /\ status' = [status EXCEPT ![r] = IF final THEN MarkDispatchFailed(@) ELSE @]
  /\ disp' = [disp EXCEPT ![d] = IdleDispatcher]
  /\ UNCHANGED queue

\* The process dies: its session rolls back, the committed claim remains.
DispatcherCrash(d) ==
  /\ disp[d].pc # "idle"
  /\ disp' = [disp EXCEPT ![d] = IdleDispatcher]
  /\ UNCHANGED <<status, outbox, queue>>

\* OUTBOX_DISPATCH_LEASE (5 min) runs out.  Only a dispatcher in
\* SlowDispatchers can still be at work on the row then.
LeaseLapses(r) ==
  /\ outbox[r].st = "DISPATCHING" /\ outbox[r].lease = "held"
  /\ \A d \in Dispatchers : disp[d].run = r => d \in SlowDispatchers
  /\ outbox' = [outbox EXCEPT ![r].lease = "lapsed"]
  /\ UNCHANGED <<status, disp, queue>>

\* reconcile_stuck_outbox_dispatches: a row that was sent and whose run is
\* still PENDING goes back to PENDING.  The attempts go on counting from
\* where they were.  That OUTBOX_REDELIVERY_GRACE has passed is left open.
Reconcile(r) ==
  /\ outbox[r].st = "SENT"
  /\ Dispatchable(r)
  /\ outbox' = [outbox EXCEPT ![r].st = "PENDING"]
  /\ UNCHANGED <<status, disp, queue>>

\* The broker loses a copy (restart, flush, split brain).
LoseMessage(r) ==
  /\ queue[r] > 0
  /\ queue' = [queue EXCEPT ![r] = @ - 1]
  /\ UNCHANGED <<status, outbox, disp>>

DispatcherStep(d) ==
  \/ \E r \in Runs : ClaimRow(d, r) \/ CancelRow(d, r)
  \/ BeginDispatch(d)
  \/ PublishAccepted(d) \/ PublishRefused(d)
  \/ RecordSent(d) \/ RecordFailure(d)
  \/ DispatcherCrash(d)

OutboxStep ==
  \/ \E d \in Dispatchers : DispatcherStep(d)
  \/ \E r \in Runs : LeaseLapses(r) \/ Reconcile(r) \/ LoseMessage(r)

-----------------------------------------------------------------------------
(* Properties.                                                             *)

\* Two executions of the dispatcher that are both within their lease are
\* never at work on the same row: the claim of one blocks the other until it
\* has recorded its result.
LeaseExclusive ==
  \A d, e \in Dispatchers \ SlowDispatchers :
    disp[d].pc # "idle" /\ disp[e].pc # "idle" /\ disp[d].run = disp[e].run => d = e

\* A run that waits for a worker is never forgotten: as long as it is
\* PENDING its row is one the poller claims, takes over or reconciles.
PendingIsDispatchable ==
  \A r \in Runs : status[r] = "PENDING" => outbox[r].st \in {"PENDING", "DISPATCHING", "SENT"}

=============================================================================
