---------------------------- MODULE Outbox_proofs ----------------------------
(***************************************************************************)
(* Proofs about Outbox that hold whoever consumes the messages.            *)
(***************************************************************************)
EXTENDS Outbox, TLAPS

\* Counting attempts and copies stays within the bounds.
LEMMA CountersBounded ==
  /\ \A n \in 0..MaxAttempts : Bump(n) \in 0..MaxAttempts
  /\ \A n \in 0..MaxCopies : AddCopy(n) \in 0..MaxCopies
  /\ \A n \in 0..MaxCopies : n > 0 => n - 1 \in 0..MaxCopies
BY OutboxAssumption DEF OutboxAssumption, Bump, AddCopy

\* A dispatcher that is at work is at work on a run.
DispatcherHasRun == \A d \in Dispatchers : disp[d].pc # "idle" => disp[d].run \in Runs

\* The outbox and the dispatchers keep to their types.
LEMMA OutboxTyped ==
  ASSUME OutboxTypeOK, DispatcherHasRun, OutboxStep
  PROVE  OutboxTypeOK' /\ DispatcherHasRun'
<1> DEFINE Goal == OutboxTypeOK' /\ DispatcherHasRun'
<1> USE OutboxAssumption DEF OutboxAssumption
<1>0. /\ status \in [Runs -> RunStatus]
      /\ outbox \in [Runs -> Row]
      /\ disp \in [Dispatchers -> Dispatcher]
      /\ queue \in [Runs -> 0..MaxCopies]
      /\ DispatcherHasRun
  BY DEF OutboxTypeOK
<1>a. \A r \in Runs : /\ Bump(outbox[r].attempts) \in 0..MaxAttempts
                      /\ AddCopy(queue[r]) \in 0..MaxCopies
  BY <1>0, CountersBounded DEF Row
<1>1. ASSUME NEW d \in Dispatchers, NEW r \in Runs, ClaimRow(d, r) PROVE Goal
  <2>1. outbox' \in [Runs -> Row]
    BY <1>0, <1>a, <1>1 DEF ClaimRow, Row, RowStatus, Lease
  <2>2. disp' \in [Dispatchers -> Dispatcher] /\ DispatcherHasRun'
    BY <1>0, <1>1 DEF ClaimRow, Dispatcher, DispatcherAt, DispatcherHasRun
  <2> QED BY <1>0, <1>1, <2>1, <2>2 DEF ClaimRow, OutboxTypeOK
<1>2. ASSUME NEW d \in Dispatchers, NEW r \in Runs, CancelRow(d, r) PROVE Goal
  <2>1. outbox' \in [Runs -> Row]
    BY <1>0, <1>2 DEF CancelRow, Row, RowStatus, Lease
  <2> QED BY <1>0, <1>2, <2>1 DEF CancelRow, OutboxTypeOK, DispatcherHasRun
<1>3. ASSUME NEW d \in Dispatchers, BeginDispatch(d) PROVE Goal
  <2>1. disp[d].run \in Runs
    BY <1>0, <1>3 DEF BeginDispatch, DispatcherHasRun
  <2>2. disp' \in [Dispatchers -> Dispatcher]
    BY <1>0, <1>a, <1>3, <2>1 DEF BeginDispatch, Dispatcher, IdleDispatcher, DispatcherAt, Row
  <2>3. DispatcherHasRun'
    BY <1>0, <1>3, <2>1 DEF BeginDispatch, Dispatcher, IdleDispatcher, DispatcherAt, DispatcherHasRun
  <2> QED BY <1>0, <1>3, <2>2, <2>3 DEF BeginDispatch, OutboxTypeOK
<1>4. ASSUME NEW d \in Dispatchers, PublishAccepted(d) \/ PublishRefused(d) PROVE Goal
  <2>1. disp[d].run \in Runs
    BY <1>0, <1>4 DEF PublishAccepted, PublishRefused, DispatcherHasRun
  <2>2. disp' \in [Dispatchers -> Dispatcher]
    BY <1>0, <1>4 DEF PublishAccepted, PublishRefused, Dispatcher
  <2>4. DispatcherHasRun'
    BY <1>0, <1>4 DEF PublishAccepted, PublishRefused, Dispatcher, DispatcherHasRun
  <2>3. queue' \in [Runs -> 0..MaxCopies]
    BY <1>0, <1>a, <1>4, <2>1 DEF PublishAccepted, PublishRefused
  <2> QED BY <1>0, <1>4, <2>2, <2>3, <2>4 DEF PublishAccepted, PublishRefused, OutboxTypeOK
<1>b. ASSUME NEW d \in Dispatchers, disp[d].pc # "idle"
      PROVE  disp[d].run \in Runs /\ FlushedAttempts(d) \in 0..MaxAttempts
  BY <1>0, <1>b DEF FlushedAttempts, DispatcherHasRun, Dispatcher, Row
<1>c. ASSUME NEW d \in Dispatchers, disp' = [disp EXCEPT ![d] = IdleDispatcher]
      PROVE  disp' \in [Dispatchers -> Dispatcher] /\ DispatcherHasRun'
  BY <1>0, <1>c DEF Dispatcher, IdleDispatcher, DispatcherAt, DispatcherHasRun
<1>5. ASSUME NEW d \in Dispatchers, RecordSent(d) PROVE Goal
  <2>1. outbox' \in [Runs -> Row]
    BY <1>0, <1>b, <1>5 DEF RecordSent, Row, RowStatus, Lease
  <2> QED BY <1>0, <1>c, <1>5, <2>1 DEF RecordSent, OutboxTypeOK
<1>6. ASSUME NEW d \in Dispatchers, RecordFailure(d) PROVE Goal
  <2> DEFINE counted == [outbox[disp[d].run] EXCEPT !.attempts = FlushedAttempts(d)]
  <2>0. disp[d].run \in Runs /\ counted \in Row
    BY <1>0, <1>b, <1>6 DEF RecordFailure, Row
  <2>3. /\ [counted EXCEPT !.st = "FAILED", !.lease = "none"] \in Row
        /\ PutBack(d, counted) \in Row
    BY <2>0 DEF PutBack, Row, RowStatus, Lease
  <2>1. outbox' \in [Runs -> Row]
    BY <1>0, <1>6, <2>0, <2>3 DEF RecordFailure
  <2>2. status' \in [Runs -> RunStatus]
    BY <1>0, <1>6 DEF RecordFailure, MarkDispatchFailed, Update, RunStatus, JobStatus
  <2> QED BY <1>0, <1>c, <1>6, <2>1, <2>2 DEF RecordFailure, OutboxTypeOK
<1>7. ASSUME NEW d \in Dispatchers, DispatcherCrash(d) PROVE Goal
  BY <1>0, <1>c, <1>7 DEF DispatcherCrash, OutboxTypeOK
<1>8. ASSUME NEW r \in Runs, LeaseLapses(r) \/ Reconcile(r) PROVE Goal
  <2>1. outbox' \in [Runs -> Row]
    BY <1>0, <1>8 DEF LeaseLapses, Reconcile, Row, RowStatus, Lease
  <2> QED BY <1>0, <1>8, <2>1 DEF LeaseLapses, Reconcile, OutboxTypeOK, DispatcherHasRun
<1>9. ASSUME NEW r \in Runs, LoseMessage(r) PROVE Goal
  <2>1. queue' \in [Runs -> 0..MaxCopies]
    BY <1>0, <1>9, CountersBounded DEF LoseMessage
  <2> QED BY <1>0, <1>9, <2>1 DEF LoseMessage, OutboxTypeOK, DispatcherHasRun
<1> QED
  BY <1>1, <1>2, <1>3, <1>4, <1>5, <1>6, <1>7, <1>8, <1>9 DEF OutboxStep, DispatcherStep

\* The only thing the outbox does to a run is to give up one that still waits.
LEMMA OutboxMovesStatus ==
  ASSUME OutboxTypeOK, DispatcherHasRun, OutboxStep, NEW r \in Runs
  PROVE  status'[r] = status[r] \/ (status[r] = "PENDING" /\ status'[r] = "FAILED")
<1>1. CASE \E d \in Dispatchers : RecordFailure(d)
  BY <1>1 DEF OutboxTypeOK, DispatcherHasRun, RecordFailure, MarkDispatchFailed, Update
<1>2. CASE ~\E d \in Dispatchers : RecordFailure(d)
  BY <1>2 DEF OutboxStep, DispatcherStep, ClaimRow, CancelRow, BeginDispatch, PublishAccepted,
     PublishRefused, RecordSent, DispatcherCrash, LeaseLapses, Reconcile, LoseMessage
<1> QED BY <1>1, <1>2

=============================================================================
