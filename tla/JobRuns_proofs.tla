--------------------------- MODULE JobRuns_proofs ---------------------------
(***************************************************************************)
(* Proofs about JobRuns, for every number of runs, dispatchers and workers *)
(* and every bound.                                                        *)
(***************************************************************************)
EXTENDS JobRuns, Outbox_proofs

-----------------------------------------------------------------------------
(* Type correctness.                                                       *)

\* A worker that is at work holds the message of a run.
WorkerHasRun == \A w \in Workers : worker[w].pc # "idle" => worker[w].run \in Runs

Typed == TypeOK /\ DispatcherHasRun /\ WorkerHasRun

LEMMA TypedInit == Init => Typed
BY OutboxAssumption
   DEF OutboxAssumption, Init, OutboxInit, Typed, TypeOK, OutboxTypeOK, DispatcherHasRun,
       WorkerHasRun, IdleDispatcher, DispatcherAt, IdleWorker, IdleSweeper, Row, RowStatus,
       Lease, Dispatcher, Worker, Sweeper, RunStatus, JobStatus, AgeOf

\* The outbox and the dispatchers.
LEMMA TypedOutboxStep ==
  ASSUME Typed, OutboxStep
  PROVE  OutboxTypeOK' /\ DispatcherHasRun'
BY OutboxTyped DEF Typed, TypeOK

\* The API.
LEMMA TypedApiStep ==
  ASSUME Typed, ApiStep
  PROVE  Typed'
<1> USE OutboxAssumption DEF OutboxAssumption
<1>1. ASSUME NEW r \in Runs, RunJob(r) PROVE Typed'
  <2>1. status' \in [Runs -> RunStatus]
    BY <1>1 DEF RunJob, EnqueueOutboxRow, Typed, TypeOK, OutboxTypeOK, RunStatus, JobStatus
  <2>2. outbox' \in [Runs -> Row]
    BY <1>1 DEF RunJob, EnqueueOutboxRow, Typed, TypeOK, OutboxTypeOK, Row, RowStatus, Lease
  <2> QED
    BY <1>1, <2>1, <2>2 DEF RunJob, EnqueueOutboxRow, taskVars, Typed, TypeOK, OutboxTypeOK,
                            DispatcherHasRun, WorkerHasRun
<1>2. ASSUME NEW r \in Runs,
             AnnounceDispatchFailure(r) \/ StopJobRun(r) \/ RevokeOnly(r) \/ DeleteJobRun(r)
      PROVE  Typed'
  <2>1. status' \in [Runs -> RunStatus]
    BY <1>2 DEF AnnounceDispatchFailure, StopJobRun, RevokeOnly, DeleteJobRun,
                Typed, TypeOK, OutboxTypeOK, RunStatus, JobStatus
  <2> QED
    BY <1>2, <2>1 DEF AnnounceDispatchFailure, StopJobRun, RevokeOnly, DeleteJobRun,
                      Typed, TypeOK, OutboxTypeOK, DispatcherHasRun, WorkerHasRun
<1> QED BY <1>1, <1>2 DEF ApiStep

\* The workers.
LEMMA TypedWorkerStep ==
  ASSUME Typed, NEW w \in Workers, WorkerStep(w)
  PROVE  Typed'
<1> USE OutboxAssumption DEF OutboxAssumption
<1>0. /\ status \in [Runs -> RunStatus]
      /\ queue \in [Runs -> 0..MaxCopies]
      /\ worker \in [Workers -> Worker]
      /\ starts \in [Runs -> 0..2]
      /\ age \in [Runs -> AgeOf]
      /\ notices \in [Runs -> SUBSET {"COMPLETED", "FAILED"}]
      /\ retrying \subseteq Runs
      /\ WorkerHasRun
  BY DEF Typed, TypeOK, OutboxTypeOK
<1>a. \A r \in Runs : AddCopy(queue[r]) \in 0..MaxCopies
  BY <1>0, CountersBounded
<1>b. ASSUME worker' = [worker EXCEPT ![w] = IdleWorker]
      PROVE  worker' \in [Workers -> Worker] /\ WorkerHasRun'
  BY <1>0, <1>b DEF IdleWorker, Worker, WorkerHasRun
<1>c. worker[w].pc # "idle" => worker[w].run \in Runs
  BY <1>0 DEF WorkerHasRun
<1>d. ASSUME NEW pc \in {"executing", "deciding", "reporting"}, worker[w].pc # "idle",
             worker' = [worker EXCEPT ![w].pc = pc]
      PROVE  worker' \in [Workers -> Worker] /\ WorkerHasRun'
  <2>1. worker' \in [Workers -> Worker]
    BY <1>0, <1>d DEF Worker
  <2>2. WorkerHasRun'
    BY <1>0, <1>d DEF Worker, WorkerHasRun
  <2> QED BY <2>1, <2>2
<1>1. ASSUME NEW r \in Runs, Receive(w, r) PROVE Typed'
  <2>1. queue' \in [Runs -> 0..MaxCopies]
    BY <1>0, <1>1, CountersBounded DEF Receive
  <2>2. worker' \in [Workers -> Worker] /\ WorkerHasRun'
    BY <1>0, <1>1 DEF Receive, Worker, WorkerHasRun
  <2> QED BY <1>1, <2>1, <2>2 DEF Receive, Typed, TypeOK, OutboxTypeOK, DispatcherHasRun
<1>2. ASSUME Revoked(w) \/ ReturnUnclaimed(w) \/ AbandonCancelled(w) PROVE Typed'
  BY <1>2, <1>b DEF Revoked, ReturnUnclaimed, AbandonCancelled, Release, Typed, TypeOK,
                    OutboxTypeOK, DispatcherHasRun
<1>3. ASSUME ClaimRun(w) PROVE Typed'
  <2>1. worker' \in [Workers -> Worker] /\ WorkerHasRun'
    BY <1>3, <1>d DEF ClaimRun
  <2>0. worker[w].run \in Runs
    BY <1>3, <1>c DEF ClaimRun
  <2>2. status' \in [Runs -> RunStatus]
    BY <1>0, <1>3 DEF ClaimRun, RunStatus, JobStatus
  <2>4. age' \in [Runs -> AgeOf]
    BY <1>0, <1>3, <2>0 DEF ClaimRun, AgeOf
  <2>3. starts' \in [Runs -> 0..2]
    BY <1>0, <1>3, <2>0 DEF ClaimRun
  <2> QED BY <1>3, <2>1, <2>2, <2>3, <2>4 DEF ClaimRun, Typed, TypeOK, OutboxTypeOK, DispatcherHasRun
<1>4. ASSUME PassCancelCheck(w) PROVE Typed'
  BY <1>4, <1>d DEF PassCancelCheck, Typed, TypeOK, OutboxTypeOK, DispatcherHasRun
<1>5. ASSUME NEW outcome \in {"COMPLETED", "FAILED"}, FinishRun(w, outcome) PROVE Typed'
  <2>1. worker' \in [Workers -> Worker] /\ WorkerHasRun'
    BY <1>5, <1>d DEF FinishRun
  <2>2. status' \in [Runs -> RunStatus]
    BY <1>0, <1>5 DEF FinishRun, Update, RunStatus, JobStatus
  <2> QED BY <1>5, <2>1, <2>2 DEF FinishRun, Typed, TypeOK, OutboxTypeOK, DispatcherHasRun
<1>6. ASSUME Report(w) PROVE Typed'
  <2>1. notices' \in [Runs -> SUBSET {"COMPLETED", "FAILED"}]
    BY <1>0, <1>6 DEF Report
  <2> QED BY <1>6, <1>b, <2>1 DEF Report, Release, Typed, TypeOK, OutboxTypeOK, DispatcherHasRun
<1>7. ASSUME TransientError(w) \/ WorkerLost(w) PROVE Typed'
  <2>1. queue' \in [Runs -> 0..MaxCopies]
    BY <1>0, <1>7, <1>a, <1>c DEF TransientError, WorkerLost
  <2>2. retrying' \subseteq Runs
    BY <1>0, <1>7, <1>c DEF TransientError, WorkerLost
  <2> QED
    BY <1>7, <1>b, <2>1, <2>2 DEF TransientError, WorkerLost, Release, Typed, TypeOK,
                                  OutboxTypeOK, DispatcherHasRun
<1>8. ASSUME Redeliver(w) PROVE Typed'
  <2>1. queue' \in [Runs -> 0..MaxCopies]
    BY <1>0, <1>8, <1>a, <1>c DEF Redeliver
  <2> QED BY <1>8, <2>1 DEF Redeliver, Typed, TypeOK, OutboxTypeOK, DispatcherHasRun, WorkerHasRun
<1> QED
  BY <1>1, <1>2, <1>3, <1>4, <1>5, <1>6, <1>7, <1>8 DEF WorkerStep, TaskStep

\* Time and the sweeper.
LEMMA TypedSweepStep ==
  ASSUME Typed, (\E r \in Runs : Age(r)) \/ SweepStep
  PROVE  Typed'
<1>1. ASSUME NEW r \in Runs, Age(r) PROVE Typed'
  <2>1. age' \in [Runs -> AgeOf]
    BY <1>1 DEF Age, AgeOf, Typed, TypeOK
  <2> QED
    BY <1>1, <2>1 DEF Age, Typed, TypeOK, OutboxTypeOK, DispatcherHasRun, WorkerHasRun
<1>2. ASSUME SweepInspect \/ SweepAbort PROVE Typed'
  <2>1. sweep' \in Sweeper
    BY <1>2 DEF SweepInspect, SweepAbort, Sweeper, IdleSweeper
  <2> QED
    BY <1>2, <2>1 DEF SweepInspect, SweepAbort, Typed, TypeOK, OutboxTypeOK, DispatcherHasRun,
                      WorkerHasRun
<1>3. ASSUME SweepCommit PROVE Typed'
  <2>1. status' \in [Runs -> RunStatus]
    BY <1>3 DEF SweepCommit, Typed, TypeOK, OutboxTypeOK, RunStatus, JobStatus
  <2>2. notices' \in [Runs -> SUBSET {"COMPLETED", "FAILED"}]
    BY <1>3 DEF SweepCommit, Typed, TypeOK
  <2>3. sweep' \in Sweeper
    BY <1>3 DEF SweepCommit, Sweeper, IdleSweeper
  <2> QED
    BY <1>3, <2>1, <2>2, <2>3 DEF SweepCommit, Typed, TypeOK, OutboxTypeOK, DispatcherHasRun,
                                  WorkerHasRun
<1> QED BY <1>1, <1>2, <1>3 DEF SweepStep

LEMMA TypedStep ==
  ASSUME Typed, [Next]_vars
  PROVE  Typed'
<1>1. CASE ApiStep
  BY <1>1, TypedApiStep
<1>2. CASE OutboxStep /\ UNCHANGED taskVars
  BY <1>2, TypedOutboxStep DEF taskVars, Typed, TypeOK, WorkerHasRun
<1>3. CASE \E w \in Workers : WorkerStep(w)
  BY <1>3, TypedWorkerStep
<1>4. CASE (\E r \in Runs : Age(r)) \/ SweepStep
  BY <1>4, TypedSweepStep
<1>5. CASE UNCHANGED vars
  BY <1>5 DEF vars, Typed, TypeOK, OutboxTypeOK, DispatcherHasRun, WorkerHasRun
<1> QED BY <1>1, <1>2, <1>3, <1>4, <1>5 DEF Next

\* Every reachable state is a state of the types above: no status, row or
\* message outside the vocabulary of the code, no attempt beyond the limit.
THEOREM TypeCorrect == Spec => []TypeOK
<1>1. Spec => []Typed
  BY TypedInit, TypedStep, PTL DEF Spec
<1> QED BY <1>1, PTL DEF Typed

-----------------------------------------------------------------------------
(* The run's life.  Inv is inductive; its conjuncts besides Typed:         *)

\* A run that was not claimed has no executor; a claimed one has at most one.
ClaimedOnce ==
  \A r \in Runs :
    /\ status[r] \in {"NONE", "PENDING"} => starts[r] = 0 /\ Executors(r) = {}
    /\ starts[r] <= 1
    /\ \A v, w \in Executors(r) : v = w

Inv == Typed /\ ClaimedOnce

\* Only a claim makes a worker an executor or counts a start.
LEMMA OnlyClaimsStart ==
  ASSUME Typed, [Next]_vars
  PROVE  \/ \E w \in Workers : ClaimRun(w)
         \/ starts' = starts /\ \A r \in Runs : Executors(r)' \subseteq Executors(r)
<1> DEFINE Goal == starts' = starts /\ \A r \in Runs : Executors(r)' \subseteq Executors(r)
<1>0. worker \in [Workers -> Worker]
  BY DEF Typed, TypeOK
<1>a. ASSUME worker' = worker, starts' = starts PROVE Goal
  BY <1>a DEF Executors
<1>b. ASSUME NEW w \in Workers, Release(w), starts' = starts PROVE Goal
  BY <1>0, <1>b DEF Release, IdleWorker, Worker, Executors
<1>1. CASE ApiStep
  BY <1>1, <1>a DEF ApiStep, RunJob, AnnounceDispatchFailure, StopJobRun, RevokeOnly,
         DeleteJobRun, taskVars
<1>2. CASE OutboxStep /\ UNCHANGED taskVars
  BY <1>2, <1>a DEF taskVars
<1>3. ASSUME NEW w \in Workers, WorkerStep(w), ~ClaimRun(w) PROVE Goal
  <2>1. ASSUME NEW r \in Runs, Receive(w, r) PROVE Goal
    BY <1>0, <2>1 DEF Receive, Worker, Executors
  <2>2. CASE PassCancelCheck(w)
    BY <1>0, <2>2 DEF PassCancelCheck, Worker, Executors
  <2>3. ASSUME NEW outcome \in {"COMPLETED", "FAILED"}, FinishRun(w, outcome) PROVE Goal
    BY <1>0, <2>3 DEF FinishRun, Worker, Executors
  <2>4. CASE Redeliver(w)
    BY <2>4, <1>a DEF Redeliver
  <2>5. CASE \/ ReturnUnclaimed(w) \/ AbandonCancelled(w) \/ Report(w)
             \/ Revoked(w) \/ TransientError(w) \/ WorkerLost(w)
    BY <2>5, <1>b DEF ReturnUnclaimed, AbandonCancelled, Report, Revoked, TransientError, WorkerLost
  <2> QED BY <1>3, <2>1, <2>2, <2>3, <2>4, <2>5 DEF WorkerStep, TaskStep
<1>4. CASE (\E r \in Runs : Age(r)) \/ SweepStep
  BY <1>4, <1>a DEF Age, SweepStep, SweepInspect, SweepCommit, SweepAbort
<1>5. CASE UNCHANGED vars
  BY <1>5, <1>a DEF vars
<1> QED BY <1>1, <1>2, <1>3, <1>4, <1>5 DEF Next

\* Every step is a step of RunPromise, or none.
LEMMA StepImplements ==
  ASSUME Inv, [Next]_vars
  PROVE  [Promise!Next]_(Promise!vars)
<1> DEFINE Goal == [Promise!Next]_(Promise!vars)
<1>0. /\ status \in [Runs -> RunStatus]
      /\ starts \in [Runs -> 0..2]
      /\ DispatcherHasRun /\ WorkerHasRun
  BY DEF Inv, Typed, TypeOK, OutboxTypeOK
<1>a. ASSUME status' = status, starts' = starts PROVE Goal
  BY <1>a DEF Promise!vars
<1>b. ASSUME NEW r \in Runs, NEW outcome \in Terminal, status[r] \in Active,
             outcome = "COMPLETED" => status[r] = "RUNNING",
             status' = [status EXCEPT ![r] = outcome], starts' = starts
      PROVE  Goal
  <2>1. Promise!EndAs(r, outcome)
    BY <1>b DEF Promise!EndAs, Promise!Active, Active
  <2> QED BY <2>1 DEF Promise!Next, Promise!Terminal, Terminal
<1>1. ASSUME NEW r \in Runs, RunJob(r) PROVE Goal
  <2>1. Promise!Create(r)
    BY <1>1 DEF RunJob, EnqueueOutboxRow, taskVars, Promise!Create
  <2> QED BY <2>1 DEF Promise!Next
<1>2. ASSUME NEW r \in Runs, StopJobRun(r) PROVE Goal
  BY <1>2, <1>b DEF StopJobRun, CanCancel, Terminal
<1>3. ASSUME NEW r \in Runs, RevokeOnly(r) \/ AnnounceDispatchFailure(r) PROVE Goal
  BY <1>3, <1>a DEF RevokeOnly, AnnounceDispatchFailure
<1>4. ASSUME NEW r \in Runs, DeleteJobRun(r) PROVE Goal
  <2>1. Promise!Delete(r)
    BY <1>4 DEF DeleteJobRun, Promise!Delete, Promise!Terminal, Terminal
  <2> QED BY <2>1 DEF Promise!Next
<1>5. ASSUME NEW w \in Workers, ClaimRun(w) PROVE Goal
  <2> DEFINE r == worker[w].run
  <2>1. r \in Runs /\ status[r] = "PENDING"
    BY <1>0, <1>5 DEF ClaimRun, CanClaim, WorkerHasRun
  <2>2. starts[r] = 0
    BY <2>1 DEF Inv, ClaimedOnce
  <2>3. Promise!Start(r)
    BY <1>0, <1>5, <2>1, <2>2 DEF ClaimRun, Promise!Start
  <2> QED BY <2>1, <2>3 DEF Promise!Next
<1>6. ASSUME NEW w \in Workers, NEW outcome \in {"COMPLETED", "FAILED"}, FinishRun(w, outcome)
      PROVE  Goal
  <2> DEFINE r == worker[w].run
  <2>1. r \in Runs
    BY <1>0, <1>6 DEF FinishRun, WorkerHasRun
  <2>2. CASE status[r] = "RUNNING"
    BY <1>0, <1>6, <1>b, <2>1, <2>2 DEF FinishRun, Update, CanFinish, Terminal, Active
  <2>3. CASE status[r] # "RUNNING"
    BY <1>0, <1>6, <1>a, <2>1, <2>3 DEF FinishRun, Update, CanFinish
  <2> QED BY <2>2, <2>3
<1>7. ASSUME NEW w \in Workers, WorkerStep(w), ~ClaimRun(w),
             \A outcome \in {"COMPLETED", "FAILED"} : ~FinishRun(w, outcome)
      PROVE  Goal
  BY <1>7, <1>a DEF WorkerStep, TaskStep, Receive, ReturnUnclaimed, AbandonCancelled,
     PassCancelCheck, Report, Revoked, TransientError, WorkerLost, Redeliver
<1>8. ASSUME NEW d \in Dispatchers, RecordFailure(d), UNCHANGED taskVars PROVE Goal
  <2> DEFINE r == disp[d].run
  <2>1. r \in Runs
    BY <1>0, <1>8 DEF RecordFailure, DispatcherHasRun
  <2>2. CASE AttemptsUsedUp(disp[d].attempts) /\ status[r] = "PENDING"
    BY <1>0, <1>8, <1>b, <2>1, <2>2
       DEF RecordFailure, MarkDispatchFailed, Update, Terminal, Active, taskVars
  <2>3. CASE ~(AttemptsUsedUp(disp[d].attempts) /\ status[r] = "PENDING")
    BY <1>0, <1>8, <1>a, <2>1, <2>3 DEF RecordFailure, MarkDispatchFailed, Update, taskVars
  <2> QED BY <2>2, <2>3
<1>9. ASSUME OutboxStep, UNCHANGED taskVars, \A d \in Dispatchers : ~RecordFailure(d) PROVE Goal
  BY <1>9, <1>a DEF OutboxStep, DispatcherStep, ClaimRow, CancelRow, BeginDispatch,
     PublishAccepted, PublishRefused, RecordSent, DispatcherCrash, LeaseLapses, Reconcile,
     LoseMessage, taskVars
<1>10. ASSUME SweepCommit PROVE Goal
  <2>1. \A r \in Swept : status[r] \in Active
    BY DEF Swept, Stale, Orphan, Lost, Active
  <2>2. CASE Swept = {}
    BY <1>0, <1>10, <1>a, <2>2 DEF SweepCommit
  <2>3. CASE Swept # {}
    <3>1. Promise!EndAll(Swept)
      BY <1>10, <2>1, <2>3 DEF SweepCommit, Promise!EndAll, Promise!Active, Active
    <3> QED BY <3>1 DEF Promise!Next, Swept
  <2> QED BY <2>2, <2>3
<1>11. ASSUME (\E r \in Runs : Age(r)) \/ SweepInspect \/ SweepAbort PROVE Goal
  BY <1>11, <1>a DEF Age, SweepInspect, SweepAbort
<1>12. CASE UNCHANGED vars
  BY <1>12, <1>a DEF vars
<1> QED
  BY <1>1, <1>2, <1>3, <1>4, <1>5, <1>6, <1>7, <1>8, <1>9, <1>10, <1>11, <1>12
     DEF Next, ApiStep, SweepStep

\* What RunPromise allows to become of one run's status.
LEMMA StatusMoves ==
  ASSUME Inv, [Next]_vars, NEW r \in Runs
  PROVE  \/ status'[r] = status[r]
         \/ status[r] = "NONE" /\ status'[r] = "PENDING"
         \/ status[r] = "PENDING" /\ status'[r] = "RUNNING"
         \/ status[r] \in Active /\ status'[r] \in Terminal
         \/ status[r] \in Terminal /\ status'[r] = "GONE"
<1>0. status \in [Runs -> RunStatus]
  BY DEF Inv, Typed, TypeOK, OutboxTypeOK
<1>1. [Promise!Next]_(Promise!vars)
  BY StepImplements
<1> USE DEF Promise!Active, Active, Promise!Terminal, Terminal
<1>2. ASSUME NEW q \in Runs, Promise!Create(q) \/ Promise!Start(q) \/ Promise!Delete(q)
      PROVE  \/ status'[r] = status[r]
             \/ status[r] = "NONE" /\ status'[r] = "PENDING"
             \/ status[r] = "PENDING" /\ status'[r] = "RUNNING"
             \/ status[r] \in Terminal /\ status'[r] = "GONE"
  BY <1>0, <1>2 DEF Promise!Create, Promise!Start, Promise!Delete
<1>3. ASSUME NEW q \in Runs, NEW outcome \in Terminal, Promise!EndAs(q, outcome)
      PROVE  status'[r] = status[r] \/ (status[r] \in Active /\ status'[r] \in Terminal)
  BY <1>0, <1>3 DEF Promise!EndAs
<1>4. ASSUME NEW S \in SUBSET Runs, Promise!EndAll(S)
      PROVE  status'[r] = status[r] \/ (status[r] \in Active /\ status'[r] \in Terminal)
  BY <1>0, <1>4 DEF Promise!EndAll
<1>5. CASE UNCHANGED Promise!vars
  BY <1>5 DEF Promise!vars
<1> QED BY <1>1, <1>2, <1>3, <1>4, <1>5 DEF Promise!Next

LEMMA ClaimedOnceStep ==
  ASSUME Inv, [Next]_vars
  PROVE  ClaimedOnce'
<1>0. /\ worker \in [Workers -> Worker]
      /\ starts \in [Runs -> 0..2]
      /\ status \in [Runs -> RunStatus]
      /\ WorkerHasRun /\ ClaimedOnce /\ Typed
  BY DEF Inv, Typed, TypeOK, OutboxTypeOK
<1> SUFFICES ASSUME NEW r \in Runs
             PROVE  /\ status'[r] \in {"NONE", "PENDING"} => starts'[r] = 0 /\ Executors(r)' = {}
                    /\ starts'[r] <= 1
                    /\ \A v, w \in Executors(r)' : v = w
  BY DEF ClaimedOnce
<1>1. ASSUME NEW w \in Workers, ClaimRun(w)
      PROVE  /\ status'[r] \in {"NONE", "PENDING"} => starts'[r] = 0 /\ Executors(r)' = {}
             /\ starts'[r] <= 1
             /\ \A v, u \in Executors(r)' : v = u
  <2>1. worker[w].run \in Runs /\ status[worker[w].run] = "PENDING"
    BY <1>0, <1>1 DEF ClaimRun, CanClaim, WorkerHasRun
  <2>2. CASE r = worker[w].run
    <3>1. starts[r] = 0 /\ Executors(r) = {}
      BY <1>0, <2>1, <2>2 DEF ClaimedOnce
    <3>2. status'[r] = "RUNNING" /\ starts'[r] = 1
      BY <1>0, <1>1, <2>2, <3>1 DEF ClaimRun
    <3>3. Executors(r)' \subseteq {w}
      BY <1>0, <1>1, <2>2, <3>1 DEF ClaimRun, Worker, Executors
    <3> QED BY <3>2, <3>3
  <2>3. CASE r # worker[w].run
    <3>1. status'[r] = status[r] /\ starts'[r] = starts[r]
      BY <1>0, <1>1, <2>3 DEF ClaimRun
    <3>2. Executors(r)' \subseteq Executors(r)
      BY <1>0, <1>1, <2>3 DEF ClaimRun, Worker, Executors
    <3> QED BY <1>0, <3>1, <3>2 DEF ClaimedOnce
  <2> QED BY <2>2, <2>3
<1>2. CASE starts' = starts /\ \A q \in Runs : Executors(q)' \subseteq Executors(q)
  <2>1. status'[r] \in {"NONE", "PENDING"} => status[r] \in {"NONE", "PENDING"}
    BY StatusMoves DEF Terminal
  <2> QED BY <1>0, <1>2, <2>1 DEF ClaimedOnce
<1> QED BY <1>0, <1>1, <1>2, OnlyClaimsStart

LEMMA Invariance == Spec => []Inv
<1>1. Init => Inv
  <2>1. Init => ClaimedOnce
    BY DEF Init, OutboxInit, IdleWorker, ClaimedOnce, Executors
  <2> QED BY <2>1, TypedInit DEF Inv
<1>2. Inv /\ [Next]_vars => Inv'
  BY TypedStep, ClaimedOnceStep DEF Inv
<1> QED BY <1>1, <1>2, PTL DEF Spec

\* A run is claimed at most once and executed by at most one worker, however
\* often the dispatchers publish its message or the broker delivers it.
THEOREM ClaimsAreExclusive == Spec => []SingleExecution
<1>1. Inv => SingleExecution
  BY DEF Inv, ClaimedOnce, SingleExecution
<1> QED BY <1>1, Invariance, PTL

\* No step of the API, of a worker, of a dispatcher or of the sweeper
\* overwrites the end of a run.
THEOREM EndsAreFinal == Spec => TerminalIsFinal
<1>1. Inv /\ [Next]_vars
        => [\A r \in Runs : status[r] \in Terminal => status'[r] \in {status[r], "GONE"}]_vars
  BY StatusMoves DEF Active, Terminal
<1> QED BY <1>1, Invariance, PTL DEF Spec, TerminalIsFinal

\* The runs as the API shows them behave as RunPromise says.
THEOREM RunsKeepThePromise == Spec => Implements
<1>1. Init => Promise!Init
  BY DEF Init, OutboxInit, Promise!Init
<1>2. Inv /\ [Next]_vars => [Promise!Next]_(Promise!vars)
  BY StepImplements
<1> QED BY <1>1, <1>2, Invariance, PTL DEF Spec, Implements, Promise!Safety

-----------------------------------------------------------------------------
(* The outbox never forgets a run that waits.                              *)

\* Only CancelRow and RecordFailure take a row out of the poller's sight:
\* the first where the run is not PENDING, the second failing it with the row.
LEMMA PendingStep ==
  ASSUME Inv, PendingIsDispatchable, [Next]_vars
  PROVE  PendingIsDispatchable'
<1>0. /\ status \in [Runs -> RunStatus]
      /\ outbox \in [Runs -> Row]
      /\ DispatcherHasRun
  BY DEF Inv, Typed, TypeOK, OutboxTypeOK
<1>a. ASSUME outbox' = outbox, \A r \in Runs : status'[r] = "PENDING" => status[r] = "PENDING"
      PROVE  PendingIsDispatchable'
  BY <1>a DEF PendingIsDispatchable
<1>1. ASSUME NEW r \in Runs, RunJob(r) PROVE PendingIsDispatchable'
  BY <1>0, <1>1 DEF RunJob, EnqueueOutboxRow, PendingIsDispatchable
<1>2. ASSUME outbox' = outbox, \A r \in Runs : ~RunJob(r) PROVE PendingIsDispatchable'
  <2>1. ASSUME NEW r \in Runs, status[r] = "NONE", status'[r] = "PENDING" PROVE FALSE
    <3>1. [Next]_vars /\ \A q \in Runs : ~RunJob(q)
      BY <1>2
    <3>2. ASSUME NEW q \in Runs,
                 AnnounceDispatchFailure(q) \/ StopJobRun(q) \/ RevokeOnly(q) \/ DeleteJobRun(q)
          PROVE  FALSE
      BY <1>0, <2>1, <3>2 DEF AnnounceDispatchFailure, StopJobRun, RevokeOnly, DeleteJobRun
    <3>3. ASSUME NEW w \in Workers, WorkerStep(w) PROVE FALSE
      BY <1>0, <2>1, <3>3 DEF WorkerStep, TaskStep, Receive, Revoked, ClaimRun, ReturnUnclaimed,
         AbandonCancelled, PassCancelCheck, FinishRun, Update, Report, TransientError, WorkerLost,
         Redeliver
    <3>4. CASE OutboxStep
      BY <1>0, <2>1, <3>4 DEF OutboxStep, DispatcherStep, ClaimRow, CancelRow, BeginDispatch,
         PublishAccepted, PublishRefused, RecordSent, RecordFailure, MarkDispatchFailed, Update,
         DispatcherCrash, LeaseLapses, Reconcile, LoseMessage
    <3>5. CASE (\E q \in Runs : Age(q)) \/ SweepStep
      BY <2>1, <3>5 DEF Age, SweepStep, SweepInspect, SweepCommit, SweepAbort
    <3>6. CASE UNCHANGED vars
      BY <2>1, <3>6 DEF vars
    <3> QED BY <3>1, <3>2, <3>3, <3>4, <3>5, <3>6 DEF Next, ApiStep
  <2>2. \A r \in Runs : status'[r] = "PENDING" => status[r] = "PENDING"
    BY <2>1, StatusMoves DEF Terminal
  <2> QED BY <1>2, <1>a, <2>2
<1>3. ASSUME NEW d \in Dispatchers, NEW r \in Runs, ClaimRow(d, r) PROVE PendingIsDispatchable'
  BY <1>0, <1>3 DEF ClaimRow, PendingIsDispatchable, Row
<1>4. ASSUME NEW d \in Dispatchers, NEW r \in Runs, CancelRow(d, r) PROVE PendingIsDispatchable'
  BY <1>0, <1>4 DEF CancelRow, Dispatchable, PendingIsDispatchable, Row
<1>5. ASSUME NEW d \in Dispatchers, RecordSent(d) PROVE PendingIsDispatchable'
  BY <1>0, <1>5 DEF RecordSent, PendingIsDispatchable, Row
<1>6. ASSUME NEW d \in Dispatchers, RecordFailure(d) PROVE PendingIsDispatchable'
  BY <1>0, <1>6 DEF RecordFailure, PutBack, MarkDispatchFailed, Update, DispatcherHasRun,
                    PendingIsDispatchable, Row
<1>7. ASSUME NEW r \in Runs, LeaseLapses(r) \/ Reconcile(r) PROVE PendingIsDispatchable'
  BY <1>0, <1>7 DEF LeaseLapses, Reconcile, PendingIsDispatchable, Row
<1>8. \/ \E r \in Runs : RunJob(r) \/ LeaseLapses(r) \/ Reconcile(r)
      \/ \E d \in Dispatchers : RecordSent(d) \/ RecordFailure(d)
      \/ \E d \in Dispatchers, r \in Runs : ClaimRow(d, r) \/ CancelRow(d, r)
      \/ outbox' = outbox
  <2>1. CASE OutboxStep
    BY <2>1 DEF OutboxStep, DispatcherStep, BeginDispatch, PublishAccepted, PublishRefused,
                DispatcherCrash, LoseMessage
  <2>2. CASE ApiStep
    BY <2>2 DEF ApiStep, AnnounceDispatchFailure, StopJobRun, RevokeOnly, DeleteJobRun
  <2>3. ASSUME NEW w \in Workers, WorkerStep(w) PROVE outbox' = outbox
    BY <2>3 DEF WorkerStep, TaskStep, Receive, Revoked, ClaimRun, ReturnUnclaimed,
       AbandonCancelled, PassCancelCheck, FinishRun, Report, TransientError, WorkerLost, Redeliver
  <2>4. CASE (\E r \in Runs : Age(r)) \/ SweepStep
    BY <2>4 DEF Age, SweepStep, SweepInspect, SweepCommit, SweepAbort
  <2>5. CASE UNCHANGED vars
    BY <2>5 DEF vars
  <2> QED BY <2>1, <2>2, <2>3, <2>4, <2>5 DEF Next
<1> QED BY <1>1, <1>2, <1>3, <1>4, <1>5, <1>6, <1>7, <1>8

\* A PENDING run's outbox row is always one that some poll claims, takes over
\* or reconciles: a run that waits is never stranded by the dispatchers.
THEOREM WaitingRunsAreDispatchable == Spec => []PendingIsDispatchable
<1>1. Init => PendingIsDispatchable
  BY DEF Init, OutboxInit, PendingIsDispatchable
<1> QED BY <1>1, PendingStep, Invariance, PTL DEF Spec

-----------------------------------------------------------------------------
(* Notifications.                                                          *)

\* Notices are added by Report, AnnounceDispatchFailure and SweepCommit only,
\* each of the status the run then has.
LEMMA NoticesStep ==
  ASSUME Inv, NoticesTellTheOutcome, [Next]_vars
  PROVE  NoticesTellTheOutcome'
<1>0. /\ status \in [Runs -> RunStatus]
      /\ notices \in [Runs -> SUBSET {"COMPLETED", "FAILED"}]
      /\ WorkerHasRun
  BY DEF Inv, Typed, TypeOK, OutboxTypeOK
<1>1. \A r \in Runs : \A n \in notices[r] : status'[r] \in {n, "GONE"}
  <2> SUFFICES ASSUME NEW r \in Runs, NEW n \in notices[r]
               PROVE  status'[r] \in {n, "GONE"}
    OBVIOUS
  <2>1. status[r] \in {n, "GONE"} /\ n \in {"COMPLETED", "FAILED"}
    BY <1>0 DEF NoticesTellTheOutcome
  <2> QED BY <2>1, StatusMoves DEF Active, Terminal
<1>2. ASSUME notices' = notices PROVE NoticesTellTheOutcome'
  BY <1>1, <1>2 DEF NoticesTellTheOutcome
<1>3. ASSUME NEW w \in Workers, Report(w) PROVE NoticesTellTheOutcome'
  BY <1>0, <1>1, <1>3 DEF Report, WorkerHasRun, NoticesTellTheOutcome
<1>4. ASSUME SweepCommit PROVE NoticesTellTheOutcome'
  BY <1>0, <1>1, <1>4 DEF SweepCommit, Swept, NoticesTellTheOutcome
<1>5. ASSUME NEW r \in Runs, AnnounceDispatchFailure(r) PROVE NoticesTellTheOutcome'
  BY <1>0, <1>1, <1>5 DEF AnnounceDispatchFailure, NoticesTellTheOutcome
<1>6. \/ \E w \in Workers : Report(w)
      \/ \E r \in Runs : AnnounceDispatchFailure(r)
      \/ SweepCommit
      \/ notices' = notices
  <2>1. ASSUME NEW w \in Workers, WorkerStep(w) PROVE Report(w) \/ notices' = notices
    BY <2>1 DEF WorkerStep, TaskStep, Receive, Revoked, ClaimRun, ReturnUnclaimed,
       AbandonCancelled, PassCancelCheck, FinishRun, TransientError, WorkerLost, Redeliver
  <2>2. CASE ApiStep
    BY <2>2 DEF ApiStep, RunJob, StopJobRun, RevokeOnly, DeleteJobRun, taskVars
  <2>3. CASE (\E r \in Runs : Age(r)) \/ SweepStep
    BY <2>3 DEF Age, SweepStep, SweepInspect, SweepAbort
  <2> QED BY <2>1, <2>2, <2>3 DEF Next, vars, taskVars
<1> QED BY <1>2, <1>3, <1>4, <1>5, <1>6

\* Nobody is told that a run completed or failed when it ended otherwise.
THEOREM NoticesAreTrue == Spec => []NoticesTellTheOutcome
<1>1. Init => NoticesTellTheOutcome
  BY DEF Init, NoticesTellTheOutcome
<1> QED BY <1>1, NoticesStep, Invariance, PTL DEF Spec

-----------------------------------------------------------------------------
(* Leases, when every dispatcher is done before its lease ends.            *)

\* A dispatcher at work holds the lease of its row, and holds it alone.
LeaseHeld ==
  \A d \in Dispatchers : disp[d].pc # "idle" =>
    /\ outbox[disp[d].run].st = "DISPATCHING" /\ outbox[disp[d].run].lease = "held"
    /\ \A e \in Dispatchers : disp[e].pc # "idle" /\ disp[e].run = disp[d].run => e = d

\* A row is inserted together with its run.
NoRowWithoutRun == \A r \in Runs : status[r] = "NONE" => outbox[r].st = "NONE"

LEMMA LeaseStep ==
  ASSUME SlowDispatchers = {}, Inv, LeaseHeld, NoRowWithoutRun, [Next]_vars
  PROVE  LeaseHeld'
<1> USE OutboxAssumption DEF OutboxAssumption
<1>0. /\ outbox \in [Runs -> Row]
      /\ disp \in [Dispatchers -> Dispatcher]
      /\ DispatcherHasRun
  BY DEF Inv, Typed, TypeOK, OutboxTypeOK
<1>a. ASSUME outbox' = outbox, disp' = disp PROVE LeaseHeld'
  BY <1>a DEF LeaseHeld
<1>b. ASSUME NEW r \in Runs, \A d \in Dispatchers : disp[d].pc # "idle" => disp[d].run # r,
             disp' = disp, \A q \in Runs : q # r => outbox'[q] = outbox[q]
      PROVE  LeaseHeld'
  BY <1>0, <1>b DEF LeaseHeld, DispatcherHasRun
<1>c. ASSUME NEW d \in Dispatchers, disp[d].pc # "idle", disp' = [disp EXCEPT ![d] = IdleDispatcher],
             \A q \in Runs : q # disp[d].run => outbox'[q] = outbox[q]
      PROVE  LeaseHeld'
  <2> SUFFICES ASSUME NEW e \in Dispatchers, disp'[e].pc # "idle"
               PROVE  /\ outbox'[disp'[e].run].st = "DISPATCHING"
                      /\ outbox'[disp'[e].run].lease = "held"
                      /\ \A f \in Dispatchers :
                           disp'[f].pc # "idle" /\ disp'[f].run = disp'[e].run => f = e
    BY DEF LeaseHeld
  <2>1. e # d /\ disp'[e] = disp[e]
    BY <1>0, <1>c DEF IdleDispatcher, DispatcherAt
  <2>2. disp[e].run # disp[d].run /\ disp[e].run \in Runs
    BY <1>0, <1>c, <2>1 DEF LeaseHeld, DispatcherHasRun
  <2>3. \A f \in Dispatchers : disp'[f].pc # "idle" => disp'[f] = disp[f]
    BY <1>0, <1>c DEF IdleDispatcher, DispatcherAt
  <2> QED BY <1>c, <2>1, <2>2, <2>3 DEF LeaseHeld
<1>d. ASSUME NEW d \in Dispatchers, disp[d].pc # "idle", disp'[d].run = disp[d].run,
             \A e \in Dispatchers : e # d => disp'[e] = disp[e], outbox' = outbox
      PROVE  LeaseHeld'
  BY <1>0, <1>d DEF LeaseHeld
<1>1. ASSUME NEW r \in Runs, RunJob(r) PROVE LeaseHeld'
  <2>1. outbox[r].st = "NONE"
    BY <1>1 DEF RunJob, EnqueueOutboxRow, NoRowWithoutRun
  <2> QED BY <1>0, <1>1, <1>b, <2>1 DEF RunJob, EnqueueOutboxRow, LeaseHeld
<1>2. ASSUME NEW d \in Dispatchers, NEW r \in Runs, ClaimRow(d, r) PROVE LeaseHeld'
  <2>1. \A e \in Dispatchers : disp[e].pc # "idle" => disp[e].run # r
    BY <1>2 DEF ClaimRow, LeaseAllows, LeaseHeld
  <2>2. /\ outbox'[r].st = "DISPATCHING" /\ outbox'[r].lease = "held"
        /\ \A q \in Runs : q # r => outbox'[q] = outbox[q]
        /\ disp'[d].run = r
        /\ \A e \in Dispatchers : e # d => disp'[e] = disp[e]
    BY <1>0, <1>2 DEF ClaimRow, DispatcherAt
  <2> QED BY <1>0, <2>1, <2>2 DEF LeaseHeld, DispatcherHasRun
<1>3. ASSUME NEW d \in Dispatchers, NEW r \in Runs, CancelRow(d, r) PROVE LeaseHeld'
  <2>1. \A e \in Dispatchers : disp[e].pc # "idle" => disp[e].run # r
    BY <1>3 DEF CancelRow, LeaseAllows, LeaseHeld
  <2> QED BY <1>0, <1>3, <1>b, <2>1 DEF CancelRow
<1>4. ASSUME NEW d \in Dispatchers, BeginDispatch(d) PROVE LeaseHeld'
  BY <1>0, <1>4, <1>d DEF BeginDispatch, LeaseHeld
<1>5. ASSUME NEW d \in Dispatchers, PublishAccepted(d) \/ PublishRefused(d) PROVE LeaseHeld'
  <2>1. disp[d].pc # "idle" /\ disp'[d].run = disp[d].run
    BY <1>0, <1>5 DEF PublishAccepted, PublishRefused, Dispatcher
  <2> QED BY <1>0, <1>5, <1>d, <2>1 DEF PublishAccepted, PublishRefused
<1>6. ASSUME NEW d \in Dispatchers, RecordSent(d) \/ RecordFailure(d) \/ DispatcherCrash(d)
      PROVE  LeaseHeld'
  BY <1>0, <1>6, <1>c DEF RecordSent, RecordFailure, DispatcherCrash
<1>7. ASSUME NEW r \in Runs, LeaseLapses(r) \/ Reconcile(r) PROVE LeaseHeld'
  <2>1. \A e \in Dispatchers : disp[e].pc # "idle" => disp[e].run # r
    BY <1>7 DEF LeaseLapses, Reconcile, LeaseHeld
  <2> QED BY <1>0, <1>7, <1>b, <2>1 DEF LeaseLapses, Reconcile
<1>8. ASSUME NEW r \in Runs, LoseMessage(r) PROVE LeaseHeld'
  BY <1>8, <1>a DEF LoseMessage
<1>9. ASSUME NEW r \in Runs,
             AnnounceDispatchFailure(r) \/ StopJobRun(r) \/ RevokeOnly(r) \/ DeleteJobRun(r)
      PROVE  LeaseHeld'
  BY <1>9, <1>a DEF AnnounceDispatchFailure, StopJobRun, RevokeOnly, DeleteJobRun
<1>10. ASSUME NEW w \in Workers, WorkerStep(w) PROVE LeaseHeld'
  BY <1>10, <1>a DEF WorkerStep, TaskStep, Receive, Revoked, ClaimRun, ReturnUnclaimed,
     AbandonCancelled, PassCancelCheck, FinishRun, Report, TransientError, WorkerLost, Redeliver
<1>11. CASE (\E r \in Runs : Age(r)) \/ SweepStep
  BY <1>11, <1>a DEF Age, SweepStep, SweepInspect, SweepCommit, SweepAbort
<1>12. CASE UNCHANGED vars
  BY <1>12, <1>a DEF vars
<1> QED
  BY <1>1, <1>2, <1>3, <1>4, <1>5, <1>6, <1>7, <1>8, <1>9, <1>10, <1>11, <1>12
     DEF Next, ApiStep, OutboxStep, DispatcherStep

LEMMA NoRowStep ==
  ASSUME Inv, LeaseHeld, NoRowWithoutRun, [Next]_vars
  PROVE  NoRowWithoutRun'
<1>0. /\ outbox \in [Runs -> Row]
      /\ status \in [Runs -> RunStatus]
      /\ DispatcherHasRun
  BY DEF Inv, Typed, TypeOK, OutboxTypeOK
<1> SUFFICES ASSUME NEW r \in Runs, status'[r] = "NONE"
             PROVE  outbox'[r].st = "NONE"
  BY DEF NoRowWithoutRun
<1>1. status[r] = "NONE"
  BY StatusMoves DEF Terminal
<1>2. outbox[r].st = "NONE"
  BY <1>1 DEF NoRowWithoutRun
<1>3. \A d \in Dispatchers : disp[d].pc # "idle" => disp[d].run # r
  BY <1>2 DEF LeaseHeld
<1>4. CASE ApiStep
  BY <1>0, <1>2, <1>4 DEF ApiStep, RunJob, EnqueueOutboxRow, AnnounceDispatchFailure,
                          StopJobRun, RevokeOnly, DeleteJobRun
<1>5. CASE OutboxStep
  BY <1>0, <1>2, <1>3, <1>5 DEF OutboxStep, DispatcherStep, ClaimRow, CancelRow, LeaseAllows,
     BeginDispatch, PublishAccepted, PublishRefused, RecordSent, RecordFailure, DispatcherCrash,
     LeaseLapses, Reconcile, LoseMessage
<1>6. ASSUME NEW w \in Workers, WorkerStep(w) PROVE outbox' = outbox
  BY <1>6 DEF WorkerStep, TaskStep, Receive, Revoked, ClaimRun, ReturnUnclaimed,
     AbandonCancelled, PassCancelCheck, FinishRun, Report, TransientError, WorkerLost, Redeliver
<1>7. CASE (\E q \in Runs : Age(q)) \/ SweepStep
  BY <1>2, <1>7 DEF Age, SweepStep, SweepInspect, SweepCommit, SweepAbort
<1>8. CASE UNCHANGED vars
  BY <1>2, <1>8 DEF vars
<1> QED BY <1>2, <1>4, <1>5, <1>6, <1>7, <1>8 DEF Next

\* While no dispatcher outlives its lease, no two are at work on one row.
THEOREM LeasesExclude == ASSUME SlowDispatchers = {} PROVE Spec => []LeaseExclusive
<1>1. Init => LeaseHeld /\ NoRowWithoutRun
  BY DEF Init, OutboxInit, IdleDispatcher, DispatcherAt, LeaseHeld, NoRowWithoutRun
<1>2. Inv /\ LeaseHeld /\ NoRowWithoutRun /\ [Next]_vars => (LeaseHeld /\ NoRowWithoutRun)'
  BY LeaseStep, NoRowStep
<1>3. LeaseHeld => LeaseExclusive
  BY DEF LeaseHeld, LeaseExclusive
<1> QED BY <1>1, <1>2, <1>3, Invariance, PTL DEF Spec

-----------------------------------------------------------------------------
(* The sweeper, when every worker answers it and it is quick.              *)

\* A run that is being executed is never old enough for sweep_stale_job_runs,
\* and if the inspection did not see its worker it was claimed since.
LiveRunsAreYoung ==
  \A r \in Runs : status[r] = "RUNNING" /\ Executors(r) # {} =>
    /\ age[r] <= 1
    /\ sweep.pc = "inspected" /\ r \in sweep.suspects => age[r] = 0

LEMMA YoungStep ==
  ASSUME SilentWorkers = {}, SlowSweeper = FALSE, Inv, LiveRunsAreYoung, [Next]_vars
  PROVE  LiveRunsAreYoung'
<1>0. /\ age \in [Runs -> AgeOf]
      /\ status \in [Runs -> RunStatus]
      /\ WorkerHasRun /\ ClaimedOnce
  BY DEF Inv, Typed, TypeOK, OutboxTypeOK
<1> SUFFICES ASSUME NEW r \in Runs, status'[r] = "RUNNING", Executors(r)' # {}
             PROVE  /\ age'[r] <= 1
                    /\ sweep'.pc = "inspected" /\ r \in sweep'.suspects => age'[r] = 0
  BY DEF LiveRunsAreYoung
<1> DEFINE Young == /\ age[r] <= 1
                    /\ sweep.pc = "inspected" /\ r \in sweep.suspects => age[r] = 0
<1>1. ASSUME NEW w \in Workers, ClaimRun(w), worker[w].run = r PROVE age'[r] = 0
  BY <1>0, <1>1 DEF ClaimRun
<1>2. ASSUME \A w \in Workers : ClaimRun(w) => worker[w].run # r
      PROVE  status[r] = "RUNNING" /\ Executors(r) # {}
  <2>0. worker \in [Workers -> Worker]
    BY DEF Inv, Typed, TypeOK
  <2>1. Executors(r) # {}
    <3>1. ASSUME NEW w \in Workers, ClaimRun(w) PROVE Executors(r)' \subseteq Executors(r)
      BY <1>2, <2>0, <3>1 DEF ClaimRun, Executors, Worker
    <3> QED BY <3>1, OnlyClaimsStart DEF Inv
  <2>2. status[r] \notin {"NONE", "PENDING"}
    BY <1>0, <2>1 DEF ClaimedOnce
  <2> QED BY <2>1, <2>2, StatusMoves DEF Active, Terminal
<1>3. (\A w \in Workers : ClaimRun(w) => worker[w].run # r) => Young
  BY <1>2 DEF LiveRunsAreYoung
<1>4. ASSUME NEW w \in Workers, WorkerStep(w) PROVE
        /\ age'[r] <= 1
        /\ sweep'.pc = "inspected" /\ r \in sweep'.suspects => age'[r] = 0
  <2>1. CASE ClaimRun(w) /\ worker[w].run = r
    BY <1>1, <2>1
  <2>2. CASE ~(ClaimRun(w) /\ worker[w].run = r)
    <3>1. age'[r] = age[r] /\ sweep' = sweep
      BY <1>0, <1>4, <2>2 DEF WorkerStep, TaskStep, Receive, Revoked, ClaimRun, ReturnUnclaimed,
         AbandonCancelled, PassCancelCheck, FinishRun, Report, TransientError, WorkerLost, Redeliver
    <3>2. CASE \E v \in Workers : ClaimRun(v) /\ worker[v].run = r
      BY <1>1, <3>2
    <3>3. CASE \A v \in Workers : ClaimRun(v) => worker[v].run # r
      BY <1>3, <3>1, <3>3
    <3> QED BY <3>2, <3>3
  <2> QED BY <2>1, <2>2
<1>5. ASSUME NEW q \in Runs, Age(q), Young, status[r] = "RUNNING", Executors(r) # {} PROVE
        /\ age'[r] <= 1
        /\ sweep'.pc = "inspected" /\ r \in sweep'.suspects => age'[r] = 0
  <2>1. sweep' = sweep /\ (q # r => age'[r] = age[r])
    BY <1>0, <1>5 DEF Age
  <2>2. CASE q = r
    <3>1. age[r] = 0 /\ sweep.pc = "idle" /\ age'[r] = 1
      BY <1>0, <1>5, <2>2 DEF Age, AgeOf
    <3> QED BY <2>1, <3>1
  <2> QED BY <1>5, <2>1, <2>2
<1>6. ASSUME SweepInspect, Young, Executors(r) # {} PROVE
        /\ age'[r] <= 1
        /\ sweep'.pc = "inspected" /\ r \in sweep'.suspects => age'[r] = 0
  <2>1. age' = age /\ r \notin sweep'.suspects
    BY <1>6 DEF SweepInspect, Executors
  <2> QED BY <1>6, <2>1
<1>7. ASSUME Young, SweepCommit \/ SweepAbort PROVE
        /\ age'[r] <= 1
        /\ sweep'.pc = "inspected" /\ r \in sweep'.suspects => age'[r] = 0
  BY <1>7 DEF SweepCommit, SweepAbort, IdleSweeper
<1>8. ASSUME Young, ApiStep \/ (OutboxStep /\ UNCHANGED taskVars) \/ UNCHANGED vars PROVE
        /\ age'[r] <= 1
        /\ sweep'.pc = "inspected" /\ r \in sweep'.suspects => age'[r] = 0
  BY <1>8 DEF ApiStep, RunJob, AnnounceDispatchFailure, StopJobRun, RevokeOnly,
         DeleteJobRun, taskVars, vars
<1>9. CASE \E v \in Workers : ClaimRun(v) /\ worker[v].run = r
  <2>1. PICK v \in Workers : ClaimRun(v)
    BY <1>9
  <2> QED BY <1>4, <2>1 DEF WorkerStep, TaskStep
<1>10. CASE \A v \in Workers : ClaimRun(v) => worker[v].run # r
  BY <1>2, <1>3, <1>4, <1>5, <1>6, <1>7, <1>8, <1>10 DEF Next, SweepStep
<1> QED BY <1>9, <1>10

\* While every worker answers the inspection and a sweep is shorter than its
\* grace, the sweeper never fails a run that a worker is executing.
THEOREM SweeperSparesLiveRuns ==
  ASSUME SilentWorkers = {}, SlowSweeper = FALSE
  PROVE  Spec => NoLiveRunFailed
<1>1. Init => LiveRunsAreYoung
  BY DEF Init, OutboxInit, LiveRunsAreYoung
<1>2. Inv /\ LiveRunsAreYoung /\ [Next]_vars => LiveRunsAreYoung'
  BY YoungStep
<1>3. Inv /\ LiveRunsAreYoung /\ [Next]_vars
        => [\A r \in Runs : sweep.pc = "inspected" /\ sweep'.pc = "idle" /\ Executors(r) # {}
              => status'[r] = status[r]]_vars
  <2> SUFFICES ASSUME Inv, LiveRunsAreYoung, Next, NEW r \in Runs, sweep.pc = "inspected",
                      sweep'.pc = "idle", Executors(r) # {}
               PROVE  status'[r] = status[r]
    OBVIOUS
  <2>1. /\ status \in [Runs -> RunStatus]
        /\ ClaimedOnce
    BY DEF Inv, Typed, TypeOK, OutboxTypeOK
  <2>2. SweepCommit \/ SweepAbort
    <3>1. ASSUME NEW w \in Workers, WorkerStep(w) PROVE sweep' = sweep
      BY <3>1 DEF WorkerStep, TaskStep, Receive, Revoked, ClaimRun, ReturnUnclaimed,
         AbandonCancelled, PassCancelCheck, FinishRun, Report, TransientError, WorkerLost, Redeliver
    <3>2. ASSUME ApiStep \/ (OutboxStep /\ UNCHANGED taskVars) PROVE sweep' = sweep
      BY <3>2 DEF ApiStep, RunJob, AnnounceDispatchFailure, StopJobRun, RevokeOnly,
         DeleteJobRun, taskVars
    <3> QED BY <3>1, <3>2 DEF Next, Age, SweepStep, SweepInspect
  <2>3. r \notin Swept
    BY <2>1 DEF Swept, Stale, Orphan, Lost, LiveRunsAreYoung, ClaimedOnce
  <2> QED BY <2>1, <2>2, <2>3 DEF SweepCommit, SweepAbort
<1> QED BY <1>1, <1>2, <1>3, Invariance, PTL DEF Spec, NoLiveRunFailed

=============================================================================
