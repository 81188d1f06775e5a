------------------------ MODULE InventoryScans_proofs ------------------------
(***************************************************************************)
(* Proofs about InventoryScans, for every number of scans, dispatchers and *)
(* workers and every bound.                                                *)
(***************************************************************************)
EXTENDS InventoryScans, Outbox_proofs

-----------------------------------------------------------------------------
(* Type correctness.                                                       *)

\* A worker that is at work holds the message of a scan.
WorkerHasRun == \A w \in Workers : worker[w].pc # "idle" => worker[w].run \in Runs

Typed == TypeOK /\ DispatcherHasRun /\ WorkerHasRun

LEMMA TypedInit == Init => Typed
BY OutboxAssumption
   DEF OutboxAssumption, Init, OutboxInit, Typed, TypeOK, OutboxTypeOK, DispatcherHasRun,
       WorkerHasRun, IdleDispatcher, DispatcherAt, IdleWorker, WorkerAt, Row, RowStatus,
       Lease, Dispatcher, Worker, RunStatus, JobStatus

LEMMA TypedApiStep ==
  ASSUME Typed, ApiStep
  PROVE  Typed'
<1> USE OutboxAssumption DEF OutboxAssumption
<1>1. ASSUME NEW r \in Runs, CreateScan(r) PROVE Typed'
  <2>1. status' \in [Runs -> RunStatus]
    BY <1>1 DEF CreateScan, EnqueueOutboxRow, Typed, TypeOK, OutboxTypeOK, RunStatus, JobStatus
  <2>2. outbox' \in [Runs -> Row]
    BY <1>1 DEF CreateScan, EnqueueOutboxRow, Typed, TypeOK, OutboxTypeOK, Row, RowStatus, Lease
  <2>3. snmp' \subseteq Runs
    BY <1>1 DEF CreateScan, Typed, TypeOK
  <2> QED
    BY <1>1, <2>1, <2>2, <2>3 DEF CreateScan, EnqueueOutboxRow, Typed, TypeOK, OutboxTypeOK,
                                  DispatcherHasRun, WorkerHasRun
<1>2. ASSUME NEW r \in Runs, StopScan(r) \/ StopRolledBack(r) \/ DeleteScan(r) PROVE Typed'
  <2>1. status' \in [Runs -> RunStatus]
    BY <1>2 DEF StopScan, StopRolledBack, DeleteScan, Typed, TypeOK, OutboxTypeOK, RunStatus,
                JobStatus
  <2>2. flag' \in [Runs -> BOOLEAN]
    BY <1>2, Zenon DEF StopScan, StopRolledBack, DeleteScan, Typed, TypeOK
  <2> QED
    BY <1>2, <2>1, <2>2 DEF StopScan, StopRolledBack, DeleteScan, Typed, TypeOK, OutboxTypeOK,
                            DispatcherHasRun, WorkerHasRun
<1> QED BY <1>1, <1>2 DEF ApiStep

LEMMA TypedWorkerStep ==
  ASSUME Typed, NEW w \in Workers, WorkerStep(w)
  PROVE  Typed'
<1> USE OutboxAssumption DEF OutboxAssumption
<1>0. /\ status \in [Runs -> RunStatus]
      /\ queue \in [Runs -> 0..MaxCopies]
      /\ worker \in [Workers -> Worker]
      /\ flag \in [Runs -> BOOLEAN]
      /\ late \in [Runs -> 0..3]
      /\ WorkerHasRun
  BY DEF Typed, TypeOK, OutboxTypeOK
<1>a. \A r \in Runs : AddCopy(queue[r]) \in 0..MaxCopies
  BY <1>0, CountersBounded
<1>b. worker[w].pc # "idle" => worker[w].run \in Runs
  BY <1>0 DEF WorkerHasRun
<1>c. ASSUME worker' = [worker EXCEPT ![w] = IdleWorker]
      PROVE  worker' \in [Workers -> Worker] /\ WorkerHasRun'
  BY <1>0, <1>c DEF IdleWorker, WorkerAt, Worker, WorkerHasRun
<1>d. ASSUME NEW pc \in Executing, worker[w].pc # "idle", Goto(w, pc)
      PROVE  worker' \in [Workers -> Worker] /\ WorkerHasRun'
  <2>1. worker' \in [Workers -> Worker]
    BY <1>0, <1>d DEF Goto, Executing, Worker
  <2>2. WorkerHasRun'
    BY <1>0, <1>d DEF Goto, Executing, Worker, WorkerHasRun
  <2> QED BY <2>1, <2>2
<1>e. ASSUME NEW again \in BOOLEAN, worker[w].pc # "idle", Leave(w, again)
      PROVE  worker' \in [Workers -> Worker] /\ WorkerHasRun'
  <2>1. worker' \in [Workers -> Worker]
    BY <1>0, <1>e DEF Leave, Worker
  <2>2. WorkerHasRun'
    BY <1>0, <1>e DEF Leave, Worker, WorkerHasRun
  <2> QED BY <2>1, <2>2
<1>f. InTry(w) => worker[w].pc # "idle"
  BY DEF InTry, Executing
<1>1. ASSUME NEW r \in Runs, Receive(w, r) PROVE Typed'
  <2>1. queue' \in [Runs -> 0..MaxCopies]
    BY <1>0, <1>1, CountersBounded DEF Receive
  <2>2. worker' \in [Workers -> Worker] /\ WorkerHasRun'
    BY <1>0, <1>1 DEF Receive, WorkerAt, Worker, WorkerHasRun
  <2> QED BY <1>1, <2>1, <2>2 DEF Receive, Typed, TypeOK, OutboxTypeOK, DispatcherHasRun
<1>2. CASE ClaimScan(w)
  <2>1. worker' \in [Workers -> Worker] /\ WorkerHasRun'
    BY <1>2, <1>d DEF ClaimScan, Executing
  <2>2. status' \in [Runs -> RunStatus]
    BY <1>0, <1>2 DEF ClaimScan, RunStatus, JobStatus
  <2> QED BY <1>2, <2>1, <2>2 DEF ClaimScan, Typed, TypeOK, OutboxTypeOK, DispatcherHasRun
<1>3. CASE ReturnUnclaimed(w) \/ SeeInactive(w) \/ ReleaseFails(w)
  <2>1. worker' \in [Workers -> Worker] /\ WorkerHasRun'
    BY <1>3, <1>c, <1>e, <1>f DEF ReturnUnclaimed, SeeInactive, ReleaseFails
  <2> QED
    BY <1>3, <2>1 DEF ReturnUnclaimed, SeeInactive, ReleaseFails, Typed, TypeOK, OutboxTypeOK,
                      DispatcherHasRun
<1>4. CASE SeeCancelFlag(w) \/ FinishScan(w) \/ FailScan(w) \/ ReleaseScan(w)
  <2>1. worker' \in [Workers -> Worker] /\ WorkerHasRun'
    BY <1>4, <1>e, <1>f DEF SeeCancelFlag, FinishScan, FailScan, ReleaseScan, CanRelease
  <2>2. status' \in [Runs -> RunStatus]
    BY <1>0, <1>4 DEF SeeCancelFlag, FinishScan, FailScan, ReleaseScan, ReleaseForRetry, Update,
                      RunStatus, JobStatus
  <2> QED
    BY <1>4, <2>1, <2>2 DEF SeeCancelFlag, FinishScan, FailScan, ReleaseScan, Typed, TypeOK,
                            OutboxTypeOK, DispatcherHasRun
<1>5. CASE SeeActive(w)
  BY <1>5, <1>d DEF SeeActive, Executing, Typed, TypeOK, OutboxTypeOK, DispatcherHasRun
<1>6. CASE RecordHosts(w) \/ RecordPorts(w)
  <2>1. worker' \in [Workers -> Worker] /\ WorkerHasRun'
    BY <1>6, <1>d DEF RecordHosts, RecordPorts, Executing
  <2>2. late' \in [Runs -> 0..3]
    BY <1>0, <1>6 DEF RecordHosts, RecordPorts, Commit
  <2> QED
    BY <1>6, <2>1, <2>2 DEF RecordHosts, RecordPorts, Commit, Typed, TypeOK, OutboxTypeOK,
                            DispatcherHasRun
<1>7. CASE CleanUp(w)
  <2>1. queue' \in [Runs -> 0..MaxCopies]
    BY <1>0, <1>7, <1>a, <1>b DEF CleanUp
  <2>2. flag' \in [Runs -> BOOLEAN]
    BY <1>0, <1>7 DEF CleanUp
  <2> QED BY <1>7, <1>c, <2>1, <2>2 DEF CleanUp, Typed, TypeOK, OutboxTypeOK, DispatcherHasRun
<1>8. CASE WorkerLost(w)
  <2>1. queue' \in [Runs -> 0..MaxCopies]
    BY <1>0, <1>8, <1>a, <1>b DEF WorkerLost
  <2> QED BY <1>8, <1>c, <2>1 DEF WorkerLost, Typed, TypeOK, OutboxTypeOK, DispatcherHasRun
<1>9. CASE Redeliver(w)
  <2>1. queue' \in [Runs -> 0..MaxCopies]
    BY <1>0, <1>9, <1>a, <1>b DEF Redeliver
  <2> QED BY <1>9, <2>1 DEF Redeliver, Typed, TypeOK, OutboxTypeOK, DispatcherHasRun, WorkerHasRun
<1> QED
  BY <1>1, <1>2, <1>3, <1>4, <1>5, <1>6, <1>7, <1>8, <1>9 DEF WorkerStep

LEMMA TypedStep ==
  ASSUME Typed, [Next]_vars
  PROVE  Typed'
<1>1. CASE ApiStep
  BY <1>1, TypedApiStep
<1>2. CASE OutboxStep /\ UNCHANGED taskVars
  BY <1>2, OutboxTyped DEF taskVars, Typed, TypeOK, WorkerHasRun
<1>3. CASE \E w \in Workers : WorkerStep(w)
  BY <1>3, TypedWorkerStep
<1>4. CASE UNCHANGED vars
  BY <1>4 DEF vars, Typed, TypeOK, OutboxTypeOK, DispatcherHasRun, WorkerHasRun
<1> QED BY <1>1, <1>2, <1>3, <1>4 DEF Next

\* Every reachable state is a state of the types above: the scan's status and
\* its message keep to the vocabulary of the code, claims given back included.
THEOREM ScansTypeCorrect == Spec => []TypeOK
<1>1. Spec => []Typed
  BY TypedInit, TypedStep, PTL DEF Spec
<1> QED BY <1>1, PTL DEF Typed

-----------------------------------------------------------------------------
(* The scan's end.                                                         *)

\* What a step may do to the status of one scan.
Moves(old, new) ==
  \/ new = old
  \/ old = "NONE" /\ new = "PENDING"
  \/ old \in Active /\ new \in Active \cup Terminal
  \/ old \in JobStatus /\ new = "GONE"

LEMMA StatusMoves ==
  ASSUME Typed, [Next]_vars, NEW r \in Runs
  PROVE  Moves(status[r], status'[r])
<1>0. status \in [Runs -> RunStatus]
  BY DEF Typed, TypeOK, OutboxTypeOK
<1> USE <1>0 DEF Moves, Active, Terminal, JobStatus
<1>1. CASE ApiStep
  BY <1>1 DEF ApiStep, CreateScan, EnqueueOutboxRow, StopScan, StopRolledBack, DeleteScan, CanCancel
<1>2. CASE OutboxStep
  BY <1>2, OutboxMovesStatus DEF Typed, TypeOK
<1>3. ASSUME NEW w \in Workers, WorkerStep(w) PROVE Moves(status[r], status'[r])
  <2>1. CASE ClaimScan(w)
    BY <2>1 DEF ClaimScan, CanClaim
  <2>2. CASE SeeCancelFlag(w) \/ FinishScan(w) \/ FailScan(w) \/ ReleaseScan(w)
    BY <2>2 DEF SeeCancelFlag, FinishScan, FailScan, ReleaseScan, ReleaseForRetry, Update,
                CanFinish, CanRelease
  <2>3. CASE status' = status
    BY <2>3
  <2> QED
    BY <1>3, <2>1, <2>2, <2>3 DEF WorkerStep, Receive, ReturnUnclaimed, SeeInactive, SeeActive,
       RecordHosts, RecordPorts, Commit, ReleaseFails, CleanUp, WorkerLost, Redeliver
<1>4. CASE UNCHANGED vars
  BY <1>4 DEF vars
<1> QED BY <1>1, <1>2, <1>3, <1>4 DEF Next

-----------------------------------------------------------------------------
(* Who scans.                                                              *)

\* An nmap scan that waits has no executor, and one that was claimed has at
\* most one: a worker that gives the claim back leaves in the same step.
ClaimedByOne(r) ==
  /\ status[r] \in {"NONE", "PENDING"} => Executors(r) = {}
  /\ \A v, w \in Executors(r) : v = w

\* What an nmap scan may still record after its end is what its one executor
\* has in hand.
LateIsInHand(r) ==
  /\ status[r] \notin Terminal \cup {"GONE"} => late[r] = 0
  /\ late[r] <= 2
  /\ \A w \in Executors(r) : /\ worker[w].pc = "recording" => late[r] = 0
                             /\ worker[w].pc = "ports" => late[r] <= 1

ScanInv == Typed /\ \A r \in Runs \ snmp : ClaimedByOne(r) /\ LateIsInHand(r)

LEMMA ScanInitial == Init => ScanInv
<1> SUFFICES ASSUME Init PROVE ScanInv
  OBVIOUS
<1>1. Typed
  BY TypedInit
<1>2. \A r \in Runs : Executors(r) = {} /\ status[r] = "NONE" /\ late[r] = 0
  BY DEF Init, OutboxInit, Executors, Executing, IdleWorker, WorkerAt
<1> QED BY <1>1, <1>2 DEF ScanInv, ClaimedByOne, LateIsInHand

\* A step that makes nobody an executor of the scan, takes none of them to its
\* next stage, records nothing and leaves no executor to a scan it gives back.
LEMMA NothingNew ==
  ASSUME ScanInv, [Next]_vars, NEW r \in Runs \ snmp,
         late'[r] = late[r],
         status[r] = "RUNNING" /\ status'[r] = "PENDING" => Executors(r)' = {},
         \A w \in Executors(r)' : w \in Executors(r) /\ worker'[w].pc = worker[w].pc
  PROVE  (ClaimedByOne(r) /\ LateIsInHand(r))'
<1>1. Moves(status[r], status'[r]) /\ status[r] \in RunStatus
  BY StatusMoves DEF ScanInv, Typed, TypeOK, OutboxTypeOK
<1>2. ClaimedByOne(r) /\ LateIsInHand(r)
  BY DEF ScanInv
<1>3. ClaimedByOne(r)'
  BY <1>1, <1>2 DEF Moves, ClaimedByOne, RunStatus, JobStatus, Active, Terminal
<1>4. LateIsInHand(r)'
  BY <1>1, <1>2 DEF Moves, LateIsInHand, RunStatus, JobStatus, Active, Terminal
<1> QED BY <1>3, <1>4

\* The steps of a worker.
LEMMA ScanWorkerStep ==
  ASSUME ScanInv, [Next]_vars, NEW w \in Workers, WorkerStep(w), NEW r \in Runs \ snmp
  PROVE  (ClaimedByOne(r) /\ LateIsInHand(r))'
<1> DEFINE Goal == (ClaimedByOne(r) /\ LateIsInHand(r))'
           mine == worker[w].run = r
<1>0. /\ worker \in [Workers -> Worker]
      /\ status \in [Runs -> RunStatus]
      /\ late \in [Runs -> 0..3]
      /\ WorkerHasRun
      /\ ClaimedByOne(r) /\ LateIsInHand(r)
  BY DEF ScanInv, Typed, TypeOK, OutboxTypeOK
<1>a. ASSUME NEW v \in Executors(r)
      PROVE  v \in Workers /\ worker[v].run = r /\ worker[v].pc \in Executing
  BY DEF Executors
<1>b. ASSUME worker' = [worker EXCEPT ![w] = IdleWorker] \/ \E again \in BOOLEAN : Leave(w, again)
      PROVE  /\ \A v \in Executors(r)' : v \in Executors(r) /\ worker'[v] = worker[v]
             /\ w \notin Executors(r)'
  BY <1>0, <1>b DEF Executors, Leave, IdleWorker, WorkerAt, Worker, Executing
<1>c. ASSUME NEW pc \in Executing, Goto(w, pc)
      PROVE  /\ worker'[w].pc = pc /\ worker'[w].run = worker[w].run
             /\ \A v \in Workers \ {w} : worker'[v] = worker[v]
             /\ Executors(r)' \subseteq Executors(r) \cup {w}
             /\ w \in Executors(r)' => worker[w].run = r
  BY <1>0, <1>c DEF Executors, Goto, Worker
<1>1. ASSUME NEW q \in Runs, Receive(w, q) PROVE Goal
  <2>1. \A v \in Executors(r)' : v \in Executors(r) /\ worker'[v].pc = worker[v].pc
    BY <1>0, <1>1 DEF Receive, Executors, WorkerAt, Worker, Executing
  <2> QED BY <1>1, <2>1, NothingNew DEF Receive
<1>2. CASE ClaimScan(w)
  <2>1. CASE mine
    <3>1. Executors(r) = {} /\ late[r] = 0 /\ status'[r] = "RUNNING" /\ late' = late
      BY <1>0, <1>2, <2>1 DEF ClaimScan, CanClaim, ClaimedByOne, LateIsInHand, Terminal
    <3>2. \A v \in Executors(r)' : v = w /\ worker'[v].pc = "scanning"
      BY <1>2, <1>c, <3>1 DEF ClaimScan, Executing
    <3> QED BY <3>1, <3>2 DEF ClaimedByOne, LateIsInHand
  <2>2. CASE ~mine
    <3>1. status'[r] = status[r] /\ late' = late
      BY <1>0, <1>2, <2>2 DEF ClaimScan
    <3>2. \A v \in Executors(r)' : v \in Executors(r) /\ worker'[v].pc = worker[v].pc
      BY <1>2, <1>a, <1>c, <2>2 DEF ClaimScan, Executing
    <3> QED BY <3>1, <3>2, NothingNew
  <2> QED BY <2>1, <2>2
<1>3. CASE ReturnUnclaimed(w) \/ SeeInactive(w) \/ ReleaseFails(w) \/ CleanUp(w) \/ WorkerLost(w)
  <2>1. status' = status /\ late' = late
    BY <1>3 DEF ReturnUnclaimed, SeeInactive, ReleaseFails, CleanUp, WorkerLost
  <2>2. \A v \in Executors(r)' : v \in Executors(r) /\ worker'[v].pc = worker[v].pc
    BY <1>3, <1>b DEF ReturnUnclaimed, SeeInactive, ReleaseFails, CleanUp, WorkerLost
  <2> QED BY <2>1, <2>2, NothingNew
<1>4. CASE SeeCancelFlag(w) \/ FinishScan(w) \/ FailScan(w)
  <2>1. late' = late /\ (status[r] = "RUNNING" => status'[r] # "PENDING")
    BY <1>0, <1>4 DEF SeeCancelFlag, FinishScan, FailScan, Update, CanFinish
  <2>2. \A v \in Executors(r)' : v \in Executors(r) /\ worker'[v].pc = worker[v].pc
    BY <1>4, <1>b DEF SeeCancelFlag, FinishScan, FailScan
  <2> QED BY <2>1, <2>2, NothingNew
<1>5. CASE ReleaseScan(w)
  <2>1. /\ \A v \in Executors(r)' : v \in Executors(r) /\ worker'[v] = worker[v]
        /\ w \notin Executors(r)'
    BY <1>5, <1>b DEF ReleaseScan, CanRelease
  <2>2. ASSUME status[r] = "RUNNING", status'[r] = "PENDING"
        PROVE  Executors(r)' = {}
    <3>1. mine
      BY <1>0, <1>5, <2>2 DEF ReleaseScan
    <3>2. w \in Executors(r)
      BY <1>5, <3>1 DEF ReleaseScan, InTry, Executors
    <3> QED BY <1>0, <2>1, <3>2 DEF ClaimedByOne
  <2>3. late' = late
    BY <1>5 DEF ReleaseScan
  <2> QED BY <2>1, <2>2, <2>3, NothingNew
<1>6. CASE SeeActive(w)
  <2>0. status' = status /\ late' = late
    BY <1>6 DEF SeeActive
  <2>1. \E pc \in {"recording", "finishing"} : Goto(w, pc)
    BY <1>6 DEF SeeActive
  <2>2. PICK pc \in {"recording", "finishing"} : Goto(w, pc)
    BY <2>1
  <2>3. CASE mine
    <3>1. w \in Executors(r) /\ status[r] = "RUNNING" /\ late[r] = 0
      BY <1>0, <1>6, <2>3 DEF SeeActive, ScanActive, Executors, Executing, LateIsInHand, Terminal
    <3>2. \A v \in Executors(r)' : v = w /\ worker'[v].pc = pc
      BY <1>0, <1>c, <2>2, <3>1 DEF Executing, ClaimedByOne
    <3> QED BY <2>0, <3>1, <3>2 DEF ClaimedByOne, LateIsInHand
  <2>4. CASE ~mine
    <3>1. \A v \in Executors(r)' : v \in Executors(r) /\ worker'[v].pc = worker[v].pc
      BY <1>a, <1>c, <2>2, <2>4 DEF Executing
    <3> QED BY <2>0, <3>1, NothingNew
  <2> QED BY <2>3, <2>4
<1>7. CASE RecordHosts(w) \/ RecordPorts(w)
  <2>0. /\ status' = status /\ status[worker[w].run] # "GONE"
        /\ late' = [late EXCEPT ![worker[w].run] =
                      IF status[worker[w].run] \in Terminal /\ @ < 3 THEN @ + 1 ELSE @]
    BY <1>7 DEF RecordHosts, RecordPorts, Commit
  <2>1. \E pc \in {"finishing", "scanning", "ports"} :
          Goto(w, pc) /\ (pc = "ports" => worker[w].pc = "recording")
    BY <1>7 DEF RecordHosts, RecordPorts
  <2>2. PICK pc \in {"finishing", "scanning", "ports"} :
          Goto(w, pc) /\ (pc = "ports" => worker[w].pc = "recording")
    BY <2>1
  <2>3. CASE mine
    <3>1. w \in Executors(r) /\ late[r] \in 0..3
      BY <1>0, <1>7, <2>3 DEF RecordHosts, RecordPorts, Executors, Executing
    <3>2. /\ worker[w].pc = "recording" => late[r] = 0
          /\ worker[w].pc = "ports" => late[r] <= 1
          /\ worker[w].pc \in {"recording", "ports"}
          /\ status[r] \notin Terminal \cup {"GONE"} => late[r] = 0
      BY <1>0, <1>7, <3>1 DEF RecordHosts, RecordPorts, LateIsInHand
    <3>3. \A v \in Executors(r)' : v = w /\ worker'[v].pc = pc
      BY <1>0, <1>c, <2>2, <3>1 DEF Executing, ClaimedByOne
    <3>4. /\ late'[r] <= late[r] + 1
          /\ status[r] \notin Terminal => late'[r] = late[r]
      BY <1>0, <2>0, <2>3, <3>1
    <3>5. late'[r] \in 0..3
      BY <1>0, <2>0, <2>3, <3>1
    <3>6. status[r] \notin {"NONE", "PENDING"}
      BY <1>0, <3>1 DEF ClaimedByOne
    <3>7. ClaimedByOne(r)'
      BY <2>0, <3>3, <3>6 DEF ClaimedByOne
    <3>8. LateIsInHand(r)'
      BY <2>0, <2>2, <3>1, <3>2, <3>3, <3>4, <3>5 DEF LateIsInHand, Terminal
    <3> QED BY <3>7, <3>8
  <2>4. CASE ~mine
    <3>1. \A v \in Executors(r)' : v \in Executors(r) /\ worker'[v].pc = worker[v].pc
      BY <1>a, <1>c, <2>2, <2>4 DEF Executing
    <3>2. late'[r] = late[r]
      BY <1>0, <2>0, <2>4
    <3> QED BY <2>0, <3>1, <3>2, NothingNew
  <2> QED BY <2>3, <2>4
<1>8. CASE Redeliver(w)
  <2>1. worker' = worker /\ status' = status /\ late' = late
    BY <1>8 DEF Redeliver
  <2>2. Executors(r)' = Executors(r)
    BY <2>1 DEF Executors
  <2> QED BY <2>1, <2>2, NothingNew
<1> QED
  BY <1>1, <1>2, <1>3, <1>4, <1>5, <1>6, <1>7, <1>8 DEF WorkerStep

LEMMA ScanStep ==
  ASSUME ScanInv, [Next]_vars
  PROVE  ScanInv'
<1>0. Typed /\ Typed' /\ status \in [Runs -> RunStatus]
  BY TypedStep DEF ScanInv, Typed, TypeOK, OutboxTypeOK
<1>a. ASSUME NEW r \in Runs \ snmp, late' = late, worker' = worker,
             status[r] = "RUNNING" => status'[r] # "PENDING"
      PROVE  (ClaimedByOne(r) /\ LateIsInHand(r))'
  <2>1. Executors(r)' = Executors(r)
    BY <1>a DEF Executors
  <2> QED BY <1>a, <2>1, NothingNew
<1>b. ASSUME NEW r \in Runs \ snmp'
      PROVE  r \in Runs \ snmp /\ (ClaimedByOne(r) /\ LateIsInHand(r))'
  <2>1. CASE ApiStep
    <3>1. snmp \subseteq snmp' /\ late' = late /\ worker' = worker
      BY <2>1 DEF ApiStep, CreateScan, StopScan, StopRolledBack, DeleteScan
    <3>2. status[r] = "RUNNING" => status'[r] # "PENDING"
      BY <1>0, <2>1 DEF ApiStep, CreateScan, EnqueueOutboxRow, StopScan, StopRolledBack, DeleteScan
    <3> QED BY <1>a, <1>b, <3>1, <3>2
  <2>2. CASE OutboxStep /\ UNCHANGED taskVars
    <3>1. snmp' = snmp /\ late' = late /\ worker' = worker
      BY <2>2 DEF taskVars
    <3>2. status[r] = "RUNNING" => status'[r] # "PENDING"
      BY <1>0, <2>2, OutboxMovesStatus DEF Typed, TypeOK
    <3> QED BY <1>a, <1>b, <3>1, <3>2
  <2>3. ASSUME NEW w \in Workers, WorkerStep(w)
        PROVE  r \in Runs \ snmp /\ (ClaimedByOne(r) /\ LateIsInHand(r))'
    <3>1. snmp' = snmp
      BY <2>3 DEF WorkerStep, Receive, ClaimScan, ReturnUnclaimed, SeeCancelFlag, SeeInactive,
         SeeActive, RecordHosts, RecordPorts, Commit, FinishScan, FailScan, ReleaseScan,
         ReleaseFails, CleanUp, WorkerLost, Redeliver
    <3> QED BY <1>b, <2>3, <3>1, ScanWorkerStep
  <2>4. CASE UNCHANGED vars
    <3>1. snmp' = snmp /\ late' = late /\ worker' = worker /\ status' = status
      BY <2>4 DEF vars
    <3> QED BY <1>a, <1>b, <3>1
  <2> QED BY <2>1, <2>2, <2>3, <2>4 DEF Next
<1> QED BY <1>0, <1>b DEF ScanInv

LEMMA ScanInvariance == Spec => []ScanInv
BY ScanInitial, ScanStep, PTL DEF Spec

\* However often the message of an nmap scan is delivered, and however often a
\* worker gives the claim back, two workers never scan for it at once.
THEOREM OneWorkerScans == Spec => []OneScanner
<1>1. ScanInv => OneScanner
  BY DEF ScanInv, ClaimedByOne, OneScanner, AtMostOneScanner
<1> QED BY <1>1, ScanInvariance, PTL

\* After its end an nmap scan gets no more than its one worker had in hand, the
\* hosts of a chunk and their ports, whatever retries and duplicates there are.
THEOREM StoppedScansRecordNoMore == Spec => []StopEndsRecording
<1>1. ScanInv => StopEndsRecording
  BY DEF ScanInv, LateIsInHand, StopEndsRecording
<1> QED BY <1>1, ScanInvariance, PTL

-----------------------------------------------------------------------------
(* ScanPromise, step by step.                                              *)

Scanners == [r \in Runs |-> Executors(r)]

\* A worker that gets out of Executing, or was never there, takes itself from
\* the scanners of the scan it holds and from no other's.
LEMMA WorkerGetsOut ==
  ASSUME Typed, NEW w \in Workers,
         worker' = [worker EXCEPT ![w] = IdleWorker] \/ \E again \in BOOLEAN : Leave(w, again)
  PROVE  Scanners' = [Scanners EXCEPT ![worker[w].run] = @ \ {w}]
<1>0. worker \in [Workers -> Worker]
  BY DEF Typed, TypeOK
<1>1. \A q \in Runs : Executors(q)' = Executors(q) \ {w}
  BY <1>0 DEF Executors, Leave, IdleWorker, WorkerAt, Worker, Executing
<1>2. \A q \in Runs \ {worker[w].run} : Executors(q)' = Executors(q)
  BY <1>1 DEF Executors
<1> QED BY <1>1, <1>2 DEF Scanners

LEMMA ScanStepImplements ==
  ASSUME ScanInv, [Next]_vars
  PROVE  [Promise!Next]_(Promise!vars)
<1> DEFINE Goal == [Promise!Next]_(Promise!vars)
<1>0. /\ status \in [Runs -> RunStatus]
      /\ worker \in [Workers -> Worker]
      /\ Typed /\ DispatcherHasRun /\ WorkerHasRun
  BY DEF ScanInv, Typed, TypeOK, OutboxTypeOK
<1>a. ASSUME status' = status, Scanners' = Scanners, snmp' = snmp PROVE Goal
  BY <1>a DEF Promise!vars, Scanners
<1>b. ASSUME worker' = worker PROVE Scanners' = Scanners
  BY <1>b DEF Scanners, Executors
<1>c. ASSUME NEW r \in Runs, NEW s \in RunStatus, status' = [status EXCEPT ![r] = s],
             \/ status[r] \in Active /\ s = "CANCELLED"
             \/ status[r] = "PENDING" /\ s = "FAILED"
             \/ status[r] \in JobStatus /\ s = "GONE",
             worker' = worker, snmp' = snmp
      PROVE  Goal
  <2>1. Scanners' = Scanners
    BY <1>b, <1>c
  <2>2. Promise!EndUnscanned(r)
    BY <1>c, <2>1 DEF Promise!EndUnscanned, Promise!SetStatus, Promise!Active, Active,
                      Promise!JobStatus, JobStatus, Scanners
  <2> QED BY <2>2 DEF Promise!Next
\* A worker gets out with an outcome, or without a word.
<1>d. ASSUME NEW w \in Workers, InTry(w), NEW s \in Terminal \cup {"PENDING", "RUNNING"},
             s = "COMPLETED" => worker[w].pc \in Executing,
             LET r == worker[w].run
             IN  status' = [status EXCEPT ![r] = IF @ = "RUNNING" THEN s ELSE @],
             snmp' = snmp, Scanners' = [Scanners EXCEPT ![worker[w].run] = @ \ {w}]
      PROVE  Goal
  <2> DEFINE r == worker[w].run
  <2>1. r \in Runs
    BY <1>0, <1>d DEF InTry, Executing, WorkerHasRun
  <2>2. w \in Executors(r) \/ r \in snmp
    BY <1>d DEF InTry, Executors
  <2>3. s = "COMPLETED" => w \in Executors(r)
    BY <1>d DEF Executors
  <2>4. status' = [status EXCEPT ![r] = IF status[r] = "RUNNING" THEN s ELSE status[r]]
    BY <1>d
  <2>5. Scanners[r] = Executors(r)
    BY <2>1 DEF Scanners
  <2>6. Promise!Leave(r, w)
    BY <1>d, <2>1, <2>2, <2>3, <2>4, <2>5
       DEF Promise!Leave, Promise!SetStatus, Promise!Terminal, Terminal, Scanners
  <2> QED BY <2>1, <2>6 DEF Promise!Next
<1>1. ASSUME NEW r \in Runs, CreateScan(r) PROVE Goal
  <2>1. Scanners' = Scanners
    BY <1>1, <1>b DEF CreateScan
  <2>2. Promise!Create(r)
    BY <1>1, <2>1 DEF CreateScan, EnqueueOutboxRow, Promise!Create, Promise!SetStatus, Scanners
  <2> QED BY <2>2 DEF Promise!Next
<1>2. ASSUME NEW r \in Runs, StopScan(r) \/ StopRolledBack(r) \/ DeleteScan(r) PROVE Goal
  <2>1. CASE StopScan(r)
    BY <1>c, <2>1 DEF StopScan, CanCancel, Active, RunStatus, JobStatus
  <2>2. CASE StopRolledBack(r)
    BY <1>a, <1>b, <2>2 DEF StopRolledBack
  <2>3. CASE DeleteScan(r)
    BY <1>c, <2>3 DEF DeleteScan, RunStatus
  <2> QED BY <1>2, <2>1, <2>2, <2>3
<1>3. ASSUME NEW w \in Workers, ClaimScan(w) PROVE Goal
  <2> DEFINE r == worker[w].run
  <2>1. r \in Runs /\ status[r] = "PENDING"
    BY <1>0, <1>3 DEF ClaimScan, CanClaim, WorkerHasRun
  <2>2. Executors(r) = {} \/ r \in snmp
    BY <2>1 DEF ScanInv, ClaimedByOne
  <2>3. \A q \in Runs : Executors(q)' = IF q = r THEN Executors(q) \cup {w} ELSE Executors(q)
    BY <1>0, <1>3 DEF ClaimScan, Goto, Executors, Worker, Executing
  <2>4. Scanners' = [Scanners EXCEPT ![r] = @ \cup {w}]
    BY <2>1, <2>3 DEF Scanners
  <2>5. Promise!Begin(r, w)
    BY <1>3, <2>1, <2>2, <2>4 DEF ClaimScan, Promise!Begin, Promise!SetStatus, Scanners
  <2> QED BY <2>1, <2>5 DEF Promise!Next
<1>4. ASSUME NEW w \in Workers, NEW s \in Terminal \cup {"PENDING"}, InTry(w),
             s = "COMPLETED" => worker[w].pc \in Executing,
             status' = [status EXCEPT ![worker[w].run] = IF @ = "RUNNING" THEN s ELSE @],
             snmp' = snmp, \E again \in BOOLEAN : Leave(w, again)
      PROVE  Goal
  BY <1>0, <1>4, <1>d, WorkerGetsOut
<1>5. ASSUME NEW w \in Workers,
             SeeCancelFlag(w) \/ FinishScan(w) \/ FailScan(w) \/ ReleaseScan(w)
      PROVE  Goal
  <2>1. CASE SeeCancelFlag(w)
    BY <2>1, <1>4 DEF SeeCancelFlag, Update, CanFinish, InTry, Executing, Terminal
  <2>2. CASE FinishScan(w)
    BY <2>2, <1>4 DEF FinishScan, Update, CanFinish, InTry, Executing, Terminal
  <2>3. CASE FailScan(w)
    <3>1. "FAILED" \in Terminal /\ Leave(w, FALSE)
      BY <2>3 DEF FailScan, Terminal
    <3>2. status' = [status EXCEPT ![worker[w].run] = IF @ = "RUNNING" THEN "FAILED" ELSE @]
      BY <2>3 DEF FailScan, Update, CanFinish
    <3> QED BY <2>3, <3>1, <3>2, <1>4 DEF FailScan
  <2>4. CASE ReleaseScan(w)
    BY <2>4, <1>4 DEF ReleaseScan, ReleaseForRetry, Update, CanRelease
  <2> QED BY <1>5, <2>1, <2>2, <2>3, <2>4
\* A worker gets out and leaves the status alone.
<1>6. ASSUME NEW w \in Workers, status' = status, snmp' = snmp,
             Scanners' = [Scanners EXCEPT ![worker[w].run] = @ \ {w}]
      PROVE  Goal
  <2>1. CASE worker[w].pc \in Executing
    <3>1. status' = [status EXCEPT ![worker[w].run] = IF @ = "RUNNING" THEN "RUNNING" ELSE @]
      BY <1>0, <1>6
    <3> QED BY <1>6, <1>d, <2>1, <3>1 DEF InTry
  <2>2. CASE worker[w].pc \notin Executing
    <3>1. Scanners' = Scanners
      BY <1>6, <2>2 DEF Scanners, Executors
    <3> QED BY <1>6, <1>a, <3>1
  <2> QED BY <2>1, <2>2
<1>7. ASSUME NEW w \in Workers,
             SeeInactive(w) \/ ReleaseFails(w) \/ ReturnUnclaimed(w) \/ CleanUp(w) \/ WorkerLost(w)
      PROVE  Goal
  <2>1. Scanners' = [Scanners EXCEPT ![worker[w].run] = @ \ {w}]
    BY <1>0, <1>7, WorkerGetsOut
       DEF SeeInactive, ReleaseFails, ReturnUnclaimed, CleanUp, WorkerLost
  <2> QED
    BY <1>6, <1>7, <2>1 DEF SeeInactive, ReleaseFails, ReturnUnclaimed, CleanUp, WorkerLost
<1>8. ASSUME NEW w \in Workers, SeeActive(w) \/ RecordHosts(w) \/ RecordPorts(w) PROVE Goal
  <2>1. PICK pc \in Executing : Goto(w, pc)
    BY <1>8 DEF SeeActive, RecordHosts, RecordPorts, Executing
  <2>2. worker[w].pc \in Executing
    BY <1>8 DEF SeeActive, RecordHosts, RecordPorts, Executing
  <2>3. \A q \in Runs : Executors(q)' = Executors(q)
    BY <1>0, <2>1, <2>2 DEF Goto, Executors, Worker
  <2> QED BY <1>8, <1>a, <2>3 DEF SeeActive, RecordHosts, RecordPorts, Commit, Scanners
<1>9. ASSUME NEW w \in Workers, (\E r \in Runs : Receive(w, r)) \/ Redeliver(w) PROVE Goal
  <2>1. CASE Redeliver(w)
    BY <1>a, <1>b, <2>1 DEF Redeliver
  <2>2. ASSUME NEW r \in Runs, Receive(w, r) PROVE Goal
    <3>1. \A q \in Runs : Executors(q)' = Executors(q)
      BY <1>0, <2>2 DEF Receive, WorkerAt, Executors, Worker, Executing
    <3> QED BY <1>a, <2>2, <3>1 DEF Receive, Scanners
  <2> QED BY <1>9, <2>1, <2>2
<1>10. ASSUME NEW d \in Dispatchers, RecordFailure(d), UNCHANGED taskVars PROVE Goal
  <2> DEFINE r == disp[d].run
  <2>1. r \in Runs /\ worker' = worker /\ snmp' = snmp
    BY <1>0, <1>10 DEF RecordFailure, DispatcherHasRun, taskVars
  <2>2. CASE AttemptsUsedUp(disp[d].attempts) /\ status[r] = "PENDING"
    BY <1>0, <1>10, <1>c, <2>1, <2>2
       DEF RecordFailure, MarkDispatchFailed, Update, RunStatus, JobStatus
  <2>3. CASE ~(AttemptsUsedUp(disp[d].attempts) /\ status[r] = "PENDING")
    BY <1>0, <1>10, <1>a, <1>b, <2>1, <2>3 DEF RecordFailure, MarkDispatchFailed, Update
  <2> QED BY <2>2, <2>3
<1>11. ASSUME OutboxStep, UNCHANGED taskVars, \A d \in Dispatchers : ~RecordFailure(d) PROVE Goal
  BY <1>11, <1>a, <1>b DEF OutboxStep, DispatcherStep, ClaimRow, CancelRow, BeginDispatch,
     PublishAccepted, PublishRefused, RecordSent, DispatcherCrash, LeaseLapses, Reconcile,
     LoseMessage, taskVars
<1>12. CASE UNCHANGED vars
  BY <1>12, <1>a, <1>b DEF vars
<1> QED
  BY <1>1, <1>2, <1>3, <1>5, <1>7, <1>8, <1>9, <1>10, <1>11, <1>12 DEF Next, ApiStep, WorkerStep

\* To whoever sees scans only through the API, and to the network that is
\* scanned, they behave as ScanPromise says: whoever scans begins alone, only a
\* worker that scans says COMPLETED, and an end is final until the scan is deleted.
THEOREM ScansKeepThePromise == Spec => Implements
<1>1. Init => Promise!Init
  BY DEF Init, OutboxInit, IdleWorker, WorkerAt, Executors, Executing, Promise!Init
<1>2. ScanInv /\ [Next]_vars => [Promise!Next]_(Promise!vars)
  BY ScanStepImplements
<1> QED BY <1>1, <1>2, ScanInvariance, PTL DEF Spec, Implements, Promise!Spec

=============================================================================
