--------------------------- MODULE AuditFlow_proofs ---------------------------
(***************************************************************************)
(* Proofs about AuditFlow, for any runs, profiles, deliveries and bounds.  *)
(***************************************************************************)
EXTENDS AuditFlow, TLAPS

-----------------------------------------------------------------------------
(* Rows.  What the handlers and the page make of a row is a row of the     *)
(* same run.                                                               *)

RowOf(r) == {row \in AuditRow : row.id = r}

LEMMA RowTyped ==
  ASSUME NEW r \in Runs, NEW row \in RowOf(r)
  PROVE  /\ \A st \in AuditFlowStatus \cup {"absent", "deleted"} : [row EXCEPT !.st = st] \in RowOf(r)
         /\ \A prof \in Profiles \cup {NoProfile} : [row EXCEPT !.prof = prof] \in RowOf(r)
         /\ \A sel \in BOOLEAN : [row EXCEPT !.sel = sel] \in RowOf(r)
         /\ \A cred \in BOOLEAN : [row EXCEPT !.cred = cred] \in RowOf(r)
         /\ \A skip \in SkipReason : [row EXCEPT !.skip = skip] \in RowOf(r)
BY DEF RowOf, AuditRow

\* Columns of three rows of one run, mixed, are a row of that run.
LEMMA WrittenTyped ==
  ASSUME NEW r \in Runs, NEW now \in RowOf(r), NEW seen \in RowOf(r), NEW out \in RowOf(r)
  PROVE  Written(now, seen, out) \in RowOf(r)
<1> DEFINE w == Written(now, seen, out)
           new == [id |-> w.id, st |-> w.st, found |-> w.found, sel |-> w.sel, prof |-> w.prof,
                   cred |-> w.cred, skip |-> w.skip, job |-> w.job]
<1>1. DOMAIN now = {"id", "st", "found", "sel", "prof", "cred", "skip", "job"}
  BY DEF RowOf, AuditRow
<1>2. w = [f \in {"id", "st", "found", "sel", "prof", "cred", "skip", "job"} |->
             IF out[f] # seen[f] THEN out[f] ELSE now[f]]
  BY <1>1 DEF Written
<1>3. w = new
  BY <1>2
<1>4. new \in AuditRow /\ new.id = r
  BY <1>2 DEF RowOf, AuditRow
<1> QED BY <1>3, <1>4 DEF RowOf

LEMMA SkipsTyped ==
  ASSUME NEW r \in Runs, NEW row \in RowOf(r)
  PROVE  /\ ClearRetryableSkip(row) \in RowOf(r)
         /\ \A on \in BOOLEAN : ApplySelection(row, on) \in RowOf(r)
<1>1. ClearRetryableSkip(row) \in RowOf(r)
  BY RowTyped DEF ClearRetryableSkip, SkipReason
<1>2. ASSUME NEW on \in BOOLEAN PROVE ApplySelection(row, on) \in RowOf(r)
  <2> DEFINE skip == IF ~on THEN "skipped_by_user"
                     ELSE IF row.skip = "skipped_by_user" THEN "none" ELSE row.skip
  <2>1. skip \in SkipReason
    BY DEF RowOf, AuditRow, SkipReason
  <2>2. ApplySelection(row, on) = [row EXCEPT !.sel = on, !.skip = skip]
    BY DEF ApplySelection
  <2> QED BY <2>1, <2>2 DEF RowOf, AuditRow
<1> QED BY <1>1, <1>2

LEMMA PatchTyped ==
  ASSUME NEW r \in Runs, NEW row \in RowOf(r), NEW c \in Changes
  PROVE  PatchHost(row, c) \in RowOf(r) /\ HostPatch(row, c) \in RowOf(r)
<1> DEFINE chosen == [row EXCEPT !.prof = c.value, !.sel = TRUE]
           logged == [row EXCEPT !.cred = TRUE, !.sel = TRUE]
           skipped == IF row.job THEN row.skip ELSE "skipped_by_user"
           deselected == [row EXCEPT !.sel = FALSE, !.skip = skipped]
           kept == IF ~row.job /\ row.skip = "skipped_by_user" THEN "none" ELSE row.skip
<1>1. skipped \in SkipReason /\ kept \in SkipReason
  BY DEF RowOf, AuditRow, SkipReason
<1>2. deselected \in RowOf(r) /\ [row EXCEPT !.sel = TRUE, !.skip = kept] \in RowOf(r)
  BY <1>1 DEF RowOf, AuditRow
<1>3. CASE c.field = "selected"
  <2>1. c.value \in BOOLEAN
    BY <1>3 DEF Changes
  <2>2. PatchHost(row, c) = ApplySelection(row, c.value)
    BY <1>3 DEF PatchHost
  <2>3. HostPatch(row, c) = IF c.value THEN [row EXCEPT !.sel = TRUE, !.skip = kept] ELSE deselected
    BY <1>3, <2>1 DEF HostPatch
  <2>4. ApplySelection(row, c.value) \in RowOf(r)
    BY <2>1, SkipsTyped
  <2>5. HostPatch(row, c) \in {[row EXCEPT !.sel = TRUE, !.skip = kept], deselected}
    BY <2>3
  <2> HIDE DEF deselected, kept
  <2> QED BY <1>2, <2>2, <2>4, <2>5
<1>4. CASE c.field = "profile" /\ c.value = NoProfile
  <2> DEFINE bare == [row EXCEPT !.prof = NoProfile]
  <2>1. bare \in RowOf(r)
    BY RowTyped
  <2>2. PatchHost(row, c) = ApplySelection(bare, FALSE)
    BY <1>4 DEF PatchHost
  <2>3. HostPatch(row, c) = IF row.job THEN bare ELSE [deselected EXCEPT !.prof = NoProfile]
    BY <1>4 DEF HostPatch
  <2>4. [deselected EXCEPT !.prof = NoProfile] \in RowOf(r)
    BY <1>2, RowTyped
  <2>5. ApplySelection(bare, FALSE) \in RowOf(r)
    BY <2>1, SkipsTyped
  <2> QED BY <2>1, <2>2, <2>3, <2>4, <2>5
<1>5. CASE c.field = "profile" /\ c.value # NoProfile
  <2>1. c.value \in Profiles
    BY <1>5 DEF Changes
  <2>2. chosen \in RowOf(r)
    BY <2>1 DEF RowOf, AuditRow
  <2>3. PatchHost(row, c) = ClearRetryableSkip(chosen) /\ HostPatch(row, c) = ClearRetryableSkip(chosen)
    BY <1>5 DEF PatchHost, HostPatch
  <2> QED BY <2>2, <2>3, SkipsTyped
<1>6. CASE c.field = "credential"
  <2>1. c.value \in BOOLEAN
    BY <1>6 DEF Changes
  <2>2. logged \in RowOf(r) /\ [row EXCEPT !.cred = FALSE] \in RowOf(r)
    BY DEF RowOf, AuditRow
  <2>3. CASE c.value
    <3>1. PatchHost(row, c) = ClearRetryableSkip(logged) /\ HostPatch(row, c) = ClearRetryableSkip(logged)
      BY <1>6, <2>3 DEF PatchHost, HostPatch
    <3> QED BY <2>2, <3>1, SkipsTyped
  <2>4. CASE ~c.value
    <3>1. PatchHost(row, c) = [row EXCEPT !.cred = FALSE] /\ HostPatch(row, c) = [row EXCEPT !.cred = FALSE]
      BY <1>6, <2>4 DEF PatchHost, HostPatch
    <3> QED BY <2>2, <3>1
  <2> QED BY <2>3, <2>4
<1>7. c.field \in {"selected", "profile", "credential"}
  BY DEF Changes
<1> QED BY <1>3, <1>4, <1>5, <1>6, <1>7

LEMMA OutcomesTyped ==
  ASSUME NEW r \in Runs, NEW row \in RowOf(r)
  PROVE  /\ \A fails \in BOOLEAN : Executed(row, fails) \in RowOf(r)
         /\ \A job : Refreshed(row, job) \in RowOf(r)
         /\ \A p \in ProbeResults : ApplyProbeResult(row, p) \in RowOf(r)
<1>1. ASSUME NEW fails \in BOOLEAN PROVE Executed(row, fails) \in RowOf(r)
  <2> DEFINE launched == CanLaunch(row) /\ ~fails
             skip == CASE launched -> "checking"
                       [] CanLaunch(row) /\ fails -> "playbook_failed"
                       [] row.found /\ ~row.job /\ ~row.sel /\ row.skip = "none" -> "skipped_by_user"
                       [] row.found /\ ~row.job /\ row.sel /\ ~CanLaunch(row) -> "probe"
                       [] OTHER -> row.skip
             st == IF row.job \/ launched THEN "running" ELSE "completed"
             job == row.job \/ launched
  <2>1. skip \in SkipReason
    <3>1. row.skip \in SkipReason
      BY DEF RowOf, AuditRow
    <3> HIDE DEF launched
    <3> QED BY <3>1 DEF SkipReason
  <2>2. st \in AuditFlowStatus
    BY DEF AuditFlowStatus
  <2>3. job \in BOOLEAN
    BY DEF RowOf, AuditRow, CanLaunch
  <2>4. Executed(row, fails) = [row EXCEPT !.job = job, !.skip = skip, !.st = st]
    BY DEF Executed
  <2> HIDE DEF skip, st, job
  <2> QED BY <2>1, <2>2, <2>3, <2>4 DEF RowOf, AuditRow
<1>2. ASSUME NEW job PROVE Refreshed(row, job) \in RowOf(r)
  <2> DEFINE skip == IF row.job /\ job = "completed" THEN "none"
                     ELSE IF row.job /\ job = "failed" /\ row.skip = "none" THEN "playbook_failed"
                     ELSE row.skip
  <2>1. skip \in SkipReason
    BY DEF RowOf, AuditRow, SkipReason
  <2>2. "completed" \in AuditFlowStatus
    BY DEF AuditFlowStatus
  <2>3. [row EXCEPT !.st = "completed", !.skip = skip] \in RowOf(r)
    BY <2>1, <2>2 DEF RowOf, AuditRow
  <2>4. Refreshed(row, job) \in {row, [row EXCEPT !.st = "completed", !.skip = skip]}
    BY DEF Refreshed
  <2> QED BY <2>3, <2>4
<1>3. ASSUME NEW p \in ProbeResults PROVE ApplyProbeResult(row, p) \in RowOf(r)
  <2>1. p.sel \in BOOLEAN /\ p.prof \in Profiles \cup {NoProfile} /\ p.cred \in BOOLEAN
        /\ p.skip \in SkipReason
    BY DEF ProbeResults, NoLogin, SkipReason
  <2> QED BY <2>1 DEF ApplyProbeResult, RowOf, AuditRow
<1> QED BY <1>1, <1>2, <1>3

LEMMA NewRunsTyped ==
  ASSUME NEW r \in Runs
  PROVE  /\ NewRun(r) \in RowOf(r)
         /\ \A row \in RowOf(r) : row # NoData
BY AuditFlowPageAssumption DEF NewRun, RowOf, AuditRow, SkipReason, NoData

-----------------------------------------------------------------------------
(* The invariant.                                                          *)

\* A run's row keeps the run's id.
Rows == \A r \in Runs : audit[r] \in RowOf(r)

\* The scan is over, one way or another.
OUT == {"clear", "leave", "done", "raised"}

\* A scanner that has still to look at a set flag has not looked yet, or has left
\* the scan.
Stopping ==
  \A r \in Runs : \A d \in doomed[r] :
    scanner[r][d] \in OUT \/ (flag[r] /\ scanner[r][d] \in LOOKS \cup {"queued"})

ServerInv == ServerTypeOK /\ Rows /\ Stopping

\* What was loaded for a call, and what answers it, is a row of its run.
SoundCall(c) ==
  /\ c \in Call
  /\ c.op \in {"patch", "cred"} => c.change \in Changes
  /\ c.op = "get" => c.phase = "answered"
  /\ c.phase = "loaded" \/ (c.phase = "answered" /\ c.ok) => c.seen \in RowOf(c.run)

PageInv ==
  /\ activeId \in Runs \cup {NoActive}
  /\ cache \in [Runs -> AuditRow \cup {NoData}]
  /\ \A c \in calls : SoundCall(c)
  /\ asked \in 0 .. MaxAsked
  /\ raced \subseteq Runs
  /\ strayed \in BOOLEAN
  /\ together \subseteq Runs

Own(row, r) == row = NoData \/ row.id = r

\* What a patch puts back is its own run's, and the cache is sorted, until a
\* rollback goes astray.
OwnData ==
  ~strayed => (\A r \in Runs : Own(cache[r], r)) /\ (\A c \in calls : Own(c.shown, c.run))

Inv == ServerInv /\ PageInv /\ OwnData

-----------------------------------------------------------------------------
(* The server's steps.                                                     *)

LEMMA ServerInitially == Init => ServerInv
<1> SUFFICES ASSUME Init PROVE ServerInv
  OBVIOUS
<1>1. ServerInit
  BY DEF Init
<1>2. \A r \in Runs : audit[r] \in RowOf(r)
  <2>1. CASE \E p \in ProbeResults :
               audit = [r \in Runs |-> [ApplyProbeResult(NewRun(r), p) EXCEPT !.st = "ready"]]
    <3>1. PICK p \in ProbeResults :
               audit = [r \in Runs |-> [ApplyProbeResult(NewRun(r), p) EXCEPT !.st = "ready"]]
      BY <2>1
    <3>2. ASSUME NEW r \in Runs
          PROVE  [ApplyProbeResult(NewRun(r), p) EXCEPT !.st = "ready"] \in RowOf(r)
      BY NewRunsTyped, OutcomesTyped, RowTyped DEF AuditFlowStatus
    <3> QED BY <3>1, <3>2
  <2>2. CASE audit = [r \in Runs |-> [NewRun(r) EXCEPT !.st = IF r = NewRunId THEN "absent" ELSE "deleted"]]
    <3>1. ASSUME NEW r \in Runs
          PROVE  [NewRun(r) EXCEPT !.st = IF r = NewRunId THEN "absent" ELSE "deleted"] \in RowOf(r)
      BY NewRunsTyped, RowTyped
    <3> QED BY <2>2, <3>1
  <2> QED BY <1>1, <2>1, <2>2 DEF ServerInit
<1>3. audit \in [Runs -> AuditRow]
  <2>1. \E f : audit = [r \in Runs |-> audit[r]]
    BY <1>1 DEF ServerInit
  <2> QED BY <1>2, <2>1 DEF RowOf
<1>4. /\ flag \in [Runs -> BOOLEAN]
      /\ scanner \in [Runs -> [Deliveries -> ScanPc]]
      /\ jobs \in [Runs -> {"none", "pending", "completed", "failed"}]
      /\ launches \in [Runs -> Nat]
      /\ doomed \in [Runs -> SUBSET Deliveries]
  BY <1>1 DEF ServerInit, ScanPc
<1>5. Stopping
  BY <1>1 DEF ServerInit, Stopping
<1> QED BY <1>2, <1>3, <1>4, <1>5 DEF ServerInv, ServerTypeOK, Rows

\* A row is written: the types survive.
LEMMA RowWritten ==
  ASSUME ServerInv, NEW r \in Runs, NEW row \in RowOf(r),
         audit' = [audit EXCEPT ![r] = row]
  PROVE  audit' \in [Runs -> AuditRow] /\ Rows'
<1>1. audit \in [Runs -> AuditRow] /\ Rows
  BY DEF ServerInv, ServerTypeOK
<1>2. audit' \in [Runs -> AuditRow]
  BY <1>1 DEF RowOf
<1>3. ASSUME NEW s \in Runs PROVE audit'[s] \in RowOf(s)
  BY <1>1 DEF Rows
<1> QED BY <1>2, <1>3 DEF Rows

\* A scanner moves on.
LEMMA ScannerMoves ==
  ASSUME ServerInv, NEW r \in Runs, NEW d \in Deliveries, NEW pc \in ScanPc, Goto(r, d, pc)
  PROVE  /\ scanner' \in [Runs -> [Deliveries -> ScanPc]]
         /\ scanner'[r][d] = pc
         /\ \A s \in Runs, e \in Deliveries : s # r \/ e # d => scanner'[s][e] = scanner[s][e]
BY DEF ServerInv, ServerTypeOK, Goto

\* A scanner that moves without leaving the scan keeps to the flag it has seen.
LEMMA StoppingKept ==
  ASSUME ServerInv, NEW r \in Runs, NEW d \in Deliveries, NEW pc,
         scanner'[r][d] = pc,
         \A s \in Runs, e \in Deliveries : s # r \/ e # d => scanner'[s][e] = scanner[s][e],
         flag' = flag, doomed' = doomed,
         d \in doomed[r] => pc \in OUT \/ (flag[r] /\ pc \in LOOKS \cup {"queued"})
  PROVE  Stopping'
<1>1. SUFFICES ASSUME NEW s \in Runs, NEW e \in doomed[s]
               PROVE  scanner'[s][e] \in OUT \/ (flag[s] /\ scanner'[s][e] \in LOOKS \cup {"queued"})
  BY DEF Stopping
<1>2. e \in Deliveries
  BY DEF ServerInv, ServerTypeOK
<1>3. CASE s = r /\ e = d
  BY <1>3
<1>4. CASE s # r \/ e # d
  <2>1. scanner'[s][e] = scanner[s][e]
    BY <1>2, <1>4
  <2> QED BY <2>1 DEF ServerInv, Stopping
<1> QED BY <1>3, <1>4

LEMMA ScanEnded ==
  ASSUME ServerInv, NEW r \in Runs, NEW d \in Deliveries, NEW st \in AuditFlowStatus,
         EndScan(r, d, st)
  PROVE  ServerInv'
<1> USE DEF ServerInv, ServerTypeOK, EndScan
<1>1. audit' \in [Runs -> AuditRow] /\ Rows'
  <2>1. CASE Exists(r)
    <3>1. [audit[r] EXCEPT !.st = st] \in RowOf(r)
      BY RowTyped DEF Rows
    <3>2. audit' = [audit EXCEPT ![r] = [audit[r] EXCEPT !.st = st]]
      BY <2>1
    <3> QED BY <3>1, <3>2, RowWritten
  <2>2. CASE ~Exists(r)
    BY <2>2 DEF Rows
  <2> QED BY <2>1, <2>2
<1>2. /\ scanner' \in [Runs -> [Deliveries -> ScanPc]]
      /\ scanner'[r][d] = "clear"
      /\ \A s \in Runs, e \in Deliveries : s # r \/ e # d => scanner'[s][e] = scanner[s][e]
  BY ScannerMoves DEF ScanPc
<1>3. doomed' \in [Runs -> SUBSET Deliveries]
  OBVIOUS
<1>4. Stopping'
  BY <1>2 DEF Stopping, OUT
<1> QED BY <1>1, <1>2, <1>3, <1>4

\* The message goes back to the broker: another delivery takes the place of one.
LEMMA SentAgain ==
  ASSUME ServerInv, NEW r \in Runs, NEW d \in Deliveries, SendAgain(r, d)
  PROVE  /\ scanner' \in [Runs -> [Deliveries -> ScanPc]]
         /\ \A s \in Runs, e \in Deliveries :
              scanner'[s][e] = scanner[s][e] \/ scanner'[s][e] = "done" \/ (s = r /\ scanner[s][e] = "unsent")
         /\ scanner'[r][d] = "done" \/ scanner[r][d] = "unsent"
<1>1. PICK e \in Deliveries :
        scanner[r][e] = "unsent" /\ scanner' = [scanner EXCEPT ![r][d] = "done", ![r][e] = "queued"]
  BY DEF SendAgain
<1> QED BY <1>1 DEF ServerInv, ServerTypeOK, ScanPc

\* No scanner counts on a flag that is not set for a run of which it was deleted.
LEMMA StoppingForgets ==
  ASSUME ServerInv, NEW r \in Runs,
         scanner' \in [Runs -> [Deliveries -> ScanPc]],
         \A s \in Runs, e \in Deliveries : s # r => scanner'[s][e] = scanner[s][e],
         flag' = [flag EXCEPT ![r] = FALSE], doomed' = [doomed EXCEPT ![r] = {}]
  PROVE  Stopping' /\ flag' \in [Runs -> BOOLEAN] /\ doomed' \in [Runs -> SUBSET Deliveries]
<1>1. flag' \in [Runs -> BOOLEAN] /\ doomed' \in [Runs -> SUBSET Deliveries] /\ doomed'[r] = {}
  BY DEF ServerInv, ServerTypeOK
<1>2. \A s \in Runs : s # r => doomed'[s] = doomed[s] /\ flag'[s] = flag[s] /\ doomed[s] \subseteq Deliveries
  BY DEF ServerInv, ServerTypeOK
<1>3. Stopping'
  BY <1>1, <1>2 DEF ServerInv, Stopping
<1> QED BY <1>1, <1>3

LEMMA ScannersKeep ==
  ASSUME ServerInv, NEW r \in Runs, NEW d \in Deliveries,
         ReceiveScan(r, d) \/ ScanStep(r, d) \/ WorkerLost(r, d) \/ Redeliver(r, d)
  PROVE  ServerInv'
<1> USE DEF ServerInv, ServerTypeOK
<1>a. ASSUME NEW pc \in ScanPc, Goto(r, d, pc)
      PROVE  /\ scanner' \in [Runs -> [Deliveries -> ScanPc]]
             /\ scanner'[r][d] = pc
             /\ \A s \in Runs, e \in Deliveries : s # r \/ e # d => scanner'[s][e] = scanner[s][e]
  BY <1>a, ScannerMoves
<1>1. CASE ReceiveScan(r, d)
  <2>1. PICK pc \in {"discover", "clear", "leave"} : Goto(r, d, pc)
    BY <1>1 DEF ReceiveScan
  <2>2. audit' \in [Runs -> AuditRow] /\ Rows'
    <3>1. [audit[r] EXCEPT !.st = "scanning"] \in RowOf(r)
      BY RowTyped DEF Rows, AuditFlowStatus
    <3>2. audit' = audit \/ audit' = [audit EXCEPT ![r] = [audit[r] EXCEPT !.st = "scanning"]]
      BY <1>1 DEF ReceiveScan
    <3> QED BY <3>1, <3>2, RowWritten DEF Rows
  <2>3. pc \in ScanPc /\ (pc \in OUT \/ pc \in LOOKS)
    BY DEF ScanPc, OUT, LOOKS
  <2>4. d \in doomed[r] => flag[r]
    BY <1>1 DEF ReceiveScan, Stopping, OUT
  <2>5. UNCHANGED <<flag, jobs, launches, doomed>>
    BY <1>1 DEF ReceiveScan
  <2>6. Stopping'
    BY <1>a, <2>1, <2>3, <2>4, <2>5, StoppingKept
  <2> QED BY <1>a, <2>1, <2>2, <2>3, <2>5, <2>6
<1>2. CASE ScanSeesCancel(r, d)
  BY <1>2, ScanEnded DEF ScanSeesCancel, AuditFlowStatus
<1>3. CASE Discover(r, d)
  <2>1. audit' \in [Runs -> AuditRow] /\ Rows'
    <3>1. [audit[r] EXCEPT !.found = TRUE, !.skip = "scanning"] \in RowOf(r)
      <4>1. audit[r] \in RowOf(r)
        BY DEF Rows
      <4> QED BY <4>1 DEF RowOf, AuditRow, SkipReason
    <3>2. audit' = audit \/ audit' = [audit EXCEPT ![r] = [audit[r] EXCEPT !.found = TRUE, !.skip = "scanning"]]
      BY <1>3 DEF Discover
    <3> QED BY <3>1, <3>2, RowWritten DEF Rows
  <2>2. Goto(r, d, "identify") /\ "identify" \in ScanPc
    BY <1>3 DEF Discover, ScanPc
  <2>3. d \notin doomed[r]
    BY <1>3 DEF Discover, SeesFlag, Stopping, OUT
  <2>4. Stopping'
    BY <1>3, <1>a, <2>2, <2>3, StoppingKept DEF Discover
  <2> QED BY <1>3, <1>a, <2>1, <2>2, <2>4 DEF Discover
<1>4. CASE Identify(r, d) \/ CheckBeforeApply(r, d)
  <2>1. PICK pc \in {"managed", "unmanaged", "applying"} : Goto(r, d, pc)
    BY <1>4 DEF Identify, CheckBeforeApply
  <2>2. pc \in ScanPc
    BY DEF ScanPc
  <2>3. d \notin doomed[r]
    BY <1>4 DEF Identify, CheckBeforeApply, SeesFlag, Stopping, OUT
  <2>4. UNCHANGED <<audit, flag, jobs, launches, doomed>>
    BY <1>4 DEF Identify, CheckBeforeApply
  <2>5. Stopping'
    BY <1>a, <2>1, <2>2, <2>3, <2>4, StoppingKept
  <2> QED BY <1>a, <2>1, <2>2, <2>4, <2>5 DEF Rows
<1>5. CASE ApplyResult(r, d)
  <2>1. PICK p \in ProbeResults : audit' = [audit EXCEPT ![r] = ApplyProbeResult(audit[r], p)]
    BY <1>5 DEF ApplyResult, ProbeResults
  <2>2. ApplyProbeResult(audit[r], p) \in RowOf(r)
    BY OutcomesTyped DEF Rows
  <2>3. audit' \in [Runs -> AuditRow] /\ Rows'
    BY <2>1, <2>2, RowWritten
  <2>4. Goto(r, d, "finish") /\ "finish" \in ScanPc
    BY <1>5 DEF ApplyResult, ScanPc
  <2>5. d \notin doomed[r]
    BY <1>5 DEF ApplyResult, Stopping, OUT, LOOKS
  <2>6. Stopping'
    BY <1>5, <1>a, <2>4, <2>5, StoppingKept DEF ApplyResult
  <2> QED BY <1>5, <1>a, <2>3, <2>4, <2>6 DEF ApplyResult
<1>6. CASE FinishScan(r, d)
  BY <1>6, ScanEnded DEF FinishScan, AuditFlowStatus
<1>7. CASE ScanFails(r, d)
  BY <1>7, ScanEnded DEF ScanFails, AuditFlowStatus
<1>8. CASE ScanAborts(r, d)
  <2>1. Goto(r, d, "leave") /\ "leave" \in ScanPc
    BY <1>8 DEF ScanAborts, ScanPc
  <2>2. UNCHANGED <<audit, flag, jobs, launches>> /\ doomed' = [doomed EXCEPT ![r] = doomed[r] \ {d}]
    BY <1>8 DEF ScanAborts
  <2>3. Stopping'
    BY <1>a, <2>1, <2>2 DEF Stopping, OUT
  <2> QED BY <1>a, <2>1, <2>2, <2>3 DEF Rows
<1>9. CASE CleanUp(r, d)
  <2>1. UNCHANGED <<audit, jobs, launches>>
    BY <1>9 DEF CleanUp
  <2>2. CASE SendAgain(r, d) /\ flag' = [flag EXCEPT ![r] = FALSE] /\ doomed' = [doomed EXCEPT ![r] = {}]
    <3>1. \A s \in Runs, e \in Deliveries : s # r => scanner'[s][e] = scanner[s][e]
      BY <2>2 DEF SendAgain
    <3> QED BY <2>1, <2>2, <3>1, SentAgain, StoppingForgets DEF Rows
  <2>3. ASSUME NEW pc \in {"done", "raised"}, Goto(r, d, pc)
        PROVE  ServerInv'
    <3>1. pc \in ScanPc /\ pc \in OUT
      BY DEF ScanPc, OUT
    <3>2. CASE flag' = [flag EXCEPT ![r] = FALSE] /\ doomed' = [doomed EXCEPT ![r] = {}]
      <4>1. scanner' \in [Runs -> [Deliveries -> ScanPc]]
        BY <1>a, <2>3, <3>1
      <4>2. \A s \in Runs, e \in Deliveries : s # r => scanner'[s][e] = scanner[s][e]
        BY <1>a, <2>3, <3>1
      <4>3. Stopping' /\ flag' \in [Runs -> BOOLEAN] /\ doomed' \in [Runs -> SUBSET Deliveries]
        BY <3>2, <4>1, <4>2, StoppingForgets
      <4> QED BY <2>1, <4>1, <4>3 DEF Rows
    <3>3. CASE UNCHANGED <<flag, doomed>>
      <4>1. Stopping'
        BY <1>a, <2>3, <3>1, <3>3, StoppingKept
      <4> QED BY <1>a, <2>1, <2>3, <3>1, <3>3, <4>1 DEF Rows
    <3> QED BY <1>9, <3>2, <3>3 DEF CleanUp
  <2> QED BY <1>9, <2>2, <2>3 DEF CleanUp
<1>10. CASE WorkerLost(r, d)
  <2>1. UNCHANGED <<audit, flag, jobs, launches>> /\ doomed' = [doomed EXCEPT ![r] = doomed[r] \ {d}]
    BY <1>10 DEF WorkerLost
  <2>2. SendAgain(r, d)
    BY <1>10 DEF WorkerLost
  <2>3. \A s \in Runs, e \in Deliveries : s # r => scanner'[s][e] = scanner[s][e]
    BY <2>2 DEF SendAgain
  <2>4. Stopping'
    BY <2>1, <2>2, <2>3, SentAgain DEF Stopping, OUT, LOOKS
  <2> QED BY <2>1, <2>2, <2>4, SentAgain DEF Rows
<1>11. CASE Redeliver(r, d)
  <2>1. UNCHANGED <<audit, flag, jobs, launches, doomed>> /\ Goto(r, d, "queued") /\ "queued" \in ScanPc
    BY <1>11 DEF Redeliver, ScanPc
  <2>2. d \notin doomed[r]
    BY <1>11 DEF Redeliver, Stopping, OUT, LOOKS
  <2>3. Stopping'
    BY <1>a, <2>1, <2>2, StoppingKept
  <2> QED BY <1>a, <2>1, <2>3 DEF Rows
<1> QED BY <1>1, <1>2, <1>3, <1>4, <1>5, <1>6, <1>7, <1>8, <1>9, <1>10, <1>11 DEF ScanStep

LEMMA RowAlone ==
  ASSUME ServerInv, NEW r \in Runs, NEW row \in RowOf(r),
         audit' = [audit EXCEPT ![r] = row], UNCHANGED <<flag, scanner, jobs, launches, doomed>>
  PROVE  ServerInv'
<1>1. audit' \in [Runs -> AuditRow] /\ Rows'
  BY RowWritten
<1>2. Stopping'
  BY DEF ServerInv, Stopping
<1> QED BY <1>1, <1>2 DEF ServerInv, ServerTypeOK

LEMMA EnvironmentKeeps ==
  ASSUME ServerInv, NEW r \in Runs, JobEnds(r) \/ ListRefreshes(r)
  PROVE  ServerInv'
<1>1. CASE JobEnds(r)
  <2>1. jobs' \in [Runs -> {"none", "pending", "completed", "failed"}]
    BY <1>1 DEF JobEnds, ServerInv, ServerTypeOK
  <2>2. UNCHANGED <<audit, flag, scanner, launches, doomed>>
    BY <1>1 DEF JobEnds
  <2> QED BY <2>1, <2>2 DEF ServerInv, ServerTypeOK, Rows, Stopping
<1>2. CASE ListRefreshes(r)
  <2>1. audit' = [audit EXCEPT ![r] = Refreshed(audit[r], jobs[r])]
    BY <1>2 DEF ListRefreshes
  <2>2. Refreshed(audit[r], jobs[r]) \in RowOf(r)
    BY OutcomesTyped DEF ServerInv, Rows
  <2> QED BY <1>2, <2>1, <2>2, RowAlone DEF ListRefreshes
<1> QED BY <1>1, <1>2

-----------------------------------------------------------------------------
(* The page's steps.                                                       *)

LEMMA CallMade ==
  ASSUME PageInv, OwnData, NEW r \in Runs, NEW op \in Mutations \cup {"get"},
         NEW change \in Changes \cup {NoChange}
  PROVE  LET c == NewCall(op, r, change) IN
         /\ c \in Call
         /\ c.op = op /\ c.run = r /\ c.change = change /\ c.phase = "sent"
         /\ ~strayed => Own(c.shown, r)
<1> DEFINE c == NewCall(op, r, change)
           shown == IF op \in {"patch", "execute"} THEN cache[r] ELSE NoData
<1>1. c = [op |-> op, run |-> r, change |-> change, phase |-> "sent", ok |-> TRUE, heard |-> TRUE,
           shown |-> shown, seen |-> NoData, latest |-> TRUE, under |-> r]
  BY DEF NewCall
<1>2. shown \in AuditRow \cup {NoData} /\ (~strayed => Own(shown, r))
  BY DEF PageInv, OwnData, Own
<1> HIDE DEF shown
<1> QED BY <1>1, <1>2 DEF Call

\* A request that is asked for.
LEMMA AskKeeps ==
  ASSUME PageInv, OwnData, NEW r \in Runs, NEW op \in Mutations, NEW change \in Changes \cup {NoChange},
         op \in {"patch", "cred"} => change \in Changes,
         NEW others, \A c \in others : SoundCall(c) /\ (~strayed => Own(c.shown, c.run)),
         Ask(op, NewCall(op, r, change), others)
  PROVE  /\ \A c \in calls' : SoundCall(c) /\ (~strayed => Own(c.shown, c.run))
         /\ asked' \in 0 .. MaxAsked /\ raced' \subseteq Runs
         /\ UNCHANGED <<serverVars, activeId, strayed, together>>
<1> DEFINE new == NewCall(op, r, change)
<1>1. /\ new \in Call /\ new.op = op /\ new.run = r /\ new.change = change /\ new.phase = "sent"
      /\ ~strayed => Own(new.shown, r)
  BY CallMade
<1>2. SoundCall(new)
  BY <1>1 DEF SoundCall, Mutations
<1>3. calls' = others \cup {new}
  BY DEF Ask
<1>4. asked' \in 0 .. MaxAsked
  BY AuditFlowPageAssumption DEF Ask, PageInv
<1>5. raced' \in {raced, raced \cup {r}}
  BY <1>1 DEF Ask, Race
<1> QED BY <1>1, <1>2, <1>3, <1>4, <1>5 DEF Ask, PageInv

\* A fetch.
LEMMA FetchKeeps ==
  ASSUME ServerInv, PageInv, OwnData, NEW r \in Runs, NEW st \in RowOf(r), Fetch(r, st)
  PROVE  /\ UNCHANGED scanner => ServerInv'
         /\ \A c \in calls' : SoundCall(c) /\ (~strayed => Own(c.shown, c.run))
         /\ raced' \subseteq Runs
         /\ UNCHANGED <<strayed, together>>
<1> DEFINE row == Refreshed(st, jobs[r])
           new == [NewCall("get", r, NoChange) EXCEPT !.phase = "answered", !.seen = row, !.ok = row.st # "deleted"]
<1>1. row \in RowOf(r)
  BY OutcomesTyped
<1>2. UNCHANGED scanner => ServerInv'
  BY <1>1, RowAlone DEF Fetch
<1>3. LET c == NewCall("get", r, NoChange) IN
      /\ c \in Call /\ c.op = "get" /\ c.run = r /\ c.phase = "sent"
      /\ ~strayed => Own(c.shown, r)
  BY CallMade
<1>4. SoundCall(new) /\ new.run = r /\ (~strayed => Own(new.shown, r))
  <2> HIDE DEF row
  <2>1. row \in AuditRow
    BY <1>1 DEF RowOf
  <2>2. /\ new \in Call /\ new.op = "get" /\ new.run = r /\ new.phase = "answered" /\ new.seen = row
        /\ new.shown = NewCall("get", r, NoChange).shown
    BY <1>3, <2>1 DEF Call
  <2> QED BY <1>1, <1>3, <2>2 DEF SoundCall
<1>5. calls' = calls \cup {new}
  BY DEF Fetch
<1>6. raced' \in {raced, raced \cup {r}}
  BY DEF Fetch, Race
<1> HIDE DEF new
<1> QED BY <1>2, <1>4, <1>5, <1>6 DEF Fetch, PageInv, OwnData

\* A mutation asked for on the page, whatever becomes of the cache.
LEMMA AskPreserves ==
  ASSUME Inv, NEW r \in Runs, NEW op \in Mutations, NEW change \in Changes \cup {NoChange},
         op \in {"patch", "cred"} => change \in Changes,
         NEW others, \A c \in others : SoundCall(c) /\ (~strayed => Own(c.shown, c.run)),
         Ask(op, NewCall(op, r, change), others),
         cache' \in [Runs -> AuditRow \cup {NoData}],
         ~strayed => \A s \in Runs : Own(cache'[s], s)
  PROVE  Inv'
<1>1. /\ \A c \in calls' : SoundCall(c) /\ (~strayed => Own(c.shown, c.run))
      /\ asked' \in 0 .. MaxAsked /\ raced' \subseteq Runs
      /\ UNCHANGED <<serverVars, activeId, strayed, together>>
  BY AskKeeps DEF Inv
<1>2. ServerInv'
  BY <1>1 DEF Inv, ServerInv, ServerTypeOK, Rows, Stopping, serverVars
<1>3. PageInv'
  BY <1>1 DEF Inv, PageInv
<1>4. OwnData'
  BY <1>1 DEF OwnData
<1> QED BY <1>2, <1>3, <1>4 DEF Inv

\* A fetch, whatever the page shows by then.
LEMMA FetchPreserves ==
  ASSUME Inv, NEW r \in Runs, NEW st \in RowOf(r), Fetch(r, st),
         UNCHANGED <<scanner, cache>>,
         activeId' \in Runs \cup {NoActive}, asked' \in 0 .. MaxAsked
  PROVE  Inv'
<1>1. /\ ServerInv'
      /\ \A c \in calls' : SoundCall(c) /\ (~strayed => Own(c.shown, c.run))
      /\ raced' \subseteq Runs
      /\ UNCHANGED <<strayed, together>>
  BY FetchKeeps DEF Inv
<1>2. PageInv'
  BY <1>1 DEF Inv, PageInv
<1>3. OwnData'
  BY <1>1 DEF Inv, OwnData
<1> QED BY <1>1, <1>2, <1>3 DEF Inv

LEMMA QueryPreserves ==
  ASSUME Inv, Poll \/ Refetch \/ (\E r \in Runs : SelectRun(r) \/ StartRun(r))
  PROVE  Inv'
<1>1. CASE Poll
  <2>1. activeId \in Runs
    BY <1>1 DEF Poll, Inv, PageInv
  <2>2. audit[activeId] \in RowOf(activeId)
    BY <2>1 DEF Inv, ServerInv, Rows
  <2> QED BY <1>1, <2>1, <2>2, FetchPreserves DEF Poll, Inv, PageInv
<1>2. CASE Refetch
  <2>1. activeId \in Runs
    BY <1>2, AuditFlowPageAssumption DEF Refetch
  <2>2. audit[activeId] \in RowOf(activeId)
    BY <2>1 DEF Inv, ServerInv, Rows
  <2>3. asked' \in 0 .. MaxAsked
    BY <1>2, AuditFlowPageAssumption DEF Refetch, Inv, PageInv
  <2> QED BY <1>2, <2>1, <2>2, <2>3, FetchPreserves DEF Refetch, Inv, PageInv
<1>3. ASSUME NEW r \in Runs, SelectRun(r) PROVE Inv'
  <2>1. audit[r] \in RowOf(r)
    BY DEF Inv, ServerInv, Rows
  <2>2. CASE Fetch(r, audit[r])
    BY <1>3, <2>1, <2>2, FetchPreserves DEF SelectRun, Inv, PageInv
  <2>3. CASE UNCHANGED <<audit, flag, jobs, launches, doomed, calls, raced, strayed, together>>
    BY <1>3, <2>3 DEF SelectRun, Inv, ServerInv, ServerTypeOK, Rows, Stopping, PageInv, OwnData
  <2> QED BY <1>3, <2>2, <2>3 DEF SelectRun
<1>4. ASSUME NEW r \in Runs, StartRun(r) PROVE Inv'
  <2>1. \A st \in AuditFlowStatus : [audit[r] EXCEPT !.st = st] \in RowOf(r)
    BY RowTyped DEF Inv, ServerInv, Rows
  <2>2. CASE activeId' = r
    <3>1. [audit[r] EXCEPT !.st = "pending"] \in RowOf(r)
      BY <2>1 DEF AuditFlowStatus
    <3>2. Fetch(r, [audit[r] EXCEPT !.st = "pending"]) /\ UNCHANGED scanner
      BY <1>4, <2>2, AuditFlowPageAssumption DEF StartRun
    <3> QED BY <1>4, <2>2, <3>1, <3>2, FetchPreserves DEF StartRun, Inv, PageInv
  <2>3. CASE activeId' # r
    <3>1. /\ audit' = [audit EXCEPT ![r] = [audit[r] EXCEPT !.st = "failed"]]
          /\ scanner' = [scanner EXCEPT ![r] = [d \in Deliveries |-> "done"]]
          /\ UNCHANGED <<activeId, calls, raced, flag, jobs, launches, doomed, strayed, together, cache, asked>>
      BY <1>4, <2>3 DEF StartRun
    <3>2. [audit[r] EXCEPT !.st = "failed"] \in RowOf(r)
      BY <2>1 DEF AuditFlowStatus
    <3>3. audit' \in [Runs -> AuditRow] /\ Rows'
      BY <3>1, <3>2, RowWritten DEF Inv
    <3>4. scanner' \in [Runs -> [Deliveries -> ScanPc]]
      BY <3>1 DEF Inv, ServerInv, ServerTypeOK, ScanPc
    <3>5. \A s \in Runs, e \in Deliveries : scanner'[s][e] \in {"done", scanner[s][e]}
      BY <3>1 DEF Inv, ServerInv, ServerTypeOK
    <3>6. \A s \in Runs : doomed[s] \subseteq Deliveries
      BY DEF Inv, ServerInv, ServerTypeOK
    <3>7. Stopping'
      BY <3>1, <3>5, <3>6 DEF Inv, ServerInv, Stopping, OUT
    <3>8. ServerInv'
      BY <3>1, <3>3, <3>4, <3>7 DEF Inv, ServerInv, ServerTypeOK
    <3> QED BY <3>1, <3>8 DEF Inv, PageInv, OwnData
  <2> QED BY <2>2, <2>3
<1> QED BY <1>1, <1>2, <1>3, <1>4

LEMMA ChangesPreserve ==
  ASSUME Inv, AddHostCred \/ Execute \/ Cancel \/ (\E change \in Changes : PatchHosts(change))
  PROVE  Inv'
<1>1. activeId \in Runs
  BY DEF AddHostCred, Execute, Cancel, PatchHosts, Inv, PageInv
<1>2. \A c \in calls : SoundCall(c) /\ (~strayed => Own(c.shown, c.run))
  BY DEF Inv, PageInv, OwnData
<1>3. cache \in [Runs -> AuditRow \cup {NoData}] /\ (~strayed => \A s \in Runs : Own(cache[s], s))
  BY DEF Inv, PageInv, OwnData
<1>4. CASE AddHostCred
  <2>1. [field |-> "credential", value |-> TRUE] \in Changes
    BY DEF Changes
  <2>2. Ask("cred", NewCall("cred", activeId, [field |-> "credential", value |-> TRUE]), calls) /\ UNCHANGED cache
    BY <1>4 DEF AddHostCred
  <2>3. "cred" \in Mutations
    BY DEF Mutations
  <2> QED BY <1>1, <1>2, <1>3, <2>1, <2>2, <2>3, AskPreserves
<1>5. CASE Execute
  <2>1. Ask("execute", NewCall("execute", activeId, NoChange), calls) /\ UNCHANGED cache
    BY <1>5 DEF Execute
  <2>2. "execute" \in Mutations /\ "execute" \notin {"patch", "cred"}
    BY DEF Mutations
  <2> QED BY <1>1, <1>2, <1>3, <2>1, <2>2, AskPreserves
<1>6. CASE Cancel
  <2>1. Ask("cancel", NewCall("cancel", activeId, NoChange), calls) /\ UNCHANGED cache
    BY <1>6 DEF Cancel
  <2>2. "cancel" \in Mutations /\ "cancel" \notin {"patch", "cred"}
    BY DEF Mutations
  <2> QED BY <1>1, <1>2, <1>3, <2>1, <2>2, AskPreserves
<1>7. ASSUME NEW change \in Changes, PatchHosts(change) PROVE Inv'
  <2> DEFINE row == cache[activeId]
             late(c) == IF c.op = "patch" /\ c.latest THEN [c EXCEPT !.latest = FALSE, !.under = activeId] ELSE c
             rest == {late(c) : c \in calls \ Fetching(activeId)}
  <2>1. row \in AuditRow /\ row.id \in Runs /\ row \in RowOf(row.id)
    BY <1>1, <1>3, <1>7 DEF PatchHosts, RowOf, AuditRow
  <2>2. HostPatch(row, change) \in AuditRow /\ HostPatch(row, change).id = row.id
    BY <2>1, PatchTyped DEF RowOf
  <2>3. cache' = [cache EXCEPT ![activeId] = HostPatch(row, change)]
    BY <1>7 DEF PatchHosts
  <2>4. cache' \in [Runs -> AuditRow \cup {NoData}]
    BY <1>3, <2>2, <2>3
  <2>5. row # NoData
    BY <1>7 DEF PatchHosts
  <2>6. ASSUME ~strayed, NEW s \in Runs PROVE Own(cache'[s], s)
    BY <1>1, <1>3, <2>2, <2>3, <2>5, <2>6 DEF Own
  <2>7. ASSUME NEW c \in calls PROVE SoundCall(late(c)) /\ (~strayed => Own(late(c).shown, late(c).run))
    <3>1. c \in Call
      BY <1>2 DEF SoundCall
    <3> DEFINE moved == [c EXCEPT !.latest = FALSE, !.under = activeId]
    <3>2. /\ moved \in Call /\ moved.op = c.op /\ moved.run = c.run /\ moved.change = c.change
          /\ moved.phase = c.phase /\ moved.ok = c.ok /\ moved.shown = c.shown /\ moved.seen = c.seen
      BY <1>1, <3>1 DEF Call
    <3>3. SoundCall(moved) /\ (~strayed => Own(moved.shown, moved.run))
      BY <1>2, <3>2 DEF SoundCall
    <3>4. late(c) \in {c, moved}
      OBVIOUS
    <3> HIDE DEF late, moved
    <3> QED BY <1>2, <3>3, <3>4
  <2>8. \A c \in rest : SoundCall(c) /\ (~strayed => Own(c.shown, c.run))
    BY <2>7
  <2>9. Ask("patch", NewCall("patch", activeId, change), rest)
    BY <1>7 DEF PatchHosts
  <2>10. "patch" \in Mutations
    BY DEF Mutations
  <2> HIDE DEF rest, row, late
  <2> QED BY <1>1, <2>4, <2>6, <2>8, <2>9, <2>10, AskPreserves
<1> QED BY <1>4, <1>5, <1>6, <1>7

-----------------------------------------------------------------------------
(* Requests are served, and answers are taken.                             *)

\* A call moves on, and keeps its run and its snapshot.
LEMMA CallMoves ==
  ASSUME PageInv, OwnData, NEW c \in calls, NEW d, Becomes(c, d), SoundCall(d),
         d.run = c.run, d.shown \in {c.shown, NoData}
  PROVE  \A e \in calls' : SoundCall(e) /\ (~strayed => Own(e.shown, e.run))
<1>1. calls' \subseteq calls \cup {d}
  BY DEF Becomes
<1>2. ~strayed => Own(d.shown, d.run)
  BY DEF OwnData, Own
<1> QED BY <1>1, <1>2 DEF PageInv, OwnData

LEMMA LoadPreserves ==
  ASSUME Inv, NEW c \in calls, LoadRun(c) \/ Refuse(c) \/ GiveUp(c)
  PROVE  Inv'
<1>1. SoundCall(c) /\ c \in Call /\ c.run \in Runs
  BY DEF Inv, PageInv, SoundCall, Call
<1>2. audit[c.run] \in RowOf(c.run) /\ audit[c.run] \in AuditRow
  BY <1>1 DEF Inv, ServerInv, Rows, RowOf
<1>3. /\ \A e \in calls' : SoundCall(e) /\ (~strayed => Own(e.shown, e.run))
      /\ raced' \subseteq Runs
  <2>1. CASE LoadRun(c)
    <3> DEFINE d == [c EXCEPT !.phase = "loaded", !.seen = audit[c.run]]
    <3>1. /\ d \in Call /\ d.op = c.op /\ d.run = c.run /\ d.change = c.change
          /\ d.phase = "loaded" /\ d.shown = c.shown /\ d.seen = audit[c.run]
      BY <1>1, <1>2 DEF Call
    <3>2. c.op # "get"
      BY <1>1, <2>1 DEF LoadRun, SoundCall
    <3>3. SoundCall(d)
      BY <1>1, <1>2, <3>1, <3>2 DEF SoundCall
    <3>4. Becomes(c, d) /\ raced' = raced
      BY <2>1 DEF LoadRun
    <3> HIDE DEF d
    <3> QED BY <3>1, <3>3, <3>4, CallMoves DEF Inv, PageInv
  <2>2. CASE Refuse(c)
    <3> DEFINE d == [c EXCEPT !.phase = "answered", !.ok = FALSE]
    <3>1. /\ d \in Call /\ d.op = c.op /\ d.run = c.run /\ d.change = c.change
          /\ d.phase = "answered" /\ ~d.ok /\ d.shown = c.shown
      BY <1>1 DEF Call
    <3>2. SoundCall(d)
      BY <1>1, <3>1 DEF SoundCall
    <3>3. Becomes(c, d) /\ raced' = raced
      BY <2>2 DEF Refuse
    <3> HIDE DEF d
    <3> QED BY <3>1, <3>2, <3>3, CallMoves DEF Inv, PageInv
  <2>3. CASE GiveUp(c)
    <3> DEFINE d == [c EXCEPT !.heard = FALSE, !.shown = NoData]
    <3>1. /\ d \in Call /\ d.op = c.op /\ d.run = c.run /\ d.change = c.change
          /\ d.phase = c.phase /\ d.ok = c.ok /\ d.shown = NoData /\ d.seen = c.seen
      BY <1>1 DEF Call
    <3>2. SoundCall(d)
      BY <1>1, <3>1 DEF SoundCall
    <3>3. Becomes(c, d) /\ raced' = raced \cup {c.run}
      BY <2>3 DEF GiveUp
    <3> HIDE DEF d
    <3> QED BY <1>1, <3>1, <3>2, <3>3, CallMoves DEF Inv, PageInv
  <2> QED BY <2>1, <2>2, <2>3
<1>4. UNCHANGED <<serverVars, activeId, cache, asked, strayed>>
  BY DEF LoadRun, Refuse, GiveUp
<1>5. together' \in {together, together \cup {c.run}}
  BY DEF LoadRun, Refuse, GiveUp
<1> QED BY <1>1, <1>3, <1>4, <1>5 DEF Inv, ServerInv, ServerTypeOK, Rows, Stopping, serverVars, PageInv, OwnData

LEMMA OutcomeTyped ==
  ASSUME NEW c, SoundCall(c), c.phase = "loaded", NEW fails \in BOOLEAN
  PROVE  c.run \in Runs /\ Outcome(c, fails) \in RowOf(c.run)
<1>1. c \in Call /\ c.run \in Runs /\ c.seen \in RowOf(c.run)
  BY DEF SoundCall, Call
<1>2. CASE c.op \in {"patch", "cred"}
  <2>1. PatchHost(c.seen, c.change) \in RowOf(c.run)
    BY <1>1, <1>2, PatchTyped DEF SoundCall
  <2> QED BY <1>1, <1>2, <2>1 DEF Outcome
<1>3. CASE c.op = "execute"
  <2>1. Executed(c.seen, fails) \in RowOf(c.run)
    BY <1>1, OutcomesTyped
  <2> QED BY <1>1, <1>3, <2>1 DEF Outcome
<1>4. CASE c.op = "cancel"
  <2>1. [c.seen EXCEPT !.st = "cancelled"] \in RowOf(c.run)
    BY <1>1, RowTyped DEF AuditFlowStatus
  <2>2. Outcome(c, fails) \in {c.seen, [c.seen EXCEPT !.st = "cancelled"]}
    BY <1>4 DEF Outcome
  <2> QED BY <1>1, <2>1, <2>2
<1>5. c.op \in {"patch", "cred", "execute", "cancel"}
  BY <1>1 DEF SoundCall, Call, Mutations
<1> QED BY <1>2, <1>3, <1>4, <1>5

LEMMA ServePreserves ==
  ASSUME Inv, NEW c \in calls, Serve(c)
  PROVE  Inv'
<1> DEFINE r == c.run
           cancels == c.op = "cancel" /\ c.seen.st \in ACTIVE
<1>1. SoundCall(c) /\ c \in Call /\ r \in Runs /\ c.phase = "loaded" /\ c.seen \in RowOf(r)
  BY DEF Inv, PageInv, SoundCall, Call, Serve
<1>2. PICK fails \in BOOLEAN :
        LET did == Outcome(c, fails)
            launched == c.op = "execute" /\ CanLaunch(c.seen) /\ ~fails
            out == Refreshed(did, IF launched THEN "pending" ELSE jobs[r])
        IN  /\ audit' = [audit EXCEPT ![r] = Written(audit[r], c.seen, out)]
            /\ jobs' = IF launched THEN [jobs EXCEPT ![r] = "pending"] ELSE jobs
            /\ launches' = IF launched THEN [launches EXCEPT ![r] = launches[r] + 1] ELSE launches
            /\ Becomes(c, [c EXCEPT !.phase = "answered", !.seen = out])
  BY DEF Serve
<1> DEFINE did == Outcome(c, fails)
           launched == c.op = "execute" /\ CanLaunch(c.seen) /\ ~fails
           out == Refreshed(did, IF launched THEN "pending" ELSE jobs[r])
           d == [c EXCEPT !.phase = "answered", !.seen = out]
<1>3. out \in RowOf(r)
  <2>1. did \in RowOf(r)
    BY <1>1, OutcomeTyped
  <2> HIDE DEF did
  <2> QED BY <1>1, <2>1, OutcomesTyped
<1>4. audit' \in [Runs -> AuditRow] /\ Rows'
  <2> HIDE DEF out
  <2>1. Written(audit[r], c.seen, out) \in RowOf(r)
    BY <1>1, <1>3, WrittenTyped DEF Inv, ServerInv, Rows
  <2>2. audit' = [audit EXCEPT ![r] = Written(audit[r], c.seen, out)]
    BY <1>2 DEF out
  <2> QED BY <1>1, <2>1, <2>2, RowWritten DEF Inv
<1>5. /\ jobs' \in [Runs -> {"none", "pending", "completed", "failed"}]
      /\ launches' \in [Runs -> Nat]
  <2>1. jobs' = jobs \/ jobs' = [jobs EXCEPT ![r] = "pending"]
    BY <1>2
  <2>2. launches' = launches \/ launches' = [launches EXCEPT ![r] = launches[r] + 1]
    BY <1>2
  <2>3. launches \in [Runs -> Nat] /\ jobs \in [Runs -> {"none", "pending", "completed", "failed"}]
    BY DEF Inv, ServerInv, ServerTypeOK
  <2>4. launches[r] + 1 \in Nat
    BY <1>1, <2>3
  <2> QED BY <1>1, <2>1, <2>2, <2>3, <2>4
<1>6. \A e \in calls' : SoundCall(e) /\ (~strayed => Own(e.shown, e.run))
  <2> HIDE DEF out
  <2>1. out \in AuditRow
    BY <1>3 DEF RowOf
  <2>2. /\ d \in Call /\ d.op = c.op /\ d.run = c.run /\ d.change = c.change
        /\ d.phase = "answered" /\ d.shown = c.shown /\ d.seen = out
    BY <1>1, <2>1 DEF Call
  <2>3. SoundCall(d)
    BY <1>1, <1>3, <2>2 DEF SoundCall
  <2>4. Becomes(c, d)
    BY <1>2 DEF out
  <2> HIDE DEF d
  <2> QED BY <2>2, <2>3, <2>4, CallMoves DEF Inv
<1>7. /\ flag' \in [Runs -> BOOLEAN] /\ doomed' \in [Runs -> SUBSET Deliveries] /\ Stopping'
  <2>1. scanner' = scanner
    BY DEF Serve
  <2>2. CASE cancels
    <3>1. /\ flag' = [flag EXCEPT ![r] = TRUE]
          /\ doomed' = [doomed EXCEPT ![r] = {e \in Deliveries : scanner[r][e] \in LOOKS \cup {"queued"}}]
      BY <2>2 DEF Serve
    <3>2. flag' \in [Runs -> BOOLEAN] /\ doomed' \in [Runs -> SUBSET Deliveries]
      BY <3>1 DEF Inv, ServerInv, ServerTypeOK
    <3>3. ASSUME NEW s \in Runs, NEW e \in doomed'[s]
          PROVE  scanner'[s][e] \in OUT \/ (flag'[s] /\ scanner'[s][e] \in LOOKS \cup {"queued"})
      <4>1. CASE s = r
        BY <2>1, <3>1, <4>1 DEF Inv, ServerInv, ServerTypeOK
      <4>2. CASE s # r
        <5>1. doomed'[s] = doomed[s] /\ flag'[s] = flag[s]
          BY <3>1, <4>2 DEF Inv, ServerInv, ServerTypeOK
        <5> QED BY <2>1, <5>1 DEF Inv, ServerInv, Stopping
      <4> QED BY <4>1, <4>2
    <3> QED BY <3>2, <3>3 DEF Stopping
  <2>3. CASE ~cancels
    <3>1. flag' = flag /\ doomed' = doomed
      BY <2>3 DEF Serve
    <3> QED BY <2>1, <3>1 DEF Inv, ServerInv, ServerTypeOK, Stopping
  <2> QED BY <2>2, <2>3
<1>8. raced' \subseteq Runs
  <2>1. raced' \in {raced, raced \cup {r}}
    BY DEF Serve
  <2> QED BY <1>1, <2>1 DEF Inv, PageInv
<1>9. UNCHANGED <<scanner, activeId, cache, asked, strayed, together>>
  BY DEF Serve
<1>10. ServerInv'
  BY <1>4, <1>5, <1>7, <1>9 DEF Inv, ServerInv, ServerTypeOK
<1>11. PageInv' /\ OwnData'
  BY <1>6, <1>8, <1>9 DEF Inv, PageInv, OwnData
<1> QED BY <1>10, <1>11 DEF Inv

\* A rollback writes to its own run's entry, or is remembered as one that strayed.
LEMMA RollBackKeeps ==
  ASSUME PageInv, OwnData, NEW c \in calls, RollBack(c)
  PROVE  /\ cache' \in [Runs -> AuditRow \cup {NoData}]
         /\ strayed' \in BOOLEAN
         /\ strayed => strayed'
         /\ ~strayed' => \A r \in Runs : Own(cache'[r], r)
<1> DEFINE key == IF c.latest THEN activeId ELSE c.under
<1>1. c \in Call /\ c.run \in Runs /\ c.shown \in AuditRow \cup {NoData}
  BY DEF PageInv, SoundCall, Call
<1>2. key \in Runs \cup {NoActive}
  BY <1>1 DEF PageInv, Call
<1>3. CASE c.op = "patch" /\ key # NoActive
  <2>1. cache' = [cache EXCEPT ![key] = c.shown] /\ strayed' = (strayed \/ key # c.run)
    BY <1>3 DEF RollBack
  <2> HIDE DEF key
  <2>2. cache' \in [Runs -> AuditRow \cup {NoData}]
    BY <1>1, <2>1 DEF PageInv
  <2>3. ASSUME ~strayed', NEW r \in Runs PROVE Own(cache'[r], r)
    BY <1>1, <2>1, <2>3 DEF PageInv, OwnData, Own
  <2>4. strayed' \in BOOLEAN /\ (strayed => strayed')
    BY <2>1 DEF PageInv
  <2> QED BY <2>2, <2>3, <2>4
<1>4. CASE ~(c.op = "patch" /\ key # NoActive)
  <2>1. cache' = cache /\ strayed' = strayed
    BY <1>4 DEF RollBack
  <2> QED BY <2>1 DEF PageInv, OwnData
<1> QED BY <1>3, <1>4

LEMMA TakePreserves ==
  ASSUME Inv, NEW c \in calls, TakeAnswer(c) \/ AnswerDropped(c) \/ TakeError(c) \/ LoseCall(c)
  PROVE  Inv'
<1>1. SoundCall(c) /\ c \in Call /\ c.run \in Runs
  BY DEF Inv, PageInv, SoundCall, Call
<1>2. calls' \subseteq calls /\ raced' \in {raced, raced \cup {c.run}}
  BY DEF TakeAnswer, AnswerDropped, TakeError, LoseCall
<1>3. UNCHANGED <<serverVars, activeId, asked, together>>
  BY DEF TakeAnswer, AnswerDropped, TakeError, LoseCall
<1>4. /\ cache' \in [Runs -> AuditRow \cup {NoData}]
      /\ strayed' \in BOOLEAN
      /\ strayed => strayed'
      /\ ~strayed' => \A r \in Runs : Own(cache'[r], r)
  <2>1. CASE TakeAnswer(c)
    <3>1. c.seen \in AuditRow /\ c.seen.id = c.run
      BY <1>1, <2>1 DEF TakeAnswer, SoundCall, RowOf
    <3>2. cache' = [cache EXCEPT ![c.run] = c.seen] /\ strayed' = strayed
      BY <2>1, <3>1 DEF TakeAnswer, Store
    <3> QED BY <1>1, <3>1, <3>2 DEF Inv, PageInv, OwnData, Own
  <2>2. CASE AnswerDropped(c)
    BY <2>2 DEF AnswerDropped, Inv, PageInv, OwnData
  <2>3. CASE TakeError(c) \/ LoseCall(c)
    <3>1. RollBack(c)
      BY <2>3 DEF TakeError, LoseCall
    <3> QED BY <3>1, RollBackKeeps DEF Inv
  <2> QED BY <2>1, <2>2, <2>3
<1>5. ServerInv'
  BY <1>3 DEF Inv, ServerInv, ServerTypeOK, Rows, Stopping, serverVars
<1>6. PageInv'
  BY <1>1, <1>2, <1>3, <1>4 DEF Inv, PageInv
<1>7. OwnData'
  BY <1>2, <1>4 DEF Inv, OwnData
<1> QED BY <1>5, <1>6, <1>7 DEF Inv

LEMMA LeavingPreserves ==
  ASSUME Inv, LeaveRun \/ (\E r \in Runs : DeleteRun(r) \/ DeletedElsewhere(r))
  PROVE  Inv'
<1>1. CASE LeaveRun
  BY <1>1 DEF LeaveRun, Inv, ServerInv, ServerTypeOK, Rows, Stopping, serverVars, PageInv, OwnData
<1>2. ASSUME NEW r \in Runs, DeleteRun(r) \/ DeletedElsewhere(r) PROVE Inv'
  <2>1. [NewRun(r) EXCEPT !.st = "deleted"] \in RowOf(r)
    BY NewRunsTyped, RowTyped
  <2>a. Deleted(r)
    BY <1>2 DEF DeleteRun, DeletedElsewhere
  <2>2. audit' \in [Runs -> AuditRow] /\ Rows'
    BY <2>a, <2>1, RowWritten DEF Deleted, Inv
  <2>3. jobs' \in [Runs -> {"none", "pending", "completed", "failed"}]
    BY <2>a DEF Deleted, Inv, ServerInv, ServerTypeOK
  <2>4. UNCHANGED <<flag, scanner, launches, doomed, asked, strayed, together>>
    BY <2>a DEF Deleted
  <2>5. ServerInv'
    BY <2>2, <2>3, <2>4 DEF Inv, ServerInv, ServerTypeOK, Stopping
  <2>6. cache' \in {cache, [cache EXCEPT ![r] = NoData]}
    BY <1>2 DEF DeleteRun, DeletedElsewhere
  <2>7. activeId' \in Runs \cup {NoActive} /\ calls' \subseteq calls /\ raced' \in {raced, raced \cup {r}}
    BY <1>2 DEF DeleteRun, DeletedElsewhere, Inv, PageInv
  <2>8. PageInv'
    BY <2>4, <2>6, <2>7 DEF Inv, PageInv
  <2>9. OwnData'
    BY <2>4, <2>6, <2>7 DEF Inv, PageInv, OwnData, Own
  <2> QED BY <2>5, <2>8, <2>9 DEF Inv
<1> QED BY <1>1, <1>2

-----------------------------------------------------------------------------
(* Launches.                                                               *)

\* A session has the row of run r, and is about to launch what it finds there.
Executing(r) == {c \in calls : c.run = r /\ c.op = "execute" /\ c.phase = "loaded"}

\* What LaunchedOnce rests on.  Without two requests at once, the one that has loaded
\* a row it can launch has loaded one that was not launched since.
LaunchInv ==
  \A r \in Runs :
    /\ audit[r].st = "deleted" => ~audit[r].found
    /\ launches[r] > 0 => audit[r].job \/ audit[r].st = "deleted"
    /\ r \notin together =>
         /\ launches[r] \in {0, 1}
         /\ \A c \in Executing(r) : CanLaunch(c.seen) => launches[r] = 0
         /\ \A c, e \in Executing(r) : c = e

\* A row remains launched, unless its run is deleted.
Kept(old, new) ==
  \/ new = old
  \/ new.st = "deleted" /\ ~new.found
  \/ new.job = old.job /\ new.st # "deleted" /\ old.st # "deleted"

LEMMA LaunchesKept ==
  ASSUME LaunchInv, \A r \in Runs : Kept(audit[r], audit'[r]) /\ Executing(r)' \subseteq Executing(r),
         UNCHANGED <<launches, together>>
  PROVE  LaunchInv'
BY DEF LaunchInv, Kept

LEMMA RowsKept ==
  ASSUME ServerInv, NEW r \in Runs, NEW row, Kept(audit[r], row), audit' = [audit EXCEPT ![r] = row]
  PROVE  \A s \in Runs : Kept(audit[s], audit'[s])
BY DEF ServerInv, ServerTypeOK, Kept

LEMMA RefreshedKept ==
  ASSUME NEW r \in Runs, NEW row \in RowOf(r), NEW job
  PROVE  /\ Refreshed(row, job).job = row.job
         /\ Refreshed(row, job).st = "deleted" <=> row.st = "deleted"
         /\ Kept(row, Refreshed(row, job))
BY DEF Refreshed, Kept, RowOf, AuditRow

\* The worker.
LEMMA ScannersKeepLaunches ==
  ASSUME Inv, LaunchInv, NEW r \in Runs, NEW d \in Deliveries,
         \/ ReceiveScan(r, d) \/ ScanStep(r, d) \/ WorkerLost(r, d) \/ Redeliver(r, d)
  PROVE  /\ \A s \in Runs : Kept(audit[s], audit'[s])
         /\ UNCHANGED launches
<1> USE DEF Inv, ServerInv, Rows
<1>1. audit[r] \in RowOf(r)
  OBVIOUS
<1>2. ASSUME NEW st \in AuditFlowStatus, EndScan(r, d, st)
      PROVE  (\A s \in Runs : Kept(audit[s], audit'[s])) /\ UNCHANGED launches
  <2>1. CASE Exists(r)
    <3>1. Kept(audit[r], [audit[r] EXCEPT !.st = st])
      BY <1>1, <2>1 DEF Kept, Exists, RowOf, AuditRow, AuditFlowStatus
    <3> QED BY <1>2, <2>1, <3>1, RowsKept DEF EndScan
  <2>2. CASE ~Exists(r)
    BY <1>2, <2>2 DEF EndScan, Kept
  <2> QED BY <2>1, <2>2
<1>3. CASE ReceiveScan(r, d)
  <2>1. CASE Exists(r) /\ audit' = [audit EXCEPT ![r].st = "scanning"]
    <3>1. Kept(audit[r], [audit[r] EXCEPT !.st = "scanning"])
      BY <1>1, <2>1 DEF Kept, Exists, RowOf, AuditRow
    <3> QED BY <1>3, <2>1, <3>1, RowsKept DEF ReceiveScan
  <2>2. CASE UNCHANGED audit
    BY <1>3, <2>2 DEF ReceiveScan, Kept
  <2> QED BY <1>3, <2>1, <2>2 DEF ReceiveScan, Scannable
<1>4. CASE ScanSeesCancel(r, d) \/ FinishScan(r, d) \/ ScanFails(r, d)
  BY <1>2, <1>4 DEF ScanSeesCancel, FinishScan, ScanFails, AuditFlowStatus
<1>5. CASE Discover(r, d)
  <2>1. Kept(audit[r], [audit[r] EXCEPT !.found = TRUE, !.skip = "scanning"])
    BY <1>1, <1>5 DEF Discover, Exists, Kept, RowOf, AuditRow
  <2>2. audit' = audit \/ audit' = [audit EXCEPT ![r] = [audit[r] EXCEPT !.found = TRUE, !.skip = "scanning"]]
    BY <1>5 DEF Discover
  <2> QED BY <1>5, <2>1, <2>2, RowsKept DEF Discover, Kept
<1>6. CASE ApplyResult(r, d)
  <2>1. PICK p : audit' = [audit EXCEPT ![r] = ApplyProbeResult(audit[r], p)]
    BY <1>6 DEF ApplyResult
  <2>2. Kept(audit[r], ApplyProbeResult(audit[r], p))
    BY <1>1, <1>6 DEF ApplyResult, ApplyProbeResult, Exists, Kept, RowOf, AuditRow
  <2> QED BY <1>6, <2>1, <2>2, RowsKept DEF ApplyResult
<1>7. CASE Identify(r, d) \/ CheckBeforeApply(r, d) \/ ScanAborts(r, d) \/ CleanUp(r, d)
           \/ WorkerLost(r, d) \/ Redeliver(r, d)
  BY <1>7 DEF Identify, CheckBeforeApply, ScanAborts, CleanUp, WorkerLost, Redeliver, Kept
<1> QED BY <1>3, <1>4, <1>5, <1>6, <1>7 DEF ScanStep

\* What else happens on the server.
LEMMA EnvironmentKeepsLaunches ==
  ASSUME Inv, NEW r \in Runs, JobEnds(r) \/ ListRefreshes(r)
  PROVE  (\A s \in Runs : Kept(audit[s], audit'[s])) /\ UNCHANGED launches
<1>1. CASE JobEnds(r)
  BY <1>1 DEF JobEnds, Kept
<1>2. CASE ListRefreshes(r)
  <2>1. Kept(audit[r], Refreshed(audit[r], jobs[r]))
    BY RefreshedKept DEF Inv, ServerInv, Rows
  <2> QED BY <1>2, <2>1, RowsKept DEF ListRefreshes, Inv
<1> QED BY <1>1, <1>2

\* The page's own steps, and its queries.
LEMMA FetchKeepsLaunches ==
  ASSUME Inv, LaunchInv, NEW r \in Runs, NEW st \in RowOf(r), Kept(audit[r], st), Fetch(r, st)
  PROVE  LaunchInv'
<1> DEFINE row == Refreshed(st, jobs[r])
<1>1. Kept(audit[r], row)
  <2>1. row.job = st.job /\ (row.st = "deleted" <=> st.st = "deleted") /\ Kept(st, row)
    BY RefreshedKept
  <2>2. st.st = "deleted" => row = st
    BY DEF Refreshed
  <2> HIDE DEF row
  <2> QED BY <2>1, <2>2 DEF Kept
<1>2. \A s \in Runs : Kept(audit[s], audit'[s])
  BY <1>1, RowsKept DEF Fetch, Inv
<1>3. ASSUME NEW s \in Runs PROVE Executing(s)' \subseteq Executing(s)
  <2>1. NewCall("get", r, NoChange).op = "get"
    BY DEF NewCall
  <2>2. ASSUME NEW c \in calls', c \notin calls PROVE c.op = "get"
    BY <2>1, <2>2 DEF Fetch, NewCall
  <2> QED BY <2>2 DEF Executing
<1> QED BY <1>2, <1>3, LaunchesKept DEF Fetch

LEMMA DeletionKeepsLaunches ==
  ASSUME Inv, LaunchInv, NEW r \in Runs, DeleteRun(r) \/ DeletedElsewhere(r)
  PROVE  LaunchInv'
<1>1. Deleted(r) /\ calls' \subseteq calls
  BY DEF DeleteRun, DeletedElsewhere
<1>2. Kept(audit[r], [NewRun(r) EXCEPT !.st = "deleted"])
  BY DEF NewRun, Kept
<1>3. \A s \in Runs : Kept(audit[s], audit'[s])
  BY <1>1, <1>2, RowsKept DEF Deleted, Inv
<1>4. \A s \in Runs : Executing(s)' \subseteq Executing(s)
  BY <1>1 DEF Executing
<1> QED BY <1>1, <1>3, <1>4, LaunchesKept DEF Deleted

LEMMA PageStepsKeepLaunches ==
  ASSUME Inv, LaunchInv, User \/ Poll
  PROVE  LaunchInv'
<1>1. \A r \in Runs : audit[r] \in RowOf(r) /\ Kept(audit[r], audit[r])
  BY DEF Inv, ServerInv, Rows, Kept
<1>2. CASE Poll \/ Refetch
  <2>1. activeId \in Runs /\ Fetch(activeId, audit[activeId])
    BY <1>2, AuditFlowPageAssumption DEF Poll, Refetch, Inv, PageInv
  <2> QED BY <1>1, <2>1, FetchKeepsLaunches
<1>3. ASSUME NEW r \in Runs, SelectRun(r) PROVE LaunchInv'
  <2>1. CASE Fetch(r, audit[r])
    BY <1>1, <2>1, FetchKeepsLaunches
  <2>2. CASE UNCHANGED <<audit, flag, jobs, launches, doomed, calls, raced, strayed, together>>
    BY <1>1, <2>2, LaunchesKept DEF Executing
  <2> QED BY <1>3, <2>1, <2>2 DEF SelectRun
<1>4. ASSUME NEW r \in Runs, StartRun(r) PROVE LaunchInv'
  <2>1. audit[r].st = "absent"
    BY <1>4 DEF StartRun
  <2>2. \A st \in {"pending", "failed"} :
          [audit[r] EXCEPT !.st = st] \in RowOf(r) /\ Kept(audit[r], [audit[r] EXCEPT !.st = st])
    <3>1. ASSUME NEW st \in {"pending", "failed"}
          PROVE  [audit[r] EXCEPT !.st = st] \in RowOf(r) /\ Kept(audit[r], [audit[r] EXCEPT !.st = st])
      <4>1. [audit[r] EXCEPT !.st = st] \in RowOf(r)
        BY <1>1, RowTyped DEF AuditFlowStatus
      <4>2. [audit[r] EXCEPT !.st = st].st = st /\ [audit[r] EXCEPT !.st = st].job = audit[r].job
        BY <1>1 DEF RowOf, AuditRow
      <4> QED BY <2>1, <4>1, <4>2 DEF Kept
    <3> QED BY <3>1
  <2>3. CASE Fetch(r, [audit[r] EXCEPT !.st = "pending"])
    BY <2>2, <2>3, FetchKeepsLaunches
  <2>4. CASE audit' = [audit EXCEPT ![r].st = "failed"] /\ UNCHANGED <<calls, launches, together>>
    <3>1. \A s \in Runs : Kept(audit[s], audit'[s])
      BY <2>2, <2>4, RowsKept DEF Inv
    <3> QED BY <2>4, <3>1, LaunchesKept DEF Executing
  <2> QED BY <1>4, <2>3, <2>4 DEF StartRun
<1>5. ASSUME NEW op, NEW r, NEW change, NEW others, Ask(op, NewCall(op, r, change), others),
             \A c \in others : c.op = "execute" => c \in calls
      PROVE  LaunchInv'
  <2>1. NewCall(op, r, change).phase = "sent"
    BY DEF NewCall
  <2>2. calls' = others \cup {NewCall(op, r, change)} /\ UNCHANGED <<serverVars, together>>
    BY <1>5 DEF Ask
  <2>3. \A s \in Runs : Executing(s)' \subseteq Executing(s)
    BY <1>5, <2>1, <2>2 DEF Executing
  <2> QED BY <1>1, <2>2, <2>3, LaunchesKept DEF serverVars
<1>6. CASE AddHostCred \/ Execute \/ Cancel
  BY <1>5, <1>6 DEF AddHostCred, Execute, Cancel
<1>7. ASSUME NEW change \in Changes, PatchHosts(change) PROVE LaunchInv'
  <2> DEFINE late(c) == IF c.op = "patch" /\ c.latest THEN [c EXCEPT !.latest = FALSE, !.under = activeId] ELSE c
             rest == {late(c) : c \in calls \ Fetching(activeId)}
  <2>1. Ask("patch", NewCall("patch", activeId, change), rest)
    BY <1>7 DEF PatchHosts
  <2>2. ASSUME NEW c \in calls PROVE late(c).op = c.op
    BY DEF Inv, PageInv, SoundCall, Call
  <2>3. \A c \in calls : late(c).op = "execute" => late(c) = c
    BY <2>2
  <2>4. \A c \in rest : c.op = "execute" => c \in calls
    BY <2>3
  <2> HIDE DEF rest
  <2> QED BY <1>5, <2>1, <2>4
<1>8. CASE LeaveRun
  BY <1>1, <1>8, LaunchesKept DEF LeaveRun, serverVars, Executing
<1>9. ASSUME NEW r \in Runs, DeleteRun(r) PROVE LaunchInv'
  BY <1>9, DeletionKeepsLaunches
<1> QED BY <1>2, <1>3, <1>4, <1>6, <1>7, <1>8, <1>9 DEF User

LEMMA PatchKeepsJob ==
  ASSUME NEW r \in Runs, NEW row \in RowOf(r), NEW c \in Changes
  PROVE  PatchHost(row, c).job = row.job /\ PatchHost(row, c).st = row.st
<1>1. c.field \in {"selected", "profile", "credential"} /\ (c.field = "credential" => c.value \in BOOLEAN)
  BY DEF Changes
<1> QED BY <1>1 DEF PatchHost, ApplySelection, ClearRetryableSkip, RowOf, AuditRow

\* The handler of a request: only one to execute changes what is launched.
LEMMA OutcomeKeepsJob ==
  ASSUME NEW c, SoundCall(c), c.phase = "loaded", Accepts(c), NEW fails \in BOOLEAN
  PROVE  /\ Outcome(c, fails).job =
              (c.seen.job \/ (c.op = "execute" /\ CanLaunch(c.seen) /\ ~fails))
         /\ Outcome(c, fails).st # "deleted"
<1>1. c \in Call /\ c.run \in Runs /\ c.seen \in RowOf(c.run) /\ c.seen.st # "deleted"
  BY DEF SoundCall, Call, Accepts
<1>2. CASE c.op \in {"patch", "cred"}
  <2>1. c.change \in Changes
    BY <1>2 DEF SoundCall
  <2>2. PatchHost(c.seen, c.change).job = c.seen.job /\ PatchHost(c.seen, c.change).st = c.seen.st
    BY <1>1, <2>1, PatchKeepsJob
  <2> QED BY <1>1, <1>2, <2>2 DEF Outcome, RowOf, AuditRow
<1>3. CASE c.op = "execute"
  BY <1>1, <1>3 DEF Outcome, Executed, RowOf, AuditRow
<1>4. CASE c.op = "cancel"
  BY <1>1, <1>4 DEF Outcome, RowOf, AuditRow
<1>5. c.op \in {"patch", "cred", "execute", "cancel"}
  BY <1>1 DEF SoundCall, Call, Mutations
<1> QED BY <1>2, <1>3, <1>4, <1>5

LEMMA ServeKeepsLaunches ==
  ASSUME Inv, LaunchInv, NEW c \in calls, Serve(c)
  PROVE  LaunchInv'
<1> DEFINE r == c.run
<1>1. SoundCall(c) /\ c \in Call /\ r \in Runs /\ c.phase = "loaded" /\ c.seen \in RowOf(r) /\ Accepts(c)
  BY DEF Inv, PageInv, SoundCall, Call, Serve
<1>2. PICK fails \in BOOLEAN :
        LET did == Outcome(c, fails)
            launched == c.op = "execute" /\ CanLaunch(c.seen) /\ ~fails
            out == Refreshed(did, IF launched THEN "pending" ELSE jobs[r])
        IN  /\ audit' = [audit EXCEPT ![r] = Written(audit[r], c.seen, out)]
            /\ launches' = IF launched THEN [launches EXCEPT ![r] = launches[r] + 1] ELSE launches
            /\ Becomes(c, [c EXCEPT !.phase = "answered", !.seen = out])
  BY DEF Serve
<1> DEFINE did == Outcome(c, fails)
           launched == c.op = "execute" /\ CanLaunch(c.seen) /\ ~fails
           out == Refreshed(did, IF launched THEN "pending" ELSE jobs[r])
           row == Written(audit[r], c.seen, out)
<1>3. /\ out \in RowOf(r) /\ out.job = (c.seen.job \/ launched)
      /\ out.st # "deleted"
  <2>1. did \in RowOf(r) /\ did.job = (c.seen.job \/ launched) /\ did.st # "deleted"
    BY <1>1, OutcomeTyped, OutcomeKeepsJob
  <2> HIDE DEF did, launched
  <2> QED BY <1>1, <2>1, OutcomesTyped, RefreshedKept
<1>4. audit[r] \in RowOf(r) /\ audit \in [Runs -> AuditRow] /\ launches \in [Runs -> Nat]
  BY <1>1 DEF Inv, ServerInv, Rows, ServerTypeOK
<1>5. /\ row.job = IF out.job # c.seen.job THEN out.job ELSE audit[r].job
      /\ row.st = IF out.st # c.seen.st THEN out.st ELSE audit[r].st
  <2> HIDE DEF out
  <2>1. "job" \in DOMAIN audit[r] /\ "st" \in DOMAIN audit[r]
    BY <1>4 DEF RowOf, AuditRow
  <2> QED BY <2>1 DEF Written
<1>6. audit[r].st # "deleted" /\ row.st # "deleted"
  BY <1>1, <1>3, <1>5 DEF Accepts, Exists
<1>7. Executing(r)' \subseteq Executing(r) \ {c}
  <2>1. calls' = (calls \ {c}) \cup {[c EXCEPT !.phase = "answered", !.seen = out]}
    BY <1>2 DEF Becomes
  <2>2. [c EXCEPT !.phase = "answered", !.seen = out].phase = "answered"
    BY <1>1 DEF Call
  <2> HIDE DEF out
  <2> QED BY <2>1, <2>2 DEF Executing
<1>8. \A s \in Runs : s # r => Executing(s)' \subseteq Executing(s)
  <2>1. calls' = (calls \ {c}) \cup {[c EXCEPT !.phase = "answered", !.seen = out]}
    BY <1>2 DEF Becomes
  <2>2. [c EXCEPT !.phase = "answered", !.seen = out].run = r
    BY <1>1 DEF Call
  <2> HIDE DEF out
  <2> QED BY <2>1, <2>2 DEF Executing
<1>9. audit' = [audit EXCEPT ![r] = row]
  BY <1>2
<1>10. together' = together
  BY DEF Serve
<1>11. CASE launched
  <2>1. launches' = [launches EXCEPT ![r] = launches[r] + 1] /\ CanLaunch(c.seen) /\ c \in Executing(r)
    BY <1>1, <1>2, <1>11 DEF Executing
  <2>2. row.job /\ ~c.seen.job
    BY <1>3, <1>5, <1>11, <2>1 DEF CanLaunch
  <2>3. r \notin together => launches[r] = 0 /\ Executing(r)' = {}
    BY <1>1, <1>7, <2>1 DEF LaunchInv
  <2>4. \A s \in Runs : s # r => audit'[s] = audit[s] /\ launches'[s] = launches[s]
    BY <1>4, <1>9, <2>1
  <2>5. audit'[r] = row /\ launches'[r] = launches[r] + 1
    BY <1>1, <1>4, <1>9, <2>1
  <2> HIDE DEF row, launched, out, r
  <2> QED BY <1>6, <1>8, <1>10, <2>2, <2>3, <2>4, <2>5 DEF LaunchInv
<1>12. CASE ~launched
  <2>1. launches' = launches
    BY <1>2, <1>12
  <2>2. row.job = audit[r].job
    <3>1. c.seen.job \in BOOLEAN
      BY <1>1 DEF RowOf, AuditRow
    <3> QED BY <1>3, <1>5, <1>12, <3>1
  <2>3. Kept(audit[r], row)
    BY <1>6, <2>2 DEF Kept
  <2>4. \A s \in Runs : Kept(audit[s], audit'[s])
    BY <1>1, <1>9, <2>3, RowsKept DEF Inv
  <2>5. \A s \in Runs : Executing(s)' \subseteq Executing(s)
    BY <1>7, <1>8
  <2> QED BY <1>10, <2>1, <2>4, <2>5, LaunchesKept
<1> QED BY <1>11, <1>12

\* A row is loaded, perhaps while another request to execute has loaded it.
LEMMA LoadKeepsLaunches ==
  ASSUME Inv, LaunchInv, NEW c \in calls, LoadRun(c)
  PROVE  LaunchInv'
<1> DEFINE r == c.run
           d == [c EXCEPT !.phase = "loaded", !.seen = audit[r]]
<1>1. SoundCall(c) /\ c \in Call /\ r \in Runs
  BY DEF Inv, PageInv, SoundCall, Call
<1>2. /\ calls' = (calls \ {c}) \cup {d} /\ UNCHANGED <<audit, launches>>
      /\ together' = IF c.op = "execute" /\ \E o \in CallsOf(r) : o.op = "execute" /\ o.phase = "loaded"
                     THEN together \cup {r} ELSE together
  BY DEF LoadRun, Becomes, serverVars
<1>3. d.run = r /\ d.op = c.op /\ d.seen = audit[r] /\ d.phase = "loaded"
  BY <1>1 DEF Call
<1> HIDE DEF d
<1>4. \A s \in Runs : s # r => Executing(s)' \subseteq Executing(s)
  BY <1>2, <1>3 DEF Executing
<1>5. Executing(r)' \subseteq Executing(r) \cup {d}
  BY <1>2 DEF Executing
<1>6. r \notin together' => Executing(r)' \subseteq Executing(r) \/ Executing(r)' \subseteq {d}
  <2>1. CASE c.op = "execute"
    <3>1. r \notin together' => Executing(r) = {}
      BY <1>2, <2>1 DEF Executing, CallsOf
    <3> QED BY <1>5, <3>1
  <2>2. CASE c.op # "execute"
    BY <1>2, <1>3, <2>2 DEF Executing
  <2> QED BY <2>1, <2>2
<1>7. CanLaunch(audit[r]) => launches[r] = 0
  BY <1>1 DEF LaunchInv, CanLaunch, Inv, ServerInv, ServerTypeOK
<1> HIDE DEF r
<1> QED BY <1>1, <1>2, <1>3, <1>4, <1>6, <1>7 DEF LaunchInv

LEMMA OtherCallsKeepLaunches ==
  ASSUME Inv, LaunchInv, NEW c \in calls,
         \/ Refuse(c) \/ TakeAnswer(c) \/ AnswerDropped(c) \/ TakeError(c) \/ LoseCall(c)
  PROVE  LaunchInv'
<1>1. \A r \in Runs : Executing(r)' \subseteq Executing(r)
  <2>1. CASE Refuse(c)
    <3>1. [c EXCEPT !.phase = "answered", !.ok = FALSE].phase = "answered"
      BY DEF Inv, PageInv, SoundCall, Call
    <3>2. calls' = (calls \ {c}) \cup {[c EXCEPT !.phase = "answered", !.ok = FALSE]}
      BY <2>1 DEF Refuse, Becomes
    <3> QED BY <3>1, <3>2 DEF Executing
  <2>2. CASE TakeAnswer(c) \/ AnswerDropped(c) \/ TakeError(c) \/ LoseCall(c)
    BY <2>2 DEF TakeAnswer, AnswerDropped, TakeError, LoseCall, Executing
  <2> QED BY <2>1, <2>2
<1>2. UNCHANGED <<serverVars, together>>
  BY DEF Refuse, TakeAnswer, AnswerDropped, TakeError, LoseCall
<1> QED BY <1>1, <1>2, LaunchesKept DEF serverVars, Kept

\* A request that nobody waits for is served all the same.
LEMMA GivenUpKeepsLaunches ==
  ASSUME Inv, LaunchInv, NEW c \in calls, GiveUp(c)
  PROVE  LaunchInv'
<1> DEFINE d == [c EXCEPT !.heard = FALSE, !.shown = NoData]
<1>1. d.run = c.run /\ d.op = c.op /\ d.seen = c.seen /\ d.phase = c.phase
  BY DEF Inv, PageInv, SoundCall, Call
<1>2. calls' = (calls \ {c}) \cup {d} /\ UNCHANGED <<serverVars, together>>
  BY DEF GiveUp, Becomes
<1> HIDE DEF d
<1>3. \A r \in Runs : Executing(r)' \subseteq (Executing(r) \ {c}) \cup {d}
  BY <1>2 DEF Executing
<1>4. \A r \in Runs : d \in Executing(r)' => c \in Executing(r)
  BY <1>1 DEF Executing
<1>5. UNCHANGED <<audit, launches, together>>
  BY <1>2 DEF serverVars
<1> QED BY <1>1, <1>3, <1>4, <1>5 DEF LaunchInv

-----------------------------------------------------------------------------
(* The theorems.                                                           *)

LEMMA Initially == Init => Inv
<1> SUFFICES ASSUME Init PROVE Inv
  OBVIOUS
<1>1. ServerInv
  BY ServerInitially
<1>2. \A r \in Runs : cache[r] = NoData \/ cache[r] = audit[r]
  BY DEF Init
<1>3. PageInv
  <2>1. cache \in [Runs -> AuditRow \cup {NoData}]
    BY <1>1 DEF Init, ServerInv, ServerTypeOK
  <2>2. asked \in 0 .. MaxAsked
    BY AuditFlowPageAssumption DEF Init
  <2> QED BY <2>1, <2>2 DEF Init, PageInv
<1>4. OwnData
  BY <1>1, <1>2 DEF Init, OwnData, Own, ServerInv, Rows, RowOf
<1> QED BY <1>1, <1>3, <1>4 DEF Inv

LEMMA StepKeeps == Inv /\ [Next]_vars => Inv'
<1> SUFFICES ASSUME Inv, [Next]_vars PROVE Inv'
  OBVIOUS
<1>1. CASE UNCHANGED vars
  BY <1>1 DEF vars, pageVars, serverVars, Inv, ServerInv, ServerTypeOK, Rows, Stopping, PageInv, OwnData
<1>2. ASSUME UNCHANGED pageVars, ServerInv' PROVE Inv'
  BY <1>2 DEF pageVars, Inv, PageInv, OwnData
<1>3. ASSUME NEW r \in Runs, Environment(r) PROVE Inv'
  BY <1>2, <1>3, ScannersKeep, EnvironmentKeeps, LeavingPreserves DEF Environment, Inv
<1>4. ASSUME NEW r \in Runs, NEW d \in Deliveries, Worker(r, d) PROVE Inv'
  BY <1>2, <1>4, ScannersKeep DEF Worker, Inv
<1>5. ASSUME NEW r \in Runs, NEW d \in Deliveries, Receive(r, d) PROVE Inv'
  <2>1. ServerInv'
    BY <1>5, ScannersKeep DEF Receive, Inv
  <2>2. raced' \in {raced, raced \cup {r}} /\ UNCHANGED <<activeId, cache, calls, asked, strayed, together>>
    BY <1>5 DEF Receive, ScanAgain
  <2> QED BY <2>1, <2>2 DEF Inv, PageInv, OwnData
<1>6. CASE User
  BY <1>6, QueryPreserves, ChangesPreserve, LeavingPreserves DEF User
<1>7. CASE Poll
  BY <1>7, QueryPreserves
<1>8. CASE Served \/ Taken \/ (\E c \in calls : LoseCall(c) \/ GiveUp(c))
  BY <1>8, LoadPreserves, ServePreserves, TakePreserves DEF Served, Taken
<1> QED BY <1>1, <1>3, <1>4, <1>5, <1>6, <1>7, <1>8 DEF Next

LEMMA Invariance == Spec => []Inv
BY Initially, StepKeeps, PTL DEF Spec

\* Rows, calls and the page's cache have their types, whatever is written over
\* whatever: a handler that writes the columns it changed over a newer row leaves a
\* row of the same run.
THEOREM AuditTypeCorrect == Spec => []TypeOK
<1>1. Inv => TypeOK
  BY DEF Inv, ServerInv, PageInv, SoundCall, TypeOK
<1> QED BY <1>1, Invariance, PTL

\* An answer is stored under the key of the run it is about, although another run
\* was selected in the meantime (setQueryData in AuditFlowPage.tsx).
THEOREM AnswersKeepToTheirRun == Spec => []AnswersLandInTheirRun
<1>1. Inv => AnswersLandInTheirRun
  BY DEF Inv, OwnData, Own, AnswersLandInTheirRun
<1> QED BY <1>1, Invariance, PTL

\* A scanner that was there when a cancellation set the flag, and whose flag no other
\* scanner's clean-up deleted, never applies a result or makes the run READY
\* (_cancelled in audit_flow_runner.py).
THEOREM CancelsStopTheirScans == Spec => []CancelStopsScan
<1>1. Inv => CancelStopsScan
  BY DEF Inv, ServerInv, Stopping, CancelStopsScan, OUT, LOOKS
<1> QED BY <1>1, Invariance, PTL

LEMMA LaunchesInitially == Init => LaunchInv
<1> SUFFICES ASSUME Init PROVE LaunchInv
  OBVIOUS
<1>1. calls = {} /\ \A r \in Runs : launches[r] = 0
  BY DEF Init, ServerInit
<1>2. ASSUME NEW r \in Runs, audit[r].st = "deleted" PROVE ~audit[r].found
  <2>1. CASE \E p \in ProbeResults :
               audit = [s \in Runs |-> [ApplyProbeResult(NewRun(s), p) EXCEPT !.st = "ready"]]
    <3>1. PICK p \in ProbeResults :
               audit = [s \in Runs |-> [ApplyProbeResult(NewRun(s), p) EXCEPT !.st = "ready"]]
      BY <2>1
    <3>2. ApplyProbeResult(NewRun(r), p) \in RowOf(r)
      BY NewRunsTyped, OutcomesTyped
    <3>3. [ApplyProbeResult(NewRun(r), p) EXCEPT !.st = "ready"].st = "ready"
      BY <3>2 DEF RowOf, AuditRow
    <3>4. audit[r].st = "ready"
      BY <3>1, <3>3
    <3> QED BY <1>2, <3>4
  <2>2. CASE audit = [s \in Runs |-> [NewRun(s) EXCEPT !.st = IF s = NewRunId THEN "absent" ELSE "deleted"]]
    BY <2>2 DEF NewRun
  <2> QED BY <2>1, <2>2 DEF Init, ServerInit
<1>3. \A r \in Runs : Executing(r) = {}
  BY <1>1 DEF Executing
<1>4. \A r \in Runs : launches[r] \in {0, 1} /\ ~(launches[r] > 0)
  <2>1. ~(0 > 0)
    OBVIOUS
  <2> QED BY <1>1, <2>1, Zenon
<1>5. ASSUME NEW r \in Runs
      PROVE  \A c \in Executing(r) : (CanLaunch(c.seen) => launches[r] = 0) /\ \A e \in Executing(r) : c = e
  BY <1>3
<1> QED BY <1>2, <1>4, <1>5 DEF LaunchInv

LEMMA StepKeepsLaunches == Inv /\ LaunchInv /\ [Next]_vars => LaunchInv'
<1> SUFFICES ASSUME Inv, LaunchInv, [Next]_vars PROVE LaunchInv'
  OBVIOUS
<1>1. CASE UNCHANGED vars
  BY <1>1 DEF vars, pageVars, serverVars, LaunchInv, Executing
<1>2. ASSUME NEW r \in Runs, NEW d \in Deliveries,
             \/ ReceiveScan(r, d) \/ ScanStep(r, d) \/ WorkerLost(r, d) \/ Redeliver(r, d),
             UNCHANGED <<calls, together>>
      PROVE  LaunchInv'
  BY <1>2, ScannersKeepLaunches, LaunchesKept DEF Executing
<1>3. ASSUME NEW r \in Runs, NEW d \in Deliveries, Receive(r, d) \/ Worker(r, d) PROVE LaunchInv'
  BY <1>2, <1>3 DEF Receive, Worker, pageVars
<1>4. ASSUME NEW r \in Runs, Environment(r) PROVE LaunchInv'
  <2>1. CASE DeletedElsewhere(r)
    BY <2>1, DeletionKeepsLaunches
  <2>2. CASE \E d \in Deliveries : (WorkerLost(r, d) \/ Redeliver(r, d)) /\ UNCHANGED pageVars
    BY <1>2, <2>2 DEF pageVars
  <2>3. CASE (JobEnds(r) \/ ListRefreshes(r)) /\ UNCHANGED pageVars
    <3>1. (\A s \in Runs : Kept(audit[s], audit'[s])) /\ UNCHANGED launches
      BY <2>3, EnvironmentKeepsLaunches
    <3> QED BY <2>3, <3>1, LaunchesKept DEF pageVars, Executing
  <2> QED BY <1>4, <2>1, <2>2, <2>3 DEF Environment
<1>5. CASE User \/ Poll
  BY <1>5, PageStepsKeepLaunches
<1>6. CASE Served \/ Taken \/ (\E c \in calls : LoseCall(c) \/ GiveUp(c))
  BY <1>6, LoadKeepsLaunches, ServeKeepsLaunches, OtherCallsKeepLaunches, GivenUpKeepsLaunches
     DEF Served, Taken
<1> QED BY <1>1, <1>3, <1>4, <1>5, <1>6 DEF Next

\* A compliance run that was launched for a host stays with it, whatever sessions write
\* over its row, and is launched once, unless two requests to execute the run had loaded
\* it at once (execute_run in audit_flow.py takes no lock).
THEOREM LaunchesAreKept == Spec => []LaunchedOnce
<1>1. Inv /\ LaunchInv => LaunchedOnce
  BY DEF LaunchInv, LaunchedOnce
<1>2. Inv /\ LaunchInv /\ [Next]_vars => LaunchInv'
  BY StepKeepsLaunches
<1> QED BY <1>1, <1>2, Invariance, LaunchesInitially, PTL DEF Spec

=============================================================================
