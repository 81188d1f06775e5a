---------------------------- MODULE AuditFlowRuns ----------------------------
(***************************************************************************)
(* Audit flow runs on the server: the worker that scans, the API handlers  *)
(* as functions of the row they loaded, and the compliance jobs a run      *)
(* launches.  A run finds one host, so that its row and its host's are one *)
(* record here.                                                            *)
(*                                                                         *)
(* The scan has no claim.  A message that is delivered twice is scanned    *)
(* twice, and the scanners share one cancel flag.                          *)
(***************************************************************************)
EXTENDS Naturals

CONSTANTS
  Runs,
  NewRunId,    \* the run that a behaviour may start and scan
  Profiles,
  NoProfile,
  Deliveries   \* bound: deliveries of each run's scan message

ASSUME AuditFlowAssumption ==
  /\ NewRunId \in Runs
  /\ NoProfile \notin Profiles

VARIABLES
  audit,       \* audit[r]: the run's row with its host's
  flag,        \* flag[r]: the cancel key in Redis
  scanner,     \* scanner[r][d]: how far the scan of a delivery is
  jobs,        \* jobs[r]: status of the host's compliance run
  launches,    \* history: compliance runs launched for the host
  doomed       \* history: scanners still to look at a flag that was set

serverVars == <<audit, flag, scanner, jobs, launches, doomed>>

-----------------------------------------------------------------------------

AuditFlowStatus ==
  {"pending", "scanning", "ready", "running", "completed", "failed", "cancelled"}

ACTIVE == {"pending", "scanning", "running"}

\* "probe" stands for the reasons a probe or a match leaves that may be cleared.
SkipReason == {"none", "skipped_by_user", "scanning", "probe", "checking", "playbook_failed"}

AuditRow ==
  [id : Runs, st : AuditFlowStatus \cup {"absent", "deleted"}, found : BOOLEAN,
   sel : BOOLEAN, prof : Profiles \cup {NoProfile}, cred : BOOLEAN,
   skip : SkipReason, job : BOOLEAN]

\* "unsent": the broker has not delivered, or redelivered, the message yet.
\* "managed", "unmanaged": whether the host that was identified has a management
\* port.  "leave": an exception is on its way out of the task.  "raised": it is out,
\* and Celery did not retry.
ScanPc == {"unsent", "queued", "discover", "identify", "managed", "unmanaged",
           "applying", "finish", "clear", "leave", "done", "raised"}

\* A look at the flag lies ahead.
LOOKS == {"discover", "identify", "managed"}

\* Inside the try of the scan.
InScan == LOOKS \cup {"unmanaged", "applying", "finish"}

ServerTypeOK ==
  /\ audit \in [Runs -> AuditRow]
  /\ flag \in [Runs -> BOOLEAN]
  /\ scanner \in [Runs -> [Deliveries -> ScanPc]]
  /\ jobs \in [Runs -> {"none", "pending", "completed", "failed"}]
  /\ launches \in [Runs -> Nat]
  /\ doomed \in [Runs -> SUBSET Deliveries]

NewRun(r) ==
  [id |-> r, st |-> "absent", found |-> FALSE, sel |-> FALSE, prof |-> NoProfile,
   cred |-> FALSE, skip |-> "none", job |-> FALSE]

\* What is concluded without a login.  (bound: a profile may be suggested)
NoLogin == [sel : {FALSE}, prof : {NoProfile}, cred : {FALSE}, skip : {"probe"}]

\* What a probe concludes: that, or a login and a sure match.  (bound: with an unsure
\* match the host is not selected either)
ProbeResults ==
  NoLogin \cup [sel : {TRUE}, prof : Profiles, cred : {TRUE}, skip : {"none"}]

\* _apply_probe_result
ApplyProbeResult(row, p) ==
  [row EXCEPT !.found = TRUE, !.sel = p.sel, !.prof = p.prof, !.cred = p.cred, !.skip = p.skip]

FirstDelivery == CHOOSE d \in Deliveries : TRUE

\* A behaviour is that of runs that were scanned before, or (bound) of one that it
\* starts itself when there is no other.
ServerInit ==
  /\ \/ \E p \in ProbeResults :
          audit = [r \in Runs |-> [ApplyProbeResult(NewRun(r), p) EXCEPT !.st = "ready"]]
     \/ audit = [r \in Runs |-> [NewRun(r) EXCEPT !.st = IF r = NewRunId THEN "absent" ELSE "deleted"]]
  /\ flag = [r \in Runs |-> FALSE]
  /\ scanner = [r \in Runs |-> [d \in Deliveries |->
                  IF audit[r].st # "absent" THEN "done"
                  ELSE IF d = FirstDelivery THEN "queued" ELSE "unsent"]]
  /\ jobs = [r \in Runs |-> "none"]
  /\ launches = [r \in Runs |-> 0]
  /\ doomed = [r \in Runs |-> {}]

-----------------------------------------------------------------------------
(* What the handlers do to the rows they have loaded.                      *)

BugNoCommit(now, seen, out) == now
BugWriteAll(now, seen, out) == out

\* A session writes the columns it changed over whatever is there by then.
Written(now, seen, out) == [f \in DOMAIN now |-> IF out[f] # seen[f] THEN out[f] ELSE now[f]]

ClearRetryableSkip(row) ==
  IF row.skip \in {"probe", "skipped_by_user", "checking"} THEN [row EXCEPT !.skip = "none"] ELSE row

EDITABLE_STATUSES == {"ready", "completed", "cancelled"}

Editable(row) == row.st \in EDITABLE_STATUSES /\ row.found /\ ~row.job

\* Changes to a host: selected, a profile (or none), a credential (or none).
Changes ==
  [field : {"selected", "credential"}, value : BOOLEAN]
    \cup [field : {"profile"}, value : Profiles \cup {NoProfile}]

\* apply_host_selection
ApplySelection(row, on) ==
  LET skip == IF ~on THEN "skipped_by_user"
              ELSE IF row.skip = "skipped_by_user" THEN "none" ELSE row.skip
  IN  [row EXCEPT !.sel = on, !.skip = skip]

\* patch_audit_flow_hosts, once the guards have passed.
PatchHost(row, c) ==
  CASE c.field = "selected" -> ApplySelection(row, c.value)
    [] c.field = "profile" /\ c.value = NoProfile ->
         ApplySelection([row EXCEPT !.prof = NoProfile], FALSE)
    [] c.field = "profile" /\ c.value # NoProfile ->
         ClearRetryableSkip([row EXCEPT !.prof = c.value, !.sel = TRUE])
    [] c.field = "credential" /\ ~c.value -> [row EXCEPT !.cred = FALSE]
    [] c.field = "credential" /\ c.value ->
         ClearRetryableSkip([row EXCEPT !.cred = TRUE, !.sel = TRUE])

\* can_launch_host, and the same conditions in execute_run.
CanLaunch(row) == row.found /\ row.sel /\ row.prof # NoProfile /\ row.cred /\ ~row.job

\* prepare_run_for_execute accepts these.
Executable(row) == row.st \in {"ready", "completed", "cancelled"}

\* execute_run; the launch of a host may fail.
Executed(row, fails) ==
  LET launched == CanLaunch(row) /\ ~fails
      skip == CASE launched -> "checking"
                [] CanLaunch(row) /\ fails -> "playbook_failed"
                [] row.found /\ ~row.job /\ ~row.sel /\ row.skip = "none" -> "skipped_by_user"
                [] row.found /\ ~row.job /\ row.sel /\ ~CanLaunch(row) -> "probe"
                [] OTHER -> row.skip
  IN  [row EXCEPT !.job = @ \/ launched, !.skip = skip,
                  !.st = IF row.job \/ launched THEN "running" ELSE "completed"]

\* refresh_run_status, for every run that is presented.
Refreshed(row, job) ==
  IF row.st # "running" \/ (row.job /\ job = "pending")
  THEN row
  ELSE [row EXCEPT !.st = "completed",
                   !.skip = IF row.job /\ job = "completed" THEN "none"
                            ELSE IF row.job /\ job = "failed" /\ @ = "none" THEN "playbook_failed"
                            ELSE @]

-----------------------------------------------------------------------------
(* The Celery worker: run_audit_flow_scan_sync.                            *)

Goto(r, d, pc) == scanner' = [scanner EXCEPT ![r][d] = pc]

Exists(r) == audit[r].st \notin {"absent", "deleted"}

\* Some delivery was received already.
Delivered(r) == \E d \in Deliveries : scanner[r][d] \notin {"unsent", "queued"}

BugPendingOnly(r) == audit[r].st = "pending"

\* The scan asks for no more of a run.
Scannable(r) == Exists(r)

\* The message arrives.  The run may not be there, or the database may not.
ReceiveScan(r, d) ==
  /\ scanner[r][d] = "queued" /\ audit[r].st # "absent"
  /\ \/ /\ Scannable(r)
        /\ audit' = [audit EXCEPT ![r].st = "scanning"] /\ Goto(r, d, "discover")
     \/ ~Scannable(r) /\ UNCHANGED audit /\ Goto(r, d, "clear")
     \/ UNCHANGED audit /\ Goto(r, d, "leave")
  /\ UNCHANGED <<flag, jobs, launches, doomed>>

\* The outcome is committed: that of an exception, or of the end.
EndScan(r, d, st) ==
  /\ audit' = IF Exists(r) THEN [audit EXCEPT ![r].st = st] ELSE audit
  /\ Goto(r, d, "clear")
  /\ doomed' = [doomed EXCEPT ![r] = @ \ {d}]
  /\ UNCHANGED <<flag, jobs, launches>>

BugSeesFlag(r) == FALSE
SeesFlag(r) == flag[r]

\* ScanCancelledError, raised by _cancelled and by _run_nmap.
ScanSeesCancel(r, d) ==
  /\ scanner[r][d] \in LOOKS /\ SeesFlag(r)
  /\ EndScan(r, d, "cancelled")

\* Ping sweep: the host is there.
Discover(r, d) ==
  /\ scanner[r][d] = "discover" /\ ~SeesFlag(r) /\ Exists(r)
  /\ audit' = IF audit[r].found THEN audit
              ELSE [audit EXCEPT ![r].found = TRUE, ![r].skip = "scanning"]
  /\ Goto(r, d, "identify")
  /\ UNCHANGED <<flag, jobs, launches, doomed>>

\* The service scan, which ends with its last look at the flag.
Identify(r, d) ==
  /\ scanner[r][d] = "identify" /\ ~SeesFlag(r)
  /\ Goto(r, d, "managed") \/ Goto(r, d, "unmanaged")
  /\ UNCHANGED <<audit, flag, jobs, launches, doomed>>

\* _cancelled before the result of a management host is applied.
CheckBeforeApply(r, d) ==
  /\ scanner[r][d] = "managed" /\ ~SeesFlag(r)
  /\ Goto(r, d, "applying")
  /\ UNCHANGED <<audit, flag, jobs, launches, doomed>>

\* A host without a management port is not probed, and nobody looks at the flag.
ApplyResult(r, d) ==
  /\ scanner[r][d] \in {"applying", "unmanaged"} /\ Exists(r)
  /\ \E p \in IF scanner[r][d] = "applying" THEN ProbeResults ELSE NoLogin :
       audit' = [audit EXCEPT ![r] = ApplyProbeResult(@, p)]
  /\ Goto(r, d, "finish")
  /\ UNCHANGED <<flag, jobs, launches, doomed>>

\* READY, with no look at the flag or at the status.
FinishScan(r, d) == scanner[r][d] = "finish" /\ EndScan(r, d, "ready")

\* Any other exception, if the session can still be used.
ScanFails(r, d) == scanner[r][d] \in InScan /\ EndScan(r, d, "failed")

\* An exception that nothing handles: one before the try of the scan, or one of the
\* handlers themselves, which use a session that nobody rolled back.  The status stays.
ScanAborts(r, d) ==
  /\ scanner[r][d] \in InScan
  /\ Goto(r, d, "leave")
  /\ doomed' = [doomed EXCEPT ![r] = @ \ {d}]
  /\ UNCHANGED <<audit, flag, jobs, launches>>

\* The broker has the message again.
SendAgain(r, d) ==
  \E e \in Deliveries :
    /\ scanner[r][e] = "unsent"
    /\ scanner' = [scanner EXCEPT ![r][d] = "done", ![r][e] = "queued"]

\* The finally clause: clear_audit_flow_state, for every scanner of the run, unless
\* Redis fails.  Celery may retry after an exception.  (bound: while a delivery is left)
CleanUp(r, d) ==
  /\ scanner[r][d] \in {"clear", "leave"}
  /\ \/ /\ flag' = [flag EXCEPT ![r] = FALSE]
        /\ doomed' = [doomed EXCEPT ![r] = {}]
        /\ \/ scanner[r][d] = "clear" /\ Goto(r, d, "done")
           \/ scanner[r][d] = "leave" /\ (SendAgain(r, d) \/ Goto(r, d, "raised"))
     \/ UNCHANGED <<flag, doomed>> /\ Goto(r, d, IF scanner[r][d] = "clear" THEN "done" ELSE "raised")
  /\ UNCHANGED <<audit, jobs, launches>>

\* The worker is lost, and acks_late has the message delivered again.  (bound: while
\* a delivery is left)
WorkerLost(r, d) ==
  /\ scanner[r][d] \in InScan \cup {"clear", "leave"} /\ SendAgain(r, d)
  /\ doomed' = [doomed EXCEPT ![r] = @ \ {d}]
  /\ UNCHANGED <<audit, flag, jobs, launches>>

\* A scan outlives the broker's visibility timeout.  (bound: in its service scan)
Redeliver(r, d) ==
  /\ scanner[r][d] = "unsent" /\ \E e \in Deliveries : scanner[r][e] = "identify"
  /\ Goto(r, d, "queued")
  /\ UNCHANGED <<audit, flag, jobs, launches, doomed>>

ScanStep(r, d) ==
  \/ ScanSeesCancel(r, d) \/ Discover(r, d) \/ Identify(r, d) \/ CheckBeforeApply(r, d)
  \/ ApplyResult(r, d) \/ FinishScan(r, d) \/ ScanFails(r, d) \/ ScanAborts(r, d)
  \/ CleanUp(r, d)

\* A compliance run ends (JobRuns says how).
JobEnds(r) ==
  /\ jobs[r] = "pending"
  /\ jobs' \in {[jobs EXCEPT ![r] = s] : s \in {"completed", "failed"}}
  /\ UNCHANGED <<audit, flag, scanner, launches, doomed>>

\* The list of runs is asked for, by this page or another one: each is presented.
ListRefreshes(r) ==
  /\ Exists(r) /\ audit[r] # Refreshed(audit[r], jobs[r])
  /\ audit' = [audit EXCEPT ![r] = Refreshed(@, jobs[r])]
  /\ UNCHANGED <<flag, scanner, jobs, launches, doomed>>

=============================================================================
