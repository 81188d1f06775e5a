------------------------------ MODULE AuditFlow ------------------------------
(***************************************************************************)
(* An audit flow from the scan to the compliance runs it launches: the     *)
(* page, its requests, the API and the worker together, and what can be    *)
(* relied on when their steps interleave.                                  *)
(***************************************************************************)
EXTENDS AuditFlowPage

\* A second scanner of a run works on rows the page shows already.
ScanAgain(r) == raced' = IF Delivered(r) THEN raced \cup {r} ELSE raced

Receive(r, d) ==
  /\ ReceiveScan(r, d) /\ ScanAgain(r)
  /\ UNCHANGED <<activeId, cache, calls, asked, strayed, together>>

Worker(r, d) == ScanStep(r, d) /\ UNCHANGED pageVars

Environment(r) ==
  \/ \E d \in Deliveries : (WorkerLost(r, d) \/ Redeliver(r, d)) /\ UNCHANGED pageVars
  \/ JobEnds(r) /\ UNCHANGED pageVars
  \/ ListRefreshes(r) /\ UNCHANGED pageVars
  \/ DeletedElsewhere(r)

User ==
  \/ Refetch \/ LeaveRun \/ AddHostCred \/ Execute \/ Cancel
  \/ \E r \in Runs : SelectRun(r) \/ StartRun(r) \/ DeleteRun(r)
  \/ \E change \in Changes : PatchHosts(change)

Served == \E c \in calls : LoadRun(c) \/ Refuse(c) \/ Serve(c)
Taken == \E c \in calls : TakeAnswer(c) \/ AnswerDropped(c) \/ TakeError(c)

Next ==
  \/ User \/ Poll \/ Served \/ Taken
  \/ \E c \in calls : LoseCall(c) \/ GiveUp(c)
  \/ \E r \in Runs : Environment(r)
  \/ \E r \in Runs, d \in Deliveries : Receive(r, d) \/ Worker(r, d)

\* The shown run is polled while it is active, answers that came are taken, compliance
\* runs end (the stale sweeper sees to that), and the broker delivers the message, and
\* again if it was not acknowledged.  Nothing is assumed of the other requests.
Fairness ==
  /\ WF_vars(Poll) /\ WF_vars(Taken)
  /\ WF_vars(\E r \in Runs : JobEnds(r) /\ UNCHANGED pageVars)
  /\ WF_vars(\E r \in Runs, d \in Deliveries : Receive(r, d) \/ Worker(r, d))

Spec == Init /\ [][Next]_vars /\ Fairness

-----------------------------------------------------------------------------

\* A compliance run that was launched is not forgotten, and not launched again, unless
\* two requests to execute had loaded the run at once.  execute_run holds no lock and
\* knows a launched host by its job_run_id alone, which edits, cancellations and scans
\* that loaded the row before the launch, and write it after, must leave alone.
LaunchedOnce ==
  \A r \in Runs : launches[r] > 0 =>
    /\ audit[r].job \/ audit[r].st = "deleted"
    /\ launches[r] = 1 \/ r \in together

\* What a click on Execute launches is what the page showed at the click, as long
\* as no two requests of the run and no two scanners of it overlapped, and no
\* cancellation wrote over a row that had changed since it loaded it.
LaunchedAsShown ==
  [][\A c \in calls :
       /\ c.op = "execute" /\ c.phase = "loaded" /\ c \notin calls'
       /\ c.run \notin raced' /\ ~strayed
       /\ audit'[c.run].st \notin {"absent", "deleted"}
       => /\ audit'[c.run].prof = c.shown.prof
          /\ audit'[c.run].job \/ audit'[c.run].skip = "playbook_failed"]_vars

\* The preview of a change, which the page shows before the server has it, is
\* what the server then answers: applyAuditFlowHostPatch and patch_audit_flow_hosts
\* are two implementations of the same edit.  (For the same runs: a cancellation that
\* loaded the run during its scan, and commits after it, takes READY back.)
PreviewIsRight ==
  \A c \in calls :
    c.op = "patch" /\ c.phase = "answered" /\ c.ok /\ c.heard /\ c.run \notin raced /\ ~strayed
      => cache[c.run] = c.seen

\* The cache has a run's data under that run's key, although answers arrive after
\* another run was selected.  (A rollback that comes after it does not: the key is
\* that of the run shown by then.)
AnswersLandInTheirRun ==
  ~strayed => \A r \in Runs : cache[r] = NoData \/ cache[r].id = r

\* A cancellation ends the scan of each scanner that has a look at the flag ahead of
\* it: no result is applied and the run is not made READY, unless the flag is
\* deleted first by another scanner's clean-up.  (The last look is before the results
\* of hosts without a management port: a cancellation after it stops nothing.)
CancelStopsScan ==
  \A r \in Runs : \A d \in doomed[r] : scanner[r][d] \notin {"unmanaged", "applying", "finish"}

\* A run shown as running is not shown so for ever, unless it was deleted elsewhere: it
\* is polled, and a poll makes it COMPLETED once its compliance runs have ended.
ShownRunEnds ==
  \A r \in Edited :
    LET ShownRunning == activeId = r /\ cache[r] # NoData /\ cache[r].st = "running"
    IN  ShownRunning ~> ~ShownRunning \/ audit[r].st = "deleted"

\* A run does not stay in its scan, although workers are lost and tasks retried, unless
\* an exception left a task and Celery did not retry: the message that was not
\* acknowledged is delivered again, and a run that is SCANNING is scanned again.
ScanEnds ==
  audit[NewRunId].st \in {"pending", "scanning"}
    ~> \/ audit[NewRunId].st \notin {"pending", "scanning"}
       \/ \E d \in Deliveries : scanner[NewRunId][d] = "raised"

=============================================================================
