------------------------- MODULE RemediationWorkflow -------------------------
(***************************************************************************)
(* The panel that leads from a run's findings to a remediation and from    *)
(* there to a re-audit: RemediationWorkflowPanel.tsx, in ReportsPage.tsx.  *)
(* How far each run has got is in sessionStorage.                          *)
(*                                                                         *)
(* The panel stays mounted when another run is selected, and a mutation's  *)
(* onSuccess is the one of the latest render.  Effects follow a render     *)
(* before anything else happens, so that they are part of the step that    *)
(* causes it.                                                              *)
(***************************************************************************)
EXTENDS Naturals

CONSTANTS
  SourceRuns,  \* completed runs, each of another job
  Reaudits,    \* bound: runs that can be started
  NoRun

ASSUME RemediationWorkflowAssumption ==
  /\ NoRun \notin SourceRuns \cup Reaudits
  /\ SourceRuns \cap Reaudits = {}

VARIABLES
  jobRuns,     \* jobRuns[r]: the server's run, with its job (the source run of that job)
  known,       \* known[r]: status in the cache of the query workflow-reaudit-run
  workflows,   \* sessionStorage
  reportRun,   \* the prop runId
  workflowCtx, \* React state
  fromRun,     \* fromRunMutation: the run a remediation is requested for
  reaudit,     \* reauditMutation: the job to run again
  strayed      \* history: a mutation was answered when another run was shown

workflowVars ==
  <<jobRuns, known, workflows, reportRun, workflowCtx, fromRun, reaudit, strayed>>

-----------------------------------------------------------------------------

ReportRuns == SourceRuns \cup Reaudits

JobStatuses == {"none", "active", "completed", "failed"}

WorkflowState ==
  [sourceRunId : SourceRuns \cup {NoRun}, reauditRunId : Reaudits \cup {NoRun},
   reauditCompleted : BOOLEAN]

NoWorkflow == [sourceRunId |-> NoRun, reauditRunId |-> NoRun, reauditCompleted |-> FALSE]

\* storageRunId is the run shown when there is no context.
Context == [storageRunId : ReportRuns, state : WorkflowState]

WorkflowTypeOK ==
  /\ jobRuns \in [ReportRuns -> [st : JobStatuses, job : SourceRuns \cup {NoRun}]]
  /\ known \in [Reaudits -> JobStatuses]
  /\ workflows \in [ReportRuns -> WorkflowState]
  /\ reportRun \in ReportRuns
  /\ workflowCtx \in Context
  /\ fromRun \in SourceRuns \cup {NoRun}
  /\ reaudit \in SourceRuns \cup {NoRun}
  /\ strayed \in BOOLEAN

WorkflowInit ==
  /\ jobRuns = [r \in ReportRuns |-> IF r \in SourceRuns THEN [st |-> "completed", job |-> r]
                                                         ELSE [st |-> "none", job |-> NoRun]]
  /\ known = [r \in Reaudits |-> "none"]
  /\ workflows = [r \in ReportRuns |-> NoWorkflow]
  /\ reportRun \in SourceRuns
  /\ workflowCtx = [storageRunId |-> reportRun, state |-> NoWorkflow]
  /\ fromRun = NoRun
  /\ reaudit = NoRun
  /\ strayed = FALSE

-----------------------------------------------------------------------------

\* findWorkflowContext, in the effect on runId: the run's own workflow, or the one it is the re-audit of.
FindContext(r, stored) ==
  LET of == {s \in ReportRuns : stored[s] # NoWorkflow /\ stored[s].reauditRunId = r}
      s == IF stored[r] # NoWorkflow \/ of = {} THEN r ELSE CHOOSE x \in of : TRUE
  IN  [storageRunId |-> s, state |-> stored[s]]

\* A render with context ctx, and the effect on the status of its re-audit: once
\* that is known as completed, the workflow is done and onReauditComplete makes the
\* page show the re-audit.
Rendered(r, ctx, stored, status) ==
  LET w == ctx.state
      done == [stored EXCEPT ![ctx.storageRunId] = [w EXCEPT !.reauditCompleted = TRUE]]
      completes == w.reauditRunId # NoRun /\ ~w.reauditCompleted
                   /\ status[w.reauditRunId] = "completed"
  IN  \/ /\ completes
         /\ workflows' = done
         /\ reportRun' = w.reauditRunId
         /\ workflowCtx' = FindContext(w.reauditRunId, done)
      \/ /\ ~completes
         /\ workflows' = stored
         /\ reportRun' = r
         /\ workflowCtx' = ctx

BugWriteToShown(w) ==
  Rendered(reportRun, [storageRunId |-> reportRun, state |-> w],
           [workflows EXCEPT ![reportRun] = w], known)

\* A workflow is written: to storage and to the state.
WriteWorkflow(w) ==
  LET s == workflowCtx.storageRunId
  IN  Rendered(reportRun, [storageRunId |-> s, state |-> w], [workflows EXCEPT ![s] = w], known)

IsSourceRun == workflowCtx.storageRunId = reportRun

\* Another run is selected on the page, or its link is opened.
SelectRun(r) ==
  /\ r # reportRun /\ jobRuns[r].st # "none"
  /\ Rendered(r, FindContext(r, workflows), workflows, known)
  /\ UNCHANGED <<jobRuns, known, fromRun, reaudit, strayed>>

\* handleConfirmRemediation, confirmed.  (bound: not from a re-audit that its
\* workflow has left for another one)
StartRemediation ==
  /\ jobRuns[reportRun].st = "completed"
  /\ IsSourceRun /\ reportRun \in SourceRuns /\ workflowCtx.state = NoWorkflow
  /\ fromRun = NoRun
  /\ fromRun' = reportRun
  /\ UNCHANGED <<jobRuns, known, workflows, reportRun, workflowCtx, reaudit, strayed>>

\* onSuccess: the run the server names, in the workflow of the run shown now.
RemediationStarted ==
  /\ fromRun # NoRun
  /\ WriteWorkflow([NoWorkflow EXCEPT !.sourceRunId = fromRun])
  /\ fromRun' = NoRun
  /\ strayed' = (strayed \/ workflowCtx.storageRunId # fromRun)
  /\ UNCHANGED <<jobRuns, known, reaudit>>

RemediationRefused ==
  /\ fromRun # NoRun
  /\ fromRun' = NoRun
  /\ UNCHANGED <<jobRuns, known, workflows, reportRun, workflowCtx, reaudit, strayed>>

\* Until its status is known, a re-audit does not keep the button from another one.
ReauditRunning ==
  LET r == workflowCtx.state.reauditRunId IN r # NoRun /\ known[r] = "active"

\* The re-audit button.
StartReaudit ==
  /\ jobRuns[reportRun].st = "completed"
  /\ IsSourceRun /\ workflowCtx.state # NoWorkflow
  /\ ~workflowCtx.state.reauditCompleted /\ ~ReauditRunning
  /\ reaudit = NoRun
  /\ reaudit' = jobRuns[reportRun].job
  /\ UNCHANGED <<jobRuns, known, workflows, reportRun, workflowCtx, fromRun, strayed>>

BugKeepCompleted(n) == [workflowCtx.state EXCEPT !.reauditRunId = n]

ReauditOf(n) == [workflowCtx.state EXCEPT !.reauditRunId = n, !.reauditCompleted = FALSE]

\* The server starts a run, and its answer goes to the workflow in the state, if any.
ReauditStarted(n) ==
  /\ reaudit # NoRun
  /\ jobRuns[n].st = "none"
  /\ jobRuns' = [jobRuns EXCEPT ![n] = [st |-> "active", job |-> reaudit]]
  /\ \/ workflowCtx.state # NoWorkflow /\ WriteWorkflow(ReauditOf(n))
     \/ workflowCtx.state = NoWorkflow /\ UNCHANGED <<workflows, reportRun, workflowCtx>>
  /\ reaudit' = NoRun
  /\ strayed' = (strayed \/ jobRuns[workflowCtx.storageRunId].job # reaudit)
  /\ UNCHANGED <<known, fromRun>>

ReauditRefused ==
  /\ reaudit # NoRun
  /\ reaudit' = NoRun
  /\ UNCHANGED <<jobRuns, known, workflows, reportRun, workflowCtx, fromRun, strayed>>

\* The server's run ends.
ReauditEnds(n) ==
  /\ jobRuns[n].st = "active"
  /\ \E st \in {"completed", "failed"} : jobRuns' = [jobRuns EXCEPT ![n].st = st]
  /\ UNCHANGED <<known, workflows, reportRun, workflowCtx, fromRun, reaudit, strayed>>

\* The query on the re-audit of the workflow shown.
PollReaudit ==
  LET n == workflowCtx.state.reauditRunId IN
  /\ n # NoRun /\ ~workflowCtx.state.reauditCompleted
  /\ known[n] \in {"none", "active"}
  /\ known' = [known EXCEPT ![n] = jobRuns[n].st]
  /\ Rendered(reportRun, workflowCtx, workflows, known')
  /\ UNCHANGED <<jobRuns, fromRun, reaudit, strayed>>

WorkflowNext ==
  \/ \E r \in ReportRuns : SelectRun(r)
  \/ StartRemediation \/ RemediationStarted \/ RemediationRefused
  \/ StartReaudit \/ ReauditRefused \/ PollReaudit
  \/ \E n \in Reaudits : ReauditStarted(n) \/ ReauditEnds(n)

-----------------------------------------------------------------------------

\* What is stored for a run is its own remediation, and a re-audit of its own job,
\* and this also when the user goes from run to run, as long as no answer came for
\* a run that was not shown any more.
WorkflowOfItsRun ==
  ~strayed => \A r \in ReportRuns :
    /\ workflows[r].sourceRunId \in {r, NoRun}
    /\ workflows[r].reauditRunId # NoRun
         => jobRuns[workflows[r].reauditRunId].job = jobRuns[r].job

\* A cycle is marked as done only by the completion of the very re-audit it names,
\* though a second one may have been started before the first one's status was
\* known.
DoneByItsReaudit ==
  \A r \in ReportRuns : workflows[r].reauditCompleted =>
    jobRuns[workflows[r].reauditRunId].st = "completed"

=============================================================================
