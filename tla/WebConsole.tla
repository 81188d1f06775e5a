----------------------------- MODULE WebConsole -----------------------------
(***************************************************************************)
(* The parts of the console that keep state of their own against a server  *)
(* that answers late: live logs, the terminal, script editors, forms over  *)
(* lists of records, the schedule picker and the remediation workflow.     *)
(*                                                                         *)
(* They are on different pages and share nothing but the query cache, in   *)
(* which they use different keys.  A behaviour is that of one of them, the *)
(* view; which of the components of its kind it is, it chooses, too.       *)
(***************************************************************************)
EXTENDS LiveLogs, ConsoleTerminal, ScriptEditor, RecordForms, SchedulePicker, RemediationWorkflow

VARIABLE view

consoleVars ==
  <<view, logVars, terminalVars, editorVars, formVars, scheduleVars, workflowVars>>

Views == {"logs", "terminal", "editor", "form", "schedule", "workflow"}

\* The views that are not looked at have one initial state only.
Init ==
  /\ view \in Views
  /\ LogInit /\ TerminalInit /\ EditorInit /\ FormInit /\ ScheduleInit /\ WorkflowInit
  /\ view = "logs" \/ logKind = "job"
  /\ view = "editor" \/ editorKind = "profile"
  /\ view = "form" \/ panel = CredentialsPage
  /\ view = "workflow" \/ reportRun = CHOOSE r \in SourceRuns : TRUE

Logs ==
  /\ view = "logs" /\ LogNext
  /\ UNCHANGED <<terminalVars, editorVars, formVars, scheduleVars, workflowVars>>

Terminal ==
  /\ view = "terminal" /\ TerminalNext
  /\ UNCHANGED <<logVars, editorVars, formVars, scheduleVars, workflowVars>>

Editor ==
  /\ view = "editor" /\ EditorNext
  /\ UNCHANGED <<logVars, terminalVars, formVars, scheduleVars, workflowVars>>

Form ==
  /\ view = "form" /\ FormNext
  /\ UNCHANGED <<logVars, terminalVars, editorVars, scheduleVars, workflowVars>>

Schedule ==
  /\ view = "schedule" /\ ScheduleNext
  /\ UNCHANGED <<logVars, terminalVars, editorVars, formVars, workflowVars>>

Workflow ==
  /\ view = "workflow" /\ WorkflowNext
  /\ UNCHANGED <<logVars, terminalVars, editorVars, formVars, scheduleVars>>

Next == UNCHANGED view /\ (Logs \/ Terminal \/ Editor \/ Form \/ Schedule \/ Workflow)

\* A log that is displayed goes on being polled.
Polling == view = "logs" /\ PollLogs /\ UNCHANGED <<view, terminalVars, editorVars, formVars, scheduleVars, workflowVars>>

Spec == Init /\ [][Next]_consoleVars /\ WF_consoleVars(Polling)

TypeOK ==
  /\ view \in Views
  /\ LogTypeOK /\ TerminalTypeOK /\ EditorTypeOK
  /\ FormTypeOK /\ ScheduleTypeOK /\ WorkflowTypeOK

=============================================================================
