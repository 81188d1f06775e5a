------------------------------ MODULE RunState ------------------------------
(***************************************************************************)
(* The guarded status updates of secaudit_core/run_state.py and            *)
(* api/app/services/dispatch.py, as predicates on the status a row has     *)
(* when the UPDATE reaches it.  Each of those functions is one             *)
(* "UPDATE ... WHERE id = :id AND status = ..." followed by a commit, so   *)
(* the WHERE clause and the write are one atomic step: a caller that       *)
(* raced and lost finds the predicate false, changes nothing and gets      *)
(* rowcount # 1.                                                           *)
(*                                                                         *)
(* Definitions named Bug... are plausible wrong versions of the definition *)
(* that follows them.  No specification uses them; they show that a        *)
(* property depends on the code the definition stands for.                 *)
(***************************************************************************)

\* JobStatus, plus two values for a row that is not in the table: it was not
\* created yet, or it was deleted.
JobStatus == {"PENDING", "RUNNING", "COMPLETED", "FAILED", "CANCELLED"}
RunStatus == JobStatus \cup {"NONE", "GONE"}

\* TERMINAL_RUN_STATUSES.
Terminal == {"COMPLETED", "FAILED", "CANCELLED"}

\* The statuses the API and the sweepers still act on.
Active == {"PENDING", "RUNNING"}

-----------------------------------------------------------------------------

BugClaimAnyActive(s) == s \in Active

\* claim_pending_run: WHERE status = PENDING, sets RUNNING.
CanClaim(s) == s = "PENDING"

BugFinishAnything(s) == s \in JobStatus

\* transition_running_run: WHERE status = RUNNING, sets a terminal status.
CanFinish(s) == s = "RUNNING"

\* release_running_run_for_retry: WHERE status = RUNNING, sets PENDING.
CanRelease(s) == s = "RUNNING"

\* cancel_active_run: WHERE status IN (PENDING, RUNNING), sets CANCELLED.
CanCancel(s) == s \in Active

\* The status a guarded update leaves behind: s unless its WHERE clause holds.
Update(s, guard, new) == IF guard THEN new ELSE s

=============================================================================
