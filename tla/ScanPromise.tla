----------------------------- MODULE ScanPromise -----------------------------
(***************************************************************************)
(* What may be relied on for a scan whose claim can be given back.  A      *)
(* worker that begins is alone with it, however often others began before, *)
(* unless duplicates share it; COMPLETED is said by one that scans; an end *)
(* is not overwritten.  That a scan ends is not promised.                  *)
(***************************************************************************)
EXTENDS RunState

CONSTANTS Scans, Workers

VARIABLES
  status,   \* status[r], as the API shows it
  scanner,  \* scanner[r]: the workers that scan for r
  shared    \* the scans that are not protected from a duplicate of their message

vars == <<status, scanner, shared>>

Init ==
  /\ status = [r \in Scans |-> "NONE"]
  /\ scanner = [r \in Scans |-> {}]
  /\ shared = {}

SetStatus(r, s) == status' = [status EXCEPT ![r] = s]

Create(r) ==
  /\ status[r] = "NONE" /\ SetStatus(r, "PENDING")
  /\ shared' \in {shared, shared \cup {r}}
  /\ UNCHANGED scanner

Begin(r, w) ==
  /\ status[r] = "PENDING" /\ (scanner[r] = {} \/ r \in shared)
  /\ SetStatus(r, "RUNNING")
  /\ scanner' = [scanner EXCEPT ![r] = @ \cup {w}]
  /\ UNCHANGED shared

\* A worker leaves a scan that is RUNNING with an outcome, gives it back, or says
\* nothing; a scan that has ended or is gone it leaves as it is.
Leave(r, w) ==
  /\ w \in scanner[r] \/ r \in shared
  /\ \E s \in Terminal \cup {"PENDING", "RUNNING"} :
       /\ s = "COMPLETED" => w \in scanner[r]
       /\ SetStatus(r, IF status[r] = "RUNNING" THEN s ELSE status[r])
  /\ scanner' = [scanner EXCEPT ![r] = @ \ {w}]
  /\ UNCHANGED shared

\* It is stopped or deleted, whoever scans for it, or was never dispatched.
EndUnscanned(r) ==
  /\ \/ status[r] \in Active /\ SetStatus(r, "CANCELLED")
     \/ status[r] = "PENDING" /\ SetStatus(r, "FAILED")
     \/ status[r] \in JobStatus /\ SetStatus(r, "GONE")
  /\ UNCHANGED <<scanner, shared>>

Next ==
  \E r \in Scans :
    \/ Create(r) \/ EndUnscanned(r)
    \/ \E w \in Workers : Begin(r, w) \/ Leave(r, w)

Spec == Init /\ [][Next]_vars

=============================================================================
