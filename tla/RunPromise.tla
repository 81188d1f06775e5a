----------------------------- MODULE RunPromise -----------------------------
(***************************************************************************)
(* What the platform promises about a run, whatever dispatches, executes,  *)
(* sweeps or cancels it: it is started at most once, it ends once, its     *)
(* end is never overwritten, and it does end.                              *)
(***************************************************************************)
EXTENDS Naturals, RunState

CONSTANT Runs

VARIABLES
  status,  \* status[r], as the API shows it
  starts   \* starts[r]: how often a worker began to execute r

vars == <<status, starts>>

Init ==
  /\ status = [r \in Runs |-> "NONE"]
  /\ starts = [r \in Runs |-> 0]

Create(r) ==
  /\ status[r] = "NONE"
  /\ status' = [status EXCEPT ![r] = "PENDING"]
  /\ UNCHANGED starts

Start(r) ==
  /\ status[r] = "PENDING" /\ starts[r] = 0
  /\ status' = [status EXCEPT ![r] = "RUNNING"]
  /\ starts' = [starts EXCEPT ![r] = 1]

\* COMPLETED is the outcome of an execution only.
EndAs(r, outcome) ==
  /\ status[r] \in Active
  /\ outcome = "COMPLETED" => status[r] = "RUNNING"
  /\ status' = [status EXCEPT ![r] = outcome]
  /\ UNCHANGED starts

\* A sweep may end several runs in one transaction.
EndAll(S) ==
  /\ S # {} /\ \A r \in S : status[r] \in Active
  /\ status' = [r \in Runs |-> IF r \in S THEN "FAILED" ELSE status[r]]
  /\ UNCHANGED starts

Delete(r) ==
  /\ status[r] \in Terminal
  /\ status' = [status EXCEPT ![r] = "GONE"]
  /\ UNCHANGED starts

Next ==
  \/ \E r \in Runs : Create(r) \/ Start(r) \/ Delete(r)
  \/ \E r \in Runs, outcome \in Terminal : EndAs(r, outcome)
  \/ \E S \in SUBSET Runs : EndAll(S)

Safety == Init /\ [][Next]_vars

EveryRunEnds == \A r \in Runs : status[r] \in Active ~> status[r] \notin Active

Spec == Safety /\ EveryRunEnds

=============================================================================
