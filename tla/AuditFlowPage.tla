---------------------------- MODULE AuditFlowPage ----------------------------
(***************************************************************************)
(* AuditFlowPage.tsx against the server of AuditFlowRuns: the run that is  *)
(* shown, its copy in the query cache, and the requests under way.  A host *)
(* is edited optimistically, the cache before the server.                  *)
(*                                                                         *)
(* A change is sent, loaded (a session reads the row), answered (the       *)
(* session has committed) and taken by the page.  Sessions hold no lock on *)
(* the row, and answers arrive in any order.                               *)
(***************************************************************************)
EXTENDS AuditFlowRuns, FiniteSets

CONSTANTS
  NoActive,    \* activeId = null
  Edited,      \* bound: the runs the user changes; others are in the cache, and are
               \* looked at, but not fetched again
  MaxAsked,    \* bound: changes the user asks for, and times the window gets the focus
  MaxAskedOfScan  \* bound: the same, when the behaviour includes the scan

ASSUME AuditFlowPageAssumption ==
  /\ NoActive \notin Runs
  /\ Edited \subseteq Runs
  /\ MaxAsked \in Nat /\ MaxAskedOfScan \in 0 .. MaxAsked

VARIABLES
  activeId,
  cache,       \* cache[r]: data of the query audit-flow-run, or NoData
  calls,       \* requests that are not settled
  asked,       \* bound counter
  raced,       \* history: runs of which two requests, or two scanners, overlapped, which
               \* were deleted elsewhere, or whose cancellation wrote over a row that had
               \* changed since it loaded it
  strayed,     \* history: a rollback went to another run's cache entry
  together     \* history: runs that two requests to execute had loaded at once

pageVars == <<activeId, cache, calls, asked, raced, strayed, together>>
vars == <<serverVars, pageVars>>

-----------------------------------------------------------------------------

NoData == [id |-> NoActive]
NoChange == [field |-> "none"]

Mutations == {"patch", "cred", "execute", "cancel"}

\* shown: the cached run when it was made (of a patch, its snapshot previous; of an
\* execute, a history variable).  seen: the row its session loaded, then the answer.  latest: the
\* mutation is its observer's, whose callbacks are those of the last render;
\* under is the active run of the callbacks otherwise.  heard: the page waits.
Call ==
  [op : Mutations \cup {"get"}, run : Runs, change : Changes \cup {NoChange},
   phase : {"sent", "loaded", "answered"}, ok : BOOLEAN, heard : BOOLEAN,
   shown : AuditRow \cup {NoData}, seen : AuditRow \cup {NoData},
   latest : BOOLEAN, under : Runs \cup {NoActive}]

TypeOK ==
  /\ ServerTypeOK
  /\ activeId \in Runs \cup {NoActive}
  /\ cache \in [Runs -> AuditRow \cup {NoData}]
  /\ \A c \in calls : c \in Call
  /\ asked \in 0 .. MaxAsked
  /\ raced \subseteq Runs
  /\ strayed \in BOOLEAN
  /\ together \subseteq Runs

Init ==
  /\ ServerInit
  /\ activeId = NoActive
  /\ cache = [r \in Runs |-> IF r \in Edited \/ ~Exists(r) THEN NoData ELSE audit[r]]
  /\ asked = IF audit[NewRunId].st = "absent" THEN MaxAsked - MaxAskedOfScan ELSE 0
  /\ calls = {} /\ raced = {} /\ strayed = FALSE /\ together = {}

NewCall(op, r, change) ==
  [op |-> op, run |-> r, change |-> change, phase |-> "sent", ok |-> TRUE, heard |-> TRUE,
   shown |-> IF op \in {"patch", "execute"} THEN cache[r] ELSE NoData, seen |-> NoData, latest |-> TRUE, under |-> r]

CallsOf(r) == {c \in calls : c.run = r}
Fetching(r) == {c \in CallsOf(r) : c.op = "get"}
Waiting(op) == \E c \in calls : c.op = op /\ c.heard

\* Requests of one run that are under way together may be answered in another
\* order than they were served in.  A poll corrects what a cancellation mixes up.
Race(op, r, others) ==
  raced' = IF \E c \in others : ~(op = "cancel" /\ c.op = "get") /\ ~(op = "get" /\ c.op = "cancel")
           THEN raced \cup {r} ELSE raced

-----------------------------------------------------------------------------
(* The query audit-flow-run.                                               *)

\* The request is served as it is sent, which presents the run if it is there; the
\* answer takes its time.
Fetch(r, st) ==
  LET row == Refreshed(st, jobs[r]) IN
  /\ Fetching(r) = {}
  /\ audit' = [audit EXCEPT ![r] = row]
  /\ calls' = calls \cup {[NewCall("get", r, NoChange) EXCEPT !.phase = "answered", !.seen = row,
                                                        !.ok = row.st # "deleted"]}
  /\ Race("get", r, CallsOf(r))
  /\ UNCHANGED <<flag, jobs, launches, doomed, strayed, together>>

BugPollScansOnly == {"pending", "scanning"}
POLLED == ACTIVE

\* refetchInterval
Poll ==
  /\ activeId # NoActive /\ cache[activeId] # NoData
  /\ cache[activeId].st \in POLLED
  /\ Fetch(activeId, audit[activeId])
  /\ UNCHANGED <<scanner, activeId, cache, asked>>

\* The window gets the focus, or the network comes back.
Refetch ==
  /\ activeId \in Edited /\ Fetch(activeId, audit[activeId])
  /\ asked < MaxAsked /\ asked' = asked + 1
  /\ UNCHANGED <<scanner, activeId, cache>>

\* A run of the list is selected; its query has stale data or none.
SelectRun(r) ==
  /\ Exists(r) /\ r # activeId
  /\ activeId' = r
  /\ IF r \in Edited /\ Fetching(r) = {}
     THEN Fetch(r, audit[r])
     ELSE UNCHANGED <<audit, flag, jobs, launches, doomed, calls, raced, strayed, together>>
  /\ UNCHANGED <<scanner, cache, asked>>

\* The button New run, on results.
LeaveRun ==
  /\ activeId # NoActive /\ cache[activeId] # NoData
  /\ cache[activeId].st \in {"completed", "failed", "cancelled"}
  /\ activeId' = NoActive
  /\ UNCHANGED <<serverVars, cache, calls, asked, raced, strayed, together>>

\* startMutation: the run is pending and its message enqueued, or the message
\* could not be dispatched.
StartRun(r) ==
  /\ activeId = NoActive /\ audit[r].st = "absent"
  /\ \/ /\ Fetch(r, [audit[r] EXCEPT !.st = "pending"])
        /\ activeId' = r
        /\ UNCHANGED scanner
     \/ /\ audit' = [audit EXCEPT ![r].st = "failed"]
        /\ scanner' = [scanner EXCEPT ![r] = [d \in Deliveries |-> "done"]]
        /\ UNCHANGED <<activeId, calls, raced, flag, jobs, launches, doomed, strayed, together>>
  /\ UNCHANGED <<cache, asked>>

-----------------------------------------------------------------------------
(* The user's changes.                                                     *)

Ask(op, c, others) ==
  /\ c.run \in Edited /\ asked < MaxAsked
  /\ asked' = asked + 1
  /\ calls' = others \cup {c}
  /\ Race(op, c.run, {o \in others : o.run = c.run})
  /\ UNCHANGED <<serverVars, activeId, strayed, together>>

\* canContinue and hostEditable
HostEditable(row) == row.st = "ready" /\ row.found /\ ~row.job

BugPreviewUnselected(row, c) == IF c.field = "profile" THEN [row EXCEPT !.prof = c.value] ELSE PatchHost(row, c)

\* applyAuditFlowHostPatch
HostPatch(row, c) ==
  LET deselected == [row EXCEPT !.sel = FALSE,
                                !.skip = IF row.job THEN @ ELSE "skipped_by_user"]
  IN  CASE c.field = "selected" /\ c.value ->
             [row EXCEPT !.sel = TRUE,
                         !.skip = IF ~row.job /\ @ = "skipped_by_user" THEN "none" ELSE @]
        [] c.field = "selected" /\ ~c.value -> deselected
        [] c.field = "profile" /\ c.value = NoProfile ->
             IF row.job THEN [row EXCEPT !.prof = NoProfile]
                        ELSE [deselected EXCEPT !.prof = NoProfile]
        [] c.field = "profile" /\ c.value # NoProfile ->
             ClearRetryableSkip([row EXCEPT !.prof = c.value, !.sel = TRUE])
        [] c.field = "credential" /\ c.value ->
             ClearRetryableSkip([row EXCEPT !.cred = TRUE, !.sel = TRUE])
        [] c.field = "credential" /\ ~c.value -> [row EXCEPT !.cred = FALSE]

\* patchMutation: onMutate cancels the run's fetch, whose answer is dropped, and
\* shows the change.  An earlier patch keeps the callbacks it has at this render.
PatchHosts(change) ==
  LET row == cache[activeId]
      rest == {IF c.op = "patch" /\ c.latest THEN [c EXCEPT !.latest = FALSE, !.under = activeId] ELSE c
                 : c \in calls \ Fetching(activeId)}
  IN  /\ activeId # NoActive /\ row # NoData /\ HostEditable(row)
      /\ Ask("patch", NewCall("patch", activeId, change), rest)
      /\ cache' = [cache EXCEPT ![activeId] = HostPatch(row, change)]

\* addHostCredMutation, for the host.
AddHostCred ==
  /\ activeId # NoActive /\ cache[activeId] # NoData /\ HostEditable(cache[activeId])
  /\ ~Waiting("cred")
  /\ Ask("cred", NewCall("cred", activeId, [field |-> "credential", value |-> TRUE]), calls)
  /\ UNCHANGED cache

\* executeMutation; the button is there in review, with hostsReadyToExecute.
Execute ==
  /\ activeId # NoActive /\ cache[activeId] # NoData
  /\ HostEditable(cache[activeId]) /\ CanLaunch(cache[activeId])
  /\ ~Waiting("execute")
  /\ Ask("execute", NewCall("execute", activeId, NoChange), calls)
  /\ UNCHANGED cache

\* cancelMutation
Cancel ==
  /\ activeId # NoActive /\ cache[activeId] # NoData /\ cache[activeId].st \in ACTIVE
  /\ ~Waiting("cancel")
  /\ Ask("cancel", NewCall("cancel", activeId, NoChange), calls)
  /\ UNCHANGED cache

\* delete_run_artifacts and the deletion of the row, whatever the run is doing.
Deleted(r) ==
  /\ Exists(r) /\ r \in Edited
  /\ audit' = [audit EXCEPT ![r] = [NewRun(r) EXCEPT !.st = "deleted"]]
  /\ jobs' = [jobs EXCEPT ![r] = "none"]
  /\ UNCHANGED <<flag, scanner, launches, doomed, asked, strayed, together>>

\* deleteMutation, served and answered at once.  The button is disabled while the list
\* shows the run as active; the list may be out of date.
DeleteRun(r) ==
  /\ Deleted(r)
  /\ cache' = [cache EXCEPT ![r] = NoData]
  /\ activeId' = IF activeId = r THEN NoActive ELSE activeId
  /\ calls' = calls \ Fetching(r)
  /\ raced' = IF CallsOf(r) \subseteq Fetching(r) THEN raced ELSE raced \cup {r}

\* Another page deletes the run, or cleanup_expired.  (bound: while this page asks
\* nothing of it)
DeletedElsewhere(r) ==
  /\ Deleted(r) /\ CallsOf(r) = {}
  /\ raced' = raced \cup {r}
  /\ UNCHANGED <<activeId, cache, calls>>

-----------------------------------------------------------------------------
(* The server's side of a request.                                         *)

Becomes(c, d) == calls' = (calls \ {c}) \cup {d}

\* load_run
LoadRun(c) ==
  /\ c.phase = "sent"
  /\ Becomes(c, [c EXCEPT !.phase = "loaded", !.seen = audit[c.run]])
  /\ together' = IF c.op = "execute" /\ \E o \in CallsOf(c.run) : o.op = "execute" /\ o.phase = "loaded"
                 THEN together \cup {c.run} ELSE together
  /\ UNCHANGED <<serverVars, activeId, cache, asked, raced, strayed>>

\* The handler's checks of the row it loaded; otherwise 404 or 409.
Accepts(c) ==
  /\ c.seen.st # "deleted" /\ Exists(c.run)
  /\ c.op \in {"patch", "cred"} => Editable(c.seen)
  /\ c.op = "execute" => Executable(c.seen)

Outcome(c, fails) ==
  CASE c.op \in {"patch", "cred"} -> PatchHost(c.seen, c.change)
    [] c.op = "execute" -> Executed(c.seen, fails)
    [] c.op = "cancel" -> IF c.seen.st \in ACTIVE THEN [c.seen EXCEPT !.st = "cancelled"] ELSE c.seen

Refuse(c) ==
  /\ c.phase = "loaded" /\ ~Accepts(c)
  /\ Becomes(c, [c EXCEPT !.phase = "answered", !.ok = FALSE])
  /\ UNCHANGED <<serverVars, activeId, cache, asked, raced, strayed, together>>

\* The rest of the handler: it writes what it changed, and presents the run.
Serve(c) ==
  LET r == c.run
      cancels == c.op = "cancel" /\ c.seen.st \in ACTIVE
  IN
  /\ c.phase = "loaded" /\ Accepts(c)
  /\ \E fails \in BOOLEAN :
       LET did == Outcome(c, fails)
           launched == c.op = "execute" /\ CanLaunch(c.seen) /\ ~fails
           out == Refreshed(did, IF launched THEN "pending" ELSE jobs[r])
       IN  /\ fails => c.op = "execute" /\ CanLaunch(c.seen)
           /\ audit' = [audit EXCEPT ![r] = Written(@, c.seen, out)]
           /\ jobs' = IF launched THEN [jobs EXCEPT ![r] = "pending"] ELSE jobs
           /\ launches' = IF launched THEN [launches EXCEPT ![r] = @ + 1] ELSE launches
           /\ Becomes(c, [c EXCEPT !.phase = "answered", !.seen = out])
  /\ flag' = IF cancels THEN [flag EXCEPT ![r] = TRUE] ELSE flag
  /\ doomed' = IF cancels
               THEN [doomed EXCEPT ![r] = {d \in Deliveries :
                       scanner[r][d] \in LOOKS \cup {"queued"}}]
               ELSE doomed
  /\ raced' = IF cancels /\ audit[r] # c.seen THEN raced \cup {r} ELSE raced
  /\ UNCHANGED <<scanner, activeId, cache, asked, strayed, together>>

-----------------------------------------------------------------------------
(* The page takes an answer.                                               *)

BugStoreNothing(row) == [cache EXCEPT ![row.id] = NoChange]
BugStoreUnderActive(row) == IF activeId = NoActive THEN cache ELSE [cache EXCEPT ![activeId] = row]

\* setQueryData(["audit-flow-run", updated.id], updated)
Store(row) == [cache EXCEPT ![row.id] = row]

TakeAnswer(c) ==
  /\ c.phase = "answered" /\ c.heard /\ c.ok
  /\ cache' = Store(c.seen)
  /\ calls' = calls \ {c}
  /\ UNCHANGED <<serverVars, activeId, asked, raced, strayed, together>>

\* onError: of a patch, the snapshot is put back, under the active run of the callback.
RollBack(c) ==
  LET key == IF c.latest THEN activeId ELSE c.under IN
  IF c.op = "patch" /\ key # NoActive
  THEN cache' = [cache EXCEPT ![key] = c.shown] /\ strayed' = (strayed \/ key # c.run)
  ELSE UNCHANGED <<cache, strayed>>

TakeError(c) ==
  /\ c.phase = "answered" /\ c.heard /\ ~c.ok
  /\ RollBack(c)
  /\ calls' = calls \ {c}
  /\ UNCHANGED <<serverVars, activeId, asked, raced, together>>

\* The connection breaks: the request, or its answer, is lost.  (A fetch is tried again.)
LoseCall(c) ==
  /\ c.op \in Mutations /\ c.phase # "loaded" /\ c.heard
  /\ RollBack(c)
  /\ calls' = calls \ {c}
  /\ raced' = raced \cup {c.run}
  /\ UNCHANGED <<serverVars, activeId, asked, together>>

\* It breaks while the request is served.  (bound: to execute a run, which takes long;
\* requests nobody waits for that are alike in all are one)
GiveUp(c) ==
  /\ c.op = "execute" /\ c.phase # "answered" /\ c.heard
  /\ Becomes(c, [c EXCEPT !.heard = FALSE, !.shown = NoData])
  /\ raced' = raced \cup {c.run}
  /\ UNCHANGED <<serverVars, activeId, cache, asked, strayed, together>>

\* Nobody waits for the answer any more.
AnswerDropped(c) ==
  /\ c.phase = "answered" /\ ~c.heard
  /\ calls' = calls \ {c}
  /\ UNCHANGED <<serverVars, activeId, cache, asked, raced, strayed, together>>

=============================================================================
