------------------------- MODULE AuditFlowEdits_proofs -------------------------
(***************************************************************************)
(* Edits of a run in AuditFlow: that the page's preview is what the server *)
(* answers, and that what is launched is what was shown.  Both rest on one *)
(* invariant about the runs whose requests and scanners did not overlap.   *)
(***************************************************************************)
EXTENDS AuditFlow_proofs

-----------------------------------------------------------------------------
(* The invariant.                                                          *)

\* The mutations that count on the row being as it is shown.
Edits == {"patch", "cred", "execute"}

Ready(row) == row # NoData /\ row.st = "ready"

\* No scan of the run has come to an end.
Unscanned(scan) == Deliveries # {} /\ \A d \in Deliveries : scan[d] \notin {"clear", "done"}

\* The delivery was not received.
WAITING == {"unsent", "queued"}

\* No scanner met another one.  (The scanners of a run that was there before, or whose
\* message was not dispatched, are all done.)
OneAtATime(scan) ==
  \A d, e \in Deliveries :
    d # e => \/ scan[d] \in WAITING \/ scan[e] \in WAITING
             \/ scan[d] = "done" /\ scan[e] = "done"

\* The row that the page showed when it sent c.
Base(c, entry) == IF c.op = "patch" THEN c.shown ELSE entry

\* An edit is made of the row that the page showed, which is the server's until the
\* edit is served; its preview is the page's entry.
InOrder(c, row, entry) ==
  /\ c.heard /\ c.ok
  /\ Base(c, entry) # NoData /\ HostEditable(Base(c, entry))
  /\ c.op = "patch" => entry = HostPatch(c.shown, c.change)
  /\ c.op = "execute" => c.shown = entry /\ CanLaunch(entry)
  /\ c.phase # "answered" => row = Base(c, entry)
  /\ c.phase = "loaded" => c.seen = Base(c, entry)
  /\ c.phase = "answered" /\ c.op = "execute" => ~Ready(c.seen)
  /\ c.phase = "answered" /\ c.op # "execute" =>
       c.seen = row /\ c.seen = PatchHost(Base(c, entry), c.change)

\* Of a run: its row, the page's entry for it, its calls and its scanners.  A row that
\* is READY is the one the server has, wherever it is: nothing but an edit moves it,
\* and an edit is alone.
CalmRun(row, entry, own, scan) ==
  /\ OneAtATime(scan)
  /\ Unscanned(scan) =>
       ~Ready(row) /\ ~Ready(entry) /\ \A c \in own : c.op \notin Edits /\ ~Ready(c.seen)
  /\ \A c, e \in own : c # e =>
       (c.op = "get" /\ e.op = "cancel") \/ (c.op = "cancel" /\ e.op = "get")
  /\ \A c \in own : Ready(c.seen) => c.seen = row
  /\ Ready(entry) /\ (\A c \in own : c.op \notin Edits) => entry = row
  /\ \A c \in own : c.op \in Edits => InOrder(c, row, entry)

Calm ==
  ~strayed => \A r \in Runs \ raced : CalmRun(audit[r], cache[r], CallsOf(r), scanner[r])

-----------------------------------------------------------------------------
(* Rows.                                                                   *)

LEMMA RowsAreData ==
  ASSUME NEW r \in Runs, NEW row \in RowOf(r)
  PROVE  row # NoData /\ row \in AuditRow /\ row.id = r
BY NewRunsTyped DEF RowOf

\* The page's preview of a change and the server's edit agree on a host that the page
\* lets the user edit.
LEMMA SameEdit ==
  ASSUME NEW r \in Runs, NEW row \in RowOf(r), HostEditable(row), NEW c \in Changes
  PROVE  HostPatch(row, c) = PatchHost(row, c)
<1>1. ~row.job /\ row \in AuditRow
  BY DEF HostEditable, RowOf
<1>2. CASE c.field = "selected"
  <2>1. c.value \in BOOLEAN
    BY <1>2 DEF Changes
  <2>2. CASE c.value
    BY <1>1, <1>2, <2>2 DEF PatchHost, HostPatch, ApplySelection
  <2>3. CASE ~c.value
    <3>1. PatchHost(row, c) = [row EXCEPT !.sel = FALSE, !.skip = "skipped_by_user"]
      BY <1>2, <2>1, <2>3 DEF PatchHost, ApplySelection
    <3>2. HostPatch(row, c) = [row EXCEPT !.sel = FALSE, !.skip = "skipped_by_user"]
      BY <1>1, <1>2, <2>3 DEF HostPatch
    <3> QED BY <3>1, <3>2
  <2> QED BY <2>1, <2>2, <2>3
<1>3. CASE c.field = "profile" /\ c.value = NoProfile
  <2>1. PatchHost(row, c) = [[row EXCEPT !.prof = NoProfile] EXCEPT !.sel = FALSE, !.skip = "skipped_by_user"]
    BY <1>3 DEF PatchHost, ApplySelection
  <2>2. HostPatch(row, c) = [[row EXCEPT !.sel = FALSE, !.skip = "skipped_by_user"] EXCEPT !.prof = NoProfile]
    BY <1>1, <1>3 DEF HostPatch
  <2> QED BY <1>1, <2>1, <2>2 DEF AuditRow
<1>4. CASE c.field = "profile" /\ c.value # NoProfile
  BY <1>4 DEF PatchHost, HostPatch
<1>5. CASE c.field = "credential"
  <2>1. c.value \in BOOLEAN
    BY <1>5 DEF Changes
  <2>2. CASE c.value
    BY <1>5, <2>2 DEF PatchHost, HostPatch
  <2>3. CASE ~c.value
    BY <1>5, <2>3 DEF PatchHost, HostPatch
  <2> QED BY <2>1, <2>2, <2>3
<1>6. c.field \in {"selected", "profile", "credential"}
  BY DEF Changes
<1> QED BY <1>2, <1>3, <1>4, <1>5, <1>6

\* An edit leaves the status alone.
LEMMA StatusKept ==
  ASSUME NEW r \in Runs, NEW row \in RowOf(r), NEW c \in Changes
  PROVE  PatchHost(row, c).st = row.st
<1>1. row \in AuditRow
  BY DEF RowOf
<1>2. CASE c.field = "selected"
  BY <1>1, <1>2 DEF PatchHost, ApplySelection, AuditRow
<1>3. CASE c.field = "profile" /\ c.value = NoProfile
  BY <1>1, <1>3 DEF PatchHost, ApplySelection, AuditRow
<1>4. CASE c.field = "profile" /\ c.value # NoProfile
  BY <1>1, <1>4 DEF PatchHost, ClearRetryableSkip, AuditRow
<1>5. CASE c.field = "credential"
  <2>1. c.value \in BOOLEAN
    BY <1>5 DEF Changes
  <2>2. CASE c.value
    BY <1>1, <1>5, <2>2 DEF PatchHost, ClearRetryableSkip, AuditRow
  <2>3. CASE ~c.value
    BY <1>1, <1>5, <2>3 DEF PatchHost, AuditRow
  <2> QED BY <2>1, <2>2, <2>3
<1>6. c.field \in {"selected", "profile", "credential"}
  BY DEF Changes
<1> QED BY <1>2, <1>3, <1>4, <1>5, <1>6

\* Only a running row is refreshed.
LEMMA RefreshedRows ==
  ASSUME NEW row, NEW job
  PROVE  /\ row.st # "running" => Refreshed(row, job) = row
         /\ row.job /\ job = "pending" => Refreshed(row, job) = row
  BY DEF Refreshed

LEMMA RefreshedIsNotReady ==
  ASSUME NEW r \in Runs, NEW row \in RowOf(r), NEW job, row.st # "ready"
  PROVE  ~Ready(Refreshed(row, job))
<1>1. CASE Refreshed(row, job) = row
  BY <1>1 DEF Ready
<1>2. CASE Refreshed(row, job) # row
  BY <1>2 DEF Refreshed, Ready, RowOf, AuditRow
<1> QED BY <1>1, <1>2

\* What is written over the row that was loaded is the outcome; a session that changes
\* nothing writes nothing.
LEMMA WrittenOver ==
  ASSUME NEW r \in Runs, NEW row \in RowOf(r), NEW out \in RowOf(r)
  PROVE  Written(row, row, out) = out /\ Written(row, out, out) = row
<1> DEFINE F == {"id", "st", "found", "sel", "prof", "cred", "skip", "job"}
<1>1. /\ DOMAIN row = F /\ DOMAIN out = F
      /\ row = [f \in F |-> row[f]] /\ out = [f \in F |-> out[f]]
  BY DEF RowOf, AuditRow
<1>2. Written(row, row, out) = [f \in F |-> IF out[f] # row[f] THEN out[f] ELSE row[f]]
  BY <1>1 DEF Written
<1>3. Written(row, out, out) = [f \in F |-> IF out[f] # out[f] THEN out[f] ELSE row[f]]
  BY <1>1 DEF Written
<1>4. [f \in F |-> IF out[f] # row[f] THEN out[f] ELSE row[f]] = [f \in F |-> out[f]]
  OBVIOUS
<1>5. [f \in F |-> IF out[f] # out[f] THEN out[f] ELSE row[f]] = [f \in F |-> row[f]]
  OBVIOUS
<1> HIDE DEF F
<1> QED BY <1>1, <1>2, <1>3, <1>4, <1>5

-----------------------------------------------------------------------------
(* What becomes of one run, in terms of its row, its entry in the cache,   *)
(* its calls and its scanners.                                             *)

\* Whatever these hold is of run r.
TypedRun(r, row, entry, own) ==
  /\ row \in RowOf(r)
  /\ entry = NoData \/ entry \in RowOf(r)
  /\ \A c \in own : SoundCall(c) /\ c.run = r /\ (c.shown = NoData \/ c.shown \in RowOf(r))

\* The row that an edit is made of is READY, and so is an edited row.
LEMMA EditsOfReadyRows ==
  ASSUME NEW r \in Runs, NEW row, NEW entry, NEW own, TypedRun(r, row, entry, own),
         NEW c \in own, InOrder(c, row, entry)
  PROVE  /\ Base(c, entry) \in RowOf(r) /\ Ready(Base(c, entry))
         /\ c.op \in {"patch", "cred"} =>
              /\ c.change \in Changes
              /\ PatchHost(Base(c, entry), c.change) \in RowOf(r)
              /\ Ready(PatchHost(Base(c, entry), c.change))
<1>1. Base(c, entry) # NoData /\ Base(c, entry).st = "ready"
  BY DEF InOrder, HostEditable
<1>2. Base(c, entry) \in RowOf(r)
  BY <1>1 DEF Base, TypedRun
<1>3. ASSUME c.op \in {"patch", "cred"}
      PROVE  /\ c.change \in Changes
             /\ PatchHost(Base(c, entry), c.change) \in RowOf(r)
             /\ Ready(PatchHost(Base(c, entry), c.change))
  <2>1. c.change \in Changes
    BY <1>3 DEF TypedRun, SoundCall
  <2> DEFINE base == Base(c, entry)
  <2>2. base \in RowOf(r) /\ base.st = "ready"
    BY <1>1, <1>2
  <2> HIDE DEF base
  <2>3. PatchHost(base, c.change) \in RowOf(r) /\ PatchHost(base, c.change).st = "ready"
    BY <2>1, <2>2, PatchTyped, StatusKept
  <2>4. PatchHost(base, c.change) # NoData
    BY <2>3, RowsAreData
  <2> QED BY <2>1, <2>3, <2>4 DEF Ready, base
<1> QED BY <1>1, <1>2, <1>3 DEF Ready

\* The row of a run changes only while it is not READY: then nothing that is READY,
\* and no edit that is to be served, depends on it.
LEMMA RowMoves ==
  ASSUME NEW r \in Runs, NEW row, NEW entry, NEW own, TypedRun(r, row, entry, own),
         NEW scan, CalmRun(row, entry, own, scan),
         NEW row2, row2 = row \/ ~Ready(row),
         NEW scan2, OneAtATime(scan2),
         Unscanned(scan2) => Unscanned(scan) /\ ~Ready(row2)
  PROVE  CalmRun(row2, entry, own, scan2)
<1>1. CASE row2 = row
  BY <1>1 DEF CalmRun
<1>2. CASE ~Ready(row)
  <2>1. \A c \in own : ~Ready(c.seen)
    BY <1>2 DEF CalmRun
  <2>2. ASSUME NEW c \in own, c.op \in Edits
        PROVE  InOrder(c, row2, entry)
    <3>1. InOrder(c, row, entry)
      BY <2>2 DEF CalmRun
    <3>2. row # Base(c, entry)
      BY <1>2, <3>1, EditsOfReadyRows
    <3>3. c.phase = "answered"
      BY <3>1, <3>2 DEF InOrder
    <3>4. c.op = "execute"
      BY <2>1, <2>2, <3>1, <3>3, EditsOfReadyRows DEF InOrder, Edits
    <3> QED BY <3>1, <3>3, <3>4 DEF InOrder
  <2>3. Ready(entry) => \E c \in own : c.op \in Edits
    BY <1>2 DEF CalmRun
  <2> QED BY <2>1, <2>2, <2>3 DEF CalmRun
<1> QED BY <1>1, <1>2

LEMMA CallsDropped ==
  ASSUME NEW row, NEW entry, NEW own, NEW scan, CalmRun(row, entry, own, scan),
         NEW own2, own2 \subseteq own, \A c \in own \ own2 : c.op \notin Edits
  PROVE  CalmRun(row, entry, own2, scan)
BY DEF CalmRun

LEMMA GetMade ==
  ASSUME NEW row, NEW entry, NEW own, NEW scan, CalmRun(row, entry, own, scan),
         \A c \in own : c.op = "cancel", NEW d, d.op = "get", d.seen = row
  PROVE  CalmRun(row, entry, own \cup {d}, scan)
BY DEF CalmRun, Edits

LEMMA CancelMade ==
  ASSUME NEW row, NEW entry, NEW own, NEW scan, CalmRun(row, entry, own, scan),
         \A c \in own : c.op = "get", NEW d, d.op = "cancel", d.seen = NoData
  PROVE  CalmRun(row, entry, own \cup {d}, scan)
BY DEF CalmRun, Edits, Ready

\* An edit is asked for of the row that is shown, which is the server's.
LEMMA EditMade ==
  ASSUME NEW row, NEW entry, NEW own, NEW scan, CalmRun(row, entry, own, scan),
         \A c \in own : c.op \notin Edits,
         entry # NoData, HostEditable(entry),
         NEW d, d.op \in Edits, d.seen = NoData, d.phase = "sent", d.heard, d.ok,
         NEW entry2,
         IF d.op = "patch" THEN d.shown = entry /\ entry2 = HostPatch(entry, d.change)
                           ELSE entry2 = entry,
         d.op = "execute" => d.shown = entry /\ CanLaunch(entry)
  PROVE  CalmRun(row, entry2, {d}, scan)
<1>1. Ready(entry) /\ entry = row /\ ~Unscanned(scan)
  BY DEF CalmRun, Ready, HostEditable
<1>2. InOrder(d, row, entry2)
  BY <1>1 DEF InOrder, Base, Edits
<1>3. ~Ready(d.seen)
  BY DEF Ready
<1> QED BY <1>1, <1>2, <1>3 DEF CalmRun

\* A cancellation moves on.
LEMMA CancelMoves ==
  ASSUME NEW row, NEW entry, NEW own, NEW scan, CalmRun(row, entry, own, scan),
         NEW c \in own, c.op = "cancel", NEW d, d.op = "cancel", Ready(d.seen) => d.seen = row
  PROVE  CalmRun(row, entry, (own \ {c}) \cup {d}, scan)
BY DEF CalmRun, Edits

\* An edit moves on, alone.
LEMMA EditMoves ==
  ASSUME NEW row, NEW entry, NEW own, NEW scan, CalmRun(row, entry, own, scan),
         NEW c \in own, c.op \in Edits,
         NEW row2, NEW d, d.op \in Edits, InOrder(d, row2, entry), Ready(d.seen) => d.seen = row2
  PROVE  CalmRun(row2, entry, (own \ {c}) \cup {d}, scan)
<1>1. \A e \in own : e = c
  BY DEF CalmRun, Edits
<1>2. (own \ {c}) \cup {d} = {d}
  BY <1>1
<1>3. ~Unscanned(scan) /\ OneAtATime(scan)
  BY DEF CalmRun
<1> HIDE DEF Edits
<1>4. CalmRun(row2, entry, {d}, scan)
  BY <1>3 DEF CalmRun
<1> QED BY <1>2, <1>4

\* The entry becomes the answer of a call.
LEMMA AnswerStored ==
  ASSUME NEW row, NEW entry, NEW own, NEW scan, CalmRun(row, entry, own, scan), NEW c \in own
  PROVE  CalmRun(row, c.seen, own \ {c}, scan)
<1>1. \A e \in own \ {c} : e.op \notin Edits
  BY DEF CalmRun, Edits
<1> QED BY <1>1 DEF CalmRun

\* The callbacks of patches are those of an earlier render by now.
Late(c, active) ==
  IF c.op = "patch" /\ c.latest THEN [c EXCEPT !.latest = FALSE, !.under = active] ELSE c

LEMMA CallsLate ==
  ASSUME NEW row, NEW entry, NEW own, NEW scan, CalmRun(row, entry, own, scan),
         \A c \in own : c \in Call, NEW active
  PROVE  CalmRun(row, entry, {Late(c, active) : c \in own}, scan)
<1>1. ASSUME NEW c \in own
      PROVE  LET d == Late(c, active) IN
             /\ d.op = c.op /\ d.seen = c.seen /\ d.heard = c.heard /\ d.ok = c.ok
             /\ d.shown = c.shown /\ d.phase = c.phase /\ d.change = c.change
  BY <1>1 DEF Late, Call
<1>2. ASSUME NEW c \in own, c.op \in Edits
      PROVE  InOrder(Late(c, active), row, entry)
  <2>1. InOrder(c, row, entry)
    BY <1>2 DEF CalmRun
  <2> DEFINE d == Late(c, active)
  <2>2. /\ d.op = c.op /\ d.seen = c.seen /\ d.heard = c.heard /\ d.ok = c.ok
        /\ d.shown = c.shown /\ d.phase = c.phase /\ d.change = c.change
    BY <1>1
  <2> HIDE DEF d
  <2>3. InOrder(d, row, entry)
    BY <2>1, <2>2 DEF InOrder, Base
  <2> QED BY <2>3 DEF d
<1> HIDE DEF Late
<1> QED BY <1>1, <1>2 DEF CalmRun

-----------------------------------------------------------------------------
(* The steps of the system.                                                *)

CalmNext(r) == CalmRun(audit'[r], cache'[r], CallsOf(r)', scanner'[r])

LEMMA CalmHere ==
  ASSUME Inv, Calm, ~strayed, NEW r \in Runs, r \notin raced
  PROVE  /\ CalmRun(audit[r], cache[r], CallsOf(r), scanner[r])
         /\ TypedRun(r, audit[r], cache[r], CallsOf(r))
<1>1. CalmRun(audit[r], cache[r], CallsOf(r), scanner[r])
  BY DEF Calm
<1>2. audit[r] \in RowOf(r)
  BY DEF Inv, ServerInv, Rows
<1>3. cache[r] = NoData \/ cache[r] \in RowOf(r)
  BY DEF Inv, PageInv, OwnData, Own, RowOf
<1>4. ASSUME NEW c \in CallsOf(r)
      PROVE  SoundCall(c) /\ c.run = r /\ (c.shown = NoData \/ c.shown \in RowOf(r))
  <2>1. c \in calls /\ c.run = r
    BY <1>4 DEF CallsOf
  <2>2. SoundCall(c) /\ Own(c.shown, c.run)
    BY <2>1 DEF Inv, PageInv, OwnData
  <2>3. c.shown \in AuditRow \cup {NoData}
    BY <2>2 DEF SoundCall, Call
  <2> QED BY <2>1, <2>2, <2>3 DEF Own, RowOf
<1> QED BY <1>1, <1>2, <1>3, <1>4 DEF TypedRun

\* A step that is about another run.
LEMMA CalmElsewhere ==
  ASSUME Inv, Calm, ~strayed, NEW r \in Runs, r \notin raced,
         audit'[r] = audit[r], cache'[r] = cache[r], CallsOf(r)' = CallsOf(r),
         scanner'[r] = scanner[r]
  PROVE  CalmNext(r)
BY CalmHere DEF CalmNext

\* A step of the server that is not about a request.
LEMMA CalmRowMoves ==
  ASSUME Inv, Calm, ~strayed, NEW r \in Runs, r \notin raced,
         cache'[r] = cache[r], CallsOf(r)' = CallsOf(r),
         audit'[r] = audit[r] \/ ~Ready(audit[r]),
         OneAtATime(scanner'[r]),
         Unscanned(scanner'[r]) => Unscanned(scanner[r]) /\ ~Ready(audit'[r])
  PROVE  CalmNext(r)
<1>1. CalmRun(audit[r], cache[r], CallsOf(r), scanner[r]) /\ TypedRun(r, audit[r], cache[r], CallsOf(r))
  BY CalmHere
<1>2. CalmRun(audit'[r], cache[r], CallsOf(r), scanner'[r])
  BY <1>1, RowMoves
<1> QED BY <1>2 DEF CalmNext

LEMMA OneMoves ==
  ASSUME NEW scan, NEW scan2, NEW d \in Deliveries,
         OneAtATime(scan),
         scan[d] \notin WAITING \cup {"done"} \/ (\A e \in Deliveries : scan[e] \in WAITING),
         \A e \in Deliveries : e # d => scan2[e] = scan[e] \/ (scan[e] = "unsent" /\ scan2[e] = "queued")
  PROVE  OneAtATime(scan2)
BY DEF OneAtATime, WAITING

\* A scanner moves on, or the message goes back to the broker.
Moves(r, d, pc) == Goto(r, d, pc) \/ (pc = "done" /\ SendAgain(r, d))

\* What a step of a scanner does: only its end makes a row READY, and the clean-up
\* leaves the row alone.
ScannerDoes(r, d, pc, row) ==
  /\ Moves(r, d, pc) /\ audit' = [audit EXCEPT ![r] = row]
  /\ pc \in {"clear", "done"} \/ (row.st = "ready" => audit[r].st = "ready")
  /\ scanner[r][d] = "clear" => row = audit[r] /\ pc = "done"

\* A scanner that is at work was received before.
LEMMA NotReceived ==
  ASSUME NEW r, NEW d, ScanStep(r, d) \/ WorkerLost(r, d)
  PROVE  scanner[r][d] \notin WAITING \cup {"done"} /\ ~ReceiveScan(r, d)
BY DEF ScanStep, ScanSeesCancel, Discover, Identify, CheckBeforeApply, ApplyResult, FinishScan,
       ScanFails, ScanAborts, CleanUp, WorkerLost, ReceiveScan, LOOKS, InScan, WAITING

LEMMA ScannerSteps ==
  ASSUME ServerInv, NEW r \in Runs, NEW d \in Deliveries,
         ReceiveScan(r, d) \/ ScanStep(r, d) \/ WorkerLost(r, d)
  PROVE  /\ \E pc \in ScanPc, row \in RowOf(r) : ScannerDoes(r, d, pc, row)
         /\ ReceiveScan(r, d) => scanner[r][d] = "queued"
         /\ ~ReceiveScan(r, d) => scanner[r][d] \notin WAITING \cup {"done"}
<1> USE DEF ScanPc, WAITING, Moves
<1>0. audit = [audit EXCEPT ![r] = audit[r]] /\ audit[r] \in RowOf(r)
  BY DEF ServerInv, ServerTypeOK, Rows
<1> DEFINE ToSt(st) == [audit[r] EXCEPT !.st = st]
<1>1. \A st \in AuditFlowStatus : ToSt(st) \in RowOf(r) /\ ToSt(st).st = st
  BY <1>0, RowTyped DEF RowOf, AuditRow
<1>2. CASE ReceiveScan(r, d)
  <2>1. scanner[r][d] = "queued"
    BY <1>2 DEF ReceiveScan
  <2>2. CASE audit' = [audit EXCEPT ![r].st = "scanning"] /\ Goto(r, d, "discover")
    <3>1. "scanning" \in AuditFlowStatus
      BY DEF AuditFlowStatus
    <3>2. ScannerDoes(r, d, "discover", ToSt("scanning"))
      BY <1>1, <2>1, <2>2, <3>1 DEF ScannerDoes
    <3> QED BY <1>1, <1>2, <2>1, <3>1, <3>2
  <2>3. ASSUME NEW pc \in {"clear", "leave"}, UNCHANGED audit, Goto(r, d, pc)
        PROVE  ScannerDoes(r, d, pc, audit[r]) /\ pc \in ScanPc
    BY <1>0, <2>1, <2>3 DEF ScannerDoes
  <2> QED BY <1>0, <1>2, <2>1, <2>2, <2>3 DEF ReceiveScan
<1>3. ASSUME NEW st \in AuditFlowStatus, EndScan(r, d, st), scanner[r][d] # "clear"
      PROVE  \E pc \in ScanPc, row \in RowOf(r) : ScannerDoes(r, d, pc, row)
  <2>1. CASE Exists(r)
    <3>1. ScannerDoes(r, d, "clear", ToSt(st))
      BY <1>3, <2>1 DEF EndScan, ScannerDoes
    <3> QED BY <1>1, <3>1
  <2>2. CASE ~Exists(r)
    <3>1. ScannerDoes(r, d, "clear", audit[r])
      BY <1>0, <1>3, <2>2 DEF EndScan, ScannerDoes
    <3> QED BY <1>0, <3>1
  <2> QED BY <2>1, <2>2
<1>4. CASE ScanStep(r, d)
  <2>1. /\ scanner[r][d] \notin WAITING \cup {"done"} /\ ~ReceiveScan(r, d)
    BY <1>4, NotReceived
  <2>2. CASE ScanSeesCancel(r, d) \/ FinishScan(r, d) \/ ScanFails(r, d)
    BY <1>3, <2>1, <2>2 DEF ScanSeesCancel, FinishScan, ScanFails, AuditFlowStatus, LOOKS, InScan
  <2>3. CASE Discover(r, d)
    <3> DEFINE row == IF audit[r].found THEN audit[r]
                      ELSE [audit[r] EXCEPT !.found = TRUE, !.skip = "scanning"]
    <3>1. row \in RowOf(r) /\ row.st = audit[r].st
      BY <1>0 DEF RowOf, AuditRow, SkipReason
    <3>2. audit' = [audit EXCEPT ![r] = row]
      <4>1. CASE audit[r].found
        BY <1>0, <2>3, <4>1 DEF Discover
      <4>2. CASE ~audit[r].found
        BY <2>3, <4>2 DEF Discover
      <4> QED BY <4>1, <4>2
    <3> HIDE DEF row
    <3>3. ScannerDoes(r, d, "identify", row)
      BY <2>3, <3>1, <3>2 DEF Discover, ScannerDoes
    <3> QED BY <2>1, <3>1, <3>3
  <2>4. CASE Identify(r, d) \/ CheckBeforeApply(r, d) \/ ScanAborts(r, d)
    <3>1. PICK pc \in {"managed", "unmanaged", "applying", "leave"} : Goto(r, d, pc)
      BY <2>4 DEF Identify, CheckBeforeApply, ScanAborts
    <3>2. ScannerDoes(r, d, pc, audit[r]) /\ pc \in ScanPc
      BY <1>0, <2>4, <3>1 DEF Identify, CheckBeforeApply, ScanAborts, ScannerDoes, InScan, LOOKS
    <3> QED BY <1>0, <2>1, <3>2
  <2>5. CASE ApplyResult(r, d)
    <3>1. PICK p \in ProbeResults : audit' = [audit EXCEPT ![r] = ApplyProbeResult(audit[r], p)]
      BY <2>5 DEF ApplyResult, ProbeResults
    <3>2. ApplyProbeResult(audit[r], p) \in RowOf(r) /\ ApplyProbeResult(audit[r], p).st = audit[r].st
      BY <1>0, OutcomesTyped DEF ApplyProbeResult, RowOf, AuditRow
    <3>3. ScannerDoes(r, d, "finish", ApplyProbeResult(audit[r], p))
      BY <2>5, <3>1, <3>2 DEF ApplyResult, ScannerDoes
    <3> QED BY <2>1, <3>2, <3>3
  <2>6. CASE CleanUp(r, d)
    <3>1. PICK pc \in {"done", "raised"} :
            Moves(r, d, pc) /\ (scanner[r][d] = "clear" => pc = "done")
      BY <2>6 DEF CleanUp
    <3>2. ScannerDoes(r, d, pc, audit[r]) /\ pc \in ScanPc
      BY <1>0, <2>6, <3>1 DEF CleanUp, ScannerDoes
    <3> QED BY <1>0, <2>1, <3>2
  <2> QED BY <1>4, <2>1, <2>2, <2>3, <2>4, <2>5, <2>6 DEF ScanStep
<1>5. CASE WorkerLost(r, d)
  <2>1. scanner[r][d] \notin WAITING \cup {"done"} /\ ~ReceiveScan(r, d)
    BY <1>5, NotReceived
  <2>2. ScannerDoes(r, d, "done", audit[r])
    BY <1>0, <1>5 DEF WorkerLost, ScannerDoes
  <2> QED BY <1>0, <2>1, <2>2
<1> QED BY <1>2, <1>4, <1>5

LEMMA ScannedRow ==
  ASSUME ServerInv, NEW r \in Runs, NEW d \in Deliveries,
         ReceiveScan(r, d) \/ ScanStep(r, d) \/ WorkerLost(r, d)
  PROVE  /\ \A s \in Runs : s # r => audit'[s] = audit[s] /\ scanner'[s] = scanner[s]
         /\ \A e \in Deliveries : e # d =>
              scanner'[r][e] = scanner[r][e] \/ (scanner[r][e] = "unsent" /\ scanner'[r][e] = "queued")
         /\ scanner'[r][d] \in {"clear", "done"} \/ (Ready(audit'[r]) => Ready(audit[r]))
         /\ scanner[r][d] = "clear" => audit'[r] = audit[r] /\ scanner'[r][d] = "done"
<1>1. PICK pc \in ScanPc, row \in RowOf(r) : ScannerDoes(r, d, pc, row)
  BY ScannerSteps
<1>2. audit' = [audit EXCEPT ![r] = row] /\ audit \in [Runs -> AuditRow] /\ audit[r] \in RowOf(r)
  BY <1>1 DEF ScannerDoes, ServerInv, ServerTypeOK, Rows
<1>3. audit'[r] = row /\ \A s \in Runs : s # r => audit'[s] = audit[s]
  BY <1>2
<1>4. Ready(row) <=> row.st = "ready"
  BY RowsAreData DEF Ready
<1>5. Ready(audit[r]) <=> audit[r].st = "ready"
  BY <1>2, RowsAreData DEF Ready
<1>6. scanner \in [Runs -> [Deliveries -> ScanPc]]
  BY DEF ServerInv, ServerTypeOK
<1>7. /\ scanner'[r][d] = pc
      /\ \A s \in Runs : s # r => scanner'[s] = scanner[s]
      /\ \A e \in Deliveries : e # d =>
           scanner'[r][e] = scanner[r][e] \/ (scanner[r][e] = "unsent" /\ scanner'[r][e] = "queued")
  <2>1. CASE Goto(r, d, pc)
    BY <1>6, <2>1 DEF Goto
  <2>2. CASE pc = "done" /\ SendAgain(r, d)
    <3>1. PICK e \in Deliveries :
            scanner[r][e] = "unsent" /\ scanner' = [scanner EXCEPT ![r][d] = "done", ![r][e] = "queued"]
      BY <2>2 DEF SendAgain
    <3>2. e # d
      BY <3>1, ScannerSteps DEF WAITING
    <3> QED BY <1>6, <2>2, <3>1, <3>2
  <2> QED BY <1>1, <2>1, <2>2 DEF ScannerDoes, Moves
<1> QED BY <1>1, <1>3, <1>4, <1>5, <1>7 DEF ScannerDoes

LEMMA ScanningIsCalm ==
  ASSUME Inv, Calm, NEW s \in Runs, NEW d \in Deliveries,
         ReceiveScan(s, d) \/ ScanStep(s, d) \/ WorkerLost(s, d),
         ReceiveScan(s, d) => ScanAgain(s),
         UNCHANGED <<cache, calls, strayed>>,
         ~strayed, NEW r \in Runs, r \notin raced, r \notin raced'
  PROVE  CalmNext(r)
<1> DEFINE scan == scanner[s]
           scan2 == scanner'[s]
<1>1. /\ r # s => audit'[r] = audit[r] /\ scanner'[r] = scanner[r]
      /\ \A e \in Deliveries : e # d => scan2[e] = scan[e] \/ (scan[e] = "unsent" /\ scan2[e] = "queued")
      /\ ReceiveScan(s, d) => scan[d] = "queued"
      /\ ~ReceiveScan(s, d) => scan[d] \notin WAITING \cup {"done"}
      /\ scan2[d] \in {"clear", "done"} \/ (Ready(audit'[s]) => Ready(audit[s]))
      /\ scan[d] = "clear" => audit'[s] = audit[s] /\ scan2[d] = "done"
  BY ScannedRow, ScannerSteps DEF Inv
<1>2. CallsOf(r)' = CallsOf(r) /\ cache' = cache
  BY DEF CallsOf
<1>3. CASE r # s
  BY <1>1, <1>2, <1>3, CalmElsewhere
<1>4. CASE r = s
  <2> HIDE DEF scan, scan2
  <2>1. CalmRun(audit[s], cache[s], CallsOf(s), scan)
    BY <1>4, CalmHere DEF scan
  <2>2. scan[d] \notin WAITING \cup {"done"} \/ (\A e \in Deliveries : scan[e] \in WAITING)
    BY <1>1, <1>4 DEF ScanAgain, Delivered, scan, WAITING
  <2>3. OneAtATime(scan) /\ OneAtATime(scan2)
    BY <1>1, <2>1, <2>2, OneMoves DEF CalmRun
  <2>4. CASE scan[d] = "clear"
    <3>1. audit'[s] = audit[s] /\ ~Unscanned(scan2)
      BY <1>1, <2>4 DEF Unscanned
    <3> QED BY <1>2, <1>4, <2>3, <3>1, CalmRowMoves DEF scan2
  <2>5. CASE scan[d] # "clear"
    <3>1. Unscanned(scan)
      BY <1>1, <2>2, <2>3, <2>5 DEF Unscanned, OneAtATime, WAITING
    <3>2. ~Ready(audit[s])
      BY <2>1, <3>1 DEF CalmRun
    <3>3. Unscanned(scan2) => ~Ready(audit'[s])
      BY <1>1, <3>2 DEF Unscanned
    <3> QED BY <1>2, <1>4, <2>3, <3>1, <3>2, <3>3, CalmRowMoves DEF scan, scan2
  <2> QED BY <2>4, <2>5
<1> QED BY <1>3, <1>4

\* A run is presented, and its row refreshed.
LEMMA RefreshingIsCalm ==
  ASSUME Inv, NEW r \in Runs, NEW st \in RowOf(r),
         st = audit[r] \/ (~Ready(audit[r]) /\ st.st # "ready"), NEW job
  PROVE  /\ Refreshed(st, job) \in RowOf(r)
         /\ Refreshed(st, job) = audit[r] \/ ~Ready(audit[r])
         /\ ~Ready(audit[r]) => ~Ready(Refreshed(st, job))
<1>1. audit[r] \in RowOf(r) /\ audit[r] # NoData
  BY RowsAreData DEF Inv, ServerInv, Rows
<1>2. Refreshed(st, job) \in RowOf(r)
  BY OutcomesTyped
<1>3. CASE st.st = "ready"
  <2>1. st = audit[r] /\ Ready(audit[r])
    BY <1>1, <1>3 DEF Ready
  <2>2. Refreshed(st, job) = audit[r]
    BY <1>3, <2>1, RefreshedRows
  <2> QED BY <1>2, <2>1, <2>2
<1>4. CASE st.st # "ready"
  <2>1. ~Ready(audit[r])
    BY <1>4 DEF Ready
  <2> QED BY <1>2, <1>4, <2>1, RefreshedIsNotReady
<1> QED BY <1>3, <1>4

LEMMA FetchIsCalm ==
  ASSUME Inv, Calm, ~strayed, NEW s \in Runs, NEW st \in RowOf(s), Fetch(s, st),
         st = audit[s] \/ (~Ready(audit[s]) /\ st.st # "ready"),
         UNCHANGED <<scanner, cache>>,
         NEW r \in Runs, r \notin raced, r \notin raced'
  PROVE  CalmNext(r)
<1> DEFINE row == Refreshed(st, jobs[s])
           new == [NewCall("get", s, NoChange) EXCEPT !.phase = "answered", !.seen = row,
                                                      !.ok = row.st # "deleted"]
<1>1. audit' = [audit EXCEPT ![s] = row] /\ audit \in [Runs -> AuditRow]
  BY DEF Fetch, Inv, ServerInv, ServerTypeOK
<1>2. calls' = calls \cup {new}
  BY DEF Fetch
<1>3. new.op = "get" /\ new.run = s /\ new.seen = row
  BY DEF NewCall
<1>4. CASE r # s
  <2>1. audit'[r] = audit[r]
    BY <1>1, <1>4
  <2>2. CallsOf(r)' = CallsOf(r)
    BY <1>2, <1>3, <1>4 DEF CallsOf
  <2> QED BY <2>1, <2>2, CalmElsewhere
<1>5. CASE r = s
  <2>1. \A c \in CallsOf(r) : c.op = "cancel"
    BY <1>5 DEF Fetch, Race
  <2>2. /\ CalmRun(audit[r], cache[r], CallsOf(r), scanner[r])
        /\ TypedRun(r, audit[r], cache[r], CallsOf(r))
    BY CalmHere
  <2>3. row = audit[r] \/ ~Ready(audit[r])
    BY <1>5, RefreshingIsCalm
  <2>4. Unscanned(scanner[r]) => ~Ready(row)
    BY <1>5, <2>2, RefreshingIsCalm DEF CalmRun
  <2>5. OneAtATime(scanner[r])
    BY <2>2 DEF CalmRun
  <2> HIDE DEF row, new
  <2>6. CalmRun(row, cache[r], CallsOf(r), scanner[r])
    BY <2>2, <2>3, <2>4, <2>5, RowMoves
  <2>7. CalmRun(row, cache[r], CallsOf(r) \cup {new}, scanner[r])
    BY <1>3, <2>1, <2>6, GetMade
  <2>8. CallsOf(r)' = CallsOf(r) \cup {new}
    BY <1>2, <1>3, <1>5 DEF CallsOf
  <2>9. audit'[r] = row
    BY <1>1, <1>5
  <2> QED BY <2>7, <2>8, <2>9 DEF CalmNext
<1> QED BY <1>4, <1>5

LEMMA QueryIsCalm ==
  ASSUME Inv, Calm, ~strayed, Poll \/ Refetch \/ (\E s \in Runs : SelectRun(s) \/ StartRun(s)),
         NEW r \in Runs, r \notin raced, r \notin raced'
  PROVE  CalmNext(r)
<1>1. \A s \in Runs : audit[s] \in RowOf(s)
  BY DEF Inv, ServerInv, Rows
<1>2. CASE Poll
  <2>1. activeId \in Runs
    BY <1>2 DEF Poll, Inv, PageInv
  <2> QED BY <1>1, <1>2, <2>1, FetchIsCalm DEF Poll
<1>3. CASE Refetch
  <2>1. activeId \in Runs
    BY <1>3, AuditFlowPageAssumption DEF Refetch
  <2> QED BY <1>1, <1>3, <2>1, FetchIsCalm DEF Refetch
<1>4. ASSUME NEW s \in Runs, SelectRun(s) PROVE CalmNext(r)
  <2>1. CASE Fetch(s, audit[s])
    BY <1>1, <1>4, <2>1, FetchIsCalm DEF SelectRun
  <2>2. CASE UNCHANGED <<audit, calls>>
    <3>1. UNCHANGED <<scanner, cache>>
      BY <1>4 DEF SelectRun
    <3>2. CallsOf(r)' = CallsOf(r)
      BY <2>2 DEF CallsOf
    <3> QED BY <2>2, <3>1, <3>2, CalmElsewhere
  <2> QED BY <1>4, <2>1, <2>2 DEF SelectRun
<1>5. ASSUME NEW s \in Runs, StartRun(s) PROVE CalmNext(r)
  <2>1. audit[s].st = "absent" /\ ~Ready(audit[s])
    BY <1>5 DEF StartRun, Ready
  <2>2. CASE Fetch(s, [audit[s] EXCEPT !.st = "pending"]) /\ UNCHANGED scanner
    <3> DEFINE st == [audit[s] EXCEPT !.st = "pending"]
    <3>1. st \in RowOf(s)
      BY <1>1, RowTyped DEF AuditFlowStatus
    <3>2. st.st # "ready" /\ Fetch(s, st)
      BY <1>1, <2>2 DEF RowOf, AuditRow
    <3>3. UNCHANGED <<scanner, cache>>
      BY <1>5, <2>2 DEF StartRun
    <3> HIDE DEF st
    <3> QED BY <2>1, <3>1, <3>2, <3>3, FetchIsCalm
  <2>3. CASE /\ audit' = [audit EXCEPT ![s].st = "failed"]
             /\ scanner' = [scanner EXCEPT ![s] = [d \in Deliveries |-> "done"]]
             /\ UNCHANGED calls
    <3>1. cache'[r] = cache[r] /\ CallsOf(r)' = CallsOf(r)
      BY <1>5, <2>3 DEF StartRun, CallsOf
    <3>2. audit \in [Runs -> AuditRow] /\ scanner \in [Runs -> [Deliveries -> ScanPc]]
      BY DEF Inv, ServerInv, ServerTypeOK
    <3>3. CASE r = s
      <4>1. scanner'[r] = [d \in Deliveries |-> "done"]
        BY <2>3, <3>2, <3>3
      <4>2. OneAtATime(scanner'[r]) /\ ~Unscanned(scanner'[r])
        BY <4>1 DEF OneAtATime, Unscanned
      <4> QED BY <2>1, <3>1, <3>3, <4>2, CalmRowMoves
    <3>4. CASE r # s
      <4>1. audit'[r] = audit[r] /\ scanner'[r] = scanner[r]
        BY <2>3, <3>2, <3>4
      <4> QED BY <3>1, <4>1, CalmElsewhere
    <3> QED BY <3>3, <3>4
  <2> QED BY <1>5, <2>2, <2>3 DEF StartRun
<1> QED BY <1>2, <1>3, <1>4, <1>5

LEMMA LeavingIsCalm ==
  ASSUME Inv, Calm, ~strayed, LeaveRun \/ (\E s \in Runs : DeleteRun(s)),
         NEW r \in Runs, r \notin raced, r \notin raced'
  PROVE  CalmNext(r)
<1>1. CASE LeaveRun
  <2>1. CallsOf(r)' = CallsOf(r)
    BY <1>1 DEF LeaveRun, CallsOf
  <2> QED BY <1>1, <2>1, CalmElsewhere DEF LeaveRun, serverVars
<1>2. ASSUME NEW s \in Runs, DeleteRun(s) PROVE CalmNext(r)
  <2>1. /\ audit' = [audit EXCEPT ![s] = [NewRun(s) EXCEPT !.st = "deleted"]]
        /\ cache' = [cache EXCEPT ![s] = NoData]
        /\ calls' = calls \ Fetching(s)
        /\ scanner' = scanner
    BY <1>2 DEF DeleteRun, Deleted
  <2>2. audit \in [Runs -> AuditRow] /\ cache \in [Runs -> AuditRow \cup {NoData}]
    BY DEF Inv, ServerInv, ServerTypeOK, PageInv
  <2>3. CASE r = s
    <3>1. CallsOf(r)' = {}
      BY <1>2, <2>1, <2>3 DEF DeleteRun, CallsOf
    <3>2. cache'[r] = NoData /\ ~Ready(NoData)
      BY <2>1, <2>2, <2>3 DEF Ready
    <3>3. audit'[r].st = "deleted" /\ ~Ready(audit'[r])
      BY <2>1, <2>2, <2>3 DEF Ready, NewRun
    <3>4. OneAtATime(scanner'[r])
      BY <2>1, CalmHere DEF CalmRun
    <3> HIDE DEF NoData
    <3> QED BY <3>1, <3>2, <3>3, <3>4 DEF CalmNext, CalmRun
  <2>4. CASE r # s
    <3>1. CallsOf(r)' = CallsOf(r)
      BY <2>1, <2>4 DEF CallsOf, Fetching
    <3> QED BY <2>1, <2>2, <2>4, <3>1, CalmElsewhere
  <2> QED BY <2>3, <2>4
<1> QED BY <1>1, <1>2

LEMMA EnvironmentIsCalm ==
  ASSUME Inv, Calm, ~strayed, NEW s \in Runs, Environment(s),
         NEW r \in Runs, r \notin raced, r \notin raced'
  PROVE  CalmNext(r)
<1>1. UNCHANGED <<cache, calls, strayed>> /\ CallsOf(r)' = CallsOf(r)
  BY DEF Environment, pageVars, CallsOf, DeletedElsewhere, Deleted
<1>2. ASSUME NEW d \in Deliveries, WorkerLost(s, d) PROVE CalmNext(r)
  <2>1. ~ReceiveScan(s, d)
    BY <1>2, NotReceived
  <2> QED BY <1>1, <1>2, <2>1, ScanningIsCalm
<1>3. CASE JobEnds(s)
  BY <1>1, <1>3, CalmElsewhere DEF JobEnds
<1>4. CASE ListRefreshes(s)
  <2>1. audit' = [audit EXCEPT ![s] = Refreshed(audit[s], jobs[s])] /\ scanner' = scanner
    BY <1>4 DEF ListRefreshes
  <2>2. audit \in [Runs -> AuditRow] /\ audit[s] \in RowOf(s)
    BY DEF Inv, ServerInv, ServerTypeOK, Rows
  <2>3. CASE r = s
    <3>1. audit'[r] = Refreshed(audit[r], jobs[r])
      BY <2>1, <2>2, <2>3
    <3>2. /\ audit'[r] = audit[r] \/ ~Ready(audit[r])
          /\ ~Ready(audit[r]) => ~Ready(audit'[r])
      BY <2>2, <2>3, <3>1, RefreshingIsCalm
    <3>3. OneAtATime(scanner[r]) /\ (Unscanned(scanner[r]) => ~Ready(audit[r]))
      BY CalmHere DEF CalmRun
    <3> QED BY <1>1, <2>1, <3>2, <3>3, CalmRowMoves
  <2>4. CASE r # s
    BY <1>1, <2>1, <2>2, <2>4, CalmElsewhere
  <2> QED BY <2>3, <2>4
<1>5. ASSUME NEW d \in Deliveries, Redeliver(s, d) PROVE CalmNext(r)
  <2>1. /\ UNCHANGED audit /\ scanner[s][d] = "unsent"
        /\ scanner' = [scanner EXCEPT ![s][d] = "queued"] /\ scanner \in [Runs -> [Deliveries -> ScanPc]]
    BY <1>5 DEF Redeliver, Goto, Inv, ServerInv, ServerTypeOK
  <2>2. \A e \in Deliveries :
          scanner'[r][e] = scanner[r][e] \/ (scanner[r][e] = "unsent" /\ scanner'[r][e] = "queued")
    BY <2>1
  <2>3. OneAtATime(scanner[r]) /\ (Unscanned(scanner[r]) => ~Ready(audit[r]))
    BY CalmHere DEF CalmRun
  <2>4. OneAtATime(scanner'[r]) /\ (Unscanned(scanner'[r]) => Unscanned(scanner[r]))
    BY <2>2, <2>3 DEF OneAtATime, Unscanned, WAITING
  <2> QED BY <1>1, <2>1, <2>3, <2>4, CalmRowMoves
<1>6. CASE DeletedElsewhere(s)
  <2>1. r # s /\ scanner' = scanner
    BY <1>6 DEF DeletedElsewhere, Deleted
  <2>2. audit'[r] = audit[r]
    BY <1>6, <2>1 DEF DeletedElsewhere, Deleted, Inv, ServerInv, ServerTypeOK
  <2> QED BY <1>1, <2>1, <2>2, CalmElsewhere
<1> QED BY <1>2, <1>3, <1>4, <1>5, <1>6 DEF Environment

\* The page asks for a change; the calls that were there may have been seen to first.
LEMMA AskIsCalm ==
  ASSUME Inv, Calm, ~strayed, activeId \in Runs,
         NEW op \in Mutations, NEW change, Ask(op, NewCall(op, activeId, change), calls),
         UNCHANGED cache,
         op # "patch",
         op # "cancel" => cache[activeId] # NoData /\ HostEditable(cache[activeId]),
         op = "execute" => CanLaunch(cache[activeId]),
         NEW r \in Runs, r \notin raced, r \notin raced'
  PROVE  CalmNext(r)
<1> DEFINE new == NewCall(op, activeId, change)
<1>1. /\ new.op = op /\ new.run = activeId /\ new.seen = NoData /\ new.phase = "sent"
      /\ new.heard /\ new.ok /\ (op = "execute" => new.shown = cache[activeId])
  BY DEF NewCall
<1>2. calls' = calls \cup {new} /\ UNCHANGED <<audit, scanner>>
  BY DEF Ask, serverVars
<1>3. Race(op, activeId, CallsOf(activeId))
  BY <1>1 DEF Ask, CallsOf
<1> HIDE DEF new
<1>4. CASE r # activeId
  <2>1. CallsOf(r)' = CallsOf(r)
    BY <1>1, <1>2, <1>4 DEF CallsOf
  <2> QED BY <1>2, <2>1, CalmElsewhere
<1>5. CASE r = activeId
  <2>1. CalmRun(audit[r], cache[r], CallsOf(r), scanner[r])
    BY CalmHere
  <2>2. CallsOf(r)' = CallsOf(r) \cup {new}
    BY <1>1, <1>2, <1>5 DEF CallsOf
  <2>3. CASE op = "cancel"
    <3>1. \A c \in CallsOf(r) : c.op = "get"
      BY <1>3, <1>5, <2>3 DEF Race
    <3>2. CalmRun(audit[r], cache[r], CallsOf(r) \cup {new}, scanner[r])
      BY <1>1, <2>1, <2>3, <3>1, CancelMade
    <3> QED BY <1>2, <2>2, <3>2 DEF CalmNext
  <2>4. CASE op # "cancel"
    <3>1. op \in Edits /\ op \in {"cred", "execute"}
      BY <2>4 DEF Mutations, Edits
    <3>2. CallsOf(r) = {}
      BY <1>3, <1>5, <3>1 DEF Race
    <3>3. cache[r] # NoData /\ HostEditable(cache[r])
      BY <1>5, <2>4
    <3>4. new.op = "execute" => new.shown = cache[r] /\ CanLaunch(cache[r])
      BY <1>1, <1>5
    <3>5. CalmRun(audit[r], cache[r], {new}, scanner[r])
      BY <1>1, <2>1, <3>1, <3>2, <3>3, <3>4, EditMade
    <3> QED BY <1>2, <2>2, <3>2, <3>5 DEF CalmNext
  <2> QED BY <2>3, <2>4
<1> QED BY <1>4, <1>5

LEMMA PatchIsCalm ==
  ASSUME Inv, Calm, ~strayed, NEW change \in Changes, PatchHosts(change),
         NEW r \in Runs, r \notin raced, r \notin raced'
  PROVE  CalmNext(r)
<1> DEFINE new == NewCall("patch", activeId, change)
           entry == cache[activeId]
           rest == {Late(c, activeId) : c \in calls \ Fetching(activeId)}
<1>1. activeId \in Runs /\ entry # NoData /\ HostEditable(entry)
  BY DEF PatchHosts, Inv, PageInv
<1>2. /\ new.op = "patch" /\ new.run = activeId /\ new.seen = NoData /\ new.phase = "sent"
      /\ new.heard /\ new.ok /\ new.shown = entry /\ new.change = change
  BY DEF NewCall
<1>3. rest = {IF c.op = "patch" /\ c.latest THEN [c EXCEPT !.latest = FALSE, !.under = activeId] ELSE c
                : c \in calls \ Fetching(activeId)}
  BY DEF Late
<1>4. Ask("patch", new, rest) /\ cache' = [cache EXCEPT ![activeId] = HostPatch(entry, change)]
  BY <1>3 DEF PatchHosts
<1>5. calls' = rest \cup {new} /\ UNCHANGED <<audit, scanner>>
  BY <1>4 DEF Ask, serverVars
<1>6. ASSUME NEW c \in calls PROVE c \in Call /\ Late(c, activeId).run = c.run
  <2>1. c \in Call
    BY DEF Inv, PageInv, SoundCall
  <2> QED BY <2>1 DEF Call, Late
<1>7. cache \in [Runs -> AuditRow \cup {NoData}]
  BY DEF Inv, PageInv
<1>8. CASE r # activeId
  <2>1. CallsOf(r)' = {Late(c, activeId) : c \in CallsOf(r)}
    <3>1. CallsOf(r)' = {e \in rest : e.run = r}
      BY <1>2, <1>5, <1>8 DEF CallsOf
    <3>2. \A e : e \in rest /\ e.run = r => e \in {Late(c, activeId) : c \in CallsOf(r)}
      BY <1>6 DEF CallsOf
    <3>3. \A c \in CallsOf(r) : Late(c, activeId) \in rest /\ Late(c, activeId).run = r
      BY <1>6, <1>8 DEF CallsOf, Fetching
    <3> HIDE DEF rest
    <3> QED BY <3>1, <3>2, <3>3
  <2>2. CalmRun(audit[r], cache[r], CallsOf(r), scanner[r]) /\ \A c \in CallsOf(r) : c \in Call
    BY <1>6, CalmHere DEF CallsOf
  <2>3. CalmRun(audit[r], cache[r], {Late(c, activeId) : c \in CallsOf(r)}, scanner[r])
    BY <2>2, CallsLate
  <2>4. cache'[r] = cache[r]
    BY <1>4, <1>7, <1>8
  <2> QED BY <1>5, <2>1, <2>3, <2>4 DEF CalmNext
<1>9. CASE r = activeId
  <2>1. CalmRun(audit[r], cache[r], CallsOf(r), scanner[r])
    BY CalmHere
  <2>2. Race("patch", r, {o \in rest : o.run = r})
    BY <1>2, <1>4, <1>9 DEF Ask
  <2>3. {o \in rest : o.run = r} = {}
    BY <1>9, <2>2 DEF Race
  <2>4. ASSUME NEW c \in CallsOf(r) PROVE c.op \notin Edits
    <3>1. c \in calls /\ c.run = r
      BY DEF CallsOf
    <3>2. c \in Fetching(activeId)
      BY <1>6, <2>3, <3>1
    <3> QED BY <3>2 DEF Fetching, Edits
  <2>5. CallsOf(r)' = {new}
    BY <1>2, <1>5, <1>9, <2>3 DEF CallsOf
  <2>6. cache'[r] = HostPatch(entry, change)
    BY <1>1, <1>4, <1>7, <1>9
  <2> HIDE DEF new, rest
  <2>7. CalmRun(audit[r], cache'[r], {new}, scanner[r])
    <3>1. new.op \in Edits
      BY <1>2 DEF Edits
    <3>2. IF new.op = "patch" THEN new.shown = cache[r] /\ cache'[r] = HostPatch(cache[r], new.change)
                              ELSE cache'[r] = cache[r]
      BY <1>2, <1>9, <2>6
    <3>3. cache[r] # NoData /\ HostEditable(cache[r])
      BY <1>1, <1>9
    <3> QED BY <1>2, <2>1, <2>4, <3>1, <3>2, <3>3, EditMade
  <2> QED BY <1>5, <2>5, <2>7 DEF CalmNext
<1> QED BY <1>8, <1>9

LEMMA ChangesAreCalm ==
  ASSUME Inv, Calm, ~strayed, AddHostCred \/ Execute \/ Cancel \/ (\E change \in Changes : PatchHosts(change)),
         NEW r \in Runs, r \notin raced, r \notin raced'
  PROVE  CalmNext(r)
<1>1. activeId \in Runs
  BY DEF AddHostCred, Execute, Cancel, PatchHosts, Inv, PageInv
<1>2. CASE AddHostCred
  <2> DEFINE change == [field |-> "credential", value |-> TRUE]
  <2>1. Ask("cred", NewCall("cred", activeId, change), calls) /\ UNCHANGED cache
    BY <1>2 DEF AddHostCred
  <2>2. cache[activeId] # NoData /\ HostEditable(cache[activeId])
    BY <1>2 DEF AddHostCred
  <2>3. "cred" \in Mutations
    BY DEF Mutations
  <2> HIDE DEF change
  <2> QED BY <1>1, <2>1, <2>2, <2>3, AskIsCalm
<1>3. CASE Execute
  <2>1. Ask("execute", NewCall("execute", activeId, NoChange), calls) /\ UNCHANGED cache
    BY <1>3 DEF Execute
  <2>2. cache[activeId] # NoData /\ HostEditable(cache[activeId]) /\ CanLaunch(cache[activeId])
    BY <1>3 DEF Execute
  <2>3. "execute" \in Mutations
    BY DEF Mutations
  <2> QED BY <1>1, <2>1, <2>2, <2>3, AskIsCalm
<1>4. CASE Cancel
  <2>1. Ask("cancel", NewCall("cancel", activeId, NoChange), calls) /\ UNCHANGED cache
    BY <1>4 DEF Cancel
  <2>2. "cancel" \in Mutations
    BY DEF Mutations
  <2> QED BY <1>1, <2>1, <2>2, AskIsCalm
<1> QED BY <1>2, <1>3, <1>4, PatchIsCalm

\* A call moves on, and is about one run only.
LEMMA BecomesElsewhere ==
  ASSUME Inv, Calm, ~strayed, NEW c \in calls, NEW d, d.run = c.run, Becomes(c, d),
         \A s \in Runs : s # c.run => audit'[s] = audit[s],
         UNCHANGED <<cache, scanner>>, NEW r \in Runs, r \notin raced, r # c.run
  PROVE  CalmNext(r)
<1>1. CallsOf(r)' = CallsOf(r)
  BY DEF Becomes, CallsOf
<1> QED BY <1>1, CalmElsewhere

\* What is known of a call of a run that is calm.
LEMMA CalmCall ==
  ASSUME Inv, Calm, ~strayed, NEW c \in calls, c.run \notin raced
  PROVE  /\ SoundCall(c) /\ c \in Call /\ c.run \in Runs /\ c \in CallsOf(c.run)
         /\ c.op \in Edits \cup {"cancel", "get"} /\ ~(c.op \in Edits /\ c.op = "cancel")
         /\ CalmRun(audit[c.run], cache[c.run], CallsOf(c.run), scanner[c.run])
         /\ TypedRun(c.run, audit[c.run], cache[c.run], CallsOf(c.run))
         /\ Ready(c.seen) => c.seen = audit[c.run]
         /\ c.op \in Edits =>
              /\ InOrder(c, audit[c.run], cache[c.run])
              /\ Base(c, cache[c.run]) \in RowOf(c.run)
              /\ Ready(Base(c, cache[c.run])) /\ HostEditable(Base(c, cache[c.run]))
<1>1. SoundCall(c) /\ c \in Call /\ c.run \in Runs
  BY DEF Inv, PageInv, SoundCall, Call
<1>2. c \in CallsOf(c.run)
  BY DEF CallsOf
<1>3. /\ CalmRun(audit[c.run], cache[c.run], CallsOf(c.run), scanner[c.run])
      /\ TypedRun(c.run, audit[c.run], cache[c.run], CallsOf(c.run))
  BY <1>1, CalmHere
<1>4. Ready(c.seen) => c.seen = audit[c.run]
  BY <1>2, <1>3 DEF CalmRun
<1>5. c.op \in Edits => InOrder(c, audit[c.run], cache[c.run])
  BY <1>2, <1>3 DEF CalmRun
<1>6. c.op \in Edits =>
        /\ Base(c, cache[c.run]) \in RowOf(c.run)
        /\ Ready(Base(c, cache[c.run])) /\ HostEditable(Base(c, cache[c.run]))
  BY <1>1, <1>2, <1>3, <1>5, EditsOfReadyRows DEF InOrder
<1>7. c.op \in Edits \cup {"cancel", "get"} /\ ~(c.op \in Edits /\ c.op = "cancel")
  BY <1>1 DEF Call, Mutations, Edits
<1> QED BY <1>1, <1>2, <1>3, <1>4, <1>5, <1>6, <1>7

\* An edit that is loaded is one of the server's row, and its handler accepts it.
LEMMA EditIsAccepted ==
  ASSUME Inv, Calm, ~strayed, NEW c \in calls, c.run \notin raced, c.op \in Edits, c.phase = "loaded"
  PROVE  /\ c.seen = audit[c.run] /\ c.seen = Base(c, cache[c.run])
         /\ Ready(c.seen) /\ c.seen \in RowOf(c.run)
         /\ c.op = "execute" => c.shown = c.seen /\ CanLaunch(c.seen)
         /\ Accepts(c)
<1>1. /\ InOrder(c, audit[c.run], cache[c.run]) /\ Base(c, cache[c.run]) \in RowOf(c.run)
      /\ Ready(Base(c, cache[c.run])) /\ HostEditable(Base(c, cache[c.run]))
  BY CalmCall
<1>2. c.seen = audit[c.run] /\ c.seen = Base(c, cache[c.run])
  BY <1>1 DEF InOrder
<1>3. Ready(c.seen) /\ c.seen \in RowOf(c.run) /\ HostEditable(c.seen)
  BY <1>1, <1>2
<1>4. c.op = "execute" => c.shown = c.seen /\ CanLaunch(c.seen)
  BY <1>1, <1>2 DEF InOrder, Base
<1>5. Accepts(c)
  BY <1>2, <1>3 DEF Accepts, Exists, Editable, EDITABLE_STATUSES, Executable, HostEditable
<1> QED BY <1>2, <1>3, <1>4, <1>5

LEMMA LoadIsCalm ==
  ASSUME Inv, Calm, ~strayed, NEW c \in calls, LoadRun(c) \/ Refuse(c),
         NEW r \in Runs, r \notin raced, r \notin raced'
  PROVE  CalmNext(r)
<1> DEFINE d == IF LoadRun(c) THEN [c EXCEPT !.phase = "loaded", !.seen = audit[c.run]]
                ELSE [c EXCEPT !.phase = "answered", !.ok = FALSE]
<1>1. Becomes(c, d) /\ UNCHANGED <<audit, cache, scanner>>
  BY DEF LoadRun, Refuse, serverVars
<1>2. c \in Call /\ c.run \in Runs
  BY DEF Inv, PageInv, SoundCall, Call
<1>3. /\ d.run = c.run /\ d.op = c.op /\ d.shown = c.shown /\ d.change = c.change /\ d.heard = c.heard
      /\ LoadRun(c) => d.phase = "loaded" /\ d.seen = audit[c.run] /\ d.ok = c.ok
      /\ ~LoadRun(c) => d.seen = c.seen
  BY <1>2 DEF Call
<1> HIDE DEF d
<1>4. CASE r # c.run
  BY <1>1, <1>3, <1>4, BecomesElsewhere
<1>5. CASE r = c.run
  <2>1. CallsOf(r)' = (CallsOf(r) \ {c}) \cup {d}
    BY <1>1, <1>3, <1>5 DEF Becomes, CallsOf
  <2>2. /\ CalmRun(audit[r], cache[r], CallsOf(r), scanner[r]) /\ c \in CallsOf(r)
        /\ Ready(c.seen) => c.seen = audit[r]
    BY <1>5, CalmCall
  <2>3. Ready(d.seen) => d.seen = audit[r]
    BY <1>3, <1>5, <2>2
  <2>4. CASE c.op = "cancel"
    <3>1. CalmRun(audit[r], cache[r], (CallsOf(r) \ {c}) \cup {d}, scanner[r])
      BY <1>3, <2>2, <2>3, <2>4, CancelMoves
    <3> QED BY <1>1, <2>1, <3>1 DEF CalmNext
  <2>5. CASE c.op \in Edits
    <3>1. LoadRun(c) /\ c.phase = "sent"
      <4>1. ~Refuse(c)
        BY <1>5, <2>5, EditIsAccepted DEF Refuse
      <4> QED BY <4>1 DEF LoadRun
    <3>2. InOrder(c, audit[r], cache[r])
      BY <1>5, <2>5, CalmCall
    <3>3. Base(d, cache[r]) = Base(c, cache[r])
      BY <1>3 DEF Base
    <3>4. InOrder(d, audit[r], cache[r])
      BY <1>3, <1>5, <3>1, <3>2, <3>3 DEF InOrder
    <3>5. CalmRun(audit[r], cache[r], (CallsOf(r) \ {c}) \cup {d}, scanner[r])
      BY <1>3, <2>2, <2>3, <2>5, <3>4, EditMoves
    <3> QED BY <1>1, <2>1, <3>5 DEF CalmNext
  <2>6. c.op # "get"
    BY DEF LoadRun, Refuse, Inv, PageInv, SoundCall
  <2> QED BY <1>5, <2>4, <2>5, <2>6, CalmCall
<1> QED BY <1>4, <1>5

\* What a session writes and answers, in a run that is calm.
LEMMA ServedRow ==
  ASSUME Inv, Calm, ~strayed, NEW c \in calls, Serve(c), c.run \notin raced, c.run \notin raced'
  PROVE  \E out \in RowOf(c.run) :
           /\ audit' = [audit EXCEPT ![c.run] = out]
           /\ \/ Becomes(c, [c EXCEPT !.phase = "answered", !.seen = out])
              \/ c.op = "cancel" /\ out = audit[c.run]
                   /\ Becomes(c, [c EXCEPT !.phase = "answered"])
           /\ c.op \in {"patch", "cred"} => out = PatchHost(c.seen, c.change)
           /\ c.op = "execute" => \E fails \in BOOLEAN : out = Executed(c.seen, fails)
           /\ c.op = "cancel" => out = audit[c.run] \/ (~Ready(audit[c.run]) /\ ~Ready(out))
<1> DEFINE r == c.run
<1>1. /\ SoundCall(c) /\ c \in Call /\ r \in Runs /\ c.phase = "loaded" /\ c.seen \in RowOf(r)
      /\ audit[r] \in RowOf(r) /\ audit \in [Runs -> AuditRow]
  BY DEF Inv, ServerInv, ServerTypeOK, Rows, PageInv, SoundCall, Call, Serve
<1>2. PICK fails \in BOOLEAN :
        LET did == Outcome(c, fails)
            launched == c.op = "execute" /\ CanLaunch(c.seen) /\ ~fails
            out == Refreshed(did, IF launched THEN "pending" ELSE jobs[r])
        IN  /\ audit' = [audit EXCEPT ![r] = Written(audit[r], c.seen, out)]
            /\ Becomes(c, [c EXCEPT !.phase = "answered", !.seen = out])
  BY DEF Serve
<1> DEFINE did == Outcome(c, fails)
           launched == c.op = "execute" /\ CanLaunch(c.seen) /\ ~fails
           job == IF launched THEN "pending" ELSE jobs[r]
           out == Refreshed(did, job)
           d == [c EXCEPT !.phase = "answered", !.seen = out]
<1>3. did \in RowOf(r) /\ out \in RowOf(r)
  <2>1. did \in RowOf(r)
    BY <1>1, OutcomeTyped
  <2> HIDE DEF did, job
  <2> QED BY <1>1, <2>1, OutcomesTyped
<1>4. audit' = [audit EXCEPT ![r] = Written(audit[r], c.seen, out)] /\ Becomes(c, d)
  BY <1>2
<1>5. CASE c.op \in {"patch", "cred"}
  <2>1. c.op \in Edits /\ c.change \in Changes
    BY <1>1, <1>5 DEF SoundCall, Edits
  <2>2. c.seen = audit[r] /\ c.seen.st = "ready"
    BY <1>1, <2>1, EditIsAccepted DEF Ready
  <2>3. did = PatchHost(c.seen, c.change)
    BY <1>5 DEF Outcome
  <2>4. did.st = "ready"
    BY <1>1, <2>1, <2>2, <2>3, StatusKept
  <2> HIDE DEF did, job
  <2>5. out = did
    BY <2>4, RefreshedRows
  <2> HIDE DEF out
  <2>6. Written(audit[r], c.seen, out) = out
    BY <1>1, <1>3, <2>2, WrittenOver
  <2> QED BY <1>3, <1>4, <1>5, <2>3, <2>5, <2>6 DEF out
<1>6. CASE c.op = "execute"
  <2>1. c.seen = audit[r] /\ CanLaunch(c.seen)
    BY <1>1, <1>6, EditIsAccepted DEF Edits
  <2>2. did = Executed(c.seen, fails)
    BY <1>6 DEF Outcome
  <2>3. out = did
    <3>1. ~c.seen.job
      BY <2>1 DEF CanLaunch
    <3>2. CASE fails
      <4>1. did.st = "completed"
        BY <1>1, <2>2, <3>1, <3>2 DEF Executed, RowOf, AuditRow
      <4> HIDE DEF did, job
      <4> QED BY <4>1, RefreshedRows
    <3>3. CASE ~fails
      <4>1. did.job
        BY <1>1, <2>1, <2>2, <3>3 DEF Executed, RowOf, AuditRow
      <4>2. job = "pending"
        BY <1>6, <2>1, <3>3
      <4> HIDE DEF did, job
      <4> QED BY <4>1, <4>2, RefreshedRows
    <3> QED BY <3>2, <3>3
  <2> HIDE DEF did, out
  <2>4. Written(audit[r], c.seen, out) = out
    BY <1>1, <1>3, <2>1, WrittenOver
  <2> QED BY <1>3, <1>4, <1>6, <2>2, <2>3, <2>4 DEF out, did
<1>7. CASE c.op = "cancel" /\ c.seen.st \in ACTIVE
  <2>1. c.seen = audit[r] /\ ~Ready(audit[r])
    BY <1>7 DEF Serve, Ready, ACTIVE
  <2>2. did = [c.seen EXCEPT !.st = "cancelled"]
    BY <1>7 DEF Outcome
  <2>3. did.st = "cancelled"
    BY <1>1, <2>2 DEF RowOf, AuditRow
  <2> HIDE DEF did, job
  <2>4. out = did
    BY <2>3, RefreshedRows
  <2>5. ~Ready(out)
    BY <2>3, <2>4 DEF Ready
  <2> HIDE DEF out
  <2>6. Written(audit[r], c.seen, out) = out
    BY <1>1, <1>3, <2>1, WrittenOver
  <2> QED BY <1>3, <1>4, <1>7, <2>1, <2>5, <2>6
<1>8. CASE c.op = "cancel" /\ c.seen.st \notin ACTIVE
  <2>1. did = c.seen
    BY <1>8 DEF Outcome
  <2>2. did.st # "running"
    BY <1>8, <2>1 DEF ACTIVE
  <2>3. out = c.seen
    <3> HIDE DEF did, job
    <3> QED BY <2>1, <2>2, RefreshedRows
  <2>4. Written(audit[r], c.seen, c.seen) = audit[r]
    BY <1>1, WrittenOver
  <2>5. d = [c EXCEPT !.phase = "answered"]
    <3>1. DOMAIN c = {"op", "run", "change", "phase", "ok", "heard", "shown", "seen", "latest", "under"}
      BY <1>1 DEF Call
    <3>2. d = [c EXCEPT !.phase = "answered", !.seen = c.seen]
      BY <2>3
    <3> QED BY <1>1, <3>2 DEF Call
  <2>6. audit' = [audit EXCEPT ![r] = audit[r]]
    BY <1>4, <2>3, <2>4
  <2> QED BY <1>1, <1>4, <1>8, <2>5, <2>6
<1>9. c.op # "get"
  BY <1>1 DEF SoundCall
<1> QED BY <1>1, <1>5, <1>6, <1>7, <1>8, <1>9 DEF Call, Mutations

LEMMA ServeIsCalm ==
  ASSUME Inv, Calm, ~strayed, NEW c \in calls, Serve(c),
         NEW r \in Runs, r \notin raced, r \notin raced'
  PROVE  CalmNext(r)
<1>1. UNCHANGED <<cache, scanner>> /\ c \in Call /\ c.run \in Runs /\ c.phase = "loaded"
  BY DEF Serve, Inv, PageInv, SoundCall, Call
<1>2. audit \in [Runs -> AuditRow]
  BY DEF Inv, ServerInv, ServerTypeOK
<1>3. CASE r # c.run
  <2>1. PICK out, answer : /\ audit' = [audit EXCEPT ![c.run] = out]
                           /\ Becomes(c, [c EXCEPT !.phase = "answered", !.seen = answer])
    BY DEF Serve
  <2> DEFINE d == [c EXCEPT !.phase = "answered", !.seen = answer]
  <2>2. d.run = c.run /\ Becomes(c, d)
    BY <1>1, <2>1 DEF Call
  <2>3. \A s \in Runs : s # c.run => audit'[s] = audit[s]
    BY <1>2, <2>1
  <2> HIDE DEF d
  <2> QED BY <1>1, <1>3, <2>2, <2>3, BecomesElsewhere
<1>4. CASE r = c.run
  <2>1. PICK out \in RowOf(r) :
          /\ audit' = [audit EXCEPT ![r] = out]
          /\ \/ Becomes(c, [c EXCEPT !.phase = "answered", !.seen = out])
             \/ c.op = "cancel" /\ out = audit[r] /\ Becomes(c, [c EXCEPT !.phase = "answered"])
          /\ c.op \in {"patch", "cred"} => out = PatchHost(c.seen, c.change)
          /\ c.op = "execute" => \E fails \in BOOLEAN : out = Executed(c.seen, fails)
          /\ c.op = "cancel" => out = audit[r] \/ (~Ready(audit[r]) /\ ~Ready(out))
    BY <1>4, ServedRow
  <2>2. /\ CalmRun(audit[r], cache[r], CallsOf(r), scanner[r]) /\ c \in CallsOf(r)
        /\ TypedRun(r, audit[r], cache[r], CallsOf(r))
        /\ Ready(c.seen) => c.seen = audit[r]
    BY <1>4, CalmCall
  <2>3. PICK d : /\ Becomes(c, d) /\ d.run = c.run /\ d.op = c.op /\ d.shown = c.shown
                 /\ d.change = c.change /\ d.heard = c.heard /\ d.ok = c.ok /\ d.phase = "answered"
                 /\ d.seen = out \/ (c.op = "cancel" /\ out = audit[r] /\ d.seen = c.seen)
    <3>1. CASE Becomes(c, [c EXCEPT !.phase = "answered", !.seen = out])
      <4> DEFINE e == [c EXCEPT !.phase = "answered", !.seen = out]
      <4>1. /\ e.run = c.run /\ e.op = c.op /\ e.shown = c.shown /\ e.change = c.change
            /\ e.heard = c.heard /\ e.ok = c.ok /\ e.phase = "answered" /\ e.seen = out
        BY <1>1 DEF Call
      <4>2. Becomes(c, e)
        BY <3>1
      <4> HIDE DEF e
      <4> QED BY <4>1, <4>2
    <3>2. CASE c.op = "cancel" /\ out = audit[r] /\ Becomes(c, [c EXCEPT !.phase = "answered"])
      <4> DEFINE e == [c EXCEPT !.phase = "answered"]
      <4>1. /\ e.run = c.run /\ e.op = c.op /\ e.shown = c.shown /\ e.change = c.change
            /\ e.heard = c.heard /\ e.ok = c.ok /\ e.phase = "answered" /\ e.seen = c.seen
        BY <1>1 DEF Call
      <4>2. Becomes(c, e)
        BY <3>2
      <4> HIDE DEF e
      <4> QED BY <3>2, <4>1, <4>2
    <3> QED BY <2>1, <3>1, <3>2
  <2>4. CallsOf(r)' = (CallsOf(r) \ {c}) \cup {d}
    BY <1>4, <2>3 DEF Becomes, CallsOf
  <2>5. audit'[r] = out
    BY <1>2, <2>1
  <2>6. CASE c.op = "cancel"
    <3>1. OneAtATime(scanner[r]) /\ (Unscanned(scanner[r]) => ~Ready(out))
      BY <2>1, <2>2, <2>6 DEF CalmRun
    <3>2. CalmRun(out, cache[r], CallsOf(r), scanner[r])
      BY <2>1, <2>2, <2>6, <3>1, RowMoves
    <3>3. Ready(d.seen) => d.seen = out
      BY <2>2, <2>3
    <3>4. CalmRun(out, cache[r], (CallsOf(r) \ {c}) \cup {d}, scanner[r])
      BY <2>2, <2>3, <2>6, <3>2, <3>3, CancelMoves
    <3> QED BY <1>1, <2>4, <2>5, <3>4 DEF CalmNext
  <2>7. CASE c.op \in Edits
    <3>1. d.seen = out
      BY <2>3, <2>7 DEF Edits
    <3>2. InOrder(c, audit[r], cache[r]) /\ Base(d, cache[r]) = Base(c, cache[r])
      BY <1>4, <2>3, <2>7, CalmCall DEF Base
    <3>3. c.seen = Base(c, cache[r]) /\ c.seen \in RowOf(r) /\ ~c.seen.job
      BY <1>1, <1>4, <2>7, <3>2, EditIsAccepted DEF InOrder, HostEditable
    <3>4. c.op = "execute" => ~Ready(out)
      BY <2>1, <3>3 DEF Executed, Ready, RowOf, AuditRow
    <3>5. c.op # "execute" => out = PatchHost(Base(d, cache[r]), d.change)
      BY <2>1, <2>3, <2>7, <3>2, <3>3 DEF Edits
    <3>6. InOrder(d, out, cache[r])
      BY <2>3, <3>1, <3>2, <3>4, <3>5 DEF InOrder
    <3>7. CalmRun(out, cache[r], (CallsOf(r) \ {c}) \cup {d}, scanner[r])
      BY <2>2, <2>3, <2>7, <3>1, <3>6, EditMoves
    <3> QED BY <1>1, <2>4, <2>5, <3>7 DEF CalmNext
  <2>8. c.op # "get"
    BY <1>1 DEF Inv, PageInv, SoundCall
  <2> QED BY <1>4, <2>6, <2>7, <2>8, CalmCall
<1> QED BY <1>3, <1>4

\* An edit is never in error in a run that is calm, so that nothing is rolled back.
LEMMA TakeIsCalm ==
  ASSUME Inv, Calm, ~strayed, ~strayed', NEW c \in calls,
         TakeAnswer(c) \/ AnswerDropped(c) \/ TakeError(c) \/ LoseCall(c) \/ GiveUp(c),
         NEW r \in Runs, r \notin raced, r \notin raced'
  PROVE  CalmNext(r)
<1>1. c \in Call /\ c.run \in Runs /\ SoundCall(c)
  BY DEF Inv, PageInv, SoundCall, Call
<1>2. UNCHANGED <<audit, scanner>>
  BY DEF TakeAnswer, AnswerDropped, TakeError, LoseCall, GiveUp, serverVars
<1>3. cache \in [Runs -> AuditRow \cup {NoData}]
  BY DEF Inv, PageInv
<1>4. CASE r # c.run
  <2>1. CallsOf(r)' = CallsOf(r)
    BY <1>1, <1>4 DEF TakeAnswer, AnswerDropped, TakeError, LoseCall, GiveUp, Becomes, CallsOf, Call
  <2>2. cache'[r] = cache[r]
    <3>1. CASE TakeAnswer(c)
      <4>1. c.seen.id = c.run
        BY <1>1, <3>1 DEF TakeAnswer, SoundCall, RowOf
      <4> QED BY <1>3, <1>4, <3>1, <4>1 DEF TakeAnswer, Store
    <3>2. CASE RollBack(c)
      BY <1>3, <1>4, <3>2 DEF RollBack
    <3>3. CASE UNCHANGED cache
      BY <3>3
    <3> QED BY <3>1, <3>2, <3>3 DEF AnswerDropped, TakeError, LoseCall, GiveUp
  <2> QED BY <1>2, <2>1, <2>2, CalmElsewhere
<1>5. CASE r = c.run
  <2>1. ~LoseCall(c) /\ ~GiveUp(c)
    BY <1>5 DEF LoseCall, GiveUp
  <2>2. CalmRun(audit[r], cache[r], CallsOf(r), scanner[r]) /\ c \in CallsOf(r)
    BY <1>5, CalmCall
  <2>3. CallsOf(r)' = CallsOf(r) \ {c}
    BY <2>1 DEF TakeAnswer, AnswerDropped, TakeError, CallsOf
  <2>4. CASE TakeAnswer(c)
    <3>1. cache'[r] = c.seen
      <4>1. c.seen.id = c.run
        BY <1>1, <2>4 DEF TakeAnswer, SoundCall, RowOf
      <4> QED BY <1>3, <1>5, <2>4, <4>1 DEF TakeAnswer, Store
    <3>2. CalmRun(audit[r], c.seen, CallsOf(r) \ {c}, scanner[r])
      BY <2>2, AnswerStored
    <3> QED BY <1>2, <2>3, <3>1, <3>2 DEF CalmNext
  <2>5. CASE AnswerDropped(c) \/ TakeError(c)
    <3>1. c.op \notin Edits
      BY <1>5, <2>5, CalmCall DEF InOrder, AnswerDropped, TakeError
    <3>2. cache' = cache
      BY <2>5, <3>1 DEF AnswerDropped, TakeError, RollBack, Edits
    <3>3. CalmRun(audit[r], cache[r], CallsOf(r) \ {c}, scanner[r])
      BY <2>2, <3>1, CallsDropped
    <3> QED BY <1>2, <2>3, <3>2, <3>3 DEF CalmNext
  <2> QED BY <2>1, <2>4, <2>5
<1> QED BY <1>4, <1>5

-----------------------------------------------------------------------------
(* The histories only grow, and the invariant.                             *)

LEMMA HistoryGrows ==
  ASSUME Inv, [Next]_vars
  PROVE  raced \subseteq raced' /\ (strayed => strayed')
<1>1. ASSUME NEW s, NEW st, Fetch(s, st) PROVE raced \subseteq raced' /\ (strayed => strayed')
  BY <1>1 DEF Fetch, Race
<1>2. ASSUME NEW op, NEW c, NEW others, Ask(op, c, others)
      PROVE  raced \subseteq raced' /\ (strayed => strayed')
  BY <1>2 DEF Ask, Race
<1>3. CASE User \/ Poll
  <2>1. CASE Poll \/ Refetch
    BY <1>1, <2>1 DEF Poll, Refetch
  <2>2. CASE AddHostCred \/ Execute \/ Cancel
    BY <1>2, <2>2 DEF AddHostCred, Execute, Cancel
  <2>3. CASE \E change \in Changes : PatchHosts(change)
    BY <1>2, <2>3 DEF PatchHosts
  <2>4. CASE LeaveRun
    BY <2>4 DEF LeaveRun
  <2>5. ASSUME NEW r \in Runs, SelectRun(r) \/ StartRun(r) \/ DeleteRun(r)
        PROVE  raced \subseteq raced' /\ (strayed => strayed')
    <3>1. CASE SelectRun(r)
      BY <1>1, <3>1 DEF SelectRun
    <3>2. CASE StartRun(r)
      BY <1>1, <3>2 DEF StartRun
    <3>3. CASE DeleteRun(r)
      BY <3>3 DEF DeleteRun, Deleted
    <3> QED BY <2>5, <3>1, <3>2, <3>3
  <2> QED BY <1>3, <2>1, <2>2, <2>3, <2>4, <2>5 DEF User
<1>4. ASSUME NEW c \in calls,
             \/ LoadRun(c) \/ Refuse(c) \/ Serve(c) \/ TakeAnswer(c)
             \/ AnswerDropped(c) \/ TakeError(c) \/ LoseCall(c) \/ GiveUp(c)
      PROVE  raced \subseteq raced' /\ (strayed => strayed')
  <2>1. RollBack(c) => (strayed => strayed')
    BY DEF RollBack
  <2>2. CASE Serve(c)
    BY <2>2 DEF Serve
  <2>3. CASE ~Serve(c)
    BY <1>4, <2>1, <2>3 DEF LoadRun, Refuse, TakeAnswer, AnswerDropped, TakeError, LoseCall, GiveUp
  <2> QED BY <2>2, <2>3
<1>5. CASE UNCHANGED <<raced, strayed>>
  BY <1>5
<1>6. ASSUME NEW r \in Runs, NEW d \in Deliveries, Receive(r, d)
      PROVE  raced \subseteq raced' /\ (strayed => strayed')
  BY <1>6 DEF Receive, ScanAgain
<1>7. ASSUME NEW r \in Runs, DeletedElsewhere(r)
      PROVE  raced \subseteq raced' /\ (strayed => strayed')
  BY <1>7 DEF DeletedElsewhere, Deleted
<1> QED BY <1>3, <1>4, <1>5, <1>6, <1>7 DEF Next, Served, Taken, Environment, Worker, pageVars, vars

LEMMA CalmInitially == Init => Calm
<1> SUFFICES ASSUME Init, NEW r \in Runs
             PROVE  CalmRun(audit[r], cache[r], CallsOf(r), scanner[r])
  BY DEF Calm
<1>1. CallsOf(r) = {}
  BY DEF Init, CallsOf
<1>2. cache[r] = NoData \/ cache[r] = audit[r]
  BY DEF Init
<1>3. ~Ready(NoData)
  BY DEF Ready
<1>4. scanner[r] = [d \in Deliveries |-> IF audit[r].st # "absent" THEN "done"
                                        ELSE IF d = FirstDelivery THEN "queued" ELSE "unsent"]
  BY DEF Init, ServerInit
<1>5. OneAtATime(scanner[r])
  BY <1>4 DEF OneAtATime, WAITING
<1>6. Unscanned(scanner[r]) => ~Ready(audit[r])
  BY <1>4 DEF Unscanned, Ready
<1> HIDE DEF NoData
<1> QED BY <1>1, <1>2, <1>3, <1>5, <1>6 DEF CalmRun

LEMMA CalmKept == Inv /\ Calm /\ [Next]_vars => Calm'
<1> SUFFICES ASSUME Inv, Calm, [Next]_vars, ~strayed', NEW r \in Runs, r \notin raced'
             PROVE  CalmNext(r)
  BY DEF Calm, CalmNext
<1>1. ~strayed /\ r \notin raced
  BY HistoryGrows
<1>2. CASE UNCHANGED vars
  <2>1. UNCHANGED <<audit, cache, scanner, calls>>
    BY <1>2 DEF vars, serverVars, pageVars
  <2>2. CallsOf(r)' = CallsOf(r)
    BY <2>1 DEF CallsOf
  <2> QED BY <1>1, <2>1, <2>2, CalmElsewhere
<1>3. CASE User
  BY <1>1, <1>3, QueryIsCalm, ChangesAreCalm, LeavingIsCalm DEF User
<1>4. CASE Poll
  BY <1>1, <1>4, QueryIsCalm
<1>5. CASE Served
  BY <1>1, <1>5, LoadIsCalm, ServeIsCalm DEF Served
<1>6. CASE Taken \/ (\E c \in calls : LoseCall(c) \/ GiveUp(c))
  BY <1>1, <1>6, TakeIsCalm DEF Taken
<1>7. ASSUME NEW s \in Runs, Environment(s) PROVE CalmNext(r)
  BY <1>1, <1>7, EnvironmentIsCalm
<1>8. ASSUME NEW s \in Runs, NEW d \in Deliveries, Receive(s, d) \/ Worker(s, d)
      PROVE  CalmNext(r)
  <2>1. ReceiveScan(s, d) \/ ScanStep(s, d)
    BY <1>8 DEF Receive, Worker
  <2>2. UNCHANGED <<cache, calls, strayed>>
    BY <1>8 DEF Receive, Worker, pageVars
  <2>3. ReceiveScan(s, d) => ScanAgain(s)
    BY <1>8, NotReceived DEF Receive, Worker
  <2> QED BY <1>1, <2>1, <2>2, <2>3, ScanningIsCalm
<1> QED BY <1>2, <1>3, <1>4, <1>5, <1>6, <1>7, <1>8 DEF Next

LEMMA CalmInvariance == Spec => [](Inv /\ Calm)
<1>1. Init => Inv /\ Calm
  BY Initially, CalmInitially
<1>2. Inv /\ Calm /\ [Next]_vars => Inv' /\ Calm'
  BY StepKeeps, CalmKept
<1> QED BY <1>1, <1>2, PTL DEF Spec

-----------------------------------------------------------------------------
(* The theorems.                                                           *)

\* The page's preview of a change is what the server answers to it, whatever scanners,
\* polls, cancellations and other runs do meanwhile, as long as no two requests or
\* scanners of the run got in each other's way: applyAuditFlowHostPatch does to a host
\* what patch_audit_flow_hosts does.
THEOREM PreviewsComeTrue == Spec => []PreviewIsRight
<1>1. Inv /\ Calm => PreviewIsRight
  <2> SUFFICES ASSUME Inv, Calm, NEW c \in calls, c.op = "patch", c.phase = "answered",
                      c.run \notin raced, ~strayed
               PROVE  cache[c.run] = c.seen
    BY DEF PreviewIsRight
  <2>1. /\ InOrder(c, audit[c.run], cache[c.run]) /\ SoundCall(c) /\ c.run \in Runs
        /\ Base(c, cache[c.run]) \in RowOf(c.run) /\ HostEditable(Base(c, cache[c.run]))
    BY CalmCall DEF Edits
  <2>2. Base(c, cache[c.run]) = c.shown /\ c.change \in Changes
    BY <2>1 DEF Base, SoundCall
  <2>3. cache[c.run] = HostPatch(c.shown, c.change) /\ c.seen = PatchHost(c.shown, c.change)
    BY <2>1, <2>2 DEF InOrder
  <2>4. HostPatch(c.shown, c.change) = PatchHost(c.shown, c.change)
    BY <2>1, <2>2, SameEdit
  <2> QED BY <2>3, <2>4
<1> QED BY <1>1, CalmInvariance, PTL

\* Only its session takes a request to execute, once it is loaded, out of the calls.
LEMMA LoadedUntilServed ==
  ASSUME Inv, Calm, [Next]_vars, ~strayed, NEW c \in calls, c.op = "execute", c.phase = "loaded",
         c \notin calls', c.run \notin raced'
  PROVE  Serve(c)
<1>1. ASSUME NEW s, NEW st, Fetch(s, st) PROVE FALSE
  BY <1>1 DEF Fetch
<1>2. ASSUME NEW op, NEW d, NEW others, c \in others, Ask(op, d, others) PROVE FALSE
  BY <1>2 DEF Ask
<1>3. ASSUME NEW change \in Changes, PatchHosts(change) PROVE FALSE
  <2>1. c \in {IF e.op = "patch" /\ e.latest THEN [e EXCEPT !.latest = FALSE, !.under = activeId] ELSE e
                 : e \in calls \ Fetching(activeId)}
    BY DEF Fetching
  <2> QED BY <1>2, <1>3, <2>1 DEF PatchHosts
<1>4. ~User /\ ~Poll
  BY <1>1, <1>2, <1>3 DEF User, Poll, Refetch, LeaveRun, AddHostCred, Execute, Cancel, SelectRun,
                          StartRun, DeleteRun, Fetching
<1>5. calls' # calls
  OBVIOUS
<1>6. \A r \in Runs : ~Environment(r) /\ \A d \in Deliveries : ~Receive(r, d) /\ ~Worker(r, d)
  BY <1>5 DEF Environment, DeletedElsewhere, Receive, Worker, pageVars
<1>7. PICK e \in calls : /\ \/ LoadRun(e) \/ Refuse(e) \/ Serve(e) \/ TakeAnswer(e)
                            \/ AnswerDropped(e) \/ TakeError(e) \/ LoseCall(e) \/ GiveUp(e)
  BY <1>4, <1>5, <1>6 DEF Next, Served, Taken, vars, pageVars
<1>8. e = c
  BY <1>7 DEF LoadRun, Refuse, Serve, Becomes, TakeAnswer, AnswerDropped, TakeError, LoseCall, GiveUp
<1>9. c.run \notin raced
  BY HistoryGrows
<1>10. ~Refuse(c)
  BY <1>9, EditIsAccepted DEF Edits, Refuse
<1> QED BY <1>7, <1>8, <1>10 DEF LoadRun, TakeAnswer, AnswerDropped, TakeError, LoseCall, GiveUp

\* A click on Execute launches the host with the profile that the page showed at the
\* click, or leaves it with the reason that it could not be launched (execute_run of
\* the row that it loaded), as long as nothing else got in its way.
THEOREM ExecuteLaunchesWhatWasShown == Spec => LaunchedAsShown
<1>1. ASSUME Inv, Calm, [Next]_vars, ~strayed, NEW c \in calls, c.op = "execute", c.phase = "loaded",
             c \notin calls', c.run \notin raced'
      PROVE  /\ audit'[c.run].prof = c.shown.prof
             /\ audit'[c.run].job \/ audit'[c.run].skip = "playbook_failed"
  <2>1. Serve(c) /\ c.run \notin raced
    BY <1>1, LoadedUntilServed, HistoryGrows
  <2>2. /\ c.seen \in RowOf(c.run) /\ c.shown = c.seen /\ CanLaunch(c.seen)
        /\ c.run \in Runs /\ audit \in [Runs -> AuditRow]
    BY <1>1, <2>1, EditIsAccepted, CalmCall DEF Edits, Inv, ServerInv, ServerTypeOK
  <2>3. PICK out \in RowOf(c.run), fails \in BOOLEAN : audit' = [audit EXCEPT ![c.run] = out] /\ out = Executed(c.seen, fails)
    BY <1>1, <2>1, ServedRow
  <2>4. audit'[c.run] = Executed(c.seen, fails)
    BY <2>2, <2>3
  <2>5. Executed(c.seen, fails).prof = c.seen.prof
    BY <2>2 DEF Executed, RowOf, AuditRow
  <2>6. CASE fails
    <3>1. Executed(c.seen, fails).skip = "playbook_failed"
      BY <2>2, <2>6 DEF Executed, CanLaunch, RowOf, AuditRow
    <3> QED BY <2>2, <2>4, <2>5, <3>1
  <2>7. CASE ~fails
    <3>1. Executed(c.seen, fails).job
      BY <2>2, <2>7 DEF Executed, RowOf, AuditRow
    <3> QED BY <2>2, <2>4, <2>5, <3>1
  <2> QED BY <2>6, <2>7
<1>2. Inv /\ Calm /\ [Next]_vars =>
        [\A c \in calls :
           /\ c.op = "execute" /\ c.phase = "loaded" /\ c \notin calls'
           /\ c.run \notin raced' /\ ~strayed
           /\ audit'[c.run].st \notin {"absent", "deleted"}
           => /\ audit'[c.run].prof = c.shown.prof
              /\ audit'[c.run].job \/ audit'[c.run].skip = "playbook_failed"]_vars
  BY <1>1
<1> QED BY <1>2, CalmInvariance, PTL DEF Spec, LaunchedAsShown

=============================================================================
