------------------------------ MODULE LiveLogs ------------------------------
(***************************************************************************)
(* The live log of a run on the screen: JobRunLogs.tsx ("job"),            *)
(* AuditFlowLogs.tsx ("flow") and RemediationRunLogs.tsx ("remediation")   *)
(* against the log sockets of api/v1/routers/ws.py.                        *)
(*                                                                         *)
(* A closed socket tells its component so later, in onclose, when another  *)
(* socket may have taken its place.  An answer in the query cache counts   *)
(* as a poll.                                                              *)
(***************************************************************************)
EXTENDS Naturals, FiniteSets

CONSTANTS
  LogRuns,
  NoLogRun,
  LogSockets,     \* bound: sockets that exist at a time
  NoLogSocket,
  MaxLogEntries   \* bound: lines a run publishes

ASSUME LiveLogsAssumption ==
  /\ NoLogRun \notin LogRuns
  /\ NoLogSocket \notin LogSockets
  /\ MaxLogEntries \in Nat

VARIABLES
  logKind,    \* which of the three components
  published,  \* published[r]: number of lines run r has logged
  logActive,  \* runs whose status is active
  viewedRun,  \* the runId the component is given
  entries,    \* entries[r][n]: how often line n of run r is on the screen (2 = twice or more)
  seenKeys,   \* seenKeysRef
  sockets,    \* sockets[s]
  wsRef,
  reconnecting, \* reconnectTimerRef is armed
  orphaned    \* history: wsRef was cleared while it held another socket

logVars == <<logKind, published, logActive, viewedRun, entries, seenKeys, sockets, wsRef,
             reconnecting, orphaned>>

-----------------------------------------------------------------------------

LogKinds == {"job", "flow", "remediation"}

\* "backlog": the server sends the lines it found (the first `until`).  "live": it
\* passes on what is published since it subscribed.  own: the effect that opened
\* the socket is still in force.
LogSocket ==
  [st : {"none", "connecting", "backlog", "live", "closing"}, run : LogRuns \cup {NoLogRun},
   own : BOOLEAN, next : 1..MaxLogEntries + 1, until : 0..MaxLogEntries]

NoConnection == [st |-> "none", run |-> NoLogRun, own |-> FALSE, next |-> 1, until |-> 0]

NoEntries == [r \in LogRuns |-> [n \in 1..MaxLogEntries |-> 0]]

LogTypeOK ==
  /\ logKind \in LogKinds
  /\ published \in [LogRuns -> 0..MaxLogEntries]
  /\ logActive \subseteq LogRuns
  /\ viewedRun \in LogRuns \cup {NoLogRun}
  /\ entries \in [LogRuns -> [1..MaxLogEntries -> 0..2]]
  /\ seenKeys \subseteq LogRuns \X (1..MaxLogEntries)
  /\ sockets \in [LogSockets -> LogSocket]
  /\ wsRef \in LogSockets \cup {NoLogSocket}
  /\ reconnecting \in BOOLEAN
  /\ orphaned \in BOOLEAN

LogInit ==
  /\ logKind \in LogKinds
  /\ published = [r \in LogRuns |-> 0]
  /\ logActive = LogRuns
  /\ viewedRun = NoLogRun
  /\ entries = NoEntries
  /\ seenKeys = {}
  /\ sockets = [s \in LogSockets |-> NoConnection]
  /\ wsRef = NoLogSocket
  /\ reconnecting = FALSE
  /\ orphaned = FALSE

-----------------------------------------------------------------------------
(* What the components do.                                                 *)

\* The lines are put at the end of what is displayed.
Pushed(lines) ==
  entries' = [r \in LogRuns |-> [n \in 1..MaxLogEntries |->
    IF <<r, n>> \in lines /\ entries[r][n] < 2 THEN entries[r][n] + 1 ELSE entries[r][n]]]

\* setLogs((prev) => [...prev, entry]): no line is recognised.
AppendAll(lines) == Pushed(lines) /\ UNCHANGED seenKeys

\* Lines whose key was seen are skipped; remediation logs have no keys.
AppendEntries(lines) ==
  \/ logKind = "remediation" /\ AppendAll(lines)
  \/ /\ logKind # "remediation"
     /\ Pushed(lines \ seenKeys)
     /\ seenKeys' = seenKeys \cup lines

\* The socket in wsRef is closed.
Closed(socks) ==
  [s \in LogSockets |->
     IF s = wsRef /\ socks[s].st # "none" THEN [socks[s] EXCEPT !.st = "closing"] ELSE socks[s]]

\* The sockets of the effect that ends are not its own any more.
BugNotClosed(socks) == [s \in LogSockets |-> [socks[s] EXCEPT !.own = FALSE]]

CleanedUp(socks) == [s \in LogSockets |-> [Closed(socks)[s] EXCEPT !.own = FALSE]]

\* connect: a new socket for run r.
Connected(r, socks) ==
  \E s \in LogSockets :
    /\ socks[s].st = "none"
    /\ sockets' = [socks EXCEPT ![s] = [NoConnection EXCEPT !.st = "connecting", !.run = r, !.own = TRUE]]
    /\ wsRef' = s

\* The effect runs again for run r: clean-up, then connect.
Rerun(r) ==
  /\ reconnecting' = FALSE
  /\ IF r = NoLogRun THEN sockets' = CleanedUp(sockets) /\ wsRef' = NoLogSocket
                     ELSE Connected(r, CleanedUp(sockets))

BugKeepSeen == entries' = NoEntries /\ UNCHANGED seenKeys

\* The effect on runId.
ResetEntries == entries' = NoEntries /\ seenKeys' = {}

\* Another run is selected, or the component goes away.
ViewRun(r) ==
  /\ viewedRun # r
  /\ viewedRun' = r
  /\ ResetEntries
  /\ Rerun(r)
  /\ UNCHANGED <<logKind, published, logActive, orphaned>>

\* The access token was refreshed: an effect of the same run, with new sockets.
LogTokenChange ==
  /\ viewedRun # NoLogRun
  /\ Rerun(viewedRun)
  /\ UNCHANGED <<logKind, published, logActive, viewedRun, entries, seenKeys, orphaned>>

\* The run begins to wait for its user, ends or goes on; runStatus is a dependency
\* of the flow's effect.
RunStatusChange(r) ==
  /\ logKind = "flow"
  /\ logActive' = IF r \in logActive THEN logActive \ {r} ELSE logActive \cup {r}
  /\ IF r = viewedRun THEN Rerun(r) ELSE UNCHANGED <<sockets, wsRef, reconnecting>>
  /\ UNCHANGED <<logKind, published, viewedRun, entries, seenKeys, orphaned>>

\* The run logs a line, which goes to Redis.
PublishLine(r) ==
  /\ published[r] < MaxLogEntries
  /\ published' = [published EXCEPT ![r] = @ + 1]
  /\ UNCHANGED <<logKind, logActive, viewedRun, entries, seenKeys, sockets, wsRef, reconnecting, orphaned>>

\* refetchInterval of the logs query; the remediation log has none.
PollLogs ==
  /\ logKind # "remediation" /\ viewedRun # NoLogRun
  /\ AppendEntries({viewedRun} \X (1..published[viewedRun]))
  /\ UNCHANGED <<logKind, published, logActive, viewedRun, sockets, wsRef, reconnecting, orphaned>>

-----------------------------------------------------------------------------
(* Sockets.                                                                *)

\* onopen: the socket authenticates and the server reads the list of lines.
SocketOpened(s) ==
  /\ sockets[s].st = "connecting"
  /\ sockets' = [sockets EXCEPT ![s].st = "backlog", ![s].until = published[sockets[s].run]]
  /\ UNCHANGED <<logKind, published, logActive, viewedRun, entries, seenKeys, wsRef, reconnecting, orphaned>>

\* The server subscribes after it has sent the list: what was published in between
\* does not come through this socket.
SocketSubscribed(s) ==
  /\ sockets[s].st = "backlog" /\ sockets[s].next > sockets[s].until
  /\ sockets' = [sockets EXCEPT ![s].st = "live", ![s].next = published[sockets[s].run] + 1]
  /\ UNCHANGED <<logKind, published, logActive, viewedRun, entries, seenKeys, wsRef, reconnecting, orphaned>>

\* onmessage.  (No message is delivered once close() was called.)
SocketMessage(s) ==
  LET n == sockets[s].next r == sockets[s].run IN
  /\ \/ sockets[s].st = "backlog" /\ n <= sockets[s].until
     \/ sockets[s].st = "live" /\ n <= published[r]
  /\ AppendEntries({<<r, n>>})
  /\ sockets' = [sockets EXCEPT ![s].next = n + 1]
  /\ UNCHANGED <<logKind, published, logActive, viewedRun, wsRef, reconnecting, orphaned>>

BugNoReconnect(s) == FALSE

\* A job's socket is replaced in any case, a flow's while the run is active.
Reconnects(s) ==
  /\ sockets[s].own
  /\ \/ logKind = "job"
     \/ logKind = "flow" /\ sockets[s].run \in logActive

\* onclose, of a socket that the server, the network or the component closed.  It
\* clears wsRef, whichever socket that holds.
SocketClosed(s) ==
  /\ sockets[s].st # "none"
  /\ sockets' = [sockets EXCEPT ![s] = NoConnection]
  /\ wsRef' = IF logKind = "remediation" /\ s # wsRef THEN wsRef ELSE NoLogSocket
  /\ orphaned' = (orphaned \/ (logKind # "remediation" /\ wsRef \notin {s, NoLogSocket}))
  /\ reconnecting' = (reconnecting \/ Reconnects(s))
  /\ UNCHANGED <<logKind, published, logActive, viewedRun, entries, seenKeys>>

\* The timer of scheduleReconnect.
Reconnect ==
  /\ reconnecting
  /\ reconnecting' = FALSE
  /\ Connected(viewedRun, Closed(sockets))
  /\ UNCHANGED <<logKind, published, logActive, viewedRun, entries, seenKeys, orphaned>>

-----------------------------------------------------------------------------

LogNext ==
  \/ \E r \in LogRuns \cup {NoLogRun} : ViewRun(r)
  \/ \E r \in LogRuns : RunStatusChange(r) \/ PublishLine(r)
  \/ \E s \in LogSockets :
       SocketOpened(s) \/ SocketSubscribed(s) \/ SocketMessage(s) \/ SocketClosed(s)
  \/ LogTokenChange \/ PollLogs \/ Reconnect

-----------------------------------------------------------------------------
(* Properties.                                                             *)

\* Lines that a socket misses (between the server's reading of the list and its
\* subscription, or while it is down) get to the screen with a poll, also when the
\* user has looked at another run in the meantime.  (Not for remediation runs,
\* whose log is not polled.)
EveryLineShown ==
  \A r \in LogRuns, n \in 1..MaxLogEntries :
    (logKind # "remediation" /\ viewedRun = r /\ published[r] >= n)
      ~> (entries[r][n] > 0 \/ viewedRun # r)

\* The same line comes by poll, by the backlog of every new socket and live: it is
\* displayed once.  (Not for remediation runs, whose lines have no keys: a refresh
\* of the token repeats them.)
NoLineTwice ==
  logKind # "remediation" => \A r \in LogRuns, n \in 1..MaxLogEntries : entries[r][n] <= 1

\* The panel shows lines of the run its title names, as long as no late onclose has
\* made it lose hold of a socket.
OwnLinesOnly ==
  ~orphaned => \A r \in LogRuns \ {viewedRun}, n \in 1..MaxLogEntries : entries[r][n] = 0

\* While a job's log, or that of an active flow, is displayed, there is a socket
\* that its effect will replace when it closes, or a timer that opens one.
NeverCutOff ==
  (viewedRun # NoLogRun /\ (logKind = "job" \/ (logKind = "flow" /\ viewedRun \in logActive)))
    => reconnecting \/ \E s \in LogSockets : sockets[s].own /\ sockets[s].st # "none"

=============================================================================
