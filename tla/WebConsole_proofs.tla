--------------------------- MODULE WebConsole_proofs ---------------------------
(***************************************************************************)
(* Theorems about the views of WebConsole, for any sockets, scripts,       *)
(* records and runs.                                                       *)
(***************************************************************************)
EXTENDS WebConsole, ConsoleEditing_proofs

-----------------------------------------------------------------------------
(* The terminal.                                                           *)

TerminalInv == TerminalTypeOK /\ ConsoleTellsItsSession

LEMMA TerminalInitial == TerminalInit => TerminalInv
  BY ConsoleTerminalAssumption
  DEF TerminalInit, TerminalInv, TerminalTypeOK, TermSocketState, ConsoleTellsItsSession

\* An old session's handlers are disposed; the handlers of the one in force change
\* the status together with its socket.
LEMMA TerminalStep == TerminalInv /\ TerminalNext => TerminalInv'
<1> SUFFICES ASSUME TerminalInv, TerminalNext
             PROVE  TerminalInv'
  OBVIOUS
<1> USE ConsoleTerminalAssumption DEF TerminalInv, TerminalTypeOK, TermSocketState, ConsoleTellsItsSession
<1>1. CASE NewSession
  <2>1. PICK s \in TermSockets :
           /\ DisposeSocket[s] = "none"
           /\ termSocket' = [DisposeSocket EXCEPT ![s] = "connecting"]
           /\ terminal' = s
    BY <1>1 DEF NewSession
  <2>2. DisposeSocket \in [TermSockets -> TermSocketState]
    BY DEF DisposeSocket
  <2>3. termSocket' \in [TermSockets -> TermSocketState] /\ termSocket'[terminal'] = "connecting"
    BY <2>1, <2>2
  <2> QED
    BY <1>1, <2>1, <2>3 DEF NewSession
<1>2. ASSUME NEW s \in TermSockets, TerminalOpened(s)
      PROVE  TerminalInv'
  BY <1>2 DEF TerminalOpened, Report, Disposed
<1>3. ASSUME NEW s \in TermSockets, TerminalOutput(s)
      PROVE  TerminalInv'
  BY <1>3 DEF TerminalOutput, Disposed
<1>4. ASSUME NEW s \in TermSockets, TerminalFailed(s)
      PROVE  TerminalInv'
  BY <1>4 DEF TerminalFailed, Report, Disposed
<1>5. ASSUME NEW s \in TermSockets, TerminalClosed(s)
      PROVE  TerminalInv'
  BY <1>5 DEF TerminalClosed, Report, Disposed
<1> QED
  BY <1>1, <1>2, <1>3, <1>4, <1>5 DEF TerminalNext

LEMMA TerminalInvariance == Spec => []TerminalInv
<1>1. Init => TerminalInv
  BY TerminalInitial DEF Init
<1>2. TerminalInv /\ [Next]_consoleVars => TerminalInv'
  <2> SUFFICES ASSUME TerminalInv, [Next]_consoleVars
               PROVE  TerminalInv'
    OBVIOUS
  <2>1. CASE Terminal
    BY <2>1, TerminalStep DEF Terminal
  <2>2. CASE UNCHANGED terminalVars
    BY <2>2 DEF terminalVars, TerminalInv, TerminalTypeOK, ConsoleTellsItsSession
  <2>3. Terminal \/ UNCHANGED terminalVars
    BY DEF Next, consoleVars, Logs, Editor, Form, Schedule, Workflow
  <2> QED
    BY <2>1, <2>2, <2>3
<1> QED
  BY <1>1, <1>2, PTL DEF Spec

\* The status line and the output are those of the session in force, for any number
\* of sessions whose sockets are still closing.
THEOREM TerminalTellsItsSession == Spec => []ConsoleTellsItsSession
<1>1. TerminalInv => ConsoleTellsItsSession
  BY DEF TerminalInv
<1> QED
  BY <1>1, TerminalInvariance, PTL

-----------------------------------------------------------------------------
(* Script editors, forms and the schedule picker.                          *)

LEMMA EditorInvariance == Spec => [](EditorInv /\ CleanInv)
<1>1. Init => EditorInv /\ CleanInv
  BY EditorInitial, CleanInitial DEF Init
<1>2. EditorInv /\ CleanInv /\ [Next]_consoleVars => EditorInv' /\ CleanInv'
  <2> SUFFICES ASSUME EditorInv, CleanInv, [Next]_consoleVars
               PROVE  EditorInv' /\ CleanInv'
    OBVIOUS
  <2>1. CASE Editor
    BY <2>1, EditorStep, CleanStep DEF Editor
  <2>2. CASE UNCHANGED editorVars
    BY <2>2 DEF editorVars, EditorInv, EditorTypeOK, TextsAreOwn, CleanInv, CacheIsCurrent
  <2>3. Editor \/ UNCHANGED editorVars
    BY DEF Next, consoleVars, Logs, Terminal, Form, Schedule, Workflow
  <2> QED
    BY <2>1, <2>2, <2>3
<1> QED
  BY <1>1, <1>2, PTL DEF Spec

\* No script is overwritten with another one's text, for any scripts and any number
\* of changes.
THEOREM SavesStayWithTheirScript == Spec => []SavedIntoItsOwnScript
<1>1. EditorInv => SavedIntoItsOwnScript
  BY DEF EditorInv, TextsAreOwn, SavedIntoItsOwnScript
<1> QED
  BY <1>1, EditorInvariance, PTL

\* A clean editor shows what the server has, for any scripts, any number of changes,
\* and whatever queries and saves failed on the way.
THEOREM CleanEditorsShowTheServer == Spec => []CleanMeansSaved
BY EditorInvariance, CleanIsSaved, PTL

LEMMA FormInvariance == Spec => [](FormInv /\ CurrentInv)
<1>1. Init => FormInv /\ CurrentInv
  BY FormInitial, CurrentInitial DEF Init
<1>2. FormInv /\ CurrentInv /\ [Next]_consoleVars => FormInv' /\ CurrentInv'
  <2> SUFFICES ASSUME FormInv, CurrentInv, [Next]_consoleVars
               PROVE  FormInv' /\ CurrentInv'
    OBVIOUS
  <2>1. CASE Form
    BY <2>1, FormStep, CurrentStep DEF Form
  <2>2. CASE UNCHANGED formVars
    BY <2>2
    DEF formVars, FormInv, FormTypeOK, FormsAreOwn, CallsNameRecords, CurrentInv, ListIsCurrent,
        WrittenUnseen
  <2>3. Form \/ UNCHANGED formVars
    BY DEF Next, consoleVars, Logs, Terminal, Editor, Schedule, Workflow
  <2> QED
    BY <2>1, <2>2, <2>3
<1> QED
  BY <1>1, <1>2, PTL DEF Spec

\* What is saved as an update was typed over that record's own values, for any
\* records.
THEOREM UpdatesKeepToTheirRecord == Spec => []UpdateNeverCrosses
<1>1. FormInv => UpdateNeverCrosses
  BY DEF FormInv, FormsAreOwn, UpdateNeverCrosses
<1> QED
  BY <1>1, FormInvariance, PTL

\* When everything is answered the list is the server's, for any records, in whatever
\* order writes, reads and their answers came.
THEOREM ListsCatchUp == Spec => []ListCatchesUp
BY FormInvariance, CurrentListIsRows, PTL

\* What is typed survives everything but the user's own steps and a mutation's
\* success, for any records.
THEOREM TypedTextIsKept == Spec => TypedTextSurvives
<1> DEFINE Kept == form.typed /\ ~form'.typed /\ editUrl \in {form.id, NoRecord}
                     => UserStep \/ SuccessStep
<1>1. ASSUME [Next]_consoleVars, UserStep \/ SuccessStep
      PROVE  Kept
  BY <1>1
<1>2. ASSUME FormNext, ~UserStep, ~SuccessStep
      PROVE  Kept
  BY <1>2 DEF FormNext, ServerStep, ServerCreates, ServerUpdates, ServerDeletes, ServerReadsList,
              RefetchList, ListAnswered, ListFailed, CallFails, Render, FollowUrl
<1>3. [Next]_consoleVars => FormNext \/ UNCHANGED formVars
  BY DEF Next, consoleVars, Logs, Terminal, Editor, Form, Schedule, Workflow
<1>4. UNCHANGED formVars => Kept
  BY DEF formVars
<1>5. [Next]_consoleVars => [Kept]_formVars
  BY <1>1, <1>2, <1>3, <1>4
<1> QED
  BY <1>5, PTL DEF Spec, TypedTextSurvives

LEMMA ScheduleInvariance == Spec => []ScheduleInv
<1>1. Init => ScheduleInv
  BY ScheduleInitial DEF Init
<1>2. ScheduleInv /\ [Next]_consoleVars => ScheduleInv'
  <2> SUFFICES ASSUME ScheduleInv, [Next]_consoleVars
               PROVE  ScheduleInv'
    OBVIOUS
  <2>1. CASE Schedule
    BY <2>1, ScheduleStep DEF Schedule
  <2>2. CASE UNCHANGED scheduleVars
    BY <2>2 DEF scheduleVars, ScheduleInv, ScheduleTypeOK
  <2>3. Schedule \/ UNCHANGED scheduleVars
    BY DEF Next, consoleVars, Logs, Terminal, Editor, Form, Workflow
  <2> QED
    BY <2>1, <2>2, <2>3
<1> QED
  BY <1>1, <1>2, PTL DEF Spec

\* A form that is opened and saved as it is stores the expression it was opened with,
\* whichever numbers occur in it and whether the picker can express it or not.
THEOREM SchedulesSurviveEditing == Spec => []ScheduleSurvivesEditing
<1>1. ScheduleInv => ScheduleSurvivesEditing
  BY BuildInvertsParse DEF ScheduleInv, ScheduleTypeOK, ScheduleSurvivesEditing
<1> QED
  BY <1>1, ScheduleInvariance, PTL

-----------------------------------------------------------------------------
(* Live logs.                                                              *)

\* A line on the screen is there once, and its key was seen.
OnceAndSeen ==
  logKind # "remediation" =>
    \A r \in LogRuns, n \in 1..MaxLogEntries :
      entries[r][n] <= 1 /\ (entries[r][n] = 1 => <<r, n>> \in seenKeys)

\* The sockets of the effect in force are of the run displayed; and unless one was
\* lost hold of, every socket that can still deliver a line is the one in wsRef.
SocketsOfTheView ==
  /\ reconnecting => viewedRun \in LogRuns
  /\ \A s \in LogSockets :
       /\ sockets[s].st # "none" => sockets[s].run \in LogRuns
       /\ sockets[s].own => sockets[s].run = viewedRun /\ sockets[s].st # "none"
       /\ ~orphaned /\ sockets[s].st \notin {"none", "closing"}
            => s = wsRef /\ sockets[s].run = viewedRun

LogInv == LogTypeOK /\ OnceAndSeen /\ SocketsOfTheView /\ OwnLinesOnly /\ NeverCutOff

LEMMA LogInitial == LogInit => LogInv
<1> SUFFICES ASSUME LogInit
             PROVE  LogInv
  OBVIOUS
<1> USE LiveLogsAssumption DEF LiveLogsAssumption
<1>1. NoConnection \in LogSocket /\ ~NoConnection.own /\ NoConnection.st = "none"
  BY DEF NoConnection, LogSocket
<1>2. NoEntries \in [LogRuns -> [1..MaxLogEntries -> 0..2]]
      /\ \A r \in LogRuns, n \in 1..MaxLogEntries : NoEntries[r][n] = 0
  BY DEF NoEntries
<1>3. sockets \in [LogSockets -> LogSocket] /\ entries \in [LogRuns -> [1..MaxLogEntries -> 0..2]]
  BY <1>1, <1>2 DEF LogInit
<1>4. published \in [LogRuns -> 0..MaxLogEntries]
  BY DEF LogInit
<1>5. LogTypeOK
  BY <1>3, <1>4 DEF LogInit, LogTypeOK
<1> QED
  BY <1>1, <1>2, <1>5 DEF LogInit, LogInv, OnceAndSeen, SocketsOfTheView, OwnLinesOnly, NeverCutOff

\* A line that is displayed anew was not seen, or has no key.
LEMMA LinesAppended ==
  ASSUME LogTypeOK, OnceAndSeen, NEW lines \in SUBSET (LogRuns \X (1..MaxLogEntries)),
         AppendEntries(lines), logKind' = logKind
  PROVE  /\ entries' \in [LogRuns -> [1..MaxLogEntries -> 0..2]]
         /\ seenKeys' \subseteq LogRuns \X (1..MaxLogEntries)
         /\ OnceAndSeen'
         /\ \A r \in LogRuns, n \in 1..MaxLogEntries :
              <<r, n>> \notin lines => entries'[r][n] = entries[r][n]
<1>1. /\ entries \in [LogRuns -> [1..MaxLogEntries -> 0..2]]
      /\ seenKeys \subseteq LogRuns \X (1..MaxLogEntries)
  BY DEF LogTypeOK
<1>2. \E shown \in SUBSET lines : Pushed(shown) /\ (logKind # "remediation" => shown = lines \ seenKeys)
  BY DEF AppendEntries, AppendAll
<1>3. PICK shown \in SUBSET lines :
        Pushed(shown) /\ (logKind # "remediation" => shown = lines \ seenKeys)
  BY <1>2
<1>4. ASSUME NEW r \in LogRuns, NEW n \in 1..MaxLogEntries
      PROVE  /\ entries'[r][n] = IF <<r, n>> \in shown /\ entries[r][n] < 2
                                   THEN entries[r][n] + 1 ELSE entries[r][n]
             /\ entries[r][n] \in 0..2
  BY <1>1, <1>3 DEF Pushed
<1>5. entries' \in [LogRuns -> [1..MaxLogEntries -> 0..2]]
  <2>1. entries' = [r \in LogRuns |-> [n \in 1..MaxLogEntries |-> entries'[r][n]]]
    BY <1>3 DEF Pushed
  <2>2. ASSUME NEW r \in LogRuns, NEW n \in 1..MaxLogEntries
        PROVE  entries'[r][n] \in 0..2
    <3>1. CASE <<r, n>> \in shown /\ entries[r][n] < 2
      BY <1>4, <3>1
    <3>2. CASE ~(<<r, n>> \in shown /\ entries[r][n] < 2)
      BY <1>4, <3>2
    <3> QED BY <3>1, <3>2
  <2> QED BY <2>1, <2>2
<1>6. seenKeys' \subseteq LogRuns \X (1..MaxLogEntries)
  BY <1>1 DEF AppendEntries, AppendAll
<1>7. OnceAndSeen'
  <2> SUFFICES ASSUME logKind # "remediation", NEW r \in LogRuns, NEW n \in 1..MaxLogEntries
               PROVE  entries'[r][n] <= 1 /\ (entries'[r][n] = 1 => <<r, n>> \in seenKeys')
    BY DEF OnceAndSeen
  <2>1. seenKeys' = seenKeys \cup lines
    BY DEF AppendEntries
  <2>2. entries[r][n] <= 1 /\ (entries[r][n] = 1 => <<r, n>> \in seenKeys)
    BY DEF OnceAndSeen
  <2>3. CASE <<r, n>> \in shown
    BY <1>3, <1>4, <2>1, <2>2, <2>3
  <2>4. CASE <<r, n>> \notin shown
    BY <1>4, <2>1, <2>2, <2>4
  <2> QED BY <2>3, <2>4
<1> QED BY <1>3, <1>4, <1>5, <1>6, <1>7

\* connect, after sockets of which none but the one in wsRef could deliver a line.
LEMMA SocketsAfterConnect ==
  ASSUME LogTypeOK, NEW r \in LogRuns \cup {NoLogRun},
         NEW socks \in [LogSockets -> LogSocket], Connected(r, socks)
  PROVE  /\ sockets' \in [LogSockets -> LogSocket] /\ wsRef' \in LogSockets
         /\ sockets'[wsRef'].own /\ sockets'[wsRef'].run = r /\ sockets'[wsRef'].st = "connecting"
         /\ \A s \in LogSockets \ {wsRef'} : sockets'[s] = socks[s]
<1>1. PICK s \in LogSockets :
        /\ sockets' = [socks EXCEPT ![s] =
             [NoConnection EXCEPT !.st = "connecting", !.run = r, !.own = TRUE]]
        /\ wsRef' = s
  BY DEF Connected
<1>2. [NoConnection EXCEPT !.st = "connecting", !.run = r, !.own = TRUE] \in LogSocket
  <2>1. 1 \in 1..MaxLogEntries + 1 /\ 0 \in 0..MaxLogEntries
    BY LiveLogsAssumption DEF LiveLogsAssumption
  <2> QED BY <2>1 DEF NoConnection, LogSocket
<1> QED BY <1>1, <1>2 DEF NoConnection

\* Closing the socket in wsRef leaves none that could deliver, and the clean-up
\* disowns them all.
LEMMA SocketsClosed ==
  ASSUME LogTypeOK, SocketsOfTheView
  PROVE  /\ Closed(sockets) \in [LogSockets -> LogSocket]
         /\ CleanedUp(sockets) \in [LogSockets -> LogSocket]
         /\ \A s \in LogSockets :
              /\ ~orphaned => Closed(sockets)[s].st \in {"none", "closing"}
              /\ ~orphaned => CleanedUp(sockets)[s].st \in {"none", "closing"}
              /\ ~CleanedUp(sockets)[s].own
              /\ Closed(sockets)[s].own = sockets[s].own
              /\ Closed(sockets)[s].run = sockets[s].run
              /\ (Closed(sockets)[s].st = "none" <=> sockets[s].st = "none")
              /\ CleanedUp(sockets)[s].run = sockets[s].run
              /\ (CleanedUp(sockets)[s].st = "none" <=> sockets[s].st = "none")
<1>1. sockets \in [LogSockets -> LogSocket]
  BY DEF LogTypeOK
<1>2. Closed(sockets) \in [LogSockets -> LogSocket]
      /\ \A s \in LogSockets : /\ Closed(sockets)[s].own = sockets[s].own
                               /\ Closed(sockets)[s].run = sockets[s].run
                               /\ (Closed(sockets)[s].st = "none" <=> sockets[s].st = "none")
  BY <1>1 DEF Closed, LogSocket
<1>3. \A s \in LogSockets : ~orphaned => Closed(sockets)[s].st \in {"none", "closing"}
  BY <1>1 DEF Closed, SocketsOfTheView, LogSocket
<1>4. CleanedUp(sockets) \in [LogSockets -> LogSocket]
      /\ \A s \in LogSockets : /\ ~CleanedUp(sockets)[s].own
                               /\ CleanedUp(sockets)[s].st = Closed(sockets)[s].st
                               /\ CleanedUp(sockets)[s].run = Closed(sockets)[s].run
  BY <1>2 DEF CleanedUp, LogSocket
<1> QED BY <1>2, <1>3, <1>4

\* The effect that runs again leaves only its own socket at work.
LEMMA SocketsAfterRerun ==
  ASSUME LogTypeOK, SocketsOfTheView, NEW r \in LogRuns \cup {NoLogRun}, Rerun(r),
         viewedRun' = r, orphaned' = orphaned
  PROVE  /\ sockets' \in [LogSockets -> LogSocket]
         /\ wsRef' \in LogSockets \cup {NoLogSocket}
         /\ reconnecting' = FALSE
         /\ SocketsOfTheView'
         /\ r # NoLogRun => \E s \in LogSockets : sockets'[s].own /\ sockets'[s].st # "none"
<1>1. CASE r = NoLogRun
  BY <1>1, SocketsClosed DEF Rerun, SocketsOfTheView
<1>2. CASE r # NoLogRun
  <2>1. Connected(r, CleanedUp(sockets)) /\ reconnecting' = FALSE
    BY <1>2 DEF Rerun
  <2>2. /\ sockets' \in [LogSockets -> LogSocket] /\ wsRef' \in LogSockets
        /\ sockets'[wsRef'].own /\ sockets'[wsRef'].run = r /\ sockets'[wsRef'].st = "connecting"
        /\ \A s \in LogSockets \ {wsRef'} : sockets'[s] = CleanedUp(sockets)[s]
    BY <2>1, SocketsClosed, SocketsAfterConnect
  <2>3. SocketsOfTheView'
    BY <1>2, <2>1, <2>2, SocketsClosed DEF SocketsOfTheView
  <2> QED BY <2>1, <2>2, <2>3
<1> QED BY <1>1, <1>2

LEMMA LogStep == LogInv /\ LogNext => LogInv'
<1> SUFFICES ASSUME LogInv, LogNext
             PROVE  LogInv'
  OBVIOUS
<1>0. LogTypeOK /\ OnceAndSeen /\ SocketsOfTheView /\ OwnLinesOnly /\ NeverCutOff
  BY DEF LogInv
<1>a. /\ logKind \in LogKinds /\ published \in [LogRuns -> 0..MaxLogEntries]
      /\ sockets \in [LogSockets -> LogSocket]
      /\ entries \in [LogRuns -> [1..MaxLogEntries -> 0..2]]
      /\ viewedRun \in LogRuns \cup {NoLogRun}
      /\ MaxLogEntries \in Nat
  BY <1>0, LiveLogsAssumption DEF LogTypeOK, LiveLogsAssumption
\* The lines, and the sockets' part, are kept one without the other.
<1>b. ASSUME UNCHANGED <<logKind, published, logActive, entries, seenKeys, orphaned, viewedRun>>,
             sockets' \in [LogSockets -> LogSocket], wsRef' \in LogSockets \cup {NoLogSocket},
             reconnecting' \in BOOLEAN, SocketsOfTheView', NeverCutOff'
      PROVE  LogInv'
  BY <1>0, <1>b DEF LogInv, LogTypeOK, OnceAndSeen, OwnLinesOnly
<1>1. ASSUME NEW r \in LogRuns \cup {NoLogRun}, ViewRun(r) PROVE LogInv'
  <2>1. /\ sockets' \in [LogSockets -> LogSocket]
        /\ wsRef' \in LogSockets \cup {NoLogSocket}
        /\ reconnecting' = FALSE
        /\ SocketsOfTheView'
        /\ r # NoLogRun => \E s \in LogSockets : sockets'[s].own /\ sockets'[s].st # "none"
    BY <1>0, <1>1, SocketsAfterRerun DEF ViewRun
  <2>2. /\ entries' \in [LogRuns -> [1..MaxLogEntries -> 0..2]]
        /\ \A q \in LogRuns, n \in 1..MaxLogEntries : entries'[q][n] = 0
    BY <1>1 DEF ViewRun, ResetEntries, NoEntries
  <2>3. LogTypeOK'
    BY <1>0, <1>1, <2>1, <2>2 DEF ViewRun, ResetEntries, LogTypeOK
  <2>4. OnceAndSeen' /\ OwnLinesOnly'
    BY <2>2 DEF OnceAndSeen, OwnLinesOnly
  <2>5. NeverCutOff'
    BY <1>1, <2>1 DEF ViewRun, NeverCutOff
  <2> QED BY <2>1, <2>3, <2>4, <2>5 DEF LogInv
<1>2. CASE LogTokenChange
  <2>1. /\ sockets' \in [LogSockets -> LogSocket]
        /\ wsRef' \in LogSockets \cup {NoLogSocket}
        /\ reconnecting' = FALSE
        /\ SocketsOfTheView'
        /\ \E s \in LogSockets : sockets'[s].own /\ sockets'[s].st # "none"
    BY <1>0, <1>a, <1>2, SocketsAfterRerun DEF LogTokenChange
  <2>2. NeverCutOff'
    BY <2>1 DEF NeverCutOff
  <2> QED BY <1>2, <1>b, <2>1, <2>2 DEF LogTokenChange
<1>3. ASSUME NEW r \in LogRuns, RunStatusChange(r) PROVE LogInv'
  <2>1. /\ sockets' \in [LogSockets -> LogSocket]
        /\ wsRef' \in LogSockets \cup {NoLogSocket}
        /\ reconnecting' \in BOOLEAN
        /\ SocketsOfTheView'
    <3>1. CASE r = viewedRun
      BY <1>0, <1>3, <3>1, SocketsAfterRerun DEF RunStatusChange
    <3>2. CASE r # viewedRun
      BY <1>0, <1>3, <3>2 DEF RunStatusChange, SocketsOfTheView, LogTypeOK
    <3> QED BY <3>1, <3>2
  <2>2. NeverCutOff'
    <3>1. CASE r = viewedRun
      <4>1. \E s \in LogSockets : sockets'[s].own /\ sockets'[s].st # "none"
        BY <1>0, <1>3, <3>1, LiveLogsAssumption, SocketsAfterRerun
           DEF RunStatusChange, LiveLogsAssumption
      <4> QED BY <4>1 DEF NeverCutOff
    <3>2. CASE r # viewedRun
      BY <1>0, <1>3, <3>2 DEF RunStatusChange, NeverCutOff
    <3> QED BY <3>1, <3>2
  <2>3. logActive' \subseteq LogRuns
    BY <1>0, <1>3 DEF RunStatusChange, LogTypeOK
  <2>4. LogTypeOK'
    BY <1>0, <1>3, <2>1, <2>3 DEF RunStatusChange, LogTypeOK
  <2>5. OnceAndSeen' /\ OwnLinesOnly'
    BY <1>0, <1>3 DEF RunStatusChange, OnceAndSeen, OwnLinesOnly
  <2> QED BY <2>1, <2>2, <2>4, <2>5 DEF LogInv
<1>4. ASSUME NEW r \in LogRuns, PublishLine(r) PROVE LogInv'
  <2>1. published' \in [LogRuns -> 0..MaxLogEntries]
    BY <1>a, <1>4, LiveLogsAssumption DEF PublishLine, LiveLogsAssumption
  <2> QED
    BY <1>0, <1>4, <2>1 DEF PublishLine, LogInv, LogTypeOK, OnceAndSeen, SocketsOfTheView,
                            OwnLinesOnly, NeverCutOff
<1>c. ASSUME NEW s \in LogSockets, sockets[s].st # "none"
      PROVE  /\ sockets[s].run \in LogRuns
             /\ published[sockets[s].run] \in 0..MaxLogEntries
             /\ sockets[s].next \in 1..MaxLogEntries + 1 /\ sockets[s].until \in 0..MaxLogEntries
  BY <1>0, <1>a, <1>c DEF SocketsOfTheView, LogSocket
<1>d. ASSUME NEW s \in LogSockets, NEW to \in LogSocket, sockets' = [sockets EXCEPT ![s] = to],
             to.run = sockets[s].run, to.own = sockets[s].own,
             sockets[s].st \notin {"none", "closing"}, to.st # "none",
             UNCHANGED <<viewedRun, wsRef, reconnecting, orphaned, logKind, logActive>>
      PROVE  sockets' \in [LogSockets -> LogSocket] /\ SocketsOfTheView' /\ NeverCutOff'
  <2>1. sockets' \in [LogSockets -> LogSocket] /\ sockets'[s] = to
        /\ \A q \in LogSockets \ {s} : sockets'[q] = sockets[q]
    BY <1>a, <1>d
  <2>2. SocketsOfTheView'
    BY <1>0, <1>d, <2>1 DEF SocketsOfTheView
  <2>3. NeverCutOff'
    BY <1>0, <1>d, <2>1 DEF NeverCutOff
  <2> QED BY <2>1, <2>2, <2>3
<1>5. ASSUME NEW s \in LogSockets, SocketOpened(s) PROVE LogInv'
  <2> DEFINE to == [sockets[s] EXCEPT !.st = "backlog", !.until = published[sockets[s].run]]
  <2>1. to \in LogSocket
    BY <1>a, <1>c, <1>5 DEF SocketOpened, LogSocket
  <2>2. /\ sockets' = [sockets EXCEPT ![s] = to] /\ sockets[s].st = "connecting"
        /\ to.run = sockets[s].run /\ to.own = sockets[s].own /\ to.st # "none"
    BY <1>a, <1>5 DEF SocketOpened, LogSocket
  <2> HIDE DEF to
  <2>3. sockets' \in [LogSockets -> LogSocket] /\ SocketsOfTheView' /\ NeverCutOff'
    BY <1>d, <1>5, <2>1, <2>2 DEF SocketOpened
  <2> QED BY <1>0, <1>b, <1>5, <2>3 DEF SocketOpened, LogTypeOK
<1>6. ASSUME NEW s \in LogSockets, SocketSubscribed(s) PROVE LogInv'
  <2> DEFINE to == [sockets[s] EXCEPT !.st = "live", !.next = published[sockets[s].run] + 1]
  <2>1. to \in LogSocket
    <3>1. published[sockets[s].run] + 1 \in 1..MaxLogEntries + 1
      BY <1>a, <1>c, <1>6 DEF SocketSubscribed
    <3> QED BY <1>a, <3>1 DEF LogSocket
  <2>2. /\ sockets' = [sockets EXCEPT ![s] = to] /\ sockets[s].st = "backlog"
        /\ to.run = sockets[s].run /\ to.own = sockets[s].own /\ to.st # "none"
    BY <1>a, <1>6 DEF SocketSubscribed, LogSocket
  <2> HIDE DEF to
  <2>3. sockets' \in [LogSockets -> LogSocket] /\ SocketsOfTheView' /\ NeverCutOff'
    BY <1>d, <1>6, <2>1, <2>2 DEF SocketSubscribed
  <2> QED BY <1>0, <1>b, <1>6, <2>3 DEF SocketSubscribed, LogTypeOK
<1>7. ASSUME NEW s \in LogSockets, SocketMessage(s) PROVE LogInv'
  <2> DEFINE n == sockets[s].next
             r == sockets[s].run
             to == [sockets[s] EXCEPT !.next = n + 1]
  <2>1. sockets[s].st \in {"backlog", "live"} /\ r \in LogRuns /\ n \in 1..MaxLogEntries
    BY <1>a, <1>c, <1>7 DEF SocketMessage
  <2>2. to \in LogSocket
    <3>1. n + 1 \in 1..MaxLogEntries + 1
      BY <1>a, <2>1
    <3> QED BY <1>a, <3>1 DEF LogSocket
  <2>3. /\ sockets' = [sockets EXCEPT ![s] = to]
        /\ to.run = sockets[s].run /\ to.own = sockets[s].own /\ to.st # "none"
    BY <1>a, <1>7, <2>1 DEF SocketMessage, LogSocket
  <2>4. AppendEntries({<<r, n>>})
    BY <1>7 DEF SocketMessage
  <2>5. {<<r, n>>} \in SUBSET (LogRuns \X (1..MaxLogEntries))
    BY <2>1
  <2>a. ~orphaned => r = viewedRun
    BY <1>0, <2>1 DEF SocketsOfTheView
  <2> HIDE DEF to, n, r
  <2>6. sockets' \in [LogSockets -> LogSocket] /\ SocketsOfTheView' /\ NeverCutOff'
    BY <1>d, <1>7, <2>1, <2>2, <2>3 DEF SocketMessage
  <2>7. /\ entries' \in [LogRuns -> [1..MaxLogEntries -> 0..2]]
        /\ seenKeys' \subseteq LogRuns \X (1..MaxLogEntries)
        /\ OnceAndSeen'
        /\ \A q \in LogRuns, m \in 1..MaxLogEntries :
             <<q, m>> \notin {<<r, n>>} => entries'[q][m] = entries[q][m]
    BY <1>0, <1>7, <2>4, <2>5, LinesAppended DEF SocketMessage
  <2>8. OwnLinesOnly'
    BY <1>0, <1>7, <2>7, <2>a DEF SocketMessage, OwnLinesOnly
  <2>9. LogTypeOK'
    BY <1>0, <1>7, <2>6, <2>7 DEF SocketMessage, LogTypeOK
  <2> QED BY <2>6, <2>7, <2>8, <2>9 DEF LogInv
<1>8. ASSUME NEW s \in LogSockets, SocketClosed(s) PROVE LogInv'
  <2>1. NoConnection \in LogSocket /\ NoConnection.st = "none" /\ ~NoConnection.own
    BY LiveLogsAssumption DEF LiveLogsAssumption, NoConnection, LogSocket
  <2>2. sockets' \in [LogSockets -> LogSocket] /\ sockets'[s] = NoConnection
        /\ \A q \in LogSockets \ {s} : sockets'[q] = sockets[q]
    BY <1>a, <1>8, <2>1 DEF SocketClosed
  <2>3. Reconnects(s) => viewedRun \in LogRuns
    BY <1>0 DEF Reconnects, SocketsOfTheView
  <2>4. SocketsOfTheView'
    BY <1>0, <1>8, <2>1, <2>2, <2>3 DEF SocketClosed, SocketsOfTheView
  <2>5. NeverCutOff'
    BY <1>0, <1>8, <2>2 DEF SocketClosed, SocketsOfTheView, NeverCutOff, Reconnects
  <2>6. wsRef' \in LogSockets \cup {NoLogSocket} /\ reconnecting' \in BOOLEAN /\ orphaned' \in BOOLEAN
    BY <1>0, <1>8 DEF SocketClosed, LogTypeOK, Reconnects
  <2>7. OnceAndSeen' /\ OwnLinesOnly'
    BY <1>0, <1>8 DEF SocketClosed, OnceAndSeen, OwnLinesOnly
  <2> QED BY <1>0, <1>8, <2>2, <2>4, <2>5, <2>6, <2>7 DEF SocketClosed, LogInv, LogTypeOK
<1>9. CASE PollLogs
  <2> DEFINE lines == {viewedRun} \X (1..published[viewedRun])
  <2>1. viewedRun \in LogRuns /\ published[viewedRun] \in 0..MaxLogEntries
    BY <1>a, <1>9 DEF PollLogs
  <2>2. lines \in SUBSET (LogRuns \X (1..MaxLogEntries))
    BY <1>a, <2>1
  <2>3. /\ entries' \in [LogRuns -> [1..MaxLogEntries -> 0..2]]
        /\ seenKeys' \subseteq LogRuns \X (1..MaxLogEntries)
        /\ OnceAndSeen'
        /\ \A q \in LogRuns, m \in 1..MaxLogEntries :
             <<q, m>> \notin lines => entries'[q][m] = entries[q][m]
    BY <1>0, <1>9, <2>2, LinesAppended DEF PollLogs
  <2>4. OwnLinesOnly'
    BY <1>0, <1>9, <2>3 DEF PollLogs, OwnLinesOnly
  <2>5. LogTypeOK' /\ SocketsOfTheView' /\ NeverCutOff'
    BY <1>0, <1>9, <2>3 DEF PollLogs, LogTypeOK, SocketsOfTheView, NeverCutOff
  <2> QED BY <2>3, <2>4, <2>5 DEF LogInv
<1>10. CASE Reconnect
  <2>1. Connected(viewedRun, Closed(sockets)) /\ viewedRun \in LogRuns
    BY <1>0, <1>10 DEF Reconnect, SocketsOfTheView
  <2>2. /\ sockets' \in [LogSockets -> LogSocket] /\ wsRef' \in LogSockets
        /\ sockets'[wsRef'].own /\ sockets'[wsRef'].run = viewedRun
        /\ sockets'[wsRef'].st = "connecting"
        /\ \A q \in LogSockets \ {wsRef'} : sockets'[q] = Closed(sockets)[q]
    BY <1>0, <2>1, SocketsClosed, SocketsAfterConnect
  <2>3. SocketsOfTheView'
    BY <1>0, <1>10, <2>1, <2>2, SocketsClosed DEF Reconnect, SocketsOfTheView
  <2>4. NeverCutOff'
    BY <2>2 DEF NeverCutOff
  <2> QED BY <1>10, <1>b, <2>2, <2>3, <2>4 DEF Reconnect
<1> QED
  BY <1>1, <1>2, <1>3, <1>4, <1>5, <1>6, <1>7, <1>8, <1>9, <1>10 DEF LogNext

LEMMA LogInvariance == Spec => []LogInv
<1>1. Init => LogInv
  BY LogInitial DEF Init
<1>2. LogInv /\ [Next]_consoleVars => LogInv'
  <2> SUFFICES ASSUME LogInv, [Next]_consoleVars
               PROVE  LogInv'
    OBVIOUS
  <2>1. CASE Logs
    BY <2>1, LogStep DEF Logs
  <2>2. CASE UNCHANGED logVars
    BY <2>2 DEF logVars, LogInv, LogTypeOK, OnceAndSeen, SocketsOfTheView, OwnLinesOnly, NeverCutOff
  <2>3. Logs \/ UNCHANGED logVars
    BY DEF Next, consoleVars, Terminal, Editor, Form, Schedule, Workflow
  <2> QED
    BY <2>1, <2>2, <2>3
<1> QED
  BY <1>1, <1>2, PTL DEF Spec

\* A line that comes by poll, in the backlog of every new socket and live is
\* displayed once, in a job's and a flow's log.
THEOREM LinesAreShownOnce == Spec => []NoLineTwice
<1>1. LogInv => NoLineTwice
  BY DEF LogInv, OnceAndSeen, NoLineTwice
<1> QED BY <1>1, LogInvariance, PTL

\* The panel shows only the lines of the run it is given, whatever sockets are still
\* closing, as long as no late onclose cleared the hold of another socket.
THEOREM LinesAreOfTheRunShown == Spec => []OwnLinesOnly
BY LogInvariance, PTL DEF LogInv

\* While a job's or an active flow's log is displayed there is always a socket that
\* will be replaced when it closes, or a timer that opens one.
THEOREM LogsStayConnected == Spec => []NeverCutOff
BY LogInvariance, PTL DEF LogInv

-----------------------------------------------------------------------------
(* The remediation workflow.                                               *)

JobRun == [st : JobStatuses, job : SourceRuns \cup {NoRun}]

\* A workflow is one of a run that exists, its re-audit exists, and if it is done
\* that has completed.
StoredWell(kept, runs) ==
  \A r \in ReportRuns :
    /\ runs[r].st = "none" => kept[r] = NoWorkflow
    /\ kept[r].reauditRunId # NoRun => runs[kept[r].reauditRunId].st # "none"
    /\ kept[r].reauditCompleted => /\ kept[r].reauditRunId # NoRun
                                   /\ runs[kept[r].reauditRunId].st = "completed"

StoredOfItsRun(kept, runs) ==
  \A r \in ReportRuns :
    /\ kept[r].sourceRunId \in {r, NoRun}
    /\ kept[r].reauditRunId # NoRun => runs[kept[r].reauditRunId].job = runs[r].job

\* The state in the panel is the stored one.
ContextIsStored(ctx, kept, runs) ==
  /\ ctx.state = kept[ctx.storageRunId]
  /\ runs[ctx.storageRunId].st # "none"

KnownIsTrue(status, runs) == \A n \in Reaudits : status[n] = "completed" => runs[n].st = "completed"

WorkflowInv ==
  /\ WorkflowTypeOK
  /\ StoredWell(workflows, jobRuns)
  /\ ContextIsStored(workflowCtx, workflows, jobRuns)
  /\ KnownIsTrue(known, jobRuns)
  /\ ~strayed => StoredOfItsRun(workflows, jobRuns)

LEMMA WorkflowTypes ==
  /\ NoRun \notin SourceRuns /\ NoRun \notin Reaudits
  /\ NoWorkflow \in WorkflowState
  /\ SourceRuns \subseteq ReportRuns /\ Reaudits \subseteq ReportRuns
BY RemediationWorkflowAssumption
   DEF RemediationWorkflowAssumption, NoWorkflow, WorkflowState, ReportRuns

LEMMA WorkflowInitial == WorkflowInit => WorkflowInv
<1> SUFFICES ASSUME WorkflowInit
             PROVE  WorkflowInv
  OBVIOUS
<1>1. \A r \in ReportRuns : workflows[r] = NoWorkflow
  BY DEF WorkflowInit
<1>2. jobRuns \in [ReportRuns -> JobRun] /\ \A r \in SourceRuns : jobRuns[r].st = "completed"
  BY WorkflowTypes DEF WorkflowInit, JobRun, JobStatuses
<1>3. reportRun \in ReportRuns /\ workflowCtx \in Context
  BY WorkflowTypes DEF WorkflowInit, Context
<1>4. WorkflowTypeOK
  BY <1>2, <1>3, WorkflowTypes DEF WorkflowInit, WorkflowTypeOK, JobRun, JobStatuses
<1>5. StoredWell(workflows, jobRuns) /\ StoredOfItsRun(workflows, jobRuns)
  <2>1. /\ NoWorkflow.sourceRunId = NoRun /\ NoWorkflow.reauditRunId = NoRun
        /\ NoWorkflow.reauditCompleted = FALSE
    BY DEF NoWorkflow
  <2> QED BY <1>1, <2>1 DEF StoredWell, StoredOfItsRun
<1>6. ContextIsStored(workflowCtx, workflows, jobRuns)
  BY <1>1, <1>2, WorkflowTypes DEF WorkflowInit, ContextIsStored
<1>7. KnownIsTrue(known, jobRuns)
  BY DEF WorkflowInit, KnownIsTrue
<1> QED BY <1>4, <1>5, <1>6, <1>7 DEF WorkflowInv

LEMMA ContextFound ==
  ASSUME NEW kept \in [ReportRuns -> WorkflowState], NEW runs \in [ReportRuns -> JobRun],
         StoredWell(kept, runs), NEW r \in ReportRuns, runs[r].st # "none"
  PROVE  FindContext(r, kept) \in Context /\ ContextIsStored(FindContext(r, kept), kept, runs)
<1> DEFINE of == {s \in ReportRuns : kept[s] # NoWorkflow /\ kept[s].reauditRunId = r}
           s == IF kept[r] # NoWorkflow \/ of = {} THEN r ELSE CHOOSE x \in of : TRUE
<1>1. s = r \/ s \in of
  OBVIOUS
<1>2. s \in ReportRuns /\ runs[s].st # "none"
  BY <1>1 DEF StoredWell
<1>3. FindContext(r, kept) = [storageRunId |-> s, state |-> kept[s]]
  BY DEF FindContext
<1> HIDE DEF s
<1> QED BY <1>2, <1>3 DEF Context, ContextIsStored

\* A render that finds the re-audit completed writes that, and no other part of a
\* workflow.
LEMMA RenderedWell ==
  ASSUME NEW kept \in [ReportRuns -> WorkflowState], NEW runs \in [ReportRuns -> JobRun],
         NEW status \in [Reaudits -> JobStatuses], NEW ctx \in Context, NEW r \in ReportRuns,
         StoredWell(kept, runs), ContextIsStored(ctx, kept, runs), KnownIsTrue(status, runs),
         Rendered(r, ctx, kept, status)
  PROVE  /\ workflows' \in [ReportRuns -> WorkflowState]
         /\ reportRun' \in ReportRuns /\ workflowCtx' \in Context
         /\ StoredWell(workflows', runs) /\ ContextIsStored(workflowCtx', workflows', runs)
         /\ StoredOfItsRun(kept, runs) => StoredOfItsRun(workflows', runs)
<1> DEFINE w == ctx.state
           s == ctx.storageRunId
           done == [kept EXCEPT ![s] = [w EXCEPT !.reauditCompleted = TRUE]]
           completes == w.reauditRunId # NoRun /\ ~w.reauditCompleted
                        /\ status[w.reauditRunId] = "completed"
<1>1. s \in ReportRuns /\ w = kept[s] /\ w \in WorkflowState /\ runs[s].st # "none"
  BY DEF Context, ContextIsStored
<1>2. CASE ~completes
  BY <1>2 DEF Rendered
<1>3. CASE completes
  <2>1. /\ workflows' = done /\ reportRun' = w.reauditRunId
        /\ workflowCtx' = FindContext(w.reauditRunId, done)
    BY <1>3 DEF Rendered
  <2>2. w.reauditRunId \in Reaudits /\ runs[w.reauditRunId].st = "completed"
    BY <1>1, <1>3 DEF WorkflowState, KnownIsTrue
  <2>3. done \in [ReportRuns -> WorkflowState]
    BY <1>1 DEF WorkflowState
  <2>4. /\ \A q \in ReportRuns \ {s} : done[q] = kept[q]
        /\ done[s].sourceRunId = w.sourceRunId /\ done[s].reauditRunId = w.reauditRunId
    BY <1>1 DEF WorkflowState
  <2> HIDE DEF done, completes, w, s
  <2>5. StoredWell(done, runs)
    BY <1>1, <2>2, <2>4, WorkflowTypes DEF StoredWell
  <2>6. StoredOfItsRun(kept, runs) => StoredOfItsRun(done, runs)
    BY <1>1, <2>4 DEF StoredOfItsRun
  <2>7. w.reauditRunId \in ReportRuns /\ runs[w.reauditRunId].st # "none"
    BY <2>2, WorkflowTypes
  <2>8. workflowCtx' \in Context /\ ContextIsStored(workflowCtx', done, runs)
    BY <2>1, <2>3, <2>5, <2>7, ContextFound
  <2> QED BY <2>1, <2>3, <2>5, <2>6, <2>7, <2>8
<1> QED BY <1>2, <1>3

LEMMA WorkflowStep == WorkflowInv /\ WorkflowNext => WorkflowInv'
<1> SUFFICES ASSUME WorkflowInv, WorkflowNext
             PROVE  WorkflowInv'
  OBVIOUS
<1>0. /\ WorkflowTypeOK
      /\ StoredWell(workflows, jobRuns)
      /\ ContextIsStored(workflowCtx, workflows, jobRuns)
      /\ KnownIsTrue(known, jobRuns)
      /\ ~strayed => StoredOfItsRun(workflows, jobRuns)
  BY DEF WorkflowInv
<1>a. /\ jobRuns \in [ReportRuns -> JobRun]
      /\ workflows \in [ReportRuns -> WorkflowState]
      /\ known \in [Reaudits -> JobStatuses]
      /\ reportRun \in ReportRuns
      /\ workflowCtx \in Context
      /\ workflowCtx.storageRunId \in ReportRuns /\ workflowCtx.state \in WorkflowState
      /\ fromRun \in SourceRuns \cup {NoRun} /\ reaudit \in SourceRuns \cup {NoRun}
      /\ strayed \in BOOLEAN
  BY <1>0 DEF WorkflowTypeOK, JobRun, Context
<1>b. ASSUME UNCHANGED <<jobRuns, known, workflows, reportRun, workflowCtx, strayed>>,
             fromRun' \in SourceRuns \cup {NoRun}, reaudit' \in SourceRuns \cup {NoRun}
      PROVE  WorkflowInv'
  BY <1>0, <1>b DEF WorkflowInv, WorkflowTypeOK
<1>1. ASSUME NEW r \in ReportRuns, SelectRun(r) PROVE WorkflowInv'
  <2>1. FindContext(r, workflows) \in Context
        /\ ContextIsStored(FindContext(r, workflows), workflows, jobRuns)
    BY <1>0, <1>a, <1>1, ContextFound DEF SelectRun
  <2>2. Rendered(r, FindContext(r, workflows), workflows, known)
    BY <1>1 DEF SelectRun
  <2>3. /\ workflows' \in [ReportRuns -> WorkflowState]
        /\ reportRun' \in ReportRuns /\ workflowCtx' \in Context
        /\ StoredWell(workflows', jobRuns) /\ ContextIsStored(workflowCtx', workflows', jobRuns)
        /\ StoredOfItsRun(workflows, jobRuns) => StoredOfItsRun(workflows', jobRuns)
    BY <1>0, <1>a, <2>1, <2>2, RenderedWell
  <2> QED BY <1>0, <1>1, <2>3 DEF SelectRun, WorkflowInv, WorkflowTypeOK
<1>2. CASE StartRemediation
  BY <1>2, <1>b, <1>a DEF StartRemediation
<1>3. CASE RemediationRefused \/ ReauditRefused
  BY <1>3, <1>b, <1>a DEF RemediationRefused, ReauditRefused
<1>4. CASE StartReaudit
  <2>1. jobRuns[reportRun].job \in SourceRuns \cup {NoRun}
    BY <1>a DEF JobRun
  <2> QED BY <1>4, <1>b, <1>a, <2>1 DEF StartReaudit
<1>5. CASE RemediationStarted
  <2> DEFINE s == workflowCtx.storageRunId
             w == [NoWorkflow EXCEPT !.sourceRunId = fromRun]
             kept == [workflows EXCEPT ![s] = w]
             ctx == [storageRunId |-> s, state |-> w]
  <2>1. w \in WorkflowState /\ w.reauditRunId = NoRun /\ ~w.reauditCompleted /\ w.sourceRunId = fromRun
    BY <1>a DEF NoWorkflow, WorkflowState
  <2>2. s \in ReportRuns /\ jobRuns[s].st # "none"
    BY <1>0, <1>a DEF ContextIsStored
  <2>3. Rendered(reportRun, ctx, kept, known) /\ (~strayed' => ~strayed /\ s = fromRun)
    BY <1>5 DEF RemediationStarted, WriteWorkflow
  <2>4. /\ kept \in [ReportRuns -> WorkflowState] /\ kept[s] = w
        /\ \A q \in ReportRuns \ {s} : kept[q] = workflows[q]
    BY <1>a, <2>1, <2>2
  <2>5. ctx \in Context /\ ctx.storageRunId = s /\ ctx.state = w
    BY <2>1, <2>2 DEF Context
  <2> HIDE DEF s, w, kept, ctx
  <2>6. StoredWell(kept, jobRuns) /\ ContextIsStored(ctx, kept, jobRuns)
    BY <1>0, <2>1, <2>2, <2>4, <2>5 DEF StoredWell, ContextIsStored
  <2>7. ~strayed' => StoredOfItsRun(kept, jobRuns)
    BY <1>0, <2>1, <2>2, <2>3, <2>4 DEF StoredOfItsRun
  <2>8. /\ workflows' \in [ReportRuns -> WorkflowState]
        /\ reportRun' \in ReportRuns /\ workflowCtx' \in Context
        /\ StoredWell(workflows', jobRuns) /\ ContextIsStored(workflowCtx', workflows', jobRuns)
        /\ StoredOfItsRun(kept, jobRuns) => StoredOfItsRun(workflows', jobRuns)
    BY <1>0, <1>a, <2>3, <2>4, <2>5, <2>6, RenderedWell
  <2>9. WorkflowTypeOK'
    BY <1>0, <1>a, <1>5, <2>8 DEF RemediationStarted, WorkflowTypeOK
  <2> QED BY <1>0, <1>5, <2>7, <2>8, <2>9 DEF RemediationStarted, WorkflowInv
<1>6. ASSUME NEW n \in Reaudits, ReauditStarted(n) PROVE WorkflowInv'
  <2>0. /\ n \in ReportRuns /\ jobRuns[n].st = "none"
        /\ jobRuns' = [jobRuns EXCEPT ![n] = [st |-> "active", job |-> reaudit]]
        /\ reaudit \in SourceRuns /\ reaudit' = NoRun /\ known' = known /\ fromRun' = fromRun
    BY <1>a, <1>6, WorkflowTypes DEF ReauditStarted
  <2>1. /\ jobRuns' \in [ReportRuns -> JobRun]
        /\ jobRuns'[n].st = "active" /\ jobRuns'[n].job = reaudit
        /\ \A q \in ReportRuns \ {n} : jobRuns'[q] = jobRuns[q]
    BY <1>a, <2>0 DEF JobRun, JobStatuses
  <2>2. /\ StoredWell(workflows, jobRuns') /\ KnownIsTrue(known, jobRuns')
        /\ ContextIsStored(workflowCtx, workflows, jobRuns')
        /\ workflowCtx.storageRunId # n /\ workflows[n] = NoWorkflow
        /\ \A q \in ReportRuns : workflows[q].reauditRunId # n
    <3>1. workflows[n] = NoWorkflow /\ \A q \in ReportRuns : workflows[q].reauditRunId # n
      BY <1>0, <2>0, <1>6, WorkflowTypes DEF StoredWell
    <3>2. \A q \in ReportRuns : workflows[q].reauditRunId \in ReportRuns \cup {NoRun}
      BY <1>a, WorkflowTypes DEF WorkflowState
    <3>3. StoredWell(workflows, jobRuns')
      BY <1>0, <2>1, <3>1, <3>2 DEF StoredWell
    <3>4. workflowCtx.storageRunId # n /\ ContextIsStored(workflowCtx, workflows, jobRuns')
      BY <1>0, <1>a, <2>0, <2>1 DEF ContextIsStored
    <3>5. KnownIsTrue(known, jobRuns')
      BY <1>0, <2>0, <2>1, WorkflowTypes DEF KnownIsTrue
    <3> QED BY <3>1, <3>3, <3>4, <3>5
  <2>3. ~strayed => StoredOfItsRun(workflows, jobRuns')
    <3>1. \A q \in ReportRuns : workflows[q].reauditRunId \in ReportRuns \cup {NoRun}
      BY <1>a, WorkflowTypes DEF WorkflowState
    <3> QED BY <1>0, <2>1, <2>2, <3>1 DEF StoredOfItsRun, NoWorkflow
  <2>4. strayed' \in BOOLEAN
        /\ (~strayed' => ~strayed /\ jobRuns[workflowCtx.storageRunId].job = reaudit)
    BY <1>a, <1>6 DEF ReauditStarted
  <2>5. CASE UNCHANGED <<workflows, reportRun, workflowCtx>>
    BY <1>0, <1>a, <2>0, <2>1, <2>2, <2>3, <2>4, <2>5 DEF WorkflowInv, WorkflowTypeOK, JobRun
  <2>6. CASE WriteWorkflow(ReauditOf(n))
    <3> DEFINE s == workflowCtx.storageRunId
               w == ReauditOf(n)
               kept == [workflows EXCEPT ![s] = w]
               ctx == [storageRunId |-> s, state |-> w]
    <3>1. /\ w \in WorkflowState /\ w.reauditRunId = n /\ ~w.reauditCompleted
          /\ w.sourceRunId = workflowCtx.state.sourceRunId
      BY <1>a, <1>6 DEF ReauditOf, WorkflowState
    <3>2. s \in ReportRuns /\ workflowCtx.state = workflows[s] /\ jobRuns'[s].st # "none" /\ s # n
      BY <1>a, <2>2 DEF ContextIsStored
    <3>3. Rendered(reportRun, ctx, kept, known)
      BY <2>6 DEF WriteWorkflow
    <3>4. /\ kept \in [ReportRuns -> WorkflowState] /\ kept[s] = w
          /\ \A q \in ReportRuns \ {s} : kept[q] = workflows[q]
      BY <1>a, <3>1, <3>2
    <3>5. ctx \in Context /\ ctx.storageRunId = s /\ ctx.state = w
      BY <3>1, <3>2 DEF Context
    <3>a. ~strayed' => ~strayed /\ jobRuns'[s].job = reaudit
      BY <2>1, <2>4, <3>2
    <3> HIDE DEF s, w, kept, ctx
    <3>6. StoredWell(kept, jobRuns') /\ ContextIsStored(ctx, kept, jobRuns')
      BY <2>1, <2>2, <3>1, <3>2, <3>4, <3>5 DEF StoredWell, ContextIsStored
    <3>7. ~strayed' => StoredOfItsRun(kept, jobRuns')
      BY <2>1, <2>3, <3>1, <3>2, <3>4, <3>a DEF StoredOfItsRun
    <3>8. /\ workflows' \in [ReportRuns -> WorkflowState]
          /\ reportRun' \in ReportRuns /\ workflowCtx' \in Context
          /\ StoredWell(workflows', jobRuns') /\ ContextIsStored(workflowCtx', workflows', jobRuns')
          /\ StoredOfItsRun(kept, jobRuns') => StoredOfItsRun(workflows', jobRuns')
      BY <1>a, <2>1, <2>2, <3>3, <3>4, <3>5, <3>6, RenderedWell
    <3>9. WorkflowTypeOK'
      BY <1>0, <2>0, <2>1, <2>4, <3>8 DEF WorkflowTypeOK, JobRun
    <3> QED BY <2>0, <2>2, <3>7, <3>8, <3>9 DEF WorkflowInv
  <2> QED BY <1>6, <2>5, <2>6 DEF ReauditStarted
<1>7. ASSUME NEW n \in Reaudits, ReauditEnds(n) PROVE WorkflowInv'
  <2>1. PICK st \in {"completed", "failed"} : jobRuns' = [jobRuns EXCEPT ![n].st = st]
    BY <1>7 DEF ReauditEnds
  <2>2. /\ jobRuns' \in [ReportRuns -> JobRun]
        /\ jobRuns[n].st = "active" /\ jobRuns'[n].st \in {"completed", "failed"}
        /\ \A q \in ReportRuns : jobRuns'[q].job = jobRuns[q].job
        /\ \A q \in ReportRuns \ {n} : jobRuns'[q] = jobRuns[q]
    BY <1>a, <1>7, <2>1, WorkflowTypes DEF ReauditEnds, JobRun, JobStatuses
  <2>3. \A q \in ReportRuns : workflows[q].reauditRunId \in ReportRuns \cup {NoRun}
    BY <1>a, WorkflowTypes DEF WorkflowState
  <2>4. StoredWell(workflows, jobRuns')
    BY <1>0, <2>2, <2>3 DEF StoredWell
  <2>5. ~strayed => StoredOfItsRun(workflows, jobRuns')
    BY <1>0, <2>2, <2>3 DEF StoredOfItsRun
  <2>6. ContextIsStored(workflowCtx, workflows, jobRuns') /\ KnownIsTrue(known, jobRuns')
    BY <1>0, <1>a, <2>2, WorkflowTypes DEF ContextIsStored, KnownIsTrue
  <2> QED
    BY <1>0, <1>7, <2>2, <2>4, <2>5, <2>6 DEF ReauditEnds, WorkflowInv, WorkflowTypeOK, JobRun
<1>8. CASE PollReaudit
  <2> DEFINE n == workflowCtx.state.reauditRunId
  <2>1. n \in Reaudits
    BY <1>a, <1>8 DEF PollReaudit, WorkflowState
  <2>2. known' = [known EXCEPT ![n] = jobRuns[n].st] /\ Rendered(reportRun, workflowCtx, workflows, known')
    BY <1>8 DEF PollReaudit
  <2>3. known' \in [Reaudits -> JobStatuses] /\ KnownIsTrue(known', jobRuns)
    BY <1>0, <1>a, <2>1, <2>2, WorkflowTypes DEF KnownIsTrue, JobRun
  <2>4. /\ workflows' \in [ReportRuns -> WorkflowState]
        /\ reportRun' \in ReportRuns /\ workflowCtx' \in Context
        /\ StoredWell(workflows', jobRuns) /\ ContextIsStored(workflowCtx', workflows', jobRuns)
        /\ StoredOfItsRun(workflows, jobRuns) => StoredOfItsRun(workflows', jobRuns)
    BY <1>0, <1>a, <2>2, <2>3, RenderedWell
  <2> QED BY <1>0, <1>8, <2>3, <2>4 DEF PollReaudit, WorkflowInv, WorkflowTypeOK
<1> QED
  BY <1>1, <1>2, <1>3, <1>4, <1>5, <1>6, <1>7, <1>8 DEF WorkflowNext

LEMMA WorkflowInvariance == Spec => []WorkflowInv
<1>1. Init => WorkflowInv
  BY WorkflowInitial DEF Init
<1>2. WorkflowInv /\ [Next]_consoleVars => WorkflowInv'
  <2> SUFFICES ASSUME WorkflowInv, [Next]_consoleVars
               PROVE  WorkflowInv'
    OBVIOUS
  <2>1. CASE Workflow
    BY <2>1, WorkflowStep DEF Workflow
  <2>2. CASE UNCHANGED workflowVars
    BY <2>2 DEF workflowVars, WorkflowInv, WorkflowTypeOK
  <2>3. Workflow \/ UNCHANGED workflowVars
    BY DEF Next, consoleVars, Logs, Terminal, Editor, Form, Schedule
  <2> QED
    BY <2>1, <2>2, <2>3
<1> QED
  BY <1>1, <1>2, PTL DEF Spec

\* A cycle is marked as done only when the re-audit it names has completed, however
\* many re-audits were started before their status was known.
THEOREM CyclesEndByTheirReaudit == Spec => []DoneByItsReaudit
<1>1. WorkflowInv => DoneByItsReaudit
  BY DEF WorkflowInv, StoredWell, DoneByItsReaudit
<1> QED BY <1>1, WorkflowInvariance, PTL

\* The workflow stored for a run is its own, also when the user goes from run to run,
\* as long as no answer came for a run that was not shown any more.
THEOREM WorkflowsStayWithTheirRun == Spec => []WorkflowOfItsRun
<1>1. WorkflowInv => WorkflowOfItsRun
  BY DEF WorkflowInv, StoredOfItsRun, WorkflowOfItsRun
<1> QED BY <1>1, WorkflowInvariance, PTL

-----------------------------------------------------------------------------

\* Every view of the console keeps to its types, for any values of the constants.
THEOREM ConsoleTypeCorrect == Spec => []TypeOK
<1>1. Spec => [](view \in Views)
  <2>1. Init => view \in Views
    BY DEF Init
  <2>2. view \in Views /\ [Next]_consoleVars => (view \in Views)'
    BY DEF Next, consoleVars
  <2> QED
    BY <2>1, <2>2, PTL DEF Spec
<1>2. /\ view \in Views
      /\ TerminalInv /\ EditorInv /\ FormInv /\ ScheduleInv /\ LogInv /\ WorkflowInv
      => TypeOK
  BY DEF TypeOK, TerminalInv, EditorInv, FormInv, ScheduleInv, LogInv, WorkflowInv
<1> QED
  BY <1>1, <1>2, TerminalInvariance, EditorInvariance, FormInvariance, ScheduleInvariance,
     LogInvariance, WorkflowInvariance, PTL

================================================================================
