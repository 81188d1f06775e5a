--------------------------- MODULE ConsoleTerminal ---------------------------
(***************************************************************************)
(* The shell in the browser: ConsoleTerminal.tsx and the status that       *)
(* ConsolePage.tsx displays above it.  An effect opens one socket, and     *)
(* closes it when the token or the session number changes; the events of   *)
(* the closed one come later.                                              *)
(***************************************************************************)
CONSTANTS
  TermSockets,    \* bound: sockets that exist at a time
  NoTermSocket

ASSUME ConsoleTerminalAssumption == NoTermSocket \notin TermSockets

VARIABLES
  termStatus,  \* status of ConsolePage
  termSocket,  \* termSocket[s]
  terminal,    \* the socket of the effect in force
  screen       \* the sessions whose output is in the terminal

terminalVars == <<termStatus, termSocket, terminal, screen>>

TermSocketState == {"none", "connecting", "open", "failed", "closing"}

TerminalTypeOK ==
  /\ termStatus \in {"connecting", "connected", "disconnected", "error"}
  /\ termSocket \in [TermSockets -> TermSocketState]
  /\ terminal \in TermSockets \cup {NoTermSocket}
  /\ screen \subseteq TermSockets

TerminalInit ==
  /\ termStatus = "connecting"
  /\ termSocket = [s \in TermSockets |-> "none"]
  /\ terminal = NoTermSocket
  /\ screen = {}

-----------------------------------------------------------------------------

BugNotDisposed(s) == FALSE

\* disposed, of the effect that opened s.
Disposed(s) == s # terminal

\* onStatusChangeRef.current, by a handler of socket s.
Report(s, status) == termStatus' = IF Disposed(s) THEN termStatus ELSE status

\* ws.close(), in the clean-up of the effect.
DisposeSocket ==
  [s \in TermSockets |->
     IF s = terminal /\ termSocket[s] \in {"connecting", "open"} THEN "closing" ELSE termSocket[s]]

\* The effect runs: a new session by the button, a new token, or the first time.
NewSession ==
  /\ \E s \in TermSockets :
       /\ DisposeSocket[s] = "none"
       /\ termSocket' = [DisposeSocket EXCEPT ![s] = "connecting"]
       /\ terminal' = s
  /\ termStatus' = "connecting"
  /\ screen' = {}

\* onopen
TerminalOpened(s) ==
  /\ termSocket[s] = "connecting"
  /\ termSocket' = [termSocket EXCEPT ![s] = "open"]
  /\ Report(s, "connected")
  /\ UNCHANGED <<terminal, screen>>

\* onmessage: output of the shell, which may be on its way when the socket closes.
TerminalOutput(s) ==
  /\ termSocket[s] \in {"open", "closing"}
  /\ screen' = IF Disposed(s) THEN screen ELSE screen \cup {s}
  /\ UNCHANGED <<termStatus, termSocket, terminal>>

\* onerror, which comes before onclose.
TerminalFailed(s) ==
  /\ termSocket[s] \in {"connecting", "open", "closing"}
  /\ termSocket' = [termSocket EXCEPT ![s] = "failed"]
  /\ Report(s, "error")
  /\ UNCHANGED <<terminal, screen>>

\* onclose
TerminalClosed(s) ==
  /\ termSocket[s] \in {"open", "failed", "closing"}
  /\ termSocket' = [termSocket EXCEPT ![s] = "none"]
  /\ Report(s, "disconnected")
  /\ UNCHANGED <<terminal, screen>>

TerminalNext ==
  \/ NewSession
  \/ \E s \in TermSockets :
       TerminalOpened(s) \/ TerminalOutput(s) \/ TerminalFailed(s) \/ TerminalClosed(s)

-----------------------------------------------------------------------------

\* The status line and the output belong to the session the user types into,
\* whatever the sockets of earlier sessions still do: "connected" is never a
\* session that is over, nor does the end of an earlier one hide a shell that
\* runs.
ConsoleTellsItsSession ==
  terminal # NoTermSocket =>
    /\ (termStatus = "connected") = (termSocket[terminal] = "open")
    /\ (termStatus = "disconnected") = (termSocket[terminal] = "none")
    /\ screen \subseteq {terminal}

=============================================================================
