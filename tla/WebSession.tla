----------------------------- MODULE WebSession -----------------------------
(***************************************************************************)
(* Who is signed in to the console, in one browser tab: AuthProvider.tsx   *)
(* (local accounts), the request function of api/client.ts with its single *)
(* refresh for all requests that meet a 401, TokenSync and                 *)
(* clearAuthArtifacts for the query cache, and LoginPage.tsx.  The server  *)
(* is what the tab sees of it: sessions that live until they lapse or are  *)
(* released.                                                               *)
(*                                                                         *)
(* A token is the session it belongs to.  The server may find any access   *)
(* token expired and the tab may find any about to expire, so tokens of    *)
(* one session need not be told apart.                                     *)
(*                                                                         *)
(* The server's part of a call and the arrival of its answer are one step: *)
(* nothing that a tab does between them depends on which came first.       *)
(***************************************************************************)
EXTENDS Naturals, FiniteSets

CONSTANTS
  Users,
  NoUser,
  MaxSessions,  \* bound: sign-ins at the server
  Requests,     \* requests of queries that may be under way at a time
  Timers        \* bound: refreshes of the interval timer under way at a time

ASSUME WebSessionAssumption ==
  /\ NoUser \notin Users /\ "user" \notin Users /\ NoUser # "user"
  /\ MaxSessions \in Nat
  /\ "shared" \notin Timers

VARIABLES
  sessionUser, \* the sessions the server has opened, with their users
  live,        \* the sessions it still honours
  store,       \* sessionStorage: user and tokens
  shown,       \* React state: the user displayed and the token passed down
  bearer,      \* authToken, the module variable of api/client.ts
  login,       \* LoginPage: its step and the user who signs in
  req,         \* req[q]: a request of a query
  refresh,     \* refresh[i]: the session whose POST /auth/refresh is under way
  cache,       \* users whose data the query cache holds
  overtaken    \* history: a refresh was answered when its session was left

server == <<sessionUser, live>>
identity == <<store, shown, bearer>>
calls == <<req, refresh, cache>>
vars == <<server, identity, login, calls, overtaken>>

-----------------------------------------------------------------------------

Sessions == 1..MaxSessions
NoSession == 0

\* "user" is displayed when the storage has no name (refreshLocalAuth).
Identity == [user : Users \cup {NoUser, "user"}, sess : Sessions \cup {NoSession}]

SignedOut == [user |-> NoUser, sess |-> NoSession]

\* "pending": for the password or for the code of the second factor.
LoginState == [st : {"form", "pending", "mfa"}, user : Users \cup {NoUser}]

LoginForm == [st |-> "form", user |-> NoUser]

\* "waiting": for a refresh, after a 401.  sess: whose token it was sent with, or
\* NoSession once its query is not in the cache any more.  retried: it is the
\* second attempt.
Request == [st : {"idle", "sent", "waiting"}, sess : Sessions \cup {NoSession}, retried : BOOLEAN]

NoRequest == [st |-> "idle", sess |-> NoSession, retried |-> FALSE]

\* "shared" is refreshInFlight, the refresh that requests wait for.
Refreshes == {"shared"} \cup Timers

TypeOK ==
  /\ sessionUser \in [Sessions -> Users \cup {NoUser}]
  /\ live \subseteq Sessions
  /\ store \in Identity
  /\ shown \in Identity
  /\ bearer \in Sessions \cup {NoSession}
  /\ login \in LoginState
  /\ req \in [Requests -> Request]
  /\ refresh \in [Refreshes -> Sessions \cup {NoSession}]
  /\ cache \subseteq Users
  /\ overtaken \in BOOLEAN

Init ==
  /\ sessionUser = [s \in Sessions |-> NoUser]
  /\ live = {}
  /\ store = SignedOut
  /\ shown = SignedOut
  /\ bearer = NoSession
  /\ login = LoginForm
  /\ req = [q \in Requests |-> NoRequest]
  /\ refresh = [i \in Refreshes |-> NoSession]
  /\ cache = {}
  /\ overtaken = FALSE

-----------------------------------------------------------------------------
(* What several handlers have in common.  after is what becomes of the     *)
(* requests otherwise.                                                     *)

\* queryClient.clear(): the cache is empty, and the answers of queries that
\* are under way go to objects nobody looks at.
Detached(after) == [q \in Requests |-> [after[q] EXCEPT !.sess = NoSession]]

BugClearBearerOnly(after) ==
  /\ bearer' = NoSession
  /\ UNCHANGED cache
  /\ req' = after

BugKeepFlights(after) ==
  /\ bearer' = NoSession
  /\ cache' = {}
  /\ req' = after

ClearAuthArtifacts(after) ==
  /\ bearer' = NoSession
  /\ cache' = {}
  /\ req' = Detached(after)

\* clearLocalAuth, clearAuthArtifacts and the resets of the React state.
SignOut(after) ==
  /\ store' = SignedOut
  /\ shown' = SignedOut
  /\ ClearAuthArtifacts(after)

\* shouldClearQueryCacheOnIdentityChange, in an effect of TokenSync: the user
\* changes under a mounted application.
IdentityChanges(u) == shown # SignedOut /\ shown.user # u

\* applyLocalAuth.
ApplyLocalAuth(u, s, after) ==
  /\ store' = [user |-> u, sess |-> s]
  /\ shown' = [user |-> u, sess |-> s]
  /\ bearer' = s
  /\ \/ IdentityChanges(u) /\ cache' = {} /\ req' = Detached(after)
     \/ ~IdentityChanges(u) /\ UNCHANGED cache /\ req' = after

-----------------------------------------------------------------------------
(* LoginPage.                                                              *)

SubmitLogin(u) ==
  /\ shown = SignedOut /\ login.st = "form"
  /\ login' = [st |-> "pending", user |-> u]
  /\ UNCHANGED <<server, identity, calls, overtaken>>

\* A step of the form that the page keeps only as long as it is displayed.
LoginStep(step) == login' = IF shown = SignedOut THEN [login EXCEPT !.st = step] ELSE LoginForm

\* The server opens a session and the tab signs in.
SignedIn ==
  \E s \in Sessions :
    /\ sessionUser[s] = NoUser /\ \A t \in Sessions : t < s => sessionUser[t] # NoUser
    /\ sessionUser' = [sessionUser EXCEPT ![s] = login.user]
    /\ live' = live \cup {s}
    /\ ApplyLocalAuth(login.user, s, req)
    /\ login' = LoginForm
    /\ UNCHANGED <<refresh, overtaken>>

\* onLocalLogin or onMfaVerify returns: signed in; a second factor is asked for,
\* or its code was wrong; or the password was.
LoginAnswered ==
  /\ login.st = "pending"
  /\ \/ SignedIn
     \/ LoginStep("mfa") /\ UNCHANGED <<server, identity, calls, overtaken>>
     \/ login' = LoginForm /\ UNCHANGED <<server, identity, calls, overtaken>>

SubmitCode ==
  /\ shown = SignedOut /\ login.st = "mfa"
  /\ LoginStep("pending")
  /\ UNCHANGED <<server, identity, calls, overtaken>>

BackToPassword ==
  /\ shown = SignedOut /\ login.st = "mfa"
  /\ login' = LoginForm
  /\ UNCHANGED <<server, identity, calls, overtaken>>

-----------------------------------------------------------------------------
(* Requests of queries.                                                    *)

Refreshing == refresh["shared"] # NoSession

SendRequest(q) ==
  /\ shown # SignedOut /\ req[q].st = "idle"
  /\ req' = [req EXCEPT ![q] = [st |-> "sent", sess |-> bearer, retried |-> FALSE]]
  /\ UNCHANGED <<server, identity, login, refresh, cache, overtaken>>

\* The request is over: with data, which go to the cache, or with an error.
RequestDone(q) ==
  /\ req[q].st = "sent"
  /\ \/ UNCHANGED cache
     \/ /\ req[q].sess \in live
        /\ cache' = cache \cup {sessionUser[req[q].sess]}
  /\ req' = [req EXCEPT ![q] = NoRequest]
  /\ UNCHANGED <<server, identity, login, refresh, overtaken>>

\* 401, as get_current_user answers at any time, since any access token may
\* have expired.  Only a first attempt is given another one.
Unauthorized(q) == req[q].st = "sent" /\ ~req[q].retried

\* refreshAuthOnce joins the refresh that is under way ...
JoinRefresh(q) ==
  /\ Unauthorized(q) /\ Refreshing
  /\ req' = [req EXCEPT ![q].st = "waiting"]
  /\ UNCHANGED <<server, identity, login, refresh, cache, overtaken>>

\* ... or starts one, unless nobody is signed in (RequestDone).
StartRefresh(q) ==
  /\ Unauthorized(q) /\ ~Refreshing /\ shown # SignedOut
  /\ refresh' = [refresh EXCEPT !["shared"] = store.sess]
  /\ req' = [req EXCEPT ![q].st = "waiting"]
  /\ UNCHANGED <<server, identity, login, cache, overtaken>>

\* Or refreshLocalAuth finds the tab idle: the user is signed out.
RefuseIdle(q) ==
  /\ Unauthorized(q) /\ ~Refreshing /\ shown # SignedOut
  /\ SignOut([req EXCEPT ![q] = NoRequest])
  /\ UNCHANGED <<server, login, refresh, overtaken>>

-----------------------------------------------------------------------------
(* Refreshes.                                                              *)

\* The interval of 30 s, when the access token expires soon.  It calls
\* refreshLocalAuth itself, past refreshAuthOnce.
TimerRefresh(i) ==
  /\ shown # SignedOut
  /\ refresh[i] = NoSession
  /\ refresh' = [refresh EXCEPT ![i] = store.sess]
  /\ UNCHANGED <<server, identity, login, req, cache, overtaken>>

BugLeaveWaiting(i, ok) == req

\* The requests that waited for refresh i go out again with the new token, or
\* fail.  (They continue before anything else happens in the tab.)
Resumed(i, ok) ==
  [q \in Requests |->
     IF req[q].st # "waiting" \/ i # "shared" THEN req[q]
     ELSE IF ok THEN [st |-> "sent", retried |-> TRUE,
                      sess |-> IF req[q].sess = NoSession THEN NoSession ELSE refresh[i]]
     ELSE NoRequest]

BugNoName == IF store.user = NoUser THEN "undefined" ELSE store.user

\* The name refreshLocalAuth reads back.
StoredName == IF store.user = NoUser THEN "user" ELSE store.user

\* The answer of refreshLocalAuth's call, new tokens if the session lives.  The
\* name is read after the call.
RefreshGranted(i) ==
  /\ refresh[i] \in live
  /\ ApplyLocalAuth(StoredName, refresh[i], Resumed(i, TRUE))
  /\ login' = IF login.st = "mfa" THEN LoginForm ELSE login

BugStaySignedIn(i) ==
  req' = Resumed(i, FALSE) /\ UNCHANGED <<identity, cache, login>>

\* The call failed, for any reason: everything is cleared.
RefreshFailed(i) == SignOut(Resumed(i, FALSE)) /\ UNCHANGED login

RefreshAnswered(i) ==
  /\ refresh[i] # NoSession
  /\ RefreshGranted(i) \/ RefreshFailed(i)
  /\ refresh' = [refresh EXCEPT ![i] = NoSession]
  /\ overtaken' = (overtaken \/ store.sess # refresh[i])
  /\ UNCHANGED server

-----------------------------------------------------------------------------
(* Leaving.                                                                *)

\* logout: by the button, or by the timer or the next refresh after
\* authIdleTimeoutSeconds without activity.  The server is told but not waited
\* for: it may release the session soon (EndSession) or, if the call is lost or
\* its token expired, never.
Logout ==
  /\ shown # SignedOut
  /\ SignOut(req)
  /\ UNCHANGED <<server, login, refresh, overtaken>>

\* The server ends the session: POST /auth/logout, no activity, a new password.
EndSession(s) ==
  /\ s \in live
  /\ live' = live \ {s}
  /\ UNCHANGED <<sessionUser, identity, login, calls, overtaken>>

\* The page is loaded anew: only sessionStorage survives, and the first effect
\* signs the user in from it, or clears it after too long a pause.
Reload ==
  /\ store' \in {store, SignedOut}
  /\ shown' = store'
  /\ bearer' = store'.sess
  /\ login' = LoginForm
  /\ req' = [q \in Requests |-> NoRequest]
  /\ refresh' = [i \in Refreshes |-> NoSession]
  /\ cache' = {}
  /\ UNCHANGED <<server, overtaken>>

-----------------------------------------------------------------------------

LoginPageStep ==
  \/ \E u \in Users : SubmitLogin(u)
  \/ LoginAnswered \/ SubmitCode \/ BackToPassword

RequestStep(q) ==
  \/ RequestDone(q) \/ JoinRefresh(q) \/ StartRefresh(q) \/ RefuseIdle(q)

Next ==
  \/ LoginPageStep
  \/ \E q \in Requests : SendRequest(q) \/ RequestStep(q)
  \/ \E i \in Refreshes : RefreshAnswered(i)
  \/ \E i \in Timers : TimerRefresh(i)
  \/ \E s \in Sessions : EndSession(s)
  \/ Logout \/ Reload

Spec == Init /\ [][Next]_vars

\* Calls are answered or fail.  The page is not loaded anew every time before a
\* refresh is answered.  As long as somebody is signed in the interval of 30 s
\* goes on, and every access token comes to expire.
Fairness ==
  /\ \A q \in Requests : WF_vars(RequestStep(q))
  /\ \A i \in Refreshes : SF_vars(RefreshAnswered(i))
  /\ WF_vars(\E i \in Timers : TimerRefresh(i))

FairSpec == Spec /\ Fairness

-----------------------------------------------------------------------------
(* Properties.                                                             *)

\* Whichever way a user is signed out (button, idle timer, refused refresh),
\* nothing of the session stays behind in the tab, and no answer that is still
\* under way can get into the cache of the next user ("Drop the module-level
\* bearer and any cached authenticated queries", clearAuthArtifacts.ts).
NothingSurvivesSignOut ==
  shown = SignedOut =>
    /\ store = SignedOut /\ bearer = NoSession /\ cache = {}
    /\ \A q \in Requests : req[q].sess = NoSession

\* The name on the screen, the token of the next request and the owner of
\* everything cached or on its way to the cache are one user, as long as no
\* refresh was answered after its session was left.
OneIdentity ==
  (shown # SignedOut /\ ~overtaken) =>
    /\ bearer # NoSession /\ sessionUser[bearer] = shown.user
    /\ cache \subseteq {shown.user}
    /\ \A q \in Requests : req[q].sess # NoSession => sessionUser[req[q].sess] = shown.user

\* No request waits for ever for a refresh that is over.
RequestsSettle == \A q \in Requests : req[q].st # "idle" ~> req[q].st = "idle"

\* Whoever is signed in with a session the server has ended is shown the login
\* page, or a session that replaced it, even if the tab sends no request.
EndedSessionIsLeft ==
  \A s \in Sessions :
    (shown.sess = s /\ s \notin live) ~> shown.sess # s

\* "logout returns to login screen" (e2e/auth.spec.ts): somebody signed out is
\* signed in again only by signing in.
LogoutReturnsToLogin ==
  [][shown = SignedOut /\ shown' # SignedOut
       => login.st = "pending" /\ login'.st = "form"]_vars

=============================================================================
