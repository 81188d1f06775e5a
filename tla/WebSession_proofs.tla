-------------------------- MODULE WebSession_proofs --------------------------
(***************************************************************************)
(* Proofs about WebSession, for every number of users, sessions, requests  *)
(* and timers.                                                             *)
(***************************************************************************)
EXTENDS WebSession, TLAPS

\* What the names of the modules say of each other.
LEMMA Names ==
  /\ NoSession \notin Sessions
  /\ NoUser \notin Users /\ "user" \notin Users /\ NoUser # "user"
  /\ SignedOut \in Identity /\ LoginForm \in LoginState /\ NoRequest \in Request
  /\ "shared" \in Refreshes
BY WebSessionAssumption
   DEF WebSessionAssumption, NoSession, Sessions, SignedOut, Identity, LoginForm, LoginState,
       NoRequest, Request, Refreshes

-----------------------------------------------------------------------------
(* What several handlers have in common.                                   *)

\* The names and tokens of the tab, its requests and its cache.
TabTyped ==
  /\ store \in Identity
  /\ shown \in Identity
  /\ bearer \in Sessions \cup {NoSession}
  /\ req \in [Requests -> Request]
  /\ cache \subseteq Users

LEMMA DetachedTyped ==
  ASSUME NEW after \in [Requests -> Request]
  PROVE  /\ Detached(after) \in [Requests -> Request]
         /\ \A q \in Requests : Detached(after)[q].sess = NoSession
BY DEF Detached, Request

LEMMA SignOutTyped ==
  ASSUME NEW after \in [Requests -> Request], SignOut(after)
  PROVE  TabTyped' /\ NothingSurvivesSignOut'
BY Names, DetachedTyped DEF SignOut, ClearAuthArtifacts, TabTyped, NothingSurvivesSignOut

LEMMA ResumedTyped ==
  ASSUME req \in [Requests -> Request], NEW i \in Refreshes, refresh[i] \in Sessions,
         NEW ok \in BOOLEAN
  PROVE  /\ Resumed(i, ok) \in [Requests -> Request]
         /\ \A q \in Requests : Resumed(i, ok)[q].sess \in {NoSession, req[q].sess, refresh[i]}
         /\ \A q \in Requests : req[q].sess = NoSession => Resumed(i, ok)[q].sess = NoSession
BY Names DEF Resumed, Request, NoRequest

LEMMA ApplyLocalAuthTyped ==
  ASSUME TabTyped, NEW u \in Users \cup {"user"}, NEW s \in Sessions,
         NEW after \in [Requests -> Request], ApplyLocalAuth(u, s, after)
  PROVE  TabTyped' /\ NothingSurvivesSignOut'
<1>1. store' \in Identity /\ shown' \in Identity /\ shown' # SignedOut
  BY Names DEF ApplyLocalAuth, Identity, SignedOut
<1>2. req' \in [Requests -> Request] /\ cache' \subseteq Users
  BY DetachedTyped DEF ApplyLocalAuth, TabTyped
<1> QED BY <1>1, <1>2 DEF ApplyLocalAuth, TabTyped, NothingSurvivesSignOut

-----------------------------------------------------------------------------
(* Types, and what signing out leaves.                                     *)

\* Somebody who is half way through the login page has given a name.
LoginHasUser == login.st # "form" => login.user \in Users

LiveHaveUsers == \A s \in live : sessionUser[s] \in Users

SessionInv == TypeOK /\ LoginHasUser /\ LiveHaveUsers /\ NothingSurvivesSignOut

LEMMA SessionInitial == Init => SessionInv
<1> SUFFICES ASSUME Init
             PROVE  SessionInv
  OBVIOUS
<1>1. TypeOK
  BY Names DEF Init, TypeOK
<1>2. LoginHasUser /\ LiveHaveUsers /\ NothingSurvivesSignOut
  BY DEF Init, LoginHasUser, LiveHaveUsers, LoginForm, NothingSurvivesSignOut, NoRequest
<1> QED BY <1>1, <1>2 DEF SessionInv

\* The login page.
LEMMA SessionLoginStep ==
  ASSUME SessionInv, LoginPageStep
  PROVE  SessionInv'
<1>1. TypeOK /\ TabTyped /\ login \in LoginState /\ LoginHasUser
  BY DEF SessionInv, TypeOK, TabTyped
<1> DEFINE LoginOK == login' \in LoginState /\ LoginHasUser'
<1>a. login' = LoginForm => LoginOK
  BY Names DEF LoginHasUser, LoginForm
<1>b. ASSUME NEW step \in {"pending", "mfa"}, login.st # "form", LoginStep(step)
      PROVE  LoginOK
  BY <1>1, <1>a, <1>b DEF LoginStep, LoginState, LoginHasUser
<1>c. ASSUME UNCHANGED <<server, identity, calls, overtaken>>, LoginOK
      PROVE  SessionInv'
  BY <1>c DEF server, identity, calls, SessionInv, TypeOK, LiveHaveUsers, NothingSurvivesSignOut
<1>2. ASSUME NEW u \in Users, SubmitLogin(u) PROVE SessionInv'
  <2>1. LoginOK
    BY <1>2 DEF SubmitLogin, LoginState, LoginHasUser
  <2> QED BY <1>2, <1>c, <2>1 DEF SubmitLogin
<1>3. CASE login.st = "pending" /\ SignedIn
  <2>1. login.user \in Users
    BY <1>1, <1>3 DEF LoginHasUser
  <2>2. PICK s \in Sessions :
          /\ sessionUser' = [sessionUser EXCEPT ![s] = login.user]
          /\ live' = live \cup {s}
          /\ ApplyLocalAuth(login.user, s, req)
          /\ login' = LoginForm
          /\ UNCHANGED <<refresh, overtaken>>
    BY <1>3 DEF SignedIn
  <2>3. TabTyped' /\ NothingSurvivesSignOut'
    BY <1>1, <2>1, <2>2, ApplyLocalAuthTyped DEF TabTyped
  <2>4. /\ sessionUser' \in [Sessions -> Users \cup {NoUser}]
        /\ live' \subseteq Sessions /\ LiveHaveUsers'
    BY <1>1, <2>1, <2>2 DEF SessionInv, TypeOK, LiveHaveUsers
  <2> QED BY <1>1, <1>a, <2>2, <2>3, <2>4 DEF SessionInv, TypeOK, TabTyped
<1> QED
  BY <1>a, <1>b, <1>c, <1>2, <1>3 DEF LoginPageStep, LoginAnswered, SubmitCode, BackToPassword

\* The requests of queries.
LEMMA SessionRequestStep ==
  ASSUME SessionInv, NEW q \in Requests, SendRequest(q) \/ RequestStep(q)
  PROVE  SessionInv'
<1>1. /\ TypeOK /\ LoginHasUser /\ LiveHaveUsers /\ NothingSurvivesSignOut
      /\ req \in [Requests -> Request] /\ cache \subseteq Users
      /\ refresh \in [Refreshes -> Sessions \cup {NoSession}]
  BY DEF SessionInv, TypeOK
<1>a. ASSUME UNCHANGED <<server, identity, login, overtaken>>,
             req' \in [Requests -> Request], cache' \subseteq Users,
             refresh' \in [Refreshes -> Sessions \cup {NoSession}],
             NothingSurvivesSignOut'
      PROVE  SessionInv'
  BY <1>1, <1>a DEF SessionInv, server, identity, TypeOK, LoginHasUser, LiveHaveUsers
<1>2. CASE SendRequest(q)
  <2>1. req' \in [Requests -> Request]
    BY <1>1, <1>2 DEF SendRequest, Request, TypeOK
  <2>2. NothingSurvivesSignOut'
    BY <1>2 DEF SendRequest, identity, NothingSurvivesSignOut
  <2> QED BY <1>1, <1>2, <1>a, <2>1, <2>2 DEF SendRequest
<1>3. CASE RequestDone(q)
  <2>1. req' \in [Requests -> Request] /\ \A p \in Requests : req'[p].sess \in {req[p].sess, NoSession}
    BY <1>1, <1>3, Names DEF RequestDone, Request, NoRequest
  <2>2. cache' = cache \/ (req[q].sess # NoSession /\ cache' \subseteq Users)
    <3>1. NoSession \notin live
      BY <1>1, Names DEF TypeOK
    <3>2. req[q].sess \in live => sessionUser[req[q].sess] \in Users
      BY <1>1 DEF LiveHaveUsers
    <3> QED BY <1>1, <1>3, <3>1, <3>2 DEF RequestDone
  <2>3. shown' = shown /\ store' = store /\ bearer' = bearer
    BY <1>3 DEF RequestDone, identity
  <2>4. NothingSurvivesSignOut'
    BY <1>1, <2>1, <2>2, <2>3 DEF NothingSurvivesSignOut
  <2> QED BY <1>1, <1>3, <1>a, <2>1, <2>2, <2>4 DEF RequestDone
<1>4. CASE JoinRefresh(q) \/ StartRefresh(q)
  <2>1. req' \in [Requests -> Request] /\ \A p \in Requests : req'[p].sess = req[p].sess
    BY <1>1, <1>4 DEF JoinRefresh, StartRefresh, Request
  <2>2. refresh' \in [Refreshes -> Sessions \cup {NoSession}]
    BY <1>1, <1>4 DEF JoinRefresh, StartRefresh, TypeOK, Identity
  <2>3. NothingSurvivesSignOut'
    BY <1>1, <1>4, <2>1 DEF JoinRefresh, StartRefresh, identity, NothingSurvivesSignOut
  <2> QED BY <1>1, <1>4, <1>a, <2>1, <2>2, <2>3 DEF JoinRefresh, StartRefresh
<1>5. CASE RefuseIdle(q)
  <2> DEFINE after == [req EXCEPT ![q] = NoRequest]
  <2>1. after \in [Requests -> Request]
    BY <1>1, Names
  <2>2. TabTyped' /\ NothingSurvivesSignOut'
    BY <1>5, <2>1, SignOutTyped DEF RefuseIdle
  <2> QED BY <1>1, <1>5, <2>2 DEF RefuseIdle, server, SessionInv, TypeOK, TabTyped, LoginHasUser,
                                LiveHaveUsers
<1> QED BY <1>2, <1>3, <1>4, <1>5 DEF RequestStep

\* The refreshes.
LEMMA SessionRefreshStep ==
  ASSUME SessionInv, NEW i \in Refreshes, RefreshAnswered(i)
  PROVE  SessionInv'
<1>1. /\ TypeOK /\ LoginHasUser /\ LiveHaveUsers /\ TabTyped
      /\ refresh \in [Refreshes -> Sessions \cup {NoSession}]
      /\ req \in [Requests -> Request]
  BY DEF SessionInv, TypeOK, TabTyped
<1>2. refresh[i] \in Sessions
  BY <1>1 DEF RefreshAnswered
<1>3. \A ok \in BOOLEAN : Resumed(i, ok) \in [Requests -> Request]
  BY <1>1, <1>2, ResumedTyped
<1>4. TabTyped' /\ NothingSurvivesSignOut' /\ login' \in LoginState /\ LoginHasUser'
  <2>1. CASE RefreshGranted(i)
    <3>1. StoredName \in Users \cup {"user"}
      BY <1>1 DEF StoredName, TypeOK, Identity
    <3>2. TabTyped' /\ NothingSurvivesSignOut'
      BY <1>1, <1>2, <1>3, <2>1, <3>1, ApplyLocalAuthTyped DEF RefreshGranted
    <3>3. login' \in LoginState /\ LoginHasUser'
      BY <1>1, <2>1, Names DEF RefreshGranted, TypeOK, LoginHasUser, LoginForm
    <3> QED BY <3>2, <3>3
  <2>2. CASE RefreshFailed(i)
    BY <1>1, <1>3, <2>2, SignOutTyped DEF RefreshFailed, TypeOK, LoginHasUser
  <2> QED BY <2>1, <2>2 DEF RefreshAnswered
<1>5. overtaken' \in BOOLEAN
  BY <1>1 DEF RefreshAnswered, TypeOK
<1> QED
  BY <1>1, <1>4, <1>5 DEF RefreshAnswered, server, SessionInv, TypeOK, TabTyped, LiveHaveUsers

LEMMA SessionStep ==
  ASSUME SessionInv, [Next]_vars
  PROVE  SessionInv'
<1>1. /\ TypeOK /\ LoginHasUser /\ LiveHaveUsers /\ NothingSurvivesSignOut /\ TabTyped
      /\ req \in [Requests -> Request]
      /\ refresh \in [Refreshes -> Sessions \cup {NoSession}]
  BY DEF SessionInv, TypeOK, TabTyped
<1>2. CASE LoginPageStep
  BY <1>2, SessionLoginStep
<1>3. ASSUME NEW q \in Requests, SendRequest(q) \/ RequestStep(q) PROVE SessionInv'
  BY <1>3, SessionRequestStep
<1>4. ASSUME NEW i \in Refreshes, RefreshAnswered(i) PROVE SessionInv'
  BY <1>4, SessionRefreshStep
<1>5. ASSUME NEW i \in Timers, TimerRefresh(i) PROVE SessionInv'
  <2>1. refresh' \in [Refreshes -> Sessions \cup {NoSession}]
    BY <1>1, <1>5 DEF TimerRefresh, TypeOK, Identity
  <2> QED
    BY <1>1, <1>5, <2>1 DEF TimerRefresh, server, identity, SessionInv, TypeOK, LoginHasUser,
                            LiveHaveUsers, NothingSurvivesSignOut
<1>6. ASSUME NEW s \in Sessions, EndSession(s) PROVE SessionInv'
  BY <1>1, <1>6 DEF EndSession, identity, calls, SessionInv, TypeOK, LoginHasUser, LiveHaveUsers,
                    NothingSurvivesSignOut
<1>7. CASE Logout
  <2>1. TabTyped' /\ NothingSurvivesSignOut'
    BY <1>1, <1>7, SignOutTyped DEF Logout
  <2> QED
    BY <1>1, <1>7, <2>1 DEF Logout, server, SessionInv, TypeOK, TabTyped, LoginHasUser, LiveHaveUsers
<1>8. CASE Reload
  <2>1. req' \in [Requests -> Request] /\ refresh' \in [Refreshes -> Sessions \cup {NoSession}]
    BY <1>8, Names DEF Reload
  <2>2. store' \in Identity /\ shown' \in Identity /\ bearer' \in Sessions \cup {NoSession}
    BY <1>1, <1>8, Names DEF Reload, TypeOK, Identity
  <2>3. NothingSurvivesSignOut'
    BY <1>8 DEF Reload, NothingSurvivesSignOut, SignedOut, NoRequest
  <2>4. login' \in LoginState /\ LoginHasUser'
    BY <1>8, Names DEF Reload, LoginHasUser, LoginForm
  <2> QED
    BY <1>1, <1>8, <2>1, <2>2, <2>3, <2>4 DEF Reload, server, SessionInv, TypeOK, LiveHaveUsers
<1>9. CASE UNCHANGED vars
  BY <1>1, <1>9 DEF vars, server, identity, calls, SessionInv, TypeOK, LoginHasUser, LiveHaveUsers,
                    NothingSurvivesSignOut
<1> QED BY <1>2, <1>3, <1>4, <1>5, <1>6, <1>7, <1>8, <1>9 DEF Next

LEMMA SessionInvariance == Spec => []SessionInv
BY SessionInitial, SessionStep, PTL DEF Spec

\* Every reachable state of the tab is one of the types above.
THEOREM SessionTypeCorrect == Spec => []TypeOK
BY SessionInvariance, PTL DEF SessionInv

\* However a user is signed out, and whatever was under way then, neither data
\* nor tokens nor an answer still to come are left for the next user.
THEOREM SigningOutLeavesNothing == Spec => []NothingSurvivesSignOut
BY SessionInvariance, PTL DEF SessionInv

-----------------------------------------------------------------------------
(* One identity.                                                           *)

\* Storage, screen and token agree, and the token is one of the user displayed.
OneToken ==
  /\ store = shown /\ bearer = shown.sess
  /\ shown # SignedOut => shown.sess \in Sessions /\ shown.user \in Users
                          /\ sessionUser[shown.sess] = shown.user

\* Nothing cached, or on its way to the cache, is another user's.
OwnData ==
  shown # SignedOut =>
    /\ cache \subseteq {shown.user}
    /\ \A q \in Requests : req[q].sess # NoSession => sessionUser[req[q].sess] = shown.user

OwnInv == SessionInv /\ (~overtaken => OneToken /\ OwnData)

LEMMA OwnInitial == Init => OwnInv
BY SessionInitial DEF Init, OwnInv, OneToken, OwnData, SignedOut

\* What a sign-in or a refresh makes of it.
LEMMA ApplyLocalAuthOwn ==
  ASSUME SessionInv, OneToken, OwnData,
         NEW u \in Users, NEW s \in Sessions, NEW after \in [Requests -> Request],
         ApplyLocalAuth(u, s, after), sessionUser'[s] = u,
         \A t \in Sessions : sessionUser[t] \in Users => sessionUser'[t] = sessionUser[t],
         \A q \in Requests : after[q].sess = req[q].sess \/ after[q].sess = NoSession
                             \/ (shown # SignedOut /\ after[q].sess = shown.sess)
  PROVE  (OneToken /\ OwnData)'
<1>1. shown' = [user |-> u, sess |-> s] /\ store' = shown' /\ bearer' = s
  BY DEF ApplyLocalAuth
<1>2. OneToken'
  BY <1>1 DEF OneToken
<1>3. ASSUME NEW q \in Requests, req'[q].sess # NoSession
      PROVE  /\ shown # SignedOut /\ shown.user = u
             /\ sessionUser'[req'[q].sess] = u
  <2>1. req' = after /\ ~IdentityChanges(u)
    BY <1>3, DetachedTyped DEF ApplyLocalAuth
  <2>2. shown # SignedOut
    BY <1>3, <2>1 DEF SessionInv, NothingSurvivesSignOut
  <2>3. shown.user = u
    BY <2>1, <2>2 DEF IdentityChanges
  <2>4. sessionUser[req'[q].sess] = shown.user
    BY <1>3, <2>1, <2>2 DEF OneToken, OwnData
  <2>5. req'[q].sess \in Sessions
    BY <1>3, <2>1 DEF Request
  <2> QED BY <2>2, <2>3, <2>4, <2>5
<1>4. cache' \subseteq {u}
  BY DEF ApplyLocalAuth, IdentityChanges, SessionInv, NothingSurvivesSignOut, OwnData
<1> QED BY <1>1, <1>2, <1>3, <1>4 DEF OwnData

LEMMA OwnStep ==
  ASSUME OwnInv, [Next]_vars
  PROVE  OwnInv'
<1>0. SessionInv /\ SessionInv'
  BY SessionStep DEF OwnInv
<1> SUFFICES ASSUME ~overtaken' PROVE (OneToken /\ OwnData)'
  BY <1>0 DEF OwnInv
<1> DEFINE Goal == (OneToken /\ OwnData)'
<1>1. ~overtaken
  BY DEF Next, LoginPageStep, SubmitLogin, LoginAnswered, SignedIn, SubmitCode, BackToPassword,
     SendRequest, RequestStep, RequestDone, JoinRefresh, StartRefresh, RefuseIdle,
     RefreshAnswered, TimerRefresh, EndSession, Logout, Reload, vars
<1>2. /\ OneToken /\ OwnData /\ TypeOK /\ LoginHasUser /\ LiveHaveUsers /\ NothingSurvivesSignOut
      /\ req \in [Requests -> Request]
      /\ refresh \in [Refreshes -> Sessions \cup {NoSession}]
      /\ sessionUser \in [Sessions -> Users \cup {NoUser}]
  BY <1>1 DEF OwnInv, SessionInv, TypeOK
\* The same user, or nobody, is displayed, and nothing but his own was added.
<1>a. ASSUME UNCHANGED <<sessionUser, identity>>, cache' \subseteq cache \cup {shown.user},
             \A q \in Requests : req'[q].sess \in {NoSession, req[q].sess, shown.sess}
      PROVE  Goal
  BY <1>2, <1>a DEF identity, OneToken, OwnData
<1>b. ASSUME shown' = SignedOut, store' = SignedOut, bearer' = NoSession PROVE Goal
  BY <1>b DEF OneToken, OwnData, SignedOut
<1>3. CASE LoginPageStep
  <2>1. CASE SignedIn /\ login.st = "pending"
    <3>1. login.user \in Users
      BY <1>2, <2>1 DEF LoginHasUser
    <3>2. PICK s \in Sessions :
            /\ sessionUser[s] = NoUser
            /\ sessionUser' = [sessionUser EXCEPT ![s] = login.user]
            /\ ApplyLocalAuth(login.user, s, req)
      BY <2>1 DEF SignedIn
    <3>3. \A t \in Sessions : sessionUser[t] \in Users => sessionUser'[t] = sessionUser[t]
      BY <1>2, <3>2, Names
    <3>4. sessionUser'[s] = login.user
      BY <1>2, <3>2
    <3> QED BY <1>0, <1>2, <3>1, <3>2, <3>3, <3>4, ApplyLocalAuthOwn
  <2>2. CASE UNCHANGED <<server, identity, calls, overtaken>>
    BY <1>a, <2>2 DEF server, calls
  <2> QED
    BY <1>3, <2>1, <2>2 DEF LoginPageStep, SubmitLogin, LoginAnswered, SubmitCode, BackToPassword
<1>4. ASSUME NEW q \in Requests, SendRequest(q) \/ RequestStep(q) PROVE Goal
  <2>1. CASE SendRequest(q)
    BY <1>2, <1>a, <2>1 DEF SendRequest, server, OneToken
  <2>2. CASE RequestDone(q)
    <3>1. cache' \subseteq cache \cup {shown.user}
      <4>1. req[q].sess \in live => req[q].sess # NoSession
        BY <1>2, Names DEF TypeOK
      <4>2. req[q].sess \in live => sessionUser[req[q].sess] = shown.user
        BY <1>2, <4>1 DEF OwnData, NothingSurvivesSignOut
      <4> QED BY <2>2, <4>2 DEF RequestDone
    <3>2. \A p \in Requests : req'[p].sess \in {NoSession, req[p].sess}
      BY <1>2, <2>2 DEF RequestDone, NoRequest
    <3> QED BY <1>a, <2>2, <3>1, <3>2 DEF RequestDone, server
  <2>3. CASE JoinRefresh(q) \/ StartRefresh(q)
    <3>1. \A p \in Requests : req'[p].sess = req[p].sess
      BY <1>2, <2>3 DEF JoinRefresh, StartRefresh, Request
    <3> QED BY <1>a, <2>3, <3>1 DEF JoinRefresh, StartRefresh, server
  <2>4. CASE RefuseIdle(q)
    BY <1>b, <2>4 DEF RefuseIdle, SignOut, ClearAuthArtifacts
  <2> QED BY <1>4, <2>1, <2>2, <2>3, <2>4 DEF RequestStep
<1>5. ASSUME NEW i \in Refreshes, RefreshAnswered(i) PROVE Goal
  <2>1. store.sess = refresh[i] /\ refresh[i] \in Sessions /\ sessionUser' = sessionUser
    BY <1>2, <1>5 DEF RefreshAnswered, server
  <2>2. CASE RefreshGranted(i)
    <3>1. shown # SignedOut /\ shown = store /\ shown.sess = refresh[i]
      BY <1>2, <2>1, Names DEF OneToken, SignedOut
    <3>2. shown.user \in Users /\ sessionUser[refresh[i]] = shown.user /\ StoredName = shown.user
      BY <1>2, <3>1, Names DEF OneToken, StoredName
    <3>3. /\ Resumed(i, TRUE) \in [Requests -> Request]
          /\ \A q \in Requests : Resumed(i, TRUE)[q].sess \in {NoSession, req[q].sess, refresh[i]}
      BY <1>2, <2>1, ResumedTyped
    <3> QED
      BY <1>0, <1>2, <2>1, <2>2, <3>1, <3>2, <3>3, ApplyLocalAuthOwn DEF RefreshGranted
  <2>3. CASE RefreshFailed(i)
    BY <1>b, <2>3 DEF RefreshFailed, SignOut, ClearAuthArtifacts
  <2> QED BY <1>5, <2>2, <2>3 DEF RefreshAnswered
<1>6. ASSUME NEW i \in Timers, TimerRefresh(i) PROVE Goal
  BY <1>6, <1>a DEF TimerRefresh, server
<1>7. ASSUME NEW s \in Sessions, EndSession(s) PROVE Goal
  BY <1>7, <1>a DEF EndSession, calls
<1>8. CASE Logout
  BY <1>8, <1>b DEF Logout, SignOut, ClearAuthArtifacts
<1>9. CASE Reload
  <2>1. req' = [q \in Requests |-> NoRequest] /\ cache' = {} /\ sessionUser' = sessionUser
    BY <1>9 DEF Reload, server
  <2>2. OwnData'
    BY <2>1 DEF OwnData, NoRequest
  <2>3. OneToken'
    BY <1>2, <1>9, <2>1 DEF Reload, OneToken, SignedOut
  <2> QED BY <2>2, <2>3
<1>10. CASE UNCHANGED vars
  BY <1>10, <1>a DEF vars, server, identity, calls
<1> QED BY <1>3, <1>4, <1>5, <1>6, <1>7, <1>8, <1>9, <1>10 DEF Next

\* Unless a refresh was answered after its session was left, the name on the
\* screen, the token of the next request, the cache and every answer still to
\* come are one user's.
THEOREM OneUserAtATime == Spec => []OneIdentity
<1>1. OwnInv => OneIdentity
  BY Names DEF OwnInv, OneToken, OwnData, OneIdentity
<1>2. Spec => []OwnInv
  BY OwnInitial, OwnStep, PTL DEF Spec
<1> QED BY <1>1, <1>2, PTL

=============================================================================
