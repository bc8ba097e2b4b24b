------------------------------- MODULE Session -------------------------------
(***************************************************************************)
(* Who the dashboard thinks is signed in (hooks/useAuth.tsx), and the      *)
(* functions that change its mind: refresh, which asks the server whether  *)
(* it is set up and then for the user, login, logout, the onboarding form  *)
(* and the saving of the profile, both of which end with a refresh.  Each  *)
(* is a call of its own, several of which may be waiting for the server.   *)
(*                                                                         *)
(* The session is a signed cookie: the server keeps nothing of it, and a   *)
(* request has the cookie there was when it was sent.                      *)
(***************************************************************************)
EXTENDS Naturals

CONSTANTS
    Call,           \* calls that may run at the same time
    Sends,          \* bound: calls made by the user
    Troubles        \* bound: requests that fail, and what other tabs do

ASSUME SessionBoundsAssumption == Sends \in Nat /\ Troubles \in Nat

VARIABLES
    admin,          \* the server has an admin
    cookie,         \* the browser has the cookie of a session
    user,           \* AuthProvider: a user is signed in,
    loading,        \*   a refresh runs,
    setupRequired,  \*   the server is to be set up
    call,           \* [Call -> what it waits for]
    overlapped,     \* ghost: a refresh began while another ran
    rest            \* what is left of the bounds

authVars == <<admin, cookie, user, loading, setupRequired, call, overlapped, rest>>

NoCall == [at |-> "idle", with |-> FALSE, found |-> "nothing", isSetup |-> FALSE, here |-> FALSE]

\* Waiting for the request it sent; `here' as long as the component that made
\* the call is there.
Waiting(at) == [NoCall EXCEPT !.at = at, !.with = cookie, !.here = TRUE]

Refreshing == {c \in Call : call[c].at \in {"checking setup", "fetching user"}}
Failures    == {"error", "lost"}

\* ProtectedRoute and PublicRoute.  (Which form of the login page is shown, the
\* one for signing in or for the setup, depends on the address it was sent to.)
Shown(l, u, s) == IF l THEN "spinner" ELSE IF u /\ ~s THEN "app" ELSE "login"
Screen         == Shown(loading, user, setupRequired)

\* The state of AuthProvider becomes l, u, s, and c what is given; components
\* that are no longer shown forget the calls they made.
Turn(c, next, l, u, s) ==
    /\ loading' = l /\ user' = u /\ setupRequired' = s
    /\ call' = [d \in Call |-> IF d = c THEN next
                               ELSE [call[d] EXCEPT !.here = @ /\ Shown(l, u, s) = Screen]]

Keep(c, next) == Turn(c, next, loading, user, setupRequired)

\* refresh
BeginRefresh(c) ==
    /\ Turn(c, [Waiting("checking setup") EXCEPT !.here = FALSE], TRUE, user, setupRequired)
    /\ overlapped' = IF Refreshing = {} THEN FALSE ELSE TRUE

---------------------------------------------------------------------------
(* The user. *)

Ask(c, at) ==
    /\ call[c].at = "idle" /\ rest.sends > 0
    /\ rest' = [rest EXCEPT !.sends = @ - 1]
    /\ Keep(c, Waiting(at))
    /\ UNCHANGED <<admin, cookie, overlapped>>

\* The buttons of the login page are disabled while theirs is pending ...
Submitting == \E c \in Call : call[c].at \in {"signing in", "setting up"} /\ call[c].here

handleLogin(c)      == Screen = "login" /\ ~Submitting /\ Ask(c, "signing in")
handleOnboarding(c) == Screen = "login" /\ ~Submitting /\ Ask(c, "setting up")

\* ... the Enter key of the profile's field and the menu's "Log out" are not.
handleSaveName(c)   == Screen = "app" /\ Ask(c, "saving")
logout(c)           == Screen = "app" /\ Ask(c, "signing out")

\* The tab is loaded again: what it was waiting for is lost with it.
ReloadTab(c) ==
    /\ rest.sends > 0 /\ rest' = [rest EXCEPT !.sends = @ - 1]
    /\ user' = FALSE /\ loading' = TRUE /\ setupRequired' = FALSE /\ overlapped' = FALSE
    /\ call' = [d \in Call |-> IF d = c THEN [Waiting("checking setup") EXCEPT !.here = FALSE] ELSE NoCall]
    /\ UNCHANGED <<admin, cookie>>

---------------------------------------------------------------------------
(* The server, and the network. *)

Found(c, what) == call' = [call EXCEPT ![c].found = what]

\* CheckSetup, GetCurrentUser, Login (or the wrong password), Setup, Logout,
\* UpdateProfile.  A cookie is set or cleared as the answer reaches the browser.
ServerAnswers(c) ==
    /\ call[c].found = "nothing"
    /\ CASE call[c].at = "checking setup" ->
              Found(c, IF admin THEN "yes" ELSE "no") /\ UNCHANGED <<admin, cookie>>
         [] call[c].at \in {"fetching user", "saving"} ->
              Found(c, IF call[c].with THEN "yes" ELSE "no") /\ UNCHANGED <<admin, cookie>>
         [] call[c].at = "signing in" ->
              \/ admin /\ Found(c, "yes") /\ cookie' = TRUE /\ UNCHANGED admin
              \/ Found(c, "no") /\ UNCHANGED <<admin, cookie>>
         [] call[c].at = "setting up" ->
              IF admin THEN Found(c, "no") /\ UNCHANGED <<admin, cookie>>
                       ELSE Found(c, "yes") /\ admin' = TRUE /\ cookie' = TRUE
         [] call[c].at = "signing out" ->
              Found(c, "yes") /\ cookie' = FALSE /\ UNCHANGED admin
         [] OTHER -> FALSE
    /\ UNCHANGED <<user, loading, setupRequired, overlapped, rest>>

\* The server answers with an error, or its answer does not arrive: the request
\* may have been served.
Break(c) ==
    /\ call[c].at # "idle" /\ call[c].found \notin Failures /\ rest.mishaps > 0
    /\ \E what \in Failures : (call[c].found = "nothing" \/ what = "lost") /\ Found(c, what)
    /\ rest' = [rest EXCEPT !.mishaps = @ - 1]
    /\ UNCHANGED <<admin, cookie, user, loading, setupRequired, overlapped>>

\* Another tab signs in or out or sets the server up, or the cookie expires.
OtherTab ==
    /\ rest.mishaps > 0 /\ rest' = [rest EXCEPT !.mishaps = @ - 1]
    /\ \/ ~cookie /\ cookie' = TRUE /\ admin' = TRUE
       \/ cookie /\ cookie' = FALSE /\ UNCHANGED admin
    /\ UNCHANGED <<user, loading, setupRequired, call, overlapped>>

---------------------------------------------------------------------------
(* The answers. *)

Answered(c, at) == call[c].at = at /\ call[c].found # "nothing"
Yes(c)          == call[c].found = "yes"

\* checkSetup: an error is an answer without setup_complete, and taken for "no".
checkSetup(c) ==
    /\ Answered(c, "checking setup")
    /\ Turn(c, [Waiting("fetching user") EXCEPT !.isSetup = Yes(c), !.here = FALSE], loading, user,
            IF call[c].found = "lost" THEN setupRequired ELSE ~Yes(c))
    /\ UNCHANGED <<admin, cookie, overlapped, rest>>

\* A mistake NobodyIsLockedOut catches: the user that is found does not disprove
\* what the setup check said.
fetchUser_Believes(c) ==
    /\ Answered(c, "fetching user")
    /\ Turn(c, NoCall, FALSE, Yes(c), setupRequired)
    /\ UNCHANGED <<admin, cookie, overlapped, rest>>

\* fetchUser, and the end of refresh.
fetchUser(c) ==
    /\ Answered(c, "fetching user")
    /\ Turn(c, NoCall, FALSE, Yes(c), setupRequired /\ ~(Yes(c) /\ ~call[c].isSetup))
    /\ UNCHANGED <<admin, cookie, overlapped, rest>>

login(c) ==
    /\ Answered(c, "signing in")
    /\ IF Yes(c) THEN Turn(c, NoCall, loading, TRUE, FALSE) ELSE Keep(c, NoCall)
    /\ UNCHANGED <<admin, cookie, overlapped, rest>>

\* Any answer signs out; none throws.
SignedOut(c) ==
    /\ Answered(c, "signing out")
    /\ IF call[c].found = "lost" THEN Keep(c, NoCall) ELSE Turn(c, NoCall, loading, FALSE, setupRequired)
    /\ UNCHANGED <<admin, cookie, overlapped, rest>>

Submitted(c) ==
    /\ \E at \in {"setting up", "saving"} : Answered(c, at)
    /\ IF Yes(c) THEN BeginRefresh(c) ELSE Keep(c, NoCall) /\ UNCHANGED overlapped
    /\ UNCHANGED <<admin, cookie, rest>>

---------------------------------------------------------------------------

\* The tab is opened, of a new server or an old one: useEffect calls refresh.
AuthInit ==
    /\ admin \in BOOLEAN /\ cookie \in {FALSE, admin}
    /\ user = FALSE /\ loading = TRUE /\ setupRequired = FALSE /\ overlapped = FALSE
    /\ \E c \in Call : call = [d \in Call |->
           IF d = c THEN [Waiting("checking setup") EXCEPT !.here = FALSE] ELSE NoCall]
    /\ rest = [sends |-> Sends, mishaps |-> Troubles]

AuthNext ==
    \/ \E c \in Call : \/ handleLogin(c) \/ handleOnboarding(c) \/ handleSaveName(c) \/ logout(c)
                       \/ ReloadTab(c) \/ ServerAnswers(c) \/ Break(c)
                       \/ checkSetup(c) \/ fetchUser(c) \/ login(c) \/ SignedOut(c) \/ Submitted(c)
    \/ OtherTab

AuthSpec == AuthInit /\ [][AuthNext]_authVars

---------------------------------------------------------------------------

AuthTypeOK ==
    /\ {admin, cookie, user, loading, setupRequired, overlapped} \subseteq BOOLEAN
    /\ call \in [Call -> [at : {"idle", "checking setup", "fetching user", "signing in",
                                "setting up", "saving", "signing out"},
                          with : BOOLEAN, found : {"nothing", "yes", "no"} \cup Failures,
                          isSetup : BOOLEAN, here : BOOLEAN]]
    /\ rest \in [sends : Nat, mishaps : Nat]

\* When no refresh runs the spinner is gone, and nobody who is signed in is kept
\* from the dashboard by a setup the server does not need, whatever failed and
\* whoever signed in or out meanwhile -- unless two refreshes ran at once.
NobodyIsLockedOut ==
    Refreshing = {} => ~loading /\ (user /\ setupRequired => overlapped)
=============================================================================
