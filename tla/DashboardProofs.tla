--------------------------- MODULE DashboardProofs ----------------------------
(***************************************************************************)
(* Proofs about the dashboard: Session, for any number of calls, of        *)
(* failures and of what other tabs do; QueryCache, for any queries,        *)
(* properties and bounds; and with TagContainerProofs the types of the run *)
(* that explores the three.                                                *)
(*                                                                         *)
(* FreshIsCurrent speaks of entries nothing is under way for.  What makes  *)
(* it last is an invariant of the loads too: when an entry missed nothing, *)
(* and every mutation the server carried out on it is answered, each of    *)
(* its loads was sent after the last change (Current).  For components     *)
(* that fetch by hand, whose answers may come in any order, it also needs  *)
(* that what is off screen is empty (Bare): nobody marks it.               *)
(***************************************************************************)
EXTENDS MCDashboard, TagContainerProofs, TLAPS

-------------------------------------------------------------------------------
(***************************************************************************)
(* Session                                                                 *)
(***************************************************************************)

(* While refreshes do not overlap there is one at most; when it has found  *)
(* the server set up nothing says otherwise before it ends, and when it    *)
(* has not, its end does (or there is no user).                            *)
Sound ==
    ~overlapped =>
        /\ \A c, d \in Refreshing : c = d
        /\ \A c \in Refreshing : call[c].at = "fetching user" /\ call[c].isSetup => ~setupRequired
        /\ Refreshing = {} /\ user => ~setupRequired

SessionInv ==
    /\ AuthTypeOK
    /\ Refreshing = {} => ~loading
    /\ Sound

-------------------------------------------------------------------------------
(* What a call may be. *)
CallType ==
    [at : {"idle", "checking setup", "fetching user", "signing in", "setting up", "saving",
           "signing out"},
     with : BOOLEAN, found : {"nothing", "yes", "no"} \cup Failures,
     isSetup : BOOLEAN, here : BOOLEAN]

LEMMA NewCalls ==
    ASSUME AuthTypeOK
    PROVE  /\ NoCall \in CallType /\ NoCall.at = "idle"
           /\ \A at \in {"checking setup", "fetching user", "signing in", "setting up", "saving",
                         "signing out"} :
                 /\ Waiting(at) \in CallType /\ Waiting(at).at = at
                 /\ [Waiting(at) EXCEPT !.here = FALSE] \in CallType
                 /\ [Waiting(at) EXCEPT !.here = FALSE].at = at
                 /\ \A b \in BOOLEAN :
                      /\ [Waiting(at) EXCEPT !.isSetup = b, !.here = FALSE] \in CallType
                      /\ [Waiting(at) EXCEPT !.isSetup = b, !.here = FALSE].at = at
                      /\ [Waiting(at) EXCEPT !.isSetup = b, !.here = FALSE].isSetup = b
  BY ZenonT(90) DEF AuthTypeOK, CallType, NoCall, Waiting, Failures

LEMMA Booleans ==
    ASSUME AuthTypeOK
    PROVE  /\ user \in BOOLEAN /\ loading \in BOOLEAN /\ setupRequired \in BOOLEAN
           /\ admin \in BOOLEAN /\ cookie \in BOOLEAN /\ overlapped \in BOOLEAN
  BY DEF AuthTypeOK

(* A turn gives one call a new state, and the others keep theirs, apart    *)
(* from the component they belong to.                                      *)
LEMMA TurnChanges ==
    ASSUME AuthTypeOK, NEW c \in Call, NEW next \in CallType,
           NEW l, NEW u, NEW s, Turn(c, next, l, u, s)
    PROVE  /\ loading' = l /\ user' = u /\ setupRequired' = s
           /\ call' \in [Call -> CallType]
           /\ call'[c] = next
           /\ \A d \in Call \ {c} : call'[d].at = call[d].at /\ call'[d].isSetup = call[d].isSetup
<1>1. /\ loading' = l /\ user' = u /\ setupRequired' = s /\ call'[c] = next
  BY DEF Turn
<1>2. ASSUME NEW d \in Call \ {c}
      PROVE  /\ call'[d] \in CallType
             /\ call'[d].at = call[d].at /\ call'[d].isSetup = call[d].isSetup
  <2>. DEFINE b == call[d].here /\ Shown(l, u, s) = Screen
  <2>1. call[d] \in CallType
    BY DEF AuthTypeOK, CallType
  <2>2. b \in BOOLEAN
    OBVIOUS
  <2>3. call'[d] = [call[d] EXCEPT !.here = b]
    BY DEF Turn
  <2>. HIDE DEF b
  <2>. QED
    BY <2>1, <2>2, <2>3 DEF CallType
<1>3. call' \in [Call -> CallType]
  BY <1>1, <1>2 DEF Turn
<1>. QED
  BY <1>1, <1>2, <1>3

(* ... so that the refreshes that run are the same, but for that one. *)
LEMMA TurnRefreshes ==
    ASSUME AuthTypeOK, NEW c \in Call, NEW next \in CallType,
           NEW l, NEW u, NEW s, Turn(c, next, l, u, s)
    PROVE  /\ next.at \in {"checking setup", "fetching user"} => Refreshing' = Refreshing \cup {c}
           /\ next.at \notin {"checking setup", "fetching user"} => Refreshing' = Refreshing \ {c}
<1>0. /\ call'[c] = next
      /\ \A d \in Call \ {c} : call'[d].at = call[d].at
  BY TurnChanges
<1>1. \A d \in Call : d # c => (d \in Refreshing' <=> d \in Refreshing)
  BY <1>0 DEF Refreshing
<1>2. c \in Refreshing' <=> next.at \in {"checking setup", "fetching user"}
  BY <1>0 DEF Refreshing
<1>3. Refreshing \subseteq Call /\ Refreshing' \subseteq Call
  BY DEF Refreshing
<1>. QED
  BY <1>1, <1>2, <1>3

-------------------------------------------------------------------------------

LEMMA SessionInit == AuthInit => SessionInv
<1>. SUFFICES ASSUME AuthInit PROVE SessionInv
  OBVIOUS
<1>1. PICK c \in Call : call = [d \in Call |->
         IF d = c THEN [Waiting("checking setup") EXCEPT !.here = FALSE] ELSE NoCall]
  BY DEF AuthInit
<1>2. /\ cookie \in BOOLEAN /\ admin \in BOOLEAN /\ loading /\ ~overlapped
  BY DEF AuthInit
<1>3. [Waiting("checking setup") EXCEPT !.here = FALSE] \in CallType /\ NoCall \in CallType
  BY <1>2 DEF CallType, NoCall, Waiting, Failures
<1>4. AuthTypeOK
  <2>1. call \in [Call -> CallType]
    BY <1>1, <1>3
  <2>2. rest \in [sends : Nat, mishaps : Nat]
    BY SessionBoundsAssumption DEF AuthInit
  <2>3. {admin, cookie, user, loading, setupRequired, overlapped} \subseteq BOOLEAN
    BY <1>2 DEF AuthInit
  <2>. QED
    BY <2>1, <2>2, <2>3 DEF AuthTypeOK, CallType
<1>5. Refreshing = {c} /\ call[c].at = "checking setup"
  BY ZenonT(90), <1>1, <1>4, NewCalls DEF Refreshing
<1>. QED
  BY <1>2, <1>4, <1>5 DEF SessionInv, Sound

(* A call that is no refresh goes on, and leaves what is believed alone.   *)
LEMMA OtherTurn ==
    ASSUME SessionInv, NEW c \in Call, NEW next \in CallType,
           c \notin Refreshing, next.at \notin {"checking setup", "fetching user"},
           NEW u \in BOOLEAN, NEW s \in BOOLEAN, Turn(c, next, loading, u, s),
           s => setupRequired, u /\ s => user,
           UNCHANGED overlapped
    PROVE  (Refreshing = {} => ~loading)' /\ Sound'
  <1>0. AuthTypeOK /\ loading \in BOOLEAN
    BY Booleans DEF SessionInv
  <1>1. Refreshing' = Refreshing
    BY <1>0, TurnRefreshes
  <1>2. \A d \in Refreshing : call'[d].at = call[d].at /\ call'[d].isSetup = call[d].isSetup
    <2>1. \A d \in Call \ {c} : call'[d].at = call[d].at /\ call'[d].isSetup = call[d].isSetup
      BY <1>0, TurnChanges
    <2>2. Refreshing \subseteq Call
      BY DEF Refreshing
    <2>. QED
      BY <2>1, <2>2
  <1>3. loading' = loading /\ user' = u /\ setupRequired' = s
    BY DEF Turn
  <1>4. (Refreshing = {} => ~loading)'
    BY <1>1, <1>3 DEF SessionInv
  <1>5. ASSUME ~overlapped
        PROVE  /\ \A c1, c2 \in Refreshing' : c1 = c2
               /\ \A d \in Refreshing' :
                     call'[d].at = "fetching user" /\ call'[d].isSetup => ~setupRequired'
               /\ Refreshing' = {} /\ user' => ~setupRequired'
    BY <1>1, <1>2, <1>3, <1>5 DEF SessionInv, Sound
  <1>. QED
    BY <1>4, <1>5 DEF Sound

(* A refresh begins. *)
LEMMA RefreshBegins ==
    ASSUME SessionInv, NEW c \in Call, c \notin Refreshing, BeginRefresh(c)
    PROVE  (Refreshing = {} => ~loading)' /\ Sound'
  <1>. DEFINE next == [Waiting("checking setup") EXCEPT !.here = FALSE]
  <1>1. next \in CallType /\ next.at = "checking setup"
    BY NewCalls DEF SessionInv
  <1>2. Turn(c, next, TRUE, user, setupRequired)
    BY DEF BeginRefresh
  <1>3. AuthTypeOK /\ user \in BOOLEAN /\ setupRequired \in BOOLEAN
    BY Booleans DEF SessionInv
  <1>. HIDE DEF next
  <1>4. Refreshing' = Refreshing \cup {c} /\ call'[c] = next
    <2>1. Refreshing' = Refreshing \cup {c}
      BY <1>1, <1>2, <1>3, TurnRefreshes
    <2>2. call'[c] = next
      BY <1>1, <1>2, <1>3, TurnChanges
    <2>. QED
      BY <2>1, <2>2
  <1>5. loading' = TRUE /\ (overlapped' \/ Refreshing = {})
    BY <1>2 DEF BeginRefresh, Turn
  <1>6. ASSUME ~overlapped'
        PROVE  /\ \A c1, c2 \in Refreshing' : c1 = c2
               /\ \A d \in Refreshing' : call'[d].at # "fetching user"
    BY <1>1, <1>4, <1>5, <1>6
  <1>. QED
    BY <1>4, <1>5, <1>6 DEF Sound

(* The types, once it is known what the calls have become. *)
LEMMA TypesKept ==
    ASSUME AuthTypeOK, call' \in [Call -> CallType], rest' \in [sends : Nat, mishaps : Nat],
           admin' \in BOOLEAN, cookie' \in BOOLEAN, overlapped' \in BOOLEAN,
           user' \in BOOLEAN, loading' \in BOOLEAN, setupRequired' \in BOOLEAN
    PROVE  AuthTypeOK'
  BY DEF AuthTypeOK, CallType

LEMMA TurnTypes ==
    ASSUME AuthTypeOK, NEW c \in Call, NEW next \in CallType,
           NEW l \in BOOLEAN, NEW u \in BOOLEAN, NEW s \in BOOLEAN, Turn(c, next, l, u, s),
           rest' \in [sends : Nat, mishaps : Nat], overlapped' \in BOOLEAN,
           admin' \in BOOLEAN, cookie' \in BOOLEAN
    PROVE  AuthTypeOK'
  BY TurnChanges, TypesKept

(* The bounds stay numbers. *)
LEMMA Spent ==
    ASSUME AuthTypeOK,
           \/ rest.sends > 0 /\ rest' = [rest EXCEPT !.sends = @ - 1]
           \/ rest.mishaps > 0 /\ rest' = [rest EXCEPT !.mishaps = @ - 1]
    PROVE  rest' \in [sends : Nat, mishaps : Nat]
<1>1. rest \in [sends : Nat, mishaps : Nat]
  BY DEF AuthTypeOK
<1>. QED
  BY <1>1

(* The user asks for something: a call that was idle waits. *)
LEMMA AskKeeps ==
    ASSUME SessionInv, NEW c \in Call,
           NEW at \in {"signing in", "setting up", "saving", "signing out"}, Ask(c, at)
    PROVE  SessionInv'
<1>. DEFINE next == Waiting(at)
<1>1. AuthTypeOK /\ user \in BOOLEAN /\ loading \in BOOLEAN /\ setupRequired \in BOOLEAN
      /\ admin \in BOOLEAN /\ cookie \in BOOLEAN /\ overlapped \in BOOLEAN
  BY Booleans DEF SessionInv
<1>2. next \in CallType /\ next.at = at
  BY ZenonT(90), <1>1, NewCalls
<1>3. Turn(c, next, loading, user, setupRequired) /\ UNCHANGED <<admin, cookie, overlapped>>
  BY DEF Ask, Keep
<1>4. c \notin Refreshing
  BY DEF Ask, Refreshing
<1>5. rest' \in [sends : Nat, mishaps : Nat]
  BY <1>1, Spent DEF Ask
<1>. HIDE DEF next
<1>6. AuthTypeOK'
  BY ZenonT(90), <1>1, <1>2, <1>3, <1>5, TurnTypes
<1>7. (Refreshing = {} => ~loading)' /\ Sound'
  BY <1>1, <1>2, <1>3, <1>4, OtherTurn
<1>. QED
  BY <1>6, <1>7 DEF SessionInv

(* A step that gives a call an answer, or changes the cookie, changes nothing *)
(* of what is believed.                                                       *)
LEMMA OutsideKeeps ==
    ASSUME SessionInv, call' \in [Call -> CallType], rest' \in [sends : Nat, mishaps : Nat],
           \A d \in Call : call'[d].at = call[d].at /\ call'[d].isSetup = call[d].isSetup,
           admin' \in BOOLEAN, cookie' \in BOOLEAN,
           UNCHANGED <<user, loading, setupRequired, overlapped>>
    PROVE  SessionInv'
<1>1. AuthTypeOK'
  BY Booleans, TypesKept DEF SessionInv
<1>2. Refreshing' = Refreshing
  BY DEF Refreshing
<1>3. \A d \in Refreshing : call'[d].at = call[d].at /\ call'[d].isSetup = call[d].isSetup
  BY DEF Refreshing
<1>4. (Refreshing = {} => ~loading)'
  BY <1>2 DEF SessionInv
<1>5. ASSUME ~overlapped
      PROVE  /\ \A c, d \in Refreshing' : c = d
             /\ \A d \in Refreshing' :
                   call'[d].at = "fetching user" /\ call'[d].isSetup => ~setupRequired'
             /\ Refreshing' = {} /\ user' => ~setupRequired'
  BY <1>2, <1>3, <1>5 DEF SessionInv, Sound
<1>. QED
  BY <1>1, <1>4, <1>5 DEF SessionInv, Sound

(* An answer that ends a call other than a refresh. *)
LEMMA EndKeeps ==
    ASSUME SessionInv, NEW c \in Call, c \notin Refreshing,
           NEW u \in BOOLEAN, NEW s \in BOOLEAN, Turn(c, NoCall, loading, u, s),
           s => setupRequired, u /\ s => user,
           UNCHANGED <<admin, cookie, overlapped, rest>>
    PROVE  SessionInv'
<1>1. AuthTypeOK /\ loading \in BOOLEAN /\ admin' \in BOOLEAN /\ cookie' \in BOOLEAN
      /\ overlapped' \in BOOLEAN
  BY Booleans DEF SessionInv
<1>2. rest' \in [sends : Nat, mishaps : Nat]
  BY <1>1 DEF AuthTypeOK
<1>3. NoCall \in CallType /\ NoCall.at \notin {"checking setup", "fetching user"}
  BY <1>1, NewCalls
<1>4. AuthTypeOK'
  BY ZenonT(90), <1>1, <1>2, <1>3, TurnTypes
<1>5. (Refreshing = {} => ~loading)' /\ Sound'
  BY <1>3, OtherTurn
<1>. QED
  BY <1>4, <1>5 DEF SessionInv

LEMMA ReloadKeeps ==
    ASSUME SessionInv, NEW c \in Call, ReloadTab(c)
    PROVE  SessionInv'
<1>. DEFINE next == [Waiting("checking setup") EXCEPT !.here = FALSE]
<1>1. /\ next \in CallType /\ next.at = "checking setup"
      /\ NoCall \in CallType /\ NoCall.at = "idle"
  BY NewCalls DEF SessionInv
<1>2. /\ call' = [d \in Call |-> IF d = c THEN next ELSE NoCall]
      /\ loading' /\ ~overlapped'
  BY DEF ReloadTab
<1>3. /\ user' \in BOOLEAN /\ loading' \in BOOLEAN /\ setupRequired' \in BOOLEAN
      /\ overlapped' \in BOOLEAN /\ admin' \in BOOLEAN /\ cookie' \in BOOLEAN
  BY Booleans DEF ReloadTab, SessionInv
<1>4. rest' \in [sends : Nat, mishaps : Nat]
  BY Spent DEF ReloadTab, SessionInv
<1>. HIDE DEF next
<1>5. AuthTypeOK'
  BY <1>1, <1>2, <1>3, <1>4, TypesKept DEF SessionInv
<1>6. Refreshing' = {c} /\ call'[c].at = "checking setup"
  BY <1>1, <1>2 DEF Refreshing
<1>7. Sound'
  BY <1>6 DEF Sound
<1>. QED
  BY <1>5, <1>6, <1>7 DEF SessionInv

(* The server and the network. *)
LEMMA ServeKeeps ==
    ASSUME SessionInv, NEW c \in Call, ServerAnswers(c)
    PROVE  SessionInv'
<1>1. PICK what \in {"yes", "no"} : Found(c, what)
  BY DEF ServerAnswers
<1>2. /\ admin' \in BOOLEAN /\ cookie' \in BOOLEAN
      /\ UNCHANGED <<user, loading, setupRequired, overlapped>>
  BY Booleans DEF ServerAnswers, SessionInv
<1>3. rest' \in [sends : Nat, mishaps : Nat]
  BY DEF ServerAnswers, SessionInv, AuthTypeOK
<1>4. /\ call' \in [Call -> CallType]
      /\ \A d \in Call : call'[d].at = call[d].at /\ call'[d].isSetup = call[d].isSetup
  <2>1. call \in [Call -> CallType]
    BY DEF SessionInv, AuthTypeOK, CallType
  <2>. QED
    BY ZenonT(90), <1>1, <2>1 DEF Found, CallType
<1>. QED
  BY <1>2, <1>3, <1>4, OutsideKeeps

LEMMA BreakKeeps ==
    ASSUME SessionInv, NEW c \in Call, Break(c)
    PROVE  SessionInv'
<1>1. PICK what \in Failures : Found(c, what)
  BY DEF Break
<1>2. /\ admin' \in BOOLEAN /\ cookie' \in BOOLEAN
      /\ UNCHANGED <<user, loading, setupRequired, overlapped>>
  BY Booleans DEF Break, SessionInv
<1>3. rest' \in [sends : Nat, mishaps : Nat]
  BY Spent DEF Break, SessionInv
<1>4. /\ call' \in [Call -> CallType]
      /\ \A d \in Call : call'[d].at = call[d].at /\ call'[d].isSetup = call[d].isSetup
  <2>1. call \in [Call -> CallType]
    BY DEF SessionInv, AuthTypeOK, CallType
  <2>. QED
    BY ZenonT(90), <1>1, <2>1 DEF Found, CallType
<1>. QED
  BY <1>2, <1>3, <1>4, OutsideKeeps

LEMMA ElsewhereKeeps ==
    ASSUME SessionInv, OtherTab
    PROVE  SessionInv'
<1>1. /\ admin' \in BOOLEAN /\ cookie' \in BOOLEAN
      /\ UNCHANGED <<user, loading, setupRequired, call, overlapped>>
  BY Booleans DEF OtherTab, SessionInv
<1>2. rest' \in [sends : Nat, mishaps : Nat]
  BY Spent DEF OtherTab, SessionInv
<1>3. call' \in [Call -> CallType]
  BY <1>1 DEF SessionInv, AuthTypeOK, CallType
<1>. QED
  BY <1>1, <1>2, <1>3, OutsideKeeps

-------------------------------------------------------------------------------
(* The answers. *)

(* What the check said is believed for as long as the user is fetched, and *)
(* only an answer that says so lets the refresh rely on it.                *)
LEMMA CheckKeeps ==
    ASSUME SessionInv, NEW c \in Call, checkSetup(c)
    PROVE  SessionInv'
<1>. DEFINE next == [Waiting("fetching user") EXCEPT !.isSetup = Yes(c), !.here = FALSE]
            s    == IF call[c].found = "lost" THEN setupRequired ELSE ~Yes(c)
<1>1. /\ AuthTypeOK /\ user \in BOOLEAN /\ loading \in BOOLEAN /\ setupRequired \in BOOLEAN
      /\ admin \in BOOLEAN /\ cookie \in BOOLEAN /\ overlapped \in BOOLEAN
      /\ Yes(c) \in BOOLEAN
  BY Booleans DEF SessionInv, Yes
<1>2. s \in BOOLEAN /\ (Yes(c) => ~s)
  BY <1>1 DEF Yes
<1>3. next \in CallType /\ next.at = "fetching user" /\ next.isSetup = Yes(c)
  BY ZenonT(90), <1>1, NewCalls
<1>4. /\ Turn(c, next, loading, user, s) /\ UNCHANGED <<admin, cookie, overlapped, rest>>
      /\ c \in Refreshing
  BY DEF checkSetup, Answered, Refreshing
<1>5. rest' \in [sends : Nat, mishaps : Nat]
  BY <1>1, <1>4 DEF AuthTypeOK
<1>. HIDE DEF next, s
<1>6. AuthTypeOK'
  BY ZenonT(90), <1>1, <1>2, <1>3, <1>4, <1>5, TurnTypes
<1>7. /\ Refreshing' = Refreshing
      /\ setupRequired' = s /\ call'[c].isSetup = Yes(c)
  <2>1. Refreshing' = Refreshing \cup {c}
    BY <1>1, <1>3, <1>4, TurnRefreshes
  <2>2. call'[c] = next
    BY <1>1, <1>3, <1>4, TurnChanges
  <2>3. setupRequired' = s
    BY <1>4 DEF Turn
  <2>. QED
    BY <1>3, <1>4, <2>1, <2>2, <2>3
<1>8. ASSUME ~overlapped
      PROVE  \A d \in Refreshing : d = c
  BY <1>4, <1>8 DEF SessionInv, Sound
<1>9. ASSUME ~overlapped'
      PROVE  /\ \A d, e \in Refreshing' : d = e
             /\ \A d \in Refreshing' : call'[d].isSetup => ~setupRequired'
  BY <1>2, <1>4, <1>7, <1>8, <1>9
<1>. QED
  BY <1>4, <1>6, <1>7, <1>9 DEF SessionInv, Sound

(* The end of a refresh. *)
LEMMA FetchKeeps ==
    ASSUME SessionInv, NEW c \in Call, fetchUser(c)
    PROVE  SessionInv'
<1>. DEFINE s == setupRequired /\ ~(Yes(c) /\ ~call[c].isSetup)
<1>1. /\ AuthTypeOK /\ user \in BOOLEAN /\ loading \in BOOLEAN /\ setupRequired \in BOOLEAN
      /\ admin \in BOOLEAN /\ cookie \in BOOLEAN /\ overlapped \in BOOLEAN
      /\ Yes(c) \in BOOLEAN
  BY Booleans DEF SessionInv, Yes
<1>2. s \in BOOLEAN
  OBVIOUS
<1>3. NoCall \in CallType /\ NoCall.at = "idle"
  BY <1>1, NewCalls
<1>4. /\ Turn(c, NoCall, FALSE, Yes(c), s) /\ UNCHANGED <<admin, cookie, overlapped, rest>>
      /\ c \in Refreshing /\ call[c].at = "fetching user"
  BY DEF fetchUser, Answered, Refreshing
<1>5. rest' \in [sends : Nat, mishaps : Nat]
  BY <1>1, <1>4 DEF AuthTypeOK
<1>6. /\ Refreshing' = Refreshing \ {c}
      /\ ~loading' /\ user' = Yes(c) /\ setupRequired' = s
  <2>1. Refreshing' = Refreshing \ {c}
    BY <1>1, <1>3, <1>4, TurnRefreshes
  <2>. QED
    BY <2>1, <1>4 DEF Turn
<1>7. call' \in [Call -> CallType]
  BY <1>1, <1>3, <1>4, TurnChanges
<1>8. AuthTypeOK'
  <2>1. user' \in BOOLEAN /\ setupRequired' \in BOOLEAN
    BY <1>1, <1>2, <1>6
  <2>2. loading' = FALSE
    BY <1>4 DEF Turn
  <2>3. admin' \in BOOLEAN /\ cookie' \in BOOLEAN /\ overlapped' \in BOOLEAN
    BY <1>1, <1>4
  <2>. QED
    BY <1>1, <1>5, <1>7, <2>1, <2>2, <2>3, TypesKept
<1>9. ASSUME ~overlapped
      PROVE  Refreshing = {c} /\ (call[c].isSetup => ~setupRequired)
  BY <1>4, <1>9 DEF SessionInv, Sound
<1>10. ASSUME ~overlapped'
       PROVE  Refreshing' = {} /\ (user' => ~setupRequired')
  BY <1>4, <1>6, <1>9, <1>10
<1>. QED
  BY <1>6, <1>8, <1>10 DEF SessionInv, Sound

LEMMA LoginKeeps ==
    ASSUME SessionInv, NEW c \in Call, login(c)
    PROVE  SessionInv'
<1>1. /\ c \notin Refreshing /\ UNCHANGED <<admin, cookie, overlapped, rest>>
      /\ user \in BOOLEAN /\ setupRequired \in BOOLEAN
  BY Booleans DEF login, Answered, Refreshing, SessionInv
<1>2. PICK u, s \in BOOLEAN :
         Turn(c, NoCall, loading, u, s) /\ (s => setupRequired) /\ (u /\ s => user)
  BY <1>1 DEF login, Keep
<1>. QED
  BY <1>1, <1>2, EndKeeps

LEMMA LogoutKeeps ==
    ASSUME SessionInv, NEW c \in Call, SignedOut(c)
    PROVE  SessionInv'
<1>1. /\ c \notin Refreshing /\ UNCHANGED <<admin, cookie, overlapped, rest>>
      /\ user \in BOOLEAN /\ setupRequired \in BOOLEAN
  BY Booleans DEF SignedOut, Answered, Refreshing, SessionInv
<1>2. PICK u, s \in BOOLEAN :
         Turn(c, NoCall, loading, u, s) /\ (s => setupRequired) /\ (u /\ s => user)
  BY <1>1 DEF SignedOut, Keep
<1>. QED
  BY <1>1, <1>2, EndKeeps

(* What ends with a refresh. *)
LEMMA SubmitKeeps ==
    ASSUME SessionInv, NEW c \in Call, Submitted(c)
    PROVE  SessionInv'
<1>1. /\ c \notin Refreshing /\ UNCHANGED <<admin, cookie, rest>>
      /\ AuthTypeOK /\ user \in BOOLEAN /\ setupRequired \in BOOLEAN
      /\ admin \in BOOLEAN /\ cookie \in BOOLEAN
  BY Booleans DEF Submitted, Answered, Refreshing, SessionInv
<1>2. CASE BeginRefresh(c)
  <2>1. (Refreshing = {} => ~loading)' /\ Sound'
    BY <1>1, <1>2, RefreshBegins
  <2>2. [Waiting("checking setup") EXCEPT !.here = FALSE] \in CallType
    BY <1>1, NewCalls
  <2>3. /\ call' \in [Call -> CallType]
        /\ loading' = TRUE /\ user' = user /\ setupRequired' = setupRequired
    BY <1>1, <1>2, <2>2, TurnChanges DEF BeginRefresh
  <2>4. overlapped' \in BOOLEAN /\ rest' \in [sends : Nat, mishaps : Nat]
    BY <1>1, <1>2 DEF BeginRefresh, AuthTypeOK
  <2>5. AuthTypeOK'
    BY <1>1, <2>3, <2>4, TypesKept
  <2>. QED
    BY <2>1, <2>5 DEF SessionInv
<1>3. CASE Keep(c, NoCall) /\ UNCHANGED overlapped
  BY <1>1, <1>3, EndKeeps DEF Keep
<1>. QED
  BY <1>2, <1>3 DEF Submitted

-------------------------------------------------------------------------------

LEMMA SessionStep == SessionInv /\ [AuthNext]_authVars => SessionInv'
<1>. SUFFICES ASSUME SessionInv, [AuthNext]_authVars PROVE SessionInv'
  OBVIOUS
<1>1. ASSUME NEW c \in Call, handleLogin(c) \/ handleOnboarding(c) \/ handleSaveName(c) \/ logout(c)
      PROVE  SessionInv'
  BY <1>1, AskKeeps DEF handleLogin, handleOnboarding, handleSaveName, logout
<1>2. CASE UNCHANGED authVars
  BY <1>2 DEF authVars, SessionInv, AuthTypeOK, Sound, Refreshing
<1>. QED
  BY <1>1, <1>2, ReloadKeeps, ServeKeeps, BreakKeeps, CheckKeeps, FetchKeeps, LoginKeeps,
     LogoutKeeps, SubmitKeeps, ElsewhereKeeps
  DEF AuthNext

(* When no refresh runs the spinner is gone, and no user is kept from the  *)
(* dashboard by a setup that is not due, unless refreshes overlapped.      *)
THEOREM SessionSettles == AuthSpec => []NobodyIsLockedOut
<1>1. AuthInit => SessionInv
  BY SessionInit
<1>2. SessionInv /\ [AuthNext]_authVars => SessionInv'
  BY SessionStep
<1>3. SessionInv => NobodyIsLockedOut
  BY DEF SessionInv, Sound, NobodyIsLockedOut
<1>. QED
  BY <1>1, <1>2, <1>3, PTL DEF AuthSpec

(* ... and every variable keeps its type. *)
THEOREM SessionTypes == AuthSpec => []AuthTypeOK
<1>1. AuthInit => SessionInv
  BY SessionInit
<1>2. SessionInv /\ [AuthNext]_authVars => SessionInv'
  BY SessionStep
<1>3. SessionInv => AuthTypeOK
  BY DEF SessionInv
<1>. QED
  BY <1>1, <1>2, <1>3, PTL DEF AuthSpec

-------------------------------------------------------------------------------
(***************************************************************************)
(* QueryCache                                                              *)
(***************************************************************************)

(* A mutation under way. *)
Act == [act : query.changing \cup query.refreshing, to : Domain,
        marks : Domain, done : BOOLEAN, here : BOOLEAN]

(* A mutation that the server has carried out, and not answered yet. *)
Applied(x) ==
    \E i \in DOMAIN acts :
        acts[i].done /\ acts[i].act \in query.changing /\ At(acts[i].to) = x

(* An entry that missed nothing is what the server has, or will be when a  *)
(* load under way is answered.                                             *)
Current(x) ==
    x \notin missed /\ ~Applied(x) =>
        IF loads[x] = <<>> THEN mark[x] # "invalid" => data[x] \in {Nothing, server[x]}
                           ELSE \A i \in DOMAIN loads[x] : loads[x][i] = server[x]

(* A component that fetches by hand keeps nothing but what it shows. *)
Bare(x) == query.byHand /\ ~Active(x) => data[x] = Nothing /\ loads[x] = <<>>

CacheInv == query \in Query /\ TypeOK /\ \A x \in Slot : Current(x) /\ Bare(x)

(* The entries' own variables. *)
EntriesOK ==
    /\ server \in [Slot -> Nat]
    /\ data \in [Slot -> Nat \cup {Nothing}]
    /\ mark \in [Slot -> {"fresh", "old", "invalid"}]
    /\ loads \in [Slot -> Seq(Nat)]
    /\ missed \subseteq Slot

(* ... and those of the screen, the mutations and the bounds. *)
RestOK ==
    /\ view \in query.views \cup {Blank} /\ panel \in BOOLEAN
    /\ domain \in Domain /\ timer \in BOOLEAN
    /\ acts \in Seq(Act)
    /\ left \in [{"clicks", "moves", "mishaps"} -> Nat]

-------------------------------------------------------------------------------
LEMMA Typed == TypeOK <=> EntriesOK /\ RestOK
  BY DEF TypeOK, EntriesOK, RestOK, Act

LEMMA SlotSame == ASSUME query' = query PROVE Slot' = Slot /\ \A d : At(d)' = At(d)
  BY DEF Slot, At

LEMMA AtType == ASSUME NEW d \in Domain PROVE At(d) \in Slot
  BY DEF Slot, At

(* What is left of a sequence without its i-th element. *)
LEMMA Joined ==
  ASSUME NEW S, NEW a \in Seq(S), NEW b \in Seq(S)
  PROVE  /\ a \o b \in Seq(S) /\ Len(a \o b) = Len(a) + Len(b)
         /\ \A j \in 1..Len(a) : (a \o b)[j] = a[j]
         /\ \A j \in (Len(a) + 1)..(Len(a) + Len(b)) : (a \o b)[j] = b[j - Len(a)]
  OBVIOUS

LEMMA Removed ==
  ASSUME NEW S, NEW s \in Seq(S), NEW i \in DOMAIN s
  PROVE  /\ RemoveAt(s, i) \in Seq(S)
         /\ \A j \in DOMAIN RemoveAt(s, i) : \E k \in DOMAIN s : RemoveAt(s, i)[j] = s[k]
         /\ \A k \in DOMAIN s \ {i} : \E j \in DOMAIN RemoveAt(s, i) : RemoveAt(s, i)[j] = s[k]
<1>. DEFINE a == SubSeq(s, 1, i - 1)
            b == SubSeq(s, i + 1, Len(s))
            r == a \o b
            n == Len(s)
<1>1. i \in 1..n /\ n \in Nat /\ DOMAIN s = 1..n
  OBVIOUS
<1>2. a \in Seq(S) /\ Len(a) = i - 1 /\ \A j \in 1..(i - 1) : a[j] = s[j]
  BY <1>1
<1>3. b \in Seq(S) /\ Len(b) = n - i /\ \A j \in 1..(n - i) : b[j] = s[i + j]
  <2>1. i + 1 \in 1..(n + 1) /\ n + 1 - (i + 1) = n - i
    BY <1>1
  <2>3. b \in Seq(S)
    BY <1>1, <2>1
  <2>4. Len(b) = n - i
    BY <1>1, <2>1
  <2>5. ASSUME NEW j \in 1..(n - i) PROVE b[j] = s[i + j]
    <3>1. j \in 1..(n + 1 - (i + 1)) /\ i + 1 + j - 1 = i + j
      BY <1>1, <2>1
    <3>2. b[j] = s[i + 1 + j - 1]
      BY <1>1, <2>1, <3>1
    <3>. QED
      BY <3>1, <3>2
  <2>. QED
    BY <2>3, <2>4, <2>5
<1>4. RemoveAt(s, i) = r
  BY DEF RemoveAt
<1>. HIDE DEF a, b, n
<1>5. /\ r \in Seq(S) /\ Len(r) = n - 1
      /\ \A j \in 1..(n - 1) : r[j] = IF j < i THEN s[j] ELSE s[j + 1]
  <2>1. /\ r \in Seq(S) /\ Len(r) = Len(a) + Len(b)
        /\ \A j \in 1..Len(a) : r[j] = a[j]
        /\ \A j \in (Len(a) + 1)..(Len(a) + Len(b)) : r[j] = b[j - Len(a)]
    BY ZenonT(60), <1>2, <1>3, Joined
  <2>. HIDE DEF r
  <2>2. Len(a) + Len(b) = n - 1
    BY <1>1, <1>2, <1>3
  <2>3. ASSUME NEW j \in 1..(n - 1) PROVE r[j] = IF j < i THEN s[j] ELSE s[j + 1]
    <3>1. CASE j < i
      <4>1. j \in 1..(i - 1)
        BY <1>1, <3>1
      <4>. QED
        BY <1>2, <2>1, <3>1, <4>1
    <3>2. CASE ~(j < i)
      <4>1. /\ j - (i - 1) \in 1..(n - i) /\ i + (j - (i - 1)) = j + 1
            /\ j \in (i - 1 + 1)..(i - 1 + (n - i))
        BY <1>1, <3>2
      <4>2. r[j] = b[j - (i - 1)]
        BY <1>2, <1>3, <2>1, <4>1
      <4>3. b[j - (i - 1)] = s[i + (j - (i - 1))]
        BY <1>3, <4>1
      <4>. QED
        BY <3>2, <4>1, <4>2, <4>3
    <3>. QED
      BY <3>1, <3>2
  <2>. QED
    BY <2>1, <2>2, <2>3
<1>. HIDE DEF r
<1>6. DOMAIN r = 1..(n - 1)
  BY <1>1, <1>5
<1>7. ASSUME NEW j \in DOMAIN r PROVE \E k \in DOMAIN s : r[j] = s[k]
  <2>1. j \in DOMAIN s /\ j + 1 \in DOMAIN s
    BY <1>1, <1>6
  <2>. QED
    BY <1>5, <1>6, <2>1
<1>8. ASSUME NEW k \in DOMAIN s \ {i} PROVE \E j \in DOMAIN r : r[j] = s[k]
  <2>1. CASE k < i
    <3>1. k \in 1..(n - 1)
      BY <1>1, <2>1
    <3>. QED
      BY <1>5, <1>6, <2>1, <3>1
  <2>2. CASE k > i
    <3>1. k - 1 \in 1..(n - 1) /\ ~(k - 1 < i) /\ k - 1 + 1 = k
      BY <1>1, <2>2
    <3>. QED
      BY <1>5, <1>6, <3>1
  <2>. QED
    BY <1>1, <2>1, <2>2
<1>. QED
  BY <1>4, <1>5, <1>7, <1>8

(* What a step must show. *)
LEMMA Stepped ==
  ASSUME CacheInv, query' = query, EntriesOK', RestOK', \A x \in Slot : Current(x)' /\ Bare(x)'
  PROVE  CacheInv'
<1>1. TypeOK'
  BY Typed, PTL
<1>. QED
  BY <1>1, SlotSame DEF CacheInv

(* The entries after what is seen of the query has changed. *)
LEMMA MountEntries ==
  ASSUME CacheInv, UNCHANGED <<query, server>>,
         NEW seen \in SUBSET Slot, Mount(seen), Seen(view, panel, domain)' = seen,
         \A x \in Slot : Applied(x) => Applied(x)'
  PROVE  EntriesOK' /\ \A x \in Slot : Current(x)' /\ Bare(x)'
<1>0. EntriesOK /\ Slot' = Slot /\ \A x \in Slot : Current(x) /\ Bare(x)
  BY Typed, SlotSame DEF CacheInv
<1>1. \A x : Active(x)' <=> x \in seen
  BY DEF Active
<1>2. CASE query.byHand
  <2>1. /\ data' = [x \in Slot |-> Nothing] /\ missed' = {} /\ UNCHANGED mark
        /\ loads' = [x \in Slot |-> IF x \in seen THEN <<server[x]>> ELSE <<>>]
    BY <1>2 DEF Mount
  <2>2. EntriesOK'
    BY <1>0, <2>1 DEF EntriesOK
  <2>3. ASSUME NEW x \in Slot PROVE Current(x)' /\ Bare(x)'
    <3>1. data'[x] = Nothing /\ server'[x] = server[x]
      BY <2>1
    <3>2. CASE x \in seen
      <4>1. loads'[x] = <<server[x]>>
        BY <2>1, <3>2
      <4>2. loads'[x] # <<>> /\ \A i \in DOMAIN loads'[x] : loads'[x][i] = server[x]
        BY <4>1
      <4>. QED
        BY <1>1, <3>1, <3>2, <4>2 DEF Current, Bare
    <3>3. CASE x \notin seen
      BY <2>1, <3>1, <3>3 DEF Current, Bare
    <3>. QED
      BY <3>2, <3>3
  <2>. QED
    BY <2>2, <2>3
<1>3. CASE ~query.byHand
  <2>1. /\ loads' = [x \in Slot |-> IF Mounting(x, seen) THEN Load(x) ELSE loads[x]]
        /\ missed' = {x \in missed : ~Mounting(x, seen)}
        /\ UNCHANGED <<data, mark>>
    BY <1>3 DEF Mount
  <2>2. EntriesOK'
    <3>1. ASSUME NEW x \in Slot
          PROVE  (IF Mounting(x, seen) THEN Load(x) ELSE loads[x]) \in Seq(Nat)
      BY <1>0 DEF EntriesOK, Load
    <3>. QED
      BY <1>0, <2>1, <3>1 DEF EntriesOK
  <2>3. ASSUME NEW x \in Slot PROVE Current(x)' /\ Bare(x)'
    <3>1. Bare(x)'
      BY <1>3 DEF Bare
    <3>2. CASE Mounting(x, seen)
      <4>1. loads'[x] = Append(<<>>, server[x])
        BY <2>1, <3>2 DEF Mounting, Load
      <4>2. loads'[x] # <<>> /\ \A i \in DOMAIN loads'[x] : loads'[x][i] = server[x]
        BY <4>1
      <4>. QED
        BY <3>1, <4>2 DEF Current
    <3>3. CASE ~Mounting(x, seen)
      <4>1. loads'[x] = loads[x] /\ (x \in missed' <=> x \in missed)
        BY <2>1, <3>3
      <4>. QED
        BY <1>0, <2>1, <3>1, <4>1 DEF Current
    <3>. QED
      BY <3>2, <3>3
  <2>. QED
    BY <2>2, <2>3
<1>. QED
  BY <1>2, <1>3

(* ... after some were marked: every entry for which a mutation is no longer *)
(* waited for was marked, or is known to be missed.                          *)
LEMMA InvalidateEntries ==
  ASSUME CacheInv, UNCHANGED <<query, view, panel, domain, server, data>>,
         NEW xs \in SUBSET Slot, NEW unseen \in SUBSET Slot, Invalidate(xs, unseen),
         \A x \in Slot : Applied(x) => Applied(x)' \/ x \in xs \cup unseen
  PROVE  EntriesOK' /\ \A x \in Slot : Current(x)' /\ Bare(x)'
<1>. DEFINE reload == {x \in xs : Active(x) /\ (loads[x] = <<>> \/ data[x] # Nothing)}
<1>0. EntriesOK /\ Slot' = Slot /\ \A x \in Slot : Current(x) /\ Bare(x)
  BY Typed, SlotSame DEF CacheInv
<1>1. /\ mark'   = [x \in Slot |-> IF x \in xs THEN "invalid" ELSE mark[x]]
      /\ loads'  = [x \in Slot |-> IF x \in reload THEN <<server[x]>> ELSE loads[x]]
      /\ missed' = (missed \ reload) \cup unseen \cup {x \in xs \ reload : loads[x] # <<>>}
  BY DEF Invalidate
<1>2. reload \subseteq xs /\ \A x \in reload : Active(x)
  OBVIOUS
<1>. HIDE DEF reload
<1>3. EntriesOK'
  <2>1. ASSUME NEW x \in Slot
        PROVE  (IF x \in reload THEN <<server[x]>> ELSE loads[x]) \in Seq(Nat)
    BY <1>0 DEF EntriesOK
  <2>2. loads' \in [Slot -> Seq(Nat)]
    BY <1>1, <2>1
  <2>3. mark' \in [Slot -> {"fresh", "old", "invalid"}]
    BY <1>0, <1>1 DEF EntriesOK
  <2>4. missed' \subseteq Slot
    BY <1>0, <1>1 DEF EntriesOK
  <2>. QED
    BY <1>0, <2>2, <2>3, <2>4 DEF EntriesOK
<1>4. \A x : Active(x)' <=> Active(x)
  BY DEF Active, Seen, At
<1>5. ASSUME NEW x \in Slot PROVE Current(x)' /\ Bare(x)'
  <2>1. CASE x \in reload
    <3>1. loads'[x] = <<server[x]>>
      BY <1>1, <2>1
    <3>2. loads'[x] # <<>> /\ \A i \in DOMAIN loads'[x] : loads'[x][i] = server[x]
      BY <3>1
    <3>. QED
      BY <1>2, <1>4, <2>1, <3>2 DEF Current, Bare
  <2>2. CASE x \notin reload /\ x \in xs
    <3>1. loads'[x] = loads[x] /\ mark'[x] = "invalid" /\ (loads[x] # <<>> => x \in missed')
      BY <1>1, <2>2
    <3>. QED
      BY <1>0, <1>4, <3>1 DEF Current, Bare
  <2>3. CASE x \notin xs
    <3>1. /\ loads'[x] = loads[x] /\ mark'[x] = mark[x]
          /\ x \notin missed' => x \notin missed /\ x \notin unseen
      BY <1>1, <1>2, <2>3
    <3>. QED
      BY <1>0, <1>4, <2>3, <3>1 DEF Current, Bare
  <2>. QED
    BY <2>1, <2>2, <2>3
<1>. QED
  BY <1>3, <1>5

(* ... and the same of a component that fetches by hand. *)
LEMMA RefetchEntries ==
  ASSUME CacheInv, UNCHANGED <<query, view, panel, domain, server, data>>, query.byHand,
         NEW xs \in SUBSET Slot, NEW unseen \in SUBSET Slot, Refetch(xs, unseen),
         \A x \in Slot : Applied(x) => Applied(x)' \/ x \in xs \cup unseen
  PROVE  EntriesOK' /\ \A x \in Slot : Current(x)' /\ Bare(x)'
<1>. DEFINE reload == {x \in xs : Active(x)}
<1>0. EntriesOK /\ Slot' = Slot /\ \A x \in Slot : Current(x) /\ Bare(x)
  BY Typed, SlotSame DEF CacheInv
<1>1. /\ loads'  = [x \in Slot |-> IF x \in reload THEN Load(x) ELSE loads[x]]
      /\ missed' = (missed \ reload) \cup unseen \cup {x \in reload : loads[x] # <<>>}
      /\ UNCHANGED mark
  BY DEF Refetch
<1>2. \A x : x \in reload <=> x \in xs /\ Active(x)
  OBVIOUS
<1>. HIDE DEF reload
<1>3. EntriesOK'
  <2>1. ASSUME NEW x \in Slot
        PROVE  (IF x \in reload THEN Load(x) ELSE loads[x]) \in Seq(Nat)
    BY <1>0 DEF EntriesOK, Load
  <2>2. loads' \in [Slot -> Seq(Nat)]
    BY <1>1, <2>1
  <2>3. missed' \subseteq Slot
    BY <1>0, <1>1, <1>2 DEF EntriesOK
  <2>. QED
    BY <1>0, <1>1, <2>2, <2>3 DEF EntriesOK
<1>4. \A x : Active(x)' <=> Active(x)
  BY DEF Active, Seen, At
<1>5. ASSUME NEW x \in Slot PROVE Current(x)' /\ Bare(x)'
  <2>1. CASE x \in reload /\ loads[x] = <<>>
    <3>1. loads'[x] = Append(<<>>, server[x])
      BY <1>1, <2>1 DEF Load
    <3>2. loads'[x] # <<>> /\ \A i \in DOMAIN loads'[x] : loads'[x][i] = server[x]
      BY <3>1
    <3>. QED
      BY <1>2, <1>4, <2>1, <3>2 DEF Current, Bare
  <2>2. CASE x \in reload /\ loads[x] # <<>>
    <3>1. x \in missed'
      BY <1>1, <2>2
    <3>. QED
      BY <1>2, <1>4, <2>2, <3>1 DEF Current, Bare
  <2>3. CASE x \notin reload
    <3>1. /\ loads'[x] = loads[x] /\ mark'[x] = mark[x] /\ data'[x] = data[x]
          /\ x \notin missed' => x \notin missed /\ x \notin unseen
      BY <1>1, <2>3
    <3>2. x \in xs => data[x] = Nothing /\ loads[x] = <<>>
      BY <1>0, <1>2, <2>3 DEF Bare
    <3>. QED
      BY <1>0, <1>4, <3>1, <3>2 DEF Current, Bare
  <2>. QED
    BY <2>1, <2>2, <2>3
<1>. QED
  BY <1>3, <1>5

(* An entry that a step leaves alone. *)
LEMMA Undisturbed ==
  ASSUME CacheInv, UNCHANGED <<query, view, panel, domain>>, NEW x \in Slot,
         loads'[x] = loads[x], mark'[x] = mark[x], data'[x] = data[x], server'[x] = server[x],
         x \in missed => x \in missed', Applied(x) => Applied(x)'
  PROVE  Current(x)' /\ Bare(x)'
  BY DEF CacheInv, Current, Bare, Active, Seen, At

LEMMA SeenType ==
  ASSUME NEW d \in Domain, NEW v, NEW open
  PROVE  Seen(v, open, d) \in SUBSET Slot
  BY AtType DEF Seen

LEMMA SpentType ==
  ASSUME RestOK, NEW kind \in {"clicks", "moves", "mishaps"}, Can(kind), Use(kind)
  PROVE  left' \in [{"clicks", "moves", "mishaps"} -> Nat]
  BY DEF RestOK, Can, Use

(* What a new screen or property makes of a mutation under way. *)
LEMMA Hidden ==
  ASSUME NEW a \in Act
  PROVE  LET b == [a EXCEPT !.here = FALSE]
         IN  b \in Act /\ b.done = a.done /\ b.act = a.act /\ b.to = a.to
  BY DEF Act

LEMMA Remarked ==
  ASSUME NEW a \in Act, NEW d \in Domain
  PROVE  LET b == IF a.here THEN [a EXCEPT !.marks = d] ELSE a
         IN  b \in Act /\ b.done = a.done /\ b.act = a.act /\ b.to = a.to
<1>1. [a EXCEPT !.marks = d] \in Act
  BY DEF Act
<1>. QED
  BY <1>1 DEF Act

-------------------------------------------------------------------------------
LEMMA UserSteps ==
  ASSUME CacheInv, User PROVE CacheInv'
<1>0. /\ query \in Query /\ EntriesOK /\ RestOK
  BY Typed DEF CacheInv
<1>1. ASSUME NEW v \in query.views, Open(v) PROVE CacheInv'
  <2>1. /\ view' = v /\ panel' = FALSE /\ timer' = FALSE
        /\ acts' = [i \in DOMAIN acts |-> [acts[i] EXCEPT !.here = FALSE]]
        /\ Mount(Seen(v, FALSE, domain)) /\ UNCHANGED <<query, domain, server>>
    BY <1>1 DEF Open
  <2>2. \A i \in DOMAIN acts : acts[i] \in Act /\ [acts[i] EXCEPT !.here = FALSE] \in Act
    BY <1>0, Hidden DEF RestOK
  <2>3. acts' \in Seq(Act) /\ DOMAIN acts' = DOMAIN acts
    BY <1>0, <2>1, <2>2 DEF RestOK
  <2>4. \A i \in DOMAIN acts : /\ acts'[i].done = acts[i].done /\ acts'[i].act = acts[i].act
                                /\ acts'[i].to = acts[i].to
    BY <2>1, <2>2, Hidden
  <2>5. \A x \in Slot : Applied(x) => Applied(x)'
    BY <2>1, <2>3, <2>4 DEF Applied, At
  <2>6. RestOK'
    <3>1. left' \in [{"clicks", "moves", "mishaps"} -> Nat]
      BY <1>0, <1>1, SpentType DEF Open
    <3>2. Act' = Act
      BY <2>1 DEF Act
    <3>. QED
      BY <1>0, <2>1, <2>3, <3>1, <3>2 DEF RestOK
  <2>7. Seen(view, panel, domain)' = Seen(v, FALSE, domain)
    BY <2>1 DEF Seen, At
  <2>8. Seen(v, FALSE, domain) \in SUBSET Slot
    BY <1>0, SeenType DEF RestOK
  <2>9. EntriesOK' /\ \A x \in Slot : Current(x)' /\ Bare(x)'
    BY <2>1, <2>5, <2>7, <2>8, MountEntries
  <2>. QED
    BY <2>1, <2>6, <2>9, Stepped
<1>2. CASE Toggle
  <2>1. /\ panel' = ~panel /\ UNCHANGED <<query, view, domain, server, acts, timer>>
        /\ Mount(Seen(view, ~panel, domain))
    BY <1>2 DEF Toggle
  <2>2. \A x \in Slot : Applied(x) => Applied(x)'
    BY <2>1 DEF Applied, At
  <2>3. RestOK'
    <3>1. left' \in [{"clicks", "moves", "mishaps"} -> Nat]
      BY <1>0, <1>2, SpentType DEF Toggle
    <3>2. Act' = Act /\ panel' \in BOOLEAN
      BY <2>1 DEF Act
    <3>. QED
      BY <1>0, <2>1, <3>1, <3>2 DEF RestOK
  <2>4. Seen(view, panel, domain)' = Seen(view, ~panel, domain)
    BY <2>1 DEF Seen, At
  <2>5. Seen(view, ~panel, domain) \in SUBSET Slot
    BY <1>0, SeenType DEF RestOK
  <2>6. EntriesOK' /\ \A x \in Slot : Current(x)' /\ Bare(x)'
    BY <2>1, <2>2, <2>4, <2>5, MountEntries
  <2>. QED
    BY <2>1, <2>3, <2>6, Stepped
<1>3. ASSUME NEW d \in Domain, Select(d) PROVE CacheInv'
  <2>1. /\ domain' = d /\ UNCHANGED <<query, view, panel, server, timer>>
        /\ acts' = [i \in DOMAIN acts |->
                       IF acts[i].here THEN [acts[i] EXCEPT !.marks = d] ELSE acts[i]]
        /\ Mount(Seen(view, panel, d))
    BY <1>3 DEF Select
  <2>2. \A i \in DOMAIN acts :
          /\ acts[i] \in Act
          /\ (IF acts[i].here THEN [acts[i] EXCEPT !.marks = d] ELSE acts[i]) \in Act
    BY <1>0, Remarked DEF RestOK
  <2>3. acts' \in Seq(Act) /\ DOMAIN acts' = DOMAIN acts
    BY <1>0, <2>1, <2>2 DEF RestOK
  <2>4. \A i \in DOMAIN acts : /\ acts'[i].done = acts[i].done /\ acts'[i].act = acts[i].act
                                /\ acts'[i].to = acts[i].to
    BY <2>1, <2>2, Remarked
  <2>5. \A x \in Slot : Applied(x) => Applied(x)'
    BY <2>1, <2>3, <2>4 DEF Applied, At
  <2>6. RestOK'
    <3>1. left' \in [{"clicks", "moves", "mishaps"} -> Nat]
      BY <1>0, <1>3, SpentType DEF Select
    <3>2. Act' = Act
      BY <2>1 DEF Act
    <3>. QED
      BY <1>0, <2>1, <2>3, <3>1, <3>2 DEF RestOK
  <2>7. Seen(view, panel, domain)' = Seen(view, panel, d)
    BY <2>1 DEF Seen, At
  <2>8. Seen(view, panel, d) \in SUBSET Slot
    BY SeenType
  <2>9. EntriesOK' /\ \A x \in Slot : Current(x)' /\ Bare(x)'
    BY <2>1, <2>5, <2>7, <2>8, MountEntries
  <2>. QED
    BY <2>1, <2>6, <2>9, Stepped
<1>4. ASSUME NEW a \in view.once \cup view.often, Click(a) PROVE CacheInv'
  <2>. DEFINE c == [act |-> a, to |-> domain, marks |-> domain, done |-> FALSE, here |-> TRUE]
  <2>1. /\ acts' = Append(acts, c)
        /\ UNCHANGED <<query, view, panel, domain, server, data, mark, loads, timer, missed>>
    BY <1>4 DEF Click
  <2>2. a \in query.changing \cup query.refreshing
    <3>1. CASE view \in query.views
      BY <1>0, <3>1, ButtonsAssumption
    <3>2. CASE view = Blank
      BY <3>2 DEF Blank
    <3>. QED
      BY <1>0, <3>1, <3>2 DEF RestOK
  <2>3. c \in Act
    BY <1>0, <2>2 DEF RestOK, Act
  <2>. HIDE DEF c
  <2>4. /\ acts' \in Seq(Act)
        /\ \A i \in DOMAIN acts : i \in DOMAIN acts' /\ acts'[i] = acts[i]
    BY <1>0, <2>1, <2>3 DEF RestOK
  <2>5. \A x \in Slot : Applied(x) => Applied(x)'
    BY <2>1, <2>4 DEF Applied, At
  <2>6. RestOK'
    <3>1. left' \in [{"clicks", "moves", "mishaps"} -> Nat]
      BY <1>0, <1>4, SpentType DEF Click
    <3>2. Act' = Act
      BY <2>1 DEF Act
    <3>. QED
      BY <1>0, <2>1, <2>4, <3>1, <3>2 DEF RestOK
  <2>7. EntriesOK'
    BY <1>0, <2>1, SlotSame DEF EntriesOK
  <2>. QED
    BY <2>1, <2>5, <2>6, <2>7, Undisturbed, Stepped
<1>5. CASE Reload
  <2>1. /\ Invalidate(Slot, {})
        /\ UNCHANGED <<query, view, panel, domain, server, data, acts, timer>>
    BY <1>5 DEF Reload
  <2>2. \A x \in Slot : Applied(x) => Applied(x)'
    BY <2>1 DEF Applied, At
  <2>3. RestOK'
    <3>1. left' \in [{"clicks", "moves", "mishaps"} -> Nat]
      BY <1>0, <1>5, SpentType DEF Reload
    <3>2. Act' = Act
      BY <2>1 DEF Act
    <3>. QED
      BY <1>0, <2>1, <3>1, <3>2 DEF RestOK
  <2>4. EntriesOK' /\ \A x \in Slot : Current(x)' /\ Bare(x)'
    BY <2>1, <2>2, InvalidateEntries
  <2>. QED
    BY <2>1, <2>3, <2>4, Stepped
<1>. QED
  BY <1>1, <1>2, <1>3, <1>4, <1>5 DEF User

LEMMA ActSteps ==
  ASSUME CacheInv, NEW i \in DOMAIN acts, Apply(i) \/ Succeed(i) \/ Fail(i) PROVE CacheInv'
<1>0. /\ query \in Query /\ EntriesOK /\ RestOK /\ acts \in Seq(Act) /\ acts[i] \in Act
      /\ query' = query
  BY Typed DEF CacheInv, RestOK, Apply, Succeed, Fail
<1>. DEFINE c == acts[i]
<1>1. c.to \in Domain /\ c.marks \in Domain /\ At(c.to) \in Slot /\ At(c.marks) \in Slot
  BY <1>0, AtType DEF Act
<1>. PICK y \in Slot : y = At(c.to)
  BY <1>1
<1>2. CASE Apply(i)
  <2>1. /\ acts' = [acts EXCEPT ![i].done = TRUE]
        /\ server' = IF c.act \in query.changing THEN [server EXCEPT ![y] = @ + 1] ELSE server
        /\ UNCHANGED <<query, view, panel, domain, data, mark, loads, timer, missed, left>>
    BY <1>2 DEF Apply
  <2>2. [c EXCEPT !.done = TRUE] \in Act
    BY <1>0 DEF Act
  <2>3. acts' \in Seq(Act) /\ DOMAIN acts' = DOMAIN acts
    BY <1>0, <2>1, <2>2
  <2>4. /\ \A k \in DOMAIN acts : k # i => acts'[k] = acts[k]
        /\ acts'[i].done /\ acts'[i].act = c.act /\ acts'[i].to = c.to
    BY <1>0, <2>1 DEF Act
  <2>5. \A x \in Slot : Applied(x) => Applied(x)'
    BY <2>1, <2>3, <2>4 DEF Applied, At
  <2>6. c.act \in query.changing => Applied(y)'
    BY <2>1, <2>3, <2>4 DEF Applied, At
  <2>7. RestOK'
    <3>1. Act' = Act
      BY <2>1 DEF Act
    <3>. QED
      BY <1>0, <2>1, <2>3, <3>1 DEF RestOK
  <2>8. EntriesOK'
    BY <1>0, <1>1, <2>1, SlotSame DEF EntriesOK
  <2>9. ASSUME NEW x \in Slot PROVE Current(x)' /\ Bare(x)'
    <3>1. CASE c.act \in query.changing /\ x = y
      <4>1. Current(x)'
        BY <2>6, <3>1 DEF Current
      <4>2. Bare(x)'
        BY <2>1 DEF CacheInv, Bare, Active, Seen, At
      <4>. QED
        BY <4>1, <4>2
    <3>2. CASE ~(c.act \in query.changing /\ x = y)
      <4>1. server'[x] = server[x]
        BY <1>0, <1>1, <2>1, <3>2 DEF EntriesOK
      <4>. QED
        BY <2>1, <2>5, <4>1, Undisturbed
    <3>. QED
      BY <3>1, <3>2
  <2>. QED
    BY <2>1, <2>7, <2>8, <2>9, Stepped
<1>3. ASSUME acts' = RemoveAt(acts, i)
      PROVE  /\ acts' \in Seq(Act)
             /\ \A x \in Slot : Applied(x) =>
                   Applied(x)' \/ (c.done /\ c.act \in query.changing /\ x = y)
  <2>1. /\ acts' \in Seq(Act)
        /\ \A k \in DOMAIN acts \ {i} : \E j \in DOMAIN acts' : acts'[j] = acts[k]
    BY <1>0, <1>3, Removed
  <2>2. ASSUME NEW x \in Slot, Applied(x), ~(c.done /\ c.act \in query.changing /\ x = y)
        PROVE  Applied(x)'
    <3>1. PICK k \in DOMAIN acts :
             acts[k].done /\ acts[k].act \in query.changing /\ At(acts[k].to) = x
      BY <2>2 DEF Applied
    <3>2. k # i
      BY <2>2, <3>1
    <3>3. PICK j \in DOMAIN acts' : acts'[j] = acts[k]
      BY <2>1, <3>2
    <3>. QED
      BY <1>0, <3>1, <3>3 DEF Applied, At
  <2>. QED
    BY <2>1, <2>2
<1>4. CASE Succeed(i)
  <2>1. /\ acts' = RemoveAt(acts, i) /\ Refresh(Marked(c), Unseen(c))
        /\ UNCHANGED <<query, view, panel, domain, server, data, timer, left>>
    BY <1>4 DEF Succeed
  <2>2. Marked(c) \in SUBSET Slot /\ Unseen(c) \in SUBSET Slot
    BY <1>1 DEF Marked, Unseen
  <2>3. c.act \in query.changing => y \in Marked(c) \cup Unseen(c)
    <3>1. c.act \in query.changing => c.act \in query.refreshing \/ c.act \in query.forgetful
      BY <1>0, RefreshAssumption
    <3>. QED
      BY <1>1, <3>1 DEF Marked, Unseen
  <2>4. \A x \in Slot : Applied(x) => Applied(x)' \/ x \in Marked(c) \cup Unseen(c)
    BY <1>3, <2>1, <2>3
  <2>5. RestOK'
    <3>1. Act' = Act
      BY <2>1 DEF Act
    <3>. QED
      BY <1>0, <1>3, <2>1, <3>1 DEF RestOK
  <2>. HIDE DEF c
  <2>6. EntriesOK' /\ \A x \in Slot : Current(x)' /\ Bare(x)'
    BY <2>1, <2>2, <2>4, InvalidateEntries, RefetchEntries DEF Refresh
  <2>. QED
    BY <2>1, <2>5, <2>6, Stepped
<1>5. CASE Fail(i)
  <2>1. /\ acts' = RemoveAt(acts, i)
        /\ missed' = IF c.done /\ c.act \in query.changing THEN missed \cup {y} ELSE missed
        /\ UNCHANGED <<query, view, panel, domain, server, data, mark, loads, timer>>
    BY <1>5 DEF Fail
  <2>2. RestOK'
    <3>1. Act' = Act
      BY <2>1 DEF Act
    <3>2. left' \in [{"clicks", "moves", "mishaps"} -> Nat]
      BY <1>0, <1>5, SpentType DEF Fail
    <3>. QED
      BY <1>0, <1>3, <2>1, <3>1, <3>2 DEF RestOK
  <2>3. \A x \in Slot : Applied(x) => Applied(x)' \/ x \in missed'
    BY <1>3, <2>1
  <2>. HIDE DEF c
  <2>4. EntriesOK'
    BY <1>0, <1>1, <2>1, SlotSame DEF EntriesOK
  <2>5. ASSUME NEW x \in Slot PROVE Current(x)' /\ Bare(x)'
    <3>1. CASE x \in missed'
      BY <2>1, <3>1 DEF CacheInv, Current, Bare, Active, Seen, At
    <3>2. CASE x \notin missed'
      <4>1. x \notin missed /\ (Applied(x) => Applied(x)')
        BY <2>1, <2>3, <3>2
      <4>. QED
        BY <2>1, <4>1, Undisturbed
    <3>. QED
      BY <3>1, <3>2
  <2>. QED
    BY <2>1, <2>2, <2>4, <2>5, Stepped
<1>. QED
  BY <1>2, <1>4, <1>5

LEMMA LoadSteps ==
  ASSUME CacheInv, NEW x \in Slot, NEW i \in DOMAIN loads[x], Answer(x, i) \/ LoadFails(x, i)
  PROVE  CacheInv'
<1>0. /\ EntriesOK /\ RestOK /\ loads[x] \in Seq(Nat) /\ Slot' = Slot
      /\ UNCHANGED <<query, view, panel, domain, server, acts, timer>>
  BY Typed, SlotSame DEF CacheInv, EntriesOK, Answer, LoadFails
<1>1. PICK others \in Seq(Nat) :
        /\ others = RemoveAt(loads[x], i)
        /\ \A j \in DOMAIN others : \E k \in DOMAIN loads[x] : others[j] = loads[x][k]
  BY <1>0, Removed
<1>2. \A y : (Applied(y) => Applied(y)') /\ (Active(y) <=> Active(y)')
  BY <1>0 DEF Applied, Active, Seen, At
<1>3. ASSUME RestOK', loads' = [loads EXCEPT ![x] = others] PROVE loads' \in [Slot -> Seq(Nat)]
  BY <1>0, <1>3 DEF EntriesOK
<1>4. loads[x] # <<>>
  BY <1>0
<1>5. CASE Answer(x, i)
  <2>1. PICK v \in loads[x][i] .. server[x] :
          /\ data' = [data EXCEPT ![x] = v] /\ mark' = [mark EXCEPT ![x] = "fresh"]
          /\ loads' = [loads EXCEPT ![x] = others] /\ UNCHANGED <<missed, left>>
    BY <1>1, <1>5 DEF Answer
  <2>2. loads[x][i] \in Nat /\ server[x] \in Nat
    BY <1>0 DEF EntriesOK
  <2>3. v \in Nat
    BY <2>2
  <2>4. RestOK'
    <3>1. Act' = Act
      BY <1>0 DEF Act
    <3>. QED
      BY <1>0, <2>1, <3>1 DEF RestOK
  <2>5. EntriesOK'
    BY <1>0, <1>3, <2>1, <2>3, <2>4 DEF EntriesOK
  <2>6. ASSUME NEW y \in Slot PROVE Current(y)' /\ Bare(y)'
    <3>1. CASE y = x
      <4>1. data'[x] = v /\ loads'[x] = others /\ server'[x] = server[x]
        BY <1>0, <2>1 DEF EntriesOK
      <4>2. Bare(x)'
        BY <1>0, <1>2, <1>4 DEF CacheInv, Bare
      <4>3. ASSUME x \notin missed, ~Applied(x) PROVE v = server[x]
        <5>1. loads[x][i] = server[x]
          BY <1>4, <4>3 DEF CacheInv, Current
        <5>. QED
          BY <2>2, <5>1
      <4>4. ASSUME x \notin missed, ~Applied(x)
            PROVE  \A j \in DOMAIN others : others[j] = server[x]
        BY <1>1, <1>4, <4>4 DEF CacheInv, Current
      <4>5. Current(x)'
        BY <1>2, <2>1, <4>1, <4>3, <4>4 DEF Current
      <4>. QED
        BY <3>1, <4>2, <4>5
    <3>2. CASE y # x
      <4>1. /\ loads'[y] = loads[y] /\ mark'[y] = mark[y] /\ data'[y] = data[y]
            /\ server'[y] = server[y]
        BY <1>0, <2>1, <3>2 DEF EntriesOK
      <4>. QED
        BY <1>0, <1>2, <2>1, <4>1, Undisturbed
    <3>. QED
      BY <3>1, <3>2
  <2>. QED
    BY <1>0, <2>4, <2>5, <2>6, Stepped
<1>6. CASE LoadFails(x, i)
  <2>1. /\ mark' = IF query.byHand THEN mark ELSE [mark EXCEPT ![x] = "invalid"]
        /\ loads' = [loads EXCEPT ![x] = others] /\ missed' = missed \cup {x}
        /\ data' = data
    BY <1>1, <1>6 DEF LoadFails
  <2>2. RestOK'
    <3>1. Act' = Act
      BY <1>0 DEF Act
    <3>2. left' \in [{"clicks", "moves", "mishaps"} -> Nat]
      BY <1>0, <1>6, SpentType DEF LoadFails
    <3>. QED
      BY <1>0, <3>1, <3>2 DEF RestOK
  <2>3. EntriesOK'
    <3>1. mark' \in [Slot -> {"fresh", "old", "invalid"}]
      BY <1>0, <2>1 DEF EntriesOK
    <3>. QED
      BY <1>0, <1>3, <2>1, <2>2, <3>1 DEF EntriesOK
  <2>4. ASSUME NEW y \in Slot PROVE Current(y)' /\ Bare(y)'
    <3>1. CASE y = x
      <4>1. x \in missed'
        BY <2>1
      <4>. QED
        BY <1>0, <1>2, <1>4, <3>1, <4>1 DEF CacheInv, Current, Bare
    <3>2. CASE y # x
      <4>1. /\ loads'[y] = loads[y] /\ mark'[y] = mark[y] /\ data'[y] = data[y]
            /\ server'[y] = server[y]
        BY <1>0, <2>1, <3>2 DEF EntriesOK
      <4>. QED
        BY <1>0, <1>2, <2>1, <4>1, Undisturbed
    <3>. QED
      BY <3>1, <3>2
  <2>. QED
    BY <1>0, <2>2, <2>3, <2>4, Stepped
<1>. QED
  BY <1>5, <1>6

LEMMA TimeSteps ==
  ASSUME CacheInv,
         \/ Announce \/ Debounced
         \/ \E x \in Slot : Poll(x) \/ GrowOld(x) \/ Collect(x) \/ Elsewhere(x)
  PROVE  CacheInv'
<1>0. /\ EntriesOK /\ RestOK /\ Slot' = Slot
      /\ UNCHANGED <<query, view, panel, domain, acts>>
  BY Typed, SlotSame DEF CacheInv, Announce, Debounced, Poll, GrowOld, Collect, Elsewhere
<1>1. \A y : (Applied(y) => Applied(y)') /\ (Active(y) <=> Active(y)')
  BY <1>0 DEF Applied, Active, Seen, At
<1>2. ASSUME timer' \in BOOLEAN, left' \in [{"clicks", "moves", "mishaps"} -> Nat]
      PROVE  RestOK'
  <2>1. Act' = Act
    BY <1>0 DEF Act
  <2>. QED
    BY <1>0, <1>2, <2>1 DEF RestOK
<1>3. timer \in BOOLEAN /\ left \in [{"clicks", "moves", "mishaps"} -> Nat]
  BY <1>0 DEF RestOK
<1>4. CASE Announce
  <2>1. RestOK'
    <3>1. timer' \in BOOLEAN /\ left' \in [{"clicks", "moves", "mishaps"} -> Nat]
      BY <1>0, <1>4, SpentType DEF Announce
    <3>. QED
      BY <1>2, <3>1
  <2>2. UNCHANGED <<server, data, mark, loads, missed>>
    BY <1>4 DEF Announce
  <2>3. EntriesOK'
    BY <1>0, <2>2 DEF EntriesOK
  <2>. QED
    BY <1>0, <1>1, <2>1, <2>2, <2>3, Undisturbed, Stepped
<1>5. CASE Debounced
  <2>1. /\ timer' = FALSE /\ Invalidate(Slot, {}) /\ UNCHANGED <<server, data, left>>
    BY <1>5 DEF Debounced
  <2>2. RestOK'
    BY <1>2, <1>3, <2>1
  <2>3. EntriesOK' /\ \A y \in Slot : Current(y)' /\ Bare(y)'
    BY <1>0, <1>1, <2>1, InvalidateEntries
  <2>. QED
    BY <1>0, <2>2, <2>3, Stepped
<1>6. ASSUME NEW x \in Slot, Poll(x) PROVE CacheInv'
  <2>1. /\ Active(x) /\ loads[x] = <<>> /\ loads' = [loads EXCEPT ![x] = Load(x)]
        /\ missed' = missed \ {x} /\ UNCHANGED <<server, data, mark, timer, left>>
    BY <1>6 DEF Poll
  <2>2. RestOK'
    BY <1>2, <1>3, <2>1
  <2>3. Load(x) = Append(<<>>, server[x]) /\ server[x] \in Nat
    BY <1>0, <2>1 DEF Load, EntriesOK
  <2>4. /\ Load(x) \in Seq(Nat) /\ Load(x) # <<>>
        /\ \A j \in DOMAIN Load(x) : Load(x)[j] = server[x]
    BY <2>3
  <2>5. EntriesOK'
    BY <1>0, <2>1, <2>4 DEF EntriesOK
  <2>6. loads'[x] = Load(x) /\ \A y \in Slot : y # x => loads'[y] = loads[y]
    BY <1>0, <2>1 DEF EntriesOK
  <2>7. ASSUME NEW y \in Slot PROVE Current(y)' /\ Bare(y)'
    <3>1. CASE y = x
      BY <1>1, <2>1, <2>4, <2>6, <3>1 DEF Current, Bare
    <3>2. CASE y # x
      BY <1>0, <1>1, <2>1, <2>6, <3>2, Undisturbed
    <3>. QED
      BY <3>1, <3>2
  <2>. QED
    BY <1>0, <2>2, <2>5, <2>7, Stepped
<1>7. ASSUME NEW x \in Slot, GrowOld(x) PROVE CacheInv'
  <2>1. /\ mark[x] = "fresh" /\ mark' = [mark EXCEPT ![x] = "old"]
        /\ UNCHANGED <<server, data, loads, timer, missed>>
    BY <1>7 DEF GrowOld
  <2>2. RestOK'
    <3>1. left' \in [{"clicks", "moves", "mishaps"} -> Nat]
      BY <1>0, <1>7, SpentType DEF GrowOld
    <3>. QED
      BY <1>2, <1>3, <2>1, <3>1
  <2>3. EntriesOK'
    BY <1>0, <2>1 DEF EntriesOK
  <2>4. ASSUME NEW y \in Slot PROVE Current(y)' /\ Bare(y)'
    <3>1. mark'[y] = "invalid" => mark[y] = "invalid"
      BY <1>0, <2>1 DEF EntriesOK
    <3>2. mark[y] = "invalid" => mark'[y] = "invalid"
      BY <1>0, <2>1 DEF EntriesOK
    <3>. QED
      BY <1>0, <1>1, <2>1, <3>1, <3>2 DEF CacheInv, Current, Bare
  <2>. QED
    BY <1>0, <2>2, <2>3, <2>4, Stepped
<1>8. ASSUME NEW x \in Slot, Collect(x) PROVE CacheInv'
  <2>1. /\ loads[x] = <<>> /\ data' = [data EXCEPT ![x] = Nothing]
        /\ mark' = [mark EXCEPT ![x] = "fresh"] /\ missed' = missed \ {x}
        /\ UNCHANGED <<server, loads, timer>>
    BY <1>8 DEF Collect
  <2>2. RestOK'
    <3>1. left' \in [{"clicks", "moves", "mishaps"} -> Nat]
      BY <1>0, <1>8, SpentType DEF Collect
    <3>. QED
      BY <1>2, <1>3, <2>1, <3>1
  <2>3. EntriesOK'
    BY <1>0, <2>1 DEF EntriesOK
  <2>4. data'[x] = Nothing /\ \A y \in Slot : y # x => data'[y] = data[y] /\ mark'[y] = mark[y]
    BY <1>0, <2>1 DEF EntriesOK
  <2>5. ASSUME NEW y \in Slot PROVE Current(y)' /\ Bare(y)'
    <3>1. CASE y = x
      BY <2>1, <2>4, <3>1 DEF Current, Bare
    <3>2. CASE y # x
      BY <1>0, <1>1, <2>1, <2>4, <3>2, Undisturbed
    <3>. QED
      BY <3>1, <3>2
  <2>. QED
    BY <1>0, <2>2, <2>3, <2>5, Stepped
<1>9. ASSUME NEW x \in Slot, Elsewhere(x) PROVE CacheInv'
  <2>1. /\ server' = [server EXCEPT ![x] = @ + 1] /\ missed' = missed \cup {x}
        /\ UNCHANGED <<data, mark, loads, timer>>
    BY <1>9 DEF Elsewhere
  <2>2. RestOK'
    <3>1. left' \in [{"clicks", "moves", "mishaps"} -> Nat]
      BY <1>0, <1>9, SpentType DEF Elsewhere
    <3>. QED
      BY <1>2, <1>3, <2>1, <3>1
  <2>3. EntriesOK'
    BY <1>0, <2>1 DEF EntriesOK
  <2>4. \A y \in Slot : y # x => server'[y] = server[y]
    BY <1>0, <2>1 DEF EntriesOK
  <2>5. ASSUME NEW y \in Slot PROVE Current(y)' /\ Bare(y)'
    <3>1. CASE y = x
      <4>1. x \in missed'
        BY <2>1
      <4>. QED
        BY <1>0, <1>1, <2>1, <3>1, <4>1 DEF CacheInv, Current, Bare
    <3>2. CASE y # x
      BY <1>0, <1>1, <2>1, <2>4, <3>2, Undisturbed
    <3>. QED
      BY <3>1, <3>2
  <2>. QED
    BY <1>0, <2>2, <2>3, <2>5, Stepped
<1>. QED
  BY <1>4, <1>5, <1>6, <1>7, <1>8, <1>9

-------------------------------------------------------------------------------
LEMMA CacheInit == Init => CacheInv
<1>. SUFFICES ASSUME Init PROVE CacheInv
  OBVIOUS
<1>1. \A x \in Slot : loads[x] = <<>> /\ data[x] = Nothing
  BY DEF Init
<1>2. EntriesOK
  <2>1. <<>> \in Seq(Nat)
    OBVIOUS
  <2>. QED
    BY <2>1 DEF Init, EntriesOK
<1>3. RestOK
  <2>1. <<>> \in Seq(Act)
    OBVIOUS
  <2>2. left \in [{"clicks", "moves", "mishaps"} -> Nat]
    BY BoundsAssumption DEF Init
  <2>. QED
    BY <2>1, <2>2 DEF Init, RestOK
<1>4. query \in Query
  BY DEF Init
<1>. QED
  BY <1>1, <1>2, <1>3, <1>4, Typed DEF CacheInv, Current, Bare

LEMMA CacheInductive == CacheInv /\ [Next]_vars => CacheInv'
<1>. SUFFICES ASSUME CacheInv, [Next]_vars PROVE CacheInv'
  OBVIOUS
<1>1. CASE User
  BY <1>1, UserSteps
<1>2. CASE Mutating \/ Failing
  BY <1>2, ActSteps, LoadSteps DEF Mutating, Failing
<1>3. CASE Loading
  BY <1>3, LoadSteps DEF Loading
<1>4. CASE Polling \/ Time
  BY <1>4, TimeSteps DEF Polling, Time
<1>5. CASE UNCHANGED vars
  <2>1. EntriesOK /\ RestOK
    BY Typed DEF CacheInv
  <2>2. EntriesOK'
    BY <1>5, <2>1 DEF vars, EntriesOK, Slot
  <2>3. RestOK'
    BY <1>5, <2>1 DEF vars, RestOK, Act
  <2>4. \A x \in Slot : Applied(x) => Applied(x)'
    BY <1>5 DEF vars, Applied, At
  <2>. QED
    BY <1>5, <2>2, <2>3, <2>4, Undisturbed, Stepped DEF vars
<1>. QED
  BY <1>1, <1>2, <1>3, <1>4, <1>5 DEF Next

(* Every variable keeps to its type. *)
THEOREM EntriesTyped == Spec => []TypeOK
<1>1. CacheInv => TypeOK
  BY DEF CacheInv
<1>. QED
  BY CacheInit, CacheInductive, <1>1, PTL DEF Spec

(* An entry the cache takes for valid, with nothing under way for it, is   *)
(* what the server has, whatever the order of answers, marks, screens and  *)
(* selected properties (useQuery, invalidateQueries and the hooks'         *)
(* onSuccess), but for changes that no load was sent to see.  The          *)
(* assumption it rests on allows the hooks to leave marks out where they   *)
(* are listed to: the audit log, the privacy audit and others stay stale.  *)
THEOREM NothingStaleIsFresh == Spec => []FreshIsCurrent
<1>1. CacheInv => FreshIsCurrent
  <2>. SUFFICES ASSUME CacheInv PROVE FreshIsCurrent
    OBVIOUS
  <2>1. \A x : Applied(x) => Changed(x)
    BY DEF Applied, Changed
  <2>. QED
    BY <2>1 DEF CacheInv, FreshIsCurrent, Current
<1>. QED
  BY CacheInit, CacheInductive, <1>1, PTL DEF Spec

-------------------------------------------------------------------------------
(* The run that explores the queries, the session and the containers. *)

LEMMA DashboardSides ==
    [QueriesNext \/ SessionNext \/ TagsNext]_<<side, vars, tagVars, authVars>>
      => [Next]_vars /\ [AuthNext]_authVars /\ [TagNext]_tagVars
  BY DEF QueriesNext, SessionNext, TagsNext

(* No answer, click or change of screen leaves a value outside its type.   *)
THEOREM DashboardTypes == MCSpec => []TypesOK
<1>. DEFINE Inv == CacheInv /\ SessionInv /\ TagInv
<1>1. MCInit => Inv
  BY CacheInit, SessionInit, TagInvInit DEF MCInit
<1>2. Inv /\ [QueriesNext \/ SessionNext \/ TagsNext]_<<side, vars, tagVars, authVars>> => Inv'
  BY DashboardSides, CacheInductive, SessionStep, TagInvStep
<1>3. Inv => TypesOK
  BY DEF CacheInv, SessionInv, TagInv, TypesOK
<1>. QED
  BY <1>1, <1>2, <1>3, PTL DEF MCSpec
=============================================================================
