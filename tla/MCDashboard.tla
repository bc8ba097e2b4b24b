---------------------------- MODULE MCDashboard ----------------------------
(***************************************************************************)
(* Instances of QueryCache (with the screens of the dashboard), of Session *)
(* and of TagContainer for TLC.  They share no state: the run explores     *)
(* each of them while the others have not begun.                           *)
(***************************************************************************)
EXTENDS QueryCache, Screens, Session, TagContainer, TLC

CONSTANTS d1, d2

VARIABLE side

\* Mutations that change and mark a query in the same way behave alike.
Kind(q, m) ==
    [changing |-> m \in q.changing, refreshing |-> m \in q.refreshing,
     narrow |-> m \in q.narrow, local |-> m \in q.local,
     forgetful |-> m \in q.forgetful]

Sent(q, v) == {Kind(q, m) : m \in v.once \cup v.often}

\* With two buttons of a kind, two of them can be under way.
SentTwice(q, v) ==
    {k \in Sent(q, v) : \/ \E m \in v.often : Kind(q, m) = k
                       \/ \E m, n \in v.once : m # n /\ Kind(q, m) = k /\ Kind(q, n) = k}

\* Queries that the client treats in the same way are taken together, and so are
\* the screens that show them in the same way: what one of them does, or one of
\* the screens has, is done by the query and had by the screen that stand for all.
\* On is made of pairs of a query and what a screen has for it.
Standing(on) ==
    LET twice == UNION {SentTwice(p[1], p[2]) : p \in on}
        some  == CHOOSE p \in on : TRUE
    IN  [some[2] EXCEPT !.once    = UNION {Sent(p[1], p[2]) : p \in on} \ twice,
                        !.often   = twice,
                        !.reloads = \E p \in on : p[2].reloads,
                        !.pushed  = \E p \in on : p[2].pushed]

Together(qs) ==
    LET on     == UNION {{<<q, v>> : v \in q.views} : q \in qs}
        shown  == {<<p[2].shows, p[2].opens>> : p \in on}
        kinds  == UNION {Sent(p[1], p[2]) : p \in on}
        some   == CHOOSE q \in qs : TRUE
    IN  [perProperty |-> some.perProperty, byHand |-> some.byHand,
         polled |-> some.polled, steady |-> some.steady,
         changing   |-> {k \in kinds : k.changing},
         anywhere   |-> UNION {{Kind(q, m) : m \in q.anywhere} : q \in qs},
         refreshing |-> {k \in kinds : k.refreshing},
         narrow     |-> {k \in kinds : k.narrow},
         local      |-> {k \in kinds : k.local},
         forgetful  |-> {k \in kinds : k.forgetful},
         views      |-> {Standing({p \in on : <<p[2].shows, p[2].opens>> = s}) : s \in shown}]

Treated(q) == <<q.perProperty, q.byHand, q.polled, q.steady>>

Abouts  == {About(q) : q \in Queries}
MCQuery == {Together({q \in Abouts : Treated(q) = t}) : t \in {Treated(q) : q \in Abouts}}

---------------------------------------------------------------------------

\* The properties are alike: it does not matter which is selected first.
MCInit ==
    /\ domain = d1
    /\ side \in {"queries", "session", "tags"}
    /\ Init /\ TagInit /\ AuthInit
    /\ side # "queries" => query = (CHOOSE q \in MCQuery : TRUE)
    /\ side # "session" => admin /\ cookie /\ call[CHOOSE c \in Call : TRUE].at # "idle"

QueriesNext == side = "queries" /\ Next /\ UNCHANGED <<side, tagVars, authVars>>
SessionNext == side = "session" /\ AuthNext /\ UNCHANGED <<side, vars, tagVars>>
TagsNext    == side = "tags" /\ TagNext /\ UNCHANGED <<side, vars, authVars>>

MCFairness ==
    /\ WF_vars(side = "queries" /\ Mutating) /\ WF_vars(side = "queries" /\ Loading)
    /\ WF_vars(side = "queries" /\ Debounced)
    /\ WF_vars(side = "queries" /\ query.steady /\ Polling)

MCSpec ==
    /\ MCInit /\ [][QueriesNext \/ SessionNext \/ TagsNext]_<<side, vars, tagVars, authVars>>
    /\ MCFairness

\* The type invariants of the three modules.
TypesOK == TypeOK /\ AuthTypeOK /\ TagTypeOK
=============================================================================
