----------------------------- MODULE QueryCache -----------------------------
(***************************************************************************)
(* What the dashboard shows of the server's data.                          *)
(*                                                                         *)
(* Every screen reads through a query and writes through a mutation.       *)
(* Queries are cached under a key by the client of lib/query-client.ts     *)
(* (or kept in the component's own state, in the screens that fetch by     *)
(* hand); a mutation that succeeds marks the keys that start with the      *)
(* prefixes its hook names, and reloads those that are on screen.  What a  *)
(* screen is made of is the data of module Screens; this module says what  *)
(* happens to the entries of ONE query, chosen at the start: entries of    *)
(* different keys never touch each other.                                  *)
(*                                                                         *)
(* The server's copy of an entry is the number of times it was changed; a  *)
(* load brings the copy there was when it was sent or a later one.         *)
(***************************************************************************)
EXTENDS Naturals, Sequences, SequencesExt

CONSTANTS
    Query,          \* the queries, by what the hooks and the screens make of them:
                    \*   perProperty  it has an entry per property
                    \*   byHand       a component fetches it into its own state
                    \*   polled       it may be polled (refetchInterval)
                    \*   steady       it always is
                    \*   changing     the mutations that change it at the server
                    \*   refreshing   those that mark it when they succeed,
                    \*   narrow       ... its entry of the selected property only,
                    \*   local        ... in a callback of the component
                    \*   forgetful    those known to change it without marking it,
                    \*   anywhere     ... maybe its entries of properties not selected
                    \*   views        what the screens have for it, see Blank
    Domain,         \* the properties (sites) the user can select
    Nothing,        \* no data
    Clicks,         \* bound: mutations sent, and changes made by others
    Moves,          \* bound: screens opened, panels toggled, properties selected
    Mishaps         \* bound: requests failed, entries grown old or collected

VARIABLES
    query,          \* the query that is followed
    view,           \* what the open screen has for it, one of query.views, or Blank
    panel,          \* the panel of the screen (dialog, sheet, expanded row) is open
    domain,         \* useDomainStore.selectedDomainId
    server,         \* [slot -> changes made at the server]
    data,           \* [slot -> what the cache holds: a version, or Nothing]
    mark,           \* [slot -> "fresh", "old" (staleTime passed) or "invalid"]
    loads,          \* [slot -> the loads under way, each by the version it found on sending]
    acts,           \* the mutations under way, in the order they were sent
    timer,          \* the debounce timer of useRealtime runs
    missed,         \* ghost: slots with a change that no load was sent to see
    left            \* what is left of the bounds

vars == <<query, view, panel, domain, server, data, mark, loads, acts, timer, missed, left>>

ASSUME NothingAssumption == Nothing \notin Nat

ASSUME BoundsAssumption == Clicks \in Nat /\ Moves \in Nat /\ Mishaps \in Nat
ASSUME DomainAssumption == Domain # {}

\* The hooks' promise: what a mutation changes it marks, the named gaps apart.
ASSUME RefreshAssumption ==
    \A q \in Query : q.changing \subseteq q.refreshing \cup q.forgetful

\* What may change entries of other properties marks none of them: for these it is
\* like a change that another user made, see Elsewhere.
ASSUME AnywhereAssumption == \A q \in Query : q.anywhere \subseteq q.forgetful

\* The buttons of a screen that concern the query are those of its mutations.
ASSUME ButtonsAssumption ==
    \A q \in Query : \A v \in q.views :
        v.once \cup v.often \subseteq q.changing \cup q.refreshing

---------------------------------------------------------------------------
(* Entries and screens. *)

\* A query of a property has an entry per property.
Everywhere == "everywhere"
Slot == IF query.perProperty THEN Domain ELSE {Everywhere}

\* A mistake the type invariant catches: the key of a query that is the same for
\* all properties names the property.
At_Named(d) == d

\* The entry that d's screens look at.
At(d) == IF query.perProperty THEN d ELSE Everywhere

\* A screen may show the query, or have a panel that does; it may have buttons of
\* mutations that concern it, disabled while theirs is pending (once) or not
\* (often), a button that reloads it, and announcements of the server that do.
Blank == [shows |-> FALSE, opens |-> FALSE, once |-> {}, often |-> {},
          reloads |-> FALSE, pushed |-> FALSE]

\* The entry on screen, if any.
Seen(v, open, d) == IF v.shows \/ (v.opens /\ open) THEN {At(d)} ELSE {}
Active(x)        == x \in Seen(view, panel, domain)

Can(kind) == left[kind] > 0
Use(kind) == left' = [left EXCEPT ![kind] = @ - 1]

\* fetch: a load is sent.
Load(x) == Append(loads[x], server[x])

\* Whether the entry loads when useQuery mounts on it, or selects it: one that is
\* absent or not fresh does, unless a load is under way.
Mounting(x, seen) ==
    x \in seen /\ loads[x] = <<>> /\ (data[x] = Nothing \/ mark[x] # "fresh")

\* What is seen of the query changes.  A component that fetches by hand has its
\* data in its state: it begins with it.
Mount(seen) ==
    IF query.byHand
    THEN /\ data'   = [x \in Slot |-> Nothing]
         /\ loads'  = [x \in Slot |-> IF x \in seen THEN <<server[x]>> ELSE <<>>]
         /\ missed' = {}
         /\ UNCHANGED mark
    ELSE /\ loads'  = [x \in Slot |-> IF Mounting(x, seen) THEN Load(x) ELSE loads[x]]
         /\ missed' = {x \in missed : ~Mounting(x, seen)}
         /\ UNCHANGED <<data, mark>>

---------------------------------------------------------------------------
(* The user. *)

\* A route is opened: the components of the screen before it are unmounted.
\* Mutations and loads under way go on, but they belong to no component; the
\* debounce timer of useRealtime does not.
Open(v) ==
    /\ Can("moves") /\ v # view
    /\ view' = v /\ panel' = FALSE /\ timer' = FALSE
    /\ acts' = [i \in DOMAIN acts |-> [acts[i] EXCEPT !.here = FALSE]]
    /\ Mount(Seen(v, FALSE, domain)) /\ Use("moves")
    /\ UNCHANGED <<query, domain, server>>

\* A dialog, sheet, tab or expanded row of the screen with queries of its own.
Toggle ==
    /\ Can("moves") /\ view.opens
    /\ panel' = ~panel /\ UNCHANGED <<query, view, domain, server, acts, timer>>
    /\ Mount(Seen(view, ~panel, domain)) /\ Use("moves")

\* DomainPicker.  The hooks of a mutation close over the selected property, and
\* one under way is given the callbacks of the latest render: where its keys
\* name the property, it will mark those of the property then selected.
Select(d) ==
    /\ Can("moves") /\ d # domain /\ query.perProperty
    /\ domain' = d
    /\ acts' = [i \in DOMAIN acts |->
                   IF acts[i].here THEN [acts[i] EXCEPT !.marks = d] ELSE acts[i]]
    /\ UNCHANGED <<query, view, panel, server, timer>>
    /\ Mount(Seen(view, panel, d)) /\ Use("moves")

\* A mutation is sent.  Most buttons are disabled while theirs is pending, which
\* is known to the component and forgotten with it.
Click(a) ==
    /\ Can("clicks") /\ a \in view.once \cup view.often
    /\ a \in view.once => ~\E i \in DOMAIN acts : acts[i].act = a /\ acts[i].here
    /\ acts' = Append(acts, [act |-> a, to |-> domain, marks |-> domain,
                             done |-> FALSE, here |-> TRUE])
    /\ Use("clicks")
    /\ UNCHANGED <<query, view, panel, domain, server, data, mark, loads, timer, missed>>

---------------------------------------------------------------------------
(* Marking and loading anew. *)

\* A mistake FreshIsCurrent catches: a load under way is not dropped for another.
Invalidate_KeepsLoad(xs, unseen) ==
    LET shown == {x \in xs : Active(x)}
    IN  /\ mark'   = [x \in Slot |-> IF x \in xs THEN "invalid" ELSE mark[x]]
        /\ loads'  = [x \in Slot |-> IF x \in shown /\ loads[x] = <<>> THEN Load(x) ELSE loads[x]]
        /\ missed' = (missed \ shown) \cup unseen \cup {x \in xs \ shown : loads[x] # <<>>}

\* A mistake CatchesUp catches: entries on screen are marked, and left alone.
Invalidate_MarksOnly(xs, unseen) ==
    /\ mark'   = [x \in Slot |-> IF x \in xs THEN "invalid" ELSE mark[x]]
    /\ missed' = missed \cup unseen \cup {x \in xs : loads[x] # <<>>}
    /\ UNCHANGED loads

\* invalidateQueries: the entries are marked, and those on screen loaded anew; a
\* load under way is dropped for that.  It is not when it is the first of its
\* entry, or when nobody looks at the entry: its answer will clear the mark.
Invalidate(xs, unseen) ==
    LET reload == {x \in xs : Active(x) /\ (loads[x] = <<>> \/ data[x] # Nothing)}
    IN  /\ mark'   = [x \in Slot |-> IF x \in xs THEN "invalid" ELSE mark[x]]
        /\ loads'  = [x \in Slot |-> IF x \in reload THEN <<server[x]>> ELSE loads[x]]
        /\ missed' = (missed \ reload) \cup unseen \cup {x \in xs \ reload : loads[x] # <<>>}

\* A component that fetches by hand fetches again; the loads it has under way go
\* on, and the one answered last is what it shows.
Refetch(xs, unseen) ==
    LET reload == {x \in xs : Active(x)}
    IN  /\ loads'  = [x \in Slot |-> IF x \in reload THEN Load(x) ELSE loads[x]]
        /\ missed' = (missed \ reload) \cup unseen \cup {x \in reload : loads[x] # <<>>}
        /\ UNCHANGED mark

Refresh(xs, unseen) == IF query.byHand THEN Refetch(xs, unseen) ELSE Invalidate(xs, unseen)

\* The refresh button of DashboardHeader.
Reload ==
    /\ Can("moves") /\ view.reloads /\ Use("moves")
    /\ Invalidate(Slot, {})
    /\ UNCHANGED <<query, view, panel, domain, server, data, acts, timer>>

\* onmessage of useRealtime: the server received events.  It says so before it
\* stores them, and not at all while the stream is broken.
Announce ==
    /\ view.pushed /\ Can("mishaps") /\ Use("mishaps")
    /\ timer' = TRUE
    /\ UNCHANGED <<query, view, panel, domain, server, data, mark, loads, acts, missed>>

\* No further announcement for five seconds.
Debounced ==
    /\ timer /\ timer' = FALSE
    /\ Invalidate(Slot, {})
    /\ UNCHANGED <<query, view, panel, domain, server, data, acts, left>>

---------------------------------------------------------------------------
(* Mutations. *)

\* The server carries one out.
Apply(i) ==
    /\ ~acts[i].done
    /\ acts' = [acts EXCEPT ![i].done = TRUE]
    /\ server' = IF acts[i].act \in query.changing
                 THEN [server EXCEPT ![At(acts[i].to)] = @ + 1] ELSE server
    /\ UNCHANGED <<query, view, panel, domain, data, mark, loads, timer, missed, left>>

\* The entries its hook marks: those of every property, or of the one its key
\* names.  What a component adds in its own callback is skipped when it is gone.
Marked(c) ==
    CASE c.act \notin query.refreshing       -> {}
      [] c.act \in query.local /\ ~c.here    -> {}
      [] c.act \in query.narrow              -> {At(c.marks)}
      [] OTHER                                -> Slot

\* The entry a mutation changed and will not mark: the known gaps, a refresh
\* of a component that is gone, the keys of a property no longer selected.
Unseen(c) ==
    IF /\ c.act \in query.changing
       /\ \/ c.act \in query.forgetful
          \/ c.act \in query.local /\ ~c.here
          \/ c.act \in query.narrow /\ At(c.marks) # At(c.to)
    THEN {At(c.to)} ELSE {}

\* Its answer arrives: onSuccess.
Succeed(i) ==
    /\ acts[i].done
    /\ acts' = RemoveAt(acts, i)
    /\ Refresh(Marked(acts[i]), Unseen(acts[i]))
    /\ UNCHANGED <<query, view, panel, domain, server, data, timer, left>>

\* It is refused, or its answer is lost, and onSuccess does not run: what the
\* server may have done is not looked at.
Fail(i) ==
    /\ Can("mishaps") /\ Use("mishaps")
    /\ acts' = RemoveAt(acts, i)
    /\ missed' = IF acts[i].done /\ acts[i].act \in query.changing
                 THEN missed \cup {At(acts[i].to)} ELSE missed
    /\ UNCHANGED <<query, view, panel, domain, server, data, mark, loads, timer>>

---------------------------------------------------------------------------
(* Loads. *)

\* Its answer arrives: what the server had at some moment since it was sent.
Answer(x, i) ==
    /\ \E v \in loads[x][i] .. server[x] : data' = [data EXCEPT ![x] = v]
    /\ mark' = [mark EXCEPT ![x] = "fresh"]
    /\ loads' = [loads EXCEPT ![x] = RemoveAt(@, i)]
    /\ UNCHANGED <<query, view, panel, domain, server, acts, timer, missed, left>>

\* Two attempts failed (retry: 1): the entry keeps what it had, marked.
LoadFails(x, i) ==
    /\ Can("mishaps") /\ Use("mishaps")
    /\ mark' = IF query.byHand THEN mark ELSE [mark EXCEPT ![x] = "invalid"]
    /\ loads' = [loads EXCEPT ![x] = RemoveAt(@, i)]
    /\ missed' = missed \cup {x}
    /\ UNCHANGED <<query, view, panel, domain, server, data, acts, timer>>

\* refetchInterval of an entry on screen.
Poll(x) ==
    /\ query.polled /\ Active(x) /\ loads[x] = <<>>
    /\ loads' = [loads EXCEPT ![x] = Load(x)]
    /\ missed' = missed \ {x}
    /\ UNCHANGED <<query, view, panel, domain, server, data, mark, acts, timer, left>>

\* What changes by itself: visits, a job that goes on, what others do, what a
\* mutation does to the entries of properties not selected.
Elsewhere(x) ==
    /\ Can("clicks") /\ Use("clicks")
    /\ server' = [server EXCEPT ![x] = @ + 1]
    /\ missed' = missed \cup {x}
    /\ UNCHANGED <<query, view, panel, domain, data, mark, loads, acts, timer>>

\* staleTime passes.
GrowOld(x) ==
    /\ ~query.byHand /\ data[x] # Nothing /\ mark[x] = "fresh"
    /\ Can("mishaps") /\ Use("mishaps")
    /\ mark' = [mark EXCEPT ![x] = "old"]
    /\ UNCHANGED <<query, view, panel, domain, server, data, loads, acts, timer, missed>>

\* gcTime passes.
Collect(x) ==
    /\ ~query.byHand /\ data[x] # Nothing /\ loads[x] = <<>> /\ ~Active(x)
    /\ Can("mishaps") /\ Use("mishaps")
    /\ data' = [data EXCEPT ![x] = Nothing]
    /\ mark' = [mark EXCEPT ![x] = "fresh"]
    /\ missed' = missed \ {x}
    /\ UNCHANGED <<query, view, panel, domain, server, loads, acts, timer>>

---------------------------------------------------------------------------

Init ==
    /\ query \in Query /\ domain \in Domain
    /\ view = Blank /\ panel = FALSE /\ timer = FALSE
    /\ server = [x \in Slot |-> 0]
    /\ data   = [x \in Slot |-> Nothing]
    /\ mark   = [x \in Slot |-> "fresh"]
    /\ loads  = [x \in Slot |-> <<>>]
    /\ acts = <<>> /\ missed = {}
    /\ left = [clicks |-> Clicks, moves |-> Moves, mishaps |-> Mishaps]

Mutating == \E i \in DOMAIN acts : Apply(i) \/ Succeed(i)
Loading  == \E x \in Slot : \E i \in DOMAIN loads[x] : Answer(x, i)
Polling  == \E x \in Slot : Poll(x)

User    == \/ \E v \in query.views : Open(v)
           \/ Toggle
           \/ \E d \in Domain : Select(d)
           \/ \E a \in view.once \cup view.often : Click(a)
           \/ Reload
Failing == \/ \E i \in DOMAIN acts : Fail(i)
           \/ \E x \in Slot : \E i \in DOMAIN loads[x] : LoadFails(x, i)
Time    == \/ Announce \/ Debounced
           \/ \E x \in Slot : GrowOld(x) \/ Collect(x) \/ Elsewhere(x)

Next == User \/ Mutating \/ Loading \/ Polling \/ Failing \/ Time

\* Requests are answered, and the timers of the page expire.
Fairness == /\ WF_vars(Mutating) /\ WF_vars(Loading) /\ WF_vars(Debounced)
            /\ WF_vars(query.steady /\ Polling)

Spec     == Init /\ [][Next]_vars
LiveSpec == Spec /\ Fairness

---------------------------------------------------------------------------

TypeOK ==
    /\ view \in query.views \cup {Blank} /\ panel \in BOOLEAN
    /\ domain \in Domain
    /\ server \in [Slot -> Nat]
    /\ data \in [Slot -> Nat \cup {Nothing}]
    /\ mark \in [Slot -> {"fresh", "old", "invalid"}]
    /\ loads \in [Slot -> Seq(Nat)]
    /\ acts \in Seq([act : query.changing \cup query.refreshing, to : Domain,
                     marks : Domain, done : BOOLEAN, here : BOOLEAN])
    /\ timer \in BOOLEAN /\ missed \subseteq Slot
    /\ left \in [{"clicks", "moves", "mishaps"} -> Nat]

\* A mutation that changes the entry is under way.
Changed(x) == \E i \in DOMAIN acts : acts[i].act \in query.changing /\ At(acts[i].to) = x

\* An entry that the cache does not take for invalid is what the server has,
\* once its loads and the mutations that change it are answered: no order of
\* answers, reloads, screens and properties leaves an older copy behind
\* unnoticed.  Excepted are the changes no load was sent to see: those of others,
\* those whose answer failed, and those a mutation does not mark (Gaps of Hooks:
\* the audit log, the privacy audit, the statistics after an import, ...).
FreshIsCurrent ==
    \A x \in Slot :
        loads[x] = <<>> /\ mark[x] # "invalid" /\ x \notin missed /\ ~Changed(x)
            => data[x] \in {Nothing, server[x]}

UpToDate(x) == data[x] = server[x] \/ (~query.steady /\ x \in missed)

\* An entry that stays on screen ends by showing what the server has, unless it
\* missed a change in one of those ways and nothing polls it.
CatchesUp ==
    \A x \in Domain \cup {Everywhere} :
        <>[](x \in Slot /\ Active(x)) => <>[](x \in Slot => UpToDate(x))
=============================================================================
