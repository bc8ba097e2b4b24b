----------------------------- MODULE TagContainer -----------------------------
(***************************************************************************)
(* The tag container of a site: its draft, the versions published of it,   *)
(* and the script served to the site's visitors from a cache               *)
(* (internal/api/handlers_tagmanager.go, pages/tag-manager).               *)
(*                                                                         *)
(* Handlers run at once, each as a sequence of database statements: other  *)
(* handlers run between any two of them.  A container is one row; what the *)
(* draft holds is named by the changes that made its tags and the rest     *)
(* (triggers and variables), which a publish reads by separate statements. *)
(***************************************************************************)
EXTENDS Naturals, FiniteSets

CONSTANTS
    Admin,          \* browsers with the tag manager open
    Visitor,        \* requests for the site's script
    MaxContainers,  \* bound: containers created, one after the other
    MaxEdits,       \* bound: edits and imports of each container
    MaxVersion      \* bound: versions published of each container

ASSUME TagBoundsAssumption == {MaxContainers, MaxEdits, MaxVersion} \subseteq Nat
ASSUME ClientsAssumption == Admin \cap Visitor = {}

VARIABLES
    row,            \* tm_containers and what belongs to them, see Row
    saved,          \* tm_snapshots: [<<id, version>> -> content], UNIQUE
    cache,          \* containerCache: the version it has the script of, or None
    job,            \* [client -> the handler that runs for it]
    screen,         \* [admin -> the container as its browser last loaded it]
    late            \* ghost: the cache missed a change of what is published

tagVars == <<row, saved, cache, job, screen, late>>

Id      == 1 .. MaxContainers
Version == 0 .. MaxVersion
None    == <<0, 0>>

Content == [tags : 0 .. MaxEdits, rest : 0 .. MaxEdits]
Empty   == [tags |-> 0, rest |-> 0]
Row     == [state : {"new", "there", "deleted"}, published : Version, draft : 1 .. MaxEdits + 1,
            holds : Content]
Idle    == [at |-> "idle", id |-> 0, version |-> 0, holds |-> Empty]

\* The container of the site: UNIQUE(domain_id).
There     == {i \in Id : row[i].state = "there"}
Latest(i) == Cardinality({key \in DOMAIN saved : key[1] = i})

Goes(c, at, job_) == job' = [job EXCEPT ![c] = [job_ EXCEPT !.at = at]]
Ends(c)           == job' = [job EXCEPT ![c] = Idle]

---------------------------------------------------------------------------
(* The draft. *)

\* CreateContainer
Create(i) ==
    /\ There = {} /\ row[i].state = "new" /\ \A k \in Id : row[k].state = "new" => i <= k
    /\ row' = [row EXCEPT ![i].state = "there"]
    /\ UNCHANGED <<saved, cache, job, screen, late>>

\* DeleteContainer: the row goes, the script of the site stays in the cache.
Delete(i) ==
    /\ i \in There
    /\ row' = [row EXCEPT ![i].state = "deleted"]
    /\ late' = (late \/ cache # None)
    /\ UNCHANGED <<saved, cache, job, screen>>

\* The number of the next change: what was changed last, and once more.
Change(i) == 1 + (IF row[i].holds.tags > row[i].holds.rest THEN row[i].holds.tags
                                                           ELSE row[i].holds.rest)

\* CreateTag, UpdateTag, DeleteTag; and the same of triggers and variables.
EditTags(i) ==
    /\ i \in There /\ Change(i) <= MaxEdits
    /\ row' = [row EXCEPT ![i].holds.tags = Change(i)]
    /\ UNCHANGED <<saved, cache, job, screen, late>>

EditRest(i) ==
    /\ i \in There /\ Change(i) <= MaxEdits
    /\ row' = [row EXCEPT ![i].holds.rest = Change(i)]
    /\ UNCHANGED <<saved, cache, job, screen, late>>

\* ImportContainer replaces everything; no other handler raises draft_version.
ImportContainer(i) ==
    /\ i \in There /\ Change(i) <= MaxEdits
    /\ row' = [row EXCEPT ![i].draft = @ + 1,
                          ![i].holds = [tags |-> Change(i), rest |-> Change(i)]]
    /\ UNCHANGED <<saved, cache, job, screen, late>>

---------------------------------------------------------------------------
(* Publishing and rolling back. *)

\* useContainer and useContainerVersions: what PublishBar and VersionHistory show.
Look(a) ==
    /\ \E i \in There : screen' = [screen EXCEPT ![a] = [id |-> i, published |-> row[i].published,
                                       draft |-> row[i].draft, latest |-> Latest(i)]]
    /\ UNCHANGED <<row, saved, cache, job, late>>

hasUnpublishedChanges(a) == screen[a].draft > screen[a].published

\* PublishContainer reads the row ...
Publish(a) ==
    /\ job[a] = Idle /\ hasUnpublishedChanges(a) /\ screen[a].id \in There
    /\ row[screen[a].id].published < MaxVersion
    /\ Goes(a, "reading tags", [Idle EXCEPT !.id = screen[a].id,
                                            !.version = row[screen[a].id].published + 1])
    /\ UNCHANGED <<row, saved, cache, screen, late>>

\* ... builds the snapshot (buildContainerSnapshot) ...
ReadTags(a) ==
    /\ job[a].at = "reading tags"
    /\ Goes(a, "reading rest", [job[a] EXCEPT !.holds.tags = row[job[a].id].holds.tags])
    /\ UNCHANGED <<row, saved, cache, screen, late>>

ReadRest(a) ==
    /\ job[a].at = "reading rest"
    /\ Goes(a, "saving", [job[a] EXCEPT !.holds.rest = row[job[a].id].holds.rest])
    /\ UNCHANGED <<row, saved, cache, screen, late>>

\* A mistake PublishedIsSaved catches: the snapshot of a version is written over.
Save_Replaces(a) ==
    LET j == job[a]
        key == <<j.id, j.version>>
    IN  /\ j.at = "saving"
        /\ saved' = [k \in DOMAIN saved \cup {key} |-> IF k = key THEN j.holds ELSE saved[k]]
        /\ row' = [row EXCEPT ![j.id].published = IF j.id \in There THEN j.version ELSE @]
        /\ Goes(a, "clearing", j)
        /\ UNCHANGED <<cache, screen, late>>

\* ... and in one transaction saves it under the next version and publishes it
\* (no row is updated when the container was deleted meanwhile) ...
Save(a) ==
    LET j == job[a]
        key == <<j.id, j.version>>
    IN  /\ j.at = "saving" /\ key \notin DOMAIN saved
        /\ saved' = [k \in DOMAIN saved \cup {key} |-> IF k = key THEN j.holds ELSE saved[k]]
        /\ row' = [row EXCEPT ![j.id].published = IF j.id \in There THEN j.version ELSE @]
        /\ Goes(a, "clearing", j)
        /\ UNCHANGED <<cache, screen, late>>

\* ... or fails: the version is taken, or the database refuses.
Refused(a) ==
    /\ job[a].at = "saving"
    /\ Ends(a) /\ UNCHANGED <<row, saved, cache, screen, late>>

\* A mistake ServedIsPublished catches: a rollback does not clear the script.
Rollback_KeepsScript(a, v) ==
    LET i == screen[a].id
    IN  /\ job[a] = Idle /\ v \in 1 .. screen[a].latest - 1
        /\ i \in There /\ <<i, v>> \in DOMAIN saved
        /\ row' = [row EXCEPT ![i].published = v]
        /\ UNCHANGED <<saved, cache, job, screen, late>>

\* RollbackContainer; VersionHistory offers every version but the highest.
Rollback(a, v) ==
    LET i == screen[a].id
    IN  /\ job[a] = Idle /\ v \in 1 .. screen[a].latest - 1
        /\ i \in There /\ <<i, v>> \in DOMAIN saved
        /\ row' = [row EXCEPT ![i].published = v]
        /\ Goes(a, "clearing", [Idle EXCEPT !.id = i, !.version = v, !.holds = saved[<<i, v>>]])
        /\ UNCHANGED <<saved, cache, screen, late>>

\* Both end by clearing the cached script.
Clear(a) ==
    /\ job[a].at = "clearing"
    /\ cache' = None /\ late' = FALSE
    /\ Ends(a) /\ UNCHANGED <<row, saved, screen>>

---------------------------------------------------------------------------
(* Serving: ServeContainerScript. *)

\* No script is cached: the published version is looked up, then its snapshot.
Serve(v) ==
    /\ job[v] = Idle /\ cache = None
    /\ \E i \in There :
         /\ row[i].published > 0
         /\ Goes(v, "generating", [Idle EXCEPT !.id = i, !.version = row[i].published])
    /\ UNCHANGED <<row, saved, cache, screen, late>>

Store(v) ==
    LET j == job[v]
    IN  /\ j.at = "generating"
        /\ IF <<j.id, j.version>> \in DOMAIN saved
           THEN /\ cache' = <<j.id, j.version>>
                /\ late' = ~(j.id \in There /\ row[j.id].published = j.version)
           ELSE UNCHANGED <<cache, late>>
        /\ Ends(v) /\ UNCHANGED <<row, saved, screen>>

---------------------------------------------------------------------------

TagInit ==
    /\ row = [i \in Id |-> [state |-> "new", published |-> 0, draft |-> 1, holds |-> Empty]]
    /\ saved = [key \in {} |-> Empty]
    /\ cache = None /\ late = FALSE
    /\ job = [c \in Admin \cup Visitor |-> Idle]
    /\ screen = [a \in Admin |-> [id |-> 0, published |-> 0, draft |-> 0, latest |-> 0]]

TagNext ==
    \/ \E i \in Id : Create(i) \/ Delete(i) \/ EditTags(i) \/ EditRest(i) \/ ImportContainer(i)
    \/ \E a \in Admin : \/ Look(a) \/ Publish(a) \/ ReadTags(a) \/ ReadRest(a) \/ Save(a)
                        \/ Refused(a) \/ Clear(a) \/ \E v \in Version : Rollback(a, v)
    \/ \E v \in Visitor : Serve(v) \/ Store(v)

TagSpec == TagInit /\ [][TagNext]_tagVars

---------------------------------------------------------------------------

TagTypeOK ==
    /\ row \in [Id -> Row]
    /\ DOMAIN saved \subseteq Id \X (Version \ {0}) /\ \A k \in DOMAIN saved : saved[k] \in Content
    /\ cache \in (Id \X Version) \cup {None}
    /\ job \in [Admin \cup Visitor ->
                  [at : {"idle", "reading tags", "reading rest", "saving", "clearing", "generating"},
                   id : Id \cup {0}, version : Version, holds : Content]]
    /\ screen \in [Admin -> [id : Id \cup {0}, published : Version, draft : 0 .. MaxEdits + 1, latest : Nat]]
    /\ late \in BOOLEAN

\* The site's script always has a snapshot to be made of, and what a publish
\* answers for is what it saved: of two that race for a version, one is refused.
PublishedIsSaved ==
    /\ \A i \in Id : row[i].published > 0 => <<i, row[i].published>> \in DOMAIN saved
    /\ \A a \in Admin : job[a].at = "clearing" =>
           /\ <<job[a].id, job[a].version>> \in DOMAIN saved
           /\ saved[<<job[a].id, job[a].version>>] = job[a].holds

\* The cached script is that of the published version, until a publish or a
\* rollback has cleared it; the deletion of the container does not, and a
\* request overtaken by the clearing stores the old script after it.
ServedIsPublished ==
    cache # None /\ ~late /\ ~(\E a \in Admin : job[a].at = "clearing") =>
        /\ cache[1] \in There
        /\ cache[2] = row[cache[1]].published

\* "PublishContainer publishes the current container state as a new version":
\* while nobody else publishes or rolls back, the next version is a new one.
PublishesNewVersion ==
    \A a \in Admin :
        /\ job[a].at = "saving" /\ job[a].id \in There
        /\ \A b \in Admin \ {a} : job[b] = Idle
        /\ job[a].version = row[job[a].id].published + 1
        => <<job[a].id, job[a].version>> \notin DOMAIN saved
=============================================================================
