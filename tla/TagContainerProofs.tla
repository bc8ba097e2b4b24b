-------------------------- MODULE TagContainerProofs --------------------------
(***************************************************************************)
(* Proofs about TagContainer, for any admins, visitors, containers and     *)
(* versions.                                                               *)
(***************************************************************************)
EXTENDS TagContainer, FiniteSetTheorems, TLAPS

JobType ==
    [at : {"idle", "reading tags", "reading rest", "saving", "clearing", "generating"},
     id : Id \cup {0}, version : Version, holds : Content]

ScreenType == [id : Id \cup {0}, published : Version, draft : 0 .. MaxEdits + 1, latest : Nat]

(* A handler that runs has a container and a version, only imports raise   *)
(* the draft's number, each of them an edit too, and there are finitely    *)
(* many snapshots to count.                                                *)
TagInv ==
    /\ TagTypeOK
    /\ \A c \in Admin \cup Visitor : job[c].at # "idle" => job[c].id \in Id /\ job[c].version > 0
    /\ \A i \in Id : row[i].draft <= Change(i)
    /\ IsFiniteSet(DOMAIN saved)

(* What the properties say of the published versions and of the cache.     *)
SavedInv  == TagInv /\ PublishedIsSaved
ServedInv == TagInv /\ ServedIsPublished

-------------------------------------------------------------------------------
(* Types, one variable at a time. *)

LEMMA NumbersOfEdits ==
    ASSUME TagTypeOK, NEW i \in Id
    PROVE  /\ row[i] \in Row /\ row[i].holds.tags \in 0 .. MaxEdits
           /\ row[i].holds.rest \in 0 .. MaxEdits
           /\ Change(i) \in Nat /\ Change(i) > 0
           /\ Change(i) > row[i].holds.tags /\ Change(i) > row[i].holds.rest
<1>1. row[i] \in Row
  BY DEF TagTypeOK
<1>2. row[i].holds \in Content
  BY <1>1 DEF Row
<1>3. row[i].holds.tags \in 0 .. MaxEdits /\ row[i].holds.rest \in 0 .. MaxEdits
  BY <1>2 DEF Content
<1>. QED
  BY <1>1, <1>3, TagBoundsAssumption DEF Change

LEMMA TagInvInit == TagInit => TagInv /\ PublishedIsSaved /\ ServedIsPublished
<1>. SUFFICES ASSUME TagInit PROVE TagInv /\ PublishedIsSaved /\ ServedIsPublished
  OBVIOUS
<1>1. /\ 0 \in Version /\ 0 \in 0 .. MaxEdits /\ 0 \in 0 .. MaxEdits + 1
      /\ 1 \in 1 .. MaxEdits + 1
  BY TagBoundsAssumption DEF Version
<1>2. Empty \in Content
  BY <1>1 DEF Content, Empty
<1>3. row \in [Id -> Row] /\ \A i \in Id : row[i].published = 0
  BY <1>1, <1>2 DEF TagInit, Row
<1>4. job \in [Admin \cup Visitor -> JobType] /\ \A c \in Admin \cup Visitor : job[c].at = "idle"
  BY <1>1, <1>2 DEF TagInit, JobType, Idle
<1>5. screen \in [Admin -> ScreenType]
  BY <1>1 DEF TagInit, ScreenType
<1>6. DOMAIN saved = {}
  BY DEF TagInit
<1>7. \A i \in Id : row[i].draft <= Change(i)
  BY DEF TagInit, Change, Empty
<1>8. TagTypeOK
  BY <1>3, <1>4, <1>5, <1>6 DEF TagInit, TagTypeOK, JobType, ScreenType
<1>9. IsFiniteSet(DOMAIN saved)
  BY <1>6, FS_EmptySet
<1>. QED
  BY <1>3, <1>4, <1>7, <1>8, <1>9 DEF TagInv, PublishedIsSaved, ServedIsPublished, TagInit

(* Creating, deleting and editing keep the types of the rows. *)
LEMMA DraftInv ==
    ASSUME TagInv, NEW i \in Id,
           Create(i) \/ Delete(i) \/ EditTags(i) \/ EditRest(i) \/ ImportContainer(i)
    PROVE  TagInv'
<1>1. /\ row[i] \in Row /\ row[i].holds.tags \in 0 .. MaxEdits
      /\ row[i].holds.rest \in 0 .. MaxEdits
      /\ Change(i) \in Nat /\ Change(i) > 0
      /\ Change(i) > row[i].holds.tags /\ Change(i) > row[i].holds.rest
      /\ row[i].draft <= Change(i)
  BY NumbersOfEdits DEF TagInv
<1>2. UNCHANGED <<saved, cache, job, screen>> /\ late' \in BOOLEAN
  BY DEF Create, Delete, EditTags, EditRest, ImportContainer, TagInv, TagTypeOK
<1>3. PICK r \in Row :
         /\ row' = [row EXCEPT ![i] = r]
         /\ r.draft <= 1 + (IF r.holds.tags > r.holds.rest THEN r.holds.tags ELSE r.holds.rest)
  <2>. DEFINE e == Change(i)
  <2>2. CASE Create(i) \/ Delete(i)
    <3>1. PICK state \in {"there", "deleted"} : row' = [row EXCEPT ![i] = [row[i] EXCEPT !.state = state]]
      BY <2>2 DEF Create, Delete
    <3>2. [row[i] EXCEPT !.state = state] \in Row
      BY <1>1 DEF Row
    <3>. QED
      BY <1>1, <3>1, <3>2 DEF Change, Row
  <2>3. CASE EditTags(i)
    <3>. DEFINE r == [row[i] EXCEPT !.holds = [row[i].holds EXCEPT !.tags = e]]
    <3>1. row' = [row EXCEPT ![i] = r] /\ e <= MaxEdits
      BY <2>3 DEF EditTags
    <3>2. e \in 0 .. MaxEdits
      BY <1>1, <3>1, TagBoundsAssumption
    <3>3. r.draft = row[i].draft /\ r.holds.tags = e /\ r.holds.rest = row[i].holds.rest
      BY <1>1 DEF Row, Content
    <3>4. r \in Row
      BY <1>1, <3>1, <3>2, TagBoundsAssumption DEF Row, Content
    <3>. HIDE DEF r
    <3>5. r.draft <= 1 + (IF r.holds.tags > r.holds.rest THEN r.holds.tags ELSE r.holds.rest)
      BY <1>1, <3>2, <3>3, TagBoundsAssumption DEF Row, Change
    <3>. QED
      BY <3>1, <3>4, <3>5
  <2>4. CASE EditRest(i)
    <3>. DEFINE r == [row[i] EXCEPT !.holds = [row[i].holds EXCEPT !.rest = e]]
    <3>1. row' = [row EXCEPT ![i] = r] /\ e <= MaxEdits
      BY <2>4 DEF EditRest
    <3>2. e \in 0 .. MaxEdits
      BY <1>1, <3>1, TagBoundsAssumption
    <3>3. r.draft = row[i].draft /\ r.holds.rest = e /\ r.holds.tags = row[i].holds.tags
      BY <1>1 DEF Row, Content
    <3>4. r \in Row
      BY <1>1, <3>1, <3>2, TagBoundsAssumption DEF Row, Content
    <3>. HIDE DEF r
    <3>5. r.draft <= 1 + (IF r.holds.tags > r.holds.rest THEN r.holds.tags ELSE r.holds.rest)
      BY <1>1, <3>2, <3>3, TagBoundsAssumption DEF Row, Change
    <3>. QED
      BY <3>1, <3>4, <3>5
  <2>5. CASE ImportContainer(i)
    <3>. DEFINE r == [row[i] EXCEPT !.draft = @ + 1, !.holds = [tags |-> e, rest |-> e]]
    <3>1. row' = [row EXCEPT ![i] = r] /\ e <= MaxEdits
      BY <2>5 DEF ImportContainer
    <3>2. e \in 0 .. MaxEdits
      BY <1>1, <3>1, TagBoundsAssumption
    <3>3. r.draft = row[i].draft + 1 /\ r.holds.rest = e /\ r.holds.tags = e
      BY <1>1 DEF Row, Content
    <3>4. r \in Row
      <4>1. row[i].draft \in 1 .. MaxEdits + 1 /\ row[i].draft <= e
        BY <1>1 DEF Row
      <4>2. row[i].draft + 1 \in 1 .. MaxEdits + 1
        BY <1>1, <3>1, <4>1, TagBoundsAssumption
      <4>. QED
        BY <1>1, <3>2, <4>2 DEF Row, Content
    <3>. HIDE DEF r
    <3>5. r.draft <= 1 + (IF r.holds.tags > r.holds.rest THEN r.holds.tags ELSE r.holds.rest)
      BY <1>1, <3>2, <3>3, TagBoundsAssumption DEF Row, Change
    <3>. QED
      BY <3>1, <3>4, <3>5
  <2>. QED
    BY <2>2, <2>3, <2>4, <2>5
<1>4. row' \in [Id -> Row] /\ \A k \in Id : row'[k].draft <= Change(k)'
  BY <1>3 DEF Change, TagInv, TagTypeOK
<1>. QED
  BY <1>2, <1>3, <1>4 DEF TagInv, TagTypeOK

(* ... and what is published. *)
LEMMA DraftKeeps ==
    ASSUME TagInv, NEW i \in Id,
           Create(i) \/ Delete(i) \/ EditTags(i) \/ EditRest(i) \/ ImportContainer(i)
    PROVE  /\ \A k \in Id : row'[k].published = row[k].published
           /\ UNCHANGED <<saved, cache, job>>
<1>1. row \in [Id -> Row] /\ row[i] \in Row
  BY DEF TagInv, TagTypeOK
<1>. USE <1>1 DEF Row
<1>2. CASE Create(i)
  BY <1>2 DEF Create
<1>3. CASE Delete(i)
  BY <1>3 DEF Delete
<1>4. CASE EditTags(i)
  BY <1>4 DEF EditTags
<1>5. CASE EditRest(i)
  BY <1>5 DEF EditRest
<1>6. CASE ImportContainer(i)
  BY <1>6 DEF ImportContainer
<1>. QED
  BY <1>2, <1>3, <1>4, <1>5, <1>6

(* Looking fetches numbers that the rows have. *)
LEMMA LookInv ==
    ASSUME TagInv, NEW a \in Admin, Look(a)
    PROVE  TagInv'
<1>1. PICK i \in Id : screen' = [screen EXCEPT ![a] =
         [id |-> i, published |-> row[i].published, draft |-> row[i].draft, latest |-> Latest(i)]]
  BY DEF Look, There
<1>2. row[i] \in Row
  BY DEF TagInv, TagTypeOK
<1>3. Latest(i) \in Nat
  <2>1. IsFiniteSet({key \in DOMAIN saved : key[1] = i})
    BY FS_Subset DEF TagInv
  <2>. QED
    BY <2>1, FS_CardinalityType DEF Latest
<1>4. [id |-> i, published |-> row[i].published, draft |-> row[i].draft, latest |-> Latest(i)]
          \in ScreenType
  BY <1>2, <1>3, TagBoundsAssumption DEF Row, ScreenType
<1>5. screen' \in [Admin -> ScreenType]
  BY <1>1, <1>4 DEF TagInv, TagTypeOK, ScreenType
<1>. QED
  BY <1>5 DEF Look, TagInv, TagTypeOK, Change, ScreenType

(* A handler goes on: it has a container and a version. *)
LEMMA JobStep ==
    ASSUME TagInv, NEW c \in Admin \cup Visitor, NEW j \in JobType,
           j.at # "idle" => j.id \in Id /\ j.version > 0,
           job' = [job EXCEPT ![c] = j]
    PROVE  /\ job' \in [Admin \cup Visitor -> JobType]
           /\ \A b \in Admin \cup Visitor :
                job'[b].at # "idle" => job'[b].id \in Id /\ job'[b].version > 0
<1>1. job \in [Admin \cup Visitor -> JobType]
  BY DEF TagInv, TagTypeOK, JobType
<1>. QED
  BY <1>1 DEF TagInv

LEMMA IdleJob == Idle \in JobType /\ Idle.at = "idle"
  BY TagBoundsAssumption DEF Idle, JobType, Version, Content, Empty

(* The job of a handler, and what comes of it. *)
LEMMA JobOf ==
    ASSUME TagInv, NEW c \in Admin \cup Visitor, job[c].at # "idle"
    PROVE  /\ job[c] \in JobType /\ job[c].id \in Id /\ job[c].version \in Version \ {0}
           /\ job[c].version > 0 /\ row[job[c].id] \in Row
<1>1. job[c] \in JobType /\ job[c].id \in Id /\ job[c].version > 0
  BY DEF TagInv, TagTypeOK, JobType
<1>2. row[job[c].id] \in Row
  BY <1>1 DEF TagInv, TagTypeOK
<1>3. job[c].version \in Version
  BY <1>1 DEF JobType
<1>4. job[c].version # 0
  BY <1>1, <1>3, TagBoundsAssumption DEF Version
<1>. QED
  BY <1>1, <1>2, <1>3, <1>4

(* A handler that only changes what it holds, or ends. *)
LEMMA QuietJob ==
    ASSUME TagInv, NEW c \in Admin \cup Visitor, NEW j \in JobType,
           j.at # "idle" => j.id \in Id /\ j.version > 0,
           job' = [job EXCEPT ![c] = j],
           UNCHANGED <<row, saved, screen>>,
           cache' \in (Id \X Version) \cup {None}, late' \in BOOLEAN
    PROVE  TagInv'
<1>1. /\ job' \in [Admin \cup Visitor -> JobType]
      /\ \A b \in Admin \cup Visitor :
           job'[b].at # "idle" => job'[b].id \in Id /\ job'[b].version > 0
  BY JobStep
<1>. QED
  BY <1>1 DEF TagInv, TagTypeOK, JobType, Change

LEMMA PublishInv ==
    ASSUME TagInv, NEW a \in Admin, Publish(a)
    PROVE  TagInv'
<1>. DEFINE i == screen[a].id
            j == [[Idle EXCEPT !.id = i, !.version = row[i].published + 1] EXCEPT !.at = "reading tags"]
<1>1. i \in Id /\ row[i] \in Row /\ row[i].published < MaxVersion
  BY DEF Publish, There, TagInv, TagTypeOK
<1>2. row[i].published + 1 \in Version /\ row[i].published + 1 > 0
  BY <1>1, TagBoundsAssumption DEF Row, Version
<1>3. Empty \in Content
  BY TagBoundsAssumption DEF Empty, Content
<1>4. j \in JobType /\ j.id = i /\ j.version = row[i].published + 1
  BY <1>1, <1>2, <1>3 DEF JobType, Idle
<1>5. job' = [job EXCEPT ![a] = j] /\ UNCHANGED <<row, saved, cache, screen, late>>
  BY DEF Publish, Goes
<1>6. cache' \in (Id \X Version) \cup {None} /\ late' \in BOOLEAN
  BY <1>5 DEF TagInv, TagTypeOK
<1>7. j.id \in Id /\ j.version > 0
  BY <1>1, <1>2, <1>4
<1>. HIDE DEF j
<1>. QED
  BY <1>4, <1>5, <1>6, <1>7, QuietJob

LEMMA ReadInv ==
    ASSUME TagInv, NEW a \in Admin, ReadTags(a) \/ ReadRest(a)
    PROVE  TagInv'
<1>1. /\ job[a].at # "idle" /\ UNCHANGED <<row, saved, cache, screen, late>>
      /\ cache' \in (Id \X Version) \cup {None} /\ late' \in BOOLEAN
  BY DEF ReadTags, ReadRest, TagInv, TagTypeOK
<1>2. /\ job[a] \in JobType /\ job[a].id \in Id /\ job[a].version \in Version \ {0}
      /\ job[a].version > 0 /\ row[job[a].id] \in Row
  BY <1>1, JobOf
<1>3. PICK at \in {"reading rest", "saving"}, holds \in Content :
         job' = [job EXCEPT ![a] = [job[a] EXCEPT !.at = at, !.holds = holds]]
  <2>1. /\ [job[a].holds EXCEPT !.tags = row[job[a].id].holds.tags] \in Content
        /\ [job[a].holds EXCEPT !.rest = row[job[a].id].holds.rest] \in Content
    BY <1>2 DEF JobType, Row, Content
  <2>2. CASE ReadTags(a)
    BY <2>1, <2>2 DEF ReadTags, Goes
  <2>3. CASE ReadRest(a)
    BY ZenonT(90), <2>1, <2>3 DEF ReadRest, Goes
  <2>. QED
    BY <2>2, <2>3
<1>. DEFINE j == [job[a] EXCEPT !.at = at, !.holds = holds]
<1>4. j \in JobType /\ j.id \in Id /\ j.version > 0
  <2>1. j \in JobType /\ j.id = job[a].id /\ j.version = job[a].version
    BY ZenonT(90), <1>2 DEF JobType
  <2>. HIDE DEF j
  <2>. QED
    BY <1>2, <2>1
<1>5. job' = [job EXCEPT ![a] = j]
  BY ZenonT(90), <1>3
<1>. HIDE DEF j
<1>. QED
  BY <1>1, <1>4, <1>5, QuietJob

(* The steps of a handler that leave the containers and their snapshots    *)
(* alone, and do not end in the clearing of the cache.                     *)
LEMMA QuietHandlers ==
    ASSUME TagInv
    PROVE  /\ \A a \in Admin :
                Publish(a) \/ ReadTags(a) \/ ReadRest(a) \/ Clear(a) \/ Refused(a) =>
                    /\ UNCHANGED <<row, saved>>
                    /\ \E k : k.at # "clearing" /\ job' = [job EXCEPT ![a] = k]
           /\ \A v \in Visitor :
                Serve(v) \/ Store(v) =>
                    /\ UNCHANGED <<row, saved>>
                    /\ \E k : k.at # "clearing" /\ job' = [job EXCEPT ![v] = k]
<1>1. ASSUME NEW a \in Admin, Publish(a)
      PROVE  \E k : k.at # "clearing" /\ job' = [job EXCEPT ![a] = k]
  <2>. DEFINE k == [[Idle EXCEPT !.id = screen[a].id, !.version = row[screen[a].id].published + 1]
                         EXCEPT !.at = "reading tags"]
  <2>1. job' = [job EXCEPT ![a] = k]
    BY <1>1 DEF Publish, Goes
  <2>2. k.at # "clearing"
    BY DEF Idle
  <2>. QED
    BY <2>1, <2>2
<1>2. ASSUME NEW a \in Admin, ReadTags(a) \/ ReadRest(a)
      PROVE  \E k : k.at # "clearing" /\ job' = [job EXCEPT ![a] = k]
  <2>1. job[a] \in JobType
    BY DEF TagInv, TagTypeOK, JobType
  <2>2. CASE ReadTags(a)
    <3>. DEFINE k == [[job[a] EXCEPT !.holds.tags = row[job[a].id].holds.tags] EXCEPT !.at = "reading rest"]
    <3>1. job' = [job EXCEPT ![a] = k]
      BY <2>2 DEF ReadTags, Goes
    <3>2. k.at # "clearing"
      BY <2>1 DEF JobType
    <3>. QED
      BY <3>1, <3>2
  <2>3. CASE ReadRest(a)
    <3>. DEFINE k == [[job[a] EXCEPT !.holds.rest = row[job[a].id].holds.rest] EXCEPT !.at = "saving"]
    <3>1. job' = [job EXCEPT ![a] = k]
      BY <2>3 DEF ReadRest, Goes
    <3>2. k.at # "clearing"
      BY <2>1 DEF JobType
    <3>. QED
      BY <3>1, <3>2
  <2>. QED
    BY <1>2, <2>2, <2>3
<1>3. ASSUME NEW v \in Visitor, Serve(v)
      PROVE  \E k : k.at # "clearing" /\ job' = [job EXCEPT ![v] = k]
  <2>1. PICK i \in There : job' = [job EXCEPT ![v] =
               [[Idle EXCEPT !.id = i, !.version = row[i].published] EXCEPT !.at = "generating"]]
    BY <1>3 DEF Serve, Goes
  <2>2. [[Idle EXCEPT !.id = i, !.version = row[i].published] EXCEPT !.at = "generating"].at # "clearing"
    BY DEF Idle
  <2>. QED
    BY <2>1, <2>2
<1>4. Idle.at # "clearing"
  BY DEF Idle
<1>. QED
  BY <1>1, <1>2, <1>3, <1>4
  DEF Publish, ReadTags, ReadRest, Clear, Refused, Serve, Store, Ends

(* A handler that ends, having done nothing but for the cache. *)
LEMMA EndInv ==
    ASSUME TagInv, NEW c \in Admin \cup Visitor, Ends(c), UNCHANGED <<row, saved, screen>>,
           cache' \in (Id \X Version) \cup {None}, late' \in BOOLEAN
    PROVE  TagInv'
  BY IdleJob, QuietJob DEF Ends

LEMMA ServeInv ==
    ASSUME TagInv, NEW v \in Visitor, Serve(v)
    PROVE  TagInv'
<1>1. PICK i \in There :
         /\ row[i].published > 0
         /\ job' = [job EXCEPT ![v] =
               [[Idle EXCEPT !.id = i, !.version = row[i].published] EXCEPT !.at = "generating"]]
  BY DEF Serve, Goes
<1>. DEFINE j == [[Idle EXCEPT !.id = i, !.version = row[i].published] EXCEPT !.at = "generating"]
<1>2. i \in Id /\ row[i] \in Row
  BY DEF There, TagInv, TagTypeOK
<1>3. Empty \in Content
  BY TagBoundsAssumption DEF Empty, Content
<1>4. j \in JobType /\ j.id = i /\ j.version = row[i].published
  BY <1>2, <1>3 DEF JobType, Idle, Row
<1>5. UNCHANGED <<row, saved, cache, screen, late>>
  BY DEF Serve
<1>6. cache' \in (Id \X Version) \cup {None} /\ late' \in BOOLEAN
  BY <1>5 DEF TagInv, TagTypeOK
<1>7. job' = [job EXCEPT ![v] = j]
  BY <1>1
<1>. HIDE DEF j
<1>. QED
  BY <1>1, <1>2, <1>4, <1>5, <1>6, <1>7, QuietJob

LEMMA StoreInv ==
    ASSUME TagInv, NEW v \in Visitor, Store(v)
    PROVE  TagInv'
<1>1. /\ job[v].at # "idle" /\ Ends(v) /\ UNCHANGED <<row, saved, screen>>
  BY DEF Store
<1>2. job[v].id \in Id /\ job[v].version \in Version
  BY <1>1, JobOf
<1>3. cache' \in (Id \X Version) \cup {None} /\ late' \in BOOLEAN
  BY ZenonT(90), <1>2 DEF Store, TagInv, TagTypeOK
<1>. QED
  BY <1>1, <1>3, EndInv

LEMMA ClearInv ==
    ASSUME TagInv, NEW a \in Admin, Clear(a) \/ Refused(a)
    PROVE  TagInv'
  BY EndInv DEF Clear, Refused, TagInv, TagTypeOK

(* The published version of a row is set by a handler that clears the cache. *)
LEMMA RowPublished ==
    ASSUME TagInv, NEW a \in Admin, NEW j \in JobType, j.id \in Id, j.version > 0,
           job' = [job EXCEPT ![a] = j],
           NEW published \in Version, row' = [row EXCEPT ![j.id].published = published],
           DOMAIN saved' \subseteq Id \X (Version \ {0}),
           \A key \in DOMAIN saved' : saved'[key] \in Content,
           IsFiniteSet(DOMAIN saved'),
           UNCHANGED <<cache, screen, late>>
    PROVE  TagInv'
<1>1. /\ job' \in [Admin \cup Visitor -> JobType]
      /\ \A b \in Admin \cup Visitor :
           job'[b].at # "idle" => job'[b].id \in Id /\ job'[b].version > 0
  BY JobStep
<1>. DEFINE r == [row[j.id] EXCEPT !.published = published]
<1>2. row[j.id] \in Row /\ row' = [row EXCEPT ![j.id] = r]
  BY DEF TagInv, TagTypeOK
<1>3. r \in Row /\ r.draft = row[j.id].draft /\ r.holds = row[j.id].holds
  BY <1>2 DEF Row
<1>. HIDE DEF r
<1>4. row' \in [Id -> Row] /\ \A i \in Id : row'[i].draft = row[i].draft /\ row'[i].holds = row[i].holds
  BY ZenonT(90), <1>2, <1>3 DEF TagInv, TagTypeOK
<1>5. \A i \in Id : row'[i].draft <= Change(i)'
  BY <1>4 DEF TagInv, Change
<1>. QED
  BY <1>1, <1>4, <1>5 DEF TagInv, TagTypeOK, JobType

LEMMA SaveInv ==
    ASSUME TagInv, NEW a \in Admin, Save(a)
    PROVE  TagInv'
<1>. DEFINE j   == job[a]
            key == <<j.id, j.version>>
            k   == [j EXCEPT !.at = "clearing"]
<1>1. /\ job[a].at # "idle" /\ job' = [job EXCEPT ![a] = k]
      /\ saved' = [x \in DOMAIN saved \cup {key} |-> IF x = key THEN j.holds ELSE saved[x]]
      /\ row' = [row EXCEPT ![j.id].published = IF j.id \in There THEN j.version ELSE @]
      /\ UNCHANGED <<cache, screen, late>>
  BY DEF Save, Goes
<1>2. j \in JobType /\ j.id \in Id /\ j.version \in Version \ {0} /\ j.version > 0 /\ row[j.id] \in Row
  BY <1>1, JobOf
<1>3. k \in JobType /\ k.id = j.id /\ k.version = j.version
  BY <1>2 DEF JobType
<1>4. PICK published \in Version : row' = [row EXCEPT ![k.id].published = published]
  BY <1>1, <1>2, <1>3 DEF Row
<1>5. /\ DOMAIN saved' \subseteq Id \X (Version \ {0})
      /\ \A x \in DOMAIN saved' : saved'[x] \in Content
  <2>1. j.holds \in Content
    BY <1>2 DEF JobType
  <2>2. key \in Id \X (Version \ {0})
    BY <1>2
  <2>3. DOMAIN saved' = DOMAIN saved \cup {key}
    BY <1>1
  <2>4. \A x \in DOMAIN saved' : saved'[x] = IF x = key THEN j.holds ELSE saved[x]
    BY <1>1, <2>3
  <2>. HIDE DEF j, key
  <2>. QED
    BY <2>1, <2>2, <2>3, <2>4 DEF TagInv, TagTypeOK
<1>6. IsFiniteSet(DOMAIN saved')
  BY <1>1, FS_AddElement DEF TagInv
<1>. HIDE DEF k, j
<1>. QED
  BY ZenonT(90), <1>1, <1>2, <1>3, <1>4, <1>5, <1>6, RowPublished

LEMMA RollbackInv ==
    ASSUME TagInv, NEW a \in Admin, NEW v \in Version, Rollback(a, v)
    PROVE  TagInv'
<1>. DEFINE i == screen[a].id
            k == [[Idle EXCEPT !.id = i, !.version = v, !.holds = saved[<<i, v>>]] EXCEPT !.at = "clearing"]
<1>1. /\ job' = [job EXCEPT ![a] = k] /\ row' = [row EXCEPT ![i].published = v]
      /\ UNCHANGED <<saved, cache, screen, late>>
  BY DEF Rollback, Goes
<1>2. i \in Id /\ <<i, v>> \in DOMAIN saved /\ v > 0
  <2>1. i \in Id /\ <<i, v>> \in DOMAIN saved
    BY DEF Rollback, There
  <2>2. v \in Version \ {0}
    BY <2>1 DEF TagInv, TagTypeOK
  <2>. QED
    BY <2>1, <2>2, TagBoundsAssumption DEF Version
<1>3. saved[<<i, v>>] \in Content
  BY <1>2 DEF TagInv, TagTypeOK
<1>4. k \in JobType /\ k.id = i /\ k.version = v
  BY <1>2, <1>3 DEF JobType, Idle
<1>5. /\ DOMAIN saved' \subseteq Id \X (Version \ {0})
      /\ \A x \in DOMAIN saved' : saved'[x] \in Content
      /\ IsFiniteSet(DOMAIN saved')
  BY <1>1 DEF TagInv, TagTypeOK
<1>. HIDE DEF k
<1>. QED
  BY <1>1, <1>2, <1>4, <1>5, RowPublished

LEMMA TagInvStep == TagInv /\ [TagNext]_tagVars => TagInv'
<1>. SUFFICES ASSUME TagInv, [TagNext]_tagVars PROVE TagInv'
  OBVIOUS
<1>1. CASE UNCHANGED tagVars
  BY <1>1 DEF tagVars, TagInv, TagTypeOK, Change
<1>. QED
  BY <1>1, DraftInv, LookInv, PublishInv, ReadInv, SaveInv, ClearInv, RollbackInv, ServeInv, StoreInv
  DEF TagNext

-------------------------------------------------------------------------------
(* Of two publishes that race for a version one is refused: a snapshot that *)
(* is there is never changed.                                               *)
LEMMA SavedStep == SavedInv /\ [TagNext]_tagVars => SavedInv'
<1>. SUFFICES ASSUME SavedInv, [TagNext]_tagVars PROVE PublishedIsSaved'
  BY TagInvStep DEF SavedInv
<1>. USE DEF SavedInv
<1>1. CASE UNCHANGED tagVars
  BY <1>1 DEF tagVars, PublishedIsSaved
<1>2. ASSUME NEW i \in Id,
             Create(i) \/ Delete(i) \/ EditTags(i) \/ EditRest(i) \/ ImportContainer(i)
      PROVE  PublishedIsSaved'
  <2>1. /\ \A k \in Id : row'[k].published = row[k].published
        /\ UNCHANGED <<saved, job>>
    BY <1>2, DraftKeeps
  <2>. QED
    BY <2>1 DEF PublishedIsSaved
<1>3. ASSUME NEW c \in Admin \cup Visitor, NEW k, k.at # "clearing",
             job' = [job EXCEPT ![c] = k], UNCHANGED <<row, saved>>
      PROVE  PublishedIsSaved'
  <2>1. \A b \in Admin : job'[b] = IF b = c THEN k ELSE job[b]
    BY <1>3 DEF TagInv, TagTypeOK
  <2>. QED
    BY <1>3, <2>1 DEF PublishedIsSaved
<1>4. ASSUME NEW a \in Admin, Publish(a) \/ ReadTags(a) \/ ReadRest(a) \/ Clear(a) \/ Refused(a)
      PROVE  PublishedIsSaved'
  BY <1>3, <1>4, QuietHandlers
<1>5. ASSUME NEW v \in Visitor, Serve(v) \/ Store(v)
      PROVE  PublishedIsSaved'
  BY <1>3, <1>5, QuietHandlers
<1>6. ASSUME NEW a \in Admin, Look(a)
      PROVE  PublishedIsSaved'
  BY <1>6 DEF Look, PublishedIsSaved
<1>7. ASSUME NEW a \in Admin, Save(a)
      PROVE  PublishedIsSaved'
  <2>. DEFINE j == job[a]
              key == <<j.id, j.version>>
  <2>1. /\ key \notin DOMAIN saved /\ j.at # "idle"
        /\ saved' = [x \in DOMAIN saved \cup {key} |-> IF x = key THEN j.holds ELSE saved[x]]
        /\ row' = [row EXCEPT ![j.id].published = IF j.id \in There THEN j.version ELSE @]
        /\ job' = [job EXCEPT ![a] = [j EXCEPT !.at = "clearing"]]
    BY <1>7 DEF Save, Goes
  <2>2. j \in JobType /\ j.id \in Id
    BY <2>1, JobOf
  <2>3. ASSUME NEW i \in Id, row'[i].published > 0
        PROVE  <<i, row'[i].published>> \in DOMAIN saved'
    <3>1. \A c \in Id : row'[c].published =
              IF c = j.id /\ j.id \in There THEN j.version ELSE row[c].published
      BY ZenonT(90), <2>1, <2>2 DEF TagInv, TagTypeOK, Row
    <3>. QED
      BY <2>1, <2>3, <3>1 DEF PublishedIsSaved
  <2>4. ASSUME NEW b \in Admin, job'[b].at = "clearing"
        PROVE  /\ <<job'[b].id, job'[b].version>> \in DOMAIN saved'
               /\ saved'[<<job'[b].id, job'[b].version>>] = job'[b].holds
    <3>1. CASE b = a
      BY <2>1, <2>2, <3>1 DEF TagInv, TagTypeOK, JobType
    <3>2. CASE b # a
      BY <2>1, <2>4, <3>2 DEF PublishedIsSaved, TagInv, TagTypeOK
    <3>. QED
      BY <3>1, <3>2
  <2>. QED
    BY <2>3, <2>4 DEF PublishedIsSaved
<1>8. ASSUME NEW a \in Admin, NEW v \in Version, Rollback(a, v)
      PROVE  PublishedIsSaved'
  <2>. DEFINE i == screen[a].id
              k == [[Idle EXCEPT !.id = i, !.version = v, !.holds = saved[<<i, v>>]] EXCEPT !.at = "clearing"]
  <2>1. /\ i \in Id /\ <<i, v>> \in DOMAIN saved /\ UNCHANGED saved
        /\ row' = [row EXCEPT ![i].published = v] /\ job' = [job EXCEPT ![a] = k]
    BY <1>8 DEF Rollback, Goes, There
  <2>2. k.id = i /\ k.version = v /\ k.holds = saved[<<i, v>>]
    BY DEF Idle
  <2>. HIDE DEF k
  <2>3. \A c \in Id : row'[c].published = IF c = i THEN v ELSE row[c].published
    BY ZenonT(90), <2>1 DEF TagInv, TagTypeOK, Row
  <2>4. \A b \in Admin : job'[b] = IF b = a THEN k ELSE job[b]
    BY <2>1 DEF TagInv, TagTypeOK
  <2>. QED
    BY <2>1, <2>2, <2>3, <2>4 DEF PublishedIsSaved
<1>. QED
  BY <1>1, <1>2, <1>4, <1>5, <1>6, <1>7, <1>8 DEF TagNext

-------------------------------------------------------------------------------
(* A handler that changes what is published has to clear the cache; one    *)
(* that stores a script after that is known to be late.                    *)
LEMMA ServedStep == ServedInv /\ [TagNext]_tagVars => ServedInv'
<1>. SUFFICES ASSUME ServedInv, [TagNext]_tagVars PROVE ServedIsPublished'
  BY TagInvStep DEF ServedInv
<1>. USE DEF ServedInv
<1>1. CASE UNCHANGED tagVars
  BY <1>1 DEF tagVars, ServedIsPublished, There
<1>2. ASSUME NEW i \in Id, Create(i) \/ EditTags(i) \/ EditRest(i) \/ ImportContainer(i)
      PROVE  ServedIsPublished'
  <2>1. /\ \A k \in Id : row'[k].published = row[k].published
        /\ UNCHANGED <<cache, job>>
    BY <1>2, DraftKeeps
  <2>2. There \subseteq There' /\ UNCHANGED late
    <3>1. row \in [Id -> Row] /\ row[i] \in Row
      BY DEF TagInv, TagTypeOK
    <3>. QED
      BY <1>2, <3>1 DEF Create, EditTags, EditRest, ImportContainer, There, Row
  <2>3. There \subseteq Id
    BY DEF There
  <2>. QED
    BY <2>1, <2>2, <2>3 DEF ServedIsPublished
<1>3. ASSUME NEW i \in Id, Delete(i)
      PROVE  ServedIsPublished'
  BY <1>3 DEF Delete, ServedIsPublished
<1>4. ASSUME NEW a \in Admin, Look(a)
      PROVE  ServedIsPublished'
  BY <1>4 DEF Look, ServedIsPublished, There
<1>5. ASSUME NEW a \in Admin, Save(a) \/ (\E v \in Version : Rollback(a, v))
      PROVE  ServedIsPublished'
  <2>1. job'[a].at = "clearing"
    <3>1. CASE Save(a)
      <4>1. job[a] \in JobType
        BY DEF TagInv, TagTypeOK, JobType
      <4>. QED
        BY <3>1, <4>1 DEF Save, Goes, JobType, TagInv, TagTypeOK
    <3>2. ASSUME NEW v \in Version, Rollback(a, v)
          PROVE  job'[a].at = "clearing"
      <4>. DEFINE k == [[Idle EXCEPT !.id = screen[a].id, !.version = v,
                             !.holds = saved[<<screen[a].id, v>>]] EXCEPT !.at = "clearing"]
      <4>1. job' = [job EXCEPT ![a] = k]
        BY <3>2 DEF Rollback, Goes
      <4>2. k.at = "clearing"
        BY DEF Idle
      <4>. QED
        BY <4>1, <4>2 DEF TagInv, TagTypeOK
    <3>. QED
      BY <1>5, <3>1, <3>2
  <2>. QED
    BY <2>1 DEF ServedIsPublished
<1>6. ASSUME NEW a \in Admin, Clear(a)
      PROVE  ServedIsPublished'
  BY <1>6 DEF Clear, ServedIsPublished
<1>7. ASSUME NEW c \in Admin \cup Visitor, UNCHANGED <<row, cache, late>>, job[c].at # "clearing",
             NEW k, job' = [job EXCEPT ![c] = k]
      PROVE  ServedIsPublished'
  <2>1. ASSUME NEW b \in Admin, job[b].at = "clearing"
        PROVE  job'[b].at = "clearing"
    BY <1>7, <2>1 DEF TagInv, TagTypeOK
  <2>. QED
    BY <1>7, <2>1 DEF ServedIsPublished, There
<1>8. ASSUME NEW a \in Admin, Publish(a) \/ ReadTags(a) \/ ReadRest(a) \/ Refused(a)
      PROVE  ServedIsPublished'
  <2>1. job[a].at # "clearing" /\ UNCHANGED <<row, cache, late>>
    <3>1. CASE Publish(a)
      <4>1. job[a] = Idle /\ UNCHANGED <<row, cache, late>>
        BY <3>1 DEF Publish
      <4>2. Idle.at = "idle"
        BY DEF Idle
      <4>. QED
        BY <4>1, <4>2
    <3>2. CASE ReadTags(a) \/ ReadRest(a) \/ Refused(a)
      BY <3>2 DEF ReadTags, ReadRest, Refused
    <3>. QED
      BY <1>8, <3>1, <3>2
  <2>2. PICK k : job' = [job EXCEPT ![a] = k]
    BY <1>8, QuietHandlers
  <2>. QED
    BY <1>7, <2>1, <2>2
<1>9. ASSUME NEW v \in Visitor, Serve(v)
      PROVE  ServedIsPublished'
  <2>1. job[v].at # "clearing" /\ UNCHANGED <<row, cache, late>>
    BY <1>9 DEF Serve, Idle
  <2>2. PICK k : job' = [job EXCEPT ![v] = k]
    BY <1>9, QuietHandlers
  <2>. QED
    BY <1>7, <2>1, <2>2
<1>10. ASSUME NEW v \in Visitor, Store(v)
       PROVE  ServedIsPublished'
  <2>. DEFINE j == job[v]
  <2>1. job[v].at = "generating" /\ job' = [job EXCEPT ![v] = Idle] /\ UNCHANGED row
    BY <1>10 DEF Store, Ends
  <2>2. CASE <<j.id, j.version>> \in DOMAIN saved
    <3>1. /\ cache' = <<j.id, j.version>>
          /\ late' = ~(j.id \in There /\ row[j.id].published = j.version)
      BY <1>10, <2>2 DEF Store
    <3>. QED
      BY <2>1, <3>1 DEF ServedIsPublished, There
  <2>3. CASE <<j.id, j.version>> \notin DOMAIN saved
    <3>1. UNCHANGED <<row, cache, late>>
      BY <1>10, <2>3 DEF Store
    <3>. QED
      BY <1>7, <2>1, <3>1
  <2>. QED
    BY <2>2, <2>3
<1>. QED
  BY <1>1, <1>2, <1>3, <1>4, <1>5, <1>6, <1>8, <1>9, <1>10 DEF TagNext

-------------------------------------------------------------------------------

(* Every variable keeps its type, and every handler that runs has a        *)
(* container and a version.                                                *)
THEOREM TagTypes == TagSpec => []TagTypeOK
<1>1. TagInit => TagInv
  BY TagInvInit
<1>2. TagInv => TagTypeOK
  BY DEF TagInv
<1>. QED
  BY <1>1, <1>2, TagInvStep, PTL DEF TagSpec

(* The published version of a container always has a snapshot, and what a  *)
(* publish answers for is what it saved.                                   *)
THEOREM PublishedVersionsAreSaved == TagSpec => []PublishedIsSaved
<1>1. TagInit => SavedInv
  BY TagInvInit DEF SavedInv
<1>2. SavedInv => PublishedIsSaved
  BY DEF SavedInv
<1>. QED
  BY <1>1, <1>2, SavedStep, PTL DEF TagSpec

(* The cached script is that of the published version, but for the time a  *)
(* handler has to clear it, and for the scripts stored too late.           *)
THEOREM CachedScriptIsPublished == TagSpec => []ServedIsPublished
<1>1. TagInit => ServedInv
  BY TagInvInit DEF ServedInv
<1>2. ServedInv => ServedIsPublished
  BY DEF ServedInv
<1>. QED
  BY <1>1, <1>2, ServedStep, PTL DEF TagSpec
=============================================================================
