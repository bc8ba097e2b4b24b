------------------------------ MODULE EventStore ------------------------------
(***************************************************************************)
(* What the server promises about the event tables across its starts,      *)
(* whatever storage it is told to use: their rows change only while it     *)
(* serves.  The one exception is the first start of a new install, which   *)
(* may bring in what an older database holds, and nothing else.            *)
(* Storage is the detailed specification that implements this one.         *)
(***************************************************************************)
CONSTANTS
    Table,      \* the event tables
    Row         \* their rows

VARIABLES
    rows,       \* what each table holds
    older,      \* what each table of an older database holds
    era         \* "new" until the end of the first start, then "closed" or "serving"

eventStore == <<rows, older, era>>

EventInit ==
    /\ rows \in [Table -> SUBSET Row] /\ older \in [Table -> SUBSET Row]
    /\ era \in {"new", "closed"}
    /\ era = "new" => \A t \in Table : rows[t] = {}

\* The server begins to take requests, stops, or gives up its first start.
Open  == era # "serving" /\ era' = "serving" /\ UNCHANGED <<rows, older>>
Close == era # "closed" /\ era' = "closed" /\ UNCHANGED <<rows, older>>

\* The first start imports a table of the older database.
Import(t) ==
    /\ era = "new"
    /\ rows' = [rows EXCEPT ![t] = @ \cup older[t]]
    /\ UNCHANGED <<older, era>>

\* A batch is loaded.
Insert(t, S) ==
    /\ era = "serving"
    /\ rows' = [rows EXCEPT ![t] = @ \cup S]
    /\ UNCHANGED <<older, era>>

\* Retention, and a visitor who asks to be erased.
Delete ==
    /\ era = "serving"
    /\ rows' \in [Table -> SUBSET Row] /\ \A t \in Table : rows'[t] \subseteq rows[t]
    /\ UNCHANGED <<older, era>>

EventNext ==
    \/ Open \/ Close
    \/ \E t \in Table : Import(t)
    \/ \E t \in Table, S \in SUBSET Row : Insert(t, S)
    \/ Delete

EventSpec == EventInit /\ [][EventNext]_eventStore
================================================================================
