------------------------------- MODULE RowStore -------------------------------
(***************************************************************************)
(* What the buffer package promises its callers, without saying how.       *)
(*                                                                         *)
(* Every row given to BufferManager has one fate.  It is refused, or it is *)
(* accepted into memory ("volatile"); from memory it is either lost or     *)
(* published in a parquet file ("durable"); and a published row is never   *)
(* lost: it stays published until the database holds a copy of it or the   *)
(* file that carries it is set aside for the operator ("quarantined").     *)
(* BufferPipeline is the detailed specification that implements this one.  *)
(***************************************************************************)
EXTENDS Naturals

CONSTANTS
    Row,        \* the rows callers may add
    Keyed       \* the rows whose table has a UNIQUE or PRIMARY KEY constraint

VARIABLES
    fate,       \* where each row is
    copies      \* how often the database holds each row

store == <<fate, copies>>

Fates == {"new", "refused", "volatile", "durable", "stored", "quarantined", "lost"}

StoreTypeOK ==
    /\ fate \in [Row -> Fates]
    /\ copies \in [Row -> Nat]

StoreInit ==
    /\ fate = [r \in Row |-> "new"]
    /\ copies = [r \in Row |-> 0]

Refuse(r) ==
    /\ fate[r] = "new"
    /\ fate' = [fate EXCEPT ![r] = "refused"]
    /\ UNCHANGED copies

Accept(r) ==
    /\ fate[r] = "new"
    /\ fate' = [fate EXCEPT ![r] = "volatile"]
    /\ UNCHANGED copies

\* Rows move together: the unit of every later step is a batch.
Move(S, from, to) ==
    /\ S # {}
    /\ \A r \in S : fate[r] = from
    /\ fate' = [r \in Row |-> IF r \in S THEN to ELSE fate[r]]

Publish(S) == Move(S, "volatile", "durable") /\ UNCHANGED copies

Lose(S) == Move(S, "volatile", "lost") /\ UNCHANGED copies

SetAside(S) == Move(S, "durable", "quarantined") /\ UNCHANGED copies

\* A load inserts every row of a published batch; a keyed table ignores a row
\* it already holds.
Load(S) ==
    /\ S # {}
    /\ \A r \in S : fate[r] = "durable"
    /\ copies' = [r \in Row |->
                    IF r \notin S THEN copies[r]
                    ELSE IF r \in Keyed THEN 1 ELSE copies[r] + 1]
    /\ UNCHANGED fate

\* A batch stops being published only once the database holds all of it.
Retire(S) ==
    /\ \A r \in S : copies[r] > 0
    /\ Move(S, "durable", "stored")
    /\ UNCHANGED copies

StoreNext ==
    \/ \E r \in Row : Refuse(r) \/ Accept(r)
    \/ \E S \in SUBSET Row :
          Publish(S) \/ Lose(S) \/ SetAside(S) \/ Load(S) \/ Retire(S)

StoreSpec == StoreInit /\ [][StoreNext]_store
================================================================================
