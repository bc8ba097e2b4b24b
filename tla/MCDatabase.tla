------------------------------ MODULE MCDatabase ------------------------------
(***************************************************************************)
(* Instances of DatabaseLock and Storage for TLC: who is in the database,  *)
(* and where it keeps the event tables.  They share no state: the run      *)
(* explores each of them while the other has not begun.                    *)
(***************************************************************************)
EXTENDS DatabaseLock, Storage, TLC

CONSTANTS
    q1, q2, b1, p1, r1, r2,
    Sides       \* the sides a run explores, of "lock" and "storage"

VARIABLE side

MCTables == <<"events", "errors">>
MCTableOf == (r1 :> "events" @@ r2 :> "events")

MCInit ==
    /\ side \in Sides
    /\ Init /\ StorageInit
    /\ side = "lock" => file = "none" /\ sqliteAt = "none"

LockSteps    == side = "lock" /\ Next /\ UNCHANGED <<side, storageVars>>
StorageSteps == side = "storage" /\ StorageNext /\ UNCHANGED <<side, vars>>

\* A lock that nobody has asked for is as fair as can be.
MCSpec == MCInit /\ [][LockSteps \/ StorageSteps]_<<side, vars, storageVars>> /\ Fairness

\* The type invariants of both modules.
TypesOK == TypeOK /\ StorageTypeOK
===============================================================================
