----------------------------- MODULE DatabaseLock -----------------------------
(***************************************************************************)
(* BufferManager.dbMu, the lock around CHECKPOINT, and everyone in DuckDB: *)
(* HTTP requests behind dbReadLockMiddleware, the background jobs that     *)
(* read or update compacted tables, the writer goroutine of the buffer and *)
(* the compactor, who take it; and those who do not: the public endpoints  *)
(* (ingest, consent, replay, tag manager), the authentication of every     *)
(* request, the synchronisation of connections and the goroutine of an     *)
(* import.  An import rollback is a request that takes it and also waits,  *)
(* in FlushAndWait, for the writer.                                        *)
(*                                                                         *)
(* The buffer is reduced to its channel of jobs; BufferPipeline models the *)
(* rest of it.                                                             *)
(***************************************************************************)
EXTENDS Naturals, Sequences

CONSTANTS
    Reader,      \* requests and background jobs: RLock, use the database, RUnlock
    Rollback,    \* requests that roll back an import
    Unguarded,   \* users of the database that never take dbMu
    Writer,      \* the writer goroutine
    File,        \* a job that loads a parquet file
    ChanCap      \* capacity of flushCh

ASSUME LockAssumption ==
    /\ Reader \cap Rollback = {}
    /\ Unguarded \cap (Reader \cup Rollback) = {}
    /\ Writer \notin Reader \cup Rollback \cup Unguarded
    /\ File \notin Rollback
    /\ ChanCap \in Nat \ {0}

VARIABLES
    readers,     \* who holds the read lock
    excl,        \* the write lock: "free", "pending" or "held"
    pc,          \* where each request or job is
    flushCh,     \* the jobs queued for the writer: File, or a rollback's barrier
    wpc,         \* the writer's program counter
    cpc          \* the compactor's program counter

vars == <<readers, excl, pc, flushCh, wpc, cpc>>

Client == Reader \cup Rollback \cup Unguarded

PCs == {"outside", "arrived", "inside", "flush", "barrier", "wait", "delete"}

TypeOK ==
    /\ readers \in SUBSET (Client \cup {Writer})
    /\ excl \in {"free", "pending", "held"}
    /\ pc \in [Client -> PCs]
    /\ flushCh \in Seq({File} \cup Rollback)
    /\ Len(flushCh) <= ChanCap
    /\ wpc \in {"recv", "lock", "load", "backoff"}
    /\ cpc \in {"idle", "flush", "lock", "checkpoint"}

Init ==
    /\ readers = {} /\ excl = "free"
    /\ pc = [c \in Client |-> "outside"]
    /\ flushCh = <<>>
    /\ wpc = "recv"
    /\ cpc = "idle"

-------------------------------------------------------------------------------
(* sync.RWMutex: a Lock that waits keeps new readers out. *)

RLock(t) == excl = "free" /\ readers' = readers \cup {t} /\ UNCHANGED excl

RUnlock(t) == readers' = readers \ {t} /\ UNCHANGED excl

\* Variant: a sender does not wait for room in the channel.
Queue_Unbounded(j) == flushCh' = Append(flushCh, j)

Queue(j) == Len(flushCh) < ChanCap /\ flushCh' = Append(flushCh, j)

GoTo(c, from, to) == pc[c] = from /\ pc' = [pc EXCEPT ![c] = to]

-------------------------------------------------------------------------------
(* Requests and jobs *)

Arrive(c) ==
    /\ GoTo(c, "outside", "arrived")
    /\ UNCHANGED <<readers, excl, flushCh, wpc, cpc>>

\* dbReadLockMiddleware, analyze, RefreshSince, withReadLock, runDataRetention;
\* the others look at no lock.
Enter(c) ==
    /\ GoTo(c, "arrived", IF c \in Rollback THEN "flush" ELSE "inside")
    /\ \/ c \notin Unguarded /\ RLock(c)
       \/ c \in Unguarded /\ UNCHANGED <<readers, excl>>
    /\ UNCHANGED <<flushCh, wpc, cpc>>

Leave(c) ==
    /\ GoTo(c, IF c \in Rollback THEN "delete" ELSE "inside", "outside")
    /\ RUnlock(c)
    /\ UNCHANGED <<flushCh, wpc, cpc>>

\* flushAll inside FlushAndWait: there may or may not be rows to flush.
RollbackFlush(c) ==
    /\ GoTo(c, "flush", "barrier")
    /\ Queue(File) \/ UNCHANGED flushCh
    /\ UNCHANGED <<readers, excl, wpc, cpc>>

RollbackBarrier(c) ==
    /\ GoTo(c, "barrier", "wait")
    /\ Queue(c)
    /\ UNCHANGED <<readers, excl, wpc, cpc>>

\* Whatever threshold, ticker or Flush makes another goroutine queue a file.
Produce ==
    /\ Queue(File)
    /\ UNCHANGED <<readers, excl, pc, wpc, cpc>>

-------------------------------------------------------------------------------
(* writerLoop *)

\* Variant: barriers are taken off the channel unanswered.
Receive_NoAnswer ==
    /\ wpc = "recv" /\ flushCh # <<>>
    /\ flushCh' = Tail(flushCh)
    /\ wpc' = IF Head(flushCh) = File THEN "lock" ELSE "recv"
    /\ UNCHANGED <<readers, excl, pc, cpc>>

Receive ==
    /\ wpc = "recv" /\ flushCh # <<>>
    /\ flushCh' = Tail(flushCh)
    /\ \/ Head(flushCh) = File /\ wpc' = "lock" /\ UNCHANGED pc
       \/ Head(flushCh) # File /\ GoTo(Head(flushCh), "wait", "delete") /\ UNCHANGED wpc
    /\ UNCHANGED <<readers, excl, cpc>>

\* Variant: the writer loads without the lock.
WriterLocks_Not ==
    /\ wpc = "lock" /\ wpc' = "load"
    /\ UNCHANGED <<readers, excl, pc, flushCh, cpc>>

WriterLocks ==
    /\ wpc = "lock" /\ wpc' = "load"
    /\ RLock(Writer)
    /\ UNCHANGED <<pc, flushCh, cpc>>

\* loadParquet returns and the lock is released; a failed load backs off first.
LoadReturns ==
    /\ wpc = "load"
    /\ RUnlock(Writer)
    /\ wpc' \in {"recv", "backoff"}
    /\ UNCHANGED <<pc, flushCh, cpc>>

\* The error of the failed load is still in err: the loop ends, without a retry.
BackoffElapses ==
    /\ wpc = "backoff" /\ wpc' = "recv"
    /\ UNCHANGED <<readers, excl, pc, flushCh, cpc>>

-------------------------------------------------------------------------------
(* RunCompaction *)

\* Never in DuckLake mode, where no compactor is scheduled.
CompactionDue ==
    /\ cpc = "idle" /\ cpc' = "flush"
    /\ UNCHANGED <<readers, excl, pc, flushCh, wpc>>

CompactionFlush ==
    /\ cpc = "flush" /\ cpc' = "lock"
    /\ Queue(File) \/ UNCHANGED flushCh
    /\ UNCHANGED <<readers, excl, pc, wpc>>

PauseWrites ==
    /\ cpc = "lock" /\ excl = "free"
    /\ excl' = "pending"
    /\ UNCHANGED <<readers, pc, flushCh, wpc, cpc>>

Locked ==
    /\ excl = "pending" /\ readers = {}
    /\ excl' = "held" /\ cpc' = "checkpoint"
    /\ UNCHANGED <<readers, pc, flushCh, wpc>>

\* Variant: a failed CHECKPOINT returns without unlocking.
ResumeWrites_Not ==
    /\ cpc = "checkpoint" /\ cpc' = "idle"
    /\ excl' \in {"free", "held"}
    /\ UNCHANGED <<readers, pc, flushCh, wpc>>

ResumeWrites ==
    /\ cpc = "checkpoint" /\ cpc' = "idle"
    /\ excl' = "free"
    /\ UNCHANGED <<readers, pc, flushCh, wpc>>

-------------------------------------------------------------------------------
ClientStep ==
    \/ \E c \in Client : Arrive(c) \/ Enter(c) \/ Leave(c)
    \/ \E c \in Rollback : RollbackFlush(c) \/ RollbackBarrier(c)

WriterStep == Receive \/ WriterLocks \/ LoadReturns \/ BackoffElapses

CompactorStep ==
    CompactionDue \/ CompactionFlush \/ PauseWrites \/ Locked \/ ResumeWrites

Next == ClientStep \/ Produce \/ WriterStep \/ CompactorStep

Spec == Init /\ [][Next]_vars

\* Goroutines run; RWMutex lets the readers that wait in before the next Lock,
\* and a channel serves its blocked senders in order.
Fairness ==
    /\ \A c \in Client : SF_vars(Enter(c)) /\ WF_vars(Leave(c))
    /\ \A c \in Rollback : WF_vars(RollbackFlush(c)) /\ SF_vars(RollbackBarrier(c))
    /\ WF_vars(Receive) /\ SF_vars(WriterLocks) /\ WF_vars(LoadReturns) /\ WF_vars(BackoffElapses)
    /\ WF_vars(CompactionFlush) /\ WF_vars(PauseWrites) /\ WF_vars(Locked)
    /\ WF_vars(ResumeWrites)

LiveSpec == Spec /\ Fairness

-------------------------------------------------------------------------------
\* While CHECKPOINT runs, whoever takes dbMu is out of the database, for the whole
\* of a request or job and for every load (DBMu, dbReadLockMiddleware, writerLoop).
\* PauseWrites is "used by compaction to get exclusive DB access": that it does not
\* get, since the users in Unguarded do not take the lock.
HoldersStayOut ==
    cpc = "checkpoint" =>
        /\ wpc # "load"
        /\ \A c \in Client \ Unguarded : pc[c] \in {"outside", "arrived"}

\* A rollback that holds the read lock waits for the writer, which waits for
\* the lock behind a compaction, which waits for the rollback.
Embrace ==
    /\ excl = "pending" /\ wpc = "lock"
    /\ \E c \in Rollback : pc[c] \in {"flush", "barrier", "wait"}

\* Every request and background job gets its turn, compaction or not; a compaction
\* that is due gets the database and gives it back; and the writer always comes back
\* for the next job.  The embrace of a rollback, the writer and a compaction is the
\* only thing in the way.
EveryoneIsServed ==
    \/ <>[]Embrace
    \/ /\ \A c \in Client : pc[c] = "arrived" ~> pc[c] = "outside"
       /\ cpc = "flush" ~> cpc = "idle"
       /\ wpc # "recv" ~> wpc = "recv"

\* FlushAndWait "blocks until every parquet load queued so far has been applied":
\* a rollback gets its answer and releases the read lock it holds.
RollbackReturns == \A c \in Rollback : pc[c] = "arrived" ~> pc[c] = "outside"
================================================================================
