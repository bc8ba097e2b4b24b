---------------------------- MODULE BufferPipeline ----------------------------
(***************************************************************************)
(* The ingestion buffer of internal/buffer: rows collected in memory per   *)
(* table, written to parquet files by whoever swaps the buffer out, and    *)
(* loaded into the database by the one writer goroutine that reads         *)
(* flushCh; the ticker, Flush and FlushAndWait callers, the recovery of    *)
(* files left by an earlier process, and the draining shutdown of Close.   *)
(*                                                                         *)
(* A parquet file is identified with the set of rows it holds: a row is    *)
(* added once, so no two files ever hold the same rows.                    *)
(***************************************************************************)
EXTENDS Integers, Sequences, FiniteSets

CONSTANTS
    Row,          \* rows the rest of the program may add
    TableOf,      \* the table each row belongs to
    Order,        \* the tables in the order flushAll and tickerLoop visit them
    Keyed,        \* tables with a UNIQUE or PRIMARY KEY constraint
    Call,         \* calls of Flush and FlushAndWait, each made at most once
    Ticker,       \* tickerLoop
    Closer,       \* the caller of Close
    NoCall,       \* the "done" field of a job that loads a file
    Threshold,    \* BufferConfig.Threshold
    ChanCap,      \* capacity of flushCh
    MaxRetries,   \* maxRetries of writerLoop
    MaxLives,     \* bound: how many times the process is started
    DiskFaults    \* may creating, renaming, removing or listing a file fail?

Table   == {Order[i] : i \in 1..Len(Order)}
Flusher == Call \cup {Ticker, Closer}
Producer == Row \cup Flusher

ASSUME ConstantsAssumption ==
    /\ IsFiniteSet(Row)
    /\ Order \in Seq(Table)
    /\ TableOf \in [Row -> Table]
    /\ Keyed \subseteq Table
    /\ Row \cap Flusher = {}
    /\ Ticker # Closer
    /\ Ticker \notin Call /\ Closer \notin Call /\ NoCall \notin Call
    /\ Threshold \in Nat \ {0}
    /\ ChanCap \in Nat \ {0}
    /\ MaxRetries \in Nat
    /\ MaxLives \in Nat \ {0}
    /\ DiskFaults \in BOOLEAN

VARIABLES
    \* the process
    up,         \* is a process running?
    life,       \* how many processes have been started
    loads,      \* history: how often this process has loaded each row
    \* callers of AddEvent, AddPerformance, AddError, AddSession
    adder,      \* progress of the call that adds each row
    \* the table buffers
    mem,        \* rows in TableBuffer.rows, all tables together
    aged,       \* tables whose lastFlush is older than the flush timeout
    \* goroutines holding a batch they swapped out of a table buffer
    held,       \* the batch of each producer
    stage,      \* what the producer is doing with it
    pos,        \* the table a flusher is visiting, 0 when it visits none
    \* calls of Flush and FlushAndWait
    call,       \* progress of each call
    before,     \* history: rows added before the call began
    covered,    \* history: rows queued then, and rows the call itself queues
    \* the channel and the writer
    flushCh,
    sealed,     \* flushCh is closed
    wpc,        \* the writer's program counter
    job,        \* the file the writer is working on
    attempt,
    cancelled,  \* writerCtx is done
    \* recovery and shutdown
    pending,    \* files queuePendingParquet still has to queue
    ticking,    \* tickerLoop has not returned
    closer,     \* progress of Close
    \* what survives the process
    tmp,        \* files being written under a .tmp name
    disk,       \* complete .parquet files
    failed,     \* quarantined .parquet.failed files
    copies,     \* how often the database holds each row
    dropped     \* history: rows given up before they reached a parquet file

procVars  == <<up, life, loads>>
bufVars   == <<adder, mem, aged>>
prodVars  == <<held, stage, pos>>
callVars  == <<call, before, covered>>
chanVars  == <<flushCh, sealed>>
writeVars == <<wpc, job, attempt, cancelled>>
ctrlVars  == <<pending, ticking, closer>>
diskVars  == <<tmp, disk, failed, copies, dropped>>
vars == <<procVars, bufVars, prodVars, callVars, chanVars, writeVars,
          ctrlVars, diskVars>>

FileJob(f) == [file |-> f, done |-> NoCall]
Barrier(c) == [file |-> {}, done |-> c]

Job == [file : SUBSET Row, done : Call \cup {NoCall}]

AdderStates == {"new", "admitted", "added", "refused"}
Stages      == {"none", "parked", "create", "publish", "send"}
CallStates  == {"idle", "flush", "drain", "barrier", "wait",
                "flushed", "returned", "failed"}
WriterPCs   == {"recv", "load", "backoff", "giveup", "remove", "exited"}
CloserPCs   == {"open", "ticker", "ops", "flush", "producers", "writer", "closed"}

TypeOK ==
    /\ up \in BOOLEAN
    /\ life \in 1..MaxLives
    /\ loads \in [Row -> Nat]
    /\ adder \in [Row -> AdderStates]
    /\ mem \in SUBSET Row
    /\ aged \in SUBSET Table
    /\ held \in [Producer -> SUBSET Row]
    /\ stage \in [Producer -> Stages]
    /\ pos \in [Flusher -> 0..(Len(Order) + 1)]
    /\ call \in [Call -> CallStates]
    /\ before \in [Call -> SUBSET Row]
    /\ covered \in [Call -> SUBSET Row]
    /\ flushCh \in Seq(Job)
    /\ sealed \in BOOLEAN
    /\ wpc \in WriterPCs
    /\ job \in SUBSET Row
    /\ attempt \in 0..MaxRetries
    /\ cancelled \in BOOLEAN
    /\ pending \in SUBSET SUBSET Row
    /\ ticking \in BOOLEAN
    /\ closer \in CloserPCs
    /\ tmp \in SUBSET SUBSET Row
    /\ disk \in SUBSET SUBSET Row
    /\ failed \in SUBSET SUBSET Row
    /\ copies \in [Row -> Nat]
    /\ dropped \in SUBSET Row

-------------------------------------------------------------------------------
(* State predicates the code computes *)

accepting == closer = "open"        \* Close clears it and closes stopCh at once

InTable(t) == {r \in mem : TableOf[r] = t}

\* Variant: the calls of FlushAndWait are not counted.
OperationsDone_AddsOnly ==
    \A r \in Row : adder[r] # "admitted" /\ stage[r] # "parked"

\* operationWG: an admitted Add, a threshold batch whose goroutine has not been
\* registered yet, or a Flush or FlushAndWait call that has not returned.
OperationsDone ==
    /\ \A r \in Row : adder[r] # "admitted" /\ stage[r] # "parked"
    /\ \A c \in Call : call[c] \notin {"flush", "drain", "barrier", "wait"}

\* Variant: recovery is not counted.
ProducersDone_NoRecovery == \A r \in Row : stage[r] \in {"none", "parked"}

\* producerWG: the goroutines Add starts, and queuePendingParquet.
ProducersDone ==
    /\ \A r \in Row : stage[r] \in {"none", "parked"}
    /\ pending = {}

-------------------------------------------------------------------------------
(* NewBufferManager: a process starts, finding what an earlier one left. *)

Init ==
    /\ up = TRUE /\ life = 1
    /\ loads = [r \in Row |-> 0]
    /\ adder = [r \in Row |-> "new"]
    /\ call = [c \in Call |-> "idle"]
    /\ before = [c \in Call |-> {}]
    /\ covered = [c \in Call |-> {}]
    /\ mem = {} /\ aged = {}
    /\ held = [p \in Producer |-> {}]
    /\ stage = [p \in Producer |-> "none"]
    /\ pos = [f \in Flusher |-> 0]
    /\ flushCh = <<>> /\ sealed = FALSE
    /\ wpc = "recv" /\ job = {} /\ attempt = 0 /\ cancelled = FALSE
    /\ ticking = TRUE /\ closer = "open"
    /\ pending = {}
    /\ tmp = {} /\ disk = {} /\ failed = {} /\ dropped = {}
    /\ copies = [r \in Row |-> 0]

\* Variant: quarantined files are taken up again.
findPendingParquet_Quarantined(files) == {files \cup failed}

\* findPendingParquet: what recovery will queue.  Listing the directory or
\* inspecting an entry may fail, which leaves files for the next start.
findPendingParquet(files) ==
    IF DiskFaults THEN SUBSET files ELSE {files}

Start ==
    /\ ~up
    /\ up' = TRUE
    /\ life' = life + 1
    /\ loads' = [r \in Row |-> 0]
    /\ pending' \in findPendingParquet(disk)
    /\ tmp' = {}                    \* truncated leftovers are removed
    /\ UNCHANGED <<bufVars, prodVars, callVars, chanVars, writeVars, ticking,
                   closer, disk, failed, copies, dropped>>

\* The process ends, by a crash or after Close: every goroutine is gone, callers
\* of Flush and FlushAndWait included, and so is every row that was not yet in a
\* complete file.
Volatile ==
    {r \in Row : adder[r] = "admitted"} \cup mem
      \cup UNION {held[p] : p \in {q \in Producer : stage[q] # "send"}}

Stop ==
    /\ up
    /\ life < MaxLives
    /\ up' = FALSE
    /\ dropped' = dropped \cup Volatile
    /\ adder' = [r \in Row |-> IF adder[r] = "admitted" THEN "added" ELSE adder[r]]
    /\ call' = [c \in Call |-> IF call[c] = "idle" THEN "idle" ELSE "failed"]
    /\ mem' = {} /\ aged' = {}
    /\ held' = [p \in Producer |-> {}]
    /\ stage' = [p \in Producer |-> "none"]
    /\ pos' = [f \in Flusher |-> 0]
    /\ flushCh' = <<>> /\ sealed' = FALSE
    /\ wpc' = "recv" /\ job' = {} /\ attempt' = 0 /\ cancelled' = FALSE
    /\ ticking' = TRUE /\ closer' = "open"
    /\ pending' = {}
    /\ UNCHANGED <<life, loads, before, covered, tmp, disk, failed, copies>>

-------------------------------------------------------------------------------
(* AddEvent and its siblings *)

\* beginOperation
Admit(r) ==
    /\ up /\ adder[r] = "new" /\ accepting
    /\ adder' = [adder EXCEPT ![r] = "admitted"]
    /\ UNCHANGED <<procVars, mem, aged, prodVars, callVars, chanVars,
                   writeVars, ctrlVars, diskVars>>

Refuse(r) ==
    /\ up /\ adder[r] = "new" /\ ~accepting
    /\ adder' = [adder EXCEPT ![r] = "refused"]
    /\ UNCHANGED <<procVars, mem, aged, prodVars, callVars, chanVars,
                   writeVars, ctrlVars, diskVars>>

\* Variant: the slice is handed over but not replaced.
Add_KeepsSlice(r) ==
    LET batch == InTable(TableOf[r]) \cup {r}
        full == Cardinality(batch) >= Threshold
    IN
    /\ up /\ adder[r] = "admitted"
    /\ adder' = [adder EXCEPT ![r] = "added"]
    /\ mem' = mem \cup {r}
    /\ held' = [held EXCEPT ![r] = IF full THEN batch ELSE @]
    /\ stage' = [stage EXCEPT ![r] = IF full THEN "parked" ELSE @]
    /\ UNCHANGED <<procVars, aged, pos, callVars, chanVars, writeVars,
                   ctrlVars, diskVars>>

\* TableBuffer.Add: append, and swap the slice out once it is long enough.  The
\* swapped batch is parked until writeWG.Add and the go statement.
Add(r) ==
    LET t == TableOf[r]
        batch == InTable(t) \cup {r}
        full == Cardinality(batch) >= Threshold
    IN
    /\ up /\ adder[r] = "admitted"
    /\ adder' = [adder EXCEPT ![r] = "added"]
    /\ \/ /\ ~full
          /\ mem' = mem \cup {r}
          /\ UNCHANGED <<aged, held, stage>>
       \/ /\ full
          /\ mem' = mem \ batch
          /\ aged' = aged \ {t}
          /\ held' = [held EXCEPT ![r] = batch]
          /\ stage' = [stage EXCEPT ![r] = "parked"]
    /\ UNCHANGED <<procVars, pos, callVars, chanVars, writeVars, ctrlVars,
                   diskVars>>

\* writeWG.Add(1) and go: the batch now belongs to a goroutine of its own.
Spawn(r) ==
    /\ up /\ stage[r] = "parked"
    /\ stage' = [stage EXCEPT ![r] = "create"]
    /\ UNCHANGED <<procVars, bufVars, held, pos, callVars, chanVars,
                   writeVars, ctrlVars, diskVars>>

-------------------------------------------------------------------------------
(* writeAndFlush, in the goroutine of whoever holds the batch *)

\* The producer is done with its batch; a flusher goes on to the next table.
Release(p) ==
    /\ held' = [held EXCEPT ![p] = {}]
    /\ stage' = [stage EXCEPT ![p] = "none"]
    /\ pos' = [f \in Flusher |-> IF f = p THEN pos[f] + 1 ELSE pos[f]]

\* writeParquet up to the rename, or its failure: the rows are logged and gone.
CreateFile(p) ==
    /\ up /\ stage[p] = "create"
    /\ tmp' = tmp \cup {held[p]}
    /\ stage' = [stage EXCEPT ![p] = "publish"]
    /\ UNCHANGED <<procVars, bufVars, held, pos, callVars, chanVars,
                   writeVars, ctrlVars, disk, failed, copies, dropped>>

WriteFails(p) ==
    /\ up /\ DiskFaults /\ stage[p] \in {"create", "publish"}
    /\ tmp' = tmp \ {held[p]}
    /\ dropped' = dropped \cup held[p]
    /\ Release(p)
    /\ UNCHANGED <<procVars, bufVars, callVars, chanVars, writeVars, ctrlVars,
                   disk, failed, copies>>

PublishFile(p) ==
    /\ up /\ stage[p] = "publish"
    /\ tmp' = tmp \ {held[p]}
    /\ disk' = disk \cup {held[p]}
    /\ stage' = [stage EXCEPT ![p] = "send"]
    /\ UNCHANGED <<procVars, bufVars, held, pos, callVars, chanVars,
                   writeVars, ctrlVars, failed, copies, dropped>>

\* flushCh <- job blocks while the channel is full.
Send(p) ==
    /\ up /\ stage[p] = "send"
    /\ Len(flushCh) < ChanCap
    /\ flushCh' = Append(flushCh, FileJob(held[p]))
    /\ Release(p)
    /\ UNCHANGED <<procVars, bufVars, callVars, sealed, writeVars, ctrlVars,
                   diskVars>>

-------------------------------------------------------------------------------
(* ForceFlush, called table by table *)

Visiting(f) == pos[f] \in 1..Len(Order) /\ stage[f] = "none"

Scanned(f) == pos[f] = Len(Order) + 1

\* Variant: the flusher moves on at once, and again when the batch is sent.
SwapOut_MovesOn(f) ==
    LET t == Order[pos[f]] IN
    /\ InTable(t) # {}
    /\ mem' = mem \ InTable(t)
    /\ aged' = aged \ {t}
    /\ held' = [held EXCEPT ![f] = InTable(t)]
    /\ stage' = [stage EXCEPT ![f] = "create"]
    /\ pos' = [pos EXCEPT ![f] = @ + 1]

SwapOut(f) ==
    LET t == Order[pos[f]] IN
    /\ InTable(t) # {}
    /\ mem' = mem \ InTable(t)
    /\ aged' = aged \ {t}
    /\ held' = [held EXCEPT ![f] = InTable(t)]
    /\ stage' = [stage EXCEPT ![f] = "create"]
    /\ UNCHANGED pos

PassOver(f) ==
    /\ pos' = [pos EXCEPT ![f] = @ + 1]
    /\ UNCHANGED <<mem, aged, held, stage>>

\* One step of flushAll, in FlushAndWait, Flush or Close.
ForceFlush(f) ==
    /\ up /\ f # Ticker /\ Visiting(f)
    /\ \/ SwapOut(f)
       \/ InTable(Order[pos[f]]) = {} /\ PassOver(f)
    /\ covered' = [c \in Call |-> covered[c] \cup IF c = f THEN mem \ mem' ELSE {}]
    /\ UNCHANGED <<procVars, adder, call, before, chanVars, writeVars, ctrlVars,
                   diskVars>>

-------------------------------------------------------------------------------
(* tickerLoop *)

\* A table's flush timeout elapses.
Age(t) ==
    /\ up /\ t \notin aged /\ InTable(t) # {}
    /\ aged' = aged \cup {t}
    /\ UNCHANGED <<procVars, adder, mem, prodVars, callVars, chanVars,
                   writeVars, ctrlVars, diskVars>>

Tick ==
    /\ up /\ ticking /\ pos[Ticker] = 0
    /\ pos' = [pos EXCEPT ![Ticker] = 1]
    /\ UNCHANGED <<procVars, bufVars, held, stage, callVars, chanVars,
                   writeVars, ctrlVars, diskVars>>

\* Variant: the ticker leaves short batches to fill up.
TickTable_WholeBatches ==
    /\ up /\ Visiting(Ticker)
    /\ LET t == Order[pos[Ticker]] IN
       \/ t \in aged /\ Cardinality(InTable(t)) >= Threshold /\ SwapOut(Ticker)
       \/ (t \notin aged \/ Cardinality(InTable(t)) < Threshold) /\ PassOver(Ticker)
    /\ UNCHANGED <<procVars, adder, callVars, chanVars, writeVars, ctrlVars,
                   diskVars>>

TickTable ==
    /\ up /\ Visiting(Ticker)
    /\ LET t == Order[pos[Ticker]] IN
       \/ t \in aged /\ SwapOut(Ticker)
       \/ (t \notin aged \/ InTable(t) = {}) /\ PassOver(Ticker)
    /\ UNCHANGED <<procVars, adder, callVars, chanVars, writeVars, ctrlVars,
                   diskVars>>

TickDone ==
    /\ up /\ Scanned(Ticker)
    /\ pos' = [pos EXCEPT ![Ticker] = 0]
    /\ UNCHANGED <<procVars, bufVars, held, stage, callVars, chanVars,
                   writeVars, ctrlVars, diskVars>>

TickerExit ==
    /\ up /\ ticking /\ pos[Ticker] = 0 /\ ~accepting
    /\ ticking' = FALSE
    /\ UNCHANGED <<procVars, bufVars, prodVars, callVars, chanVars, writeVars,
                   pending, closer, diskVars>>

-------------------------------------------------------------------------------
(* Flush and FlushAndWait *)

Added == {r \in Row : adder[r] = "added"}

\* Rows in a file the writer has received or will receive.
Queued == job \cup UNION {flushCh[i].file : i \in 1..Len(flushCh)}

Begin(c, kind) ==
    /\ up /\ call[c] = "idle" /\ accepting
    /\ call' = [call EXCEPT ![c] = kind]
    /\ before' = [before EXCEPT ![c] = Added \ dropped]
    /\ covered' = [covered EXCEPT ![c] = Queued]
    /\ pos' = [pos EXCEPT ![c] = 1]
    /\ UNCHANGED <<procVars, bufVars, held, stage, chanVars, writeVars,
                   ctrlVars, diskVars>>

Flush(c) == Begin(c, "flush")

FlushAndWait(c) == Begin(c, "drain")

\* Both refuse once Close has begun; FlushAndWait says so.
BeginFails(c) ==
    /\ up /\ call[c] = "idle" /\ ~accepting
    /\ call' = [call EXCEPT ![c] = "failed"]
    /\ UNCHANGED <<procVars, bufVars, prodVars, before, covered, chanVars,
                   writeVars, ctrlVars, diskVars>>

\* Variant: FlushAndWait returns once its own files are queued.
FlushedAll_NoBarrier(c) ==
    /\ up /\ call[c] \in {"flush", "drain"} /\ Scanned(c)
    /\ call' = [call EXCEPT ![c] = IF @ = "flush" THEN "flushed" ELSE "returned"]
    /\ pos' = [pos EXCEPT ![c] = 0]
    /\ UNCHANGED <<procVars, bufVars, held, stage, before, covered, chanVars,
                   writeVars, ctrlVars, diskVars>>

FlushedAll(c) ==
    /\ up /\ call[c] \in {"flush", "drain"} /\ Scanned(c)
    /\ call' = [call EXCEPT ![c] = IF @ = "flush" THEN "flushed" ELSE "barrier"]
    /\ pos' = [pos EXCEPT ![c] = 0]
    /\ UNCHANGED <<procVars, bufVars, held, stage, before, covered, chanVars,
                   writeVars, ctrlVars, diskVars>>

SendBarrier(c) ==
    /\ up /\ call[c] = "barrier"
    /\ Len(flushCh) < ChanCap
    /\ flushCh' = Append(flushCh, Barrier(c))
    /\ call' = [call EXCEPT ![c] = "wait"]
    /\ UNCHANGED <<procVars, bufVars, prodVars, before, covered, sealed,
                   writeVars, ctrlVars, diskVars>>

\* The caller's context ends while it waits.
Abandon(c) ==
    /\ up /\ call[c] \in {"barrier", "wait"}
    /\ call' = [call EXCEPT ![c] = "failed"]
    /\ UNCHANGED <<procVars, bufVars, prodVars, before, covered, chanVars,
                   writeVars, ctrlVars, diskVars>>

-------------------------------------------------------------------------------
(* writerLoop *)

\* Variant: the deadline is looked at first, so it swallows barriers as well.
Receive_DeadlineFirst ==
    /\ up /\ wpc = "recv" /\ flushCh # <<>>
    /\ flushCh' = Tail(flushCh)
    /\ LET j == Head(flushCh) IN
       \/ cancelled /\ UNCHANGED <<call, wpc, job, attempt>>
       \/ /\ ~cancelled /\ j.done # NoCall
          /\ call' = [call EXCEPT ![j.done] = IF @ = "wait" THEN "returned" ELSE @]
          /\ UNCHANGED <<wpc, job, attempt>>
       \/ /\ ~cancelled /\ j.done = NoCall
          /\ wpc' = "load" /\ job' = j.file /\ attempt' = 0
          /\ UNCHANGED call
    /\ UNCHANGED <<procVars, bufVars, prodVars, before, covered, sealed,
                   cancelled, ctrlVars, diskVars>>

\* A barrier is answered at once; after the shutdown deadline a file is passed
\* over and stays on disk.
Receive ==
    /\ up /\ wpc = "recv" /\ flushCh # <<>>
    /\ flushCh' = Tail(flushCh)
    /\ LET j == Head(flushCh) IN
       \/ /\ j.done # NoCall
          /\ call' = [call EXCEPT ![j.done] = IF @ = "wait" THEN "returned" ELSE @]
          /\ UNCHANGED <<wpc, job, attempt>>
       \/ /\ j.done = NoCall /\ cancelled
          /\ UNCHANGED <<call, wpc, job, attempt>>
       \/ /\ j.done = NoCall /\ ~cancelled
          /\ wpc' = "load" /\ job' = j.file /\ attempt' = 0
          /\ UNCHANGED call
    /\ UNCHANGED <<procVars, bufVars, prodVars, before, covered, sealed,
                   cancelled, ctrlVars, diskVars>>

\* Variant: the deadline ends the writer instead of making it drain.
WriterExit_AtDeadline ==
    /\ up /\ wpc = "recv" /\ (cancelled \/ (flushCh = <<>> /\ sealed))
    /\ wpc' = "exited"
    /\ UNCHANGED <<procVars, bufVars, prodVars, callVars, chanVars, job,
                   attempt, cancelled, ctrlVars, diskVars>>

WriterExit ==
    /\ up /\ wpc = "recv" /\ flushCh = <<>> /\ sealed
    /\ wpc' = "exited"
    /\ UNCHANGED <<procVars, bufVars, prodVars, callVars, chanVars, job,
                   attempt, cancelled, ctrlVars, diskVars>>

\* loadParquet: one INSERT; ON CONFLICT DO NOTHING where the table has a key.
loadParquet(f) ==
    [r \in Row |->
        IF r \notin f THEN copies[r]
        ELSE IF TableOf[r] \in Keyed THEN 1 ELSE copies[r] + 1]

LoadSucceeds ==
    /\ up /\ wpc = "load" /\ ~cancelled
    /\ copies' = loadParquet(job)
    /\ loads' = [r \in Row |-> loads[r] + IF r \in job THEN 1 ELSE 0]
    /\ wpc' = "remove"
    /\ UNCHANGED <<up, life, bufVars, prodVars, callVars, chanVars, job,
                   attempt, cancelled, ctrlVars, tmp, disk, failed, dropped>>

LoadFails ==
    /\ up /\ wpc = "load"
    /\ \/ /\ attempt < MaxRetries
          /\ attempt' = attempt + 1 /\ wpc' = "backoff"
       \/ /\ attempt = MaxRetries
          /\ wpc' = "giveup" /\ UNCHANGED attempt
    /\ UNCHANGED <<procVars, bufVars, prodVars, callVars, chanVars, job,
                   cancelled, ctrlVars, diskVars>>

\* Variant: the error of the failed load is forgotten.
BackoffElapses_ErrLost ==
    /\ up /\ wpc = "backoff"
    /\ wpc' = "remove"
    /\ UNCHANGED <<procVars, bufVars, prodVars, callVars, chanVars, job,
                   attempt, cancelled, ctrlVars, diskVars>>

\* The backoff ends, by its timer or by writerCtx.  err still holds the error of
\* the load that failed, so the test after the select leaves the loop either way.
BackoffElapses ==
    /\ up /\ wpc = "backoff"
    /\ wpc' = "giveup"
    /\ UNCHANGED <<procVars, bufVars, prodVars, callVars, chanVars, job,
                   attempt, cancelled, ctrlVars, diskVars>>

\* Variant: an interrupted load removes its file.
GiveUp_Removes ==
    /\ up /\ wpc = "giveup"
    /\ wpc' = "recv" /\ job' = {} /\ attempt' = 0
    /\ disk' = disk \ {job}
    /\ failed' = IF cancelled THEN failed ELSE failed \cup {job}
    /\ UNCHANGED <<procVars, bufVars, prodVars, callVars, chanVars, cancelled,
                   ctrlVars, tmp, copies, dropped>>

\* An interrupted load keeps its file; one that failed for good is renamed,
\* unless the rename fails too.
GiveUp ==
    /\ up /\ wpc = "giveup"
    /\ wpc' = "recv" /\ job' = {} /\ attempt' = 0
    /\ \/ /\ cancelled \/ DiskFaults
          /\ UNCHANGED <<disk, failed>>
       \/ /\ ~cancelled
          /\ disk' = disk \ {job}
          /\ failed' = failed \cup {job}
    /\ UNCHANGED <<procVars, bufVars, prodVars, callVars, chanVars, cancelled,
                   ctrlVars, tmp, copies, dropped>>

\* Variant: a file that cannot be removed counts as a failed load.
RemoveFile_Retries ==
    /\ up /\ wpc = "remove"
    /\ \/ /\ disk' = disk \ {job}
          /\ wpc' = "recv" /\ job' = {} /\ attempt' = 0
       \/ /\ DiskFaults
          /\ wpc' = "load" /\ UNCHANGED <<disk, job, attempt>>
    /\ UNCHANGED <<procVars, bufVars, prodVars, callVars, chanVars, cancelled,
                   ctrlVars, tmp, failed, copies, dropped>>

RemoveFile ==
    /\ up /\ wpc = "remove"
    /\ wpc' = "recv" /\ job' = {} /\ attempt' = 0
    /\ \/ disk' = disk \ {job}
       \/ DiskFaults /\ UNCHANGED disk
    /\ UNCHANGED <<procVars, bufVars, prodVars, callVars, chanVars, cancelled,
                   ctrlVars, tmp, failed, copies, dropped>>

-------------------------------------------------------------------------------
(* queuePendingParquet *)

QueuePending(f) ==
    /\ up /\ f \in pending
    /\ Len(flushCh) < ChanCap
    /\ flushCh' = Append(flushCh, FileJob(f))
    /\ pending' = pending \ {f}
    /\ UNCHANGED <<procVars, bufVars, prodVars, callVars, sealed, writeVars,
                   ticking, closer, diskVars>>

StopQueueing ==
    /\ up /\ pending # {} /\ ~accepting
    /\ pending' = {}
    /\ UNCHANGED <<procVars, bufVars, prodVars, callVars, chanVars, writeVars,
                   ticking, closer, diskVars>>

-------------------------------------------------------------------------------
(* Close *)

Close ==
    /\ up /\ closer = "open"
    /\ closer' = "ticker"
    /\ UNCHANGED <<procVars, bufVars, prodVars, callVars, chanVars, writeVars,
                   pending, ticking, diskVars>>

\* The context given to Close is done: AfterFunc cancels writerCtx.
Deadline ==
    /\ up /\ closer \notin {"open", "closed"} /\ ~cancelled
    /\ cancelled' = TRUE
    /\ UNCHANGED <<procVars, bufVars, prodVars, callVars, chanVars, wpc, job,
                   attempt, ctrlVars, diskVars>>

AwaitTicker ==
    /\ up /\ closer = "ticker" /\ ~ticking
    /\ closer' = "ops"
    /\ UNCHANGED <<procVars, bufVars, prodVars, callVars, chanVars, writeVars,
                   pending, ticking, diskVars>>

\* Variant: Close does not flush what is left in the buffers.
AwaitOperations_NoFlush ==
    /\ up /\ closer = "ops" /\ OperationsDone
    /\ closer' = "producers"
    /\ UNCHANGED <<procVars, bufVars, prodVars, callVars, chanVars, writeVars,
                   pending, ticking, diskVars>>

AwaitOperations ==
    /\ up /\ closer = "ops" /\ OperationsDone
    /\ closer' = "flush"
    /\ pos' = [pos EXCEPT ![Closer] = 1]
    /\ UNCHANGED <<procVars, bufVars, held, stage, callVars, chanVars,
                   writeVars, pending, ticking, diskVars>>

CloserFlushed ==
    /\ up /\ closer = "flush" /\ Scanned(Closer)
    /\ closer' = "producers"
    /\ pos' = [pos EXCEPT ![Closer] = 0]
    /\ UNCHANGED <<procVars, bufVars, held, stage, callVars, chanVars,
                   writeVars, pending, ticking, diskVars>>

AwaitProducers ==
    /\ up /\ closer = "producers" /\ ProducersDone
    /\ closer' = "writer"
    /\ sealed' = TRUE
    /\ UNCHANGED <<procVars, bufVars, prodVars, callVars, flushCh, writeVars,
                   pending, ticking, diskVars>>

\* Variant: Close does not wait for the writer.
AwaitWriter_Returns ==
    /\ up /\ closer = "writer"
    /\ closer' = "closed"
    /\ UNCHANGED <<procVars, bufVars, prodVars, callVars, chanVars, writeVars,
                   pending, ticking, diskVars>>

AwaitWriter ==
    /\ up /\ closer = "writer" /\ wpc = "exited"
    /\ closer' = "closed"
    /\ UNCHANGED <<procVars, bufVars, prodVars, callVars, chanVars, writeVars,
                   pending, ticking, diskVars>>

\* The last process may stay closed for ever.
Closed == up /\ closer = "closed" /\ UNCHANGED vars

-------------------------------------------------------------------------------
AddStep == \E r \in Row : Admit(r) \/ Refuse(r) \/ Add(r) \/ Spawn(r)

ProduceStep ==
    \E p \in Producer :
        CreateFile(p) \/ WriteFails(p) \/ PublishFile(p) \/ Send(p)

TickerStep == Tick \/ TickTable \/ TickDone \/ TickerExit \/ \E t \in Table : Age(t)

CallStep ==
    \E c \in Call :
        \/ Flush(c) \/ FlushAndWait(c) \/ BeginFails(c)
        \/ FlushedAll(c) \/ SendBarrier(c) \/ Abandon(c)

WriterStep ==
    \/ Receive \/ WriterExit \/ LoadSucceeds \/ LoadFails
    \/ BackoffElapses \/ GiveUp \/ RemoveFile

RecoveryStep == StopQueueing \/ \E f \in pending : QueuePending(f)

CloseStep ==
    \/ Close \/ Deadline \/ AwaitTicker \/ AwaitOperations \/ CloserFlushed
    \/ AwaitProducers \/ AwaitWriter \/ Closed

Next ==
    \/ Start \/ Stop
    \/ AddStep \/ ProduceStep
    \/ \E f \in Flusher : ForceFlush(f)
    \/ TickerStep \/ CallStep \/ WriterStep \/ RecoveryStep \/ CloseStep

Spec == Init /\ [][Next]_vars

-------------------------------------------------------------------------------
(* Fairness: the Go scheduler runs every runnable goroutine, timers fire, and  *)
(* systemd restarts the service (install.sh, Restart=always).  Nothing forces  *)
(* callers to call, a deadline to expire, a context to end or a fault to occur.*)

Fairness ==
    /\ WF_vars(Start)
    /\ \A r \in Row : WF_vars(Add(r)) /\ WF_vars(Spawn(r))
    /\ \A p \in Producer :
          WF_vars(CreateFile(p) \/ WriteFails(p) \/ PublishFile(p) \/ Send(p))
    /\ \A f \in Flusher : WF_vars(ForceFlush(f))
    /\ \A t \in Table : WF_vars(Age(t))
    /\ WF_vars(Tick) /\ WF_vars(TickTable \/ TickDone) /\ SF_vars(TickerExit)
    /\ \A c \in Call : WF_vars(FlushedAll(c) \/ SendBarrier(c))
    /\ WF_vars(WriterStep)
    /\ WF_vars(RecoveryStep)
    /\ WF_vars(AwaitTicker \/ AwaitOperations \/ CloserFlushed
                 \/ AwaitProducers \/ AwaitWriter)

LiveSpec == Spec /\ Fairness

-------------------------------------------------------------------------------
(* Properties *)

Loaded(r) == copies[r] > 0

Quarantined == UNION failed

Durable == UNION disk

\* A row the code has finished with: loaded, quarantined or given up.
Settled(r) == Loaded(r) \/ r \in Quarantined \/ r \in dropped

\* The places in the process that will have a complete file loaded.
SendersOf(f) == {p \in Producer : stage[p] = "send" /\ held[p] = f}

QueuedAt(f) == {i \in 1..Len(flushCh) : flushCh[i].done = NoCall /\ flushCh[i].file = f}

Working == wpc \in {"load", "backoff", "giveup", "remove"}

Claims(f) ==
    Cardinality(SendersOf(f)) + Cardinality(QueuedAt(f))
      + (IF f \in pending THEN 1 ELSE 0)
      + (IF Working /\ job = f THEN 1 ELSE 0)

\* No file is queued twice, and whatever is queued is a complete file that is
\* still there: neither the live producers nor the startup scan may hand the
\* writer a file that is half written, already taken or already gone.
ClaimsAreSound ==
    \A f \in disk \cup tmp \cup failed \cup pending \cup {held[p] : p \in Producer}
             \cup {flushCh[i].file : i \in 1..Len(flushCh)} \cup {job} :
        f # {} => Claims(f) <= (IF f \in disk THEN 1 ELSE 0)

\* Every row that was accepted is in exactly one place: on its way to a file, in
\* a file to load, in a quarantined file, given up with a logged error or by the
\* end of the process, or (with its file removed) only in the database.
Pipeline(r) ==
    Cardinality({p \in Producer : r \in held[p] /\ stage[p] # "send"})
      + (IF adder[r] = "admitted" \/ r \in mem THEN 1 ELSE 0)

Conservation ==
    \A r \in Row :
        adder[r] \in {"admitted", "added"} =>
            LET files == Cardinality({f \in disk : r \in f})
                aside == Cardinality({f \in failed : r \in f})
                gone  == IF r \in dropped THEN 1 ELSE 0
                total == Pipeline(r) + files + aside + gone
            IN total = 1 \/ (total = 0 /\ Loaded(r))

\* Nobody sends on flushCh after Close has closed it (which would panic), and
\* the writer is the only goroutine left that has work.
NoSendOnClosed ==
    sealed =>
        /\ \A p \in Producer : stage[p] = "none"
        /\ pending = {} /\ mem = {}
        /\ \A c \in Call : call[c] \notin {"barrier", "wait"}

\* A load is repeated only by another process: one process loads a row at most
\* once, whatever fails and whenever the row was accepted or recovered.
OncePerLife == \A r \in Row : loads[r] <= 1

\* When Close returns without having run into its deadline, nothing is left
\* over: no row in memory, no file to recover (TestCloseFlushesBufferedRows...).
CleanClose ==
    closer = "closed" /\ life = 1 /\ ~cancelled /\ ~DiskFaults =>
        /\ disk = {} /\ tmp = {} /\ dropped = {}
        /\ \A r \in Row : adder[r] = "added" => Settled(r)

\* A deadline costs no row: whatever was accepted is loaded, quarantined or in
\* a file the next start recovers.
DeadlineKeepsRows ==
    closer = "closed" /\ ~DiskFaults =>
        \A r \in Row : adder[r] = "added" /\ r \notin dropped =>
            Loaded(r) \/ r \in Quarantined \/ r \in Durable

\* FlushAndWait does wait for the rows it swapped out itself and for those that
\* were queued when it was called, unless the shutdown deadline interrupts it:
\* each is in the database, quarantined, lost to a failed write, or in a file
\* that could not be quarantined.
BarrierCovers ==
    \A c \in Call : call[c] = "returned" /\ ~cancelled =>
        \A r \in covered[c] :
            Settled(r) \/ (DiskFaults /\ r \in Durable \ Queued)

\* The comment on writerLoop: "Failed loads are retried up to 3 times": a file is
\* quarantined only after its last retry.
RetriedBeforeQuarantine == [][failed' # failed => attempt = MaxRetries]_vars

\* The comment on FlushAndWait: it blocks until every load queued so far has
\* been applied or has failed for good, "every row that was buffered before
\* this call" included.
ReadYourWrites ==
    \A c \in Call : call[c] = "returned" => \A r \in before[c] : Settled(r)

\* Once Close has returned the caller closes DuckDB: nothing touches it again.
QuietAfterClose == [][up /\ closer = "closed" => UNCHANGED copies]_vars

\* The buffer implements RowStore.
Fate ==
    [r \in Row |->
        IF adder[r] \in {"new", "refused"} THEN adder[r]
        ELSE IF r \in dropped THEN "lost"
        ELSE IF r \in Quarantined THEN "quarantined"
        ELSE IF r \in Durable THEN "durable"
        ELSE IF Loaded(r) THEN "stored" ELSE "volatile"]

Abstract == INSTANCE RowStore WITH
    Keyed <- {r \in Row : TableOf[r] \in Keyed}, fate <- Fate, copies <- copies

ImplementsRowStore == Abstract!StoreSpec

\* Close returns, whatever callers, producers and the writer are doing.
CloseReturns == up /\ closer # "open" ~> closer = "closed" \/ ~up

\* A FlushAndWait call returns, even during shutdown.
CallReturns ==
    \A c \in Call :
        call[c] \in {"flush", "drain", "barrier", "wait"}
          ~> call[c] \in {"flushed", "returned", "failed"}

\* No accepted row is forgotten in a buffer, a goroutine, the channel or a
\* file: without disk faults the running process settles it.
RowsSettle ==
    \A r \in Row :
        adder[r] = "added" ~> Settled(r) \/ cancelled \/ closer = "closed" \/ ~up
================================================================================
