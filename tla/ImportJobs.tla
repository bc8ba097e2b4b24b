------------------------------ MODULE ImportJobs ------------------------------
(***************************************************************************)
(* Imports of historical data: the handlers of handlers_migrate.go, the    *)
(* JobManager of internal/migrate with its goroutine per job, the table    *)
(* import_jobs, and the part of the server's shutdown they are ordered by. *)
(*                                                                         *)
(* The buffer is reduced to where a row is on its way to the database;     *)
(* BufferPipeline models how it gets there.                                *)
(***************************************************************************)
EXTENDS Naturals, FiniteSets

CONSTANTS
    Job,        \* import jobs, each started by one request
    Row,        \* rows of all the files to import
    JobOf,      \* the job that imports each row
    Call,       \* requests that roll back a job, each made at most once
    NoJob,      \* the job of a call that has not begun
    MaxLives    \* bound: how many times the process is started

ASSUME ImportAssumption ==
    /\ IsFiniteSet(Row)
    /\ JobOf \in [Row -> Job]
    /\ NoJob \notin Job
    /\ MaxLives \in Nat \ {0}

VARIABLES
    up, life,
    stage,      \* how far the server's shutdown has come
    late,       \* shutdownCtx has expired
    stopping,   \* JobManager.stopping
    request,    \* the request that starts each job
    status,     \* import_jobs.status
    task,       \* the goroutine of each job
    ctxDone,    \* its context has been cancelled
    place,      \* where each row is
    rb,         \* the rollback calls
    target,     \* the job each of them rolls back
    awaited,    \* rows the barrier of each of them is behind
    settled     \* history: each call has met none of the cases it does not handle

serverVars == <<up, life, stage, late, stopping>>
jobVars    == <<request, status, task, ctxDone>>
callVars   == <<rb, target, awaited, settled>>
vars == <<serverVars, jobVars, place, callVars>>

Stages   == {"serving", "draining", "joining", "buffer", "closed"}
Statuses == {"absent", "pending", "running", "completed", "failed", "cancelled",
             "rolled_back"}
Tasks    == {"none", "begin", "parse", "cleanup", "gone"}

\* "left": in the database, and its parquet file could not be removed;
\* "leftover": such a file after the row has been deleted; "aside": quarantined;
\* "onDisk": in a file of an earlier process; "pending": in one that recovery has
\* still to send.
Places == {"file", "buffered", "flying", "queued", "stored", "left", "leftover",
           "onDisk", "pending", "deleted", "aside", "lost", "refused"}

\* Where a row is in the database or on its way to it.
Alive == {"buffered", "flying", "onDisk", "pending", "queued", "stored", "left"}

TypeOK ==
    /\ up \in BOOLEAN /\ life \in 1..MaxLives
    /\ stage \in Stages /\ late \in BOOLEAN /\ stopping \in BOOLEAN
    /\ request \in [Job -> {"none", "arrived", "created", "done"}]
    /\ status \in [Job -> Statuses]
    /\ task \in [Job -> Tasks]
    /\ ctxDone \in [Job -> BOOLEAN]
    /\ place \in [Row -> Places]
    /\ rb \in [Call -> {"idle", "arrived", "flush", "wait", "delete", "mark", "done", "failed"}]
    /\ target \in [Call -> Job \cup {NoJob}]
    /\ awaited \in [Call -> SUBSET Row]
    /\ settled \in [Call -> BOOLEAN]

Init ==
    /\ up = TRUE /\ life = 1
    /\ stage = "serving" /\ late = FALSE /\ stopping = FALSE
    /\ request = [j \in Job |-> "none"]
    /\ status = [j \in Job |-> "absent"]
    /\ task = [j \in Job |-> "none"]
    /\ ctxDone = [j \in Job |-> FALSE]
    /\ place = [r \in Row |-> "file"]
    /\ rb = [c \in Call |-> "idle"]
    /\ target = [c \in Call |-> NoJob]
    /\ awaited = [c \in Call |-> {}]
    /\ settled = [c \in Call |-> FALSE]

RowsOf(j) == {r \in Row : JobOf[r] = j}

Registered(j) == task[j] \in {"begin", "parse", "cleanup"}

InHandler(c) == rb[c] \in {"arrived", "flush", "wait", "delete", "mark"}

\* The rows in S that are at one place go to another.
Shift(S, from, to) ==
    place' = [r \in Row |-> IF r \in S /\ place[r] = from THEN to ELSE place[r]]

\* Every UPDATE of import_jobs.status may fail; executeJob logs that or ignores it.
Update(j, s) == status' = [status EXCEPT ![j] = s] \/ UNCHANGED status

-------------------------------------------------------------------------------
(* MigrateStart and RunJob *)

Submit(j) ==
    /\ up /\ stage = "serving" /\ request[j] = "none"
    /\ request' = [request EXCEPT ![j] = "arrived"]
    /\ UNCHANGED <<serverVars, status, task, ctxDone, place, callVars>>

\* The job is stored as pending, however long the request has taken until now; or
\* the request is invalid or the INSERT fails.
Create(j) ==
    /\ up /\ request[j] = "arrived"
    /\ \/ /\ stage # "closed"
          /\ request' = [request EXCEPT ![j] = "created"]
          /\ status' = [status EXCEPT ![j] = "pending"]
       \/ /\ request' = [request EXCEPT ![j] = "done"]
          /\ UNCHANGED status
    /\ UNCHANGED <<serverVars, task, ctxDone, place, callVars>>

\* Variant: a job is registered without a look at stopping.
RunJob_Always(j) ==
    /\ up /\ request[j] = "created"
    /\ request' = [request EXCEPT ![j] = "done"]
    /\ task' = [task EXCEPT ![j] = "begin"]
    /\ UNCHANGED <<serverVars, status, ctxDone, place, callVars>>

\* The job is registered, or refused and marked failed.
RunJob(j) ==
    /\ up /\ request[j] = "created"
    /\ request' = [request EXCEPT ![j] = "done"]
    /\ \/ /\ ~stopping
          /\ task' = [task EXCEPT ![j] = "begin"]
          /\ UNCHANGED status
       \/ /\ stopping
          /\ Update(j, "failed")
          /\ UNCHANGED task
    /\ UNCHANGED <<serverVars, ctxDone, place, callVars>>

-------------------------------------------------------------------------------
(* executeJob *)

\* Loading the job fails or its status cannot be set; the file or its parser is
\* missing; or parsing begins.
Begin(j) ==
    /\ up /\ task[j] = "begin"
    /\ \/ /\ task' = [task EXCEPT ![j] = "cleanup"]
          /\ status' \in {status, [status EXCEPT ![j] = "running"],
                          [status EXCEPT ![j] = "failed"]}
       \/ /\ task' = [task EXCEPT ![j] = "parse"]
          /\ status' = [status EXCEPT ![j] = "running"]
    /\ UNCHANGED <<serverVars, request, ctxDone, place, callVars>>

\* The callback of the parser adds an event; the buffer drops it without a word
\* once it no longer accepts any.  The context is looked at between batches only.
AddEvent(r) ==
    LET j == JobOf[r] IN
    /\ up /\ task[j] = "parse" /\ place[r] = "file"
    /\ place' = [place EXCEPT ![r] =
                    IF stage \in {"buffer", "closed"} THEN "refused" ELSE "buffered"]
    /\ UNCHANGED <<serverVars, jobVars, callVars>>

\* Variant: an interrupted job marks itself cancelled and goes on to the end.
ParseStops_GoesOn(j) ==
    /\ up /\ task[j] = "parse"
    /\ Update(j, IF ctxDone[j] THEN "cancelled" ELSE "failed")
    /\ UNCHANGED <<serverVars, request, task, ctxDone, place, callVars>>

\* Variant: an interrupted job gets a status nothing else knows.
ParseStops_NewStatus(j) ==
    /\ up /\ task[j] = "parse"
    /\ task' = [task EXCEPT ![j] = "cleanup"]
    /\ Update(j, IF ctxDone[j] THEN "interrupted" ELSE "failed")
    /\ UNCHANGED <<serverVars, request, ctxDone, place, callVars>>

\* The file turns out to be malformed, or the context was cancelled.
ParseStops(j) ==
    /\ up /\ task[j] = "parse"
    /\ task' = [task EXCEPT ![j] = "cleanup"]
    /\ Update(j, IF ctxDone[j] THEN "cancelled" ELSE "failed")
    /\ UNCHANGED <<serverVars, request, ctxDone, place, callVars>>

Complete(j) ==
    /\ up /\ task[j] = "parse"
    /\ \A r \in RowsOf(j) : place[r] # "file"
    /\ task' = [task EXCEPT ![j] = "cleanup"]
    /\ Update(j, "completed")
    /\ UNCHANGED <<serverVars, request, ctxDone, place, callVars>>

\* Variant: a job that was cancelled is never taken off the wait group.
Unregister_Leaks(j) ==
    /\ up /\ task[j] = "cleanup" /\ ~ctxDone[j]
    /\ task' = [task EXCEPT ![j] = "gone"]
    /\ UNCHANGED <<serverVars, request, status, ctxDone, place, callVars>>

\* The deferred functions of RunJob: off the map, off the wait group.
Unregister(j) ==
    /\ up /\ task[j] = "cleanup"
    /\ task' = [task EXCEPT ![j] = "gone"]
    /\ UNCHANGED <<serverVars, request, status, ctxDone, place, callVars>>

\* A request that has arrived before the shutdown may come to this during it.
CancelJob(j) ==
    /\ up /\ stage \in {"serving", "draining"} /\ Registered(j) /\ ~ctxDone[j]
    /\ ctxDone' = [ctxDone EXCEPT ![j] = TRUE]
    /\ UNCHANGED <<serverVars, request, status, task, place, callVars>>

-------------------------------------------------------------------------------
(* The buffer *)

SwapOut ==
    /\ up
    /\ \E r \in Row : place[r] = "buffered"
    /\ Shift(Row, "buffered", "flying")
    /\ UNCHANGED <<serverVars, jobVars, callVars>>

\* The batch is written and sent; if it cannot be written it is dropped.
Send ==
    /\ up
    /\ \E r \in Row : place[r] = "flying"
    /\ \E to \in {"queued", "lost"} : Shift(Row, "flying", to)
    /\ UNCHANGED <<serverVars, jobVars, callVars>>

\* Recovery sends the files it has found one by one, from a goroutine of its own.
Recover(r) ==
    /\ up /\ place[r] = "pending" /\ stage # "closed"
    /\ Shift({r}, "pending", "queued")
    /\ UNCHANGED <<serverVars, jobVars, callVars>>

\* After the shutdown deadline the writer loads nothing more.
Skipping == stage \in {"buffer", "closed"} /\ late

Load(r) ==
    /\ up /\ place[r] = "queued" /\ stage # "closed" /\ ~Skipping
    /\ \E to \in {"stored", "left", "aside"} : Shift({r}, "queued", to)
    /\ UNCHANGED <<serverVars, jobVars, callVars>>

-------------------------------------------------------------------------------
(* Rollback *)

Ask(c, j) ==
    /\ up /\ stage = "serving" /\ rb[c] = "idle" /\ status[j] # "absent"
    /\ rb' = [rb EXCEPT ![c] = "arrived"]
    /\ target' = [target EXCEPT ![c] = j]
    /\ UNCHANGED <<serverVars, jobVars, place, awaited, settled>>

\* The status is read once.  It does not tell whether the goroutine is still to
\* come, or still there.
Rollback(c) ==
    LET j == target[c] IN
    /\ up /\ rb[c] = "arrived" /\ stage # "closed" /\ status[j] # "running"
    /\ rb' = [rb EXCEPT ![c] = "flush"]
    /\ settled' = [settled EXCEPT ![c] = ~Registered(j) /\ request[j] # "created"]
    /\ UNCHANGED <<serverVars, jobVars, place, target, awaited>>

\* The job is running, or cannot be read.
RollbackDenied(c) ==
    /\ up /\ rb[c] = "arrived"
    /\ rb' = [rb EXCEPT ![c] = "failed"]
    /\ UNCHANGED <<serverVars, jobVars, place, target, awaited, settled>>

\* Variant: only the writer's queue is waited for, the buffers are not flushed.
RollbackFlush_QueueOnly(c) ==
    /\ up /\ rb[c] = "flush" /\ stage \notin {"buffer", "closed"}
    /\ rb' = [rb EXCEPT ![c] = "wait"]
    /\ awaited' = [awaited EXCEPT ![c] = {r \in Row : place[r] = "queued"}]
    /\ UNCHANGED <<serverVars, jobVars, place, target, settled>>

\* FlushAndWait queues what is in the buffers, then its barrier.  It does not see
\* a batch that another goroutine has taken out and not sent yet, nor a file that
\* recovery has still to send or did not find.
RollbackFlush(c) ==
    /\ up /\ rb[c] = "flush" /\ stage \notin {"buffer", "closed"}
    /\ \E to \in {"queued", "lost"} : Shift(Row, "buffered", to)
    /\ awaited' = [awaited EXCEPT ![c] = {r \in Row : place'[r] = "queued"}]
    /\ settled' = [settled EXCEPT ![c] =
                      @ /\ \A r \in RowsOf(target[c]) :
                             place[r] \notin {"flying", "pending", "onDisk"}]
    /\ rb' = [rb EXCEPT ![c] = "wait"]
    /\ UNCHANGED <<serverVars, jobVars, target>>

RollbackRefused(c) ==
    /\ up /\ rb[c] = "flush" /\ stage \in {"buffer", "closed"}
    /\ rb' = [rb EXCEPT ![c] = "failed"]
    /\ UNCHANGED <<serverVars, jobVars, place, target, awaited, settled>>

\* Variant: after the deadline the writer passes over barriers as well.
RollbackWait_Swallowed(c) ==
    /\ up /\ rb[c] = "wait"
    /\ ~Skipping /\ \A r \in awaited[c] : place[r] # "queued"
    /\ rb' = [rb EXCEPT ![c] = "delete"]
    /\ UNCHANGED <<serverVars, jobVars, place, target, awaited, settled>>

\* The barrier is answered: everything before it is loaded or was passed over.
RollbackWait(c) ==
    /\ up /\ rb[c] = "wait"
    /\ Skipping \/ \A r \in awaited[c] : place[r] # "queued"
    /\ rb' = [rb EXCEPT ![c] = "delete"]
    /\ settled' = [settled EXCEPT ![c] = @ /\ ~Skipping]
    /\ UNCHANGED <<serverVars, jobVars, place, target, awaited>>

RollbackDelete(c) ==
    /\ up /\ rb[c] = "delete" /\ stage # "closed"
    /\ place' = [r \in Row |->
                    IF r \notin RowsOf(target[c]) THEN place[r]
                    ELSE CASE place[r] = "stored" -> "deleted"
                           [] place[r] = "left" -> "leftover"
                           [] OTHER -> place[r]]
    /\ settled' = [settled EXCEPT ![c] =
                      @ /\ \A r \in RowsOf(target[c]) : place[r] \notin {"left", "leftover"}]
    /\ rb' = [rb EXCEPT ![c] = "mark"]
    /\ UNCHANGED <<serverVars, jobVars, target, awaited>>

RollbackMark(c) ==
    /\ up /\ rb[c] = "mark" /\ stage # "closed"
    /\ status' = [status EXCEPT ![target[c]] = "rolled_back"]
    /\ rb' = [rb EXCEPT ![c] = "done"]
    /\ UNCHANGED <<serverVars, request, task, ctxDone, place, target, awaited, settled>>

\* A statement fails, at the latest because the database has been closed.
RollbackFails(c) ==
    /\ up /\ rb[c] \in {"delete", "mark"}
    /\ rb' = [rb EXCEPT ![c] = "failed"]
    /\ UNCHANGED <<serverVars, jobVars, place, target, awaited, settled>>

-------------------------------------------------------------------------------
(* The server: shutdown, end of the process, restart *)

Shutdown ==
    /\ up /\ stage = "serving"
    /\ stage' = "draining"
    /\ UNCHANGED <<up, life, late, stopping, jobVars, place, callVars>>

\* shutdownCtx runs out.
Expire ==
    /\ up /\ stage \notin {"serving", "closed"} /\ ~late
    /\ late' = TRUE
    /\ UNCHANGED <<up, life, stage, stopping, jobVars, place, callVars>>

\* server.Shutdown waits for the handlers as long as it may; then the manager
\* refuses new jobs and cancels those it has.
Drained ==
    /\ up /\ stage = "draining"
    /\ \/ late
       \/ /\ \A c \in Call : ~InHandler(c)
          /\ \A j \in Job : request[j] \notin {"arrived", "created"}
    /\ stage' = "joining"
    /\ stopping' = TRUE
    /\ ctxDone' = [j \in Job |-> ctxDone[j] \/ Registered(j)]
    /\ UNCHANGED <<up, life, late, request, status, task, place, callVars>>

\* Variant: the deadline ends the wait for the jobs.
Joined_AtDeadline ==
    /\ up /\ stage = "joining"
    /\ late \/ \A j \in Job : ~Registered(j)
    /\ stage' = "buffer"
    /\ UNCHANGED <<up, life, late, stopping, jobVars, place, callVars>>

\* The second call of JobManager.Shutdown waits without a deadline.  Then the
\* buffer is closed to new rows.
Joined ==
    /\ up /\ stage = "joining"
    /\ \A j \in Job : ~Registered(j)
    /\ stage' = "buffer"
    /\ UNCHANGED <<up, life, late, stopping, jobVars, place, callVars>>

\* Close has waited for FlushAndWait calls, seen the buffers flushed and the
\* channel drained.
BufferClosed ==
    /\ up /\ stage = "buffer"
    /\ \A c \in Call : rb[c] # "wait"
    /\ \A r \in Row : place[r] \notin {"buffered", "flying"}
    /\ late \/ \A r \in Row : place[r] # "queued"
    /\ stage' = "closed"
    /\ UNCHANGED <<up, life, late, stopping, jobVars, place, callVars>>

\* What the process leaves of row r: a batch under way is in a complete file, and
\* then in S, or lost; a file that is not removed when it is loaded stays.
Survives(r, S) ==
    CASE place[r] = "buffered" -> "lost"
      [] place[r] = "flying" -> IF r \in S THEN "onDisk" ELSE "lost"
      [] place[r] \in {"pending", "queued", "left", "leftover"} -> "onDisk"
      [] OTHER -> place[r]

\* The process ends at any time.  Nobody goes through import_jobs when the next
\* one starts.
Stop ==
    /\ up /\ life < MaxLives
    /\ up' = FALSE
    /\ \E S \in SUBSET {r \in Row : place[r] = "flying"} :
          place' = [r \in Row |-> Survives(r, S)]
    /\ request' = [j \in Job |-> IF request[j] = "none" THEN "none" ELSE "done"]
    /\ task' = [j \in Job |-> IF Registered(j) THEN "gone" ELSE task[j]]
    /\ rb' = [c \in Call |-> IF InHandler(c) THEN "failed" ELSE rb[c]]
    /\ stage' = "serving" /\ late' = FALSE /\ stopping' = FALSE
    /\ UNCHANGED <<life, status, ctxDone, target, awaited, settled>>

\* NewBufferManager lists the files; those it cannot look at stay for another start.
Start ==
    /\ ~up
    /\ up' = TRUE /\ life' = life + 1
    /\ \E S \in SUBSET Row : Shift(S, "onDisk", "pending")
    /\ UNCHANGED <<stage, late, stopping, jobVars, callVars>>

Closed == up /\ stage = "closed" /\ UNCHANGED vars

-------------------------------------------------------------------------------
TaskStep ==
    \/ \E j \in Job : Begin(j) \/ ParseStops(j) \/ Complete(j) \/ Unregister(j)
    \/ \E r \in Row : AddEvent(r)

RequestStep == \E j \in Job : Submit(j) \/ Create(j) \/ RunJob(j) \/ CancelJob(j)

BufferStep == SwapOut \/ Send \/ \E r \in Row : Recover(r) \/ Load(r)

RollbackStep ==
    \E c \in Call :
        \/ \E j \in Job : Ask(c, j)
        \/ Rollback(c) \/ RollbackDenied(c)
        \/ RollbackFlush(c) \/ RollbackRefused(c) \/ RollbackWait(c)
        \/ RollbackDelete(c) \/ RollbackMark(c) \/ RollbackFails(c)

ShutdownStep == Shutdown \/ Expire \/ Drained \/ Joined \/ BufferClosed \/ Closed

Next ==
    RequestStep \/ TaskStep \/ BufferStep \/ RollbackStep \/ ShutdownStep \/ Stop \/ Start

Spec == Init /\ [][Next]_vars

\* Goroutines and handlers run, timers fire; nothing makes requests come, files be
\* malformed or statements fail.
Fairness ==
    /\ WF_vars(Start)
    /\ \A j \in Job :
          /\ WF_vars(Create(j)) /\ WF_vars(RunJob(j)) /\ WF_vars(Begin(j)) /\ WF_vars(Unregister(j))
          /\ WF_vars(ParseStops(j) \/ Complete(j) \/ \E r \in RowsOf(j) : AddEvent(r))
    /\ WF_vars(SwapOut) /\ WF_vars(Send) /\ \A r \in Row : WF_vars(Load(r))
    /\ \A c \in Call :
          /\ WF_vars(Rollback(c) \/ RollbackDenied(c))
          /\ WF_vars(RollbackFlush(c) \/ RollbackRefused(c)) /\ WF_vars(RollbackWait(c))
          /\ WF_vars(RollbackDelete(c) \/ RollbackMark(c) \/ RollbackFails(c))
    /\ WF_vars(Expire) /\ WF_vars(Drained) /\ WF_vars(Joined) /\ WF_vars(BufferClosed)

LiveSpec == Spec /\ Fairness

-------------------------------------------------------------------------------
\* executeJob counts a row as imported without knowing whether AddEvent took it;
\* the shutdown order sees to it that none is dropped: the buffer stops accepting
\* only after the last job has ended, whatever deadline has passed.
ImportsAccepted == \A r \in Row : place[r] # "refused"

\* Shutdown misses no job: once the jobs have been joined no goroutine of a job is
\* running or can still be started by a request that outlived the deadline
\* (TestRunJobRacingWithShutdownIsAlwaysOwned).
ShutdownOwnsJobs ==
    stage \in {"buffer", "closed"} => \A j \in Job : ~Registered(j)

\* A final status is final: only a rollback changes it, and the goroutine of the
\* job sets it once.
FinalStatusStands ==
    [][\A j \in Job :
          status[j] \in {"completed", "failed", "cancelled"} /\ status'[j] # status[j]
            => status'[j] = "rolled_back"]_vars

\* What a rollback does achieve: if the goroutine of the job had ended before the
\* status was read, no batch of the job was under way when the buffers were
\* flushed, recovery had sent every file of the job that an earlier process left,
\* no file was left behind (for this rollback or for an earlier one) and the
\* shutdown deadline has not cut the wait short, then none of its rows is in the
\* database or ever comes back, restarts included.
RollbackSticks ==
    \A c \in Call : rb[c] = "done" /\ settled[c] =>
        \A r \in RowsOf(target[c]) : place[r] \notin Alive

\* Rollback "deletes all events associated with an import job".
RolledBackIsEmpty ==
    \A c \in Call : rb[c] = "done" =>
        \A r \in RowsOf(target[c]) : place[r] \notin Alive

\* The server stops, whatever jobs and rollbacks are doing.
ShutdownEnds == up /\ stage = "draining" ~> stage = "closed" \/ ~up

\* A rollback is answered, even when the server stops meanwhile.
RollbackEnds == \A c \in Call : InHandler(c) ~> ~InHandler(c)
================================================================================
