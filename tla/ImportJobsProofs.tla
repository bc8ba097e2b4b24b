--------------------------- MODULE ImportJobsProofs ---------------------------
(***************************************************************************)
(* Proofs about ImportJobs, for any jobs, files, rollbacks and number of   *)
(* restarts: no job is missed by the shutdown, final statuses stand, and   *)
(* a rollback whose rows have settled is not undone.                       *)
(***************************************************************************)
EXTENDS ImportJobs, TLAPS

(* The jobs are joined after the manager has begun to refuse new ones, so  *)
(* none is left when the buffer closes, and no row can be refused.         *)
JoinInv ==
    /\ TypeOK
    /\ ~up => life < MaxLives
    /\ stage \in {"joining", "buffer", "closed"} => stopping
    /\ ShutdownOwnsJobs
    /\ ImportsAccepted

-------------------------------------------------------------------------------
LEMMA JoinInit == Init => JoinInv
<1>. SUFFICES ASSUME Init PROVE JoinInv
  OBVIOUS
<1>1. /\ life \in 1..MaxLives
      /\ up
  BY ImportAssumption DEF Init
<1>2. /\ request \in [Job -> {"none", "arrived", "created", "done"}]
      /\ status \in [Job -> Statuses] /\ task \in [Job -> Tasks]
      /\ ctxDone \in [Job -> BOOLEAN] /\ place \in [Row -> Places]
  BY DEF Init, Statuses, Tasks, Places
<1>3. /\ awaited \in [Call -> SUBSET Row] /\ settled \in [Call -> BOOLEAN]
      /\ target \in [Call -> Job \cup {NoJob}]
  BY DEF Init
<1>. QED
  BY <1>1, <1>2, <1>3
  DEF Init, JoinInv, TypeOK, Stages, ShutdownOwnsJobs, ImportsAccepted

(* Moving rows on from one place to another refuses none of them. *)
LEMMA ShiftKeeps ==
    ASSUME place \in [Row -> Places], ImportsAccepted,
           NEW S, NEW from, NEW to \in Places \ {"refused"}, Shift(S, from, to)
    PROVE  place' \in [Row -> Places] /\ ImportsAccepted'
  BY DEF Shift, ImportsAccepted

(* A step of a request: submitting, creating, registering, cancelling. *)
LEMMA RequestStepJoin ==
    ASSUME JoinInv, RequestStep
    PROVE  JoinInv'
<1>. USE DEF JoinInv, TypeOK, ShutdownOwnsJobs, ImportsAccepted, Registered,
             Statuses, Tasks, serverVars, callVars
<1>1. ASSUME NEW j \in Job, Submit(j) PROVE JoinInv'
  BY <1>1 DEF Submit
<1>2. ASSUME NEW j \in Job, Create(j) PROVE JoinInv'
  BY <1>2 DEF Create
<1>3. ASSUME NEW j \in Job, RunJob(j) PROVE JoinInv'
  BY <1>3 DEF RunJob, Update
<1>4. ASSUME NEW j \in Job, CancelJob(j) PROVE JoinInv'
  BY <1>4 DEF CancelJob
<1>. QED
  BY <1>1, <1>2, <1>3, <1>4 DEF RequestStep

(* A step of a job's goroutine.  It adds rows while it is registered, and  *)
(* then the buffer is open.                                                *)
LEMMA TaskStepJoin ==
    ASSUME JoinInv, TaskStep
    PROVE  JoinInv'
<1>. USE DEF JoinInv, TypeOK, ShutdownOwnsJobs, ImportsAccepted, Registered,
             Statuses, Tasks, serverVars, callVars
<1>1. ASSUME NEW j \in Job, Begin(j) PROVE JoinInv'
  BY <1>1 DEF Begin
<1>2. ASSUME NEW j \in Job, ParseStops(j) PROVE JoinInv'
  BY <1>2 DEF ParseStops, Update
<1>3. ASSUME NEW j \in Job, Complete(j) PROVE JoinInv'
  BY <1>3 DEF Complete, Update
<1>4. ASSUME NEW j \in Job, Unregister(j) PROVE JoinInv'
  BY <1>4 DEF Unregister
<1>5. ASSUME NEW r \in Row, AddEvent(r) PROVE JoinInv'
  <2>1. JobOf[r] \in Job
    BY ImportAssumption
  <2>2. stage \notin {"buffer", "closed"}
    BY <1>5, <2>1 DEF AddEvent
  <2>. QED
    BY <1>5, <2>2 DEF AddEvent, jobVars, Places
<1>. QED
  BY <1>1, <1>2, <1>3, <1>4, <1>5 DEF TaskStep

LEMMA BufferStepJoin ==
    ASSUME JoinInv, BufferStep
    PROVE  JoinInv'
<1>1. place' \in [Row -> Places] /\ ImportsAccepted'
  BY ShiftKeeps DEF BufferStep, SwapOut, Send, Recover, Load, JoinInv, TypeOK, Places
<1>2. UNCHANGED <<serverVars, jobVars, callVars>>
  BY DEF BufferStep, SwapOut, Send, Recover, Load
<1>. QED
  BY <1>1, <1>2 DEF JoinInv, TypeOK, ShutdownOwnsJobs, Registered, serverVars, jobVars,
                    callVars

(* A step of a rollback.  It moves rows, and touches no goroutine of a job. *)
LEMMA RollbackStepJoin ==
    ASSUME JoinInv, RollbackStep
    PROVE  JoinInv'
<1>. USE DEF JoinInv, TypeOK, ShutdownOwnsJobs, Registered, serverVars, jobVars
<1>1. ASSUME NEW c \in Call, NEW j \in Job, Ask(c, j) PROVE JoinInv'
  BY <1>1 DEF Ask, ImportsAccepted
<1>2. ASSUME NEW c \in Call, Rollback(c) PROVE JoinInv'
  BY <1>2 DEF Rollback, ImportsAccepted
<1>3. ASSUME NEW c \in Call, RollbackDenied(c) PROVE JoinInv'
  BY <1>3 DEF RollbackDenied, ImportsAccepted
<1>4. ASSUME NEW c \in Call, RollbackFlush(c) PROVE JoinInv'
  <2>1. place' \in [Row -> Places] /\ ImportsAccepted'
    BY <1>4, ShiftKeeps DEF RollbackFlush, Places
  <2>. QED
    BY <1>4, <2>1 DEF RollbackFlush
<1>5. ASSUME NEW c \in Call, RollbackRefused(c) PROVE JoinInv'
  BY <1>5 DEF RollbackRefused, ImportsAccepted
<1>6. ASSUME NEW c \in Call, RollbackWait(c) PROVE JoinInv'
  BY <1>6 DEF RollbackWait, ImportsAccepted
<1>7. ASSUME NEW c \in Call, RollbackDelete(c) PROVE JoinInv'
  <2>1. place' \in [Row -> Places] /\ ImportsAccepted'
    BY <1>7 DEF RollbackDelete, ImportsAccepted, Places
  <2>. QED
    BY <1>7, <2>1 DEF RollbackDelete
<1>8. ASSUME NEW c \in Call, RollbackMark(c) PROVE JoinInv'
  BY <1>8 DEF RollbackMark, ImportsAccepted, Statuses
<1>9. ASSUME NEW c \in Call, RollbackFails(c) PROVE JoinInv'
  BY <1>9 DEF RollbackFails, ImportsAccepted
<1>. QED
  BY <1>1, <1>2, <1>3, <1>4, <1>5, <1>6, <1>7, <1>8, <1>9 DEF RollbackStep

(* A step of the shutdown, which is where the order is made. *)
LEMMA ShutdownStepJoin ==
    ASSUME JoinInv, ShutdownStep
    PROVE  JoinInv'
<1>. USE DEF JoinInv, TypeOK, ShutdownOwnsJobs, ImportsAccepted, Registered, Stages,
             jobVars, callVars
<1>1. CASE Shutdown
  BY <1>1 DEF Shutdown
<1>2. CASE Expire
  BY <1>2 DEF Expire
<1>3. CASE Drained
  BY <1>3 DEF Drained
<1>4. CASE Joined
  BY <1>4 DEF Joined
<1>5. CASE BufferClosed
  BY <1>5 DEF BufferClosed
<1>6. CASE Closed
  BY <1>6 DEF Closed, vars, serverVars
<1>. QED
  BY <1>1, <1>2, <1>3, <1>4, <1>5, <1>6 DEF ShutdownStep

(* The end of the process takes its goroutines with it. *)
LEMMA RestartJoin ==
    ASSUME JoinInv, Stop \/ Start
    PROVE  JoinInv'
<1>1. CASE Stop
  <2>1. place' \in [Row -> Places] /\ ImportsAccepted'
    BY <1>1 DEF Stop, Survives, JoinInv, TypeOK, ImportsAccepted, Places
  <2>. QED
    BY <1>1, <2>1 DEF Stop, JoinInv, TypeOK, ShutdownOwnsJobs, Stages, Tasks
<1>2. CASE Start
  <2>1. place' \in [Row -> Places] /\ ImportsAccepted'
    BY <1>2, ShiftKeeps DEF Start, JoinInv, TypeOK, Places
  <2>. QED
    BY <1>2, <2>1, ImportAssumption
    DEF Start, JoinInv, TypeOK, ShutdownOwnsJobs, Registered, jobVars, callVars
<1>. QED
  BY <1>1, <1>2

-------------------------------------------------------------------------------
LEMMA JoinInductive == JoinInv /\ [Next]_vars => JoinInv'
<1>. SUFFICES ASSUME JoinInv, [Next]_vars PROVE JoinInv'
  OBVIOUS
<1>1. CASE Next
  BY <1>1, RequestStepJoin, TaskStepJoin, BufferStepJoin, RollbackStepJoin,
     ShutdownStepJoin, RestartJoin DEF Next
<1>2. CASE UNCHANGED vars
  BY <1>2 DEF vars, serverVars, jobVars, callVars, JoinInv, TypeOK, ShutdownOwnsJobs,
              ImportsAccepted, Registered
<1>. QED
  BY <1>1, <1>2

(* Whatever request outlives the deadline, no goroutine of an import runs  *)
(* once the jobs have been joined (RunJob, JobManager.Shutdown, runServe). *)
THEOREM JobsAreOwned == Spec => []ShutdownOwnsJobs
<1>1. JoinInv => ShutdownOwnsJobs
  BY DEF JoinInv
<1>. QED
  BY JoinInit, JoinInductive, <1>1, PTL DEF Spec

(* executeJob never counts a row that a closed buffer has dropped. *)
THEOREM NoImportDropped == Spec => []ImportsAccepted
<1>1. JoinInv => ImportsAccepted
  BY DEF JoinInv
<1>. QED
  BY JoinInit, JoinInductive, <1>1, PTL DEF Spec

-------------------------------------------------------------------------------
(* The goroutine of the job has ended, or will never be started. *)
Ended(j) == request[j] = "done" /\ task[j] \in {"none", "gone"}

(* The status is what the request and the goroutine have made of it, or a rollback has. *)
StatusInv ==
    /\ \A j \in Job :
          /\ request[j] \in {"none", "arrived"} => task[j] = "none" /\ status[j] = "absent"
          /\ request[j] = "created" =>
                task[j] = "none" /\ status[j] \in {"pending", "rolled_back"}
          /\ task[j] = "begin" => status[j] \in {"pending", "rolled_back"}
          /\ task[j] = "parse" => status[j] \in {"running", "rolled_back"}
    /\ \A c \in Call : InHandler(c) => target[c] \in Job /\ status[target[c]] # "absent"

\* Where a row has still to be sent to the writer.
Moving == {"buffered", "flying", "pending", "onDisk"}

Returning == Moving \cup {"queued", "stored", "left", "leftover"}

(* How far a rollback has come with the rows of its job. *)
Progress(c) ==
    /\ rb[c] \in {"flush", "wait", "delete", "mark", "done"} =>
          target[c] \in Job /\ Ended(target[c])
    /\ \A r \in RowsOf(target[c]) :
          /\ rb[c] = "wait" =>
                place[r] \notin Moving /\ (place[r] = "queued" => r \in awaited[c])
          /\ rb[c] = "delete" => place[r] \notin Moving \cup {"queued"}
          /\ rb[c] \in {"mark", "done"} => place[r] \notin Returning

SettledInv == \A c \in Call : settled[c] => Progress(c)

RollbackInv == JoinInv /\ StatusInv /\ SettledInv

(* Every step keeps that, and changes a final status to rolled_back only. *)
LEMMA StatusSteps ==
  ASSUME TypeOK, StatusInv, [Next]_vars
  PROVE  /\ StatusInv'
         /\ \A j \in Job :
               status[j] \in {"completed", "failed", "cancelled"} /\ status'[j] # status[j]
                  => status'[j] = "rolled_back"
<1>. DEFINE Stands == \A j \in Job :
               status[j] \in {"completed", "failed", "cancelled"} /\ status'[j] # status[j]
                  => status'[j] = "rolled_back"
<1>. USE DEF TypeOK, StatusInv, InHandler
<1>1. CASE RequestStep
  <2>1. ASSUME NEW j \in Job, Submit(j) PROVE StatusInv' /\ Stands
    BY <2>1 DEF Submit, callVars
  <2>2. ASSUME NEW j \in Job, Create(j) PROVE StatusInv' /\ Stands
    BY <2>2 DEF Create, callVars
  <2>3. ASSUME NEW j \in Job, RunJob(j) PROVE StatusInv' /\ Stands
    BY <2>3 DEF RunJob, Update, callVars
  <2>4. ASSUME NEW j \in Job, CancelJob(j) PROVE StatusInv' /\ Stands
    BY <2>4 DEF CancelJob, callVars
  <2>. QED BY <1>1, <2>1, <2>2, <2>3, <2>4 DEF RequestStep
<1>2. CASE TaskStep
  <2>1. ASSUME NEW j \in Job, Begin(j) PROVE StatusInv' /\ Stands
    BY <2>1 DEF Begin, callVars
  <2>2. ASSUME NEW j \in Job, ParseStops(j) PROVE StatusInv' /\ Stands
    BY <2>2 DEF ParseStops, Update, callVars
  <2>3. ASSUME NEW j \in Job, Complete(j) PROVE StatusInv' /\ Stands
    BY <2>3 DEF Complete, Update, callVars
  <2>4. ASSUME NEW j \in Job, Unregister(j) PROVE StatusInv' /\ Stands
    BY <2>4 DEF Unregister, callVars
  <2>5. ASSUME NEW r \in Row, AddEvent(r) PROVE StatusInv' /\ Stands
    BY <2>5 DEF AddEvent, jobVars, callVars
  <2>. QED BY <1>2, <2>1, <2>2, <2>3, <2>4, <2>5 DEF TaskStep
<1>3. CASE RollbackStep
  <2>1. ASSUME NEW c \in Call, NEW j \in Job, Ask(c, j) PROVE StatusInv' /\ Stands
    BY <2>1 DEF Ask, jobVars
  <2>2. ASSUME NEW c \in Call,
               \/ Rollback(c) \/ RollbackDenied(c) \/ RollbackFlush(c) \/ RollbackRefused(c)
               \/ RollbackWait(c) \/ RollbackDelete(c) \/ RollbackFails(c)
        PROVE  StatusInv' /\ Stands
    <3>1. /\ UNCHANGED <<jobVars, target>> /\ InHandler(c)
          /\ \A d \in Call : d # c => rb'[d] = rb[d]
      BY <2>2 DEF Rollback, RollbackDenied, RollbackFlush, RollbackRefused, RollbackWait,
         RollbackDelete, RollbackFails
    <3>. QED BY <3>1 DEF jobVars
  <2>3. ASSUME NEW c \in Call, RollbackMark(c) PROVE StatusInv' /\ Stands
    <3>1. /\ target[c] \in Job /\ status[target[c]] # "absent"
          /\ status' = [status EXCEPT ![target[c]] = "rolled_back"]
          /\ rb' = [rb EXCEPT ![c] = "done"]
          /\ UNCHANGED <<request, task, target>>
      BY <2>3 DEF RollbackMark
    <3>. QED BY <3>1
  <2>. QED BY <1>3, <2>1, <2>2, <2>3 DEF RollbackStep
<1>4. CASE Stop
  <2>1. /\ request' = [j \in Job |-> IF request[j] = "none" THEN "none" ELSE "done"]
        /\ task' = [j \in Job |-> IF Registered(j) THEN "gone" ELSE task[j]]
        /\ \A c \in Call : ~InHandler(c)'
        /\ UNCHANGED status
    BY <1>4 DEF Stop
  <2>2. \A j \in Job : request[j] = "none" => ~Registered(j)
    BY DEF Registered
  <2>3. \A j \in Job : task'[j] \notin {"begin", "parse"}
    BY <2>1 DEF Registered
  <2>4. \A j \in Job : request'[j] # "created" /\ request'[j] # "arrived" /\ (request'[j] = "none" => request[j] = "none")
    BY <2>1
  <2>. QED BY <2>1, <2>2, <2>3, <2>4
<1>5. CASE BufferStep \/ ShutdownStep \/ Start \/ UNCHANGED vars
  <2>1. UNCHANGED <<request, status, task, rb, target>>
    BY <1>5 DEF BufferStep, SwapOut, Send, Recover, Load, ShutdownStep, Shutdown, Expire, Drained,
       Joined, BufferClosed, Closed, Start, vars, jobVars, callVars
  <2>. QED BY <2>1
<1>. QED BY <1>1, <1>2, <1>3, <1>4, <1>5 DEF Next

(* A job that has ended stays ended, so none of its rows enters the buffer again. *)
LEMMA EndedStays ==
  ASSUME TypeOK, [Next]_vars, NEW j \in Job, Ended(j)
  PROVE  Ended(j)'
<1>. USE DEF TypeOK, Ended
<1>1. CASE RequestStep
  BY <1>1 DEF RequestStep, Submit, Create, RunJob, CancelJob
<1>2. CASE TaskStep
  BY <1>2 DEF TaskStep, Begin, ParseStops, Complete, Unregister, AddEvent, jobVars
<1>3. CASE RollbackStep
  BY <1>3 DEF RollbackStep, Ask, Rollback, RollbackDenied, RollbackFlush, RollbackRefused,
     RollbackWait, RollbackDelete, RollbackMark, RollbackFails, jobVars
<1>4. CASE Stop
  BY <1>4 DEF Stop, Registered
<1>5. CASE BufferStep \/ ShutdownStep \/ Start \/ UNCHANGED vars
  BY <1>5 DEF BufferStep, SwapOut, Send, Recover, Load, ShutdownStep, Shutdown, Expire, Drained,
     Joined, BufferClosed, Closed, Start, vars, jobVars
<1>. QED BY <1>1, <1>2, <1>3, <1>4, <1>5 DEF Next

(* A row of a job that has ended only moves on; what has left every place  *)
(* it could return from stays away.                                        *)
LEMMA RowMoves ==
  ASSUME TypeOK, [Next]_vars, NEW r \in Row, Ended(JobOf[r])
  PROVE  /\ ~Stop /\ place[r] \notin Moving =>
               place'[r] \notin Moving /\ (place'[r] = "queued" => place[r] = "queued")
         /\ place[r] \notin Returning => place'[r] \notin Returning
<1>. USE DEF TypeOK, Moving, Returning
<1>1. CASE place'[r] = place[r]
  BY <1>1
<1>2. CASE TaskStep
  <2>1. ASSUME NEW x \in Row, AddEvent(x) PROVE x # r
    BY <2>1 DEF AddEvent, Ended
  <2>2. place'[r] = place[r]
    BY <1>2, <2>1 DEF TaskStep, Begin, ParseStops, Complete, Unregister, AddEvent
  <2>. QED BY <2>2
<1>3. CASE BufferStep
  BY <1>3 DEF BufferStep, SwapOut, Send, Recover, Load, Shift
<1>4. ASSUME NEW c \in Call, RollbackFlush(c)
      PROVE  place[r] = "buffered" \/ place'[r] = place[r]
  BY <1>4 DEF RollbackFlush, Shift
<1>5. ASSUME NEW c \in Call, RollbackDelete(c)
      PROVE  \/ place[r] = "stored" /\ place'[r] = "deleted"
             \/ place[r] = "left" /\ place'[r] = "leftover"
             \/ place'[r] = place[r]
  BY <1>5 DEF RollbackDelete
<1>6. CASE Stop
  BY <1>6 DEF Stop, Survives
<1>9. CASE Start
  BY <1>9 DEF Start, Shift
<1>7. ASSUME ~TaskStep, ~BufferStep, ~Stop, ~Start,
             \A c \in Call : ~RollbackFlush(c) /\ ~RollbackDelete(c)
      PROVE  place'[r] = place[r]
  BY <1>7 DEF Next, RequestStep, Submit, Create, RunJob, CancelJob, RollbackStep, Ask, Rollback,
     RollbackDenied, RollbackRefused, RollbackWait, RollbackMark, RollbackFails, ShutdownStep,
     Shutdown, Expire, Drained, Joined, BufferClosed, Closed, vars
<1>8. ASSUME NEW c \in Call, RollbackFlush(c), place[r] = "buffered" PROVE place'[r] \in {"queued", "lost"}
  BY <1>8 DEF RollbackFlush, Shift
<1>. QED BY <1>1, <1>2, <1>3, <1>4, <1>5, <1>6, <1>7, <1>8, <1>9

(* What others do in the meantime takes nothing back from a rollback. *)
LEMMA ProgressKept ==
  ASSUME TypeOK, [Next]_vars, NEW c \in Call, Progress(c),
         rb'[c] = rb[c], target'[c] = target[c], awaited'[c] = awaited[c]
  PROVE  Progress(c)'
<1>1. Stop => rb[c] \notin {"wait", "delete"}
  BY DEF Stop, InHandler, TypeOK
<1>2. ASSUME rb[c] \in {"flush", "wait", "delete", "mark", "done"}
      PROVE  target[c] \in Job /\ Ended(target[c]) /\ Ended(target[c])'
  BY <1>2, EndedStays DEF Progress, Ended
<1>3. ASSUME NEW r \in RowsOf(target[c]), rb[c] \in {"wait", "delete", "mark", "done"}
      PROVE  /\ rb[c] = "wait" =>
                   place'[r] \notin Moving /\ (place'[r] = "queued" => r \in awaited[c])
             /\ rb[c] = "delete" => place'[r] \notin Moving \cup {"queued"}
             /\ rb[c] \in {"mark", "done"} => place'[r] \notin Returning
  <2>1. r \in Row /\ Ended(JobOf[r])
    BY <1>2, <1>3 DEF RowsOf
  <2>2. /\ ~Stop /\ place[r] \notin Moving =>
              place'[r] \notin Moving /\ (place'[r] = "queued" => place[r] = "queued")
        /\ place[r] \notin Returning => place'[r] \notin Returning
    BY <2>1, RowMoves
  <2>. QED BY <1>1, <1>3, <2>2 DEF Progress
<1>4. RowsOf(target'[c]) = RowsOf(target[c])
  BY DEF RowsOf
<1>. QED BY <1>2, <1>3, <1>4 DEF Progress, Ended, RowsOf

(* A rollback's own steps take it from one stage to the next. *)
LEMMA SettledStep ==
  ASSUME TypeOK, StatusInv, SettledInv, [Next]_vars
  PROVE  SettledInv'
<1>. SUFFICES ASSUME NEW c \in Call, settled'[c] PROVE Progress(c)'
  BY DEF SettledInv
<1>. DEFINE Same == /\ rb'[c] = rb[c] /\ target'[c] = target[c] /\ awaited'[c] = awaited[c]
                   /\ settled'[c] = settled[c]
<1>1. CASE Same
  BY <1>1, ProgressKept DEF SettledInv
<1>2. CASE Stop
  <2>1. CASE InHandler(c)
    BY <1>2, <2>1 DEF Stop, Progress
  <2>2. CASE ~InHandler(c)
    BY <1>1, <1>2, <2>2 DEF Stop
  <2>. QED BY <2>1, <2>2
<1>3. ASSUME ~RollbackStep, ~Stop PROVE Same
  BY <1>3 DEF Next, RequestStep, Submit, Create, RunJob, CancelJob, TaskStep, Begin, ParseStops,
     Complete, Unregister, AddEvent, BufferStep, SwapOut, Send, Recover, Load, ShutdownStep,
     Shutdown, Expire, Drained, Joined, BufferClosed, Closed, Start, vars, callVars
<1>4. ASSUME NEW d \in Call, d # c,
             \/ \E j \in Job : Ask(d, j)
             \/ Rollback(d) \/ RollbackDenied(d) \/ RollbackFlush(d) \/ RollbackRefused(d)
             \/ RollbackWait(d) \/ RollbackDelete(d) \/ RollbackMark(d) \/ RollbackFails(d)
      PROVE  Same
  BY ZenonT(60), <1>4 DEF TypeOK, Ask, Rollback, RollbackDenied, RollbackFlush, RollbackRefused, RollbackWait,
     RollbackDelete, RollbackMark, RollbackFails
<1>5. ASSUME \/ \E j \in Job : Ask(c, j)
             \/ RollbackDenied(c) \/ RollbackRefused(c) \/ RollbackFails(c)
      PROVE  Progress(c)'
  <2>1. rb'[c] \in {"arrived", "failed"}
    BY <1>5 DEF TypeOK, Ask, RollbackDenied, RollbackRefused, RollbackFails
  <2>. QED BY <2>1 DEF Progress
<1>6. CASE Rollback(c)
  <2>1. /\ rb'[c] = "flush" /\ UNCHANGED <<jobVars, target>>
        /\ ~Registered(target[c]) /\ request[target[c]] # "created"
    BY <1>6 DEF TypeOK, Rollback
  <2>2. target[c] \in Job /\ status[target[c]] # "absent"
    BY <1>6 DEF StatusInv, InHandler, Rollback
  <2>3. Ended(target[c])
    BY <2>1, <2>2 DEF Ended, Registered, StatusInv, TypeOK, Tasks
  <2>. QED BY <2>1, <2>2, <2>3 DEF Progress, Ended, jobVars
<1>7. CASE RollbackFlush(c)
  <2>1. PICK to \in {"queued", "lost"} : Shift(Row, "buffered", to)
    BY <1>7 DEF RollbackFlush
  <2>2. /\ rb[c] = "flush" /\ rb'[c] = "wait" /\ settled[c]
        /\ awaited'[c] = {r \in Row : place'[r] = "queued"}
        /\ \A r \in RowsOf(target[c]) : place[r] \notin {"flying", "pending", "onDisk"}
        /\ UNCHANGED <<jobVars, target>>
    BY <1>7 DEF RollbackFlush, TypeOK
  <2>3. target[c] \in Job /\ Ended(target[c])
    BY <2>2 DEF SettledInv, Progress
  <2>4. \A r \in RowsOf(target[c]) : place'[r] \notin Moving
    BY <2>1, <2>2 DEF Shift, RowsOf, Moving, TypeOK
  <2>. QED BY <2>2, <2>3, <2>4 DEF Progress, Ended, jobVars, RowsOf
<1>8. CASE RollbackWait(c)
  <2>1. /\ rb[c] = "wait" /\ rb'[c] = "delete" /\ settled[c]
        /\ \A r \in awaited[c] : place[r] # "queued"
        /\ UNCHANGED <<jobVars, place, target>>
    BY <1>8 DEF RollbackWait, TypeOK
  <2>2. target[c] \in Job /\ Ended(target[c])
    BY <2>1 DEF SettledInv, Progress
  <2>3. \A r \in RowsOf(target[c]) : place[r] \notin Moving \cup {"queued"}
    BY <2>1 DEF SettledInv, Progress
  <2>. QED BY <2>1, <2>2, <2>3 DEF Progress, Ended, jobVars, RowsOf
<1>9. CASE RollbackDelete(c)
  <2>1. /\ rb[c] = "delete" /\ rb'[c] = "mark" /\ settled[c]
        /\ \A r \in RowsOf(target[c]) : place[r] \notin {"left", "leftover"}
        /\ UNCHANGED <<jobVars, target>>
    BY <1>9 DEF RollbackDelete, TypeOK
  <2>2. target[c] \in Job /\ Ended(target[c])
    BY <2>1 DEF SettledInv, Progress
  <2>3. \A r \in RowsOf(target[c]) : place[r] \notin Moving \cup {"queued"}
    BY <2>1 DEF SettledInv, Progress
  <2>4. \A r \in RowsOf(target[c]) : place'[r] \notin Returning
    BY <1>9, <2>1, <2>3 DEF RollbackDelete, RowsOf, Moving, Returning, TypeOK
  <2>. QED BY <2>1, <2>2, <2>4 DEF Progress, Ended, jobVars, RowsOf
<1>10. CASE RollbackMark(c)
  <2>1. /\ rb[c] = "mark" /\ rb'[c] = "done" /\ settled[c]
        /\ UNCHANGED <<request, task, place, target>>
    BY <1>10 DEF RollbackMark, TypeOK
  <2>. QED BY <2>1 DEF SettledInv, Progress, Ended, RowsOf
<1>. QED BY <1>1, <1>2, <1>3, <1>4, <1>5, <1>6, <1>7, <1>8, <1>9, <1>10 DEF RollbackStep

LEMMA RollbackInit == Init => RollbackInv
<1>. SUFFICES ASSUME Init PROVE StatusInv /\ SettledInv
  BY JoinInit DEF RollbackInv
<1>1. StatusInv
  BY DEF Init, StatusInv, InHandler
<1>2. SettledInv
  BY DEF Init, SettledInv
<1>. QED BY <1>1, <1>2

LEMMA RollbackInductive == RollbackInv /\ [Next]_vars => RollbackInv'
  BY JoinInductive, StatusSteps, SettledStep DEF RollbackInv, JoinInv

(* Every variable keeps to its type, in every instance. *)
THEOREM ImportTypes == Spec => []TypeOK
<1>1. JoinInv => TypeOK
  BY DEF JoinInv
<1>. QED
  BY JoinInit, JoinInductive, <1>1, PTL DEF Spec

(* A job that has completed, failed or been cancelled stays so until it is *)
(* rolled back: its goroutine says so once, and no request is left that    *)
(* would say something else (RunJob, executeJob, MigrateRollback).         *)
THEOREM StatusesStand == Spec => FinalStatusStands
<1>1. RollbackInv /\ [Next]_vars =>
        [\A j \in Job :
          status[j] \in {"completed", "failed", "cancelled"} /\ status'[j] # status[j]
            => status'[j] = "rolled_back"]_vars
  BY StatusSteps DEF RollbackInv, JoinInv
<1>. QED
  BY RollbackInit, RollbackInductive, <1>1, PTL DEF Spec, FinalStatusStands

(* A rollback whose rows had all settled when it deleted them is not       *)
(* undone: not by a job that starts late, by the buffer, by another        *)
(* rollback or by a restart (MigrateRollback, FlushAndWait, RunJob).       *)
THEOREM RollbacksStick == Spec => []RollbackSticks
<1>1. RollbackInv => RollbackSticks
  BY DEF RollbackInv, SettledInv, Progress, RollbackSticks, Returning, Moving, Alive
<1>. QED
  BY RollbackInit, RollbackInductive, <1>1, PTL DEF Spec
================================================================================
