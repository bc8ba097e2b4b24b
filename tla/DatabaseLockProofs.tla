-------------------------- MODULE DatabaseLockProofs --------------------------
(***************************************************************************)
(* Proofs about DatabaseLock, for any number of requests, background jobs  *)
(* and rollbacks and any capacity of the channel.                          *)
(***************************************************************************)
EXTENDS DatabaseLock, TLAPS

(* The read lock is held by whoever is in the database and takes it, the   *)
(* write lock by a running CHECKPOINT, and never both.                     *)
LockInv ==
    /\ TypeOK
    /\ \A c \in Client :
          c \in readers <=> c \notin Unguarded /\ pc[c] \notin {"outside", "arrived"}
    /\ Writer \in readers <=> wpc = "load"
    /\ excl = "held" <=> cpc = "checkpoint"
    /\ excl = "pending" => cpc = "lock"
    /\ excl = "held" => readers = {}

-------------------------------------------------------------------------------
(* Appending a job to the channel or taking one off keeps its type. *)
LEMMA QueueType ==
    ASSUME NEW j \in {File} \cup Rollback, flushCh \in Seq({File} \cup Rollback),
           Queue(j)
    PROVE  flushCh' \in Seq({File} \cup Rollback) /\ Len(flushCh') <= ChanCap
  BY LockAssumption DEF Queue

LEMMA LockInitInv == Init => LockInv
  BY LockAssumption DEF Init, LockInv, TypeOK, PCs, Client

(* A step of a request or background job, rollbacks included. *)
LEMMA ClientStepInv ==
    ASSUME LockInv, ClientStep
    PROVE  LockInv'
<1>0. Writer \notin Client /\ Rollback \subseteq Client
  BY LockAssumption DEF Client
<1>1. ASSUME NEW c \in Client, Arrive(c) PROVE LockInv'
  BY <1>0, <1>1 DEF Arrive, GoTo, LockInv, TypeOK, PCs
<1>2. ASSUME NEW c \in Client, Enter(c) PROVE LockInv'
  BY <1>0, <1>2 DEF Enter, GoTo, RLock, LockInv, TypeOK, PCs
<1>3. ASSUME NEW c \in Client, Leave(c) PROVE LockInv'
  BY <1>0, <1>3 DEF Leave, GoTo, RUnlock, LockInv, TypeOK, PCs
<1>4. ASSUME NEW c \in Rollback, RollbackFlush(c) PROVE LockInv'
  <2>1. flushCh' \in Seq({File} \cup Rollback) /\ Len(flushCh') <= ChanCap
    BY <1>4, QueueType DEF RollbackFlush, LockInv, TypeOK
  <2>. QED
    BY <1>0, <1>4, <2>1 DEF RollbackFlush, GoTo, LockInv, TypeOK, PCs
<1>5. ASSUME NEW c \in Rollback, RollbackBarrier(c) PROVE LockInv'
  <2>1. flushCh' \in Seq({File} \cup Rollback) /\ Len(flushCh') <= ChanCap
    BY <1>5, QueueType DEF RollbackBarrier, LockInv, TypeOK
  <2>. QED
    BY <1>0, <1>5, <2>1 DEF RollbackBarrier, GoTo, LockInv, TypeOK, PCs
<1>. QED
  BY <1>1, <1>2, <1>3, <1>4, <1>5 DEF ClientStep

LEMMA ProduceInv ==
    ASSUME LockInv, Produce
    PROVE  LockInv'
<1>1. flushCh' \in Seq({File} \cup Rollback) /\ Len(flushCh') <= ChanCap
  BY QueueType DEF Produce, LockInv, TypeOK
<1>. QED
  BY <1>1 DEF Produce, LockInv, TypeOK

(* A step of the writer.  A barrier's answer leaves its rollback inside. *)
LEMMA WriterStepInv ==
    ASSUME LockInv, WriterStep
    PROVE  LockInv'
<1>0. Writer \notin Client /\ Rollback \subseteq Client
  BY LockAssumption DEF Client
<1>1. ASSUME Receive PROVE LockInv'
  <2>1. /\ flushCh' \in Seq({File} \cup Rollback) /\ Len(flushCh') <= ChanCap
        /\ Head(flushCh) \in {File} \cup Rollback
    BY <1>1, LockAssumption DEF Receive, LockInv, TypeOK
  <2>2. CASE Head(flushCh) = File /\ wpc' = "lock" /\ UNCHANGED pc
    BY <1>1, <2>1, <2>2 DEF Receive, LockInv, TypeOK
  <2>3. CASE Head(flushCh) # File /\ GoTo(Head(flushCh), "wait", "delete") /\ UNCHANGED wpc
    BY <1>0, <1>1, <2>1, <2>3 DEF Receive, GoTo, LockInv, TypeOK, PCs
  <2>. QED
    BY <1>1, <2>2, <2>3 DEF Receive
<1>2. ASSUME WriterLocks PROVE LockInv'
  BY <1>0, <1>2 DEF WriterLocks, RLock, LockInv, TypeOK
<1>3. ASSUME LoadReturns PROVE LockInv'
  BY <1>0, <1>3 DEF LoadReturns, RUnlock, LockInv, TypeOK
<1>4. ASSUME BackoffElapses PROVE LockInv'
  BY <1>4 DEF BackoffElapses, LockInv, TypeOK
<1>. QED
  BY <1>1, <1>2, <1>3, <1>4 DEF WriterStep

LEMMA CompactorStepInv ==
    ASSUME LockInv, CompactorStep
    PROVE  LockInv'
<1>1. ASSUME CompactionDue PROVE LockInv'
  BY <1>1 DEF CompactionDue, LockInv, TypeOK
<1>2. ASSUME CompactionFlush PROVE LockInv'
  <2>1. flushCh' \in Seq({File} \cup Rollback) /\ Len(flushCh') <= ChanCap
    BY <1>2, QueueType DEF CompactionFlush, LockInv, TypeOK
  <2>. QED
    BY <1>2, <2>1 DEF CompactionFlush, LockInv, TypeOK
<1>3. ASSUME PauseWrites PROVE LockInv'
  BY <1>3 DEF PauseWrites, LockInv, TypeOK
<1>4. ASSUME Locked PROVE LockInv'
  BY <1>4 DEF Locked, LockInv, TypeOK
<1>5. ASSUME ResumeWrites PROVE LockInv'
  BY <1>5 DEF ResumeWrites, LockInv, TypeOK
<1>. QED
  BY <1>1, <1>2, <1>3, <1>4, <1>5 DEF CompactorStep

-------------------------------------------------------------------------------
LEMMA LockInductive == LockInv /\ [Next]_vars => LockInv'
<1>. SUFFICES ASSUME LockInv, [Next]_vars PROVE LockInv'
  OBVIOUS
<1>1. CASE Next
  BY <1>1, ClientStepInv, ProduceInv, WriterStepInv, CompactorStepInv DEF Next
<1>2. CASE UNCHANGED vars
  BY <1>2 DEF vars, LockInv, TypeOK
<1>. QED
  BY <1>1, <1>2

(* Every variable keeps to its type, and the channel to its capacity. *)
THEOREM LockTypes == Spec => []TypeOK
<1>1. LockInv => TypeOK
  BY DEF LockInv
<1>. QED
  BY LockInitInv, LockInductive, <1>1, PTL DEF Spec

(* While CHECKPOINT runs no load, and no request or background job that    *)
(* takes the read lock, is in the database, whoever else asks for the lock *)
(* or enters without it (dbReadLockMiddleware, writerLoop, RunCompaction). *)
THEOREM CheckpointKeepsHoldersOut == Spec => []HoldersStayOut
<1>1. LockInv => HoldersStayOut
  BY DEF LockInv, HoldersStayOut, TypeOK, PCs
<1>. QED
  BY LockInitInv, LockInductive, <1>1, PTL DEF Spec

-------------------------------------------------------------------------------
(* Each rollback that waits has its one barrier in the channel, and each   *)
(* barrier in the channel has a rollback that waits for it.                *)
Matched ==
    /\ \A c \in Rollback : pc[c] = "wait" => \E i \in 1..Len(flushCh) : flushCh[i] = c
    /\ \A i \in 1..Len(flushCh) : flushCh[i] # File => pc[flushCh[i]] = "wait"
    /\ \A i, k \in 1..Len(flushCh) :
          i # k /\ flushCh[i] = flushCh[k] => flushCh[i] = File

(* A file more in the channel disturbs nobody's barrier. *)
LEMMA FileQueued ==
    ASSUME TypeOK, Matched, Queue(File) \/ UNCHANGED flushCh,
           \A c \in Client : pc'[c] = "wait" <=> pc[c] = "wait"
    PROVE  Matched'
<1>0. Rollback \subseteq Client /\ File \notin Rollback
  BY LockAssumption DEF Client
<1>1. CASE UNCHANGED flushCh
  <2>1. \A i \in 1..Len(flushCh) : flushCh[i] \in {File} \cup Rollback
    BY DEF TypeOK
  <2>. QED
    BY <1>0, <1>1, <2>1 DEF Matched
<1>2. CASE Queue(File)
  <2>. DEFINE n == Len(flushCh)
  <2>1. /\ n \in Nat /\ Len(flushCh') = n + 1 /\ flushCh'[n + 1] = File
        /\ \A i \in 1..n : flushCh'[i] = flushCh[i] /\ flushCh[i] \in {File} \cup Rollback
    BY <1>2 DEF Queue, TypeOK
  <2>2. \A i \in 1..(n + 1) : i \in 1..n \/ i = n + 1
    BY <2>1
  <2>3. 1..n \subseteq 1..(n + 1)
    BY <2>1
  <2>. HIDE DEF n
  <2>4. Matched <=>
          /\ \A c \in Rollback : pc[c] = "wait" => \E i \in 1..n : flushCh[i] = c
          /\ \A i \in 1..n : flushCh[i] # File => pc[flushCh[i]] = "wait"
          /\ \A i, k \in 1..n : i # k /\ flushCh[i] = flushCh[k] => flushCh[i] = File
    BY DEF Matched, n
  <2>. QED
    BY <1>0, <2>1, <2>2, <2>3, <2>4 DEF Matched
<1>. QED
  BY <1>1, <1>2

(* A rollback queues its barrier and begins to wait in one step. *)
LEMMA BarrierQueued ==
    ASSUME TypeOK, Matched, NEW c \in Rollback, RollbackBarrier(c)
    PROVE  Matched'
<1>. DEFINE n == Len(flushCh)
<1>0. Rollback \subseteq Client /\ File \notin Rollback
  BY LockAssumption DEF Client
<1>1. /\ n \in Nat /\ Len(flushCh') = n + 1 /\ flushCh'[n + 1] = c
      /\ \A i \in 1..n : flushCh'[i] = flushCh[i] /\ flushCh[i] \in {File} \cup Rollback
  BY DEF RollbackBarrier, Queue, TypeOK
<1>2. /\ pc[c] = "barrier" /\ pc'[c] = "wait"
      /\ \A d \in Rollback : d # c => pc'[d] = pc[d]
  BY <1>0 DEF RollbackBarrier, GoTo, TypeOK
<1>3. \A i \in 1..(n + 1) : i \in 1..n \/ i = n + 1
  BY <1>1
<1>4. 1..n \subseteq 1..(n + 1) /\ n + 1 \in 1..(n + 1)
  BY <1>1
<1>. HIDE DEF n
<1>5. /\ \A d \in Rollback : pc[d] = "wait" => \E i \in 1..n : flushCh[i] = d
      /\ \A i \in 1..n : flushCh[i] # File => pc[flushCh[i]] = "wait"
      /\ \A i, k \in 1..n : i # k /\ flushCh[i] = flushCh[k] => flushCh[i] = File
  BY DEF Matched, n
<1>6. \A i \in 1..n : flushCh[i] # c
  BY <1>0, <1>2, <1>5
<1>7. \A d \in Rollback : pc'[d] = "wait" => \E i \in 1..(n + 1) : flushCh'[i] = d
  BY <1>1, <1>2, <1>4, <1>5
<1>8. \A i \in 1..(n + 1) : flushCh'[i] # File => pc'[flushCh'[i]] = "wait"
  BY <1>1, <1>2, <1>3, <1>5
<1>9. \A i, k \in 1..(n + 1) : i # k /\ flushCh'[i] = flushCh'[k] => flushCh'[i] = File
  BY <1>1, <1>3, <1>5, <1>6
<1>. QED
  BY <1>1, <1>7, <1>8, <1>9 DEF Matched

(* The writer takes a barrier off the channel as it answers it. *)
LEMMA JobReceived ==
    ASSUME TypeOK, Matched, Receive
    PROVE  Matched'
<1>. DEFINE n == Len(flushCh)
            h == Head(flushCh)
<1>0. Rollback \subseteq Client /\ File \notin Rollback
  BY LockAssumption DEF Client
<1>1. /\ n \in Nat \ {0} /\ Len(flushCh') = n - 1 /\ flushCh[1] = h
      /\ \A i \in 1..n : flushCh[i] \in {File} \cup Rollback
      /\ \A i \in 1..(n - 1) : flushCh'[i] = flushCh[i + 1]
  BY DEF Receive, TypeOK
<1>2. \A i \in 1..(n - 1) : i + 1 \in 1..n /\ i + 1 # 1
  BY <1>1
<1>3. \A i \in 1..n : i # 1 => i - 1 \in 1..(n - 1) /\ (i - 1) + 1 = i
  BY <1>1
<1>4. \A i, k \in 1..(n - 1) : i # k => i + 1 # k + 1
  BY <1>1
<1>5. 1 \in 1..n
  BY <1>1
<1>6. /\ h # File => h \in Rollback /\ pc'[h] = "delete"
      /\ \A d \in Rollback : d # h => pc'[d] = pc[d]
  BY <1>0, <1>1, <1>5 DEF Receive, GoTo, TypeOK
<1>. HIDE DEF n, h
<1>7. /\ \A d \in Rollback : pc[d] = "wait" => \E i \in 1..n : flushCh[i] = d
      /\ \A i \in 1..n : flushCh[i] # File => pc[flushCh[i]] = "wait"
      /\ \A i, k \in 1..n : i # k /\ flushCh[i] = flushCh[k] => flushCh[i] = File
  BY DEF Matched, n
<1>8. \A d \in Rollback : pc'[d] = "wait" => \E i \in 1..(n - 1) : flushCh'[i] = d
  <2>. SUFFICES ASSUME NEW d \in Rollback, pc'[d] = "wait"
               PROVE  \E i \in 1..(n - 1) : flushCh'[i] = d
    OBVIOUS
  <2>1. d # h
    BY <1>0, <1>6
  <2>2. PICK i \in 1..n : flushCh[i] = d
    BY <1>6, <1>7, <2>1
  <2>3. i # 1
    BY <1>1, <2>1, <2>2
  <2>4. i - 1 \in 1..(n - 1) /\ flushCh'[i - 1] = d
    BY <1>1, <1>3, <2>2, <2>3
  <2>. QED
    BY <2>4
<1>9. \A i \in 1..(n - 1) : flushCh'[i] # File => flushCh'[i] # h /\ pc'[flushCh'[i]] = "wait"
  BY <1>1, <1>2, <1>5, <1>6, <1>7
<1>10. \A i, k \in 1..(n - 1) : i # k /\ flushCh'[i] = flushCh'[k] => flushCh'[i] = File
  BY <1>1, <1>2, <1>4, <1>7
<1>. QED
  BY <1>1, <1>8, <1>9, <1>10 DEF Matched

(* No answer is lost and none is given to nobody: the barrier a rollback   *)
(* waits for is in the channel until the writer takes it off, once, and    *)
(* lets the rollback go on (FlushAndWait, writerLoop).                     *)
THEOREM BarriersMatched == Spec => []Matched
<1>1. Init => LockInv /\ Matched
  BY LockInitInv, LockAssumption DEF Init, Matched, Client
<1>2. LockInv /\ Matched /\ [Next]_vars => LockInv' /\ Matched'
  <2>. SUFFICES ASSUME LockInv, Matched, [Next]_vars PROVE Matched'
    BY LockInductive
  <2>0. TypeOK /\ Rollback \subseteq Client
    BY DEF LockInv, Client
  <2>1. ASSUME NEW c \in Client, Arrive(c) \/ Enter(c) \/ Leave(c) PROVE Matched'
    BY <2>0, <2>1, FileQueued DEF Arrive, Enter, Leave, GoTo, TypeOK
  <2>2. ASSUME NEW c \in Rollback, RollbackFlush(c) PROVE Matched'
    BY <2>0, <2>2, FileQueued DEF RollbackFlush, GoTo, TypeOK
  <2>3. ASSUME NEW c \in Rollback, RollbackBarrier(c) PROVE Matched'
    BY <2>0, <2>3, BarrierQueued
  <2>4. CASE Receive
    BY <2>0, <2>4, JobReceived
  <2>5. CASE \/ Produce \/ WriterLocks \/ LoadReturns \/ BackoffElapses \/ CompactorStep
             \/ UNCHANGED vars
    BY <2>0, <2>5, FileQueued
    DEF Produce, WriterLocks, LoadReturns, BackoffElapses, CompactorStep, CompactionDue,
        CompactionFlush, PauseWrites, Locked, ResumeWrites, vars
  <2>. QED
    BY <2>1, <2>2, <2>3, <2>4, <2>5 DEF Next, ClientStep, WriterStep
<1>. QED
  BY <1>1, <1>2, PTL DEF Spec
================================================================================
