------------------------- MODULE BufferPipelineProofs -------------------------
(***************************************************************************)
(* Proofs about BufferPipeline, for every set of rows and tables, every    *)
(* threshold, channel capacity and number of retries and restarts.         *)
(***************************************************************************)
EXTENDS BufferPipeline, FiniteSetTheorems, TLAPS

(* What the types rest on: where a flusher stands, and what a stopped process
   looks like. *)
Shape ==
    /\ \A f \in Flusher : stage[f] # "none" => pos[f] \in 1..Len(Order)
    /\ \A f \in Flusher : stage[f] # "parked"
    /\ ~up => life < MaxLives /\ closer = "open"

(* The stages of Close, and what each of its waits has established. *)
Shutdown ==
    /\ ~ticking => pos[Ticker] = 0
    /\ \A c \in Call : pos[c] # 0 => call[c] \in {"flush", "drain"}
    /\ closer # "flush" => pos[Closer] = 0
    /\ closer \notin {"open", "ticker"} => ~ticking
    /\ closer \notin {"open", "ticker", "ops"} => OperationsDone
    /\ closer = "flush" =>
          /\ pos[Closer] # 0
          /\ \A i \in 1..Len(Order) :
                i < pos[Closer] \/ (i = pos[Closer] /\ stage[Closer] # "none")
                  => InTable(Order[i]) = {}
    /\ closer \in {"producers", "writer", "closed"} => mem = {}
    /\ closer \in {"writer", "closed"} => ProducersDone
    /\ sealed <=> closer \in {"writer", "closed"}

IInv == TypeOK /\ Shape /\ Shutdown

-------------------------------------------------------------------------------
LEMMA OrderFacts ==
    /\ Len(Order) \in Nat
    /\ \A i \in 1..Len(Order) : Order[i] \in Table
    /\ \A r \in Row : \E i \in 1..Len(Order) : TableOf[r] = Order[i]
<1>1. Len(Order) \in Nat
    BY ConstantsAssumption
<1>2. \A i \in 1..Len(Order) : Order[i] \in Table
    BY DEF Table
<1>3. \A r \in Row : \E i \in 1..Len(Order) : TableOf[r] = Order[i]
    BY ConstantsAssumption DEF Table
<1> QED BY <1>1, <1>2, <1>3

LEMMA InitInv == Init => IInv
<1> SUFFICES ASSUME Init PROVE IInv
    OBVIOUS
<1> USE OrderFacts, ConstantsAssumption
<1>1. TypeOK
  <2>1. flushCh \in Seq(Job)
    BY DEF Init
  <2>2. life \in 1..MaxLives /\ attempt \in 0..MaxRetries
    BY DEF Init
  <2>3. pos \in [Flusher -> 0..(Len(Order) + 1)]
    BY DEF Init
  <2>4. adder \in [Row -> AdderStates] /\ call \in [Call -> CallStates]
    BY DEF Init, AdderStates, CallStates
  <2>5. held \in [Producer -> SUBSET Row] /\ stage \in [Producer -> Stages]
    BY DEF Init, Stages
  <2>6. wpc \in WriterPCs /\ closer \in CloserPCs
    BY DEF Init, WriterPCs, CloserPCs
  <2> QED
    BY <2>1, <2>2, <2>3, <2>4, <2>5, <2>6 DEF Init, TypeOK
<1>2. Shape
    BY DEF Init, Shape, Flusher, Producer
<1>3. Shutdown
    BY DEF Init, Shutdown, Flusher
<1> QED BY <1>1, <1>2, <1>3 DEF IInv

-------------------------------------------------------------------------------
LEMMA BeginType ==
  ASSUME TypeOK, NEW c \in Call, NEW kind \in {"flush", "drain"}, Begin(c, kind)
  PROVE  TypeOK'
<1> USE OrderFacts, ConstantsAssumption
<1>1. call' \in [Call -> CallStates]
  BY DEF Begin, TypeOK, CallStates
<1>2. before' \in [Call -> SUBSET Row]
  BY DEF Begin, TypeOK, Added
<1>3. covered' \in [Call -> SUBSET Row]
  <2>1. \A i \in 1..Len(flushCh) : flushCh[i].file \in SUBSET Row
    <3>1. \A i \in 1..Len(flushCh) : flushCh[i] \in Job
      BY DEF TypeOK
    <3> QED BY <3>1 DEF Job
  <2>2. Queued \in SUBSET Row
    BY SMTT(30), <2>1 DEF Queued, TypeOK
  <2> QED BY <2>2 DEF Begin, TypeOK
<1>4. pos' \in [Flusher -> 0..(Len(Order) + 1)]
  BY SMTT(30) DEF Begin, TypeOK, Flusher
<1> QED
  BY <1>1, <1>2, <1>3, <1>4
  DEF Begin, TypeOK, procVars, bufVars, chanVars, writeVars, ctrlVars, diskVars

LEMMA TypeStep ==
  ASSUME TypeOK, Shape, [Next]_vars
  PROVE  TypeOK'
<1> USE OrderFacts, ConstantsAssumption
<1> USE DEF TypeOK, Shape, AdderStates, Stages, CallStates, WriterPCs, CloserPCs, Flusher, Producer, accepting,
            procVars, bufVars, prodVars, callVars, chanVars, writeVars,
            ctrlVars, diskVars
<1>1. CASE Start
  BY <1>1 DEF Start, findPendingParquet
<1>2. CASE Stop
  <2>1. adder' \in [Row -> AdderStates] /\ call' \in [Call -> CallStates]
    BY <1>2 DEF Stop, AdderStates, CallStates
  <2>2. held' \in [Producer -> SUBSET Row] /\ stage' \in [Producer -> Stages]
    BY <1>2 DEF Stop, Stages
  <2>3. dropped' \in SUBSET Row
    BY <1>2 DEF Stop, Volatile
  <2>4. flushCh' \in Seq(Job) /\ attempt' \in 0..MaxRetries
    BY <1>2 DEF Stop
  <2>5. pos' \in [Flusher -> 0..(Len(Order) + 1)]
    BY <1>2 DEF Stop
  <2> QED
    BY <1>2, <2>1, <2>2, <2>3, <2>4, <2>5 DEF Stop, WriterPCs, CloserPCs
<1>3. ASSUME NEW r \in Row, Admit(r) PROVE TypeOK'
  BY <1>3 DEF Admit
<1>4. ASSUME NEW r \in Row, Refuse(r) PROVE TypeOK'
  BY <1>4 DEF Refuse
<1>5. ASSUME NEW r \in Row, Add(r) PROVE TypeOK'
  <2> DEFINE batch == InTable(TableOf[r]) \cup {r}
  <2>1. batch \in SUBSET Row
    BY DEF InTable
  <2>2. adder' \in [Row -> AdderStates]
    BY <1>5 DEF Add, AdderStates
  <2>3. mem' \in SUBSET Row /\ aged' \in SUBSET Table
    BY <1>5, <2>1 DEF Add
  <2>4. held' \in [Producer -> SUBSET Row] /\ stage' \in [Producer -> Stages]
    <3>1. r \in Producer
      BY DEF Producer
    <3>2. \/ UNCHANGED <<held, stage>>
          \/ /\ held' = [held EXCEPT ![r] = batch]
             /\ stage' = [stage EXCEPT ![r] = "parked"]
      BY <1>5 DEF Add
    <3> HIDE DEF batch
    <3>3. CASE UNCHANGED <<held, stage>>
      BY <3>3
    <3>4. CASE /\ held' = [held EXCEPT ![r] = batch]
               /\ stage' = [stage EXCEPT ![r] = "parked"]
      <4>1. held' \in [Producer -> SUBSET Row]
        BY <2>1, <3>1, <3>4
      <4>2. stage' \in [Producer -> Stages]
        BY <3>1, <3>4 DEF Stages
      <4> QED BY <4>1, <4>2
    <3> QED BY <3>2, <3>3, <3>4
  <2> QED
    BY <1>5, <2>2, <2>3, <2>4 DEF Add
<1>6. ASSUME NEW r \in Row, Spawn(r) PROVE TypeOK'
  BY <1>6 DEF Spawn
<1>7. ASSUME NEW p \in Producer, CreateFile(p) PROVE TypeOK'
  BY <1>7 DEF CreateFile
<1>8. ASSUME NEW p \in Producer, WriteFails(p) PROVE TypeOK'
  BY SMTT(30), <1>8 DEF WriteFails, Release
<1>9. ASSUME NEW p \in Producer, PublishFile(p) PROVE TypeOK'
  BY <1>9 DEF PublishFile
<1>10. ASSUME NEW p \in Producer, Send(p) PROVE TypeOK'
  BY SMTT(30), <1>10 DEF Send, Release, FileJob, Job
<1>11. ASSUME NEW f \in Flusher, ForceFlush(f) PROVE TypeOK'
  <2>1. pos[f] \in 1..Len(Order) /\ f \in Producer
    BY <1>11 DEF ForceFlush, Visiting, Producer
  <2>2. CASE SwapOut(f)
    <3>1. InTable(Order[pos[f]]) \in SUBSET Row
      BY DEF InTable
    <3>2. /\ held' \in [Producer -> SUBSET Row] /\ stage' \in [Producer -> Stages]
          /\ mem' \in SUBSET Row /\ aged' \in SUBSET Table /\ pos' = pos
      BY <2>1, <2>2, <3>1 DEF SwapOut, Stages
    <3>3. covered' \in [Call -> SUBSET Row]
      BY <1>11 DEF ForceFlush
    <3> QED BY <1>11, <3>2, <3>3 DEF ForceFlush
  <2>3. CASE PassOver(f)
    <3>1. pos' \in [Flusher -> 0..(Len(Order) + 1)]
      BY <2>1, <2>3 DEF PassOver
    <3>2. covered' \in [Call -> SUBSET Row]
      BY <1>11 DEF ForceFlush
    <3> QED BY <1>11, <2>3, <3>1, <3>2 DEF ForceFlush, PassOver
  <2> QED BY <1>11, <2>2, <2>3 DEF ForceFlush
<1>12. CASE Tick
  BY <1>12 DEF Tick
<1>13. CASE TickTable
  BY <1>13 DEF TickTable, SwapOut, PassOver, Visiting, InTable
<1>14. CASE TickDone
  BY <1>14 DEF TickDone, Scanned
<1>15. CASE TickerExit
  BY ZenonT(30), <1>15 DEF TickerExit
<1>16. ASSUME NEW t \in Table, Age(t) PROVE TypeOK'
  BY <1>16 DEF Age
<1>17. ASSUME NEW c \in Call, Flush(c) PROVE TypeOK'
  BY <1>17, BeginType DEF Flush
<1>18. ASSUME NEW c \in Call, FlushAndWait(c) PROVE TypeOK'
  BY <1>18, BeginType DEF FlushAndWait
<1>19. ASSUME NEW c \in Call, BeginFails(c) PROVE TypeOK'
  BY <1>19 DEF BeginFails
<1>20. ASSUME NEW c \in Call, FlushedAll(c) PROVE TypeOK'
  BY <1>20 DEF FlushedAll, Scanned
<1>21. ASSUME NEW c \in Call, SendBarrier(c) PROVE TypeOK'
  BY <1>21 DEF SendBarrier, Barrier, Job
<1>22. ASSUME NEW c \in Call, Abandon(c) PROVE TypeOK'
  BY <1>22 DEF Abandon
<1>23. CASE Receive
  <2> DEFINE j == Head(flushCh)
  <2>1. j \in Job /\ flushCh' \in Seq(Job)
    BY <1>23 DEF Receive
  <2>2. j.file \in SUBSET Row /\ j.done \in Call \cup {NoCall}
    BY <2>1 DEF Job
  <2>3. CASE j.done # NoCall
    <3>1. /\ call' = [call EXCEPT ![j.done] = IF @ = "wait" THEN "returned" ELSE @]
          /\ UNCHANGED <<wpc, job, attempt>>
      BY <1>23, <2>3 DEF Receive
    <3>2. call' \in [Call -> CallStates]
      BY <2>2, <2>3, <3>1 DEF CallStates
    <3> QED BY <1>23, <2>1, <3>1, <3>2 DEF Receive
  <2>4. CASE j.done = NoCall
    <3>1. call' = call /\ (UNCHANGED <<wpc, job, attempt>>
                             \/ (wpc' = "load" /\ job' = j.file /\ attempt' = 0))
      BY <1>23, <2>4 DEF Receive
    <3> QED BY <1>23, <2>1, <2>2, <3>1 DEF Receive, WriterPCs
  <2> QED BY <2>3, <2>4
<1>24. CASE WriterExit
  BY <1>24 DEF WriterExit
<1>25. CASE LoadSucceeds
  BY <1>25 DEF LoadSucceeds, loadParquet
<1>26. CASE LoadFails
  BY <1>26 DEF LoadFails
<1>27. CASE BackoffElapses
  BY <1>27 DEF BackoffElapses
<1>29. CASE GiveUp
  <2>1. disk' \in SUBSET SUBSET Row /\ failed' \in SUBSET SUBSET Row
    BY ZenonT(30), <1>29 DEF GiveUp
  <2>2. wpc' \in WriterPCs /\ job' \in SUBSET Row /\ attempt' \in 0..MaxRetries
    BY <1>29 DEF GiveUp, WriterPCs
  <2> QED BY <1>29, <2>1, <2>2 DEF GiveUp
<1>30. CASE RemoveFile
  BY <1>30 DEF RemoveFile
<1>31. ASSUME NEW f \in pending, QueuePending(f) PROVE TypeOK'
  BY <1>31 DEF QueuePending, FileJob, Job
<1>32. CASE StopQueueing
  BY <1>32 DEF StopQueueing
<1>33. CASE Close
  BY <1>33 DEF Close
<1>34. CASE Deadline
  BY <1>34 DEF Deadline
<1>35. CASE AwaitTicker
  BY <1>35 DEF AwaitTicker
<1>36. CASE AwaitOperations
  BY <1>36 DEF AwaitOperations
<1>37. CASE CloserFlushed
  BY <1>37 DEF CloserFlushed, Scanned
<1>38. CASE AwaitProducers
  BY <1>38 DEF AwaitProducers
<1>39. CASE AwaitWriter
  BY <1>39 DEF AwaitWriter
<1>40. CASE Closed
  BY <1>40 DEF Closed, vars
<1>41. CASE UNCHANGED vars
  BY <1>41 DEF vars
<1> QED
  BY <1>1, <1>2, <1>3, <1>4, <1>5, <1>6, <1>7, <1>8, <1>9, <1>10, <1>11,
     <1>12, <1>13, <1>14, <1>15, <1>16, <1>17, <1>18, <1>19, <1>20, <1>21,
     <1>22, <1>23, <1>24, <1>25, <1>26, <1>27, <1>29, <1>30, <1>31,
     <1>32, <1>33, <1>34, <1>35, <1>36, <1>37, <1>38, <1>39, <1>40, <1>41
  DEF Next, AddStep, ProduceStep, TickerStep, CallStep, WriterStep,
      RecoveryStep, CloseStep

LEMMA ShapeStep ==
  ASSUME TypeOK, Shape, [Next]_vars
  PROVE  Shape'
<1> USE OrderFacts, ConstantsAssumption
<1> USE DEF TypeOK, Shape, Flusher, Producer, accepting,
            procVars, bufVars, prodVars, callVars, chanVars, writeVars,
            ctrlVars, diskVars
<1>1. CASE Start
  BY <1>1 DEF Start, findPendingParquet
<1>2. CASE Stop
  BY <1>2 DEF Stop, Volatile
<1>3. ASSUME NEW r \in Row, Admit(r) PROVE Shape'
  BY <1>3 DEF Admit
<1>4. ASSUME NEW r \in Row, Refuse(r) PROVE Shape'
  BY <1>4 DEF Refuse
<1>5. ASSUME NEW r \in Row, Add(r) PROVE Shape'
  BY <1>5 DEF Add, InTable
<1>6. ASSUME NEW r \in Row, Spawn(r) PROVE Shape'
  BY <1>6 DEF Spawn
<1>7. ASSUME NEW p \in Producer, CreateFile(p) PROVE Shape'
  BY <1>7 DEF CreateFile
<1>8. ASSUME NEW p \in Producer, WriteFails(p) PROVE Shape'
  BY <1>8 DEF WriteFails, Release
<1>9. ASSUME NEW p \in Producer, PublishFile(p) PROVE Shape'
  BY <1>9 DEF PublishFile
<1>10. ASSUME NEW p \in Producer, Send(p) PROVE Shape'
  BY <1>10 DEF Send, Release, FileJob, Job
<1>11. ASSUME NEW f \in Flusher, ForceFlush(f) PROVE Shape'
  <2>1. pos[f] \in 1..Len(Order) /\ f \in Producer
    BY <1>11 DEF ForceFlush, Visiting, Producer
  <2>2. CASE SwapOut(f)
    BY <1>11, <2>1, <2>2 DEF ForceFlush, SwapOut
  <2>3. CASE PassOver(f)
    BY <1>11, <2>1, <2>3 DEF ForceFlush, PassOver, Visiting
  <2> QED BY <1>11, <2>2, <2>3 DEF ForceFlush
<1>12. CASE Tick
  BY <1>12 DEF Tick
<1>13. CASE TickTable
  BY <1>13 DEF TickTable, SwapOut, PassOver, Visiting, InTable
<1>14. CASE TickDone
  BY <1>14 DEF TickDone, Scanned
<1>15. CASE TickerExit
  BY <1>15 DEF TickerExit
<1>16. ASSUME NEW t \in Table, Age(t) PROVE Shape'
  BY <1>16 DEF Age
<1>17. ASSUME NEW c \in Call, Flush(c) PROVE Shape'
  BY <1>17 DEF Flush, Begin, Added, Queued
<1>18. ASSUME NEW c \in Call, FlushAndWait(c) PROVE Shape'
  BY <1>18 DEF FlushAndWait, Begin, Added, Queued
<1>19. ASSUME NEW c \in Call, BeginFails(c) PROVE Shape'
  BY <1>19 DEF BeginFails
<1>20. ASSUME NEW c \in Call, FlushedAll(c) PROVE Shape'
  BY <1>20 DEF FlushedAll, Scanned
<1>21. ASSUME NEW c \in Call, SendBarrier(c) PROVE Shape'
  BY <1>21 DEF SendBarrier, Barrier, Job
<1>22. ASSUME NEW c \in Call, Abandon(c) PROVE Shape'
  BY <1>22 DEF Abandon
<1>23. CASE Receive
  BY <1>23 DEF Receive, Job
<1>24. CASE WriterExit
  BY <1>24 DEF WriterExit
<1>25. CASE LoadSucceeds
  BY <1>25 DEF LoadSucceeds, loadParquet
<1>26. CASE LoadFails
  BY <1>26 DEF LoadFails
<1>27. CASE BackoffElapses
  BY <1>27 DEF BackoffElapses
<1>29. CASE GiveUp
  BY <1>29 DEF GiveUp
<1>30. CASE RemoveFile
  BY <1>30 DEF RemoveFile
<1>31. ASSUME NEW f \in pending, QueuePending(f) PROVE Shape'
  BY <1>31 DEF QueuePending, FileJob, Job
<1>32. CASE StopQueueing
  BY <1>32 DEF StopQueueing
<1>33. CASE Close
  BY <1>33 DEF Close
<1>34. CASE Deadline
  BY <1>34 DEF Deadline
<1>35. CASE AwaitTicker
  BY <1>35 DEF AwaitTicker
<1>36. CASE AwaitOperations
  BY <1>36 DEF AwaitOperations
<1>37. CASE CloserFlushed
  BY <1>37 DEF CloserFlushed, Scanned
<1>38. CASE AwaitProducers
  BY <1>38 DEF AwaitProducers
<1>39. CASE AwaitWriter
  BY <1>39 DEF AwaitWriter
<1>40. CASE Closed
  BY SMTT(30), <1>40 DEF Closed, vars
<1>41. CASE UNCHANGED vars
  BY SMTT(30), <1>41 DEF vars
<1> QED
  BY <1>1, <1>2, <1>3, <1>4, <1>5, <1>6, <1>7, <1>8, <1>9, <1>10, <1>11,
     <1>12, <1>13, <1>14, <1>15, <1>16, <1>17, <1>18, <1>19, <1>20, <1>21,
     <1>22, <1>23, <1>24, <1>25, <1>26, <1>27, <1>29, <1>30, <1>31,
     <1>32, <1>33, <1>34, <1>35, <1>36, <1>37, <1>38, <1>39, <1>40, <1>41
  DEF Next, AddStep, ProduceStep, TickerStep, CallStep, WriterStep,
      RecoveryStep, CloseStep

LEMMA ShutdownStep ==
  ASSUME TypeOK, Shape, Shutdown, TypeOK', Shape', [Next]_vars
  PROVE  Shutdown'
<1> USE OrderFacts, ConstantsAssumption
<1> USE DEF TypeOK, Shape, Shutdown, OperationsDone,
            ProducersDone, InTable, Visiting, Scanned, Flusher, Producer, accepting,
            procVars, bufVars, prodVars, callVars, chanVars, writeVars,
            ctrlVars, diskVars
<1>1. CASE Start
  BY <1>1 DEF Start, findPendingParquet
<1>2. CASE Stop
  BY <1>2 DEF Stop, Volatile
<1>3. ASSUME NEW r \in Row, Admit(r) PROVE Shutdown'
  BY <1>3 DEF Admit
<1>4. ASSUME NEW r \in Row, Refuse(r) PROVE Shutdown'
  BY <1>4 DEF Refuse
<1>5. ASSUME NEW r \in Row, Add(r) PROVE Shutdown'
  BY <1>5 DEF Add, InTable
<1>6. ASSUME NEW r \in Row, Spawn(r) PROVE Shutdown'
  BY <1>6 DEF Spawn
<1>7. ASSUME NEW p \in Producer, CreateFile(p) PROVE Shutdown'
  BY <1>7 DEF CreateFile
<1>8. ASSUME NEW p \in Producer, WriteFails(p) PROVE Shutdown'
  <2>1. /\ pos' = [f \in Flusher |-> IF f = p THEN pos[f] + 1 ELSE pos[f]]
        /\ stage' = [stage EXCEPT ![p] = "none"]
        /\ stage[p] \notin {"none", "parked"}
        /\ UNCHANGED <<adder, mem, call, sealed, pending, ticking, closer>>
    BY <1>8 DEF WriteFails, Release
  <2>2. ~ticking' => pos'[Ticker] = 0
    BY <2>1
  <2>3. \A c \in Call : pos'[c] # 0 => call'[c] \in {"flush", "drain"}
    BY <2>1
  <2>4. closer' # "flush" => pos'[Closer] = 0
    BY <2>1
  <2>5. OperationsDone => OperationsDone'
    BY <2>1
  <2>6. closer' = "flush" =>
          /\ pos'[Closer] # 0
          /\ \A i \in 1..Len(Order) :
                i < pos'[Closer] \/ (i = pos'[Closer] /\ stage'[Closer] # "none")
                  => InTable(Order[i])' = {}
    BY SMTT(30), <2>1
  <2>7. ProducersDone => ProducersDone'
    BY <2>1
  <2> QED
    BY <2>1, <2>2, <2>3, <2>4, <2>5, <2>6, <2>7
<1>9. ASSUME NEW p \in Producer, PublishFile(p) PROVE Shutdown'
  BY <1>9 DEF PublishFile
<1>10. ASSUME NEW p \in Producer, Send(p) PROVE Shutdown'
  <2>1. /\ pos' = [f \in Flusher |-> IF f = p THEN pos[f] + 1 ELSE pos[f]]
        /\ stage' = [stage EXCEPT ![p] = "none"]
        /\ stage[p] \notin {"none", "parked"}
        /\ UNCHANGED <<adder, mem, call, sealed, pending, ticking, closer>>
    BY <1>10 DEF Send, Release
  <2>2. ~ticking' => pos'[Ticker] = 0
    BY <2>1
  <2>3. \A c \in Call : pos'[c] # 0 => call'[c] \in {"flush", "drain"}
    BY <2>1
  <2>4. closer' # "flush" => pos'[Closer] = 0
    BY <2>1
  <2>5. OperationsDone => OperationsDone'
    BY <2>1
  <2>6. closer' = "flush" =>
          /\ pos'[Closer] # 0
          /\ \A i \in 1..Len(Order) :
                i < pos'[Closer] \/ (i = pos'[Closer] /\ stage'[Closer] # "none")
                  => InTable(Order[i])' = {}
    BY SMTT(30), <2>1
  <2>7. ProducersDone => ProducersDone'
    BY <2>1
  <2> QED
    BY <2>1, <2>2, <2>3, <2>4, <2>5, <2>6, <2>7
<1>11. ASSUME NEW f \in Flusher, ForceFlush(f) PROVE Shutdown'
  <2>1. /\ f # Ticker /\ pos[f] \in 1..Len(Order) /\ stage[f] = "none" /\ f \in Producer
        /\ UNCHANGED <<adder, call, sealed, pending, ticking, closer>>
    BY <1>11 DEF ForceFlush
  <2>2. CASE SwapOut(f)
    <3>1. /\ mem' = mem \ InTable(Order[pos[f]]) /\ pos' = pos
          /\ stage' = [stage EXCEPT ![f] = "create"]
      BY <2>2 DEF SwapOut
    <3>2. \A i \in 1..Len(Order) :
             InTable(Order[i]) = {} \/ i = pos[f] => InTable(Order[i])' = {}
      BY SMTT(30), <3>1
    <3>3. (OperationsDone => OperationsDone') /\ (ProducersDone => ProducersDone')
      BY SMTT(30), <2>1, <3>1
    <3>4. closer' = "flush" =>
            \A i \in 1..Len(Order) :
                i < pos'[Closer] \/ (i = pos'[Closer] /\ stage'[Closer] # "none")
                  => InTable(Order[i])' = {}
      <4> HIDE DEF InTable
      <4> QED BY ZenonT(30), <2>1, <3>1, <3>2
    <3>5. mem = {} => mem' = {}
      BY <3>1
    <3> HIDE DEF OperationsDone, ProducersDone, InTable
    <3> QED BY <2>1, <3>1, <3>3, <3>4, <3>5
  <2>3. CASE PassOver(f) /\ InTable(Order[pos[f]]) = {}
    <3>1. pos' = [pos EXCEPT ![f] = @ + 1] /\ UNCHANGED <<mem, stage>>
      BY <2>3 DEF PassOver
    <3>2. (OperationsDone => OperationsDone') /\ (ProducersDone => ProducersDone')
      BY <2>1, <3>1
    <3>3. \A i \in 1..Len(Order) : InTable(Order[i])' = InTable(Order[i])
      BY <3>1
    <3>4. /\ \A g \in Flusher : pos'[g] = IF g = f THEN pos[g] + 1 ELSE pos[g]
          /\ Closer \in Flusher /\ Ticker \in Flusher /\ \A c \in Call : c \in Flusher
          /\ \A g \in Flusher : pos[g] \in Nat
      BY <2>1, <3>1 DEF Flusher
    <3> HIDE DEF OperationsDone, ProducersDone, InTable, TypeOK
    <3>5. closer' = "flush" =>
            \A i \in 1..Len(Order) :
                i < pos'[Closer] \/ (i = pos'[Closer] /\ stage'[Closer] # "none")
                  => InTable(Order[i])' = {}
      <4> SUFFICES ASSUME closer = "flush", NEW i \in 1..Len(Order),
                          i < pos'[Closer] \/ (i = pos'[Closer] /\ stage[Closer] # "none")
                   PROVE  InTable(Order[i]) = {}
        BY <2>1, <3>1, <3>3
      <4>1. i < pos[Closer] \/ (i = pos[Closer] /\ stage[Closer] # "none") => InTable(Order[i]) = {}
        OBVIOUS
      <4>2. CASE f = Closer
        <5>1. i < pos[f] \/ i = pos[f]
          BY <2>1, <3>4, <4>2
        <5> QED BY <2>3, <4>1, <4>2, <5>1
      <4>3. CASE f # Closer
        BY <3>4, <4>1, <4>3
      <4> QED BY <4>2, <4>3
    <3>6. ~ticking' => pos'[Ticker] = 0
      BY <2>1, <3>4
    <3>7. \A c \in Call : pos'[c] # 0 => call'[c] \in {"flush", "drain"}
      BY <2>1, <3>4
    <3>8. (closer' # "flush" => pos'[Closer] = 0) /\ (closer' = "flush" => pos'[Closer] # 0)
      BY <2>1, <3>4
    <3> QED BY <2>1, <3>1, <3>2, <3>5, <3>6, <3>7, <3>8
  <2> QED BY <1>11, <2>2, <2>3 DEF ForceFlush
<1>12. CASE Tick
  BY <1>12 DEF Tick
<1>13. CASE TickTable
  BY <1>13 DEF TickTable, SwapOut, PassOver, Visiting, InTable
<1>14. CASE TickDone
  BY <1>14 DEF TickDone, Scanned
<1>15. CASE TickerExit
  BY <1>15 DEF TickerExit
<1>16. ASSUME NEW t \in Table, Age(t) PROVE Shutdown'
  BY <1>16 DEF Age
<1>17. ASSUME NEW c \in Call, Flush(c) PROVE Shutdown'
  BY <1>17 DEF Flush, Begin, Added, Queued
<1>18. ASSUME NEW c \in Call, FlushAndWait(c) PROVE Shutdown'
  BY <1>18 DEF FlushAndWait, Begin, Added, Queued
<1>19. ASSUME NEW c \in Call, BeginFails(c) PROVE Shutdown'
  BY <1>19 DEF BeginFails
<1>20. ASSUME NEW c \in Call, FlushedAll(c) PROVE Shutdown'
  BY <1>20 DEF FlushedAll, Scanned
<1>21. ASSUME NEW c \in Call, SendBarrier(c) PROVE Shutdown'
  BY <1>21 DEF SendBarrier, Barrier, Job
<1>22. ASSUME NEW c \in Call, Abandon(c) PROVE Shutdown'
  BY <1>22 DEF Abandon
<1>23. CASE Receive
  <2>1. /\ \A c \in Call : call'[c] \in {call[c], "returned"}
                            /\ (call[c] # "wait" => call'[c] = call[c])
        /\ UNCHANGED <<adder, mem, stage, pos, sealed, pending, ticking, closer>>
    BY <1>23 DEF Receive
  <2>2. /\ OperationsDone => OperationsDone'
        /\ ProducersDone => ProducersDone'
        /\ \A i \in 1..Len(Order) : InTable(Order[i])' = InTable(Order[i])
    BY <2>1
  <2>3. \A c \in Call : pos'[c] # 0 => call'[c] \in {"flush", "drain"}
    BY <2>1
  <2> HIDE DEF OperationsDone, ProducersDone, InTable
  <2> QED BY ZenonT(30), <2>1, <2>2, <2>3
<1>24. CASE WriterExit
  BY <1>24 DEF WriterExit
<1>25. CASE LoadSucceeds
  BY <1>25 DEF LoadSucceeds, loadParquet
<1>26. CASE LoadFails
  BY <1>26 DEF LoadFails
<1>27. CASE BackoffElapses
  BY <1>27 DEF BackoffElapses
<1>29. CASE GiveUp
  BY <1>29 DEF GiveUp
<1>30. CASE RemoveFile
  BY <1>30 DEF RemoveFile
<1>31. ASSUME NEW f \in pending, QueuePending(f) PROVE Shutdown'
  BY <1>31 DEF QueuePending, FileJob, Job
<1>32. CASE StopQueueing
  BY <1>32 DEF StopQueueing
<1>33. CASE Close
  BY <1>33 DEF Close
<1>34. CASE Deadline
  BY <1>34 DEF Deadline
<1>35. CASE AwaitTicker
  BY <1>35 DEF AwaitTicker
<1>36. CASE AwaitOperations
  BY <1>36 DEF AwaitOperations
<1>37. CASE CloserFlushed
  <2>1. /\ closer = "flush" /\ closer' = "producers" /\ pos[Closer] = Len(Order) + 1
        /\ pos' = [pos EXCEPT ![Closer] = 0]
        /\ UNCHANGED <<adder, mem, stage, call, sealed, pending, ticking>>
    BY <1>37 DEF CloserFlushed
  <2>2. mem = {}
    <3> SUFFICES ASSUME NEW r \in mem PROVE FALSE
      OBVIOUS
    <3>1. PICK i \in 1..Len(Order) : TableOf[r] = Order[i]
      OBVIOUS
    <3>2. InTable(Order[i]) = {}
      <4> HIDE DEF InTable, OperationsDone, ProducersDone
      <4>1. Len(Order) \in Nat /\ i < pos[Closer]
        BY <2>1
      <4> QED BY <2>1, <4>1 DEF Shutdown
    <3>3. r \in InTable(Order[i])
      BY <3>1
    <3> QED BY <3>2, <3>3
  <2>3. OperationsDone /\ OperationsDone'
    BY <2>1
  <2>4. /\ ~ticking' => pos'[Ticker] = 0
        /\ \A c \in Call : pos'[c] # 0 => call'[c] \in {"flush", "drain"}
        /\ pos'[Closer] = 0
    BY <2>1
  <2>5. ~ticking' /\ ~sealed'
    BY <2>1
  <2> HIDE DEF OperationsDone
  <2> QED BY <2>1, <2>2, <2>3, <2>4, <2>5
<1>38. CASE AwaitProducers
  BY <1>38 DEF AwaitProducers
<1>39. CASE AwaitWriter
  BY <1>39 DEF AwaitWriter
<1>40. CASE Closed
  BY <1>40 DEF Closed, vars
<1>41. CASE UNCHANGED vars
  BY <1>41 DEF vars
<1> QED
  BY ZenonT(30), <1>1, <1>2, <1>3, <1>4, <1>5, <1>6, <1>7, <1>8, <1>9, <1>10, <1>11,
     <1>12, <1>13, <1>14, <1>15, <1>16, <1>17, <1>18, <1>19, <1>20, <1>21,
     <1>22, <1>23, <1>24, <1>25, <1>26, <1>27, <1>29, <1>30, <1>31,
     <1>32, <1>33, <1>34, <1>35, <1>36, <1>37, <1>38, <1>39, <1>40, <1>41
  DEF Next, AddStep, ProduceStep, TickerStep, CallStep, WriterStep,
      RecoveryStep, CloseStep

-------------------------------------------------------------------------------
LEMMA InvStep == IInv /\ [Next]_vars => IInv'
<1> SUFFICES ASSUME IInv, [Next]_vars PROVE IInv'
  OBVIOUS
<1>1. TypeOK' /\ Shape'
  BY TypeStep, ShapeStep DEF IInv
<1>2. Shutdown'
  BY <1>1, ShutdownStep DEF IInv
<1> QED
  BY <1>1, <1>2 DEF IInv

LEMMA Inductive == Spec => []IInv
BY InitInv, InvStep, PTL DEF Spec

\* Every variable keeps its type, whatever the constants: the position of a
\* flusher never runs past the last table, the writer never retries more often
\* than maxRetries, the channel only ever carries well-formed jobs.
THEOREM TypeCorrect == Spec => []TypeOK
<1>1. IInv => TypeOK
  BY DEF IInv
<1> QED BY <1>1, Inductive, PTL

LEMMA ShutdownExcludesSenders == IInv => NoSendOnClosed
<1> SUFFICES ASSUME IInv, sealed PROVE
        /\ \A p \in Producer : stage[p] = "none"
        /\ pending = {} /\ mem = {}
        /\ \A c \in Call : call[c] \notin {"barrier", "wait"}
  BY DEF NoSendOnClosed
<1>1. /\ closer \in {"writer", "closed"} /\ ~ticking /\ mem = {}
      /\ OperationsDone /\ ProducersDone
  BY DEF IInv, Shutdown
<1>2. pos[Ticker] = 0 /\ pos[Closer] = 0 /\ \A c \in Call : pos[c] = 0
  BY <1>1, ConstantsAssumption DEF IInv, TypeOK, Shutdown, OperationsDone
<1>3. \A f \in Flusher : stage[f] = "none"
  BY <1>2 DEF Flusher, IInv, Shape
<1>4. \A r \in Row : stage[r] = "none"
  BY <1>1 DEF OperationsDone, ProducersDone
<1>5. \A c \in Call : call[c] \notin {"barrier", "wait"}
  BY <1>1 DEF OperationsDone
<1> QED
  BY <1>1, <1>3, <1>4, <1>5 DEF Producer, ProducersDone

\* Whatever callers, ticker, recovery and Close do, and however they interleave,
\* nobody ever sends on flushCh once Close has closed it.
THEOREM NeverSendsOnClosed == Spec => []NoSendOnClosed
BY Inductive, ShutdownExcludesSenders, PTL

-------------------------------------------------------------------------------
(* Where the rows are.  A producer is still making its file until the rename. *)
Making(p) == stage[p] \in {"parked", "create", "publish"}

(* A row is past memory when a file holds it, the database does, or it was given up. *)
Filed(r) == \E f \in disk \cup failed : r \in f

Past(r) == r \in dropped \/ Loaded(r) \/ Filed(r)

(* A producer is at work exactly while it holds rows, and no two of those that are
   making files share a row with each other or with the table buffers. *)
Batches ==
    /\ \A p \in Producer : stage[p] = "none" <=> held[p] = {}
    /\ \A p, q \in Producer :
          Making(p) /\ Making(q) /\ p # q => held[p] \cap held[q] = {}
    /\ \A p \in Producer : Making(p) => held[p] \cap mem = {}

(* Until TableBuffer.Add has run, a row is nowhere but with its caller. *)
Accepted ==
    \A r \in Row : adder[r] # "added" =>
        /\ r \notin mem /\ ~Past(r)
        /\ stage[r] = "none" /\ \A p \in Producer : r \notin held[p]

(* A row in memory is in no file, not loaded and not given up. *)
NotYet ==
    /\ \A r \in mem : ~Past(r)
    /\ \A p \in Producer : Making(p) => \A r \in held[p] : ~Past(r)

(* Files hold rows, never the same ones, and none that was given up. *)
Files ==
    /\ {} \notin disk \cup failed
    /\ disk \cap failed = {}
    /\ \A f, g \in disk \cup failed : f # g => f \cap g = {}
    /\ \A r \in dropped : ~Loaded(r) /\ ~Filed(r)

(* No accepted row is forgotten. *)
Kept ==
    \A r \in Row : adder[r] = "added" =>
        r \in mem \/ Past(r) \/ \E p \in Producer : Making(p) /\ r \in held[p]

Sited == Batches /\ Accepted /\ NotYet /\ Files /\ Kept

(* Who answers for the complete files: a producer about to send, the channel, the
   startup scan or the writer. *)
Waits(i) == flushCh[i].done = NoCall

(* Whatever is handed to the writer is a complete file that is still there. *)
Complete ==
    /\ \A p \in Producer : stage[p] = "send" => held[p] \in disk
    /\ \A i \in 1..Len(flushCh) : Waits(i) => flushCh[i].file \in disk
    /\ \A i \in 1..Len(flushCh) : ~Waits(i) => flushCh[i].file = {}
    /\ pending \subseteq disk
    /\ Working => job \in disk
    /\ ~Working => job = {}

(* No two of them answer for the same file. *)
Apart ==
    /\ \A p, q \in Producer :
          stage[p] = "send" /\ stage[q] = "send" /\ p # q => held[p] # held[q]
    /\ \A i, j \in 1..Len(flushCh) :
          Waits(i) /\ Waits(j) /\ i # j => flushCh[i].file # flushCh[j].file
    /\ \A p \in Producer : stage[p] = "send" =>
          /\ held[p] \notin pending
          /\ held[p] # job
          /\ \A i \in 1..Len(flushCh) : flushCh[i].file # held[p]
    /\ \A i \in 1..Len(flushCh) : Waits(i) =>
          flushCh[i].file \notin pending /\ flushCh[i].file # job
    /\ job \notin pending

(* What a stopped process leaves behind. *)
Down ==
    ~up => /\ mem = {} /\ flushCh = <<>> /\ pending = {} /\ wpc = "recv"
           /\ \A p \in Producer : stage[p] = "none"
           /\ \A c \in Call : call[c] \in {"idle", "failed"}
           /\ \A r \in Row : adder[r] # "admitted"

(* Every load is the first one of its rows in this process, and the writer removes a
   file only after loading it. *)
Counted ==
    /\ \A r \in Row : loads[r] <= 1 /\ (~Loaded(r) => loads[r] = 0)
    /\ \A p \in Producer : stage[p] = "send" => \A r \in held[p] : loads[r] = 0
    /\ \A i \in 1..Len(flushCh) : \A r \in flushCh[i].file : loads[r] = 0
    /\ \A f \in pending : \A r \in f : loads[r] = 0
    /\ wpc \in {"load", "backoff", "giveup"} => \A r \in job : loads[r] = 0
    /\ wpc = "remove" => \A r \in job : Loaded(r)

(* Close returns after the writer, which leaves an empty and closed channel. *)
Ending ==
    /\ closer = "closed" => wpc = "exited"
    /\ wpc = "exited" => sealed /\ flushCh = <<>>

Owned == Complete /\ Apart

Placed == Sited /\ Owned /\ Down /\ Counted /\ Ending

(* The inductive invariant of everything below. *)
RowInv == IInv /\ Placed

-------------------------------------------------------------------------------
(* Rows: Sited is preserved by every step. *)

placeVars == <<adder, mem, held, stage, disk, failed, copies, dropped>>

(* The steps that can move a row. *)
LEMMA RowSteps ==
    ASSUME [Next]_vars
    PROVE  \/ Stop
           \/ \E r \in Row : Admit(r) \/ Refuse(r) \/ Add(r) \/ Spawn(r)
           \/ \E p \in Producer :
                 CreateFile(p) \/ WriteFails(p) \/ PublishFile(p) \/ Send(p)
           \/ \E f \in Flusher :
                 Visiting(f) /\ SwapOut(f) /\ UNCHANGED <<adder, disk, failed, copies, dropped>>
           \/ LoadSucceeds \/ GiveUp \/ RemoveFile
           \/ UNCHANGED placeVars
<1> USE DEF placeVars, procVars, bufVars, prodVars, callVars, chanVars, writeVars,
            ctrlVars, diskVars
<1>1. CASE UNCHANGED vars
  BY <1>1 DEF vars
<1>2. CASE Start
  BY <1>2 DEF Start
<1>3. CASE AddStep
  BY <1>3 DEF AddStep
<1>4. CASE ProduceStep
  BY <1>4 DEF ProduceStep
<1>5. ASSUME NEW f \in Flusher, ForceFlush(f)
      PROVE  \/ Visiting(f) /\ SwapOut(f) /\ UNCHANGED <<adder, disk, failed, copies, dropped>>
             \/ UNCHANGED placeVars
  BY <1>5 DEF ForceFlush, PassOver
<1>6. ASSUME TickerStep
      PROVE  \/ Visiting(Ticker) /\ SwapOut(Ticker) /\ UNCHANGED <<adder, disk, failed, copies, dropped>>
             \/ UNCHANGED placeVars
  BY <1>6 DEF TickerStep, Tick, TickTable, TickDone, TickerExit, Age, PassOver
<1>7. CASE CallStep
  BY <1>7 DEF CallStep, Flush, FlushAndWait, Begin, BeginFails, FlushedAll, SendBarrier, Abandon
<1>8. CASE WriterStep
  BY <1>8 DEF WriterStep, Receive, WriterExit, LoadFails, BackoffElapses
<1>9. CASE RecoveryStep
  BY <1>9 DEF RecoveryStep, StopQueueing, QueuePending
<1>10. CASE CloseStep
  BY <1>10 DEF CloseStep, Close, Deadline, AwaitTicker, AwaitOperations, CloserFlushed,
               AwaitProducers, AwaitWriter, Closed, vars
<1>11. Ticker \in Flusher
  BY DEF Flusher
<1> QED
  BY <1>1, <1>2, <1>3, <1>4, <1>5, <1>6, <1>7, <1>8, <1>9, <1>10, <1>11 DEF Next

LEMMA SitedInit == Init => Sited
  BY DEF Init, Sited, Batches, Accepted, NotYet, Files, Kept, Making, Past, Filed, Loaded, Producer

(* A row that has not been swapped out has not been filed, loaded or dropped. *)
LEMMA SitedAdders ==
  ASSUME TypeOK, Shape, Sited, NEW r \in Row, Admit(r) \/ Refuse(r) \/ Add(r) \/ Spawn(r)
  PROVE  Sited'
<1> USE DEF Sited
<1>1. CASE Admit(r) \/ Refuse(r)
  <2>1. /\ adder[r] = "new" /\ \A x \in Row : adder'[x] = "added" <=> adder[x] = "added"
        /\ UNCHANGED <<mem, held, stage, disk, failed, copies, dropped>>
    BY <1>1 DEF Admit, Refuse, prodVars, diskVars, TypeOK
  <2>2. \A x : Past(x)' <=> Past(x)
    BY <2>1 DEF Past, Filed, Loaded
  <2>3. Accepted'
    BY <2>1, <2>2 DEF Accepted
  <2>4. Kept'
    BY <2>1, <2>2 DEF Kept, Making
  <2>5. Batches' /\ NotYet'
    BY <2>1, <2>2 DEF Batches, NotYet, Making
  <2>6. Files'
    BY <2>1 DEF Files, Filed, Loaded
  <2> QED BY <2>3, <2>4, <2>5, <2>6
<1>2. CASE Spawn(r)
  <2>1. /\ stage[r] = "parked" /\ stage' = [stage EXCEPT ![r] = "create"]
        /\ UNCHANGED <<adder, mem, held, disk, failed, copies, dropped>>
    BY <1>2 DEF Spawn, bufVars, diskVars
  <2>2. \A x : Past(x)' <=> Past(x)
    BY <2>1 DEF Past, Filed, Loaded
  <2>3. \A p \in Producer : stage'[p] = IF p = r THEN "create" ELSE stage[p]
    BY <2>1 DEF TypeOK
  <2>4. \A p \in Producer :
          (Making(p)' <=> Making(p)) /\ (stage'[p] = "none" <=> stage[p] = "none")
    BY <2>1, <2>3 DEF Making
  <2>5. Batches'
    BY <2>1, <2>4 DEF Batches
  <2>6. Accepted'
    BY <2>1, <2>2, <2>4 DEF Accepted, Producer
  <2>7. NotYet' /\ Kept'
    BY <2>1, <2>2, <2>4 DEF NotYet, Kept
  <2>8. Files'
    BY <2>1 DEF Files, Filed, Loaded
  <2> QED BY <2>5, <2>6, <2>7, <2>8
<1>3. CASE Add(r)
  <2> DEFINE batch == InTable(TableOf[r]) \cup {r}
  <2>1. /\ adder[r] = "admitted" /\ adder' = [adder EXCEPT ![r] = "added"]
        /\ UNCHANGED <<disk, failed, copies, dropped>>
        /\ r \in batch /\ batch \subseteq mem \cup {r} /\ r \in Producer
    BY <1>3 DEF Add, diskVars, InTable, Producer
  <2>2. \/ mem' = mem \cup {r} /\ UNCHANGED <<held, stage>>
        \/ /\ mem' = mem \ batch
           /\ held' = [held EXCEPT ![r] = batch]
           /\ stage' = [stage EXCEPT ![r] = "parked"]
    BY <1>3 DEF Add
  <2> HIDE DEF batch
  <2>3. /\ r \notin mem /\ ~Past(r) /\ stage[r] = "none" /\ \A p \in Producer : r \notin held[p]
        /\ \A x \in batch : x \in Row /\ ~Past(x)
    BY <2>1 DEF Accepted, NotYet, TypeOK
  <2>4. \A x : Past(x)' <=> Past(x)
    BY <2>1 DEF Past, Filed, Loaded
  <2>5. Files'
    BY <2>1 DEF Files, Filed, Loaded
  <2>6. \A x \in Row : (adder'[x] = "added" <=> x = r \/ adder[x] = "added") /\ adder[r] # "added"
    BY <2>1 DEF TypeOK
  <2>7. CASE mem' = mem \cup {r} /\ UNCHANGED <<held, stage>>
    <3>1. Batches'
      BY <2>3, <2>7 DEF Batches, Making
    <3>2. Accepted'
      BY <2>4, <2>6, <2>7 DEF Accepted
    <3>3. NotYet'
      BY <2>3, <2>4, <2>7 DEF NotYet, Making
    <3>4. Kept'
      BY <2>4, <2>6, <2>7 DEF Kept, Making
    <3> QED BY <2>5, <3>1, <3>2, <3>3, <3>4
  <2>8. CASE /\ mem' = mem \ batch
             /\ held' = [held EXCEPT ![r] = batch]
             /\ stage' = [stage EXCEPT ![r] = "parked"]
    <3>1. \A p \in Producer : /\ held'[p] = IF p = r THEN batch ELSE held[p]
                              /\ stage'[p] = IF p = r THEN "parked" ELSE stage[p]
      BY <2>8 DEF TypeOK
    <3>2. \A p \in Producer : Making(p)' <=> Making(p) \/ p = r
      BY <3>1 DEF Making
    <3>3. \A p \in Producer : Making(p) => held[p] \cap batch = {}
      BY <2>1, <2>3 DEF Batches
    <3>4. Batches'
      BY <2>1, <2>8, <3>1, <3>2, <3>3 DEF Batches
    <3>5. ASSUME NEW x \in Row, adder'[x] # "added"
          PROVE  x # r /\ x \notin batch /\ x \notin mem /\ ~Past(x) /\ stage[x] = "none"
      BY <2>1, <2>6, <3>5 DEF Accepted
    <3>6. Accepted'
      BY <2>4, <2>6, <2>8, <3>1, <3>5 DEF Accepted, Producer
    <3>7. NotYet'
      BY <2>3, <2>4, <2>8, <3>1, <3>2 DEF NotYet
    <3>8. ASSUME NEW x \in Row, adder'[x] = "added", x \notin mem', ~Past(x)
          PROVE  \E p \in Producer : Making(p)' /\ x \in held'[p]
      <4>1. CASE x \in batch
        BY <2>1, <3>1, <3>2, <4>1
      <4>2. CASE x \notin batch
        <5>1. adder[x] = "added" /\ x \notin mem
          BY <2>1, <2>6, <2>8, <3>8, <4>2
        <5>2. PICK p \in Producer : Making(p) /\ x \in held[p]
          BY <3>8, <5>1 DEF Kept
        <5>3. p # r
          BY <2>3, <5>2 DEF Making
        <5> QED BY <3>1, <3>2, <5>2, <5>3
      <4> QED BY <4>1, <4>2
    <3>9. Kept'
      BY <2>4, <3>8 DEF Kept
    <3> QED BY <2>5, <3>4, <3>6, <3>7, <3>9
  <2> QED BY <2>2, <2>7, <2>8
<1> QED BY <1>1, <1>2, <1>3

LEMMA SitedSwapOut ==
  ASSUME TypeOK, Sited, NEW f \in Flusher, Visiting(f), SwapOut(f),
         UNCHANGED <<adder, disk, failed, copies, dropped>>
  PROVE  Sited'
<1> USE DEF Sited
<1> DEFINE batch == InTable(Order[pos[f]])
<1>1. /\ batch # {} /\ batch \subseteq mem /\ f \in Producer /\ f \notin Row /\ stage[f] = "none"
      /\ mem' = mem \ batch
      /\ held' = [held EXCEPT ![f] = batch]
      /\ stage' = [stage EXCEPT ![f] = "create"]
  BY ConstantsAssumption DEF SwapOut, Visiting, InTable, TypeOK, Producer
<1> HIDE DEF batch
<1>2. \A x : Past(x)' <=> Past(x)
  BY DEF Past, Filed, Loaded
<1>3. \A p \in Producer : /\ held'[p] = IF p = f THEN batch ELSE held[p]
                          /\ stage'[p] = IF p = f THEN "create" ELSE stage[p]
  BY <1>1 DEF TypeOK
<1>4. \A p \in Producer : Making(p)' <=> Making(p) \/ p = f
  BY <1>3 DEF Making
<1>5. Batches'
  BY <1>1, <1>3, <1>4 DEF Batches
<1>6. Accepted'
  BY <1>1, <1>2, <1>3 DEF Accepted, Producer
<1>7. NotYet'
  BY <1>1, <1>2, <1>3, <1>4 DEF NotYet
<1>8. ~Making(f)
  BY <1>1 DEF Making
<1>9. Kept'
  <2> SUFFICES ASSUME NEW x \in Row, adder[x] = "added", x \notin mem', ~Past(x)
               PROVE  \E p \in Producer : Making(p)' /\ x \in held'[p]
    BY <1>2 DEF Kept
  <2>1. CASE x \in batch
    BY <1>1, <1>3, <1>4, <2>1
  <2>2. CASE x \notin batch
    <3>1. PICK p \in Producer : Making(p) /\ x \in held[p]
      BY <1>1, <2>2 DEF Kept
    <3> QED BY <1>3, <1>4, <1>8, <3>1
  <2> QED BY <2>1, <2>2
<1>10. Files'
  BY DEF Files, Filed, Loaded
<1> QED BY <1>5, <1>6, <1>7, <1>9, <1>10

LEMMA SitedProducers ==
  ASSUME TypeOK, Sited, Complete, NEW p \in Producer,
         CreateFile(p) \/ WriteFails(p) \/ PublishFile(p) \/ Send(p)
  PROVE  Sited'
<1> USE DEF Sited
<1>1. CASE CreateFile(p)
  <2>1. /\ stage[p] = "create" /\ stage' = [stage EXCEPT ![p] = "publish"]
        /\ UNCHANGED <<adder, mem, held, disk, failed, copies, dropped>>
    BY <1>1 DEF CreateFile, bufVars
  <2>2. \A x : Past(x)' <=> Past(x)
    BY <2>1 DEF Past, Filed, Loaded
  <2>3. \A q \in Producer : stage'[q] = IF q = p THEN "publish" ELSE stage[q]
    BY <2>1 DEF TypeOK
  <2>4. \A q \in Producer :
          (Making(q)' <=> Making(q)) /\ (stage'[q] = "none" <=> stage[q] = "none")
    BY <2>1, <2>3 DEF Making
  <2>5. Batches'
    BY <2>1, <2>4 DEF Batches
  <2>6. Accepted'
    BY <2>1, <2>2, <2>4 DEF Accepted, Producer
  <2>7. NotYet' /\ Kept'
    BY <2>1, <2>2, <2>4 DEF NotYet, Kept
  <2>8. Files'
    BY <2>1 DEF Files, Filed, Loaded
  <2> QED BY <2>5, <2>6, <2>7, <2>8
<1>2. CASE WriteFails(p)
  <2>1. /\ stage[p] \in {"create", "publish"}
        /\ dropped' = dropped \cup held[p]
        /\ held' = [held EXCEPT ![p] = {}] /\ stage' = [stage EXCEPT ![p] = "none"]
        /\ UNCHANGED <<adder, mem, disk, failed, copies>>
    BY <1>2 DEF WriteFails, Release, bufVars
  <2>2. \A q \in Producer : /\ held'[q] = IF q = p THEN {} ELSE held[q]
                            /\ stage'[q] = IF q = p THEN "none" ELSE stage[q]
    BY <2>1 DEF TypeOK
  <2>3. Making(p) /\ \A q \in Producer : Making(q)' <=> Making(q) /\ q # p
    BY <2>1, <2>2 DEF Making
  <2>4. \A x : (Loaded(x)' <=> Loaded(x)) /\ (Filed(x)' <=> Filed(x))
    BY <2>1 DEF Loaded, Filed
  <2>5. \A x : Past(x)' <=> Past(x) \/ x \in held[p]
    BY <2>1, <2>4 DEF Past
  <2>6. Batches'
    BY <2>1, <2>2, <2>3 DEF Batches
  <2>7. Accepted'
    BY <2>1, <2>2, <2>5 DEF Accepted, Producer
  <2>8. NotYet'
    BY <2>1, <2>2, <2>3, <2>5 DEF NotYet, Batches
  <2>9. \A x \in held[p] : ~Loaded(x) /\ ~Filed(x)
    BY <2>3 DEF NotYet, Past
  <2>10. Files'
    BY <2>1, <2>4, <2>9 DEF Files
  <2>11. Kept'
    <3> SUFFICES ASSUME NEW x \in Row, adder[x] = "added", x \notin mem, ~Past(x)'
                 PROVE  \E q \in Producer : Making(q)' /\ x \in held'[q]
      BY <2>1 DEF Kept
    <3>1. PICK q \in Producer : Making(q) /\ x \in held[q]
      BY <2>5 DEF Kept
    <3>2. q # p
      BY <2>5, <3>1
    <3> QED BY <2>2, <2>3, <3>1, <3>2
  <2> QED BY <2>6, <2>7, <2>8, <2>10, <2>11
<1>3. CASE PublishFile(p)
  <2>1. /\ stage[p] = "publish" /\ held[p] # {}
        /\ disk' = disk \cup {held[p]}
        /\ stage' = [stage EXCEPT ![p] = "send"]
        /\ UNCHANGED <<adder, mem, held, failed, copies, dropped>>
    BY <1>3 DEF PublishFile, bufVars, Batches
  <2>2. \A q \in Producer : stage'[q] = IF q = p THEN "send" ELSE stage[q]
    BY <2>1 DEF TypeOK
  <2>3. Making(p) /\ \A q \in Producer : Making(q)' <=> Making(q) /\ q # p
    BY <2>1, <2>2 DEF Making
  <2>4. \A x : (Loaded(x)' <=> Loaded(x)) /\ (Filed(x)' <=> Filed(x) \/ x \in held[p])
    BY <2>1 DEF Loaded, Filed
  <2>5. \A x : Past(x)' <=> Past(x) \/ x \in held[p]
    BY <2>1, <2>4 DEF Past
  <2>6. Batches'
    BY <2>1, <2>2, <2>3 DEF Batches
  <2>7. Accepted'
    BY <2>1, <2>2, <2>5 DEF Accepted, Producer
  <2>8. NotYet'
    BY <2>1, <2>3, <2>5 DEF NotYet, Batches
  <2>9. Files'
    <3>1. \A x \in held[p] : x \notin dropped /\ ~Filed(x)
      BY <2>3 DEF NotYet, Past
    <3>2. \A g \in disk \cup failed : g # held[p] /\ g \cap held[p] = {}
      BY <2>1, <3>1 DEF Filed
    <3>3. (disk \cup failed)' = disk \cup failed \cup {held[p]}
      BY <2>1
    <3>4. \A x \in dropped : ~Loaded(x)' /\ ~Filed(x)'
      BY <2>4, <3>1 DEF Files
    <3>5. {} \notin (disk \cup failed)' /\ (disk \cap failed)' = {}
      BY <2>1, <3>2, <3>3 DEF Files
    <3>6. \A f, g \in (disk \cup failed)' : f # g => f \cap g = {}
      BY <3>2, <3>3 DEF Files
    <3> QED BY <2>1, <3>4, <3>5, <3>6 DEF Files
  <2>10. Kept'
    <3> SUFFICES ASSUME NEW x \in Row, adder[x] = "added", x \notin mem, ~Past(x)'
                 PROVE  \E q \in Producer : Making(q)' /\ x \in held[q]
      BY <2>1 DEF Kept
    <3>1. PICK q \in Producer : Making(q) /\ x \in held[q]
      BY <2>5 DEF Kept
    <3>2. q # p
      BY <2>5, <3>1
    <3> QED BY <2>3, <3>1, <3>2
  <2> QED BY <2>6, <2>7, <2>8, <2>9, <2>10
<1>4. CASE Send(p)
  <2>1. /\ stage[p] = "send"
        /\ held' = [held EXCEPT ![p] = {}] /\ stage' = [stage EXCEPT ![p] = "none"]
        /\ UNCHANGED <<adder, mem, disk, failed, copies, dropped>>
    BY <1>4 DEF Send, Release, bufVars, diskVars
  <2>2. \A q \in Producer : /\ held'[q] = IF q = p THEN {} ELSE held[q]
                            /\ stage'[q] = IF q = p THEN "none" ELSE stage[q]
    BY <2>1 DEF TypeOK
  <2>3. ~Making(p) /\ \A q \in Producer : Making(q)' <=> Making(q)
    BY <2>1, <2>2 DEF Making
  <2>4. \A x : Past(x)' <=> Past(x)
    BY <2>1 DEF Past, Filed, Loaded
  <2>5. Batches'
    BY <2>1, <2>2, <2>3 DEF Batches
  <2>6. Accepted'
    BY <2>1, <2>2, <2>4 DEF Accepted, Producer
  <2>7. NotYet'
    BY <2>1, <2>2, <2>3, <2>4 DEF NotYet
  <2>8. Files'
    BY <2>1 DEF Files, Filed, Loaded
  <2>9. Kept'
    <3> SUFFICES ASSUME NEW x \in Row, adder[x] = "added", x \notin mem, ~Past(x)
                 PROVE  \E q \in Producer : Making(q)' /\ x \in held'[q]
      BY <2>1, <2>4 DEF Kept
    <3>1. PICK q \in Producer : Making(q) /\ x \in held[q]
      BY DEF Kept
    <3> QED BY <2>2, <2>3, <3>1
  <2> QED BY <2>5, <2>6, <2>7, <2>8, <2>9
<1> QED BY <1>1, <1>2, <1>3, <1>4

LEMMA SitedWriter ==
  ASSUME TypeOK, Sited, Complete, Counted, LoadSucceeds \/ GiveUp \/ RemoveFile
  PROVE  Sited'
<1> USE DEF Sited
<1>1. CASE LoadSucceeds
  <2>1. job \in disk /\ UNCHANGED <<adder, mem, held, stage, disk, failed, dropped>>
    BY <1>1 DEF LoadSucceeds, bufVars, prodVars, Complete, Working
  <2>2. \A x \in Row : Loaded(x)' <=> Loaded(x) \/ x \in job
    BY <1>1 DEF LoadSucceeds, loadParquet, Loaded, TypeOK
  <2>3. \A x \in Row : Past(x)' <=> Past(x)
    BY <2>1, <2>2 DEF Past, Filed
  <2>4. \A x \in dropped : ~Loaded(x)'
    BY <2>1, <2>2 DEF Files, Filed, TypeOK
  <2>5. Batches'
    BY <2>1 DEF Batches, Making
  <2>6. Files'
    BY <2>1, <2>4 DEF Files, Filed
  <2>7. Accepted'
    BY <2>1, <2>3 DEF Accepted
  <2>8. NotYet'
    BY <2>1, <2>3 DEF NotYet, Making, TypeOK
  <2>9. Kept'
    BY <2>1, <2>3 DEF Kept, Making
  <2> QED BY <2>5, <2>6, <2>7, <2>8, <2>9
<1>2. CASE GiveUp
  <2>1. /\ job \in disk /\ UNCHANGED <<adder, mem, held, stage, copies, dropped>>
        /\ (disk \cup failed)' = disk \cup failed /\ disk' \cap failed' = {}
    BY <1>2 DEF GiveUp, bufVars, prodVars, Complete, Working, Files
  <2>2. \A x : Filed(x)' <=> Filed(x)
    BY <2>1 DEF Filed
  <2>3. \A x : Loaded(x)' <=> Loaded(x)
    BY <2>1 DEF Loaded
  <2>4. \A x : Past(x)' <=> Past(x)
    BY <2>1, <2>2, <2>3 DEF Past
  <2>5. Batches'
    BY <2>1 DEF Batches, Making
  <2>6. Files'
    BY <2>1, <2>2, <2>3 DEF Files
  <2>7. Accepted'
    BY <2>1, <2>4 DEF Accepted
  <2>8. NotYet'
    BY <2>1, <2>4 DEF NotYet, Making
  <2>9. Kept'
    BY <2>1, <2>4 DEF Kept, Making
  <2> QED BY <2>5, <2>6, <2>7, <2>8, <2>9
<1>3. CASE RemoveFile
  <2>1. /\ \A x \in job : Loaded(x)
        /\ UNCHANGED <<adder, mem, held, stage, failed, copies, dropped>>
        /\ disk' \in {disk, disk \ {job}}
    BY <1>3 DEF RemoveFile, bufVars, prodVars, Counted
  <2>2. \A x : Filed(x)' => Filed(x)
    BY <2>1 DEF Filed
  <2>3. \A x : Filed(x) => Filed(x)' \/ Loaded(x)
    BY <2>1 DEF Filed
  <2>4. \A x : Loaded(x)' <=> Loaded(x)
    BY <2>1 DEF Loaded
  <2>5. \A x : Past(x)' <=> Past(x)
    BY <2>1, <2>2, <2>3, <2>4 DEF Past
  <2>6. Batches'
    BY <2>1 DEF Batches, Making
  <2>7. Files'
    BY <2>1, <2>2, <2>4 DEF Files
  <2>8. Accepted'
    BY <2>1, <2>5 DEF Accepted
  <2>9. NotYet'
    BY <2>1, <2>5 DEF NotYet, Making
  <2>10. Kept'
    BY <2>1, <2>5 DEF Kept, Making
  <2> QED BY <2>6, <2>7, <2>8, <2>9, <2>10
<1> QED BY <1>1, <1>2, <1>3

LEMMA SitedStop ==
  ASSUME TypeOK, Sited, Complete, Stop
  PROVE  Sited'
<1> USE DEF Sited
<1>1. /\ dropped' = dropped \cup Volatile
      /\ adder' = [r \in Row |-> IF adder[r] = "admitted" THEN "added" ELSE adder[r]]
      /\ mem' = {} /\ held' = [p \in Producer |-> {}] /\ stage' = [p \in Producer |-> "none"]
      /\ UNCHANGED <<disk, failed, copies>>
  BY DEF Stop
<1>2. \A r \in Row : r \in Volatile <=>
          adder[r] = "admitted" \/ r \in mem \/ \E p \in Producer : Making(p) /\ r \in held[p]
  <2>1. \A p \in Producer : stage[p] # "send" /\ held[p] # {} => Making(p)
    BY DEF Stages, TypeOK, Batches, Making
  <2>2. \A p \in Producer : Making(p) => stage[p] # "send"
    BY DEF Making
  <2> QED BY <2>1, <2>2 DEF Volatile
<1>3. \A r \in Volatile : r \in Row /\ ~Past(r)
  <2>1. Volatile \subseteq Row
    BY DEF Volatile, TypeOK
  <2> QED BY <1>2, <2>1 DEF Accepted, NotYet
<1>4. \A r : (Loaded(r)' <=> Loaded(r)) /\ (Filed(r)' <=> Filed(r))
  BY <1>1 DEF Loaded, Filed
<1>5. \A r : Past(r)' <=> Past(r) \/ r \in Volatile
  BY <1>1, <1>4 DEF Past
<1>6. \A p \in Producer : held'[p] = {} /\ stage'[p] = "none" /\ ~Making(p)'
  BY <1>1 DEF Making
<1>7. Batches' /\ NotYet'
  BY <1>1, <1>6 DEF Batches, NotYet
<1>8. Files'
  BY <1>1, <1>3, <1>4 DEF Files, Past
<1>9. \A r \in Row : adder'[r] # "added" => adder[r] # "added" /\ r \notin Volatile
  BY <1>1, <1>2, <1>3 DEF Accepted, Making
<1>10. Accepted'
  BY <1>1, <1>5, <1>6, <1>9 DEF Accepted, Producer
<1>11. Kept'
  <2> SUFFICES ASSUME NEW r \in Row, adder'[r] = "added", ~Past(r)', r \notin Volatile
               PROVE  FALSE
    BY <1>5 DEF Kept
  <2>1. adder[r] = "added" /\ r \notin mem
    BY <1>1, <1>2
  <2> QED BY <1>2, <1>5, <2>1 DEF Kept
<1> QED BY <1>7, <1>8, <1>10, <1>11

-------------------------------------------------------------------------------
(* Files: Owned is preserved by every step. *)

claimVars == <<up, life, loads, held, stage, flushCh, pending, wpc, job, tmp, disk, failed, copies, dropped>>

otherVars == <<up, life, loads, flushCh, pending, wpc, job, cancelled, tmp, disk, failed, copies, dropped>>

(* The steps that can change who answers for a file. *)
LEMMA ClaimSteps ==
    ASSUME [Next]_vars
    PROVE  \/ Start \/ Stop
           \/ \E r \in Row : Add(r) \/ Spawn(r)
           \/ \E p \in Producer :
                 CreateFile(p) \/ WriteFails(p) \/ PublishFile(p) \/ Send(p)
           \/ \E f \in Flusher :
                 Visiting(f) /\ SwapOut(f) /\ UNCHANGED otherVars
           \/ \E c \in Call : SendBarrier(c)
           \/ WriterStep
           \/ RecoveryStep
           \/ UNCHANGED claimVars /\ (cancelled => cancelled')
<1> USE DEF claimVars, otherVars, procVars, bufVars, prodVars, callVars, chanVars, writeVars,
            ctrlVars, diskVars
<1>1. CASE UNCHANGED vars
  BY <1>1 DEF vars
<1>2. CASE AddStep
  BY <1>2 DEF AddStep, Admit, Refuse
<1>3. CASE ProduceStep
  BY <1>3 DEF ProduceStep
<1>4. ASSUME NEW f \in Flusher, ForceFlush(f)
      PROVE  \/ Visiting(f) /\ SwapOut(f) /\ UNCHANGED otherVars
             \/ UNCHANGED claimVars /\ UNCHANGED cancelled
  BY <1>4 DEF ForceFlush, PassOver
<1>5. ASSUME TickerStep
      PROVE  \/ Visiting(Ticker) /\ SwapOut(Ticker) /\ UNCHANGED otherVars
             \/ UNCHANGED claimVars /\ UNCHANGED cancelled
  BY <1>5 DEF TickerStep, Tick, TickTable, TickDone, TickerExit, Age, PassOver
<1>6. CASE CallStep
  BY <1>6 DEF CallStep, Flush, FlushAndWait, Begin, BeginFails, FlushedAll, Abandon
<1>7. CASE CloseStep
  BY <1>7 DEF CloseStep, Close, Deadline, AwaitTicker, AwaitOperations, CloserFlushed,
              AwaitProducers, AwaitWriter, Closed, vars
<1>8. Ticker \in Flusher
  BY DEF Flusher
<1> QED
  BY <1>1, <1>2, <1>3, <1>4, <1>5, <1>6, <1>7, <1>8 DEF Next

LEMMA QueueGrows ==
  ASSUME NEW q \in Seq(Job), NEW j \in Job
  PROVE  /\ Len(Append(q, j)) = Len(q) + 1
         /\ Len(q) \in Nat
         /\ \A i \in 1..(Len(q) + 1) :
               Append(q, j)[i] = IF i = Len(q) + 1 THEN j ELSE q[i]
  OBVIOUS

LEMMA QueueShrinks ==
  ASSUME NEW q \in Seq(Job), q # <<>>
  PROVE  /\ Len(q) \in Nat \ {0} /\ Len(Tail(q)) = Len(q) - 1
         /\ Head(q) = q[1] /\ q[1] \in Job
         /\ \A i \in 1..(Len(q) - 1) : Tail(q)[i] = q[i + 1]
  OBVIOUS

LEMMA JobFacts ==
  /\ \A f \in SUBSET Row : FileJob(f) \in Job /\ FileJob(f).file = f /\ FileJob(f).done = NoCall
  /\ \A c \in Call : Barrier(c) \in Job /\ Barrier(c).file = {} /\ Barrier(c).done = c /\ c # NoCall
  BY ConstantsAssumption DEF FileJob, Barrier, Job

LEMMA ClaimsInit == Init => Owned
  BY DEF Init, Owned, Complete, Apart, Working, Waits, Producer

(* Whoever makes a file claims nothing, until it publishes it. *)
LEMMA ClaimsMakers ==
  ASSUME TypeOK, Sited, Owned, 
         \A p \in Producer : stage'[p] = "send" => stage[p] = "send" /\ held'[p] = held[p],
         UNCHANGED <<disk, flushCh, pending, wpc, job>>
  PROVE  Owned'
  BY DEF Owned, Complete, Apart, Working, Waits

LEMMA ClaimsProducers ==
  ASSUME TypeOK, Sited, Owned, NEW p \in Producer,
         CreateFile(p) \/ WriteFails(p) \/ PublishFile(p) \/ Send(p)
  PROVE  Owned'
<1> USE DEF TypeOK
<1>1. CASE CreateFile(p)
  BY <1>1, ClaimsMakers DEF CreateFile, chanVars, writeVars, ctrlVars
<1>2. CASE WriteFails(p)
  BY <1>2, ClaimsMakers DEF WriteFails, Release, chanVars, writeVars, ctrlVars
<1>3. CASE PublishFile(p)
  <2>1. /\ stage[p] = "publish" /\ disk' = disk \cup {held[p]}
        /\ stage' = [stage EXCEPT ![p] = "send"]
        /\ UNCHANGED <<held, flushCh, pending, wpc, job>>
    BY <1>3 DEF PublishFile, chanVars, writeVars, ctrlVars
  <2>2. held[p] \notin disk /\ held[p] # {}
    <3>1. held[p] # {} /\ Making(p)
      BY <2>1 DEF Sited, Batches, Making
    <3>2. PICK x \in held[p] : TRUE
      BY <3>1
    <3>3. ~Filed(x)
      BY <3>1, <3>2 DEF Sited, NotYet, Past
    <3> QED BY <3>1, <3>2, <3>3 DEF Filed
  <2>3. Complete'
    BY <2>1 DEF Owned, Complete, Working, Waits
  <2>4. \A i \in 1..Len(flushCh) : flushCh[i].file # held[p]
    BY <2>2 DEF Owned, Complete, Waits
  <2>5. Apart'
    BY <2>1, <2>2, <2>4 DEF Owned, Complete, Apart, Working, Waits
  <2> QED BY <2>3, <2>5 DEF Owned
<1>4. CASE Send(p)
  <2> DEFINE j == FileJob(held[p])
  <2>1. /\ stage[p] = "send" /\ held' = [held EXCEPT ![p] = {}]
        /\ stage' = [stage EXCEPT ![p] = "none"]
        /\ flushCh' = Append(flushCh, j) /\ UNCHANGED <<disk, pending, wpc, job>>
    BY <1>4 DEF Send, Release, writeVars, ctrlVars, diskVars
  <2>2. j \in Job /\ j.file = held[p] /\ j.done = NoCall
    BY JobFacts
  <2> HIDE DEF j
  <2>3. /\ Len(flushCh)' = Len(flushCh) + 1 /\ Len(flushCh) \in Nat
        /\ \A i \in 1..(Len(flushCh) + 1) :
              flushCh'[i] = IF i = Len(flushCh) + 1 THEN j ELSE flushCh[i]
    BY <2>1, <2>2, QueueGrows
  <2>4. /\ \A q \in Producer : stage'[q] = "send" <=> stage[q] = "send" /\ q # p
        /\ \A q \in Producer : q # p => held'[q] = held[q]
    BY <2>1
  <2>5. Complete'
    BY <2>1, <2>2, <2>3, <2>4 DEF Owned, Complete, Working, Waits
  <2>6. Apart'
    BY <2>1, <2>2, <2>3, <2>4 DEF Owned, Complete, Apart, Working, Waits
  <2> QED BY <2>5, <2>6 DEF Owned
<1> QED BY <1>1, <1>2, <1>3, <1>4

LEMMA ClaimsWriter ==
  ASSUME TypeOK, Sited, Owned, WriterStep
  PROVE  Owned'
<1> USE DEF TypeOK, Working, WriterPCs
<1>1. CASE Receive
  <2>1. /\ wpc = "recv" /\ flushCh # <<>> /\ flushCh' = Tail(flushCh)
        /\ UNCHANGED <<held, stage, disk, pending>>
        /\ \/ UNCHANGED <<wpc, job>>
           \/ Waits(1) /\ wpc' = "load" /\ job' = flushCh[1].file
    BY <1>1, QueueShrinks DEF Receive, prodVars, ctrlVars, diskVars, Waits
  <2>2. /\ Len(flushCh)' = Len(flushCh) - 1 /\ Len(flushCh) \in Nat \ {0}
        /\ \A i \in 1..(Len(flushCh) - 1) : flushCh'[i] = flushCh[i + 1]
    BY <2>1, QueueShrinks
  <2>3. Complete'
    BY <2>1, <2>2 DEF Owned, Complete, Waits
  <2>4. CASE UNCHANGED <<wpc, job>>
    BY <2>1, <2>2, <2>3, <2>4 DEF Owned, Apart, Waits
  <2>5. CASE Waits(1) /\ wpc' = "load" /\ job' = flushCh[1].file
    <3>1. Apart'
      BY <2>1, <2>2, <2>5 DEF Owned, Apart, Waits
    <3> QED BY <2>3, <3>1 DEF Owned
  <2> QED BY <2>1, <2>4, <2>5
<1>2. CASE GiveUp \/ RemoveFile
  <2> USE DEF Owned
  <2> HIDE DEF TypeOK, WriterPCs
  <2>1. /\ Working /\ wpc' = "recv" /\ job' = {} /\ disk' \in {disk, disk \ {job}}
        /\ UNCHANGED <<held, stage, flushCh, pending>>
    BY <1>2 DEF GiveUp, RemoveFile, prodVars, chanVars, ctrlVars
  <2>2. {} \notin disk /\ job \in disk
    BY <2>1 DEF Sited, Files, Complete
  <2>3. \A i \in 1..Len(flushCh) : Waits(i)' <=> Waits(i)
    BY <2>1 DEF Waits
  <2>4. Complete'
    BY <2>1, <2>3 DEF Complete, Apart
  <2>5. Apart'
    <3>1. /\ \A p \in Producer : stage[p] = "send" => held[p] # {}
          /\ \A i \in 1..Len(flushCh) : Waits(i) => flushCh[i].file # {}
          /\ {} \notin pending
      BY <2>2 DEF Complete
    <3> HIDE DEF Working
    <3> QED BY <2>1, <2>3, <3>1 DEF Apart
  <2> QED BY <2>4, <2>5
<1>3. CASE WriterExit \/ LoadSucceeds \/ LoadFails \/ BackoffElapses
  <2>1. /\ Working <=> Working'
        /\ UNCHANGED <<held, stage, disk, flushCh, pending, job>>
    BY <1>3 DEF WriterExit, LoadSucceeds, LoadFails, BackoffElapses, prodVars, chanVars, ctrlVars, diskVars
  <2> HIDE DEF Working
  <2> QED BY <2>1 DEF Owned, Complete, Apart, Waits
<1> QED BY <1>1, <1>2, <1>3 DEF WriterStep

LEMMA ClaimsStep ==
  ASSUME TypeOK, Shape, Sited, Owned, Down, [Next]_vars
  PROVE  Owned'
<1> USE DEF TypeOK
<1>1. CASE Start
  <2>1. /\ UNCHANGED <<held, stage, disk, flushCh, wpc, job>>
        /\ pending' \in findPendingParquet(disk)
    BY <1>1 DEF Start, prodVars, chanVars, writeVars, diskVars
  <2>2. pending' \subseteq disk
    BY <2>1 DEF findPendingParquet
  <2>3. /\ \A p \in Producer : stage[p] = "none"
        /\ flushCh = <<>> /\ wpc = "recv"
    BY <1>1 DEF Start, Down
  <2>4. job = {} /\ {} \notin disk
    BY <2>3 DEF Owned, Complete, Working, Sited, Files
  <2>5. Complete'
    BY <2>1, <2>2, <2>3, <2>4 DEF Complete, Working, Waits
  <2>6. Apart'
    BY <2>1, <2>2, <2>3, <2>4 DEF Apart, Working, Waits
  <2> QED BY <2>5, <2>6 DEF Owned
<1>2. CASE Stop
  BY <1>2 DEF Stop, Owned, Complete, Apart, Working, Waits
<1>3. ASSUME NEW r \in Row, Add(r) \/ Spawn(r) PROVE Owned'
  <2>1. r \in Producer /\ UNCHANGED <<disk, flushCh, pending, wpc, job>>
    BY <1>3 DEF Add, Spawn, Producer, chanVars, writeVars, ctrlVars, diskVars
  <2>2. \A p \in Producer : stage'[p] = "send" => stage[p] = "send" /\ held'[p] = held[p]
    BY <1>3, <2>1 DEF Add, Spawn, InTable
  <2> QED BY <2>1, <2>2, ClaimsMakers
<1>4. ASSUME NEW p \in Producer, CreateFile(p) \/ WriteFails(p) \/ PublishFile(p) \/ Send(p)
      PROVE Owned'
  BY <1>4, ClaimsProducers
<1>5. ASSUME NEW f \in Flusher, SwapOut(f), UNCHANGED otherVars
      PROVE Owned'
  BY <1>5, ClaimsMakers DEF SwapOut, Producer, otherVars
<1>6. ASSUME NEW c \in Call, SendBarrier(c) PROVE Owned'
  <2>1. flushCh' = Append(flushCh, Barrier(c)) /\ UNCHANGED <<held, stage, disk, pending, wpc, job>>
    BY <1>6 DEF SendBarrier, prodVars, writeVars, ctrlVars, diskVars
  <2>2. /\ Len(flushCh)' = Len(flushCh) + 1 /\ Len(flushCh) \in Nat
        /\ \A i \in 1..(Len(flushCh) + 1) :
              flushCh'[i] = IF i = Len(flushCh) + 1 THEN Barrier(c) ELSE flushCh[i]
    BY <2>1, JobFacts, QueueGrows
  <2>3. \A p \in Producer : stage[p] = "send" => held[p] # {}
    BY DEF Sited, Batches
  <2>4. Barrier(c).done # NoCall /\ Barrier(c).file = {}
    BY JobFacts
  <2> QED BY <2>1, <2>2, <2>3, <2>4 DEF Owned, Complete, Apart, Working, Waits
<1>7. CASE WriterStep
  BY <1>7, ClaimsWriter
<1>8. CASE RecoveryStep
  <2>1. CASE StopQueueing
    <3>1. pending' = {} /\ UNCHANGED <<held, stage, disk, flushCh, wpc, job>>
      BY <2>1 DEF StopQueueing, prodVars, chanVars, writeVars, diskVars
    <3> QED BY <3>1 DEF Owned, Complete, Apart, Working, Waits
  <2>2. ASSUME NEW f \in pending, QueuePending(f) PROVE Owned'
    <3>1. /\ flushCh' = Append(flushCh, FileJob(f)) /\ pending' = pending \ {f}
          /\ UNCHANGED <<held, stage, disk, wpc, job>>
      BY <2>2 DEF QueuePending, prodVars, writeVars, diskVars
    <3>2. FileJob(f) \in Job /\ FileJob(f).file = f /\ FileJob(f).done = NoCall
      BY JobFacts
    <3>3. /\ Len(flushCh)' = Len(flushCh) + 1 /\ Len(flushCh) \in Nat
          /\ \A i \in 1..(Len(flushCh) + 1) :
                flushCh'[i] = IF i = Len(flushCh) + 1 THEN FileJob(f) ELSE flushCh[i]
      BY <3>1, <3>2, QueueGrows
    <3>4. Complete'
      BY <3>1, <3>2, <3>3 DEF Owned, Complete, Apart, Working, Waits
    <3>5. Apart'
      BY <3>1, <3>2, <3>3 DEF Owned, Complete, Apart, Working, Waits
    <3> QED BY <3>4, <3>5 DEF Owned
  <2> QED BY <1>8, <2>1, <2>2 DEF RecoveryStep
<1>9. CASE UNCHANGED claimVars
  BY <1>9 DEF claimVars, Owned, Complete, Apart, Working, Waits
<1> QED
  BY <1>1, <1>2, <1>3, <1>4, <1>5, <1>6, <1>7, <1>8, <1>9, ClaimSteps

-------------------------------------------------------------------------------
LEMMA RunningSteps ==
    ASSUME [Next]_vars
    PROVE  \/ Start /\ ~up /\ up' /\ life' = life + 1
           \/ Stop /\ up /\ ~up' /\ life' = life
           \/ up /\ up' = up /\ life' = life
           \/ UNCHANGED vars
<1>1. CASE AddStep \/ ProduceStep \/ \E f \in Flusher : ForceFlush(f)
  BY <1>1 DEF AddStep, ProduceStep, Admit, Refuse, Add, Spawn, CreateFile, WriteFails,
     PublishFile, Send, ForceFlush, procVars
<1>2. CASE TickerStep \/ CallStep
  BY <1>2 DEF TickerStep, Tick, TickTable, TickDone, TickerExit, Age, CallStep, Flush,
     FlushAndWait, Begin, BeginFails, FlushedAll, SendBarrier, Abandon, procVars
<1>3. CASE WriterStep \/ RecoveryStep
  BY <1>3 DEF WriterStep, Receive, WriterExit, LoadSucceeds, LoadFails, BackoffElapses,
     GiveUp, RemoveFile, RecoveryStep, StopQueueing, QueuePending, procVars
<1>4. CASE CloseStep
  BY <1>4 DEF CloseStep, Close, Deadline, AwaitTicker, AwaitOperations, CloserFlushed,
     AwaitProducers, AwaitWriter, Closed, procVars
<1>5. CASE Start \/ Stop
  BY <1>5 DEF Start, Stop
<1> QED BY <1>1, <1>2, <1>3, <1>4, <1>5 DEF Next

LEMMA SitedStep ==
  ASSUME TypeOK, Shape, Sited, Complete, Counted, [Next]_vars
  PROVE  Sited'
<1>1. CASE UNCHANGED placeVars
  BY <1>1 DEF placeVars, Sited, Batches, Accepted, NotYet, Files, Kept, Making, Past, Filed, Loaded
<1> QED
  BY <1>1, RowSteps, SitedAdders, SitedSwapOut, SitedProducers, SitedWriter, SitedStop

LEMMA DownStep ==
  ASSUME TypeOK, Down, [Next]_vars
  PROVE  Down'
<1>1. CASE Stop
  BY <1>1 DEF Stop, Down, TypeOK, AdderStates
<1>2. CASE UNCHANGED vars
  BY <1>2 DEF vars, procVars, bufVars, prodVars, callVars, chanVars, writeVars, ctrlVars,
     diskVars, Down
<1>3. CASE up'
  BY <1>3 DEF Down
<1> QED BY <1>1, <1>2, <1>3, RunningSteps

LEMMA CountedInit == Init => Counted
  BY DEF Init, Counted, Producer

LEMMA CountedStep ==
  ASSUME TypeOK, Sited, Owned, Down, Counted, [Next]_vars
  PROVE  Counted'
<1> USE DEF TypeOK
<1>1. CASE Start
  <2>1. /\ loads' = [r \in Row |-> 0]
        /\ UNCHANGED <<held, stage, flushCh, wpc, job, copies>>
        /\ pending' \in findPendingParquet(disk)
    BY <1>1 DEF Start, prodVars, chanVars, writeVars
  <2>2. \A f \in pending' : f \subseteq Row
    BY <2>1 DEF findPendingParquet
  <2>3. flushCh = <<>> /\ wpc = "recv" /\ \A p \in Producer : stage[p] = "none"
    BY <1>1 DEF Start, Down
  <2>4. \A r \in Row : loads'[r] = 0
    BY <2>1
  <2> QED BY <2>1, <2>2, <2>3, <2>4 DEF Counted, Loaded
<1>2. CASE Stop
  BY <1>2 DEF Stop, Counted, Loaded
<1>3. ASSUME NEW r \in Row, Add(r) \/ Spawn(r) PROVE Counted'
  <2>1. r \in Producer /\ UNCHANGED <<loads, copies, flushCh, pending, wpc, job>>
    BY <1>3 DEF Add, Spawn, Producer, procVars, chanVars, writeVars, ctrlVars, diskVars
  <2>2. \A p \in Producer : stage'[p] = "send" => stage[p] = "send" /\ held'[p] = held[p]
    BY <1>3, <2>1 DEF Add, Spawn, InTable
  <2> QED BY <2>1, <2>2 DEF Counted, Loaded
<1>4. ASSUME NEW f \in Flusher, SwapOut(f), UNCHANGED otherVars PROVE Counted'
  BY <1>4 DEF SwapOut, Producer, otherVars, Counted, Loaded
<1>5. ASSUME NEW p \in Producer, CreateFile(p) \/ WriteFails(p) PROVE Counted'
  <2>1. UNCHANGED <<loads, copies, flushCh, pending, wpc, job>>
    BY <1>5 DEF CreateFile, WriteFails, procVars, chanVars, writeVars, ctrlVars
  <2>2. \A q \in Producer : stage'[q] = "send" => stage[q] = "send" /\ held'[q] = held[q]
    BY <1>5 DEF CreateFile, WriteFails, Release
  <2> QED BY <2>1, <2>2 DEF Counted, Loaded
<1>6. ASSUME NEW p \in Producer, PublishFile(p) PROVE Counted'
  <2>1. /\ stage[p] = "publish" /\ stage' = [stage EXCEPT ![p] = "send"]
        /\ UNCHANGED <<loads, copies, held, flushCh, pending, wpc, job>>
    BY <1>6 DEF PublishFile, procVars, chanVars, writeVars, ctrlVars
  <2>2. \A r \in held[p] : loads[r] = 0
    <3>1. \A r \in held[p] : r \in Row /\ ~Loaded(r)
      BY <2>1 DEF Sited, NotYet, Making, Past
    <3> QED BY <3>1 DEF Counted
  <2> QED BY <2>1, <2>2 DEF Counted, Loaded
<1>7. ASSUME NEW p \in Producer, Send(p) PROVE Counted'
  <2>1. /\ stage[p] = "send"
        /\ flushCh' = Append(flushCh, FileJob(held[p]))
        /\ UNCHANGED <<loads, copies, pending, wpc, job>>
    BY <1>7 DEF Send, procVars, writeVars, ctrlVars, diskVars
  <2>2. \A q \in Producer : stage'[q] = "send" => stage[q] = "send" /\ held'[q] = held[q]
    BY <1>7 DEF Send, Release
  <2>3. /\ Len(flushCh)' = Len(flushCh) + 1 /\ Len(flushCh) \in Nat
        /\ \A i \in 1..(Len(flushCh) + 1) :
              flushCh'[i] = IF i = Len(flushCh) + 1 THEN FileJob(held[p]) ELSE flushCh[i]
    BY <2>1, JobFacts, QueueGrows
  <2>4. FileJob(held[p]).file = held[p]
    BY JobFacts
  <2> QED BY <2>1, <2>2, <2>3, <2>4 DEF Counted, Loaded
<1>8. ASSUME NEW c \in Call, SendBarrier(c) PROVE Counted'
  <2>1. flushCh' = Append(flushCh, Barrier(c)) /\ UNCHANGED <<loads, copies, held, stage, pending, wpc, job>>
    BY <1>8 DEF SendBarrier, procVars, prodVars, writeVars, ctrlVars, diskVars
  <2>2. /\ Len(flushCh)' = Len(flushCh) + 1 /\ Len(flushCh) \in Nat
        /\ \A i \in 1..(Len(flushCh) + 1) :
              flushCh'[i] = IF i = Len(flushCh) + 1 THEN Barrier(c) ELSE flushCh[i]
    BY <2>1, JobFacts, QueueGrows
  <2>3. Barrier(c).file = {}
    BY JobFacts
  <2> QED BY <2>1, <2>2, <2>3 DEF Counted, Loaded
<1>9. CASE Receive
  <2>1. /\ wpc = "recv" /\ flushCh # <<>> /\ flushCh' = Tail(flushCh)
        /\ UNCHANGED <<loads, copies, held, stage, pending>>
        /\ \/ UNCHANGED <<wpc, job>>
           \/ wpc' = "load" /\ job' = flushCh[1].file
    BY <1>9, QueueShrinks DEF Receive, procVars, prodVars, ctrlVars, diskVars
  <2>2. /\ Len(flushCh)' = Len(flushCh) - 1 /\ Len(flushCh) \in Nat \ {0}
        /\ \A i \in 1..(Len(flushCh) - 1) : flushCh'[i] = flushCh[i + 1]
    BY <2>1, QueueShrinks
  <2> QED BY <2>1, <2>2 DEF Counted, Loaded
<1>10. CASE LoadSucceeds
  <2>1. /\ wpc = "load" /\ wpc' = "remove" /\ job \in disk
        /\ UNCHANGED <<held, stage, flushCh, pending, job>>
    BY <1>10 DEF LoadSucceeds, prodVars, chanVars, ctrlVars, Owned, Complete, Working
  <2>2. /\ \A r \in Row \ job : copies'[r] = copies[r] /\ loads'[r] = loads[r]
        /\ \A r \in job : /\ r \in Row /\ copies'[r] \in {1, copies[r] + 1}
                          /\ loads'[r] = loads[r] + 1
    <3>1. /\ copies' = loadParquet(job) /\ job \subseteq Row /\ loads \in [Row -> Nat]
          /\ loads' = [r \in Row |-> loads[r] + IF r \in job THEN 1 ELSE 0]
      BY <1>10 DEF LoadSucceeds
    <3>2. /\ \A r \in Row \ job : copies'[r] = copies[r]
          /\ \A r \in job : r \in Row /\ copies'[r] \in {1, copies[r] + 1}
      BY <3>1 DEF loadParquet
    <3>3. /\ \A r \in Row \ job : loads'[r] = loads[r]
          /\ \A r \in job : r \in Row /\ loads'[r] = loads[r] + 1
      <4> HIDE DEF TypeOK
      <4> QED BY <3>1
    <3> QED BY <3>2, <3>3
  <2>3. \A f \in disk : f # job => \A r \in f : r \in Row \ job
    BY <2>1 DEF Sited, Files
  <2>4. \A r \in job : loads[r] = 0
    BY <2>1 DEF Counted
  <2>5. \A r \in job : copies'[r] > 0
    <3>1. \A r \in Row : copies[r] \in Nat
      OBVIOUS
    <3> HIDE DEF TypeOK
    <3> QED BY <2>2, <3>1
  <2>6. \A r \in Row : loads'[r] <= 1 /\ (~(copies'[r] > 0) => loads'[r] = 0)
    <3>1. \A r \in Row : loads[r] \in Nat /\ loads[r] <= 1 /\ (~(copies[r] > 0) => loads[r] = 0)
      BY DEF Counted, Loaded
    <3> HIDE DEF TypeOK
    <3> QED BY <2>2, <2>4, <2>5, <3>1
  <2>7. \A p \in Producer : stage[p] = "send" => \A r \in held[p] : loads'[r] = 0
    BY <2>2, <2>3 DEF Counted, Owned, Complete, Apart
  <2>8. \A i \in 1..Len(flushCh) : \A r \in flushCh[i].file : loads'[r] = 0
    <3> HIDE DEF TypeOK
    <3>1. ASSUME NEW i \in 1..Len(flushCh)
          PROVE  flushCh[i].file = {} \/ (flushCh[i].file \in disk /\ flushCh[i].file # job)
      BY DEF Owned, Complete, Apart, Waits
    <3>2. \A i \in 1..Len(flushCh) : \A r \in flushCh[i].file : loads[r] = 0
      BY DEF Counted
    <3> QED BY <2>2, <2>3, <3>1, <3>2
  <2>9. \A f \in pending : \A r \in f : loads'[r] = 0
    <3> HIDE DEF TypeOK
    <3>1. \A f \in pending : f \in disk /\ f # job /\ \A r \in f : loads[r] = 0
      BY DEF Counted, Owned, Complete, Apart
    <3> QED BY <2>2, <2>3, <3>1
  <2> QED BY <2>1, <2>5, <2>6, <2>7, <2>8, <2>9 DEF Counted, Loaded
<1>11. CASE WriterExit \/ LoadFails \/ BackoffElapses \/ GiveUp \/ RemoveFile
  <2>1. /\ UNCHANGED <<loads, copies, held, stage, flushCh, pending>>
        /\ \/ wpc \in {"load", "backoff"} /\ wpc' \in {"backoff", "giveup"} /\ job' = job
           \/ wpc' \in {"recv", "exited"}
    BY <1>11 DEF WriterExit, LoadFails, BackoffElapses, GiveUp, RemoveFile, procVars, prodVars,
       chanVars, ctrlVars, diskVars
  <2> QED BY <2>1 DEF Counted, Loaded
<1>12. CASE RecoveryStep
  <2>1. CASE StopQueueing
    BY <2>1 DEF StopQueueing, procVars, prodVars, chanVars, writeVars, diskVars, Counted, Loaded
  <2>2. ASSUME NEW f \in pending, QueuePending(f) PROVE Counted'
    <3>1. /\ flushCh' = Append(flushCh, FileJob(f)) /\ pending' = pending \ {f}
          /\ UNCHANGED <<loads, copies, held, stage, wpc, job>>
      BY <2>2 DEF QueuePending, procVars, prodVars, writeVars, diskVars
    <3>2. FileJob(f) \in Job /\ FileJob(f).file = f
      BY JobFacts
    <3>3. /\ Len(flushCh)' = Len(flushCh) + 1 /\ Len(flushCh) \in Nat
          /\ \A i \in 1..(Len(flushCh) + 1) :
                flushCh'[i] = IF i = Len(flushCh) + 1 THEN FileJob(f) ELSE flushCh[i]
      BY <3>1, <3>2, QueueGrows
    <3> QED BY <3>1, <3>2, <3>3 DEF Counted, Loaded
  <2> QED BY <1>12, <2>1, <2>2 DEF RecoveryStep
<1>13. CASE UNCHANGED claimVars
  BY <1>13 DEF claimVars, Counted, Loaded
<1> QED
  BY <1>1, <1>2, <1>3, <1>4, <1>5, <1>6, <1>7, <1>8, <1>9, <1>10, <1>11, <1>12, <1>13,
     ClaimSteps DEF WriterStep

LEMMA EndingInit == Init => Ending
  BY DEF Init, Ending

(* Once the writer has left, the channel is closed and stays empty. *)
LEMMA EndingStep ==
  ASSUME TypeOK, Shape, Shutdown, NoSendOnClosed, Ending, [Next]_vars
  PROVE  Ending'
<1>1. sealed <=> closer \in {"writer", "closed"}
  BY DEF Shutdown
<1>2. CASE Start
  BY <1>2 DEF Start, Shape, Ending, chanVars, writeVars
<1>3. CASE Stop
  BY <1>3 DEF Stop, Ending
<1>4. CASE UNCHANGED vars
  BY <1>4 DEF vars, chanVars, writeVars, ctrlVars, Ending
<1>5. CASE AddStep \/ TickerStep \/ \E f \in Flusher : ForceFlush(f)
  <2>1. UNCHANGED <<flushCh, sealed, wpc, closer>>
    BY <1>5 DEF AddStep, Admit, Refuse, Add, Spawn, TickerStep, Tick, TickTable, TickDone,
       TickerExit, Age, ForceFlush, chanVars, writeVars, ctrlVars
  <2> QED BY <2>1 DEF Ending
<1>6. CASE ProduceStep
  <2>1. UNCHANGED <<sealed, wpc, closer>> /\ (sealed => flushCh' = flushCh)
    BY <1>6 DEF ProduceStep, CreateFile, WriteFails, PublishFile, Send, chanVars, writeVars,
       ctrlVars, NoSendOnClosed
  <2> QED BY <2>1 DEF Ending
<1>7. CASE CallStep
  <2>1. UNCHANGED <<sealed, wpc, closer>> /\ (sealed => flushCh' = flushCh)
    BY <1>7 DEF CallStep, Flush, FlushAndWait, Begin, BeginFails, FlushedAll, SendBarrier,
       Abandon, chanVars, writeVars, ctrlVars, NoSendOnClosed
  <2> QED BY <2>1 DEF Ending
<1>8. CASE RecoveryStep
  <2>1. UNCHANGED <<sealed, wpc, closer>> /\ (sealed => flushCh' = flushCh)
    BY <1>8 DEF RecoveryStep, QueuePending, StopQueueing, chanVars, writeVars,
       NoSendOnClosed
  <2> QED BY <2>1 DEF Ending
<1>9. CASE WriterStep
  BY <1>9 DEF WriterStep, Receive, WriterExit, LoadSucceeds, LoadFails, BackoffElapses,
     GiveUp, RemoveFile, Ending, chanVars, ctrlVars
<1>10. CASE CloseStep
  BY <1>10, <1>1 DEF CloseStep, Close, Deadline, AwaitTicker, AwaitOperations, CloserFlushed,
     AwaitProducers, AwaitWriter, Closed, vars, chanVars, writeVars, ctrlVars, Ending
<1> QED
  BY <1>2, <1>3, <1>4, <1>5, <1>6, <1>7, <1>8, <1>9, <1>10 DEF Next

LEMMA RowInit == Init => RowInv
  BY InitInv, SitedInit, ClaimsInit, CountedInit, EndingInit DEF RowInv, Placed, Down, Init

LEMMA RowStep == RowInv /\ [Next]_vars => RowInv'
<1> SUFFICES ASSUME RowInv, [Next]_vars PROVE RowInv'
  OBVIOUS
<1> USE DEF RowInv, Placed
<1>1. IInv'
  BY InvStep
<1>2. TypeOK /\ Shape /\ Shutdown /\ NoSendOnClosed
  BY ShutdownExcludesSenders DEF IInv
<1>3. Sited'
  BY <1>2, SitedStep DEF Owned
<1>4. Owned' /\ Down' /\ Counted' /\ Ending'
  BY <1>2, ClaimsStep, DownStep, CountedStep, EndingStep
<1> QED BY <1>1, <1>3, <1>4

LEMMA RowInductive == Spec => []RowInv
BY RowInit, RowStep, PTL DEF Spec

\* Within one process a row reaches the database at most once, whatever loads,
\* renames and removals fail: only a later process repeats a load.
THEOREM LoadsOncePerLife == Spec => []OncePerLife
<1>1. RowInv => OncePerLife
  BY DEF RowInv, Placed, Counted, OncePerLife
<1> QED BY <1>1, RowInductive, PTL

\* Once Close has returned no step of this process changes the database, so its
\* caller may close DuckDB: no load is in flight and nothing can start one.
THEOREM QuietOnceClosed == Spec => QuietAfterClose
<1>1. RowInv /\ [Next]_vars => [up /\ closer = "closed" => UNCHANGED copies]_vars
  <2> SUFFICES ASSUME RowInv, [Next]_vars, up, closer = "closed" PROVE UNCHANGED copies
    OBVIOUS
  <2>1. wpc = "exited"
    BY DEF RowInv, Placed, Ending
  <2>2. \A p \in Producer : stage[p] = "none"
    BY ShutdownExcludesSenders DEF RowInv, IInv, Shutdown, NoSendOnClosed
  <2> QED
    BY <2>1, <2>2, RowSteps DEF Stop, Admit, Refuse, Add, Spawn, CreateFile, WriteFails,
       PublishFile, Send, LoadSucceeds, GiveUp, RemoveFile, diskVars, placeVars
<1> QED BY <1>1, RowInductive, PTL DEF Spec, QuietAfterClose

-------------------------------------------------------------------------------
(* Somebody will have file f loaded. *)
Claimed(f) ==
    \/ f \in pending
    \/ Working /\ f = job
    \/ \E p \in Producer : stage[p] = "send" /\ held[p] = f
    \/ \E i \in 1..Len(flushCh) : flushCh[i].file = f

(* A file keeps its claim until the writer is done with it, passes it over after
   the deadline, or recovery is told to stop. *)
LEMMA ClaimPersists ==
  ASSUME RowInv, [Next]_vars, ~Stop, NEW f \in disk, Claimed(f)
  PROVE  \/ Claimed(f)'
         \/ f = job /\ (GiveUp \/ RemoveFile)
         \/ Receive /\ cancelled
         \/ StopQueueing /\ pending # {}
<1> USE DEF TypeOK, RowInv, IInv
<1>0. f # {} /\ Owned
  BY ZenonT(30) DEF Placed, Sited, Files
<1>1. CASE Start
  <2>1. /\ \A p \in Producer : stage[p] = "none"
        /\ flushCh = <<>> /\ pending = {} /\ ~Working
    BY <1>1 DEF Start, Placed, Down, Working
  <2> QED BY <2>1 DEF Claimed
<1>2. ASSUME NEW r \in Row, Add(r) \/ Spawn(r) PROVE Claimed(f)'
  <2>1. r \in Producer /\ UNCHANGED <<flushCh, pending, wpc, job>>
    BY <1>2 DEF Add, Spawn, Producer, chanVars, writeVars, ctrlVars
  <2>2. stage[r] # "send"
    BY <1>2 DEF Add, Spawn, Placed, Sited, Accepted
  <2>3. \A p \in Producer : stage[p] = "send" => stage'[p] = "send" /\ held'[p] = held[p]
    BY <1>2, <2>1, <2>2 DEF Add, Spawn, InTable
  <2> QED BY <2>1, <2>3 DEF Claimed, Working
<1>3. ASSUME NEW g \in Flusher, Visiting(g), SwapOut(g), UNCHANGED otherVars PROVE Claimed(f)'
  <2>1. \A p \in Producer : stage[p] = "send" => stage'[p] = "send" /\ held'[p] = held[p]
    BY <1>3 DEF Visiting, SwapOut
  <2> QED BY <1>3, <2>1 DEF Claimed, Working, otherVars
<1>4. ASSUME NEW p \in Producer, CreateFile(p) \/ WriteFails(p) \/ PublishFile(p) PROVE Claimed(f)'
  <2>1. stage[p] # "send" /\ UNCHANGED <<flushCh, pending, wpc, job>>
    BY <1>4 DEF CreateFile, WriteFails, PublishFile, chanVars, writeVars, ctrlVars
  <2>2. \A q \in Producer : stage[q] = "send" => stage'[q] = "send" /\ held'[q] = held[q]
    BY <1>4, <2>1 DEF CreateFile, WriteFails, PublishFile, Release
  <2> QED BY <2>1, <2>2 DEF Claimed, Working
<1>5. ASSUME NEW p \in Producer, Send(p) PROVE Claimed(f)'
  <2>1. flushCh' = Append(flushCh, FileJob(held[p])) /\ UNCHANGED <<pending, wpc, job>>
    BY <1>5 DEF Send, writeVars, ctrlVars
  <2>2. \A q \in Producer : stage[q] = "send" /\ q # p => stage'[q] = "send" /\ held'[q] = held[q]
    BY <1>5 DEF Send, Release
  <2>3. /\ Len(flushCh)' = Len(flushCh) + 1 /\ Len(flushCh) \in Nat
        /\ \A i \in 1..(Len(flushCh) + 1) :
              flushCh'[i] = IF i = Len(flushCh) + 1 THEN FileJob(held[p]) ELSE flushCh[i]
    BY <2>1, JobFacts, QueueGrows
  <2>4. FileJob(held[p]).file = held[p]
    BY JobFacts
  <2>5. held[p] = f => Claimed(f)'
    <3>1. Len(flushCh) + 1 \in 1..Len(flushCh)' /\ flushCh'[Len(flushCh) + 1] = FileJob(held[p])
      BY <2>3
    <3> QED BY <2>4, <3>1 DEF Claimed
  <2>6. \A i \in 1..Len(flushCh) : i \in 1..Len(flushCh)' /\ flushCh'[i] = flushCh[i]
    BY <2>3
  <2> HIDE DEF TypeOK
  <2> QED BY <2>1, <2>2, <2>5, <2>6 DEF Claimed, Working
<1>6. ASSUME NEW c \in Call, SendBarrier(c) PROVE Claimed(f)'
  <2>1. flushCh' = Append(flushCh, Barrier(c)) /\ UNCHANGED <<held, stage, pending, wpc, job>>
    BY <1>6 DEF SendBarrier, prodVars, writeVars, ctrlVars
  <2>2. /\ Len(flushCh)' = Len(flushCh) + 1 /\ Len(flushCh) \in Nat
        /\ \A i \in 1..Len(flushCh) : flushCh'[i] = flushCh[i]
    BY <2>1, JobFacts, QueueGrows
  <2> QED BY <2>1, <2>2 DEF Claimed, Working
<1>7. CASE Receive /\ ~cancelled
  <2>1. /\ wpc = "recv" /\ flushCh # <<>> /\ flushCh' = Tail(flushCh)
        /\ UNCHANGED <<held, stage, pending>>
        /\ \/ ~Waits(1) /\ UNCHANGED <<wpc, job>>
           \/ wpc' = "load" /\ job' = flushCh[1].file
    BY <1>7, QueueShrinks DEF Receive, prodVars, ctrlVars, Waits
  <2>2. /\ Len(flushCh)' = Len(flushCh) - 1 /\ Len(flushCh) \in Nat \ {0}
        /\ \A i \in 1..(Len(flushCh) - 1) : flushCh'[i] = flushCh[i + 1]
    BY <2>1, QueueShrinks
  <2>3. ~Waits(1) => flushCh[1].file # f
    <3> HIDE DEF TypeOK
    <3>1. 1 \in 1..Len(flushCh)
      BY <2>2
    <3> QED BY <1>0, <3>1 DEF Owned, Complete
  <2>4. CASE \E i \in 1..Len(flushCh) : flushCh[i].file = f
    <3>1. PICK i \in 1..Len(flushCh) : flushCh[i].file = f
      BY <2>4
    <3>2. CASE i = 1
      BY <2>1, <2>3, <3>1, <3>2 DEF Claimed, Working
    <3>3. CASE i # 1
      <4> HIDE DEF TypeOK
      <4>1. i - 1 \in 1..(Len(flushCh) - 1) /\ (i - 1) + 1 = i
        BY <2>2, <3>3
      <4>2. i - 1 \in 1..Len(flushCh)' /\ flushCh'[i - 1].file = f
        BY <2>2, <3>1, <4>1
      <4> QED BY <4>2 DEF Claimed
    <3> QED BY <3>2, <3>3
  <2> QED BY <2>1, <2>4 DEF Claimed, Working
<1>8. CASE GiveUp \/ RemoveFile
  <2>1. wpc' = "recv" /\ UNCHANGED <<held, stage, flushCh, pending>>
    BY <1>8 DEF GiveUp, RemoveFile, prodVars, chanVars, ctrlVars
  <2> QED BY <1>8, <2>1 DEF Claimed
<1>9. CASE WriterExit \/ LoadSucceeds \/ LoadFails \/ BackoffElapses
  <2>1. (Working <=> Working') /\ UNCHANGED <<held, stage, flushCh, pending, job>>
    BY <1>9 DEF WriterExit, LoadSucceeds, LoadFails, BackoffElapses, Working, prodVars, chanVars, ctrlVars
  <2> HIDE DEF Working
  <2> QED BY <2>1 DEF Claimed
<1>10. ASSUME NEW g \in pending, QueuePending(g) PROVE Claimed(f)'
  <2>1. /\ flushCh' = Append(flushCh, FileJob(g)) /\ pending' = pending \ {g}
        /\ UNCHANGED <<held, stage, wpc, job>>
    BY <1>10 DEF QueuePending, prodVars, writeVars
  <2>2. FileJob(g) \in Job /\ FileJob(g).file = g
    BY JobFacts
  <2>3. /\ Len(flushCh)' = Len(flushCh) + 1 /\ Len(flushCh) \in Nat
        /\ \A i \in 1..(Len(flushCh) + 1) :
              flushCh'[i] = IF i = Len(flushCh) + 1 THEN FileJob(g) ELSE flushCh[i]
    BY <2>1, <2>2, QueueGrows
  <2>4. \A i \in 1..Len(flushCh) : i \in 1..Len(flushCh)' /\ flushCh'[i] = flushCh[i]
    <3> HIDE DEF TypeOK
    <3> QED BY <2>3
  <2>5. g = f => Claimed(f)'
    <3> HIDE DEF TypeOK
    <3>1. Len(flushCh) + 1 \in 1..Len(flushCh)' /\ flushCh'[Len(flushCh) + 1] = FileJob(g)
      BY <2>3
    <3> QED BY <2>2, <3>1 DEF Claimed
  <2> HIDE DEF TypeOK
  <2> QED BY <2>1, <2>4, <2>5 DEF Claimed, Working
<1>11. CASE UNCHANGED claimVars
  BY <1>11 DEF claimVars, Claimed, Working
<1>12. CASE StopQueueing
  BY <1>12 DEF StopQueueing
<1> QED
  BY <1>1, <1>2, <1>3, <1>4, <1>5, <1>6, <1>7, <1>8, <1>9, <1>10, <1>11, <1>12,
     ClaimSteps DEF WriterStep, RecoveryStep

(* Only a start lets anybody claim a complete file that nobody claimed. *)
LEMMA UnclaimedPersists ==
  ASSUME RowInv, [Next]_vars, ~Start, NEW f \in disk, ~Claimed(f)
  PROVE  ~Claimed(f)'
<1> USE DEF TypeOK, RowInv, IInv
<1>0. f # {} /\ Owned
  BY ZenonT(30) DEF Placed, Sited, Files
<1>1. CASE Stop
  <2>1. /\ pending' = {} /\ flushCh' = <<>> /\ wpc' = "recv" /\ \A p \in Producer : stage'[p] = "none"
    BY <1>1 DEF Stop
  <2> QED BY <2>1 DEF Claimed, Working
<1>2. ASSUME NEW r \in Row, Add(r) \/ Spawn(r) PROVE ~Claimed(f)'
  <2>1. r \in Producer /\ UNCHANGED <<flushCh, pending, wpc, job>>
    BY <1>2 DEF Add, Spawn, Producer, chanVars, writeVars, ctrlVars
  <2>2. \A p \in Producer : stage'[p] = "send" => stage[p] = "send" /\ held'[p] = held[p]
    BY <1>2, <2>1 DEF Add, Spawn, InTable
  <2> QED BY <2>1, <2>2 DEF Claimed, Working
<1>3. ASSUME NEW g \in Flusher, SwapOut(g), UNCHANGED otherVars PROVE ~Claimed(f)'
  <2>1. \A p \in Producer : stage'[p] = "send" => stage[p] = "send" /\ held'[p] = held[p]
    BY <1>3 DEF SwapOut
  <2> QED BY <1>3, <2>1 DEF Claimed, Working, otherVars
<1>4. ASSUME NEW p \in Producer, CreateFile(p) \/ WriteFails(p) PROVE ~Claimed(f)'
  <2>1. UNCHANGED <<flushCh, pending, wpc, job>>
    BY <1>4 DEF CreateFile, WriteFails, chanVars, writeVars, ctrlVars
  <2>2. \A q \in Producer : stage'[q] = "send" => stage[q] = "send" /\ held'[q] = held[q]
    BY <1>4 DEF CreateFile, WriteFails, Release
  <2> QED BY <2>1, <2>2 DEF Claimed, Working
<1>5. ASSUME NEW p \in Producer, PublishFile(p) PROVE ~Claimed(f)'
  <2>1. /\ stage[p] = "publish" /\ stage' = [stage EXCEPT ![p] = "send"]
        /\ UNCHANGED <<held, flushCh, pending, wpc, job>>
    BY <1>5 DEF PublishFile, chanVars, writeVars, ctrlVars
  <2>2. held[p] # f
    <3>1. PICK x \in f : TRUE
      BY <1>0
    <3>2. x \in Row /\ Filed(x)
      BY <3>1 DEF Filed
    <3> QED BY <2>1, <3>1, <3>2 DEF Placed, Sited, NotYet, Making, Past
  <2> QED BY <2>1, <2>2 DEF Claimed, Working
<1>6. ASSUME NEW p \in Producer, Send(p) PROVE ~Claimed(f)'
  <2>1. /\ stage[p] = "send" /\ flushCh' = Append(flushCh, FileJob(held[p]))
        /\ UNCHANGED <<pending, wpc, job>>
    BY <1>6 DEF Send, writeVars, ctrlVars
  <2>2. \A q \in Producer : stage'[q] = "send" => stage[q] = "send" /\ held'[q] = held[q]
    BY <1>6 DEF Send, Release
  <2>3. /\ Len(flushCh)' = Len(flushCh) + 1 /\ Len(flushCh) \in Nat
        /\ \A i \in 1..(Len(flushCh) + 1) :
              flushCh'[i] = IF i = Len(flushCh) + 1 THEN FileJob(held[p]) ELSE flushCh[i]
    BY <2>1, JobFacts, QueueGrows
  <2>4. FileJob(held[p]).file = held[p]
    BY JobFacts
  <2> QED BY <2>1, <2>2, <2>3, <2>4 DEF Claimed, Working
<1>7. ASSUME NEW c \in Call, SendBarrier(c) PROVE ~Claimed(f)'
  <2>1. flushCh' = Append(flushCh, Barrier(c)) /\ UNCHANGED <<held, stage, pending, wpc, job>>
    BY <1>7 DEF SendBarrier, prodVars, writeVars, ctrlVars
  <2>2. /\ Len(flushCh)' = Len(flushCh) + 1 /\ Len(flushCh) \in Nat
        /\ \A i \in 1..(Len(flushCh) + 1) :
              flushCh'[i] = IF i = Len(flushCh) + 1 THEN Barrier(c) ELSE flushCh[i]
    BY <2>1, JobFacts, QueueGrows
  <2>3. Barrier(c).file = {}
    BY JobFacts
  <2> QED BY <1>0, <2>1, <2>2, <2>3 DEF Claimed, Working
<1>8. CASE Receive
  <2>1. /\ flushCh # <<>> /\ flushCh' = Tail(flushCh)
        /\ UNCHANGED <<held, stage, pending>>
        /\ \/ UNCHANGED <<wpc, job>>
           \/ job' = flushCh[1].file
    BY <1>8, QueueShrinks DEF Receive, prodVars, ctrlVars
  <2>2. /\ Len(flushCh)' = Len(flushCh) - 1 /\ Len(flushCh) \in Nat \ {0}
        /\ \A i \in 1..(Len(flushCh) - 1) : flushCh'[i] = flushCh[i + 1]
    BY <2>1, QueueShrinks
  <2> QED BY <2>1, <2>2 DEF Claimed, Working
<1>9. CASE WriterExit \/ LoadSucceeds \/ LoadFails \/ BackoffElapses \/ GiveUp \/ RemoveFile
  <2>1. (Working' => Working /\ job' = job) /\ UNCHANGED <<held, stage, flushCh, pending>>
    BY <1>9 DEF WriterExit, LoadSucceeds, LoadFails, BackoffElapses, GiveUp, RemoveFile, Working,
       prodVars, chanVars, ctrlVars
  <2> HIDE DEF Working
  <2> QED BY <2>1 DEF Claimed
<1>10. CASE StopQueueing
  BY <1>10 DEF StopQueueing, Claimed, Working, prodVars, chanVars, writeVars
<1>11. ASSUME NEW g \in pending, QueuePending(g) PROVE ~Claimed(f)'
  <2>1. /\ flushCh' = Append(flushCh, FileJob(g)) /\ pending' = pending \ {g}
        /\ UNCHANGED <<held, stage, wpc, job>>
    BY <1>11 DEF QueuePending, prodVars, writeVars
  <2>2. FileJob(g) \in Job /\ FileJob(g).file = g
    BY JobFacts
  <2>3. /\ Len(flushCh)' = Len(flushCh) + 1 /\ Len(flushCh) \in Nat
        /\ \A i \in 1..(Len(flushCh) + 1) :
              flushCh'[i] = IF i = Len(flushCh) + 1 THEN FileJob(g) ELSE flushCh[i]
    BY <2>1, <2>2, QueueGrows
  <2> QED BY <2>1, <2>2, <2>3 DEF Claimed, Working
<1>12. CASE UNCHANGED claimVars
  BY <1>12 DEF claimVars, Claimed, Working
<1> QED
  BY <1>1, <1>2, <1>3, <1>4, <1>5, <1>6, <1>7, <1>8, <1>9, <1>10, <1>11, <1>12,
     ClaimSteps DEF WriterStep, RecoveryStep

-------------------------------------------------------------------------------
(* In the first process: every temporary file belongs to its producer, and unless
   the disk fails or the deadline passes, somebody answers for every complete file. *)
FirstLife ==
    /\ up => \A f \in tmp : \E p \in Producer : stage[p] = "publish" /\ f = held[p]
    /\ up /\ life = 1 => pending = {}
    /\ up /\ life = 1 /\ ~DiskFaults => dropped = {}
    /\ up /\ life = 1 /\ ~DiskFaults /\ ~cancelled => \A f \in disk : Claimed(f)

LEMMA FirstLifeInit == Init => FirstLife
  BY DEF Init, FirstLife

LEMMA FirstLifeStep ==
  ASSUME RowInv, FirstLife, [Next]_vars
  PROVE  FirstLife'
<1> USE DEF TypeOK, RowInv, IInv
<1>1. CASE Start
  <2>1. up' /\ life' = life + 1 /\ life \in Nat \ {0} /\ tmp' = {}
    BY <1>1, ConstantsAssumption DEF Start
  <2> QED BY <2>1 DEF FirstLife
<1>2. CASE Stop
  BY <1>2 DEF Stop, FirstLife
<1>3. CASE UNCHANGED vars
  BY <1>3 DEF vars, procVars, prodVars, chanVars, writeVars, ctrlVars, diskVars, FirstLife,
     Claimed, Working
<1>4. ASSUME ~Start, ~Stop, ~UNCHANGED vars PROVE FirstLife'
  <2>0. up /\ up' /\ life' = life
    BY <1>4, RunningSteps
  <2> DEFINE Made == \A f \in tmp : \E p \in Producer : stage[p] = "publish" /\ f = held[p]
  <2>1. Made'
    <3>0. Made
      BY <2>0 DEF FirstLife
    <3>1. ASSUME NEW p \in Producer, CreateFile(p) PROVE Made'
      BY <3>0, <3>1 DEF CreateFile, bufVars
    <3>2. ASSUME NEW p \in Producer, WriteFails(p) \/ PublishFile(p) PROVE Made'
      <4>1. tmp' = tmp \ {held[p]}
        BY <3>2 DEF WriteFails, PublishFile
      <4>2. \A q \in Producer : q # p => stage'[q] = stage[q] /\ held'[q] = held[q]
        BY <3>2 DEF WriteFails, PublishFile, Release
      <4> SUFFICES ASSUME NEW g \in tmp'
                   PROVE  \E q \in Producer : stage'[q] = "publish" /\ g = held'[q]
        OBVIOUS
      <4>3. PICK q \in Producer : stage[q] = "publish" /\ g = held[q]
        BY <3>0, <4>1
      <4>4. q # p
        BY <4>1, <4>3
      <4> QED BY <4>2, <4>3, <4>4
    <3>3. ASSUME NEW p \in Producer, Send(p) PROVE Made'
      <4>1. stage[p] = "send" /\ tmp' = tmp
        BY <3>3 DEF Send, diskVars
      <4>2. \A q \in Producer : q # p => stage'[q] = stage[q] /\ held'[q] = held[q]
        BY <3>3 DEF Send, Release
      <4> SUFFICES ASSUME NEW g \in tmp'
                   PROVE  \E q \in Producer : stage'[q] = "publish" /\ g = held'[q]
        OBVIOUS
      <4>3. PICK q \in Producer : stage[q] = "publish" /\ g = held[q]
        BY <3>0, <4>1
      <4> QED BY <4>1, <4>2, <4>3
    <3>4. ASSUME NEW r \in Row, Add(r) \/ Spawn(r) PROVE Made'
      <4>1. stage[r] # "publish" /\ tmp' = tmp
        BY <3>4 DEF Add, Spawn, diskVars, Placed, Sited, Accepted
      <4>2. \A q \in Producer : q # r => stage'[q] = stage[q] /\ held'[q] = held[q]
        BY <3>4 DEF Add, Spawn, InTable
      <4> SUFFICES ASSUME NEW g \in tmp'
                   PROVE  \E q \in Producer : stage'[q] = "publish" /\ g = held'[q]
        OBVIOUS
      <4>3. PICK q \in Producer : stage[q] = "publish" /\ g = held[q]
        BY <3>0, <4>1
      <4> QED BY <4>1, <4>2, <4>3
    <3>5. ASSUME NEW g \in Flusher, Visiting(g), SwapOut(g), UNCHANGED otherVars PROVE Made'
      <4>1. stage[g] # "publish" /\ tmp' = tmp
        BY <3>5 DEF Visiting, otherVars
      <4>2. \A q \in Producer : q # g => stage'[q] = stage[q] /\ held'[q] = held[q]
        BY <3>5 DEF SwapOut
      <4> SUFFICES ASSUME NEW h \in tmp'
                   PROVE  \E q \in Producer : stage'[q] = "publish" /\ h = held'[q]
        OBVIOUS
      <4>3. PICK q \in Producer : stage[q] = "publish" /\ h = held[q]
        BY <3>0, <4>1
      <4> QED BY <4>1, <4>2, <4>3
    <3>6. ASSUME NEW c \in Call, SendBarrier(c) PROVE Made'
      BY <3>0, <3>6 DEF SendBarrier, prodVars, diskVars
    <3>7. CASE WriterStep
      BY <3>0, <3>7 DEF WriterStep, Receive, WriterExit, LoadSucceeds, LoadFails, BackoffElapses,
         GiveUp, RemoveFile, prodVars, diskVars
    <3>8. CASE RecoveryStep
      BY <3>0, <3>8 DEF RecoveryStep, StopQueueing, QueuePending, prodVars, diskVars
    <3>9. CASE UNCHANGED claimVars
      BY <3>0, <3>9 DEF claimVars
    <3> QED
      BY <1>4, <3>1, <3>2, <3>3, <3>4, <3>5, <3>6, <3>7, <3>8, <3>9, ClaimSteps
  <2>2. pending' \subseteq pending
    BY <1>4, ClaimSteps DEF Add, Spawn, CreateFile, WriteFails, PublishFile, Send, otherVars,
       SendBarrier, WriterStep, Receive, WriterExit, LoadSucceeds, LoadFails, BackoffElapses,
       GiveUp, RemoveFile, RecoveryStep, StopQueueing, QueuePending, ctrlVars, claimVars
  <2>3. ~DiskFaults => dropped' = dropped
    BY <1>4, ClaimSteps DEF Add, Spawn, CreateFile, WriteFails, PublishFile, Send, otherVars,
       SendBarrier, WriterStep, Receive, WriterExit, LoadSucceeds, LoadFails, BackoffElapses,
       GiveUp, RemoveFile, RecoveryStep, StopQueueing, QueuePending, diskVars, claimVars
  <2>4. ASSUME life = 1, ~DiskFaults, ~cancelled', NEW f \in disk' PROVE Claimed(f)'
    <3>1. ~cancelled
      <4>1. cancelled => cancelled'
        BY <1>4, ClaimSteps DEF Add, Spawn, CreateFile, WriteFails, PublishFile, Send, otherVars,
           SendBarrier, WriterStep, Receive, WriterExit, LoadSucceeds, LoadFails, BackoffElapses,
           GiveUp, RemoveFile, RecoveryStep, StopQueueing, QueuePending, writeVars, claimVars
      <4> QED BY <2>4, <4>1
    <3>2. pending = {}
      BY <2>0, <2>4 DEF FirstLife
    <3>3. CASE f \in disk
      <4>1. Claimed(f)
        BY <2>0, <2>4, <3>1, <3>3 DEF FirstLife
      <4>2. GiveUp \/ RemoveFile => f # job
        BY <2>4, <3>1 DEF GiveUp, RemoveFile
      <4> QED BY <1>4, <3>1, <3>2, <3>3, <4>1, <4>2, ClaimPersists
    <3>4. CASE f \notin disk
      <4>1. PICK p \in Producer : PublishFile(p)
        BY <1>4, <2>4, <3>4, ClaimSteps DEF Add, Spawn, CreateFile, WriteFails, Send, otherVars,
           SendBarrier, WriterStep, Receive, WriterExit, LoadSucceeds, LoadFails, BackoffElapses,
           GiveUp, RemoveFile, RecoveryStep, StopQueueing, QueuePending, diskVars, claimVars
      <4> QED BY <2>4, <3>4, <4>1 DEF PublishFile, Claimed
    <3> QED BY <3>3, <3>4
  <2> QED BY <2>0, <2>1, <2>2, <2>3, <2>4 DEF FirstLife
<1> QED BY <1>1, <1>2, <1>3, <1>4

FullInv == RowInv /\ FirstLife

LEMMA FullInductive == Spec => []FullInv
<1>1. Init => FullInv
  BY RowInit, FirstLifeInit DEF FullInv
<1>2. FullInv /\ [Next]_vars => FullInv'
  BY RowStep, FirstLifeStep DEF FullInv
<1> QED BY <1>1, <1>2, PTL DEF Spec

-------------------------------------------------------------------------------
LEMMA AtMostOne ==
  ASSUME NEW S, \A x, y \in S : x = y
  PROVE  Cardinality(S) = IF S = {} THEN 0 ELSE 1
<1>1. CASE S = {}
  BY <1>1, FS_EmptySet
<1>2. CASE S # {}
  <2>1. PICK x \in S : TRUE
    BY <1>2
  <2>2. S = {x}
    BY <2>1
  <2> QED BY <1>2, <2>2, FS_Singleton
<1> QED BY <1>1, <1>2

\* No file is ever queued twice or loaded after it is gone: of the senders, the
\* channel, the startup scan and the writer at most one answers for a file, and
\* only for a complete one.
THEOREM ClaimsSound == Spec => []ClaimsAreSound
<1>1. RowInv => ClaimsAreSound
  <2> SUFFICES ASSUME RowInv, NEW f, f # {}
               PROVE  Claims(f) <= (IF f \in disk THEN 1 ELSE 0)
    BY DEF ClaimsAreSound
  <2> USE DEF RowInv, Placed, Owned, IInv, TypeOK
  <2>1. Cardinality(SendersOf(f)) = IF SendersOf(f) = {} THEN 0 ELSE 1
    <3>1. \A x, y \in SendersOf(f) : x = y
      BY DEF SendersOf, Apart
    <3> QED BY <3>1, AtMostOne
  <2>2. Cardinality(QueuedAt(f)) = IF QueuedAt(f) = {} THEN 0 ELSE 1
    <3>1. \A x, y \in QueuedAt(f) : x = y
      BY DEF QueuedAt, Apart, Waits
    <3> QED BY <3>1, AtMostOne
  <2>3. SendersOf(f) # {} =>
          f \in disk /\ QueuedAt(f) = {} /\ f \notin pending /\ ~(Working /\ job = f)
    BY DEF SendersOf, QueuedAt, Apart, Complete
  <2>4. QueuedAt(f) # {} =>
          f \in disk /\ f \notin pending /\ ~(Working /\ job = f)
    BY DEF QueuedAt, Apart, Complete, Waits
  <2>5. f \in pending => f \in disk /\ ~(Working /\ job = f)
    BY DEF Apart, Complete
  <2>6. Working /\ job = f => f \in disk
    BY DEF Complete
  <2> HIDE DEF RowInv, Placed, Owned, IInv, TypeOK, Working
  <2> QED BY <2>1, <2>2, <2>3, <2>4, <2>5, <2>6 DEF Claims
<1> QED BY <1>1, RowInductive, PTL

\* Every accepted row is in exactly one place, through swaps, failed writes,
\* crashes, recovery and quarantine, or it has left the last one for the database.
THEOREM RowsConserved == Spec => []Conservation
<1>1. RowInv => Conservation
  <2> SUFFICES ASSUME RowInv, NEW r \in Row, adder[r] \in {"admitted", "added"}
               PROVE  LET files == Cardinality({f \in disk : r \in f})
                          aside == Cardinality({f \in failed : r \in f})
                          gone  == IF r \in dropped THEN 1 ELSE 0
                          total == Pipeline(r) + files + aside + gone
                      IN total = 1 \/ (total = 0 /\ Loaded(r))
    BY DEF Conservation
  <2> DEFINE files == {f \in disk : r \in f}
             aside == {f \in failed : r \in f}
             makers == {p \in Producer : r \in held[p] /\ stage[p] # "send"}
             here == adder[r] = "admitted" \/ r \in mem
  <2> USE DEF RowInv, Placed, IInv, TypeOK, Sited
  <2>0. \A p \in Producer : r \in held[p] /\ stage[p] # "send" <=> r \in held[p] /\ Making(p)
    BY DEF Batches, Making, Stages
  <2>1. Cardinality(files) = IF files = {} THEN 0 ELSE 1
    <3>1. \A x, y \in files : x = y
      BY DEF Files
    <3> QED BY <3>1, AtMostOne
  <2>2. Cardinality(aside) = IF aside = {} THEN 0 ELSE 1
    <3>1. \A x, y \in aside : x = y
      BY DEF Files
    <3> QED BY <3>1, AtMostOne
  <2>3. Cardinality(makers) = IF makers = {} THEN 0 ELSE 1
    <3>1. \A x, y \in makers : x = y
      BY <2>0 DEF Batches
    <3> QED BY <3>1, AtMostOne
  <2>4. Filed(r) <=> files # {} \/ aside # {}
    BY DEF Filed
  <2>5. ~(files # {} /\ aside # {})
    BY DEF Files
  <2>6. makers # {} => ~here /\ ~Past(r)
    BY <2>0 DEF Batches, Accepted, NotYet
  <2>7. here => ~Past(r)
    BY DEF Accepted, NotYet
  <2>8. r \in dropped => ~Filed(r)
    BY DEF Files
  <2>9. here \/ makers # {} \/ Past(r)
    BY <2>0 DEF Kept
  <2>10. Pipeline(r) = Cardinality(makers) + (IF here THEN 1 ELSE 0)
    BY DEF Pipeline
  <2> HIDE DEF files, aside, makers, here, RowInv
  <2> SUFFICES LET total == Pipeline(r) + Cardinality(files) + Cardinality(aside)
                              + (IF r \in dropped THEN 1 ELSE 0)
               IN total = 1 \/ (total = 0 /\ Loaded(r))
    BY DEF files, aside
  <2> QED
    BY <2>1, <2>2, <2>3, <2>4, <2>5, <2>6, <2>7, <2>8, <2>9, <2>10 DEF Past
<1> QED BY <1>1, RowInductive, PTL

(* What Close has established when it returns. *)
LEMMA ClosedFacts ==
  ASSUME FullInv, closer = "closed"
  PROVE  /\ up /\ mem = {} /\ pending = {} /\ flushCh = <<>> /\ ~Working
         /\ \A p \in Producer : stage[p] = "none"
         /\ \A r \in Row : adder[r] = "added" => Past(r)
<1> USE DEF FullInv, RowInv, Placed, IInv
<1>1. up /\ sealed /\ mem = {} /\ flushCh = <<>> /\ ~Working
  BY DEF Shape, Shutdown, Ending, Working
<1>2. pending = {} /\ \A p \in Producer : stage[p] = "none"
  BY <1>1, ShutdownExcludesSenders DEF NoSendOnClosed
<1> QED BY <1>1, <1>2 DEF Sited, Kept, Making

\* A Close that does not run into its deadline leaves no row in memory and no
\* file to recover, whatever was going on when it was called.
THEOREM CloseIsClean == Spec => []CleanClose
<1>1. FullInv => CleanClose
  <2> SUFFICES ASSUME FullInv, closer = "closed", life = 1, ~cancelled, ~DiskFaults
               PROVE  /\ disk = {} /\ tmp = {} /\ dropped = {}
                      /\ \A r \in Row : adder[r] = "added" => Settled(r)
    BY DEF CleanClose
  <2>1. disk = {} /\ tmp = {} /\ dropped = {}
    <3>1. \A f \in disk : Claimed(f)
      BY ClosedFacts DEF FullInv, FirstLife
    <3>2. \A f : ~Claimed(f)
      BY ClosedFacts DEF Claimed
    <3> QED BY <3>1, <3>2, ClosedFacts DEF FullInv, FirstLife
  <2> QED BY <2>1, ClosedFacts DEF Past, Filed, Settled, Quarantined
<1> QED BY <1>1, FullInductive, PTL

\* A Close that does run into its deadline loses no accepted row either.
THEOREM DeadlineIsSafe == Spec => []DeadlineKeepsRows
<1>1. FullInv => DeadlineKeepsRows
  BY ClosedFacts DEF DeadlineKeepsRows, Past, Filed, Quarantined, Durable
<1> QED BY <1>1, FullInductive, PTL

-------------------------------------------------------------------------------
(* A file that could not be renamed or removed, and that nobody has taken up. *)
Left(r) == DiskFaults /\ \E f \in disk : r \in f /\ ~Claimed(f)

(* The writer is done with row r, or gets to it before entry n + 1 of the channel. *)
Behind(r, n) ==
    \/ Settled(r) \/ Left(r)
    \/ Working /\ r \in job
    \/ \E i \in 1..n : r \in flushCh[i].file

(* A row that is settled stays settled. *)
LEMMA SettledPersists ==
  ASSUME TypeOK, [Next]_vars, NEW r \in Row, Settled(r)
  PROVE  Settled(r)'
<1> USE DEF TypeOK, Settled, Loaded, Quarantined
<1>1. dropped \subseteq dropped' /\ failed \subseteq failed'
  BY RowSteps DEF Stop, Admit, Refuse, Add, Spawn, CreateFile, WriteFails, PublishFile, Send,
     LoadSucceeds, GiveUp, RemoveFile, diskVars, placeVars
<1>2. copies[r] > 0 => copies'[r] > 0
  <2>1. CASE LoadSucceeds
    <3>1. copies[r] \in Nat /\ copies'[r] \in {copies[r], 1, copies[r] + 1}
      BY <2>1 DEF LoadSucceeds, loadParquet
    <3> HIDE DEF TypeOK
    <3> QED BY <3>1
  <2>2. CASE copies' = copies
    BY <2>2
  <2> QED
    BY <2>1, <2>2, RowSteps DEF Stop, Admit, Refuse, Add, Spawn, CreateFile, WriteFails, PublishFile, Send,
     GiveUp, RemoveFile, diskVars, placeVars
<1> QED BY <1>1, <1>2

(* A complete file nobody claims stays where it is. *)
LEMMA LeftPersists ==
  ASSUME RowInv, [Next]_vars, ~Start, NEW r \in Row, Left(r)
  PROVE  Left(r)'
<1>1. PICK f \in disk : r \in f /\ ~Claimed(f)
  BY DEF Left
<1>2. ~Claimed(f)'
  BY <1>1, UnclaimedPersists
<1>3. f \in disk'
  <2>1. CASE GiveUp \/ RemoveFile
    <3>1. Working /\ disk' \in {disk, disk \ {job}}
      BY <2>1 DEF GiveUp, RemoveFile, Working
    <3> QED BY <1>1, <3>1 DEF Claimed
  <2>2. CASE ~GiveUp /\ ~RemoveFile
    BY <2>2, RowSteps DEF Stop, Admit, Refuse, Add, Spawn, CreateFile, WriteFails, PublishFile, Send,
       LoadSucceeds, diskVars, placeVars
  <2> QED BY <2>1, <2>2
<1> QED BY <1>1, <1>2, <1>3 DEF Left

(* What is ahead of a barrier in the channel stays ahead of it until it is settled,
   or is left in a file that could not be renamed. *)
LEMMA BehindPersists ==
  ASSUME RowInv, [Next]_vars, ~Start, ~Stop, ~cancelled, NEW r \in Row,
         NEW n \in 0..Len(flushCh), Behind(r, n)
  PROVE  /\ ~Receive => Behind(r, n)'
         /\ Receive => \A m \in Nat : m + 1 >= n => Behind(r, m)'
<1> USE DEF RowInv, IInv
<1>1. CASE Settled(r)
  BY <1>1, SettledPersists DEF Behind
<1>2. CASE Left(r)
  BY <1>2, LeftPersists DEF Behind
<1>3. CASE Working /\ r \in job
  <2>1. CASE LoadSucceeds
    BY <1>3, <2>1 DEF LoadSucceeds, Behind, Working, Receive
  <2>2. CASE GiveUp
    <3>1. \/ job \in failed'
          \/ /\ DiskFaults /\ disk' = disk
      BY <2>2 DEF GiveUp
    <3>2. CASE job \in failed'
      BY <1>3, <2>2, <3>2 DEF Behind, Settled, Quarantined, GiveUp, Receive
    <3>3. CASE DiskFaults /\ disk' = disk
      <4>1. job \in disk /\ job # {}
        BY <1>3 DEF Placed, Owned, Complete
      <4>2. wpc' = "recv" /\ UNCHANGED <<held, stage, flushCh, pending>>
        BY <2>2 DEF GiveUp, prodVars, chanVars, ctrlVars
      <4>3. job \notin pending /\ \A p \in Producer : stage[p] = "send" => held[p] # job
        BY DEF Placed, Owned, Apart
      <4>4. \A i \in 1..Len(flushCh) : flushCh[i].file # job
        BY <4>1 DEF Placed, Owned, Apart, Complete
      <4>5. \A f : f = job => ~Claimed(f)'
        BY <4>2, <4>3, <4>4 DEF Claimed, Working
      <4> QED BY <1>3, <2>2, <3>3, <4>1, <4>5 DEF Behind, Left, GiveUp, Receive
    <3> QED BY <3>1, <3>2, <3>3
  <2>3. CASE RemoveFile
    <3>1. copies[r] > 0 /\ copies' = copies /\ ~Receive
      BY <1>3, <2>3 DEF Placed, Counted, Loaded, RemoveFile, Receive
    <3> QED BY <3>1 DEF Behind, Settled, Loaded
  <2>4. CASE LoadFails \/ BackoffElapses
    BY <1>3, <2>4 DEF LoadFails, BackoffElapses, Behind, Working, Receive
  <2>5. CASE wpc' = wpc /\ job' = job
    BY <1>3, <2>5 DEF Behind, Working
  <2>6. ~Receive /\ ~WriterExit
    BY <1>3 DEF Receive, WriterExit, Working
  <2> QED
    BY <2>1, <2>2, <2>3, <2>4, <2>5, <2>6, ClaimSteps DEF WriterStep, Add, Spawn, CreateFile,
       WriteFails, PublishFile, Send, otherVars, SendBarrier, RecoveryStep, StopQueueing,
       QueuePending, writeVars, claimVars
<1>4. CASE \E i \in 1..n : r \in flushCh[i].file
  <2>0. PICK i \in 1..n : r \in flushCh[i].file
    BY <1>4
  <2>1. CASE Receive
    <3>1. /\ flushCh # <<>> /\ flushCh' = Tail(flushCh)
          /\ \/ ~Waits(1) /\ UNCHANGED <<wpc, job>>
             \/ wpc' = "load" /\ job' = flushCh[1].file
      BY <2>1, QueueShrinks DEF Receive, Waits, TypeOK
    <3>2. /\ Len(flushCh)' = Len(flushCh) - 1 /\ Len(flushCh) \in Nat \ {0}
          /\ \A k \in 1..(Len(flushCh) - 1) : flushCh'[k] = flushCh[k + 1]
      BY <3>1, QueueShrinks DEF TypeOK
    <3>3. CASE i = 1
      <4>1. Waits(1)
        BY <2>0, <3>2, <3>3 DEF Placed, Owned, Complete
      <4> QED BY <2>0, <2>1, <3>1, <3>3, <4>1 DEF Behind, Working
    <3>4. CASE i # 1
      <4>1. i - 1 \in 1..(Len(flushCh) - 1) /\ flushCh'[i - 1] = flushCh[i]
        BY <2>0, <3>2, <3>4
      <4>2. \A m \in Nat : m + 1 >= n => i - 1 \in 1..m
        BY <2>0, <3>2, <3>4
      <4> QED BY <2>0, <2>1, <4>1, <4>2 DEF Behind
    <3> QED BY <3>3, <3>4
  <2>2. CASE ~Receive
    <3>0. Len(flushCh) \in Nat
      BY DEF TypeOK
    <3>1. \A k \in 1..Len(flushCh) : flushCh'[k] = flushCh[k]
      <4>1. CASE flushCh' = flushCh
        BY <4>1
      <4>2. ASSUME NEW j \in Job, flushCh' = Append(flushCh, j) PROVE <3>1
        BY <3>0, <4>2, QueueGrows DEF TypeOK
      <4>3. \/ flushCh' = flushCh
            \/ \E j \in Job : flushCh' = Append(flushCh, j)
        <5>1. ASSUME NEW p \in Producer, Send(p) PROVE <4>3
          BY <5>1, JobFacts DEF Send, TypeOK
        <5>2. ASSUME NEW c \in Call, SendBarrier(c) PROVE <4>3
          BY <5>2, JobFacts DEF SendBarrier
        <5>3. ASSUME NEW f \in pending, QueuePending(f) PROVE <4>3
          BY <5>3, JobFacts DEF QueuePending, TypeOK
        <5> QED
          BY <2>2, <5>1, <5>2, <5>3, ClaimSteps DEF WriterStep, WriterExit, LoadSucceeds, LoadFails,
             BackoffElapses, GiveUp, RemoveFile, Add, Spawn, CreateFile, WriteFails, PublishFile,
             otherVars, RecoveryStep, StopQueueing, chanVars, claimVars
      <4> QED BY <4>1, <4>2, <4>3
    <3> QED BY <2>0, <2>2, <3>0, <3>1 DEF Behind
  <2> QED BY <2>1, <2>2
<1> QED BY <1>1, <1>2, <1>3, <1>4 DEF Behind

-------------------------------------------------------------------------------
askVars == <<call, covered, flushCh>>

(* The steps that can change a call, or what is ahead of it in the channel. *)
LEMMA AskSteps ==
    ASSUME [Next]_vars
    PROVE  \/ Start \/ Stop
           \/ \E c \in Call : Flush(c) \/ FlushAndWait(c)
           \/ \E c \in Call : BeginFails(c) \/ FlushedAll(c) \/ Abandon(c)
           \/ \E c \in Call : SendBarrier(c)
           \/ \E f \in Flusher : ForceFlush(f)
           \/ Receive
           \/ \E p \in Producer : Send(p)
           \/ \E f \in pending : QueuePending(f)
           \/ UNCHANGED askVars
<1> USE DEF askVars, callVars, chanVars
<1>1. CASE UNCHANGED vars
  BY <1>1 DEF vars
<1>2. CASE AddStep \/ TickerStep
  BY <1>2 DEF AddStep, Admit, Refuse, Add, Spawn, TickerStep, Tick, TickTable, TickDone,
     TickerExit, Age
<1>3. CASE ProduceStep
  BY <1>3 DEF ProduceStep, CreateFile, WriteFails, PublishFile
<1>4. CASE CallStep
  BY <1>4 DEF CallStep
<1>5. CASE WriterStep
  BY <1>5 DEF WriterStep, WriterExit, LoadSucceeds, LoadFails, BackoffElapses, GiveUp, RemoveFile
<1>6. CASE RecoveryStep
  BY <1>6 DEF RecoveryStep, StopQueueing
<1>7. CASE CloseStep
  <2>1. CASE AwaitProducers
    BY <2>1 DEF AwaitProducers
  <2> QED
    BY <1>7, <2>1 DEF CloseStep, Close, Deadline, AwaitTicker, AwaitOperations, CloserFlushed,
       AwaitWriter, Closed, vars
<1> QED BY <1>1, <1>2, <1>3, <1>4, <1>5, <1>6, <1>7 DEF Next

(* A barrier in the channel belongs to a call that waits for it, or has stopped waiting. *)
Marks ==
    \A i \in 1..Len(flushCh) : flushCh[i].done # NoCall =>
        call[flushCh[i].done] \in {"wait", "returned", "failed"}

(* Where the rows are that a call of Flush or FlushAndWait covers. *)
Covered(c) ==
    /\ call[c] \in {"flush", "drain", "barrier"} =>
          \A r \in covered[c] : Behind(r, Len(flushCh)) \/ r \in held[c]
    /\ \A i \in 1..Len(flushCh) : flushCh[i].done = c /\ call[c] = "wait" =>
          \A r \in covered[c] : Behind(r, i - 1)
    /\ call[c] = "returned" => \A r \in covered[c] : Settled(r) \/ Left(r)

Waiting == Marks /\ (cancelled \/ \A c \in Call : Covered(c))

LEMMA MarksStep ==
  ASSUME TypeOK, Marks, [Next]_vars
  PROVE  Marks'
<1> USE DEF TypeOK
<1> DEFINE Sent == {"wait", "returned", "failed"}
<1>0. \A i \in 1..Len(flushCh) : flushCh[i].done # NoCall =>
         flushCh[i].done \in Call /\ call[flushCh[i].done] \in Sent
  <2> SUFFICES ASSUME NEW i \in 1..Len(flushCh), flushCh[i].done # NoCall
               PROVE  flushCh[i].done \in Call
    BY DEF Marks
  <2>1. flushCh[i] \in Job
    OBVIOUS
  <2> QED BY <2>1 DEF Job
<1>1. CASE Start
  BY <1>1 DEF Start, Marks, callVars, chanVars
<1>2. CASE Stop
  BY <1>2 DEF Stop, Marks
<1>3. ASSUME NEW c \in Call, Flush(c) \/ FlushAndWait(c) PROVE Marks'
  <2>1. /\ call[c] = "idle" /\ flushCh' = flushCh
        /\ \A d \in Call : d # c => call'[d] = call[d]
    BY <1>3 DEF Flush, FlushAndWait, Begin, chanVars
  <2> QED BY <1>0, <2>1 DEF Marks
<1>4. ASSUME NEW c \in Call, BeginFails(c) \/ FlushedAll(c) \/ Abandon(c) PROVE Marks'
  <2>1. /\ call'[c] = "failed" \/ call[c] \notin Sent
        /\ flushCh' = flushCh /\ \A d \in Call : d # c => call'[d] = call[d]
    BY <1>4 DEF BeginFails, FlushedAll, Abandon, chanVars
  <2> QED BY <1>0, <2>1 DEF Marks
<1>5. ASSUME NEW c \in Call, SendBarrier(c) PROVE Marks'
  <2>1. /\ call' = [call EXCEPT ![c] = "wait"] /\ flushCh' = Append(flushCh, Barrier(c))
    BY <1>5 DEF SendBarrier
  <2>2. /\ Len(flushCh)' = Len(flushCh) + 1 /\ Len(flushCh) \in Nat
        /\ \A i \in 1..(Len(flushCh) + 1) :
              flushCh'[i] = IF i = Len(flushCh) + 1 THEN Barrier(c) ELSE flushCh[i]
    BY <2>1, JobFacts, QueueGrows
  <2>3. Barrier(c).done = c
    BY JobFacts
  <2> QED BY <1>0, <2>1, <2>2, <2>3 DEF Marks
<1>6. ASSUME NEW f \in Flusher, ForceFlush(f) PROVE Marks'
  BY <1>6 DEF ForceFlush, Marks, chanVars
<1>7. CASE Receive
  <2>1. flushCh # <<>> /\ flushCh' = Tail(flushCh)
    BY <1>7 DEF Receive
  <2>2. /\ Len(flushCh)' = Len(flushCh) - 1 /\ Len(flushCh) \in Nat \ {0}
        /\ \A k \in 1..(Len(flushCh) - 1) : flushCh'[k] = flushCh[k + 1]
        /\ Head(flushCh) \in Job
    BY <2>1, QueueShrinks
  <2>3. \A d \in Call : call[d] \in Sent => call'[d] \in Sent
    BY <1>7, <2>2 DEF Receive, Job
  <2> SUFFICES ASSUME NEW i \in 1..(Len(flushCh) - 1), flushCh[i + 1].done # NoCall
               PROVE  call'[flushCh[i + 1].done] \in Sent
    BY <2>2 DEF Marks
  <2>4. i + 1 \in 1..Len(flushCh)
    BY <2>2
  <2> QED BY <1>0, <2>3, <2>4
<1>8. ASSUME NEW f \in SUBSET Row, flushCh' = Append(flushCh, FileJob(f)), call' = call PROVE Marks'
  <2>1. FileJob(f) \in Job /\ FileJob(f).done = NoCall
    BY JobFacts
  <2>2. /\ Len(flushCh)' = Len(flushCh) + 1 /\ Len(flushCh) \in Nat
        /\ \A i \in 1..(Len(flushCh) + 1) :
              flushCh'[i] = IF i = Len(flushCh) + 1 THEN FileJob(f) ELSE flushCh[i]
    BY <1>8, <2>1, QueueGrows
  <2> QED BY <1>8, <2>1, <2>2 DEF Marks
<1>9. ASSUME NEW p \in Producer, Send(p) PROVE Marks'
  BY <1>8, <1>9 DEF Send, callVars
<1>10. ASSUME NEW f \in pending, QueuePending(f) PROVE Marks'
  BY <1>8, <1>10 DEF QueuePending, callVars
<1>11. CASE UNCHANGED askVars
  BY <1>11 DEF askVars, Marks
<1> QED
  BY <1>1, <1>2, <1>3, <1>4, <1>5, <1>6, <1>7, <1>9, <1>10, <1>11, AskSteps

(* A batch a caller holds is filed and queued, or given up. *)
LEMMA HeldPersists ==
  ASSUME RowInv, [Next]_vars, ~Start, ~Stop, NEW c \in Call, NEW r \in held[c], r \in Row
  PROVE  r \in held'[c] \/ Behind(r, Len(flushCh))'
<1> USE DEF RowInv, IInv, TypeOK
<1>0. c \in Producer /\ c \in Flusher /\ c \notin Row
  BY ConstantsAssumption DEF Producer, Flusher
<1>1. CASE WriteFails(c)
  <2>1. r \in dropped'
    BY <1>1 DEF WriteFails
  <2> QED BY <2>1 DEF Behind, Settled
<1>2. CASE Send(c)
  <2>1. flushCh' = Append(flushCh, FileJob(held[c]))
    BY <1>2 DEF Send
  <2>2. FileJob(held[c]) \in Job /\ FileJob(held[c]).file = held[c]
    BY <1>0, JobFacts
  <2>3. Len(flushCh)' \in 1..Len(flushCh)' /\ flushCh'[Len(flushCh)'] = FileJob(held[c])
    BY <2>1, <2>2, QueueGrows
  <2> QED BY <2>2, <2>3 DEF Behind
<1>3. CASE held'[c] = held[c]
  BY <1>3
<1>4. ASSUME NEW p \in Producer, p # c,
             CreateFile(p) \/ WriteFails(p) \/ PublishFile(p) \/ Send(p)
      PROVE  held'[c] = held[c]
  <2>1. held' \in {held, [held EXCEPT ![p] = {}]}
    BY <1>4 DEF CreateFile, WriteFails, PublishFile, Send, Release
  <2> QED BY <1>0, <1>4, <2>1
<1>5. ASSUME NEW x \in Row, Add(x) \/ Spawn(x) PROVE held'[c] = held[c]
  BY <1>0, <1>5 DEF Add, Spawn, InTable
<1>6. ASSUME NEW f \in Flusher, Visiting(f), SwapOut(f) PROVE held'[c] = held[c]
  <2>1. f # c
    BY <1>0, <1>6 DEF Visiting, Placed, Sited, Batches
  <2> QED BY <1>6, <2>1 DEF SwapOut
<1>7. CASE CreateFile(c) \/ PublishFile(c)
  BY <1>7 DEF CreateFile, PublishFile
<1>8. ASSUME NEW d \in Call, SendBarrier(d) PROVE held'[c] = held[c]
  BY <1>8 DEF SendBarrier, prodVars
<1>9. CASE WriterStep \/ RecoveryStep \/ UNCHANGED claimVars
  BY <1>9 DEF WriterStep, Receive, WriterExit, LoadSucceeds, LoadFails, BackoffElapses, GiveUp,
     RemoveFile, RecoveryStep, StopQueueing, QueuePending, claimVars, prodVars
<1> QED
  BY <1>1, <1>2, <1>3, <1>4, <1>5, <1>6, <1>7, <1>8, <1>9, ClaimSteps

LEMMA BehindGrows ==
  ASSUME TypeOK, NEW r, NEW n \in Nat, NEW m \in Nat, n <= m, Behind(r, n)
  PROVE  Behind(r, m)
  BY DEF Behind

(* How the channel changes in one step. *)
LEMMA QueueSteps ==
  ASSUME TypeOK, [Next]_vars, ~Stop
  PROVE  /\ Len(flushCh) \in Nat /\ Len(flushCh)' \in Nat
         /\ Receive => /\ Len(flushCh)' + 1 = Len(flushCh)
                       /\ \A i \in 1..Len(flushCh)' : flushCh'[i] = flushCh[i + 1]
         /\ ~Receive => /\ Len(flushCh) <= Len(flushCh)'
                        /\ \A i \in 1..Len(flushCh) : flushCh'[i] = flushCh[i]
                        /\ \A i \in 1..Len(flushCh)' : i > Len(flushCh) =>
                              /\ i = Len(flushCh) + 1
                              /\ \/ flushCh'[i].done = NoCall
                                 \/ \E c \in Call : SendBarrier(c) /\ flushCh'[i].done = c
<1> USE DEF TypeOK
<1>1. CASE Receive
  <2>1. flushCh # <<>> /\ flushCh' = Tail(flushCh)
    BY <1>1 DEF Receive
  <2>2. /\ Len(flushCh)' = Len(flushCh) - 1 /\ Len(flushCh) \in Nat \ {0}
        /\ \A k \in 1..(Len(flushCh) - 1) : flushCh'[k] = flushCh[k + 1]
    BY <2>1, QueueShrinks
  <2> QED BY <1>1, <2>2
<1>2. CASE ~Receive /\ flushCh' = flushCh
  BY <1>2
<1> DEFINE Appended ==
      \E j \in Job :
         /\ flushCh' = Append(flushCh, j)
         /\ j.done = NoCall \/ \E c \in Call : SendBarrier(c) /\ j.done = c
<1>3. CASE ~Receive /\ Appended
  <2>1. PICK j \in Job :
                 /\ flushCh' = Append(flushCh, j)
                 /\ j.done = NoCall \/ \E c \in Call : SendBarrier(c) /\ j.done = c
    BY <1>3
  <2>2. /\ Len(flushCh)' = Len(flushCh) + 1 /\ Len(flushCh) \in Nat
        /\ \A i \in 1..(Len(flushCh) + 1) :
              flushCh'[i] = IF i = Len(flushCh) + 1 THEN j ELSE flushCh[i]
    BY <2>1, QueueGrows
  <2> QED BY <1>3, <2>1, <2>2
<1>4. ASSUME NEW c \in Call, SendBarrier(c), ~Receive PROVE Appended
  <2>1. flushCh' = Append(flushCh, Barrier(c))
    BY <1>4 DEF SendBarrier
  <2> QED BY <1>4, <2>1, JobFacts
<1>5. ASSUME NEW p \in Producer, Send(p), ~Receive PROVE Appended
  BY <1>5, JobFacts DEF Send
<1>6. ASSUME NEW f \in pending, QueuePending(f), ~Receive PROVE Appended
  BY <1>6, JobFacts DEF QueuePending
<1>7. CASE UNCHANGED flushCh
  BY <1>1, <1>2, <1>7
<1>8. ASSUME ~Receive, flushCh' # flushCh
      PROVE  \/ \E c \in Call : SendBarrier(c)
             \/ \E p \in Producer : Send(p)
             \/ \E f \in pending : QueuePending(f)
  BY <1>8, AskSteps DEF Start, Flush, FlushAndWait, Begin, BeginFails, FlushedAll, Abandon,
     ForceFlush, chanVars, askVars
<1> QED BY <1>1, <1>3, <1>4, <1>5, <1>6, <1>7, <1>8

Active == {"flush", "drain", "barrier"}

(* How one step changes a call, and the rows it covers. *)
LEMMA CallSteps ==
  ASSUME TypeOK, Shape, Shutdown, [Next]_vars, ~Start, ~Stop, NEW c \in Call
  PROVE  \/ /\ call'[c] = call[c] /\ covered'[c] = covered[c]
         \/ /\ call[c] = "idle" /\ call'[c] \in Active /\ covered'[c] = Queued
            /\ UNCHANGED <<flushCh, wpc, job>>
         \/ /\ call[c] \in Active /\ call'[c] = call[c]
            /\ \A r \in covered'[c] : r \in covered[c] \/ r \in held'[c]
         \/ /\ call[c] \in Active /\ call'[c] \in {"barrier", "flushed"}
            /\ covered'[c] = covered[c]
         \/ /\ SendBarrier(c) /\ call[c] = "barrier" /\ call'[c] = "wait"
            /\ covered'[c] = covered[c]
         \/ /\ Receive /\ call[c] = "wait" /\ call'[c] = "returned"
            /\ flushCh[1].done = c /\ covered'[c] = covered[c]
         \/ call'[c] = "failed"
<1> USE DEF TypeOK
<1> DEFINE Same == call'[c] = call[c] /\ covered'[c] = covered[c]
           Extends == /\ call[c] \in Active /\ call'[c] = call[c]
                      /\ \A r \in covered'[c] : r \in covered[c] \/ r \in held'[c]
<1>1. ASSUME NEW d \in Call, Flush(d) \/ FlushAndWait(d)
      PROVE  \/ Same
             \/ /\ call[c] = "idle" /\ call'[c] \in Active /\ covered'[c] = Queued
                /\ UNCHANGED <<flushCh, wpc, job>>
  BY <1>1 DEF Flush, FlushAndWait, Begin, Active, chanVars, writeVars
<1>2. ASSUME NEW d \in Call, BeginFails(d) \/ FlushedAll(d) \/ Abandon(d)
      PROVE  \/ Same
             \/ /\ call[c] \in Active /\ call'[c] \in {"barrier", "flushed"}
                /\ covered'[c] = covered[c]
             \/ call'[c] = "failed"
  BY <1>2 DEF BeginFails, FlushedAll, Abandon, Active
<1>3. ASSUME NEW d \in Call, SendBarrier(d)
      PROVE  \/ Same
             \/ /\ SendBarrier(c) /\ call[c] = "barrier" /\ call'[c] = "wait"
                /\ covered'[c] = covered[c]
  <2>1. call[d] = "barrier" /\ call' = [call EXCEPT ![d] = "wait"] /\ covered' = covered
    BY <1>3 DEF SendBarrier
  <2> QED BY <1>3, <2>1
<1>4. ASSUME NEW f \in Flusher, ForceFlush(f) PROVE Same \/ Extends
  <2>1. /\ call' = call /\ Visiting(f)
        /\ covered'[c] = covered[c] \cup IF c = f THEN mem \ mem' ELSE {}
    BY <1>4 DEF ForceFlush
  <2>2. CASE c # f
    BY <2>1, <2>2
  <2>3. CASE c = f
    <3>1. call[c] \in Active
      <4>1. pos[c] # 0
        BY <2>1, <2>3, OrderFacts DEF Visiting
      <4> QED BY <4>1 DEF Shutdown, Active
    <3>2. mem \ mem' \subseteq held'[c]
      BY <1>4, <2>3 DEF ForceFlush, SwapOut, PassOver, InTable, Producer, Flusher
    <3> QED BY <2>1, <2>3, <3>1, <3>2
  <2> QED BY <2>2, <2>3
<1>5. CASE Receive
  <2>1. flushCh[1] \in Job /\ Head(flushCh) = flushCh[1]
    BY <1>5, QueueShrinks DEF Receive
  <2>2. /\ covered' = covered
        /\ \/ call' = call
           \/ /\ flushCh[1].done # NoCall
              /\ call' = [call EXCEPT ![flushCh[1].done] = IF @ = "wait" THEN "returned" ELSE @]
    BY <1>5, <2>1 DEF Receive
  <2> QED BY <1>5, <2>1, <2>2 DEF Job
<1>6. ASSUME NEW p \in Producer, Send(p) PROVE Same
  BY <1>6 DEF Send, callVars
<1>7. ASSUME NEW f \in pending, QueuePending(f) PROVE Same
  BY <1>7 DEF QueuePending, callVars
<1>8. CASE UNCHANGED askVars
  BY <1>8 DEF askVars
<1> QED
  BY <1>1, <1>2, <1>3, <1>4, <1>5, <1>6, <1>7, <1>8, AskSteps

LEMMA ReceiveOrSend ==
  ASSUME NEW c \in Call, SendBarrier(c), TypeOK
  PROVE  ~Receive
<1>1. flushCh' = Append(flushCh, Barrier(c))
  BY DEF SendBarrier
<1>2. Len(flushCh)' = Len(flushCh) + 1 /\ Len(flushCh) \in Nat
  BY <1>1, JobFacts, QueueGrows DEF TypeOK
<1>3. Receive => Len(flushCh)' = Len(flushCh) - 1
  BY QueueShrinks DEF Receive, TypeOK
<1> QED BY <1>2, <1>3

LEMMA WaitingStep ==
  ASSUME RowInv, Waiting, [Next]_vars
  PROVE  Waiting'
<1> USE DEF RowInv, IInv
<1>1. Marks'
  BY MarksStep DEF Waiting
<1>2. RowInv'
  BY RowStep
<1>3. CASE Stop
  <2>1. flushCh' = <<>> /\ \A c \in Call : call'[c] \in {"idle", "failed"}
    BY <1>3 DEF Stop
  <2> QED BY <1>1, <2>1 DEF Waiting, Covered
<1>4. CASE Start
  <2>1. flushCh' = <<>> /\ \A c \in Call : call'[c] \in {"idle", "failed"}
    BY <1>4 DEF Start, Placed, Down, callVars, chanVars
  <2> QED BY <1>1, <2>1 DEF Waiting, Covered
<1>5. CASE ~Start /\ ~Stop /\ cancelled
  <2>1. cancelled'
    BY <1>5, ClaimSteps DEF Add, Spawn, CreateFile, WriteFails, PublishFile, Send, otherVars,
       SendBarrier, WriterStep, Receive, WriterExit, LoadSucceeds, LoadFails, BackoffElapses,
       GiveUp, RemoveFile, RecoveryStep, StopQueueing, QueuePending, writeVars
  <2> QED BY <1>1, <2>1 DEF Waiting
<1>6. ASSUME ~Start, ~Stop, ~cancelled, NEW c \in Call PROVE Covered(c)'
  <2> USE <1>6
  <2>0. Covered(c) /\ Marks
    BY DEF Waiting
  <2>1. PICK n \in Nat : n = Len(flushCh)
    BY QueueSteps
  <2>2. PICK m \in Nat : m = Len(flushCh)'
    BY QueueSteps
  <2>3. Receive => m + 1 = n
    BY <2>1, <2>2, QueueSteps
  <2>4. ~Receive => n <= m
    BY <2>1, <2>2, QueueSteps
  <2>5. ASSUME NEW r \in Row, Behind(r, n) PROVE Behind(r, m)'
    <3>1. CASE Receive
      BY <2>1, <2>3, <2>5, <3>1, BehindPersists
    <3>2. CASE ~Receive
      <4>1. Behind(r, n)'
        BY <2>1, <2>5, <3>2, BehindPersists
      <4>2. 1..n \subseteq 1..m
        BY <2>4, <3>2
      <4> QED BY <4>1, <4>2 DEF Behind
    <3> QED BY <3>1, <3>2
  <2>6. \A r \in covered[c] : r \in Row
    BY DEF TypeOK
  <2>7. ASSUME NEW r \in covered[c], call[c] \in Active PROVE Behind(r, m)' \/ r \in held'[c]
    <3>1. CASE Behind(r, n)
      BY <2>5, <2>6, <3>1
    <3>2. CASE r \in held[c]
      BY <2>2, <2>6, <3>2, HeldPersists
    <3> QED BY <2>0, <2>1, <2>7, <3>1, <3>2 DEF Covered, Active
  <2>8. ASSUME call'[c] \in Active, NEW r \in covered'[c] PROVE Behind(r, m)' \/ r \in held'[c]
    <3>1. CASE call[c] = "idle" /\ covered'[c] = Queued /\ UNCHANGED <<flushCh, wpc, job>>
      <4>1. job # {} => Working
        BY DEF Placed, Owned, Complete
      <4>2. r \in job \/ \E i \in 1..Len(flushCh) : r \in flushCh[i].file
        BY <2>8, <3>1 DEF Queued
      <4> QED BY <2>2, <3>1, <4>1, <4>2 DEF Behind, Working
    <3>2. CASE call[c] \in Active /\ \A x \in covered'[c] : x \in covered[c] \/ x \in held'[c]
      BY <2>7, <2>8, <3>2
    <3> QED BY <2>8, <3>1, <3>2, CallSteps DEF Active
  <2>9. ASSUME NEW k \in Nat, k + 1 \in 1..m, flushCh'[k + 1].done = c, call'[c] = "wait",
               NEW r \in covered'[c]
        PROVE  Behind(r, k)'
    <3>1. c # NoCall
      BY ConstantsAssumption
    <3>2. ~Receive /\ k + 1 > n => k = n /\ SendBarrier(c)
      <4>1. ASSUME ~Receive, k + 1 > n
            PROVE  k = n /\ \E d \in Call : SendBarrier(d) /\ flushCh'[k + 1].done = d
        BY <2>1, <2>2, <2>9, <3>1, <4>1, QueueSteps
      <4> QED BY <2>9, <4>1
    <3>3. ~Receive /\ k + 1 <= n => flushCh[k + 1].done = c
      BY <2>1, <2>2, <2>9, QueueSteps
    <3>4. CASE call[c] = "wait" /\ covered'[c] = covered[c]
      <4>1. r \in Row /\ r \in covered[c]
        BY <2>6, <2>9, <3>4
      <4>2. CASE Receive
        <5>1. k + 2 \in 1..n /\ flushCh[k + 2].done = c
          <6>1. /\ k + 1 \in 1..Len(flushCh)'
                /\ \A i \in 1..Len(flushCh)' : flushCh'[i] = flushCh[i + 1]
            BY <2>2, <2>9, <4>2, QueueSteps
          <6>2. (k + 1) + 1 = k + 2
            OBVIOUS
          <6>3. flushCh'[k + 1] = flushCh[(k + 1) + 1]
            BY <6>1
          <6> QED BY <2>3, <2>9, <4>2, <6>2, <6>3
        <5>2. Behind(r, (k + 2) - 1)
          BY <2>0, <2>1, <3>4, <4>1, <5>1 DEF Covered
        <5>3. (k + 2) - 1 = k + 1
          OBVIOUS
        <5>4. Behind(r, k + 1) /\ k + 1 \in 0..Len(flushCh) /\ k + 1 >= k + 1
          BY <2>1, <5>1, <5>2, <5>3
        <5> QED BY <4>1, <4>2, <5>4, BehindPersists
      <4>3. CASE ~Receive
        <5>1. call[c] # "barrier"
          BY <3>4
        <5>2. k + 1 <= n /\ flushCh[k + 1].done = c
          BY <3>2, <3>3, <4>3, <5>1 DEF SendBarrier
        <5>3. Behind(r, (k + 1) - 1)
          BY <2>0, <2>1, <3>4, <4>1, <5>2 DEF Covered
        <5>4. (k + 1) - 1 = k
          OBVIOUS
        <5>5. Behind(r, k) /\ k \in 0..Len(flushCh)
          BY <2>1, <5>2, <5>3, <5>4
        <5> QED BY <4>1, <4>3, <5>5, BehindPersists
      <4> QED BY <4>2, <4>3
    <3>5. CASE SendBarrier(c) /\ call[c] = "barrier" /\ covered'[c] = covered[c]
      <4>1. ~Receive
        BY <3>5, ReceiveOrSend
      <4>2. flushCh[k + 1].done # c \/ k + 1 > n
        BY <2>0, <2>1, <3>1, <3>5 DEF Marks
      <4>3. k = n
        BY <3>2, <3>3, <4>1, <4>2, <2>1
      <4>4. pos[c] = 0 /\ c \in Flusher /\ c \in Producer
        BY <3>5 DEF Shutdown, Flusher, Producer
      <4>5. held[c] = {}
        BY <4>4, OrderFacts DEF Shape, Placed, Sited, Batches
      <4>6. r \in Row /\ Behind(r, n) /\ n \in 0..Len(flushCh)
        BY <2>0, <2>1, <2>6, <2>9, <3>5, <4>5 DEF Covered
      <4> QED BY <4>1, <4>3, <4>6, BehindPersists
    <3> QED BY <2>9, <3>4, <3>5, CallSteps DEF Active
  <2>10. ASSUME call'[c] = "returned", NEW r \in covered'[c] PROVE Settled(r)' \/ Left(r)'
    <3>1. CASE call[c] = "returned" /\ covered'[c] = covered[c]
      BY <2>0, <2>6, <3>1, SettledPersists, LeftPersists DEF Covered
    <3>2. CASE Receive /\ call[c] = "wait" /\ flushCh[1].done = c /\ covered'[c] = covered[c]
      <4>1. 1 \in 1..Len(flushCh)
        BY <3>2, QueueShrinks DEF Receive, TypeOK
      <4>2. Behind(r, 0)
        BY <2>0, <3>2, <4>1 DEF Covered
      <4>3. Settled(r) \/ Left(r)
        BY <3>2, <4>2 DEF Behind, Receive, Working
      <4> QED BY <2>6, <3>2, <4>3, SettledPersists, LeftPersists
    <3> QED BY <2>10, <3>1, <3>2, CallSteps DEF Active
  <2>11. ASSUME NEW i \in 1..m, flushCh'[i].done = c, call'[c] = "wait", NEW r \in covered'[c]
         PROVE  Behind(r, i - 1)'
    <3>1. PICK k \in Nat : k = i - 1
      OBVIOUS
    <3>2. i = k + 1
      BY <3>1
    <3>3. Behind(r, k)'
      BY <2>9, <2>11, <3>2
    <3> QED BY <3>1, <3>3
  <2> QED BY <2>2, <2>8, <2>10, <2>11 DEF Covered, Active
<1> QED BY <1>1, <1>3, <1>4, <1>5, <1>6 DEF Waiting

LEMMA WaitingInductive == Spec => [](RowInv /\ Waiting)
<1>1. Init => RowInv /\ Waiting
  BY RowInit DEF Init, Waiting, Marks, Covered
<1>2. RowInv /\ Waiting /\ [Next]_vars => (RowInv /\ Waiting)'
  BY RowStep, WaitingStep
<1> QED BY <1>1, <1>2, PTL DEF Spec

\* A FlushAndWait that returns, before any shutdown deadline, has waited for the
\* rows it swapped out itself and for all that were queued when it was called,
\* however producers, recovery, other callers and failing loads interleave.
THEOREM BarriersCover == Spec => []BarrierCovers
<1>1. RowInv /\ Waiting => BarrierCovers
  <2> SUFFICES ASSUME RowInv, Waiting, NEW c \in Call, call[c] = "returned", ~cancelled,
                      NEW r \in covered[c]
               PROVE  Settled(r) \/ (DiskFaults /\ r \in Durable \ Queued)
    BY DEF BarrierCovers
  <2>1. Settled(r) \/ Left(r)
    BY DEF Waiting, Covered
  <2>2. ASSUME Left(r) PROVE DiskFaults /\ r \in Durable \ Queued
    <3> USE DEF RowInv, Placed, Owned, Complete, Sited, Files
    <3>1. PICK f \in disk : r \in f /\ ~Claimed(f)
      BY <2>2 DEF Left
    <3>2. r \notin job
      BY <3>1 DEF Claimed
    <3>3. \A i \in 1..Len(flushCh) : r \notin flushCh[i].file
      BY <3>1 DEF Claimed, Waits
    <3> QED BY <2>2, <3>1, <3>2, <3>3 DEF Left, Durable, Queued
  <2> QED BY <2>1, <2>2
<1> QED BY <1>1, WaitingInductive, PTL

-------------------------------------------------------------------------------
(* Fate, row by row, from what the row's places are. *)
FateOf(r) ==
    IF adder[r] \in {"new", "refused"} THEN adder[r]
    ELSE IF r \in dropped THEN "lost"
    ELSE IF \E f \in failed : r \in f THEN "quarantined"
    ELSE IF \E f \in disk : r \in f THEN "durable"
    ELSE IF Loaded(r) THEN "stored" ELSE "volatile"

LEMMA FateFacts ==
  /\ Fate = [r \in Row |-> FateOf(r)]
  /\ Fate' = [r \in Row |-> FateOf(r)']
<1>1. \A r : r \in Quarantined <=> \E f \in failed : r \in f
  BY DEF Quarantined
<1>2. \A r : r \in Durable <=> \E f \in disk : r \in f
  BY DEF Durable
<1>3. \A r : r \in Quarantined' <=> \E f \in failed' : r \in f
  BY DEF Quarantined
<1>4. \A r : r \in Durable' <=> \E f \in disk' : r \in f
  BY DEF Durable
<1>5. \A r \in Row : Fate[r] = FateOf(r) /\ Fate'[r] = FateOf(r)'
  BY <1>1, <1>2, <1>3, <1>4 DEF Fate, FateOf, Loaded
<1> QED BY <1>5 DEF Fate

(* The accepted rows whose places are all in memory are the volatile ones. *)
LEMMA VolatileRows ==
  ASSUME TypeOK, Sited, NEW r \in Row, ~Past(r), adder[r] \notin {"new", "refused"}
  PROVE  FateOf(r) = "volatile"
  BY DEF Past, Filed, FateOf

LEMMA DurableRows ==
  ASSUME TypeOK, Sited, NEW f \in disk, NEW r \in f
  PROVE  /\ r \in Row /\ FateOf(r) = "durable"
         /\ adder[r] = "added" /\ r \notin dropped
         /\ \A g \in failed : r \notin g
         /\ \A g \in disk : r \in g => g = f
<1>1. r \in Row
  BY DEF TypeOK
<1>2. Filed(r)
  BY DEF Filed
<1>3. adder[r] = "added" /\ r \notin dropped
  BY <1>1, <1>2 DEF Sited, Accepted, Files, Past
<1>4. /\ \A g \in failed : r \notin g
      /\ \A g \in disk : r \in g => g = f
  BY DEF Sited, Files
<1> QED BY <1>1, <1>3, <1>4 DEF FateOf

LEMMA StoreStep ==
  ASSUME RowInv, RowInv', [Next]_vars
  PROVE  [Abstract!StoreNext]_(Abstract!store)
<1> USE DEF RowInv, Placed, IInv
<1> DEFINE Goal == Abstract!StoreNext \/ UNCHANGED <<Fate, copies>>
<1> SUFFICES Goal
  BY DEF Abstract!store
<1>0. Working => job \in disk /\ job # {} /\ job \in SUBSET Row
  <2>1. {} \notin disk /\ job \in SUBSET Row
    BY DEF Sited, Files, TypeOK
  <2> QED BY <2>1 DEF Owned, Complete
<1>1. ASSUME NEW S \in SUBSET Row, NEW from, NEW to, S # {},
             \A r \in S : FateOf(r) = from /\ FateOf(r)' = to,
             \A r \in Row \ S : FateOf(r)' = FateOf(r)
      PROVE  Abstract!Move(S, from, to)
  BY <1>1, FateFacts DEF Abstract!Move
<1>2. ASSUME \A r \in Row : FateOf(r)' = FateOf(r) PROVE Fate' = Fate
  BY <1>2, FateFacts
<1>3. ASSUME NEW r \in Row, Admit(r) \/ Refuse(r) PROVE Goal
  <2>1. /\ adder[r] = "new" /\ adder' \in {[adder EXCEPT ![r] = "admitted"], [adder EXCEPT ![r] = "refused"]}
        /\ UNCHANGED <<disk, failed, copies, dropped>>
    BY <1>3 DEF Admit, Refuse, diskVars
  <2>2. ~Past(r) /\ FateOf(r) = "new"
    BY <2>1 DEF Sited, Accepted, FateOf
  <2>3. FateOf(r)' = (IF adder'[r] = "admitted" THEN "volatile" ELSE "refused")
    BY <2>1, <2>2 DEF FateOf, Past, Filed, Loaded, TypeOK
  <2>4. \A x \in Row \ {r} : FateOf(x)' = FateOf(x)
    BY <2>1 DEF FateOf, Loaded, TypeOK
  <2>5. Abstract!Accept(r) \/ Abstract!Refuse(r)
    <3>1. Fate[r] = "new" /\ Fate'[r] \in {"volatile", "refused"}
      BY <2>2, <2>3, FateFacts
    <3>2. Fate' = [Fate EXCEPT ![r] = Fate'[r]]
      BY <2>4, FateFacts
    <3> QED BY <2>1, <3>1, <3>2 DEF Abstract!Accept, Abstract!Refuse
  <2> QED BY <2>5 DEF Abstract!StoreNext
<1>4. ASSUME \A r \in Row : adder'[r] \in {"new", "refused"} \/ adder[r] \in {"new", "refused"} =>
                adder'[r] = adder[r],
             UNCHANGED <<disk, failed, copies, dropped>>
      PROVE  Goal
  <2>1. \A r \in Row : FateOf(r)' = FateOf(r)
    BY <1>4 DEF FateOf, Loaded
  <2> QED BY <1>2, <1>4, <2>1
<1>5. ASSUME NEW r \in Row, Add(r) \/ Spawn(r) PROVE Goal
  <2>1. /\ \A x \in Row : adder'[x] # adder[x] => adder[x] = "admitted" /\ adder'[x] = "added"
        /\ UNCHANGED <<disk, failed, copies, dropped>>
    BY <1>5 DEF Add, Spawn, bufVars, diskVars, TypeOK
  <2> QED BY <1>4, <2>1
<1>6. ASSUME NEW p \in Producer, CreateFile(p) \/ Send(p) PROVE Goal
  BY <1>4, <1>6 DEF CreateFile, Send, bufVars, diskVars
<1>7. ASSUME NEW p \in Producer, WriteFails(p) PROVE Goal
  <2>1. /\ Making(p) /\ held[p] \in SUBSET Row /\ held[p] # {}
        /\ dropped' = dropped \cup held[p] /\ UNCHANGED <<adder, disk, failed, copies>>
    BY <1>7 DEF WriteFails, bufVars, Making, TypeOK, Sited, Batches
  <2>2. \A r \in held[p] : r \in Row /\ ~Past(r) /\ adder[r] = "added"
    BY <2>1 DEF Sited, NotYet, Accepted
  <2>3. \A r \in held[p] : FateOf(r) = "volatile" /\ FateOf(r)' = "lost"
    BY <2>1, <2>2, VolatileRows DEF FateOf
  <2>4. \A r \in Row \ held[p] : FateOf(r)' = FateOf(r)
    BY <2>1 DEF FateOf, Loaded
  <2>5. Abstract!Lose(held[p])
    BY <1>1, <2>1, <2>3, <2>4 DEF Abstract!Lose
  <2> QED BY <2>1, <2>5 DEF Abstract!StoreNext
<1>8. ASSUME NEW p \in Producer, PublishFile(p) PROVE Goal
  <2>1. /\ Making(p) /\ held[p] \in SUBSET Row /\ held[p] # {}
        /\ disk' = disk \cup {held[p]} /\ UNCHANGED <<adder, failed, copies, dropped>>
    BY <1>8 DEF PublishFile, bufVars, Making, TypeOK, Sited, Batches
  <2>2. \A r \in held[p] : r \in Row /\ ~Past(r) /\ adder[r] = "added"
    BY <2>1 DEF Sited, NotYet, Accepted
  <2>3. \A r \in held[p] : FateOf(r) = "volatile"
    BY <2>2, VolatileRows
  <2>4. \A r \in held[p] : FateOf(r)' = "durable"
    BY <2>1, <2>2 DEF FateOf, Past, Filed
  <2>5. \A r \in Row \ held[p] : FateOf(r)' = FateOf(r)
    BY <2>1 DEF FateOf, Loaded
  <2>6. Abstract!Publish(held[p])
    BY <1>1, <2>1, <2>3, <2>4, <2>5 DEF Abstract!Publish
  <2> QED BY <2>1, <2>6 DEF Abstract!StoreNext
<1>9. CASE LoadSucceeds
  <2>1. /\ job \in disk /\ job # {} /\ job \in SUBSET Row
        /\ copies' = loadParquet(job) /\ UNCHANGED <<adder, disk, failed, dropped>>
    BY <1>0, <1>9 DEF LoadSucceeds, bufVars, Working
  <2>2. \A r \in job : FateOf(r) = "durable"
    BY <2>1, DurableRows
  <2>3. \A r \in job : FateOf(r)' = "durable"
    BY <2>1, DurableRows DEF FateOf
  <2>4. \A r \in Row \ job : FateOf(r)' = FateOf(r)
    BY <2>1 DEF FateOf, Loaded, loadParquet
  <2>5. Fate' = Fate
    BY <1>2, <2>2, <2>3, <2>4
  <2>6. \A r \in job : Fate[r] = "durable"
    BY <2>1, <2>2, FateFacts
  <2>7. copies' = [r \in Row |->
                    IF r \notin job THEN copies[r]
                    ELSE IF r \in {x \in Row : TableOf[x] \in Keyed} THEN 1 ELSE copies[r] + 1]
    BY <2>1 DEF loadParquet
  <2>8. Abstract!Load(job)
    BY <2>1, <2>5, <2>6, <2>7 DEF Abstract!Load
  <2> QED BY <2>1, <2>8 DEF Abstract!StoreNext
<1>10. CASE GiveUp
  <2>1. /\ job \in disk /\ job # {} /\ job \in SUBSET Row
        /\ UNCHANGED <<adder, copies, dropped>>
        /\ \/ UNCHANGED <<disk, failed>>
           \/ disk' = disk \ {job} /\ failed' = failed \cup {job}
    BY <1>0, <1>10 DEF GiveUp, bufVars, Working
  <2>2. CASE UNCHANGED <<disk, failed>>
    BY <1>4, <2>1, <2>2
  <2>3. CASE disk' = disk \ {job} /\ failed' = failed \cup {job}
    <3>1. \A r \in job : FateOf(r) = "durable"
      BY <2>1, DurableRows
    <3>2. \A r \in job : FateOf(r)' = "quarantined"
      BY <2>1, <2>3, DurableRows DEF FateOf
    <3>3. \A r \in Row \ job : FateOf(r)' = FateOf(r)
      BY <2>1, <2>3 DEF FateOf, Loaded
    <3>4. Abstract!SetAside(job)
      BY <1>1, <2>1, <3>1, <3>2, <3>3 DEF Abstract!SetAside
    <3> QED BY <2>1, <3>4 DEF Abstract!StoreNext
  <2> QED BY <2>1, <2>2, <2>3
<1>11. CASE RemoveFile
  <2>1. /\ job \in disk /\ job # {} /\ job \in SUBSET Row
        /\ UNCHANGED <<adder, copies, dropped, failed>>
        /\ disk' \in {disk, disk \ {job}}
        /\ \A r \in job : copies[r] > 0
    BY <1>0, <1>11 DEF RemoveFile, bufVars, Working, Counted, Loaded
  <2>2. CASE UNCHANGED disk
    BY <1>4, <2>1, <2>2
  <2>3. CASE disk' = disk \ {job}
    <3>1. \A r \in job : FateOf(r) = "durable"
      BY <2>1, DurableRows
    <3>2. \A r \in job : FateOf(r)' = "stored"
      BY <2>1, <2>3, DurableRows DEF FateOf, Loaded
    <3>3. \A r \in Row \ job : FateOf(r)' = FateOf(r)
      BY <2>1, <2>3 DEF FateOf, Loaded
    <3>4. Abstract!Retire(job)
      BY <1>1, <2>1, <3>1, <3>2, <3>3 DEF Abstract!Retire
    <3> QED BY <2>1, <3>4 DEF Abstract!StoreNext
  <2> QED BY <2>1, <2>2, <2>3
<1>12. CASE Stop
  <2>1. /\ dropped' = dropped \cup Volatile /\ Volatile \in SUBSET Row
        /\ adder' = [r \in Row |-> IF adder[r] = "admitted" THEN "added" ELSE adder[r]]
        /\ UNCHANGED <<disk, failed, copies>>
    <3>1. Volatile \subseteq Row
      BY DEF Volatile, TypeOK
    <3> QED BY <1>12, <3>1 DEF Stop
  <2>2. \A r \in Volatile : ~Past(r) /\ adder[r] \notin {"new", "refused"}
    <3>1. \A r \in Row : r \in Volatile =>
            adder[r] = "admitted" \/ r \in mem \/ \E p \in Producer : Making(p) /\ r \in held[p]
      BY DEF Volatile, Making, TypeOK, Stages, Sited, Batches
    <3> QED BY <2>1, <3>1 DEF Sited, Accepted, NotYet
  <2>3. \A r \in Volatile : FateOf(r) = "volatile" /\ FateOf(r)' = "lost"
    BY <2>1, <2>2, VolatileRows DEF FateOf, TypeOK
  <2>4. \A r \in Row \ Volatile : FateOf(r)' = FateOf(r)
    BY <2>1 DEF FateOf, Loaded, Volatile
  <2>5. CASE Volatile = {}
    BY <1>2, <2>1, <2>4, <2>5
  <2>6. CASE Volatile # {}
    <3>1. Abstract!Lose(Volatile)
      BY <1>1, <2>1, <2>3, <2>4, <2>6 DEF Abstract!Lose
    <3> QED BY <2>1, <3>1 DEF Abstract!StoreNext
  <2> QED BY <2>5, <2>6
<1>13. CASE UNCHANGED <<adder, disk, failed, copies, dropped>>
  BY <1>4, <1>13
<1> QED
  BY <1>3, <1>5, <1>6, <1>7, <1>8, <1>9, <1>10, <1>11, <1>12, <1>13, RowSteps DEF placeVars

\* The buffer implements RowStore: in particular a published row is never lost,
\* and leaves its file only for the database or for quarantine.
THEOREM RefinesRowStore == Spec => ImplementsRowStore
<1>1. Init => Abstract!StoreInit
  BY DEF Init, Abstract!StoreInit, Fate
<1>2. RowInv /\ RowInv' /\ [Next]_vars => [Abstract!StoreNext]_(Abstract!store)
  BY StoreStep
<1> QED BY <1>1, <1>2, RowInductive, PTL DEF Spec, ImplementsRowStore, Abstract!StoreSpec
===============================================================================
