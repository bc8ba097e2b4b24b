--------------------------- MODULE NodeClientProofs ---------------------------
(***************************************************************************)
(* Proofs about NodeClient, for any number of events, any batch size and   *)
(* any limit of the queue.                                                 *)
(***************************************************************************)
EXTENDS NodeClient, SequenceTheorems, TLAPS

(* Events are numbered as they are made, and none is in two places.        *)
InFlight == UNION {Rng(f) : f \in flights}

Apart(q) ==
    /\ \A f \in flights : Rng(f) \cap Rng(q) = {}
    /\ \A f, g \in flights : f = g \/ Rng(f) \cap Rng(g) = {}

Placed ==
    /\ queue \in Seq(EventNumber) /\ flights \subseteq Seq(EventNumber)
    /\ made \in Nat /\ Waiting \subseteq 1..made
    /\ Apart(queue)

Kept == process # "ended" => 1..made \subseteq stored \cup dropped \cup Waiting

Receipts == received \subseteq flights /\ \A f \in received : Rng(f) \subseteq stored

ClientInv == Placed /\ Kept

-------------------------------------------------------------------------------
(* What sequences hold. *)

LEMMA RngAppend ==
    ASSUME NEW s \in Seq(EventNumber), NEW e \in EventNumber
    PROVE  Append(s, e) \in Seq(EventNumber) /\ Rng(Append(s, e)) = Rng(s) \cup {e}
<1>1. /\ Append(s, e) \in Seq(EventNumber) /\ Len(Append(s, e)) = Len(s) + 1
      /\ \A i \in 1..Len(s) : Append(s, e)[i] = s[i]
      /\ Append(s, e)[Len(s) + 1] = e
  OBVIOUS
<1>. QED
  BY <1>1 DEF Rng

LEMMA RngJoin ==
    ASSUME NEW s \in Seq(EventNumber), NEW t \in Seq(EventNumber)
    PROVE  s \o t \in Seq(EventNumber) /\ Rng(s \o t) = Rng(s) \cup Rng(t)
<1>1. /\ s \o t \in Seq(EventNumber) /\ Len(s \o t) = Len(s) + Len(t)
      /\ \A i \in 1..Len(s) : (s \o t)[i] = s[i]
      /\ \A i \in 1..Len(t) : (s \o t)[Len(s) + i] = t[i]
  OBVIOUS
<1>2. Rng(s) \cup Rng(t) \subseteq Rng(s \o t)
  <2>1. Len(s) \in Nat /\ Len(t) \in Nat
    OBVIOUS
  <2>2. ASSUME NEW i \in 1..Len(s)
        PROVE  s[i] \in Rng(s \o t)
    BY <1>1, <2>1 DEF Rng
  <2>3. ASSUME NEW i \in 1..Len(t)
        PROVE  t[i] \in Rng(s \o t)
    <3>1. Len(s) + i \in 1..Len(s \o t)
      BY <1>1, <2>1
    <3>. QED
      BY <1>1, <3>1 DEF Rng
  <2>. QED
    BY <2>2, <2>3 DEF Rng
<1>3. ASSUME NEW i \in 1..Len(s \o t)
      PROVE  (s \o t)[i] \in Rng(s) \cup Rng(t)
  <2>1. CASE i <= Len(s)
    BY <1>1, <2>1 DEF Rng
  <2>2. CASE i > Len(s)
    <3>1. i - Len(s) \in 1..Len(t) /\ i = Len(s) + (i - Len(s))
      BY <1>1, <2>2
    <3>. QED
      BY <1>1, <3>1 DEF Rng
  <2>. QED
    BY <2>1, <2>2
<1>. QED
  BY <1>1, <1>2, <1>3 DEF Rng

LEMMA RngFitted ==
    ASSUME MaxQueueSize \in Nat \ {0}, NEW s \in Seq(EventNumber)
    PROVE  Fitted(s) \in Seq(EventNumber) /\ Rng(Fitted(s)) \subseteq Rng(s)
<1>1. CASE Len(s) <= MaxQueueSize
  BY <1>1 DEF Fitted
<1>2. CASE Len(s) > MaxQueueSize
  <2>. DEFINE n == Len(s) - MaxQueueSize
  <2>1. /\ n + 1 \in 1..Len(s) /\ Fitted(s) = SubSeq(s, n + 1, Len(s))
    BY <1>2 DEF Fitted
  <2>2. /\ Fitted(s) \in Seq(EventNumber)
        /\ Len(Fitted(s)) = Len(s) - n
        /\ \A i \in 1..(Len(s) - n) : Fitted(s)[i] = s[n + i]
    <3>. HIDE DEF n
    <3>1. n \in Int /\ Len(s) \in Nat
      BY DEF n
    <3>2. /\ Fitted(s) \in Seq(EventNumber) /\ Len(Fitted(s)) = Len(s) - (n + 1) + 1
          /\ \A i \in 1..(Len(s) - (n + 1) + 1) : Fitted(s)[i] = s[(n + 1) + i - 1]
      BY <2>1, <3>1, SubSeqProperties
    <3>3. Len(s) - (n + 1) + 1 = Len(s) - n /\ \A i \in Int : (n + 1) + i - 1 = n + i
      BY <3>1
    <3>. QED
      BY <3>1, <3>2, <3>3
  <2>3. \A i \in 1..(Len(s) - n) : n + i \in 1..Len(s)
    BY <1>2, <2>1
  <2>. QED
    BY <2>2, <2>3 DEF Rng
<1>. QED
  BY <1>1, <1>2

LEMMA RngEmpty == Rng(<<>>) = {}
  BY DEF Rng

-------------------------------------------------------------------------------
(* The whole of q is posted: what waits is q and what was in requests.     *)
LEMMA FlushMoves ==
    ASSUME NEW q \in Seq(EventNumber), flights \subseteq Seq(EventNumber), Apart(q), flushQueue(q)
    PROVE  /\ queue' \in Seq(EventNumber) /\ flights' \subseteq Seq(EventNumber)
           /\ Apart(queue)'
           /\ Waiting' = Rng(q) \cup InFlight
<1>1. queue' = <<>> /\ Rng(queue') = {}
  BY RngEmpty DEF flushQueue
<1>2. \A f \in flights' : f \in flights \/ f = q
  BY DEF flushQueue
<1>3. Apart(queue)'
  BY <1>1, <1>2 DEF Apart
<1>4. UNION {Rng(f) : f \in flights'} = Rng(q) \cup InFlight
  <2>1. CASE q = <<>>
    BY <2>1, RngEmpty DEF flushQueue, InFlight
  <2>2. CASE q # <<>>
    BY <2>2 DEF flushQueue, InFlight
  <2>. QED
    BY <2>1, <2>2
<1>. QED
  BY <1>1, <1>2, <1>3, <1>4 DEF Waiting

(* The queue is replaced, and the requests are the same or one of them is over. *)
LEMMA QueueMoves ==
    ASSUME Placed, NEW q \in Seq(EventNumber), queue' = q, NEW out \in SUBSET flights,
           flights' = flights \ out,
           \A f \in flights \ out : Rng(f) \cap Rng(q) = {}
    PROVE  /\ queue' \in Seq(EventNumber) /\ flights' \subseteq Seq(EventNumber)
           /\ Apart(queue)'
           /\ Waiting' = Rng(q) \cup UNION {Rng(f) : f \in flights \ out}
  BY DEF Placed, Apart, Waiting

LEMMA TrackKeeps ==
    ASSUME MaxQueueSize \in Nat \ {0}, ClientInv, trackEvent
    PROVE  ClientInv'
<1>. DEFINE e      == made + 1
            pushed == Append(queue, e)
            kept   == Fitted(pushed)
<1>1. /\ made \in Nat /\ e \in EventNumber /\ e \notin 1..made /\ 1..e = 1..made \cup {e}
      /\ queue \in Seq(EventNumber) /\ flights \subseteq Seq(EventNumber)
      /\ Waiting = Rng(queue) \cup InFlight /\ Waiting \subseteq 1..made
      /\ Apart(queue)
  BY DEF ClientInv, Placed, EventNumber, Waiting, InFlight
<1>2. /\ kept \in Seq(EventNumber) /\ pushed \in Seq(EventNumber)
      /\ Rng(pushed) = Rng(queue) \cup {e} /\ Rng(kept) \subseteq Rng(pushed)
  BY <1>1, RngAppend, RngFitted
<1>3. Apart(kept)
  <2>1. ASSUME NEW f \in flights
        PROVE  e \notin Rng(f)
    BY <1>1 DEF InFlight
  <2>. QED
    BY <1>1, <1>2, <2>1 DEF Apart
<1>4. /\ made' = e /\ dropped' = dropped \cup (Rng(pushed) \ Rng(kept))
      /\ process # "ended" /\ UNCHANGED <<process, stored>>
      /\ flushQueue(kept) \/ (queue' = kept /\ UNCHANGED flights)
  BY DEF trackEvent, scheduleFlush
<1>. HIDE DEF kept, pushed, e
<1>5. /\ queue' \in Seq(EventNumber) /\ flights' \subseteq Seq(EventNumber) /\ Apart(queue)'
      /\ Waiting' = Rng(kept) \cup InFlight
  <2>1. CASE flushQueue(kept)
    BY <1>1, <1>2, <1>3, <2>1, FlushMoves
  <2>2. CASE queue' = kept /\ UNCHANGED flights
    BY <1>1, <1>2, <1>3, <2>2 DEF Apart, Waiting, InFlight
  <2>. QED
    BY <1>4, <2>1, <2>2
<1>6. Kept'
  BY <1>1, <1>2, <1>4, <1>5 DEF ClientInv, Kept
<1>. QED
  BY <1>1, <1>2, <1>4, <1>5, <1>6 DEF ClientInv, Placed, EventNumber

LEMMA FlushKeeps ==
    ASSUME ClientInv, flushQueue(queue), UNCHANGED <<process, made, stored, dropped>>
    PROVE  ClientInv'
<1>1. Waiting = Rng(queue) \cup InFlight
  BY DEF Waiting, InFlight
<1>2. /\ queue' \in Seq(EventNumber) /\ flights' \subseteq Seq(EventNumber) /\ Apart(queue)'
      /\ Waiting' = Waiting
  BY <1>1, FlushMoves DEF ClientInv, Placed
<1>. QED
  BY <1>2 DEF ClientInv, Placed, Kept

LEMMA ReceiveKeeps ==
    ASSUME ClientInv, NEW f \in flights, Receive(f)
    PROVE  ClientInv'
<1>1. UNCHANGED <<process, made, queue, flights, dropped>> /\ stored \subseteq stored'
  BY DEF Receive, clientVars
<1>. QED
  BY <1>1 DEF ClientInv, Placed, Kept, Apart, Waiting

(* A request is only forgotten when the server has its events ...          *)
LEMMA AcceptedKeeps ==
    ASSUME ClientInv, NEW f \in flights, Rng(f) \subseteq stored, Accepted(f)
    PROVE  ClientInv'
<1>1. flights' = flights \ {f} /\ UNCHANGED <<process, made, queue, stored, dropped>>
  BY DEF Accepted
<1>2. /\ queue' \in Seq(EventNumber) /\ flights' \subseteq Seq(EventNumber) /\ Apart(queue)'
      /\ Waiting' = Rng(queue) \cup UNION {Rng(g) : g \in flights \ {f}}
  BY ZenonT(60), <1>1, QueueMoves DEF ClientInv, Placed, Apart
<1>3. Waiting' \subseteq Waiting /\ Waiting \subseteq Waiting' \cup Rng(f)
  BY <1>2 DEF Waiting
<1>. QED
  BY <1>1, <1>2, <1>3 DEF ClientInv, Placed, Kept

(* ... and one that fails goes back to the queue, as far as it fits.       *)
LEMMA FailedKeeps ==
    ASSUME MaxQueueSize \in Nat \ {0}, ClientInv, NEW f \in flights, Failed(f)
    PROVE  ClientInv'
<1>. DEFINE joined == f \o queue
            kept   == Fitted(joined)
            others == UNION {Rng(g) : g \in flights \ {f}}
<1>1. /\ f \in Seq(EventNumber) /\ queue \in Seq(EventNumber) /\ flights \subseteq Seq(EventNumber)
      /\ Waiting = Rng(f) \cup Rng(queue) \cup others /\ Waiting \subseteq 1..made
      /\ \A g \in flights \ {f} : Rng(g) \cap Rng(f) = {} /\ Rng(g) \cap Rng(queue) = {}
  BY DEF ClientInv, Placed, Waiting, Apart
<1>2. /\ kept \in Seq(EventNumber) /\ joined \in Seq(EventNumber)
      /\ Rng(joined) = Rng(f) \cup Rng(queue) /\ Rng(kept) \subseteq Rng(joined)
  BY <1>1, RngJoin, RngFitted
<1>3. flights' = flights \ {f} /\ UNCHANGED <<process, made, stored>>
  BY DEF Failed
<1>4. CASE closed
  <2>1. UNCHANGED queue /\ dropped' = dropped \cup Rng(f)
    BY <1>4 DEF Failed
  <2>2. /\ queue' \in Seq(EventNumber) /\ flights' \subseteq Seq(EventNumber) /\ Apart(queue)'
        /\ Waiting' = Rng(queue) \cup others
    <3>1. /\ {f} \in SUBSET flights /\ queue' = queue /\ Placed
          /\ \A g \in flights \ {f} : Rng(g) \cap Rng(queue) = {}
      BY <1>1, <2>1 DEF ClientInv
    <3>. QED
      BY ZenonT(60), <1>1, <1>3, <3>1, QueueMoves
  <2>. HIDE DEF joined, kept, others
  <2>3. Waiting' \subseteq 1..made' /\ made' \in Nat
    BY <1>1, <1>3, <2>2 DEF ClientInv, Placed
  <2>4. Kept'
    BY <1>1, <1>3, <2>1, <2>2 DEF ClientInv, Kept
  <2>. QED
    BY <2>2, <2>3, <2>4 DEF ClientInv, Placed
<1>5. CASE ~closed
  <2>1. queue' = kept /\ dropped' = dropped \cup (Rng(joined) \ Rng(kept))
    BY <1>5 DEF Failed
  <2>2. \A g \in flights \ {f} : Rng(g) \cap Rng(kept) = {}
    BY <1>1, <1>2
  <2>. HIDE DEF kept, joined
  <2>3. /\ queue' \in Seq(EventNumber) /\ flights' \subseteq Seq(EventNumber) /\ Apart(queue)'
        /\ Waiting' = Rng(kept) \cup others
    <3>1. {f} \in SUBSET flights /\ Placed
      BY DEF ClientInv
    <3>. QED
      BY <1>2, <1>3, <2>1, <2>2, <3>1, QueueMoves
  <2>. HIDE DEF others
  <2>4. Waiting' \subseteq 1..made' /\ made' \in Nat
    BY <1>1, <1>2, <1>3, <2>3 DEF ClientInv, Placed
  <2>5. Kept'
    BY <1>1, <1>2, <1>3, <2>1, <2>3 DEF ClientInv, Kept
  <2>. QED
    BY <2>3, <2>4, <2>5 DEF ClientInv, Placed
<1>. QED
  BY <1>4, <1>5

(* What the server has received of the requests under way, it has stored.  *)
LEMMA ReceiptsStep ==
    ASSUME Receipts, process = "ended" => flights = {}, [NodeNext]_nodeVars
    PROVE  Receipts'
<1>1. CASE trackEvent \/ Timer \/ Flush \/ close
  <2>1. flights \subseteq flights' /\ UNCHANGED <<received, stored>>
    BY <1>1 DEF trackEvent, Timer, Flush, close, flushQueue, scheduleFlush
  <2>. QED
    BY <2>1 DEF Receipts
<1>2. ASSUME NEW f \in flights, Receive(f) \/ Accepted(f) \/ Failed(f)
      PROVE  Receipts'
  BY <1>2 DEF Receipts, Receive, Accepted, Failed, clientVars
<1>3. CASE configure \/ End \/ Restart \/ UNCHANGED nodeVars
          \/ \E v \in Visit : etiquettaMiddleware(v) \/ VisitSettles(v)
  BY <1>3 DEF Receipts, configure, End, Restart, nodeVars, clientVars, etiquettaMiddleware,
              VisitSettles
<1>. QED
  BY <1>1, <1>2, <1>3 DEF NodeNext

(* A process that has ended holds nothing.                                 *)
Ended == process = "ended" => queue = <<>> /\ flights = {}

LEMMA EndedStep == ASSUME Ended, [NodeNext]_nodeVars PROVE Ended'
  BY DEF Ended, NodeNext, nodeVars, clientVars, configure, trackEvent, Timer, Flush, close, Receive,
         Accepted, Failed, etiquettaMiddleware, VisitSettles, End, Restart

LEMMA EndKeeps ==
    ASSUME ClientInv, End \/ (Ended /\ Restart)
    PROVE  ClientInv'
<1>1. queue' = <<>> /\ flights' = {} /\ Waiting' = {}
  BY RngEmpty DEF End, Ended, Restart, Waiting
<1>2. made' \in Nat /\ (process' # "ended" => made' = 0)
  BY DEF End, Restart, ClientInv, Placed
<1>. QED
  BY <1>1, <1>2 DEF ClientInv, Placed, Kept, Apart

LEMMA ClientStep ==
    ASSUME MaxQueueSize \in Nat \ {0}, ClientInv, Receipts, Ended, [NodeNext]_nodeVars
    PROVE  ClientInv'
<1>1. CASE trackEvent
  BY <1>1, TrackKeeps
<1>2. CASE Timer \/ Flush \/ close
  <2>1. flushQueue(queue) /\ UNCHANGED <<process, made, stored, dropped>>
    BY <1>2 DEF Timer, Flush, close
  <2>. QED
    BY <2>1, FlushKeeps
<1>3. ASSUME NEW f \in flights, Receive(f) \/ Accepted(f) \/ Failed(f)
      PROVE  ClientInv'
  <2>1. Accepted(f) => Rng(f) \subseteq stored
    BY DEF Accepted, Receipts
  <2>. QED
    BY <1>3, <2>1, ReceiveKeeps, AcceptedKeeps, FailedKeeps
<1>4. CASE End \/ Restart
  BY <1>4, EndKeeps
<1>5. CASE configure \/ UNCHANGED nodeVars
          \/ \E v \in Visit : etiquettaMiddleware(v) \/ VisitSettles(v)
  <2>1. UNCHANGED <<made, queue, flights, stored, dropped>> /\ (process = "ended" => process' = "ended")
    BY <1>5 DEF configure, nodeVars, clientVars, etiquettaMiddleware, VisitSettles
  <2>. QED
    BY <2>1 DEF ClientInv, Placed, Kept, Apart, Waiting
<1>. QED
  BY <1>1, <1>2, <1>3, <1>4, <1>5 DEF NodeNext

LEMMA ClientInit == ASSUME NodeInit PROVE ClientInv /\ Receipts /\ Ended
  BY RngEmpty DEF NodeInit, ClientInv, Placed, Kept, Apart, Waiting, Receipts, Ended

-------------------------------------------------------------------------------
(* No event is forgotten, and none is in two batches, while the process of *)
(* the site lives: every step that replaces the queue puts back what the   *)
(* others took.                                                            *)
THEOREM EventsAreNotForgotten == NodeSpec => []NothingForgotten
<1>0. MaxQueueSize \in Nat \ {0}
  BY NodeAssumption
<1>1. NodeInit => ClientInv /\ Receipts /\ Ended
  BY ClientInit
<1>2. ClientInv /\ Receipts /\ Ended /\ [NodeNext]_nodeVars => (ClientInv /\ Receipts /\ Ended)'
  BY <1>0, ClientStep, ReceiptsStep, EndedStep DEF Ended
<1>3. ClientInv => NothingForgotten
  BY DEF ClientInv, Placed, Kept, Apart, NothingForgotten
<1>. QED
  BY <1>1, <1>2, <1>3, PTL DEF NodeSpec

(* What waits in the queue always has a timer that will post it, and a     *)
(* closed client has nothing.                                              *)
THEOREM QueueIsPosted == NodeSpec => []NeverStranded
<1>1. NodeInit => NeverStranded
  BY DEF NodeInit, NeverStranded
<1>2. NeverStranded /\ [NodeNext]_nodeVars => NeverStranded'
  BY DEF NeverStranded, NodeNext, nodeVars, clientVars, configure, trackEvent, Timer, Flush, close, flushQueue,
         scheduleFlush, Receive, Accepted, Failed, etiquettaMiddleware, VisitSettles, End, Restart
<1>. QED
  BY <1>1, <1>2, PTL DEF NodeSpec

-------------------------------------------------------------------------------
LEMMA FittedType ==
    ASSUME NEW q \in Seq(EventNumber)
    PROVE  Fitted(q) \in Seq(EventNumber)
<1>1. Len(q) > MaxQueueSize =>
         Len(q) - MaxQueueSize + 1 >= 1 /\ Len(q) - MaxQueueSize + 1 \in Int
  BY NodeAssumption
<1>. QED
  BY <1>1, NodeAssumption DEF Fitted

LEMMA FlushType ==
    ASSUME NEW q \in Seq(EventNumber), flights \in SUBSET Seq(EventNumber),
           flushQueue(q) \/ scheduleFlush(q)
    PROVE  /\ queue' \in Seq(EventNumber) /\ timer' \in BOOLEAN
           /\ flights' \in SUBSET Seq(EventNumber) /\ flights \subseteq flights'
<1>1. <<>> \in Seq(EventNumber)
  OBVIOUS
<1>. QED
  BY <1>1 DEF flushQueue, scheduleFlush

LEMMA RngType ==
    ASSUME NEW s \in Seq(EventNumber)
    PROVE  Rng(s) \subseteq EventNumber
  BY DEF Rng

LEMMA TypeStep == NodeTypeOK /\ [NodeNext]_nodeVars => NodeTypeOK'
<1>. SUFFICES ASSUME NodeTypeOK, [NodeNext]_nodeVars PROVE NodeTypeOK'
  OBVIOUS
<1>. USE DEF NodeTypeOK
<1>1. CASE configure \/ End \/ Restart
  <2>1. CASE configure
    BY <2>1 DEF configure, clientVars
  <2>2. CASE End
    <3>1. <<>> \in Seq(EventNumber)
      OBVIOUS
    <3>. QED
      BY <2>2, <3>1 DEF End
  <2>3. CASE Restart
    <3>1. 0 \in 0..Event
      BY NodeAssumption
    <3>2. visit' \in [Visit -> {"none", "posted", "stored", "settled"}]
      BY <2>3 DEF Restart
    <3>. QED
      BY <2>3, <3>1, <3>2 DEF Restart
  <2>. QED
    BY <1>1, <2>1, <2>2, <2>3
<1>2. CASE trackEvent
  <2>. DEFINE pushed == Append(queue, made + 1)
  <2>1. made + 1 \in EventNumber /\ made + 1 \in 0..Event
    BY <1>2, NodeAssumption DEF trackEvent, EventNumber
  <2>2. pushed \in Seq(EventNumber)
    BY <2>1
  <2>3. /\ made' = made + 1 /\ dropped' = dropped \cup (Rng(pushed) \ Rng(Fitted(pushed)))
        /\ flushQueue(Fitted(pushed)) \/ scheduleFlush(Fitted(pushed))
        /\ UNCHANGED <<process, closed, received, stored, visit>>
    BY <1>2 DEF trackEvent
  <2>. HIDE DEF pushed
  <2>4. /\ queue' \in Seq(EventNumber) /\ timer' \in BOOLEAN
        /\ flights' \in SUBSET Seq(EventNumber) /\ flights \subseteq flights'
    BY <2>2, <2>3, FittedType, FlushType
  <2>5. dropped' \subseteq EventNumber
    BY <2>2, <2>3, RngType
  <2>. QED
    BY <2>1, <2>3, <2>4, <2>5
<1>3. CASE Timer \/ Flush \/ close
  <2>1. /\ flushQueue(queue) /\ closed' \in BOOLEAN
        /\ UNCHANGED <<process, made, received, stored, dropped, visit>>
    BY <1>3 DEF Timer, Flush, close
  <2>2. /\ queue' \in Seq(EventNumber) /\ timer' \in BOOLEAN
        /\ flights' \in SUBSET Seq(EventNumber) /\ flights \subseteq flights'
    BY <2>1, FlushType
  <2>. QED
    BY <2>1, <2>2
<1>4. ASSUME NEW f \in flights, Receive(f) \/ Accepted(f) PROVE NodeTypeOK'
  BY <1>4, RngType DEF Receive, Accepted, clientVars
<1>5. ASSUME NEW f \in flights, Failed(f) PROVE NodeTypeOK'
  <2>. DEFINE joined == f \o queue
  <2>1. joined \in Seq(EventNumber) /\ f \in Seq(EventNumber)
    OBVIOUS
  <2>2. /\ flights' = flights \ {f} /\ received' = received \ {f}
        /\ UNCHANGED <<process, made, closed, stored, visit>>
        /\ \/ dropped' = dropped \cup Rng(f) /\ UNCHANGED <<queue, timer>>
           \/ /\ dropped' = dropped \cup (Rng(joined) \ Rng(Fitted(joined)))
              /\ queue' = Fitted(joined) /\ timer' = TRUE
    BY <1>5 DEF Failed
  <2>. HIDE DEF joined
  <2>. QED
    BY <2>1, <2>2, FittedType, RngType
<1>6. ASSUME NEW v \in Visit, etiquettaMiddleware(v) \/ VisitSettles(v) PROVE NodeTypeOK'
  BY <1>6 DEF etiquettaMiddleware, VisitSettles, clientVars
<1>7. CASE UNCHANGED nodeVars
  BY <1>7 DEF nodeVars, NodeTypeOK
<1>. QED
  BY <1>1, <1>2, <1>3, <1>4, <1>5, <1>6, <1>7 DEF NodeNext

LEMMA NodeTypeInit == NodeInit => NodeTypeOK
<1>1. <<>> \in Seq(EventNumber)
  OBVIOUS
<1>2. 0 \in 0..Event
  BY NodeAssumption
<1>3. NodeInit => visit \in [Visit -> {"none", "posted", "stored", "settled"}]
  BY DEF NodeInit
<1>. QED
  BY <1>1, <1>2, <1>3 DEF NodeInit, NodeTypeOK

(* Every variable of the client and the middleware keeps to its type. *)
THEOREM NodeTypes == NodeSpec => []NodeTypeOK
  BY NodeTypeInit, TypeStep, PTL DEF NodeSpec
=============================================================================
