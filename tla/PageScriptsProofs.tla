-------------------------- MODULE PageScriptsProofs --------------------------
(***************************************************************************)
(* Proofs about PageScripts, for every batch size, budget of events and    *)
(* version of the consent text; and with NodeClientProofs the types of the *)
(* run that explores both scripts.                                         *)
(*                                                                         *)
(* The scripts are functions from a page to a page, called by one another. *)
(* Keeps(p, q) says what each of them may do: the page stays sound (every  *)
(* event is in one place, and a waiting one has a timer), the consent is   *)
(* left alone, and a page that may not keep anything of the visitor and    *)
(* does not, still does not.  It composes, so that a function is shown to  *)
(* keep it from the functions it calls; the steps of the page follow.      *)
(***************************************************************************)
EXTENDS MCPageScripts, NodeClientProofs, FiniteSetTheorems, FunctionTheorems, TLAPS

-------------------------------------------------------------------------------
(* The contract of the scripts' functions. *)

(* The events of the batches that are being compressed. *)
Compressing(p) == UNION p.coding

(* Every event the page has made is in one place, and in it once. *)
Parts(p) ==
    /\ \A i, k \in 1..Len(p.queue) : p.queue[i] = p.queue[k] => i = k
    /\ InQueue(p) \cup p.sent \cup p.dropped \cup Compressing(p) = 1..p.made
    /\ InQueue(p) \cap (p.sent \cup p.dropped \cup Compressing(p)) = {}
    /\ p.sent \cap (p.dropped \cup Compressing(p)) = {}
    /\ p.dropped \cap Compressing(p) = {}
    /\ \A a, b \in p.coding : a = b \/ a \cap b = {}

(* A waiting event has a timer, and the queue is never left full. *)
Scheduled(p) == p.queue # <<>> => p.timer /\ Len(p.queue) < MaxBatch

Sound(p) == p \in PageType /\ Parts(p) /\ Scheduled(p)

(* Nothing of the visitor is kept. *)
Quiet(p) ==
    /\ p.identity = "none"
    /\ p.queue = <<>> /\ p.coding = {} /\ p.sent = {}
    /\ p.rec \in {"absent", "off"}

(* What p and q have in common. *)
SameConsent(p, q) ==
    /\ q.status = p.status /\ q.consent = p.consent
    /\ q.lookup = p.lookup /\ q.banner = p.banner /\ q.version = p.version

SameEvents(p, q) ==
    /\ q.queue = p.queue /\ q.timer = p.timer /\ q.made = p.made
    /\ q.coding = p.coding /\ q.sent = p.sent /\ q.dropped = p.dropped

SamePerson(p, q) == q.identity = p.identity /\ q.rec = p.rec

(* What every function of the tracker and the recorder may do to a page. *)
Keeps(p, q) ==
    /\ Sound(q)
    /\ SameConsent(p, q)
    /\ ~Allowed(p) /\ Quiet(p) => Quiet(q)

LEMMA SameAllowed ==
  ASSUME NEW p, NEW q, SameConsent(p, q) PROVE Allowed(q) <=> Allowed(p)
  BY DEF SameConsent, Allowed, analyticsConsentAllowsTracking

LEMMA KeepsTwice ==
  ASSUME NEW p, NEW q, NEW r, Keeps(p, q), Keeps(q, r) PROVE Keeps(p, r)
<1>1. Allowed(q) <=> Allowed(p)
  BY SameAllowed DEF Keeps
<1>. QED BY <1>1 DEF Keeps, SameConsent

LEMMA SameSound ==
  ASSUME NEW p, NEW q \in PageType, Sound(p), SameEvents(p, q)
  PROVE  Sound(q)
  BY DEF Sound, Parts, Scheduled, SameEvents, InQueue, Compressing

LEMMA Minor ==
  ASSUME NEW p, NEW q \in PageType, Sound(p),
         SameConsent(p, q), SameEvents(p, q), SamePerson(p, q)
  PROVE  Keeps(p, q)
  BY SameSound DEF Keeps, Quiet, SameEvents, SamePerson

(* The queue is emptied into one of the other places. *)
Emptied(p, q) ==
    /\ q.queue = <<>> /\ q.timer = FALSE /\ q.made = p.made
    /\ \/ /\ q.coding = p.coding \cup {InQueue(p)}
          /\ q.sent = p.sent /\ q.dropped = p.dropped /\ p.queue # <<>>
       \/ /\ q.sent = p.sent \cup InQueue(p)
          /\ q.coding = p.coding /\ q.dropped = p.dropped
       \/ /\ q.dropped = p.dropped \cup InQueue(p)
          /\ q.coding = p.coding /\ q.sent = p.sent

LEMMA NothingQueued ==
  ASSUME NEW p, p.queue = <<>> PROVE InQueue(p) = {} /\ Len(p.queue) = 0
  BY DEF InQueue

(* Emptying the queue loses no event and duplicates none. *)
LEMMA EmptiedParts ==
  ASSUME NEW p, NEW q, Parts(p), Emptied(p, q) PROVE Parts(q) /\ Scheduled(q)
<1>1. InQueue(q) = {} /\ Len(q.queue) = 0
  BY NothingQueued DEF Emptied
<1>2. Compressing(q) = Compressing(p) \/ Compressing(q) = Compressing(p) \cup InQueue(p)
  BY DEF Emptied, Compressing
<1>3. Scheduled(q)
  BY DEF Emptied, Scheduled
<1>4. CASE q.coding = p.coding \cup {InQueue(p)} /\ q.sent = p.sent /\ q.dropped = p.dropped
  <2>1. Compressing(q) = Compressing(p) \cup InQueue(p)
    BY <1>4 DEF Compressing
  <2>2. \A a \in p.coding : a \cap InQueue(p) = {}
    BY DEF Parts, Compressing
  <2>3. q.made = p.made
    BY DEF Emptied
  <2>. QED BY <1>1, <1>3, <1>4, <2>1, <2>2, <2>3 DEF Parts
<1>5. CASE q.coding = p.coding /\ q.sent = p.sent \cup InQueue(p) /\ q.dropped = p.dropped
  <2>1. Compressing(q) = Compressing(p) /\ q.made = p.made
    BY <1>5 DEF Compressing, Emptied
  <2>. QED BY <1>1, <1>3, <1>5, <2>1 DEF Parts
<1>6. CASE q.coding = p.coding /\ q.sent = p.sent /\ q.dropped = p.dropped \cup InQueue(p)
  <2>1. Compressing(q) = Compressing(p) /\ q.made = p.made
    BY <1>6 DEF Compressing, Emptied
  <2>. QED BY <1>1, <1>3, <1>6, <2>1 DEF Parts
<1>. QED BY <1>4, <1>5, <1>6 DEF Emptied

LEMMA InQueueType ==
  ASSUME NEW p, p.queue \in Seq(Events) PROVE InQueue(p) \in SUBSET Events
  BY DEF InQueue

(* clearQueuedEvents drops what waits. *)
LEMMA ClearEffect ==
  ASSUME NEW p \in PageType
  PROVE  LET q == clearQueuedEvents(p) IN
         /\ q \in PageType /\ Emptied(p, q) /\ SameConsent(p, q) /\ SamePerson(p, q)
         /\ q.sent = p.sent /\ q.coding = p.coding
<1>. DEFINE d == p.dropped \cup InQueue(p)
            q == clearQueuedEvents(p)
<1>1. d \in SUBSET Events
  BY InQueueType DEF PageType
<1>0. <<>> \in Seq(Events)
  OBVIOUS
<1>2. q = [p EXCEPT !.queue = <<>>, !.timer = FALSE, !.dropped = d]
  BY DEF clearQueuedEvents
<1>. HIDE DEF d, q
<1>3. q \in PageType
  BY ZenonT(90), <1>0, <1>1, <1>2 DEF PageType
<1>4. /\ q.queue = <<>> /\ q.timer = FALSE /\ q.made = p.made
      /\ q.coding = p.coding /\ q.sent = p.sent /\ q.dropped = d
      /\ SameConsent(p, q) /\ SamePerson(p, q)
  BY <1>2 DEF PageType, SameConsent, SamePerson
<1>. QED BY <1>3, <1>4 DEF Emptied, d, q

(* flush takes the whole queue, and sends nothing that is not allowed. *)
LEMMA FlushEffect ==
  ASSUME NEW p \in PageType, Len(p.queue) <= MaxBatch
  PROVE  LET q == flush(p) IN
         /\ q \in PageType /\ Emptied(p, q) /\ SameConsent(p, q) /\ SamePerson(p, q)
         /\ ~Allowed(p) => q.sent = p.sent /\ q.coding = p.coding
         /\ p.queue = <<>> => q.sent = p.sent /\ q.coding = p.coding
<1>. DEFINE n == Len(p.queue)
            batch == {p.queue[i] : i \in 1..n}
            rest == [p EXCEPT !.timer = FALSE, !.queue = <<>>]
            q == flush(p)
<1>1. p.queue \in Seq(Events) /\ n \in Nat /\ MaxBatch \in Nat \ {0}
  BY PageAssumption DEF PageType
<1>2. (IF n < MaxBatch THEN n ELSE MaxBatch) = n
  BY <1>1
<1>3. SubSeq(p.queue, n + 1, n) = <<>>
  BY <1>1
<1>4. q = IF ~Allowed(p) THEN clearQueuedEvents(p)
          ELSE IF p.queue = <<>> THEN rest
          ELSE IF setup.codec /\ ~p.unloading
               THEN [rest EXCEPT !.coding = @ \cup {batch}]
               ELSE sendBlob(rest, batch)
  BY <1>2, <1>3 DEF flush
<1>5. batch = InQueue(p) /\ batch \in SUBSET Events
  BY InQueueType, <1>1 DEF InQueue
<1>0. <<>> \in Seq(Events)
  OBVIOUS
<1>6. /\ rest \in PageType
      /\ rest.queue = <<>> /\ rest.timer = FALSE /\ rest.made = p.made
      /\ rest.coding = p.coding /\ rest.sent = p.sent /\ rest.dropped = p.dropped
      /\ SameConsent(p, rest) /\ SamePerson(p, rest)
  <2>1. rest \in PageType
    BY ZenonT(90), <1>0 DEF PageType
  <2>2. /\ rest.queue = <<>> /\ rest.timer = FALSE /\ rest.made = p.made
        /\ rest.coding = p.coding /\ rest.sent = p.sent /\ rest.dropped = p.dropped
    BY ZenonT(90) DEF PageType
  <2>3. SameConsent(p, rest) /\ SamePerson(p, rest)
    BY ZenonT(90) DEF PageType, SameConsent, SamePerson
  <2>. QED BY <2>1, <2>2, <2>3
<1>. HIDE DEF n, batch, rest, q
<1>7. CASE ~Allowed(p)
  BY <1>4, <1>7, ClearEffect DEF q
<1>8. CASE Allowed(p) /\ p.queue = <<>>
  BY <1>4, <1>6, <1>8, NothingQueued DEF q, Emptied
<1>9. CASE q = [rest EXCEPT !.coding = @ \cup {batch}] /\ Allowed(p) /\ p.queue # <<>>
  <2>. DEFINE c == rest.coding \cup {batch}
  <2>1. c \in SUBSET SUBSET Events
    BY <1>5, <1>6 DEF PageType
  <2>2. q = [rest EXCEPT !.coding = c]
    BY <1>9
  <2>. HIDE DEF c
  <2>3. /\ q \in PageType
        /\ q.queue = <<>> /\ q.timer = FALSE /\ q.made = p.made
        /\ q.coding = c /\ q.sent = p.sent /\ q.dropped = p.dropped
        /\ SameConsent(p, q) /\ SamePerson(p, q)
    <3>1. q \in PageType
      BY ZenonT(90), <1>6, <2>1, <2>2 DEF PageType
    <3>2. q.queue = <<>> /\ q.timer = FALSE /\ q.made = p.made
      BY ZenonT(90), <1>6, <2>2 DEF PageType
    <3>3. q.coding = c /\ q.sent = p.sent /\ q.dropped = p.dropped
      BY ZenonT(90), <1>6, <2>2 DEF PageType
    <3>4. SameConsent(rest, q)
      BY ZenonT(90), <1>6, <2>2 DEF PageType, SameConsent
    <3>5. SamePerson(rest, q)
      BY ZenonT(90), <1>6, <2>2 DEF PageType, SamePerson
    <3>6. SameConsent(p, q) /\ SamePerson(p, q)
      BY ZenonT(90), <1>6, <3>4, <3>5 DEF SameConsent, SamePerson
    <3>. QED BY <3>1, <3>2, <3>3, <3>6
  <2>. QED BY <1>5, <1>6, <1>9, <2>3 DEF Emptied, c, q
<1>10. CASE q = sendBlob(rest, batch) /\ Allowed(p) /\ p.queue # <<>>
  <2>. DEFINE c == rest.sent \cup batch
  <2>1. c \in SUBSET Events
    BY <1>5, <1>6 DEF PageType
  <2>2. q = [rest EXCEPT !.sent = c]
    BY <1>6, <1>10, SameAllowed DEF sendBlob
  <2>. HIDE DEF c
  <2>3. /\ q \in PageType
        /\ q.queue = <<>> /\ q.timer = FALSE /\ q.made = p.made
        /\ q.sent = c /\ q.coding = p.coding /\ q.dropped = p.dropped
        /\ SameConsent(p, q) /\ SamePerson(p, q)
    <3>1. q \in PageType
      BY ZenonT(90), <1>6, <2>1, <2>2 DEF PageType
    <3>2. q.queue = <<>> /\ q.timer = FALSE /\ q.made = p.made
      BY ZenonT(90), <1>6, <2>2 DEF PageType
    <3>3. q.sent = c /\ q.coding = p.coding /\ q.dropped = p.dropped
      BY ZenonT(90), <1>6, <2>2 DEF PageType
    <3>4. SameConsent(rest, q)
      BY ZenonT(90), <1>6, <2>2 DEF PageType, SameConsent
    <3>5. SamePerson(rest, q)
      BY ZenonT(90), <1>6, <2>2 DEF PageType, SamePerson
    <3>6. SameConsent(p, q) /\ SamePerson(p, q)
      BY ZenonT(90), <1>6, <3>4, <3>5 DEF SameConsent, SamePerson
    <3>. QED BY <3>1, <3>2, <3>3, <3>6
  <2>. QED BY <1>5, <1>6, <1>10, <2>3 DEF Emptied, c, q
<1>. QED BY <1>4, <1>7, <1>8, <1>9, <1>10

LEMMA QueueFlushKeeps ==
  ASSUME NEW p \in PageType, Parts(p), Len(p.queue) <= MaxBatch
  PROVE  Keeps(p, flush(p)) /\ flush(p).queue = <<>>
<1>1. /\ flush(p) \in PageType /\ Emptied(p, flush(p))
      /\ SameConsent(p, flush(p)) /\ SamePerson(p, flush(p))
  BY FlushEffect
<1>2. ~Allowed(p) => flush(p).sent = p.sent /\ flush(p).coding = p.coding
  BY FlushEffect
<1>3. Parts(flush(p)) /\ Scheduled(flush(p))
  BY <1>1, EmptiedParts
<1>. QED BY <1>1, <1>2, <1>3 DEF Keeps, Sound, Quiet, SamePerson, Emptied

(* queueEvent makes an event, and flushes a queue that is full. *)
LEMMA QueueEventKeeps ==
  ASSUME NEW p, Sound(p)
  PROVE  Keeps(p, queueEvent(p))
<1>. DEFINE n == Len(p.queue)
            m == p.made + 1
            longer == Append(p.queue, m)
            pushed == [p EXCEPT !.made = @ + 1, !.queue = Append(@, p.made + 1)]
            timed == [pushed EXCEPT !.timer = TRUE]
<1>1. /\ p \in PageType /\ Parts(p) /\ Scheduled(p)
      /\ p.queue \in Seq(Events) /\ n \in Nat /\ m \in Events /\ p.made \in Nat
      /\ MaxBatch \in Nat \ {0}
  BY PageAssumption DEF Sound, PageType, Events
<1>2. pushed = [p EXCEPT !.made = m, !.queue = longer]
  BY <1>1 DEF PageType
<1>3. /\ longer \in Seq(Events) /\ Len(longer) = n + 1
      /\ \A i \in 1..n : longer[i] = p.queue[i]
      /\ longer[n + 1] = m
  BY <1>1
<1>4. \A i \in 1..(n + 1) : i \in 1..n \/ i = n + 1
  BY <1>1
<1>5. 1..n \subseteq 1..(n + 1) /\ n + 1 \in 1..(n + 1)
  BY <1>1
<1>6. 1..m = 1..p.made \cup {m} /\ m \notin 1..p.made
  BY <1>1
<1>7. n = 0 \/ n < MaxBatch
  BY <1>1 DEF Scheduled
<1>8. n + 1 <= MaxBatch
  BY <1>1, <1>7
<1>9. m \in Nat
  BY <1>1
<1>10. n = Len(p.queue)
  OBVIOUS
<1>. HIDE DEF n, m, longer, pushed
<1>11. /\ pushed \in PageType
       /\ pushed.made = m /\ pushed.queue = longer /\ pushed.sent = p.sent
       /\ pushed.dropped = p.dropped /\ pushed.coding = p.coding
       /\ SameConsent(p, pushed) /\ SamePerson(p, pushed)
  BY ZenonT(90), <1>1, <1>2, <1>3, <1>9 DEF PageType, SameConsent, SamePerson
<1>12. InQueue(pushed) = InQueue(p) \cup {m} /\ Compressing(pushed) = Compressing(p)
  BY SMTT(30), <1>3, <1>4, <1>5, <1>10, <1>11 DEF InQueue, Compressing
<1>13. m \notin InQueue(p) \cup p.sent \cup p.dropped \cup Compressing(p)
  BY <1>1, <1>6 DEF Parts
<1>14. Parts(pushed)
  <2>1. \A i, k \in 1..(n + 1) : longer[i] = longer[k] => i = k
    BY SMTT(60), <1>1, <1>3, <1>4, <1>10, <1>13 DEF Parts, InQueue
  <2>2. InQueue(pushed) \cup pushed.sent \cup pushed.dropped \cup Compressing(pushed) = 1..m
    BY <1>1, <1>6, <1>11, <1>12 DEF Parts
  <2>. QED BY <1>1, <1>3, <1>11, <1>12, <1>13, <2>1, <2>2 DEF Parts
<1>15. Len(pushed.queue) = n + 1 /\ Len(pushed.queue) <= MaxBatch
  BY <1>3, <1>8, <1>11
<1>16. CASE ~Allowed(p) \/ p.limited
  <2>1. queueEvent(p) = p
    BY <1>16 DEF queueEvent
  <2>. QED BY <2>1 DEF Keeps, SameConsent
<1>17. CASE Allowed(p) /\ ~p.limited /\ Len(pushed.queue) >= MaxBatch
  <2>1. queueEvent(p) = flush(pushed)
    BY <1>17 DEF queueEvent, pushed
  <2>2. Keeps(pushed, flush(pushed))
    BY QueueFlushKeeps, <1>11, <1>14, <1>15
  <2>. QED BY <1>11, <1>17, <2>1, <2>2 DEF Keeps, SameConsent
<1>18. CASE Allowed(p) /\ ~p.limited /\ ~(Len(pushed.queue) >= MaxBatch)
  <2>1. queueEvent(p) = timed
    BY <1>18 DEF queueEvent, pushed
  <2>2. /\ timed \in PageType /\ timed.timer = TRUE /\ timed.queue = pushed.queue
        /\ timed.made = pushed.made /\ timed.sent = pushed.sent
        /\ timed.dropped = pushed.dropped /\ timed.coding = pushed.coding
        /\ SameConsent(p, timed)
    BY ZenonT(90), <1>11 DEF PageType, SameConsent
  <2>. HIDE DEF timed
  <2>3. Parts(timed)
    BY <1>14, <2>2 DEF Parts, InQueue, Compressing
  <2>4. Len(timed.queue) < MaxBatch
    BY <1>1, <1>15, <1>18, <2>2, <1>10
  <2>. QED BY <1>18, <2>1, <2>2, <2>3, <2>4 DEF Keeps, Sound, Scheduled
<1>. QED BY <1>16, <1>17, <1>18

LEMMA SoundFlush ==
  ASSUME NEW p, Sound(p)
  PROVE  Keeps(p, flush(p)) /\ flush(p).queue = <<>>
<1>1. p \in PageType /\ Parts(p) /\ Len(p.queue) \in Nat /\ MaxBatch \in Nat \ {0}
  BY PageAssumption DEF Sound, PageType
<1>2. Len(p.queue) = 0 \/ Len(p.queue) < MaxBatch
  BY NothingQueued DEF Sound, Scheduled
<1>. QED BY <1>1, <1>2, QueueFlushKeeps

(* The flags that no property is about. *)
Flagged(p, b) ==
    {[p EXCEPT !.moved = b],
     [p EXCEPT !.perfSent = b],
     [p EXCEPT !.exitSent = b],
     [p EXCEPT !.unloading = b],
     [p EXCEPT !.started = b],
     [p EXCEPT !.waiting = b],
     [p EXCEPT !.deferred = b],
     [p EXCEPT !.recWaiting = b],
     [p EXCEPT !.recUnload = b],
     [p EXCEPT !.navTimer = b],
     [p EXCEPT !.limited = b],
     [p EXCEPT !.recTimer = b],
     [p EXCEPT !.metaSent = b],
     [p EXCEPT !.prerender = b]}

LEMMA FlagKeeps ==
  ASSUME NEW p, Sound(p), NEW b \in BOOLEAN, NEW q \in Flagged(p, b)
  PROVE  Keeps(p, q)
<1>. DEFINE Fine(r) == /\ r \in PageType /\ SameConsent(p, r) /\ SamePerson(p, r)
                       /\ SameEvents(p, r)
<1>0. p \in PageType
  BY DEF Sound
<1>1. Fine([p EXCEPT !.moved = b])
  BY ZenonT(90), <1>0 DEF PageType, SameConsent, SamePerson, SameEvents
<1>2. Fine([p EXCEPT !.perfSent = b])
  BY ZenonT(90), <1>0 DEF PageType, SameConsent, SamePerson, SameEvents
<1>3. Fine([p EXCEPT !.exitSent = b])
  BY ZenonT(90), <1>0 DEF PageType, SameConsent, SamePerson, SameEvents
<1>4. Fine([p EXCEPT !.unloading = b])
  BY ZenonT(90), <1>0 DEF PageType, SameConsent, SamePerson, SameEvents
<1>5. Fine([p EXCEPT !.started = b])
  BY ZenonT(90), <1>0 DEF PageType, SameConsent, SamePerson, SameEvents
<1>6. Fine([p EXCEPT !.waiting = b])
  BY ZenonT(90), <1>0 DEF PageType, SameConsent, SamePerson, SameEvents
<1>7. Fine([p EXCEPT !.deferred = b])
  BY ZenonT(90), <1>0 DEF PageType, SameConsent, SamePerson, SameEvents
<1>8. Fine([p EXCEPT !.recWaiting = b])
  BY ZenonT(90), <1>0 DEF PageType, SameConsent, SamePerson, SameEvents
<1>9. Fine([p EXCEPT !.recUnload = b])
  BY ZenonT(90), <1>0 DEF PageType, SameConsent, SamePerson, SameEvents
<1>10. Fine([p EXCEPT !.navTimer = b])
  BY ZenonT(90), <1>0 DEF PageType, SameConsent, SamePerson, SameEvents
<1>11. Fine([p EXCEPT !.limited = b])
  BY ZenonT(90), <1>0 DEF PageType, SameConsent, SamePerson, SameEvents
<1>12. Fine([p EXCEPT !.recTimer = b])
  BY ZenonT(90), <1>0 DEF PageType, SameConsent, SamePerson, SameEvents
<1>13. Fine([p EXCEPT !.metaSent = b])
  BY ZenonT(90), <1>0 DEF PageType, SameConsent, SamePerson, SameEvents
<1>14. Fine([p EXCEPT !.prerender = b])
  BY ZenonT(90), <1>0 DEF PageType, SameConsent, SamePerson, SameEvents
<1>. HIDE DEF Fine
<1>20. Fine(q)
  BY <1>1, <1>2, <1>3, <1>4, <1>5, <1>6, <1>7, <1>8, <1>9, <1>10, <1>11, <1>12,
     <1>13, <1>14 DEF Flagged
<1>. QED
  BY <1>20, Minor DEF Fine

LEMMA KeepsSame == ASSUME NEW p, Sound(p) PROVE Keeps(p, p)
  BY DEF Keeps, SameConsent

LEMMA PageviewKeeps ==
  ASSUME NEW p, Sound(p) PROVE Keeps(p, trackPageview(p))
<1>. DEFINE q == [p EXCEPT !.moved = FALSE]
<1>1. q \in Flagged(p, FALSE)
  BY DEF Flagged
<1>. HIDE DEF q
<1>2. Keeps(p, q)
  BY <1>1, FlagKeeps
<1>3. Keeps(q, queueEvent(q))
  BY <1>2, QueueEventKeeps DEF Keeps
<1>. QED
  BY <1>2, <1>3, KeepsTwice DEF trackPageview, q

LEMMA ReportKeeps ==
  ASSUME NEW p, NEW q, Keeps(p, q) PROVE Keeps(p, flush(queueEvent(q)))
<1>1. Keeps(q, queueEvent(q))
  BY QueueEventKeeps DEF Keeps
<1>2. Keeps(queueEvent(q), flush(queueEvent(q)))
  BY <1>1, SoundFlush DEF Keeps
<1>. QED
  BY <1>1, <1>2, KeepsTwice

LEMMA SendsKeep ==
  ASSUME NEW p, Sound(p)
  PROVE  Keeps(p, sendPerf(p)) /\ Keeps(p, sendExit(p))
<1>1. [p EXCEPT !.perfSent = TRUE] \in Flagged(p, TRUE)
  BY DEF Flagged
<1>2. [p EXCEPT !.exitSent = TRUE] \in Flagged(p, TRUE)
  BY DEF Flagged
<1>3. Keeps(p, flush(queueEvent([p EXCEPT !.perfSent = TRUE])))
  BY <1>1, FlagKeeps, ReportKeeps
<1>4. Keeps(p, flush(queueEvent([p EXCEPT !.exitSent = TRUE])))
  BY <1>2, FlagKeeps, ReportKeeps
<1>. QED
  BY <1>3, <1>4, KeepsSame DEF sendPerf, sendExit

(* beforeunload and pagehide. *)
LEMMA UnloadingKeeps ==
  ASSUME NEW p, Sound(p) PROVE Keeps(p, Unloading(p))
<1>. DEFINE q == [p EXCEPT !.unloading = TRUE]
<1>1. q \in Flagged(p, TRUE)
  BY DEF Flagged
<1>. HIDE DEF q
<1>2. Keeps(p, q)
  BY <1>1, FlagKeeps
<1>3. Keeps(q, flush(q))
  BY <1>2, SoundFlush DEF Keeps
<1>. QED
  BY <1>2, <1>3, KeepsTwice DEF Unloading, q

(* What the page was set up with, as TypeOK has it. *)
SetupType == setup \in Setups

(* The identity: forgotten, and made only where tracking is allowed. *)
LEMMA ClearIdentityKeeps ==
  ASSUME NEW p, Sound(p)
  PROVE  Keeps(p, clearVisitorIdentity(p)) /\ clearVisitorIdentity(p).identity = "none"
<1>. DEFINE q == [p EXCEPT !.identity = "none", !.vid = FALSE]
<1>1. p \in PageType
  BY DEF Sound
<1>2. q \in PageType
  BY ZenonT(90), <1>1 DEF PageType
<1>3. /\ SameConsent(p, q) /\ SameEvents(p, q) /\ q.rec = p.rec /\ q.identity = "none"
  BY <1>1 DEF PageType, SameConsent, SameEvents
<1>4. clearVisitorIdentity(p) = q
  BY DEF clearVisitorIdentity
<1>. HIDE DEF q
<1>5. Sound(q)
  BY <1>2, <1>3, SameSound
<1>. QED
  BY <1>3, <1>4, <1>5 DEF Keeps, Quiet, SameEvents

LEMMA IdentityKeeps ==
  ASSUME SetupType, NEW p, Sound(p), Allowed(p) PROVE Keeps(p, getOrCreateVisitorId(p))
<1>. DEFINE i == IF setup.persistent THEN "stored" ELSE "derived"
            v == setup.persistent
            q == [p EXCEPT !.identity = i, !.vid = v]
<1>1. p \in PageType /\ v \in BOOLEAN /\ i \in {"none", "stored", "derived"}
  BY PageAssumption DEF Sound, SetupType
<1>2. getOrCreateVisitorId(p) = q
  BY DEF getOrCreateVisitorId
<1>. HIDE DEF i, v
<1>3. q \in PageType
  BY ZenonT(90), <1>1 DEF PageType
<1>4. /\ SameConsent(p, q) /\ SameEvents(p, q)
  BY <1>1 DEF PageType, SameConsent, SameEvents
<1>. HIDE DEF q
<1>. QED
  BY <1>2, <1>3, <1>4, SameSound DEF Keeps

(* startTracking, init: nothing starts before tracking is allowed. *)
LEMMA StartKeeps ==
  ASSUME SetupType, NEW p, Sound(p) PROVE Keeps(p, startTracking(p))
<1>. DEFINE q == [p EXCEPT !.started = TRUE]
            r == getOrCreateVisitorId(q)
<1>1. q \in Flagged(p, TRUE)
  BY DEF Flagged
<1>2. CASE p.started \/ ~Allowed(p)
  BY <1>2, KeepsSame DEF startTracking
<1>3. CASE ~(p.started \/ ~Allowed(p))
  <2>1. startTracking(p) = trackPageview(r)
    BY <1>3 DEF startTracking
  <2>. HIDE DEF q
  <2>2. Keeps(p, q)
    BY <1>1, FlagKeeps
  <2>3. Keeps(q, r)
    BY <1>3, <2>2, SameAllowed, IdentityKeeps DEF Keeps
  <2>. HIDE DEF r
  <2>4. Keeps(r, trackPageview(r))
    BY <2>3, PageviewKeeps DEF Keeps
  <2>. QED
    BY <2>1, <2>2, <2>3, <2>4, KeepsTwice
<1>. QED
  BY <1>2, <1>3

LEMMA InitKeeps ==
  ASSUME SetupType, NEW p, Sound(p) PROVE Keeps(p, init(p))
<1>1. [p EXCEPT !.waiting = TRUE] \in Flagged(p, TRUE)
  BY DEF Flagged
<1>2. [p EXCEPT !.deferred = TRUE] \in Flagged(p, TRUE)
  BY DEF Flagged
<1>3. Keeps(p, [p EXCEPT !.waiting = TRUE])
  BY <1>1, FlagKeeps
<1>4. Keeps(p, [p EXCEPT !.deferred = TRUE])
  BY <1>2, FlagKeeps
<1>5. init(p) \in {p, [p EXCEPT !.waiting = TRUE], [p EXCEPT !.deferred = TRUE],
                  startTracking(p)}
  BY DEF init
<1>. QED
  BY <1>3, <1>4, <1>5, KeepsSame, StartKeeps

LEMMA ClearKeeps ==
  ASSUME NEW p, Sound(p) PROVE Keeps(p, clearQueuedEvents(p))
<1>. DEFINE q == clearQueuedEvents(p)
<1>1. /\ q \in PageType /\ Emptied(p, q) /\ SameConsent(p, q) /\ SamePerson(p, q)
      /\ q.sent = p.sent /\ q.coding = p.coding
  BY ClearEffect DEF Sound
<1>. HIDE DEF q
<1>2. Parts(q) /\ Scheduled(q)
  BY <1>1, EmptiedParts DEF Sound
<1>3. q.queue = <<>>
  BY <1>1 DEF Emptied
<1>. QED
  BY <1>1, <1>2, <1>3 DEF Keeps, Sound, Quiet, SamePerson, q

(* An announcement of the consent, to the tracker. *)
LEMMA ConsentChangeKeeps ==
  ASSUME SetupType, NEW p, Sound(p) PROVE Keeps(p, handleConsentChange(p))
<1>. DEFINE q == IF p.started /\ p.identity = "none" THEN getOrCreateVisitorId(p) ELSE p
<1>1. ASSUME Allowed(p) PROVE Keeps(p, init(q))
  <2>1. Keeps(p, q)
    BY <1>1, KeepsSame, IdentityKeeps
  <2>. HIDE DEF q
  <2>2. Keeps(q, init(q))
    BY <2>1, InitKeeps DEF Keeps
  <2>. QED
    BY <2>1, <2>2, KeepsTwice
<1>2. Keeps(p, clearQueuedEvents(p))
  BY ClearKeeps
<1>3. Keeps(p, clearVisitorIdentity(clearQueuedEvents(p)))
  <2>1. Keeps(clearQueuedEvents(p), clearVisitorIdentity(clearQueuedEvents(p)))
    BY <1>2, ClearIdentityKeeps DEF Keeps
  <2>. QED
    BY <1>2, <2>1, KeepsTwice
<1>. QED
  BY <1>1, <1>2, <1>3, KeepsSame DEF handleConsentChange

(* The recorder is loaded only where tracking is allowed. *)
LEMMA LoadRecorderKeeps ==
  ASSUME NEW p, Sound(p)
  PROVE  /\ Keeps(p, loadRecorder(p)) /\ Keeps(p, loadRecorderWhenAllowed(p))
         /\ Keeps(p, tryLoad(p))
<1>1. ASSUME NEW q, Sound(q) PROVE Keeps(q, loadRecorder(q))
  <2>. DEFINE r == [q EXCEPT !.rec = "script"]
  <2>1. q \in PageType
    BY <1>1 DEF Sound
  <2>2. r \in PageType
    BY SMTT(30), <2>1 DEF PageType, Recorder
  <2>3. SameConsent(q, r) /\ SameEvents(q, r)
    BY <2>1 DEF PageType, SameConsent, SameEvents
  <2>4. loadRecorder(q) = IF q.rec # "absent" \/ ~Allowed(q) THEN q ELSE r
    BY DEF loadRecorder
  <2>. HIDE DEF r
  <2>. QED
    BY <1>1, <2>2, <2>3, <2>4, SameSound, KeepsSame DEF Keeps
<1>2. [p EXCEPT !.recWaiting = TRUE] \in Flagged(p, TRUE)
  BY DEF Flagged
<1>3. [p EXCEPT !.recWaiting = FALSE] \in Flagged(p, FALSE)
  BY DEF Flagged
<1>4. Keeps(p, loadRecorderWhenAllowed(p))
  BY <1>1, <1>2, FlagKeeps DEF loadRecorderWhenAllowed
<1>5. Keeps(p, tryLoad(p))
  <2>. DEFINE q == [p EXCEPT !.recWaiting = FALSE]
  <2>1. Keeps(p, q)
    BY <1>3, FlagKeeps
  <2>2. tryLoad(p) \in {p, loadRecorder(q)}
    BY DEF tryLoad
  <2>. HIDE DEF q
  <2>3. Keeps(q, loadRecorder(q))
    BY <1>1, <2>1 DEF Keeps
  <2>. QED
    BY <2>1, <2>2, <2>3, KeepsSame, KeepsTwice
<1>. QED
  BY <1>1, <1>4, <1>5

LEMMA AnnounceKeeps ==
  ASSUME SetupType, NEW p, Sound(p) PROVE Keeps(p, Announce(p))
<1>1. Keeps(p, handleConsentChange(p))
  BY ConsentChangeKeeps
<1>2. Keeps(handleConsentChange(p), Announce(p))
  BY <1>1, LoadRecorderKeeps DEF Announce, Keeps
<1>. QED
  BY <1>1, <1>2, KeepsTwice

-------------------------------------------------------------------------------
(* The recorder *)

LEMMA RecFlushKeeps ==
  ASSUME NEW p, Sound(p)
  PROVE  Keeps(p, recFlush(p))
<1>. DEFINE q == [p EXCEPT !.recTimer = FALSE]
            r == [p EXCEPT !.recTimer = FALSE, !.buffer = 0, !.metaSent = TRUE]
<1>0. p \in PageType
  BY DEF Sound
<1>1. q \in PageType /\ r \in PageType
  <2>1. q \in PageType
    BY ZenonT(90), <1>0 DEF PageType
  <2>2. r \in PageType
    BY ZenonT(90), <1>0 DEF PageType
  <2>. QED BY <2>1, <2>2
<1>2. SameConsent(p, q) /\ SameEvents(p, q) /\ SamePerson(p, q)
  BY <1>0 DEF PageType, SameConsent, SameEvents, SamePerson
<1>3. SameConsent(p, r) /\ SameEvents(p, r) /\ SamePerson(p, r)
  BY <1>0 DEF PageType, SameConsent, SameEvents, SamePerson
<1>4. recFlush(p) \in {q, r}
  BY DEF recFlush
<1>. HIDE DEF q, r
<1>. QED
  BY <1>1, <1>2, <1>3, <1>4, Minor

LEMMA EmitKeeps ==
  ASSUME NEW p, Sound(p)
  PROVE  Keeps(p, emit(p))
<1>. DEFINE b == p.buffer + 1
            q == [p EXCEPT !.buffer = b]
            r == [q EXCEPT !.recTimer = TRUE]
<1>0. p \in PageType /\ b \in Nat
  BY DEF Sound, PageType
<1>2. emit(p) \in {recFlush(q), r}
  BY DEF emit
<1>. HIDE DEF b
<1>3. q \in PageType
  BY ZenonT(90), <1>0 DEF PageType
<1>4. SameConsent(p, q) /\ SameEvents(p, q) /\ SamePerson(p, q)
  BY <1>0 DEF PageType, SameConsent, SameEvents, SamePerson
<1>5. r \in Flagged(q, TRUE)
  BY DEF Flagged
<1>. HIDE DEF q, r
<1>6. Keeps(p, q)
  BY <1>3, <1>4, Minor
<1>7. Sound(q)
  BY <1>6 DEF Keeps
<1>8. Keeps(q, recFlush(q)) /\ Keeps(q, r)
  BY <1>5, <1>7, RecFlushKeeps, FlagKeeps
<1>. QED
  BY <1>2, <1>6, <1>8, KeepsTwice

(* A recorder that goes on, or ends; once it is off it keeps nothing. *)
LEMMA RecKeeps ==
  ASSUME NEW p, Sound(p), NEW r \in Recorder, p.rec \in {"absent", "off"} => r = "off"
  PROVE  Keeps(p, [p EXCEPT !.rec = r])
<1>. DEFINE q == [p EXCEPT !.rec = r]
<1>0. p \in PageType
  BY DEF Sound
<1>1. q \in PageType
  BY <1>0 DEF PageType
<1>2. SameConsent(p, q) /\ SameEvents(p, q) /\ q.rec = r /\ q.identity = p.identity
  BY <1>0 DEF PageType, SameConsent, SameEvents
<1>. HIDE DEF q
<1>3. Sound(q)
  BY <1>1, <1>2, SameSound
<1>4. Keeps(p, q)
  BY <1>2, <1>3 DEF Keeps, Quiet, SameEvents
<1>. QED
  BY <1>4 DEF q

LEMMA StopRecordingKeeps ==
  ASSUME NEW p, Sound(p), p.rec = "recording"
  PROVE  Keeps(p, stopRecording(p))
<1>. DEFINE q == [p EXCEPT !.rec = "stopped"]
<1>1. Keeps(p, q)
  BY RecKeeps DEF Recorder
<1>2. stopRecording(p) = recFlush(q)
  BY DEF stopRecording
<1>. HIDE DEF q
<1>3. Keeps(q, recFlush(q))
  BY <1>1, RecFlushKeeps DEF Keeps
<1>. QED
  BY <1>1, <1>2, <1>3, KeepsTwice

LEMMA OnUnloadKeeps ==
  ASSUME NEW p, Sound(p)
  PROVE  Keeps(p, onUnload(p))
<1>. DEFINE q == [p EXCEPT !.recUnload = TRUE]
<1>1. q \in Flagged(p, TRUE)
  BY DEF Flagged
<1>2. onUnload(p) \in {p, recFlush(q)}
  BY DEF onUnload
<1>. HIDE DEF q
<1>3. Keeps(p, q)
  BY <1>1, FlagKeeps
<1>4. Keeps(q, recFlush(q))
  BY <1>3, RecFlushKeeps DEF Keeps
<1>. QED
  BY <1>2, <1>3, <1>4, KeepsSame, KeepsTwice

LEMMA HeardKeeps ==
  ASSUME NEW p, NEW h, Sound(p), Keeps(p, h)
  PROVE  Keeps(p, Heard(p, h))
<1>. DEFINE q == IF p.started THEN h ELSE p
<1>1. Keeps(p, q)
  BY KeepsSame
<1>2. Heard(p, h) = onUnload(q)
  BY DEF Heard
<1>. HIDE DEF q
<1>3. Keeps(q, onUnload(q))
  BY <1>1, OnUnloadKeeps DEF Keeps
<1>. QED
  BY <1>1, <1>2, <1>3, KeepsTwice

-------------------------------------------------------------------------------
(* The page's invariant.  Until the consent manager has published a status   *)
(* there is no answer, and nothing is kept of the visitor; the same holds    *)
(* after a denial.  The banner is open only over the default answer.         *)
Denial ==
    /\ page.lookup # "settled" => page.status = "loading" /\ ~page.banner
    /\ page.status = "loading" => page.consent = "none"
    /\ page.consent = "denied" => page.status = "configured"
    /\ page.status = "loading" \/ page.consent = "denied" => Quiet(page)
    /\ page.banner =>
          page.status = "configured" /\ page.consent = defaultConsent
    /\ page.version \in 0..MaxVersion

PageInv == TypeOK /\ Sound(page) /\ Denial

LEMMA KeepsDenial ==
  ASSUME PageInv, Keeps(page, page'), site'.asks = site.asks
  PROVE  Sound(page)' /\ Denial'
<1>1. page.status = "loading" \/ page.consent = "denied" => ~Allowed(page)
  BY DEF PageInv, Denial, Allowed, analyticsConsentAllowsTracking
<1>2. Sound(page')
  BY DEF Keeps
<1>. QED
  BY <1>1, <1>2 DEF PageInv, Denial, Keeps, SameConsent, defaultConsent

(* What happens to the page as such. *)
LEMMA TurnKeeps ==
  ASSUME NEW p, Sound(p), NEW l \in Life, NEW t \in Nat,
         NEW b \in BOOLEAN, NEW d \in BOOLEAN
  PROVE  /\ Keeps(p, [p EXCEPT !.life = l])
         /\ Keeps(p, [p EXCEPT !.todo = t])
         /\ Keeps(p, [p EXCEPT !.life = l, !.todo = t])
         /\ Keeps(p, [p EXCEPT !.life = l, !.prerender = b])
         /\ Keeps(p, [p EXCEPT !.prerender = b, !.deferred = d])
         /\ Keeps(p, [p EXCEPT !.todo = t, !.vid = b])
         /\ Keeps(p, [p EXCEPT !.todo = t, !.limited = b])
         /\ Keeps(p, [p EXCEPT !.limited = b, !.todo = t])
         /\ Keeps(p, [p EXCEPT !.todo = t, !.navTimer = b, !.moved = d])
         /\ Keeps(p, [p EXCEPT !.tm = "settled"])
<1>. DEFINE Fine(r) == /\ r \in PageType /\ SameConsent(p, r) /\ SamePerson(p, r)
                       /\ SameEvents(p, r)
<1>0. p \in PageType
  BY DEF Sound
<1>1. Fine([p EXCEPT !.life = l])
  BY ZenonT(90), <1>0 DEF PageType, SameConsent, SamePerson, SameEvents
<1>2. Fine([p EXCEPT !.todo = t])
  BY ZenonT(90), <1>0 DEF PageType, SameConsent, SamePerson, SameEvents
<1>3. Fine([p EXCEPT !.life = l, !.todo = t])
  BY ZenonT(90), <1>0 DEF PageType, SameConsent, SamePerson, SameEvents
<1>4. Fine([p EXCEPT !.life = l, !.prerender = b])
  BY ZenonT(90), <1>0 DEF PageType, SameConsent, SamePerson, SameEvents
<1>5. Fine([p EXCEPT !.prerender = b, !.deferred = d])
  <2>1. [p EXCEPT !.prerender = b, !.deferred = d] \in PageType
    BY ZenonT(90), <1>0 DEF PageType
  <2>. QED BY ZenonT(90), <1>0, <2>1 DEF PageType, SameConsent, SamePerson, SameEvents
<1>6. Fine([p EXCEPT !.todo = t, !.vid = b])
  BY ZenonT(90), <1>0 DEF PageType, SameConsent, SamePerson, SameEvents
<1>7. Fine([p EXCEPT !.todo = t, !.limited = b])
  BY ZenonT(90), <1>0 DEF PageType, SameConsent, SamePerson, SameEvents
<1>8. Fine([p EXCEPT !.limited = b, !.todo = t])
  BY ZenonT(90), <1>0 DEF PageType, SameConsent, SamePerson, SameEvents
<1>9. Fine([p EXCEPT !.todo = t, !.navTimer = b, !.moved = d])
  <2>1. ASSUME NEW r \in PageType PROVE [r EXCEPT !.moved = d] \in PageType
    BY ZenonT(90) DEF PageType
  <2>2. [p EXCEPT !.todo = t, !.navTimer = b] \in PageType
    BY ZenonT(90), <1>0 DEF PageType
  <2>3. [p EXCEPT !.todo = t, !.navTimer = b, !.moved = d] \in PageType
    BY <2>1, <2>2
  <2>. QED BY ZenonT(90), <1>0, <2>3 DEF PageType, SameConsent, SamePerson, SameEvents
<1>10. Fine([p EXCEPT !.tm = "settled"])
  BY ZenonT(90), <1>0 DEF PageType, SameConsent, SamePerson, SameEvents
<1>11. ASSUME NEW r, Fine(r) PROVE Keeps(p, r)
  BY <1>11, Minor
<1>. HIDE DEF Fine
<1>. QED
  BY <1>1, <1>2, <1>3, <1>4, <1>5, <1>6, <1>7, <1>8, <1>9, <1>10, <1>11

(* A batch that has been compressed is sent, or dropped. *)
LEMMA CompressedKeeps ==
  ASSUME NEW p, Sound(p), NEW batch \in p.coding
  PROVE  Keeps(p, sendBlob([p EXCEPT !.coding = @ \ {batch}], batch))
<1>. DEFINE c == p.coding \ {batch}
            sn == p.sent \cup batch
            dr == p.dropped \cup batch
            q == [p EXCEPT !.coding = c]
            s == [q EXCEPT !.sent = sn]
            d == [q EXCEPT !.dropped = dr]
<1>0. /\ p \in PageType /\ Parts(p) /\ Scheduled(p)
      /\ c \in SUBSET SUBSET Events /\ sn \in SUBSET Events /\ dr \in SUBSET Events
  BY DEF Sound, PageType
<1>1. /\ UNION c = Compressing(p) \ batch /\ batch \subseteq Compressing(p)
  BY <1>0 DEF Parts, Compressing
<1>2. q.sent = p.sent /\ q.dropped = p.dropped /\ q \in PageType
  BY <1>0 DEF PageType
<1>3. sendBlob([p EXCEPT !.coding = @ \ {batch}], batch) \in {s, d}
  BY <1>2 DEF sendBlob
<1>. HIDE DEF c, sn, dr
<1>4. /\ SameConsent(p, s) /\ s.queue = p.queue /\ s.timer = p.timer /\ s.made = p.made
      /\ s.coding = c /\ s.sent = sn /\ s.dropped = p.dropped
  BY <1>0 DEF PageType, SameConsent
<1>5. /\ SameConsent(p, d) /\ d.queue = p.queue /\ d.timer = p.timer /\ d.made = p.made
      /\ d.coding = c /\ d.sent = p.sent /\ d.dropped = dr
  BY <1>0 DEF PageType, SameConsent
<1>. HIDE DEF q
<1>6. s \in PageType /\ d \in PageType
  <2>1. s \in PageType
    BY ZenonT(90), <1>0, <1>2 DEF PageType
  <2>2. d \in PageType
    BY ZenonT(90), <1>0, <1>2 DEF PageType
  <2>. QED
    BY <2>1, <2>2
<1>. HIDE DEF s, d
<1>7. Parts(s)
  <2>1. InQueue(s) = InQueue(p) /\ Compressing(s) = Compressing(p) \ batch
    BY <1>1, <1>4 DEF InQueue, Compressing
  <2>2. s.sent = p.sent \cup batch
    BY <1>4 DEF sn
  <2>3. s.coding \subseteq p.coding
    BY <1>4 DEF c
  <2>. QED
    BY <1>0, <1>1, <1>4, <2>1, <2>2, <2>3 DEF Parts
<1>8. Parts(d)
  <2>1. InQueue(d) = InQueue(p) /\ Compressing(d) = Compressing(p) \ batch
    BY <1>1, <1>5 DEF InQueue, Compressing
  <2>2. d.dropped = p.dropped \cup batch
    BY <1>5 DEF dr
  <2>3. d.coding \subseteq p.coding
    BY <1>5 DEF c
  <2>. QED
    BY <1>0, <1>1, <1>5, <2>1, <2>2, <2>3 DEF Parts
<1>9. Scheduled(s) /\ Scheduled(d)
  BY <1>0, <1>4, <1>5 DEF Scheduled
<1>10. ~Quiet(p)
  BY DEF Quiet
<1>. QED
  BY <1>3, <1>4, <1>5, <1>6, <1>7, <1>8, <1>9, <1>10 DEF Keeps, Sound

(* A page that is gone begins anew. *)
LEMMA GoneSound ==
  ASSUME NEW p \in PageType
  PROVE  LET g == Gone(p) IN
         /\ Sound(g) /\ Quiet(g) /\ g.status = "loading" /\ g.consent = "none" /\ ~g.banner
         /\ g.version = 0
<1>. DEFINE v == p.vid
            g == [Blank EXCEPT !.vid = v]
<1>1. v \in BOOLEAN /\ Budget \in Nat
  BY PageAssumption DEF PageType
<1>2. g = Gone(p)
  BY DEF Gone
<1>. HIDE DEF v
<1>0. <<>> \in Seq(Events)
  OBVIOUS
<1>7. Blank \in PageType
  BY <1>0, <1>1 DEF Blank, PageType, Life, Status, Recorder
<1>3. g \in PageType
  BY ZenonT(90), <1>1, <1>7 DEF PageType
<1>4. /\ g.queue = <<>> /\ g.made = 0 /\ g.coding = {} /\ g.sent = {} /\ g.dropped = {}
      /\ g.identity = "none" /\ g.rec = "absent"
      /\ g.status = "loading" /\ g.consent = "none" /\ g.banner = FALSE
      /\ g.version = 0
  BY DEF Blank
<1>. HIDE DEF g
<1>5. InQueue(g) = {} /\ Compressing(g) = {} /\ 1..0 = {} /\ Len(g.queue) = 0
  BY <1>4, NothingQueued DEF Compressing
<1>6. Parts(g) /\ Scheduled(g)
  BY <1>4, <1>5 DEF Parts, Scheduled
<1>. QED
  BY <1>2, <1>3, <1>4, <1>6 DEF Sound, Quiet

LEMMA GoneInv ==
  ASSUME PageInv, NEW p \in PageType, page' = Gone(p), site'.asks = site.asks
  PROVE  Sound(page)' /\ Denial'
<1>1. MaxVersion \in Nat
  BY PageAssumption
<1>2. Sound(page')
  BY GoneSound
<1>. QED
  BY GoneSound, <1>1, <1>2 DEF Denial, defaultConsent

-------------------------------------------------------------------------------
(* The tracker's and the recorder's own steps. *)
LEMMA TrackerSteps ==
  ASSUME PageInv,
         \/ Open \/ Activate \/ loadTagManager \/ track \/ onNav \/ NavTimer
         \/ FlushTimer \/ Compressed \/ RateWindow
  PROVE  Keeps(page, page')
<1>0. /\ Sound(page) /\ SetupType /\ page \in PageType /\ page.life \in Life
      /\ page.todo \in Nat /\ page.limited \in BOOLEAN
  BY DEF PageInv, TypeOK, SetupType, Sound, PageType
<1>1. CASE Open
  <2>. PICK ahead \in BOOLEAN :
          page' = init([page EXCEPT !.life = "visible", !.prerender = ahead])
    BY ZenonT(30), <1>1 DEF Open, Step
  <2>. DEFINE q == [page EXCEPT !.life = "visible", !.prerender = ahead]
  <2>1. Keeps(page, q)
    BY ZenonT(30), <1>0, TurnKeeps DEF Life
  <2>2. page' = init(q)
    OBVIOUS
  <2>. HIDE DEF q
  <2>. QED
    BY <1>0, <2>1, <2>2, InitKeeps, KeepsTwice DEF Keeps
<1>2. CASE Activate
  <2>. DEFINE q == [page EXCEPT !.prerender = FALSE, !.deferred = FALSE]
  <2>1. Keeps(page, q)
    BY ZenonT(30), <1>0, TurnKeeps
  <2>2. page' \in {q, init(q)}
    BY <1>2 DEF Activate, Step
  <2>. HIDE DEF q
  <2>. QED
    BY <1>0, <2>1, <2>2, InitKeeps, KeepsTwice DEF Keeps
<1>3. CASE loadTagManager
  <2>. DEFINE q == [page EXCEPT !.tm = "settled"]
  <2>1. Keeps(page, q)
    BY ZenonT(30), <1>0, TurnKeeps
  <2>2. page' = loadRecorderWhenAllowed(q)
    BY <1>3 DEF loadTagManager, Step
  <2>. HIDE DEF q
  <2>. QED
    BY <1>0, <2>1, <2>2, LoadRecorderKeeps, KeepsTwice DEF Keeps
<1>4. CASE track
  <2>. DEFINE t == page.todo - 1
               q == [page EXCEPT !.todo = t]
  <2>1. t \in Nat
    BY <1>0, <1>4 DEF track
  <2>2. page' = queueEvent(q)
    BY <1>4 DEF track, Step
  <2>. HIDE DEF t
  <2>3. Keeps(page, q)
    BY ZenonT(30), <1>0, <2>1, TurnKeeps
  <2>. HIDE DEF q
  <2>. QED
    BY <1>0, <2>2, <2>3, QueueEventKeeps, KeepsTwice DEF Keeps
<1>5. CASE onNav
  <2>. DEFINE t == page.todo - 1
  <2>1. t \in Nat
    BY <1>0, <1>5 DEF onNav
  <2>2. page' = [page EXCEPT !.todo = t, !.navTimer = TRUE, !.moved = TRUE]
    BY <1>5 DEF onNav, Step
  <2>. HIDE DEF t
  <2>. QED
    BY ZenonT(30), <1>0, <2>1, <2>2, TurnKeeps
<1>6. CASE NavTimer
  <2>. DEFINE q == [page EXCEPT !.navTimer = FALSE]
  <2>1. q \in Flagged(page, FALSE)
    BY DEF Flagged
  <2>2. page' \in {q, trackPageview(q)}
    BY <1>6 DEF NavTimer, Step
  <2>. HIDE DEF q
  <2>3. Keeps(page, q)
    BY ZenonT(30), <1>0, <2>1, FlagKeeps
  <2>. QED
    BY <1>0, <2>2, <2>3, PageviewKeeps, KeepsTwice DEF Keeps
<1>7. CASE FlushTimer
  BY <1>0, <1>7, SoundFlush DEF FlushTimer, Step
<1>8. CASE Compressed
  BY <1>0, <1>8, CompressedKeeps DEF Compressed, Step
<1>9. CASE RateWindow
  <2>1. CASE page' = [page EXCEPT !.limited = FALSE]
    <3>1. page' \in Flagged(page, FALSE)
      BY <2>1 DEF Flagged
    <3>. QED
      BY ZenonT(30), <1>0, <3>1, FlagKeeps
  <2>2. CASE page.todo > 0 /\ page' = [page EXCEPT !.limited = TRUE, !.todo = @ - 1]
    <3>. DEFINE t == page.todo - 1
    <3>1. t \in Nat
      BY <1>0, <2>2
    <3>2. page' = [page EXCEPT !.limited = TRUE, !.todo = t]
      BY <2>2
    <3>. HIDE DEF t
    <3>. QED
      BY ZenonT(30), <1>0, <3>1, <3>2, TurnKeeps
  <2>. QED
    BY <1>9, <2>1, <2>2 DEF RateWindow, Step
<1>. QED
  BY <1>1, <1>2, <1>3, <1>4, <1>5, <1>6, <1>7, <1>8, <1>9

LEMMA RecorderSteps ==
  ASSUME PageInv, RecorderLoads \/ RecorderGoesOn \/ Emit \/ RecorderTimer
  PROVE  Keeps(page, page')
<1>0. Sound(page) /\ page.todo \in Nat /\ page.life \in Life /\ page \in PageType
  BY DEF PageInv, TypeOK, PageType
<1>1. CASE RecorderLoads
  <2>. DEFINE r == IF page.consent = "denied" \/ setup.dnt THEN "off" ELSE "config"
  <2>1. page' = [page EXCEPT !.rec = r] /\ page.rec = "script"
    BY <1>1 DEF RecorderLoads, Step
  <2>2. r \in Recorder
    BY DEF Recorder
  <2>. HIDE DEF r
  <2>. QED
    BY <1>0, <2>1, <2>2, RecKeeps
<1>2. CASE RecorderGoesOn
  <2>. PICK r \in Recorder :
          page' = [page EXCEPT !.rec = r] /\ page.rec \in {"config", "library"}
    BY <1>2 DEF RecorderGoesOn, Step, Recorder
  <2>. QED
    BY <1>0, RecKeeps
<1>3. CASE Emit
  <2>1. CASE page.todo > 0 /\ page' = emit([page EXCEPT !.todo = @ - 1])
    <3>. DEFINE t == page.todo - 1
                 q == [page EXCEPT !.todo = t]
    <3>1. t \in Nat /\ page' = emit(q)
      BY <1>0, <2>1
    <3>. HIDE DEF t
    <3>2. Keeps(page, q)
      BY ZenonT(30), <1>0, <3>1, TurnKeeps
    <3>. HIDE DEF q
    <3>. QED
      BY <3>1, <3>2, EmitKeeps, KeepsTwice DEF Keeps
  <2>0. page.rec = "recording"
    BY <1>3 DEF Emit
  <2>2. CASE page' = stopRecording(page)
    BY <1>0, <2>0, <2>2, StopRecordingKeeps
  <2>. QED
    BY <1>3, <2>1, <2>2 DEF Emit, Step
<1>4. CASE RecorderTimer
  BY <1>0, <1>4, RecFlushKeeps DEF RecorderTimer, Step
<1>. QED
  BY <1>1, <1>2, <1>3, <1>4

(* Hiding, leaving and returning to a page whose memory stays. *)
LEMMA LifeSteps ==
  ASSUME PageInv, Hide \/ Show \/ BeforeUnload \/ Stay \/ PageHide \/ PageShow
  PROVE  Keeps(page, page') \/ \E p \in PageType : page' = Gone(p)
<1>0. Sound(page) /\ page.todo \in Nat /\ page.life \in Life /\ page \in PageType
  BY DEF PageInv, TypeOK, PageType
<1>1. CASE Hide
  <2>. DEFINE q == [page EXCEPT !.life = "hidden"]
  <2>1. Keeps(page, q)
    BY ZenonT(30), <1>0, TurnKeeps DEF Life
  <2>2. page' = Heard(q, flush(sendPerf(q)))
    BY <1>1 DEF Hide, Step
  <2>. HIDE DEF q
  <2>3. Sound(q) /\ Keeps(q, sendPerf(q))
    BY <2>1, SendsKeep DEF Keeps
  <2>4. Keeps(sendPerf(q), flush(sendPerf(q)))
    BY <2>3, SoundFlush DEF Keeps
  <2>5. Keeps(q, Heard(q, flush(sendPerf(q))))
    BY <2>3, <2>4, KeepsTwice, HeardKeeps
  <2>. QED
    BY <2>1, <2>2, <2>5, KeepsTwice
<1>2. CASE Show \/ Stay
  <2>. DEFINE t == page.todo - 1
  <2>1. t \in Nat
    BY <1>0, <1>2 DEF Show, Stay
  <2>2. page' = [page EXCEPT !.life = "visible", !.todo = t]
    BY <1>2 DEF Show, Stay, Step
  <2>. HIDE DEF t
  <2>. QED
    BY ZenonT(30), <1>0, <2>1, <2>2, TurnKeeps DEF Life
<1>3. CASE BeforeUnload
  <2>. DEFINE q == [page EXCEPT !.life = "leaving"]
  <2>1. Keeps(page, q)
    BY ZenonT(30), <1>0, TurnKeeps DEF Life
  <2>2. page' = Heard(q, Unloading(sendExit(q)))
    BY <1>3 DEF BeforeUnload, Step
  <2>. HIDE DEF q
  <2>3. Sound(q) /\ Keeps(q, sendExit(q))
    BY <2>1, SendsKeep DEF Keeps
  <2>4. Keeps(sendExit(q), Unloading(sendExit(q)))
    BY <2>3, UnloadingKeeps DEF Keeps
  <2>5. Keeps(q, Heard(q, Unloading(sendExit(q))))
    BY <2>3, <2>4, KeepsTwice, HeardKeeps
  <2>. QED
    BY <2>1, <2>2, <2>5, KeepsTwice
<1>4. CASE PageHide
  <2>. DEFINE a == sendPerf(page)
               b == sendExit(a)
               q == Heard(page, Unloading(b))
  <2>1. page' = [q EXCEPT !.life = "frozen"] \/ page' = Gone(q)
    BY <1>4 DEF PageHide, Step
  <2>2. Keeps(page, a)
    BY <1>0, SendsKeep
  <2>3. Keeps(a, b)
    BY <2>2, SendsKeep DEF Keeps
  <2>4. Keeps(b, Unloading(b))
    BY <2>3, UnloadingKeeps DEF Keeps
  <2>. HIDE DEF a, b
  <2>5. Keeps(page, q)
    BY <1>0, <2>2, <2>3, <2>4, KeepsTwice, HeardKeeps
  <2>. HIDE DEF q
  <2>6. Keeps(page, [q EXCEPT !.life = "frozen"])
    BY ZenonT(30), <2>5, TurnKeeps, KeepsTwice DEF Life, Keeps
  <2>. QED
    BY <2>1, <2>5, <2>6 DEF Keeps, Sound
<1>5. CASE PageShow
  <2>. DEFINE t == page.todo - 1
               q == [page EXCEPT !.life = "visible", !.todo = t]
               r == [q EXCEPT !.unloading = FALSE]
  <2>1. t \in Nat
    BY <1>0, <1>5 DEF PageShow
  <2>2. page' \in {q, trackPageview(r)}
    BY <1>5 DEF PageShow, Step
  <2>. HIDE DEF t
  <2>3. Keeps(page, q)
    BY ZenonT(30), <1>0, <2>1, TurnKeeps DEF Life
  <2>4. r \in Flagged(q, FALSE)
    BY DEF Flagged
  <2>. HIDE DEF q, r
  <2>5. Keeps(q, r)
    BY <2>3, <2>4, FlagKeeps DEF Keeps
  <2>6. Keeps(r, trackPageview(r))
    BY <2>5, PageviewKeeps DEF Keeps
  <2>. QED
    BY <2>2, <2>3, <2>5, <2>6, KeepsTwice
<1>. QED
  BY <1>1, <1>2, <1>3, <1>4, <1>5

-------------------------------------------------------------------------------
(* The consent manager's steps. *)

LEMMA AnswerType ==
  defaultConsent \in Answer /\ Answers \subseteq Answer
  BY DEF defaultConsent, Answers, Answer

(* Two fields set at once. *)
ScriptLoad(p, k) == [p EXCEPT !.lookup = k, !.tm = "loading"]

ShowBanner(p, b, v) == [p EXCEPT !.banner = b, !.version = v]

(* Fields of the consent manager alone, and what it announces. *)
LEMMA LookupSet ==
  ASSUME NEW p, Sound(p), NEW k \in {"script", "config", "settled"},
         NEW q, q = [p EXCEPT !.lookup = k]
  PROVE  /\ Sound(q) /\ SamePerson(p, q) /\ SameEvents(p, q)
         /\ q.lookup = k /\ q.status = p.status /\ q.consent = p.consent
         /\ q.banner = p.banner /\ q.version = p.version
<1>0. p \in PageType
  BY DEF Sound
<1>1. q \in PageType
  BY <1>0 DEF PageType, Status
<1>2. /\ SamePerson(p, q) /\ SameEvents(p, q)
      /\ q.lookup = k /\ q.status = p.status /\ q.consent = p.consent
         /\ q.banner = p.banner /\ q.version = p.version
  BY <1>0 DEF PageType, SamePerson, SameEvents
<1>. QED
  BY <1>1, <1>2, SameSound

LEMMA ScriptLoaded ==
  ASSUME NEW p, Sound(p), NEW k \in {"script", "config", "settled"},
         NEW q, q = ScriptLoad(p, k)
  PROVE  /\ Sound(q) /\ SamePerson(p, q) /\ SameEvents(p, q)
         /\ q.lookup = k /\ q.status = p.status /\ q.consent = p.consent
         /\ q.banner = p.banner /\ q.version = p.version
<1>0. p \in PageType
  BY DEF Sound
<1>1. q \in PageType
  <2>1. [p EXCEPT !.lookup = k] \in PageType
    BY ZenonT(90), <1>0 DEF PageType
  <2>2. ASSUME NEW r \in PageType PROVE [r EXCEPT !.tm = "loading"] \in PageType
    BY ZenonT(90) DEF PageType
  <2>. QED BY <2>1, <2>2 DEF ScriptLoad
<1>2. /\ SamePerson(p, q) /\ SameEvents(p, q)
      /\ q.lookup = k /\ q.status = p.status /\ q.consent = p.consent
         /\ q.banner = p.banner /\ q.version = p.version
  BY <1>0 DEF PageType, ScriptLoad, SamePerson, SameEvents
<1>. QED
  BY <1>1, <1>2, SameSound

LEMMA BannerSet ==
  ASSUME NEW p, Sound(p), NEW b \in BOOLEAN, NEW v \in Nat, NEW q, q = ShowBanner(p, b, v)
  PROVE  /\ Sound(q) /\ SamePerson(p, q) /\ SameEvents(p, q)
         /\ q.lookup = p.lookup /\ q.status = p.status /\ q.consent = p.consent
         /\ q.banner = b /\ q.version = v
<1>0. p \in PageType
  BY DEF Sound
<1>1. q \in PageType
  <2>1. [p EXCEPT !.banner = b] \in PageType
    BY ZenonT(90), <1>0 DEF PageType
  <2>2. ASSUME NEW r \in PageType PROVE [r EXCEPT !.version = v] \in PageType
    BY ZenonT(90) DEF PageType
  <2>. QED BY <2>1, <2>2 DEF ShowBanner
<1>2. /\ SamePerson(p, q) /\ SameEvents(p, q)
      /\ q.lookup = p.lookup /\ q.status = p.status /\ q.consent = p.consent
         /\ q.banner = b /\ q.version = v
  BY <1>0 DEF PageType, ShowBanner, SamePerson, SameEvents
<1>. QED
  BY <1>1, <1>2, SameSound

LEMMA StatusSet ==
  ASSUME NEW p, Sound(p), NEW st \in Status, NEW q, q = [p EXCEPT !.status = st]
  PROVE  /\ Sound(q) /\ SamePerson(p, q) /\ SameEvents(p, q)
         /\ q.lookup = p.lookup /\ q.status = st /\ q.consent = p.consent
         /\ q.banner = p.banner /\ q.version = p.version
<1>0. p \in PageType
  BY DEF Sound
<1>1. q \in PageType
  BY <1>0 DEF PageType, Status
<1>2. /\ SamePerson(p, q) /\ SameEvents(p, q)
      /\ q.lookup = p.lookup /\ q.status = st /\ q.consent = p.consent
         /\ q.banner = p.banner /\ q.version = p.version
  BY <1>0 DEF PageType, SamePerson, SameEvents
<1>. QED
  BY <1>1, <1>2, SameSound

LEMMA AnswerSet ==
  ASSUME NEW p, Sound(p), NEW a \in Answer, NEW q, q = [p EXCEPT !.consent = a]
  PROVE  /\ Sound(q) /\ SamePerson(p, q) /\ SameEvents(p, q)
         /\ q.lookup = p.lookup /\ q.status = p.status /\ q.consent = a
         /\ q.banner = p.banner /\ q.version = p.version
<1>0. p \in PageType
  BY DEF Sound
<1>1. q \in PageType
  BY <1>0 DEF PageType, Status
<1>2. /\ SamePerson(p, q) /\ SameEvents(p, q)
      /\ q.lookup = p.lookup /\ q.status = p.status /\ q.consent = a
         /\ q.banner = p.banner /\ q.version = p.version
  BY <1>0 DEF PageType, SamePerson, SameEvents
<1>. QED
  BY <1>1, <1>2, SameSound

LEMMA SameQuiet ==
  ASSUME NEW p, NEW q, SamePerson(p, q), SameEvents(p, q), Quiet(p)
  PROVE  Quiet(q)
  BY DEF SamePerson, SameEvents, Quiet

(* A status or an answer is published. *)
LEMMA SignalEffect ==
  ASSUME SetupType, NEW p, Sound(p), NEW st \in Status, NEW q, q = signalConsentReady(p, st)
  PROVE  /\ Sound(q) /\ q.status = st /\ q.consent = p.consent
         /\ q.lookup = p.lookup /\ q.banner = p.banner /\ q.version = p.version
         /\ st = "configured" /\ p.consent = "denied" /\ Quiet(p) => Quiet(q)
<1>. DEFINE s == [p EXCEPT !.status = st]
<1>1. /\ Sound(s) /\ SamePerson(p, s) /\ SameEvents(p, s)
      /\ s.lookup = p.lookup /\ s.status = st /\ s.consent = p.consent
      /\ s.banner = p.banner /\ s.version = p.version
  BY StatusSet
<1>2. q = Announce(s)
  BY DEF signalConsentReady
<1>. HIDE DEF s
<1>3. Keeps(s, q)
  BY <1>1, <1>2, AnnounceKeeps
<1>4. st = "configured" /\ p.consent = "denied" => ~Allowed(s)
  BY <1>1 DEF Allowed, analyticsConsentAllowsTracking
<1>. QED
  BY <1>1, <1>3, <1>4, SameQuiet DEF Keeps, SameConsent

LEMMA StateEffect ==
  ASSUME SetupType, NEW p, Sound(p), NEW a \in Answer, p.status = "configured",
         NEW q, q = setConsentState(p, a)
  PROVE  /\ Sound(q) /\ q.status = p.status /\ q.consent = a
         /\ q.lookup = p.lookup /\ q.banner = p.banner /\ q.version = p.version
         /\ a = "denied" /\ Quiet(p) => Quiet(q)
<1>. DEFINE s == [p EXCEPT !.consent = a]
<1>1. /\ Sound(s) /\ SamePerson(p, s) /\ SameEvents(p, s)
      /\ s.lookup = p.lookup /\ s.status = p.status /\ s.consent = a
      /\ s.banner = p.banner /\ s.version = p.version
  BY AnswerSet
<1>2. q = Announce(s)
  BY DEF setConsentState
<1>. HIDE DEF s
<1>3. Keeps(s, q)
  BY <1>1, <1>2, AnnounceKeeps
<1>4. a = "denied" => ~Allowed(s)
  BY <1>1 DEF Allowed, analyticsConsentAllowsTracking
<1>. QED
  BY <1>1, <1>3, <1>4, SameQuiet DEF Keeps, SameConsent

(* The configuration arrives: the stored or the default answer is published. *)
LEMMA ConfigEffect ==
  ASSUME PageInv, NEW p, Sound(p), Quiet(p), p.lookup = "settled", site.on,
         NEW r, r = ConfigArrived(p)
  PROVE  /\ Sound(r) /\ r.lookup = "settled" /\ r.status = "configured"
         /\ r.consent \in Answer
         /\ r.consent = "denied" => Quiet(r)
         /\ r.banner => r.consent = defaultConsent
         /\ r.version \in 0..MaxVersion
<1>. DEFINE current == choice.version = site.version
            answer == IF current THEN choice.answer ELSE defaultConsent
            s == [p EXCEPT !.status = "configured"]
            told == setConsentState(s, answer)
            u == signalConsentReady(told, "configured")
            b == ~current
            v == IF current THEN 0 ELSE site.version
            q == [u EXCEPT !.banner = b, !.version = v]
<1>0. r = q
  BY DEF ConfigArrived
<1>1. /\ answer \in Answer /\ v \in 0..MaxVersion /\ v \in Nat /\ b \in BOOLEAN
      /\ b => answer = defaultConsent
      /\ SetupType
  BY AnswerType, PageAssumption DEF PageInv, TypeOK, SetupType
<1>. HIDE DEF answer, v, b
<1>2. Sound(s) /\ s.status = "configured" /\ SamePerson(p, s) /\ SameEvents(p, s)
      /\ s.lookup = p.lookup
  BY StatusSet DEF Status
<1>3. Quiet(s)
  BY <1>2, SameQuiet
<1>. HIDE DEF s
<1>4. /\ Sound(told) /\ told.status = "configured" /\ told.consent = answer
      /\ told.lookup = "settled"
      /\ answer = "denied" => Quiet(told)
  BY <1>1, <1>2, <1>3, StateEffect
<1>. HIDE DEF told
<1>5. /\ Sound(u) /\ u.status = "configured" /\ u.consent = answer
      /\ u.lookup = "settled"
      /\ answer = "denied" => Quiet(u)
  BY <1>1, <1>4, SignalEffect DEF Status
<1>. HIDE DEF u
<1>8. q = ShowBanner(u, b, v)
  BY DEF ShowBanner
<1>. HIDE DEF q
<1>6. /\ Sound(q) /\ SamePerson(u, q) /\ SameEvents(u, q)
      /\ q.lookup = u.lookup /\ q.status = u.status /\ q.consent = u.consent
      /\ q.banner = b /\ q.version = v
  BY <1>1, <1>5, <1>8, BannerSet
<1>7. answer = "denied" => Quiet(q)
  BY <1>5, <1>6, SameQuiet
<1>. QED
  BY <1>0, <1>1, <1>5, <1>6, <1>7

(* The consent manager's own steps. *)
LEMMA ConsentSteps ==
  ASSUME PageInv, ConsentScriptLoads \/ ConsentScriptFails \/ fetchConfig \/ saveAndClose
  PROVE  Sound(page)' /\ Denial'
<1>0. Sound(page) /\ SetupType /\ MaxVersion \in Nat /\ site' = site
  BY PageAssumption DEF PageInv, TypeOK, SetupType, ConsentScriptLoads, ConsentScriptFails,
     fetchConfig, saveAndClose, Step
<1>1. CASE ConsentScriptLoads
  <2>. DEFINE q == [page EXCEPT !.lookup = "config", !.tm = "loading"]
  <2>1. page' = q /\ page.lookup = "script"
    BY <1>1 DEF ConsentScriptLoads, Step
  <2>3. q = ScriptLoad(page, "config")
    BY DEF ScriptLoad
  <2>. HIDE DEF q
  <2>2. /\ Sound(q) /\ SamePerson(page, q) /\ SameEvents(page, q)
        /\ q.lookup = "config" /\ q.status = page.status /\ q.consent = page.consent
        /\ q.banner = page.banner /\ q.version = page.version
    BY <1>0, <2>3, ScriptLoaded
  <2>. QED
    BY <2>1, <2>2, SameQuiet DEF PageInv, Denial
<1>2. CASE ConsentScriptFails
  <2>. DEFINE u == signalConsentReady(page, "unavailable")
               q == [u EXCEPT !.lookup = "settled", !.tm = "loading"]
  <2>1. page' = q /\ page.lookup = "script"
    BY <1>2 DEF ConsentScriptFails, Step
  <2>2. /\ Sound(u) /\ u.status = "unavailable" /\ u.consent = page.consent
        /\ u.banner = page.banner /\ u.version = page.version
    BY <1>0, SignalEffect DEF Status
  <2>. HIDE DEF u
  <2>4. q = ScriptLoad(u, "settled")
    BY DEF ScriptLoad
  <2>. HIDE DEF q
  <2>3. /\ Sound(q) /\ q.lookup = "settled" /\ q.status = u.status /\ q.consent = u.consent
        /\ q.banner = u.banner /\ q.version = u.version
    BY <2>2, <2>4, ScriptLoaded
  <2>. QED
    BY <2>1, <2>2, <2>3 DEF PageInv, Denial
<1>3. CASE fetchConfig
  <2>. DEFINE p == [page EXCEPT !.lookup = "settled"]
  <2>1. /\ page.lookup = "config"
        /\ \/ site.on /\ page' = ConfigArrived(p)
           \/ page' = signalConsentReady(p, "unconfigured")
           \/ page' = signalConsentReady(p, "error")
    BY <1>3 DEF fetchConfig, Step
  <2>2. /\ Sound(p) /\ p.lookup = "settled" /\ SamePerson(page, p) /\ SameEvents(page, p)
        /\ p.consent = page.consent /\ p.banner = page.banner /\ p.version = page.version
    BY <1>0, LookupSet
  <2>. HIDE DEF p
  <2>3. page.status = "loading" /\ page.consent = "none" /\ ~page.banner
    BY <2>1 DEF PageInv, Denial
  <2>4. Quiet(p)
    BY <2>2, <2>3, SameQuiet DEF PageInv, Denial
  <2>5. CASE site.on /\ page' = ConfigArrived(p)
    <3>1. /\ Sound(page') /\ page'.lookup = "settled" /\ page'.status = "configured"
          /\ page'.consent \in Answer
          /\ page'.consent = "denied" => Quiet(page')
          /\ page'.banner => page'.consent = defaultConsent
          /\ page'.version \in 0..MaxVersion
      BY <2>2, <2>4, <2>5, ConfigEffect
    <3>. QED
      BY <1>0, <3>1 DEF Denial, defaultConsent
  <2>6. ASSUME NEW st \in {"unconfigured", "error"}, page' = signalConsentReady(p, st)
        PROVE  Sound(page)' /\ Denial'
    <3>1. /\ Sound(page') /\ page'.status = st /\ page'.consent = p.consent
          /\ page'.lookup = p.lookup /\ page'.banner = p.banner /\ page'.version = p.version
      BY <1>0, <2>2, <2>6, SignalEffect DEF Status
    <3>. QED
      BY <2>2, <2>3, <3>1 DEF PageInv, Denial
  <2>. QED
    BY <2>1, <2>5, <2>6
<1>4. CASE saveAndClose
  <2>1. PICK answer \in Answers :
           page.banner
           /\ page' = [setConsentState(page, answer) EXCEPT !.banner = FALSE, !.version = 0]
    BY <1>4 DEF saveAndClose
  <2>. DEFINE u == setConsentState(page, answer)
               q == [u EXCEPT !.banner = FALSE, !.version = 0]
  <2>2. page' = q /\ answer \in Answer
    BY <2>1, AnswerType
  <2>3. page.status = "configured" /\ page.consent = defaultConsent /\ page.lookup = "settled"
    BY <2>1 DEF PageInv, Denial
  <2>4. answer = "denied" => Quiet(page)
    BY <2>3 DEF Answers, defaultConsent, PageInv, Denial
  <2>5. /\ Sound(u) /\ u.status = "configured" /\ u.consent = answer /\ u.lookup = "settled"
        /\ answer = "denied" => Quiet(u)
    BY <1>0, <2>2, <2>3, <2>4, StateEffect
  <2>. HIDE DEF u
  <2>. DEFINE shut == FALSE
  <2>9. q = ShowBanner(u, shut, 0) /\ shut \in BOOLEAN
    BY DEF ShowBanner
  <2>. HIDE DEF q, shut
  <2>6. /\ Sound(q) /\ SamePerson(u, q) /\ SameEvents(u, q)
        /\ q.lookup = u.lookup /\ q.status = u.status /\ q.consent = u.consent
        /\ q.banner = shut /\ q.version = 0
    BY <2>5, <2>9, BannerSet
  <2>10. ~q.banner
    BY <2>6 DEF shut
  <2>7. answer = "denied" => Quiet(q)
    BY <2>5, <2>6, SameQuiet
  <2>8. answer # "none"
    BY <2>2 DEF Answer
  <2>. QED
    BY <1>0, <2>2, <2>5, <2>6, <2>7, <2>8, <2>10 DEF Denial
<1>. QED
  BY <1>1, <1>2, <1>3, <1>4

-------------------------------------------------------------------------------
LEMMA PageInit == Init => PageInv
<1>. SUFFICES ASSUME Init PROVE PageInv
  OBVIOUS
<1>0. MaxVersion \in Nat \ {0} /\ Budget \in Nat /\ <<>> \in Seq(Events)
  BY PageAssumption
<1>1. Blank \in PageType
  BY <1>0 DEF Blank, PageType, Life, Status, Recorder
<1>2. TypeOK
  BY <1>0, <1>1 DEF Init, TypeOK, Answer
<1>3. /\ page.queue = <<>> /\ page.made = 0 /\ page.coding = {} /\ page.sent = {}
      /\ page.dropped = {} /\ page.identity = "none" /\ page.rec = "absent"
      /\ page.status = "loading" /\ page.consent = "none" /\ page.banner = FALSE
      /\ page.version = 0
  BY DEF Init, Blank
<1>4. InQueue(page) = {} /\ Compressing(page) = {} /\ 1..0 = {} /\ Len(page.queue) = 0
  BY <1>3, NothingQueued DEF Compressing
<1>5. Sound(page)
  BY <1>2, <1>3, <1>4 DEF Sound, TypeOK, Parts, Scheduled
<1>6. Denial
  BY <1>0, <1>3 DEF Denial, Quiet
<1>. QED
  BY <1>2, <1>5, <1>6 DEF PageInv

LEMMA PageInductive == PageInv /\ [Next]_vars => PageInv'
<1>. SUFFICES ASSUME PageInv, [Next]_vars PROVE PageInv'
  OBVIOUS
<1>0. /\ Sound(page) /\ page \in PageType /\ page.todo \in Nat /\ page.life \in Life
      /\ choice \in [version: 0..MaxVersion, answer: Answer]
      /\ site \in [on: BOOLEAN, asks: BOOLEAN, version: 1..MaxVersion]
      /\ MaxVersion \in Nat \ {0}
  BY PageAssumption DEF PageInv, TypeOK, PageType
<1>. DEFINE Others == /\ choice' \in [version: 0..MaxVersion, answer: Answer]
                      /\ site' \in [on: BOOLEAN, asks: BOOLEAN, version: 1..MaxVersion]
                      /\ site'.asks = site.asks /\ setup' = setup
<1>1. ASSUME Others, Sound(page)', Denial' PROVE PageInv'
  BY <1>1 DEF PageInv, TypeOK, Sound
<1>2. CASE \/ Open \/ Activate \/ loadTagManager \/ track \/ onNav \/ NavTimer
           \/ FlushTimer \/ Compressed \/ RateWindow
  <2>1. Keeps(page, page')
    BY <1>2, TrackerSteps
  <2>2. UNCHANGED <<choice, site, setup>>
    BY <1>2 DEF Open, Activate, loadTagManager, track, onNav, NavTimer, FlushTimer,
       Compressed, RateWindow, Step
  <2>. QED
    BY <1>0, <1>1, <2>1, <2>2, KeepsDenial
<1>3. CASE RecorderLoads \/ RecorderGoesOn \/ Emit \/ RecorderTimer
  <2>1. Keeps(page, page')
    BY <1>3, RecorderSteps
  <2>2. UNCHANGED <<choice, site, setup>>
    BY <1>3 DEF RecorderLoads, RecorderGoesOn, Emit, RecorderTimer, Step
  <2>. QED
    BY <1>0, <1>1, <2>1, <2>2, KeepsDenial
<1>4. CASE Hide \/ Show \/ BeforeUnload \/ Stay \/ PageHide \/ PageShow \/ Discard
  <2>1. UNCHANGED <<choice, site, setup>>
    BY <1>4 DEF Hide, Show, BeforeUnload, Stay, PageHide, PageShow, Discard, Step
  <2>2. Keeps(page, page') \/ \E p \in PageType : page' = Gone(p)
    BY <1>0, <1>4, LifeSteps DEF Discard, Step
  <2>. QED
    BY <1>0, <1>1, <2>1, <2>2, KeepsDenial, GoneInv
<1>5. CASE ConsentScriptLoads \/ ConsentScriptFails \/ fetchConfig \/ saveAndClose
  <2>1. Sound(page)' /\ Denial'
    BY <1>5, ConsentSteps
  <2>2. UNCHANGED <<site, setup>>
    BY <1>5 DEF ConsentScriptLoads, ConsentScriptFails, fetchConfig, saveAndClose, Step
  <2>3. \/ UNCHANGED choice
        \/ \E a \in Answers : choice' = [version |-> page.version, answer |-> a]
    BY <1>5 DEF ConsentScriptLoads, ConsentScriptFails, fetchConfig, saveAndClose, Step
  <2>4. choice' \in [version: 0..MaxVersion, answer: Answer]
    BY <1>0, <2>3, AnswerType DEF PageInv, Denial
  <2>. QED
    BY <1>0, <1>1, <2>1, <2>2, <2>4
<1>6. CASE Elsewhere
  <2>. DEFINE t == page.todo - 1
  <2>1. PICK version \in 1..site.version, answer \in Answers :
           /\ choice' = [version |-> version, answer |-> answer]
           /\ page' = [page EXCEPT !.todo = t,
                          !.vid = answer # "denied" /\ setup.persistent /\ ~setup.dnt]
    BY <1>6 DEF Elsewhere
  <2>. DEFINE v == answer # "denied" /\ setup.persistent /\ ~setup.dnt
  <2>2. v \in BOOLEAN /\ page' = [page EXCEPT !.todo = t, !.vid = v]
    BY <2>1
  <2>3. t \in Nat /\ UNCHANGED <<site, setup>>
    BY <1>0, <1>6 DEF Elsewhere
  <2>. HIDE DEF t, v
  <2>4. Keeps(page, page')
    BY ZenonT(30), <1>0, <2>2, <2>3, TurnKeeps
  <2>5. version \in 0..MaxVersion
    BY <1>0
  <2>6. choice' \in [version: 0..MaxVersion, answer: Answer]
    BY <2>1, <2>5, AnswerType
  <2>. QED
    BY <1>0, <1>1, <2>3, <2>4, <2>6, KeepsDenial
<1>7. CASE PublishConsent
  <2>. DEFINE t == page.todo - 1
  <2>1. t \in Nat /\ UNCHANGED <<choice, setup>> /\ page' = [page EXCEPT !.todo = t]
    BY <1>0, <1>7 DEF PublishConsent
  <2>. HIDE DEF t
  <2>2. Keeps(page, page')
    BY ZenonT(30), <1>0, <2>1, TurnKeeps
  <2>3. /\ site' \in [on: BOOLEAN, asks: BOOLEAN, version: 1..MaxVersion]
        /\ site'.asks = site.asks
    BY <1>0, <1>7 DEF PublishConsent
  <2>. QED
    BY <1>0, <1>1, <2>1, <2>2, <2>3, KeepsDenial
<1>8. CASE UNCHANGED vars
  <2>1. page' = page
    BY <1>8 DEF vars
  <2>2. Keeps(page, page')
    BY <1>0, <2>1, KeepsSame
  <2>. QED
    BY <1>0, <1>1, <1>8, <2>2, KeepsDenial DEF vars
<1>. QED
  BY <1>2, <1>3, <1>4, <1>5, <1>6, <1>7, <1>8 DEF Next, Scripts

-------------------------------------------------------------------------------
(* The places of the events, counted. *)
LEMMA QueueSize ==
  ASSUME NEW p \in PageType, Parts(p)
  PROVE  IsFiniteSet(InQueue(p)) /\ Cardinality(InQueue(p)) = Len(p.queue)
<1>. DEFINE n == Len(p.queue)
            f == [i \in 1..n |-> p.queue[i]]
<1>1. n \in Nat
  BY DEF PageType
<1>2. f \in Bijection(1..n, InQueue(p))
  <2>1. f \in [1..n -> InQueue(p)]
    BY DEF InQueue
  <2>2. \A i, k \in 1..n : f[i] = f[k] => i = k
    BY DEF Parts
  <2>3. \A e \in InQueue(p) : \E i \in 1..n : f[i] = e
    BY DEF InQueue
  <2>. HIDE DEF n, f
  <2>. QED
    BY <2>1, <2>2, <2>3, Fun_IsBij
<1>3. ExistsBijection(1..n, InQueue(p))
  BY <1>2 DEF ExistsBijection
<1>4. IsFiniteSet(1..n) /\ Cardinality(1..n) = n
  BY SMTT(30), <1>1, FS_Interval
<1>. QED
  BY <1>3, <1>4, FS_Bijection

LEMMA DisjointSize ==
  ASSUME NEW S, IsFiniteSet(S), NEW T, IsFiniteSet(T), S \cap T = {}
  PROVE  /\ IsFiniteSet(S \cup T) /\ Cardinality(S \cup T) \in Nat
         /\ Cardinality(S \cup T) = Cardinality(S) + Cardinality(T)
<1>1. Cardinality(S \cap T) = 0
  BY FS_EmptySet
<1>2. Cardinality(S) \in Nat /\ Cardinality(T) \in Nat
  BY FS_CardinalityType
<1>. QED
  <2>1. IsFiniteSet(S \cup T)
    BY FS_Union
  <2>2. Cardinality(S \cup T) = Cardinality(S) + Cardinality(T) - Cardinality(S \cap T)
    BY FS_Union
  <2>3. Cardinality(S) + Cardinality(T) - 0 = Cardinality(S) + Cardinality(T)
    BY <1>2
  <2>4. Cardinality(S) + Cardinality(T) \in Nat
    BY <1>2
  <2>. QED
    BY <1>1, <2>1, <2>2, <2>3, <2>4

LEMMA PartsCounted ==
  ASSUME NEW p \in PageType, Parts(p)
  PROVE  Len(p.queue) + Cardinality(p.sent) + Cardinality(p.dropped)
            + Cardinality(UNION p.coding) = p.made
<1>. DEFINE q == InQueue(p)
            s == p.sent
            d == p.dropped
            u == UNION p.coding
            m == p.made
<1>1. /\ q \cup s \cup d \cup u = 1..m
      /\ q \cap (s \cup d \cup u) = {} /\ s \cap (d \cup u) = {} /\ d \cap u = {}
      /\ m \in Nat
  BY DEF Parts, Compressing, PageType
<1>2. IsFiniteSet(q) /\ Cardinality(q) = Len(p.queue)
  BY QueueSize
<1>. HIDE DEF q, s, d, u, m
<1>3. IsFiniteSet(1..m) /\ Cardinality(1..m) = m
  BY <1>1, FS_Interval
<1>4. s \subseteq 1..m /\ d \subseteq 1..m /\ u \subseteq 1..m /\ d \cup u \subseteq 1..m
      /\ s \cup (d \cup u) \subseteq 1..m
  BY <1>1
<1>5. /\ IsFiniteSet(s) /\ IsFiniteSet(d) /\ IsFiniteSet(u)
      /\ IsFiniteSet(d \cup u) /\ IsFiniteSet(s \cup (d \cup u))
  BY <1>3, <1>4, FS_Subset
<1>6. Cardinality(d \cup u) = Cardinality(d) + Cardinality(u)
  BY <1>1, <1>5, DisjointSize
<1>7. Cardinality(s \cup (d \cup u)) = Cardinality(s) + Cardinality(d \cup u)
  BY <1>1, <1>5, DisjointSize
<1>8. Cardinality(q \cup (s \cup (d \cup u))) = Cardinality(q) + Cardinality(s \cup (d \cup u))
  <2>1. q \cap (s \cup (d \cup u)) = {}
    BY <1>1
  <2>. QED
    BY <1>2, <1>5, <2>1, DisjointSize
<1>9. q \cup (s \cup (d \cup u)) = 1..m
  BY <1>1
<1>10. /\ Cardinality(q) \in Nat /\ Cardinality(s) \in Nat /\ Cardinality(d) \in Nat
       /\ Cardinality(u) \in Nat
  BY <1>2, <1>5, FS_CardinalityType
<1>11. Cardinality(q) + (Cardinality(s) + (Cardinality(d) + Cardinality(u))) = m
  BY <1>3, <1>6, <1>7, <1>8, <1>9
<1>12. Cardinality(q) + Cardinality(s) + Cardinality(d) + Cardinality(u) = m
  BY <1>10, <1>11
<1>. QED
  BY <1>2, <1>12 DEF q, s, d, u, m

(* Every variable keeps to its type. *)
THEOREM PageTypes == Spec => []TypeOK
<1>1. PageInv => TypeOK
  BY DEF PageInv
<1>. QED
  BY PageInit, PageInductive, <1>1, PTL DEF Spec

(* Whatever the timer, a full queue, a promise and the unload events take  *)
(* away one after another, every event made is in one place and none in    *)
(* two (flush, sendBlob, clearQueuedEvents, queueEvent).                   *)
THEOREM EventsOnce == Spec => []EachEventOnce
<1>1. PageInv => EachEventOnce
  BY PartsCounted DEF PageInv, Sound, EachEventOnce, Parts, Compressing
<1>. QED
  BY PageInit, PageInductive, <1>1, PTL DEF Spec

(* A waiting event always has a timer, and one flush takes them all        *)
(* (queueEvent, flush).                                                    *)
THEOREM QueueScheduled == Spec => []QueueIsScheduled
<1>1. PageInv => QueueIsScheduled
  BY DEF PageInv, Sound, QueueIsScheduled, Scheduled
<1>. QED
  BY PageInit, PageInductive, <1>1, PTL DEF Spec

(* While the page's published answer is a denial, nothing of the visitor   *)
(* is kept (handleConsentChange, consent.js, recorder.js).  It says nothing *)
(* of the time before an answer is published.                              *)
THEOREM DenialHolds == Spec => []NothingAfterDenial
<1>1. PageInv => NothingAfterDenial
  BY DEF PageInv, Denial, Quiet, NothingAfterDenial
<1>. QED
  BY PageInit, PageInductive, <1>1, PTL DEF Spec

(***************************************************************************)
(* The run that explores the page and the client of the site's server.     *)
(***************************************************************************)

LEMMA BothSides == [PageSteps \/ ServerSteps]_<<side, vars, nodeVars>>
                      => [Next]_vars /\ [NodeNext]_nodeVars
  BY DEF PageSteps, ServerSteps

(* No message, timer or answer leaves a value outside its type, in the     *)
(* page's scripts and in the node client (tracker.js, consent.js,          *)
(* recorder.js, packages/node).                                            *)
THEOREM RunTypes == MCSpec => []TypesOK
<1>1. MCInit => PageInv /\ NodeTypeOK
  BY PageInit, NodeTypeInit DEF MCInit
<1>2. PageInv /\ [PageSteps \/ ServerSteps]_<<side, vars, nodeVars>> => PageInv'
  BY BothSides, PageInductive
<1>3. NodeTypeOK /\ [PageSteps \/ ServerSteps]_<<side, vars, nodeVars>> => NodeTypeOK'
  BY BothSides, TypeStep
<1>4. PageInv /\ NodeTypeOK => TypesOK
  BY DEF PageInv, TypesOK
<1>. QED
  BY <1>1, <1>2, <1>3, <1>4, PTL DEF MCSpec
=============================================================================
