----------------------------- MODULE NodeClient -----------------------------
(***************************************************************************)
(* The server side of a site that reports its own events: the client of   *)
(* sdks/node (class Etiquetta), which batches events and retries, the      *)
(* module-level clients of sdks/node and sdks/next that wrap one instance  *)
(* of it, and the middleware of sdks/next, which sends each pageview with  *)
(* a request of its own.                                                   *)
(*                                                                         *)
(* A request may fail before or after the server has stored its events;    *)
(* the client cannot tell which.                                           *)
(***************************************************************************)
EXTENDS Naturals, Sequences, FiniteSets

CONSTANTS
    Event,          \* how many events the site tracks through the client
    Visit,          \* requests the middleware sees
    BatchSize,      \* options.batchSize, a number from 1
    MaxQueueSize    \* options.maxQueueSize, a number from 1

ASSUME NodeAssumption ==
    /\ Event \in Nat
    /\ BatchSize \in Nat \ {0}
    /\ MaxQueueSize \in Nat \ {0}

VARIABLES
    process,    \* the site's process: it has no client yet, runs, closes, or has ended
    made,       \* events tracked so far
    queue, timer, closed,
    flights,    \* the batches being posted, in the order they were
    received,   \* those of them the server has stored
    stored,     \* the events the server has taken charge of
    dropped,    \* the events the client has given up
    visit       \* the middleware's requests

clientVars == <<queue, timer, closed, flights>>
nodeVars == <<process, made, queue, timer, closed, flights, received, stored, dropped, visit>>

EventNumber == Nat \ {0}

Rng(s) == {s[i] : i \in 1..Len(s)}

NodeTypeOK ==
    /\ process \in {"bare", "running", "ended"}
    /\ made \in 0..Event
    /\ queue \in Seq(EventNumber) /\ timer \in BOOLEAN /\ closed \in BOOLEAN
    /\ flights \in SUBSET Seq(EventNumber) /\ received \subseteq flights
    /\ stored \subseteq EventNumber /\ dropped \subseteq EventNumber
    /\ visit \in [Visit -> {"none", "posted", "stored", "settled"}]

NodeInit ==
    /\ process = "bare" /\ made = 0
    /\ queue = <<>> /\ timer = FALSE /\ closed = FALSE
    /\ flights = {} /\ received = {} /\ stored = {} /\ dropped = {}
    /\ visit = [v \in Visit |-> "none"]

-----------------------------------------------------------------------------
(* The client.                                                             *)

\* configure, or init: until then trackServer and the middleware do nothing and
\* track throws.
configure ==
    /\ process = "bare" /\ process' = "running"
    /\ UNCHANGED <<made, clientVars, received, stored, dropped, visit>>

\* The queue without its oldest events beyond MaxQueueSize.
Fitted(q) == IF Len(q) > MaxQueueSize THEN SubSeq(q, Len(q) - MaxQueueSize + 1, Len(q)) ELSE q

\* The whole queue goes into one request; none is posted for an empty queue.
flushQueue(q) ==
    /\ timer' = FALSE /\ queue' = <<>>
    /\ flights' = IF q = <<>> THEN flights ELSE flights \cup {q}

scheduleFlush(q) == timer' = TRUE /\ queue' = q /\ UNCHANGED flights

trackEvent ==
    /\ process = "running" /\ made < Event /\ ~closed
    /\ made' = made + 1
    /\ LET pushed == Append(queue, made + 1)
           kept   == Fitted(pushed)
       IN  /\ dropped' = dropped \cup (Rng(pushed) \ Rng(kept))
           /\ IF Len(kept) >= BatchSize THEN flushQueue(kept) ELSE scheduleFlush(kept)
    /\ UNCHANGED <<process, closed, received, stored, visit>>

Timer ==
    /\ process = "running" /\ timer /\ flushQueue(queue)
    /\ UNCHANGED <<process, made, closed, received, stored, dropped, visit>>

\* flush(), flushServer(): the caller does not wait for the timer.
Flush ==
    /\ process = "running" /\ queue # <<>> /\ flushQueue(queue)
    /\ UNCHANGED <<process, made, closed, received, stored, dropped, visit>>

close ==
    /\ process = "running" /\ ~closed
    /\ closed' = TRUE /\ flushQueue(queue)
    /\ UNCHANGED <<process, made, received, stored, dropped, visit>>

-----------------------------------------------------------------------------
(* A request, and its answer.                                              *)

\* Ingest takes a request's lines one after another into its buffers, and answers
\* for all of them: the batch is received as a whole.  A line it passes over (of a
\* site it does not serve, say) is answered for like the others, so that to the
\* client it is taken care of; what becomes of the rows is BufferPipeline's.
Receive(f) ==
    /\ f \in flights \ received
    /\ received' = received \cup {f} /\ stored' = stored \cup Rng(f)
    /\ UNCHANGED <<process, made, clientVars, dropped, visit>>

Accepted(f) ==
    /\ f \in received
    /\ flights' = flights \ {f} /\ received' = received \ {f}
    /\ UNCHANGED <<process, made, queue, timer, closed, stored, dropped, visit>>

\* Variant: requeue puts the batch in the place of what has been tracked since.
Failed_Overwrites(f) ==
    /\ f \in flights
    /\ flights' = flights \ {f} /\ received' = received \ {f}
    /\ IF closed THEN dropped' = dropped \cup Rng(f) /\ UNCHANGED <<queue, timer>>
                 ELSE queue' = f /\ timer' = TRUE /\ UNCHANGED dropped
    /\ UNCHANGED <<process, made, closed, stored, visit>>

\* Variant: requeue leaves the timer to the next event.
Failed_NoTimer(f) ==
    /\ f \in flights
    /\ flights' = flights \ {f} /\ received' = received \ {f}
    /\ IF closed THEN dropped' = dropped \cup Rng(f) /\ UNCHANGED queue
       ELSE /\ queue' = Fitted(f \o queue)
            /\ dropped' = dropped \cup (Rng(f \o queue) \ Rng(Fitted(f \o queue)))
    /\ UNCHANGED <<process, made, timer, closed, stored, visit>>

\* Variant: a failure is reported and the batch forgotten.
Failed_GivesUp(f) ==
    /\ f \in flights
    /\ flights' = flights \ {f} /\ received' = received \ {f}
    /\ UNCHANGED <<process, made, queue, timer, closed, stored, dropped, visit>>

\* requeue: in front of what has been tracked since, unless the client is closed.
Failed(f) ==
    /\ f \in flights
    /\ flights' = flights \ {f} /\ received' = received \ {f}
    /\ LET joined == f \o queue
           kept   == Fitted(joined)
       IN  IF closed
           THEN dropped' = dropped \cup Rng(f) /\ UNCHANGED <<queue, timer>>
           ELSE /\ dropped' = dropped \cup (Rng(joined) \ Rng(kept))
                /\ queue' = kept /\ timer' = TRUE
    /\ UNCHANGED <<process, made, closed, stored, visit>>

-----------------------------------------------------------------------------
(* The middleware: one request, whose failure is ignored.                  *)

etiquettaMiddleware(v) ==
    /\ process = "running" /\ visit[v] = "none"
    /\ visit' = [visit EXCEPT ![v] = "posted"]
    /\ UNCHANGED <<process, made, clientVars, received, stored, dropped>>

VisitSettles(v) ==
    /\ visit[v] = "posted"
    /\ \E end \in {"stored", "settled"}: visit' = [visit EXCEPT ![v] = end]
    /\ UNCHANGED <<process, made, clientVars, received, stored, dropped>>

\* process.exit, a crash or a function that is frozen: a timer keeps no process
\* alive, and what is in memory or not yet received is gone.
End ==
    /\ process = "running" /\ process' = "ended"
    /\ queue' = <<>> /\ timer' = FALSE /\ flights' = {} /\ received' = {}
    /\ UNCHANGED <<made, closed, stored, dropped, visit>>

\* The next process has a client and events of its own.
Restart ==
    /\ process = "ended" /\ process' = "bare"
    /\ made' = 0 /\ closed' = FALSE /\ stored' = {} /\ dropped' = {}
    /\ visit' = [v \in Visit |-> "none"]
    /\ UNCHANGED <<queue, timer, flights, received>>

NodeNext ==
    \/ configure \/ trackEvent \/ Timer \/ Flush \/ close \/ End \/ Restart
    \/ \E f \in flights: Receive(f) \/ Accepted(f) \/ Failed(f)
    \/ \E v \in Visit: etiquettaMiddleware(v) \/ VisitSettles(v)

NodeSpec == NodeInit /\ [][NodeNext]_nodeVars

Receives(e) == \E f \in flights: e \in Rng(f) /\ Receive(f)
Replies(e)  == \E f \in flights: e \in Rng(f) /\ (Accepted(f) \/ Failed(f))

\* Node runs the timers; a server that is reached again and again by an event's
\* batch stores it some time, and every request ends in an answer or an error.
NodeFairness ==
    \A e \in 1..Event: SF_nodeVars(Receives(e)) /\ WF_nodeVars(Timer \/ Replies(e))

NodeLiveSpec == NodeSpec /\ NodeFairness

-----------------------------------------------------------------------------
\* The events that wait in the queue, or in a request.
Waiting == Rng(queue) \cup UNION {Rng(f): f \in flights}

\* No event is forgotten while the process lives: it waits in the queue, is in a
\* request, has been stored, or was dropped by the limit or by a closed client.
\* track, flush and requeue replace the whole queue at a time other requests
\* are under way; each must put back what the others took, and none may put the
\* same event into two batches, which would report it twice.
NothingForgotten ==
    process # "ended" =>
        /\ 1..made \subseteq stored \cup dropped \cup Waiting
        /\ \A f \in flights: Rng(f) \cap Rng(queue) = {}
        /\ \A f, g \in flights: f = g \/ Rng(f) \cap Rng(g) = {}

\* What waits in the queue has a timer, and a closed client holds nothing: every
\* flush clears the timer, and nothing but track or requeue sets it again.
NeverStranded == queue # <<>> => timer /\ ~closed

\* A batch that fails is tried again until it is stored, unless the client is
\* closed, the process ends or newer events push its events out.
EventDelivered(e) ==
    (e <= made) ~> (e \in stored \cup dropped \/ closed \/ process = "ended")

=============================================================================
