----------------------------- MODULE PageScripts -----------------------------
(***************************************************************************)
(* The three scripts a visited page runs: the tracker (tracker.js), the    *)
(* consent manager (consent.js) and the session recorder (recorder.js).    *)
(* One page of a visitor is modelled, which he may leave and load again,   *)
(* and of his other tabs on the site what they do to the cookies.          *)
(*                                                                         *)
(* The page is a record, and a script's function is an operator from the   *)
(* page to the page it leaves, so that a handler which calls three others  *)
(* is still one step, as it is in the single thread of a page.  Events are *)
(* the numbers 1, 2, ... of the load that made them.                       *)
(***************************************************************************)
EXTENDS Naturals, Sequences, FiniteSets

CONSTANTS
    MaxBatch,     \* MAX_BATCH of tracker.js
    MaxBuffer,    \* MAX_BUFFER of recorder.js
    MaxVersion,   \* bound: versions of the consent configuration
    Budget,       \* bound: what visitor and administrator do during one load
    Setups        \* browsers, tracker tags and replay settings considered

ASSUME PageAssumption ==
    /\ MaxBatch \in Nat \ {0}
    /\ MaxBuffer \in Nat \ {0}
    /\ MaxVersion \in Nat \ {0}
    /\ Budget \in Nat
    /\ Setups \subseteq [codec: BOOLEAN, dnt: BOOLEAN, persistent: BOOLEAN, replay: BOOLEAN]

VARIABLES
    page,      \* the scripts of the page, and whether a visitor id is stored
    choice,    \* the decision cookie: version and answer (version 0: none)
    site,      \* the site's consent configuration on the server
    setup      \* what does not change

vars == <<page, choice, site, setup>>

\* __ETIQUETTA_CONSENT__.analytics; "silent": the category is not configured.
Answer   == {"granted", "denied", "silent"}
Status   == {"loading", "configured", "unconfigured", "error", "unavailable"}
Life     == {"closed", "visible", "hidden", "leaving", "frozen"}
Recorder == {"absent", "script", "config", "library", "recording", "stopped", "off"}
Events   == Nat \ {0}

PageType ==
    [life: Life, prerender: BOOLEAN, deferred: BOOLEAN, todo: Nat,
     \* tracker.js
     status: Status, consent: Answer \cup {"none"}, waiting: BOOLEAN,
     started: BOOLEAN, identity: {"none", "stored", "derived"},
     queue: Seq(Events), timer: BOOLEAN, unloading: BOOLEAN, limited: BOOLEAN,
     perfSent: BOOLEAN, exitSent: BOOLEAN, moved: BOOLEAN, navTimer: BOOLEAN,
     \* where the events it made are
     made: Nat, coding: SUBSET SUBSET Events, sent: SUBSET Events,
     dropped: SUBSET Events,
     vid: BOOLEAN,     \* the persistent visitor id is stored
     \* consent.js, and the scripts the tracker loads
     lookup: {"script", "config", "settled"}, banner: BOOLEAN, version: Nat,
     tm: {"idle", "loading", "settled"}, recWaiting: BOOLEAN,
     \* recorder.js
     rec: Recorder, buffer: Nat, recTimer: BOOLEAN, recUnload: BOOLEAN,
     metaSent: BOOLEAN]

TypeOK ==
    /\ page \in PageType
    /\ choice \in [version: 0..MaxVersion, answer: Answer]
    /\ site \in [on: BOOLEAN, asks: BOOLEAN, version: 1..MaxVersion]
    /\ setup \in Setups

Blank ==
    [life |-> "closed", prerender |-> FALSE, deferred |-> FALSE, todo |-> Budget,
     status |-> "loading", consent |-> "none", waiting |-> FALSE,
     started |-> FALSE, identity |-> "none",
     queue |-> <<>>, timer |-> FALSE, unloading |-> FALSE, limited |-> FALSE,
     perfSent |-> FALSE, exitSent |-> FALSE, moved |-> FALSE, navTimer |-> FALSE,
     made |-> 0, coding |-> {}, sent |-> {}, dropped |-> {},
     vid |-> FALSE,
     lookup |-> "script", banner |-> FALSE, version |-> 0, tm |-> "idle", recWaiting |-> FALSE,
     rec |-> "absent", buffer |-> 0, recTimer |-> FALSE, recUnload |-> FALSE,
     metaSent |-> FALSE]

-----------------------------------------------------------------------------
(* tracker.js: the queue.                                                  *)

analyticsConsentAllowsTracking(p) ==
    CASE p.status = "configured"           -> p.consent \in {"granted", "silent"}
      [] p.status \in {"loading", "error"} -> FALSE
      [] OTHER                             -> p.consent # "denied"

Allowed(p) == analyticsConsentAllowsTracking(p)

InQueue(p) == {p.queue[i] : i \in 1..Len(p.queue)}

clearQueuedEvents(p) ==
    [p EXCEPT !.queue = <<>>, !.timer = FALSE, !.dropped = @ \cup InQueue(p)]

\* sendBlob asks for consent again: a batch may have been compressed meanwhile.
sendBlob(p, batch) ==
    IF Allowed(p) THEN [p EXCEPT !.sent = @ \cup batch]
                  ELSE [p EXCEPT !.dropped = @ \cup batch]

\* Variant: the batch is copied out of the queue and left there.
flush_Copies(p) ==
    LET batch == {p.queue[i] : i \in 1..Len(p.queue)}
        rest  == [p EXCEPT !.timer = FALSE]
    IN  IF ~Allowed(p) THEN clearQueuedEvents(p)
        ELSE IF p.queue = <<>> THEN rest
        ELSE IF setup.codec /\ ~p.unloading
             THEN [rest EXCEPT !.coding = @ \cup {batch}]
             ELSE sendBlob(rest, batch)

\* One batch, compressed by a promise unless the page is being unloaded.
flush(p) ==
    LET size  == IF Len(p.queue) < MaxBatch THEN Len(p.queue) ELSE MaxBatch
        batch == {p.queue[i] : i \in 1..size}
        rest  == [p EXCEPT !.timer = FALSE,
                           !.queue = SubSeq(@, size + 1, Len(@))]
    IN  IF ~Allowed(p) THEN clearQueuedEvents(p)
        ELSE IF p.queue = <<>> THEN rest
        ELSE IF setup.codec /\ ~p.unloading
             THEN [rest EXCEPT !.coding = @ \cup {batch}]
             ELSE sendBlob(rest, batch)

\* Variant: the queue is flushed only once it is longer than a batch.
queueEvent_Late(p) ==
    LET pushed == [p EXCEPT !.made = @ + 1, !.queue = Append(@, p.made + 1)]
    IN  IF ~Allowed(p) \/ p.limited THEN p
        ELSE IF Len(pushed.queue) > MaxBatch THEN flush(pushed)
        ELSE [pushed EXCEPT !.timer = TRUE]

\* Variant: only a full queue is ever flushed.
queueEvent_NoTimer(p) ==
    LET pushed == [p EXCEPT !.made = @ + 1, !.queue = Append(@, p.made + 1)]
    IN  IF ~Allowed(p) \/ p.limited THEN p
        ELSE IF Len(pushed.queue) >= MaxBatch THEN flush(pushed) ELSE pushed

queueEvent(p) ==
    LET pushed == [p EXCEPT !.made = @ + 1, !.queue = Append(@, p.made + 1)]
    IN  IF ~Allowed(p) \/ p.limited THEN p
        ELSE IF Len(pushed.queue) >= MaxBatch THEN flush(pushed)
        ELSE [pushed EXCEPT !.timer = TRUE]

-----------------------------------------------------------------------------
(* tracker.js: what it reports, and when it begins to.                     *)

trackPageview(p) == queueEvent([p EXCEPT !.moved = FALSE])

sendPerf(p) == IF p.perfSent THEN p
               ELSE flush(queueEvent([p EXCEPT !.perfSent = TRUE]))

sendExit(p) == IF p.exitSent THEN p
               ELSE flush(queueEvent([p EXCEPT !.exitSent = TRUE]))

\* The listeners startTracking adds itself come after those of its setups.
Unloading(p) == flush([p EXCEPT !.unloading = TRUE])

\* Cookieless sites remove what an earlier mode stored.
getOrCreateVisitorId(p) ==
    [p EXCEPT !.identity = IF setup.persistent THEN "stored" ELSE "derived",
              !.vid = setup.persistent]

clearVisitorIdentity(p) == [p EXCEPT !.identity = "none", !.vid = FALSE]

startTracking(p) ==
    IF p.started \/ ~Allowed(p) THEN p
    ELSE trackPageview(getOrCreateVisitorId([p EXCEPT !.started = TRUE]))

init(p) ==
    IF setup.dnt THEN p
    ELSE IF ~Allowed(p) THEN [p EXCEPT !.waiting = TRUE]
    ELSE IF p.prerender THEN [p EXCEPT !.deferred = TRUE]
    ELSE startTracking(p)

handleConsentChange(p) ==
    IF ~p.waiting THEN p
    ELSE IF Allowed(p)
         THEN init(IF p.started /\ p.identity = "none" THEN getOrCreateVisitorId(p) ELSE p)
    ELSE IF p.consent = "denied" THEN clearVisitorIdentity(clearQueuedEvents(p))
    ELSE clearQueuedEvents(p)

loadRecorder(p) ==
    IF p.rec # "absent" \/ ~Allowed(p) THEN p ELSE [p EXCEPT !.rec = "script"]

\* tryLoad, the listener loadRecorderWhenAllowed leaves behind.
tryLoad(p) ==
    IF p.recWaiting /\ Allowed(p) THEN loadRecorder([p EXCEPT !.recWaiting = FALSE]) ELSE p

\* Variant: a refusal leaves no listener behind.
loadRecorderWhenAllowed_Once(p) == loadRecorder(p)

loadRecorderWhenAllowed(p) ==
    IF Allowed(p) THEN loadRecorder(p) ELSE [p EXCEPT !.recWaiting = TRUE]

\* An etiquetta:consent or etiquetta:consent-ready event, to every listener.
Announce(p) == tryLoad(handleConsentChange(p))

-----------------------------------------------------------------------------
(* consent.js.                                                             *)

setConsentState(p, answer) == Announce([p EXCEPT !.consent = answer])

signalConsentReady(p, status) == Announce([p EXCEPT !.status = status])

\* Required categories only: the analytics category is not one of them.
defaultConsent == IF site.asks THEN "denied" ELSE "silent"

\* What the banner's buttons and switches can answer.
Answers == IF site.asks THEN {"granted", "denied"} ELSE {"silent"}

\* The decision cookie counts only for the version it was given for.
ConfigArrived(p) ==
    LET current == choice.version = site.version
        answer  == IF current THEN choice.answer ELSE defaultConsent
        told    == setConsentState([p EXCEPT !.status = "configured"], answer)
    IN  [signalConsentReady(told, "configured") EXCEPT
            !.banner = ~current, !.version = IF current THEN 0 ELSE site.version]

-----------------------------------------------------------------------------
(* recorder.js.                                                            *)

recFlush(p) ==
    IF p.buffer = 0 THEN [p EXCEPT !.recTimer = FALSE]
    ELSE [p EXCEPT !.recTimer = FALSE, !.buffer = 0, !.metaSent = TRUE]

emit(p) ==
    LET pushed == [p EXCEPT !.buffer = @ + 1]
    IN  IF pushed.buffer >= MaxBuffer THEN recFlush(pushed)
                                      ELSE [pushed EXCEPT !.recTimer = TRUE]

\* rrweb is told to stop, and makes no further event; the session stays.
stopRecording(p) == recFlush([p EXCEPT !.rec = "stopped"])

\* The unload listeners outlive the recording; nothing resets isUnloading.
onUnload(p) ==
    IF p.rec \in {"recording", "stopped"} THEN recFlush([p EXCEPT !.recUnload = TRUE]) ELSE p

-----------------------------------------------------------------------------
(* The steps of the page.                                                  *)

\* Scripts run, timers fire and answers arrive.
Running == page.life \in {"visible", "hidden", "leaving"}

InUse == page.life = "visible" /\ ~page.prerender

Step(p) == page' = p /\ UNCHANGED <<choice, site, setup>>

Init ==
    /\ setup \in Setups
    /\ site \in [on: BOOLEAN, asks: BOOLEAN, version: {1}]
    /\ choice = [version |-> 0, answer |-> "silent"]
    /\ page = Blank

\* The tracker runs as the page loads, and asks for the consent script.
Open ==
    /\ page.life = "closed"
    /\ \E ahead \in BOOLEAN:
          Step(init([page EXCEPT !.life = "visible", !.prerender = ahead]))

Activate ==
    /\ page.life = "visible" /\ page.prerender
    /\ LET shown == [page EXCEPT !.prerender = FALSE, !.deferred = FALSE]
       IN  Step(IF page.deferred THEN init(shown) ELSE shown)

ConsentScriptLoads ==
    /\ Running /\ page.lookup = "script"
    /\ Step([page EXCEPT !.lookup = "config", !.tm = "loading"])

ConsentScriptFails ==
    /\ Running /\ page.lookup = "script"
    /\ Step([signalConsentReady(page, "unavailable") EXCEPT
                    !.lookup = "settled", !.tm = "loading"])

\* Variant: a timeout is announced as a status of its own.
fetchConfig_Timeout ==
    /\ Running /\ page.lookup = "config"
    /\ LET p == [page EXCEPT !.lookup = "settled"]
       IN  \/ site.on /\ Step(ConfigArrived(p))
           \/ ~site.on /\ Step(signalConsentReady(p, "unconfigured"))
           \/ Step(signalConsentReady(p, "timeout"))

\* 204: consent management is off.  An error, a timeout or a body that is no
\* JSON fails closed.
fetchConfig ==
    /\ Running /\ page.lookup = "config"
    /\ LET p == [page EXCEPT !.lookup = "settled"]
       IN  \/ site.on /\ Step(ConfigArrived(p))
           \/ ~site.on /\ Step(signalConsentReady(p, "unconfigured"))
           \/ Step(signalConsentReady(p, "error"))

\* Variant: the banner stays, so that the visitor can change his mind.
saveAndClose_Stays ==
    /\ InUse /\ page.banner
    /\ \E answer \in Answers:
          /\ choice' = [version |-> page.version, answer |-> answer]
          /\ page' = setConsentState(page, answer)
    /\ UNCHANGED <<site, setup>>

\* A click on the banner: the cookie, then the page's state, then the banner.
saveAndClose ==
    /\ InUse /\ page.banner
    /\ \E answer \in Answers:
          /\ choice' = [version |-> page.version, answer |-> answer]
          /\ page' = [setConsentState(page, answer) EXCEPT
                       !.banner = FALSE, !.version = 0]
    /\ UNCHANGED <<site, setup>>

loadTagManager ==
    /\ Running /\ page.tm = "loading"
    /\ Step(loadRecorderWhenAllowed([page EXCEPT !.tm = "settled"]))

\* The site's own code and the visitor: a custom event, or one a listener of
\* startTracking reports.
track ==
    /\ InUse /\ page.todo > 0 /\ ~setup.dnt
    /\ Step(queueEvent([page EXCEPT !.todo = @ - 1]))

\* pushState, replaceState and popstate restart the timer.
onNav ==
    /\ InUse /\ page.started /\ page.todo > 0
    /\ Step([page EXCEPT !.todo = @ - 1, !.navTimer = TRUE, !.moved = TRUE])

NavTimer ==
    /\ Running /\ page.navTimer
    /\ LET p == [page EXCEPT !.navTimer = FALSE]
       IN  Step(IF p.moved THEN trackPageview(p) ELSE p)

FlushTimer == Running /\ page.timer /\ Step(flush(page))

\* The stream ends, or it fails and the same batch is sent uncompressed.
Compressed ==
    /\ Running
    /\ \E batch \in page.coding:
          Step(sendBlob([page EXCEPT !.coding = @ \ {batch}], batch))

\* checkRateLimit: a burst of events reaches the limit, and a new window ends it.
RateWindow ==
    /\ Running /\ page.started
    /\ \/ page.limited /\ Step([page EXCEPT !.limited = FALSE])
       \/ ~page.limited /\ page.todo > 0
          /\ Step([page EXCEPT !.limited = TRUE, !.todo = @ - 1])

-----------------------------------------------------------------------------
(* The recorder's steps.                                                   *)

RecorderLoads ==
    /\ Running /\ page.rec = "script"
    /\ Step([page EXCEPT
                   !.rec = IF page.consent = "denied" \/ setup.dnt THEN "off" ELSE "config"])

\* Disabled, not sampled, or a script that does not load: off.
RecorderGoesOn ==
    /\ Running /\ page.rec \in {"config", "library"}
    /\ \/ Step([page EXCEPT !.rec = "off"])
       \/ page.rec = "config" /\ setup.replay /\ Step([page EXCEPT !.rec = "library"])
       \/ page.rec = "library" /\ Step([page EXCEPT !.rec = "recording"])

\* A frame, or the first one after the longest duration.
Emit ==
    /\ Running /\ page.rec = "recording"
    /\ \/ page.todo > 0 /\ Step(emit([page EXCEPT !.todo = @ - 1]))
       \/ Step(stopRecording(page))

RecorderTimer == Running /\ page.recTimer /\ Step(recFlush(page))

-----------------------------------------------------------------------------
(* Showing, hiding and leaving a page.                                     *)

\* What the listeners of one event do: the tracker's, if it has any, then the
\* recorder's.
Heard(p, heard) == onUnload(IF p.started THEN heard ELSE p)

Hide ==
    /\ InUse
    /\ LET p == [page EXCEPT !.life = "hidden"]
       IN  Step(Heard(p, flush(sendPerf(p))))

Show ==
    /\ page.life = "hidden" /\ page.todo > 0
    /\ Step([page EXCEPT !.life = "visible", !.todo = @ - 1])

BeforeUnload ==
    /\ page.life \in {"visible", "hidden"} /\ ~page.prerender
    /\ LET p == [page EXCEPT !.life = "leaving"]
       IN  Step(Heard(p, Unloading(sendExit(p))))

\* The visitor stays: nothing tells the scripts.
Stay ==
    /\ page.life = "leaving" /\ page.todo > 0
    /\ Step([page EXCEPT !.life = "visible", !.todo = @ - 1])

\* The memory of a page that is gone; the cookie stays.
Gone(p) == [Blank EXCEPT !.vid = p.vid]

\* Not every browser announces it with beforeunload.  A visibilitychange that
\* follows finds nothing left to send.
PageHide ==
    /\ page.life \in {"visible", "hidden", "leaving"} /\ ~page.prerender
    /\ LET p == Heard(page, Unloading(sendExit(sendPerf(page))))
       IN  \/ Step([p EXCEPT !.life = "frozen"])
           \/ Step(Gone(p))

\* Back from the back-forward cache.
PageShow ==
    /\ page.life = "frozen" /\ page.todo > 0
    /\ LET p == [page EXCEPT !.life = "visible", !.todo = @ - 1]
       IN  Step(IF p.started THEN trackPageview([p EXCEPT !.unloading = FALSE]) ELSE p)

\* A crash, a discarded tab, or a page evicted from the cache: no handler runs.
Discard == page.life # "closed" /\ Step(Gone(page))

-----------------------------------------------------------------------------
(* The visitor's other tabs, and the site's administrator.                 *)

\* A banner is answered in another tab: what its scripts do to the cookies.
\* Whatever this page was told before stays as it is.
Elsewhere ==
    /\ site.on /\ page.todo > 0
    /\ \E version \in 1..site.version, answer \in Answers:
          /\ choice' = [version |-> version, answer |-> answer]
          /\ page' = [page EXCEPT !.todo = @ - 1,
                                 !.vid = answer # "denied" /\ setup.persistent /\ ~setup.dnt]
    /\ UNCHANGED <<site, setup>>

PublishConsent ==
    /\ site.version < MaxVersion /\ page.todo > 0
    /\ site' = [site EXCEPT !.version = @ + 1]
    /\ page' = [page EXCEPT !.todo = @ - 1]
    /\ UNCHANGED <<choice, setup>>

Scripts ==
    \/ Open \/ Activate
    \/ ConsentScriptLoads \/ ConsentScriptFails \/ fetchConfig \/ saveAndClose
    \/ loadTagManager \/ track \/ onNav \/ NavTimer
    \/ FlushTimer \/ Compressed \/ RateWindow
    \/ RecorderLoads \/ RecorderGoesOn \/ Emit \/ RecorderTimer
    \/ Hide \/ Show \/ BeforeUnload \/ Stay \/ PageHide
    \/ PageShow \/ Discard

Next == Scripts \/ Elsewhere \/ PublishConsent

Spec == Init /\ [][Next]_vars

Loading == ConsentScriptLoads \/ ConsentScriptFails \/ fetchConfig \/ loadTagManager
Sending == FlushTimer \/ Compressed

\* The event loop runs timers and promises; a script element ends in load or
\* error, and the request for the configuration has a timeout of ten seconds.
Fairness ==
    WF_vars(Loading) /\ WF_vars(Sending)

LiveSpec == Spec /\ Fairness

-----------------------------------------------------------------------------
(* Safety.                                                                 *)

\* Every event made in this load of the page is in exactly one place: in the
\* queue, in one batch being compressed, handed to the network, or dropped for
\* want of consent.  The timer, a full queue, the listeners of one unload event
\* after another and a promise all take events away (flush, sendBlob,
\* clearQueuedEvents); none of them sends one twice or forgets one.
EachEventOnce ==
    /\ InQueue(page) \cup page.sent \cup page.dropped \cup UNION page.coding = 1..page.made
    /\ Len(page.queue) + Cardinality(page.sent) + Cardinality(page.dropped)
         + Cardinality(UNION page.coding) = page.made
    /\ \A a, b \in page.coding: a = b \/ a \cap b = {}

\* An event that waits has a timer that will flush it, and the queue is never
\* longer than what one flush takes: flush sends MAX_BATCH events and clears the
\* timer, so a longer queue would strand events, at unload for good.
QueueIsScheduled ==
    page.queue # <<>> => page.timer /\ Len(page.queue) < MaxBatch

\* Once the page has published a denial, none of the three scripts keeps
\* anything of the visitor: no identity, no event queued or being compressed,
\* no recording begun or under way.  Nothing asks again later: recorder.js reads
\* the consent once as it loads, and only the banner's removal in saveAndClose
\* keeps a denial from following a grant.
NothingAfterDenial ==
    page.consent = "denied" =>
        /\ page.identity = "none"
        /\ page.queue = <<>> /\ page.coding = {} /\ page.sent = {}
        /\ page.rec \in {"absent", "off"}

-----------------------------------------------------------------------------
(* Liveness.                                                               *)

\* Events do not stay in a page that is alive: they are sent, or dropped.
EventsLeave ==
    (Running /\ (page.queue # <<>> \/ page.coding # {}))
        ~> (~Running \/ (page.queue = <<>> /\ page.coding = {}))

\* Whichever comes first, the visitor's consent or the tag manager's script,
\* a page that may be tracked gets its tracker started and its recorder loaded.
ConsentReachesScripts ==
    (Running /\ Allowed(page) /\ ~setup.dnt /\ ~page.prerender)
        ~> (~Running \/ (page.started /\ page.rec # "absent"))

=============================================================================
