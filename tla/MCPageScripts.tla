--------------------------- MODULE MCPageScripts ---------------------------
(***************************************************************************)
(* Instances of PageScripts and NodeClient for TLC.  The scripts of a page *)
(* and the client of the site's server share no state, so that a behaviour *)
(* of both is a behaviour of one and a behaviour of the other interleaved: *)
(* the run explores each of them while the other has not begun.            *)
(***************************************************************************)
EXTENDS PageScripts, NodeClient, TLC

CONSTANT v1

VARIABLE side

\* Each browser, tag and replay choice with some of the others.
MCSetups ==
    {[codec |-> TRUE,  dnt |-> FALSE, persistent |-> TRUE,  replay |-> FALSE],
     [codec |-> FALSE, dnt |-> FALSE, persistent |-> FALSE, replay |-> TRUE],
     [codec |-> TRUE,  dnt |-> TRUE,  persistent |-> TRUE,  replay |-> TRUE]}

MCInit == side \in {"page", "server"} /\ Init /\ NodeInit

PageSteps   == side = "page" /\ Next /\ UNCHANGED <<side, nodeVars>>
ServerSteps == side = "server" /\ NodeNext /\ UNCHANGED <<side, vars>>

MCFairness ==
    /\ WF_vars(side = "page" /\ Loading) /\ WF_vars(side = "page" /\ Sending)
    /\ SF_nodeVars(side = "server" /\ Receives(1))
    /\ WF_nodeVars(side = "server" /\ (Timer \/ Replies(1)))

MCSpec == MCInit /\ [][PageSteps \/ ServerSteps]_<<side, vars, nodeVars>> /\ MCFairness

\* The type invariants of both modules; and the delivery of the first event.
TypesOK        == TypeOK /\ NodeTypeOK
RetriesDeliver == EventDelivered(1)
=============================================================================
