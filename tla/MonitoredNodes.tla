--------------------------- MODULE MonitoredNodes ---------------------------
(***************************************************************************)
(* The gateways that the viewer's pages ask over HTTP.  They are not in    *)
(* the repository: a node that is up answers /status with the markets it   *)
(* serves, one that is down does not answer, and this changes at any time. *)
(***************************************************************************)
CONSTANTS
  Nodes,
  Statuses     \* per node, the sets of markets it may serve

VARIABLE node  \* per node, the markets it serves, or Failed

\* A request that fails.
Failed == {"failed"}

NodesInit == node \in [Nodes -> {Failed}]

NodeChanges(n) ==
  \E status \in Statuses[n] \cup {Failed} : status # node[n] /\ node' = [node EXCEPT ![n] = status]
=============================================================================
