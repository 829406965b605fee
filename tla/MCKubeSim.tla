----------------------------- MODULE MCKubeSim -----------------------------
(***************************************************************************)
(* Instances of KubeSimWaits for TLC.  A pod requests Size units of a      *)
(* node's Capacity.                                                        *)
(***************************************************************************)
EXTENDS KubeSimWaits, TLC, FiniteSetsExt

CONSTANTS p1, p2, p3, p4, x, a, b, c

\* p4 is an update or a resubmission of p1; x has no name.
MCKeyOf == [p \in Pods |-> (p1 :> a @@ p2 :> b @@ p3 :> c @@ p4 :> a @@ x :> NoKey)[p]]
MCDuration == [p \in Pods |-> (p1 :> 3 @@ p2 :> 2 @@ p3 :> 1 @@ p4 :> 5 @@ x :> 1)[p]]
MCGrace == [p \in Pods |-> (p1 :> 3 @@ p2 :> 0 @@ p3 :> 1 @@ p4 :> 2 @@ x :> 1)[p]]
MCPriority == [p \in Pods |-> (p1 :> 0 @@ p2 :> 0 @@ p3 :> 1 @@ p4 :> 0 @@ x :> 0)[p]]

\* p3 needs a whole node.
Size == p1 :> 1 @@ p2 :> 1 @@ p3 :> 2 @@ p4 :> 1
Capacity == 2
MCFits(n, S) == MapThenSumSet(LAMBDA p : Size[p], S) <= Capacity

\* No pod fits once another is on the node.
OneAtATime(n, S) == Cardinality(S) <= 1
=============================================================================
