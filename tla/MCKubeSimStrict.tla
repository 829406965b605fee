-------------------------- MODULE MCKubeSimStrict --------------------------
(***************************************************************************)
(* An instance of KubeSimOrder without KeepScheduling for TLC.             *)
(***************************************************************************)
EXTENDS KubeSimOrder, TLC, FiniteSetsExt

CONSTANTS p1, p2, p3, p4, x, a, b, c

\* p4 is an update or a resubmission of p1, x has no name.
MCKeyOf == p1 :> a @@ p2 :> b @@ p3 :> c @@ p4 :> a @@ x :> NoKey
MCDuration == p1 :> 3 @@ p2 :> 2 @@ p3 :> 1 @@ p4 :> 5 @@ x :> 1
MCGrace == p1 :> 3 @@ p2 :> 0 @@ p3 :> 1 @@ p4 :> 2 @@ x :> 1
MCPriority == p1 :> 0 @@ p2 :> 0 @@ p3 :> 1 @@ p4 :> 0 @@ x :> 0

\* p3 needs a whole node, the others half of one.
Size == p1 :> 1 @@ p2 :> 1 @@ p3 :> 2 @@ p4 :> 1 @@ x :> 1
MCFits(n, S) == MapThenSumSet(LAMBDA p : Size[p], S) <= 2
=============================================================================
