----------------------------- MODULE MCProposed -----------------------------
(***************************************************************************)
(* An instance of ProposedScheduler for TLC: two pods of the size of a     *)
(* node and a small one.                                                   *)
(***************************************************************************)
EXTENDS ProposedStreaks, TLC, FiniteSetsExt

CONSTANTS p1, p2, p3, n1, n2, a, b, c

MCKeyOf == p1 :> a @@ p2 :> b @@ p3 :> c
Size == p1 :> 10 @@ p2 :> 10 @@ p3 :> 1
MCRequest(S) == MapThenSumSet(LAMBDA p : Size[p], S)
MCAllocatable == [n \in Nodes |-> 10]

Extender(capable) == [filters |-> TRUE, NodeCacheCapable |-> capable]
Silent == [filters |-> FALSE, NodeCacheCapable |-> FALSE]
MCExtenders == <<Extender(TRUE), Silent>>
OldExtenders == <<Extender(FALSE)>>
=============================================================================
