-------------------------- MODULE MCPriorityQueue --------------------------
(***************************************************************************)
(* Instances of PriorityQueue for TLC.  Six names let a deletion move a    *)
(* key from one branch of the heap to the other; a2 is an update of a1.    *)
(***************************************************************************)
EXTENDS PriorityQueue, TLC

CONSTANTS a, b, c, d, e, f, a1, a2, b1, c1, d1, e1, f1, x1

MCKeyOf == [p \in Pods |->
    (a1 :> a @@ a2 :> a @@ b1 :> b @@ c1 :> c @@ d1 :> d @@ e1 :> e @@ f1 :> f
        @@ x1 :> NoKey)[p]]
MCPriority == [p \in Pods |->
    (a1 :> 2 @@ a2 :> 0 @@ b1 :> 1 @@ c1 :> 1 @@ d1 :> 1 @@ e1 :> 0 @@ f1 :> 0
        @@ x1 :> 0)[p]]
MCCreated == [p \in Pods |->
    (a1 :> 1 @@ a2 :> 1 @@ b1 :> 0 @@ c1 :> 0 @@ d1 :> 1 @@ e1 :> 0 @@ f1 :> 1
        @@ x1 :> 0)[p]]
MCMemory == [p \in Pods |->
    (a1 :> 0 @@ a2 :> 5 @@ b1 :> 1 @@ c1 :> 2 @@ d1 :> 3 @@ e1 :> 4 @@ f1 :> 5
        @@ x1 :> 0)[p]]
=============================================================================
