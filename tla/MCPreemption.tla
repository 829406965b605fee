---------------------------- MODULE MCPreemption ----------------------------
(***************************************************************************)
(* An instance of Preemption for TLC: two nodes of capacity two, full of   *)
(* pods of low priority; p1 and q1, of one priority, need two units and    *)
(* one, s1, of a higher one, needs two and does not accept n2; q2 is an    *)
(* update of q1; no node accepts u1.  Extenders may refuse q1 all nodes.    *)
(***************************************************************************)
EXTENDS Preemption, TLC

CONSTANTS keyA, keyB, keyC, keyD, keyP, keyQ, keyS, keyU,
          a1, b1, c1, d1, p1, q1, q2, s1, u1, n1, n2

MCKeyOf == a1 :> keyA @@ b1 :> keyB @@ c1 :> keyC @@ d1 :> keyD @@ p1 :> keyP
             @@ q1 :> keyQ @@ q2 :> keyQ @@ s1 :> keyS @@ u1 :> keyU
MCPriority == a1 :> 0 @@ b1 :> 1 @@ c1 :> 0 @@ d1 :> 1 @@ p1 :> 2
             @@ q1 :> 2 @@ q2 :> 2 @@ s1 :> 3 @@ u1 :> -1
MCSize == [x \in Pods |-> IF x \in {p1, s1} THEN 2 ELSE 1]
MCMemory == [x \in Pods |-> IF x = s1 THEN 0 ELSE MCSize[x]]
MCCreated == [x \in Pods |-> IF x \in Replacements THEN 0 ELSE 1]
MCAllowed == [x \in Pods |-> IF x = s1 THEN {n1} ELSE IF x = u1 THEN {} ELSE Nodes]
MCDuration == [x \in Pods |-> IF x \in {d1, q1} THEN 1 ELSE 9]
MCGrace == [x \in Pods |-> IF x \in {a1, b1} THEN 3 ELSE 1]
=============================================================================
