------------------------------ MODULE PodQueue ------------------------------
(***************************************************************************)
(* What pkg/queue/queue.go promises the users of a PodQueue, whatever the  *)
(* order the queue keeps: the pods that were pushed and neither popped nor *)
(* deleted stay pending under their keys, Pop and Front report an empty    *)
(* queue only if nothing is pending, and a Pop right after a Front takes   *)
(* the pod that Front showed (the scheduler decides on the pod of Front    *)
(* and drops the one of Pop).                                              *)
(***************************************************************************)
EXTENDS Naturals

CONSTANTS Keys, Pods, NoPod, NoKey, KeyOf

VARIABLES pending,  \* the pending pod of each key, or NoPod
          out       \* the last call and what it returned

vars == <<pending, out>>

Results == [op : {"New", "Push", "Pop", "Front", "Delete", "Update"},
            err : {"nil", "InvalidArgument", "ErrEmptyQueue",
                   "ErrDifferentNames", "ErrNoMatchingPod"},
            pod : Pods \cup {NoPod},
            found : BOOLEAN]

Returns(op, err, pod, found) ==
    out' = [op |-> op, err |-> err, pod |-> pod, found |-> found]

NothingPending == \A k \in Keys : pending[k] = NoPod

Init == /\ pending = [k \in Keys |-> NoPod]
        /\ out = [op |-> "New", err |-> "nil", pod |-> NoPod, found |-> FALSE]

Push(p) ==
    \/ /\ KeyOf[p] = NoKey
       /\ Returns("Push", "InvalidArgument", NoPod, FALSE)
       /\ UNCHANGED pending
    \/ /\ KeyOf[p] # NoKey
       /\ Returns("Push", "nil", NoPod, FALSE)
       /\ pending' = [pending EXCEPT ![KeyOf[p]] = p]

Empty(op) ==
    /\ NothingPending
    /\ Returns(op, "ErrEmptyQueue", NoPod, FALSE)
    /\ UNCHANGED pending

\* The pod of key k is at the front; a Front just before this call saw it.
AtFront(k) == /\ pending[k] # NoPod
              /\ out.op = "Front" => out.pod = pending[k]

Pop == \/ Empty("Pop")
       \/ \E k \in Keys : /\ AtFront(k)
                          /\ Returns("Pop", "nil", pending[k], FALSE)
                          /\ pending' = [pending EXCEPT ![k] = NoPod]

Front == \/ Empty("Front")
         \/ \E k \in Keys : /\ AtFront(k)
                            /\ Returns("Front", "nil", pending[k], FALSE)
                            /\ UNCHANGED pending

Delete(k) == /\ Returns("Delete", "nil", NoPod, pending[k] # NoPod)
             /\ pending' = [pending EXCEPT ![k] = NoPod]

UpdateError(k, p) ==
    IF KeyOf[p] = NoKey THEN "InvalidArgument"
    ELSE IF KeyOf[p] # k THEN "ErrDifferentNames" ELSE "ErrNoMatchingPod"

Update(k, p) ==
    \/ /\ KeyOf[p] = k
       /\ pending[k] # NoPod
       /\ Returns("Update", "nil", NoPod, FALSE)
       /\ pending' = [pending EXCEPT ![k] = p]
    \/ /\ KeyOf[p] # k \/ pending[k] = NoPod
       /\ Returns("Update", UpdateError(k, p), NoPod, FALSE)
       /\ UNCHANGED pending

Next == \/ \E p \in Pods : Push(p)
        \/ Pop
        \/ Front
        \/ \E k \in Keys : Delete(k)
        \/ \E k \in Keys, p \in Pods : Update(k, p)

Spec == Init /\ [][Next]_vars
=============================================================================
