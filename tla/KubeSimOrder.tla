---------------------------- MODULE KubeSimOrder ----------------------------
(***************************************************************************)
(* KubeSim with a history of the names in the order of their submission.   *)
(***************************************************************************)
EXTENDS KubeSim

VARIABLE arrived   \* the keys that entered the queue, in this order

OVars == <<vars, arrived>>

OInit == Init /\ arrived = << >>

\* At most one key enters the queue in a step.
Entering == {k \in Keys : Has(pending, k)' /\ ~Has(pending, k) /\ pc = "submit"}

ONext ==
    /\ Next
    /\ arrived' = IF Entering = {} THEN arrived
                  ELSE Append(arrived, CHOOSE k \in Entering : TRUE)

OSpec == OInit /\ [][ONext]_OVars

\* A pod of this key is bound, or about to be.
Started(k) == \E p \in Deciding \cup Bound : KeyOf[p] = k

\* The name was submitted once.
Once(i) == \A j \in 1..Len(arrived) : arrived[j] = arrived[i] => j = i

\* Without KeepScheduling the pod at the front of the queue blocks the pods
\* behind it when no node fits (generic_scheduler.go:144), and an update leaves
\* it where it is (fifo.go:101): no pod is started while a pod submitted before
\* it waits, in whatever tick, although smaller pods might fit.
StartedInOrder ==
    \A i, j \in {m \in 1..Len(arrived) : Once(m)} :
        i < j /\ Started(arrived[j]) => ~Has(pending, arrived[i])
=============================================================================
