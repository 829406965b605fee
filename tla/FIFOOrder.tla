------------------------------ MODULE FIFOOrder ------------------------------
(***************************************************************************)
(* FIFOQueue with a history of the order of arrival.                       *)
(***************************************************************************)
EXTENDS FIFOQueue

VARIABLES ahead,    \* the pods pending when the pod of a key was pushed that are
                    \* still pending
          requeued  \* the keys that were pushed while the slice held them

HVars == <<fifo, out, ahead, requeued>>

HInit == Init /\ ahead = [k \in Keys |-> {}] /\ requeued = {}

InSlice(k) == \E i \in 1..Len(fifo.queue) : fifo.queue[i] = k

HPush(p) ==
    /\ CallPush(p)
    /\ LET k == KeyOf[p] IN
       IF k = NoKey
       THEN UNCHANGED <<ahead, requeued>>
       ELSE /\ ahead' = IF Has(fifo, k)   \* replaces the pending pod
                        THEN ahead
                        ELSE [ahead EXCEPT ![k] = {j \in Keys : Has(fifo, j)}]
            /\ requeued' = IF InSlice(k) THEN requeued \cup {k} ELSE requeued \ {k}

\* The pods that leave the queue are no longer ahead of any other.
HOther ==
    /\ \/ CallPop
       \/ CallFront
       \/ \E k \in Keys : CallDelete(k)
       \/ \E k \in Keys, p \in Pods : CallUpdate(k, p)
    /\ ahead' = [k \in Keys |-> {j \in ahead[k] : fifo'.pods[j] # NoPod}]
    /\ UNCHANGED requeued

HNext == (\E p \in Pods : HPush(p)) \/ HOther

HSpec == HInit /\ [][HNext]_HVars

\* This step popped the pod of key k.
Popped(k) == out'.op = "Pop" /\ out'.err = "nil" /\ KeyOf[out'.pod] = k

\* Pods leave in the order of their arrival, however many deletions, updates and
\* stale keys come between (Pop and Front, fifo.go:54 and fifo.go:67): a pod is
\* popped only when every pod that was pending when it was pushed has left.
\* Stated for the pods that were pushed when the slice held no copy of their key.
FirstInFirstOut ==
    [][\A k \in Keys \ requeued : Popped(k) => ahead[k] = {}]_HVars
==============================================================================
