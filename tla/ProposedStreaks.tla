-------------------------- MODULE ProposedStreaks --------------------------
(***************************************************************************)
(* ProposedScheduler with a history variable that counts, for each node,   *)
(* how many ticks in a row it has been requested but not used, up to ten.  *)
(***************************************************************************)
EXTENDS ProposedScheduler

VARIABLE streak

HVars == <<vars, streak>>

HInit == Init /\ streak = [n \in Nodes |-> 0]

Earned(n) == IF Underused(n) THEN IF streak[n] < 10 THEN streak[n] + 1 ELSE 10 ELSE 0

HNext ==
    /\ Next
    /\ streak' = IF pc = "submit" /\ pc' = "next" THEN [n \in Nodes |-> Earned(n)] ELSE streak

HSpec == HInit /\ [][HNext]_HVars

\* Oversubscription is earned (proposed_scheduler.go:83): a bind takes the requests
\* on a node above its capacity by as many tenths as there were ticks in a row, up
\* to the last, in which the pods on the node requested and did not use it.
OversubEarned ==
    [][\A n \in Nodes :
         info'[n] # info[n] /\ pc' = "next" /\ pc = "prioritize"
            => 10 * Request(info'[n]) <= (10 + streak[n]) * Allocatable[n]]_HVars
=============================================================================
