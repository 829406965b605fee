---------------------------- MODULE KubeSimWaits ----------------------------
(***************************************************************************)
(* KubeSim with a history of the scheduling passes: which pods the         *)
(* scheduler has tried in the current pass, and how many passes in a row   *)
(* have left a pending pod untried.                                        *)
(***************************************************************************)
EXTENDS KubeSim, FiniteSets

VARIABLES tried,     \* the pods tried in the current pass, or in the last one
          skipped    \* the passes that a pending pod has waited through

WVars == <<vars, tried, skipped>>

WInit == Init /\ tried = {} /\ skipped = [p \in Pods |-> 0]

InLoops == pc \in {"schedule", "resubmit"}

\* The pass ends with this step.
PassEnds == InLoops /\ ~InLoops'

WNext ==
    /\ Next
    /\ tried' = IF pc = "submit" THEN {}
                ELSE IF Trying THEN tried \cup {FrontPod(pending)} ELSE tried
    /\ skipped' = [p \in Pods |->
                     IF p \in tried' \/ p \notin Queued(pending') \cup Queued(failQueue')
                     THEN 0
                     ELSE IF PassEnds THEN skipped[p] + 1 ELSE skipped[p]]

WSpec == WInit /\ [][WNext]_WVars /\ WF_WVars(WNext)

\* No pod starves in the queue (generic_scheduler.go:115 to 194): a pass stops
\* after KeepSchedulingTimeout + 1 failures, but the pods that failed go to the
\* end of the queue, so the pods left untried come first in the next pass.  A pod
\* is passed over at most as often as those ahead of it can fill a pass.
BoundedWait ==
    \A p \in Pods :
        skipped[p] <= (Cardinality(Keys) - 1) \div (KeepSchedulingTimeout + 1)
=============================================================================
