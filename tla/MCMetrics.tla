----------------------------- MODULE MCMetrics -----------------------------
(***************************************************************************)
(* An instance of Metrics for TLC: two pods on n1, and on n2 one pod whose *)
(* name may be that of a pod on n1.  Capacities and loads are such that    *)
(* each resource may be over-used or over-requested, and that the largest  *)
(* product exceeds the integers.                                           *)
(***************************************************************************)
EXTENDS Metrics, TLC

CONSTANTS a, b, e, n1, n2

Amount(cpu, mem) == [MilliCPU |-> cpu, Memory |-> mem]

MCCapacity == n1 :> Amount(5, 4) @@ n2 :> Amount(3, 4)

P(request_, usage_, active_) == [request |-> request_, usage |-> usage_, active |-> active_]

MCPods ==
    {P(Amount(2, 1), Amount(4, 1), TRUE), P(Amount(3, 1), Amount(3, 4), TRUE),
     P(Amount(4, 0), Amount(3, 7), TRUE), P(Amount(2, 9), Amount(1, 3), TRUE),
     P(Amount(1, 1), Amount(6, 6), FALSE)}

MCClusters ==
    {n1 :> (a :> x @@ b :> y) @@ n2 :> (k :> z) :
        x \in MCPods, y \in MCPods, z \in MCPods, k \in {a, e}}
      \cup {n1 :> << >> @@ n2 :> << >>}
=============================================================================
