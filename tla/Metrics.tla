------------------------------ MODULE Metrics ------------------------------
(***************************************************************************)
(* BuildMetrics (pkg/metrics/metrics.go): one goroutine for each node      *)
(* writes the metrics of its pods to a map shared by all and divides the   *)
(* node's capacity among them; the quality of service is added up over the *)
(* nodes.  Estimate (pkg/scheduler/scheduler.go, rule 5) then adapts the   *)
(* prediction penalty to it, in the same tick.                             *)
(*                                                                         *)
(* One critical section of a mutex is one step; a record of podsMetrics is *)
(* read in one section and written in another.  Integers are those of Go,  *)
(* of Word values; the proportion that the code computes in floating point *)
(* for memory is the rounded quotient here.                                *)
(***************************************************************************)
EXTENDS Integers, FiniteSets

CONSTANTS
    Nodes, Keys, NoKey,
    Capacity,       \* of each node, of each resource
    Clusters,       \* for each node, its pods by key: [request, usage, active]
    Word,           \* the number of integers, a power of two
    Penalties,      \* the penalties and the quality of the last tick to start
    Qualities,      \*   from, in thousandths
    TargetQoS

Resources == {"MilliCPU", "Memory"}
Amounts == [Resources -> Int]

ASSUME NoKeyAssumption == NoKey \notin Keys
ASSUME CapacityAssumption == Capacity \in [Nodes -> [Resources -> Nat]]
ASSUME WordAssumption == Word \in Nat \ {0}
ASSUME PenaltyAssumption ==
    Penalties \subseteq Nat /\ Qualities \subseteq Nat /\ TargetQoS \in Nat

Pod == [request : [Resources -> Nat], usage : [Resources -> Nat], active : BOOLEAN]
ASSUME ClusterAssumption ==
    \A cluster \in Clusters : \A n \in Nodes :
        /\ DOMAIN cluster[n] \subseteq Keys /\ IsFiniteSet(DOMAIN cluster[n])
        /\ \A k \in DOMAIN cluster[n] : cluster[n][k] \in Pod

VARIABLES
    pods,                       \* the pods on each node but the terminated ones
    podsMetrics,                \* of each key, NoRecord if there is none
    demand, request,            \* the totals of each node
    podQoses, numPods,          \* the sums over all nodes
    pc, res, todo, cur, record, c, d, qos, allocated,   \* of each goroutine
    penalty, penaltyUpdated, prevQoS, estimate          \* of Estimate

goroutineVars == <<pc, res, todo, cur, record, c, d, qos, allocated>>
totalVars == <<demand, request>>
sumVars == <<podQoses, numPods>>
estimateVars == <<penalty, penaltyUpdated, prevQoS, estimate>>
vars == <<pods, podsMetrics, totalVars, sumVars, goroutineVars, estimateVars>>

Zero == [r \in Resources |-> 0]
NoRecord == [request |-> Zero, usage |-> Zero, alloc |-> Zero]

-----------------------------------------------------------------------------
(* Integers, and the pods of a node: a pod that was deleted stays on it    *)
(* until it is collected, and has metrics, without usage.                  *)

Wrap(x) == ((x + Word \div 2) % Word) - Word \div 2

\* Division rounds towards zero.
Quotient(x, y) == IF x >= 0 THEN x \div y ELSE -((-x) \div y)

Smaller(x, y) == IF x < y THEN x ELSE y
Larger(x, y) == IF x > y THEN x ELSE y

runingPodKeys(n) == DOMAIN pods[n]
Usage(n, k) == IF pods[n][k].active THEN pods[n][k].usage ELSE Zero

\* Mutant: nothing is allocated yet.
MetricsUnset(n, k) == [request |-> pods[n][k].request, usage |-> Usage(n, k), alloc |-> << >>]

Metrics(n, k) == [request |-> pods[n][k].request, usage |-> Usage(n, k), alloc |-> Usage(n, k)]

-----------------------------------------------------------------------------
Init ==
    /\ pods \in Clusters
    /\ podsMetrics = [k \in Keys |-> NoRecord]
    /\ podQoses = 0 /\ numPods = 0
    /\ demand = [n \in Nodes |-> Zero] /\ request = [n \in Nodes |-> Zero]
    /\ pc = [n \in Nodes |-> "total"]
    /\ res = [n \in Nodes |-> "MilliCPU"]
    /\ todo = [n \in Nodes |-> runingPodKeys(n)]
    /\ cur = [n \in Nodes |-> NoKey] /\ record = [n \in Nodes |-> NoRecord]
    /\ c = [n \in Nodes |-> 0] /\ d = [n \in Nodes |-> 0]
    /\ qos = [n \in Nodes |-> 0] /\ allocated = [n \in Nodes |-> Zero]
    /\ penalty \in Penalties /\ prevQoS \in Qualities /\ penaltyUpdated \in BOOLEAN
    /\ estimate = [n \in Nodes |-> Zero]

\* The goroutine goes on to another stage, over all its pods again.
Continue(n, stage, r) ==
    /\ pc' = [pc EXCEPT ![n] = stage]
    /\ res' = [res EXCEPT ![n] = r]
    /\ todo' = [todo EXCEPT ![n] = runingPodKeys(n)]
    /\ UNCHANGED <<pods, podsMetrics, totalVars, sumVars, cur, record, qos, allocated, estimateVars>>

Ended(n, stage) == pc[n] = stage /\ todo[n] = {} /\ cur[n] = NoKey

\* node.Metrics: the usage and the requests of the pods that run or terminate.
AddTotals(n, k) ==
    /\ pc[n] = "total" /\ k \in todo[n]
    /\ demand' = [demand EXCEPT ![n] = [r \in Resources |-> @[r] + Usage(n, k)[r]]]
    /\ request' = IF pods[n][k].active
                  THEN [request EXCEPT ![n] =
                            [r \in Resources |-> @[r] + pods[n][k].request[r]]]
                  ELSE request
    /\ todo' = [todo EXCEPT ![n] = @ \ {k}]
    /\ UNCHANGED <<pods, podsMetrics, sumVars, pc, res, cur, record, c, d, qos, allocated,
                   estimateVars>>

EndTotals(n) == Ended(n, "total") /\ Continue(n, "put", "MilliCPU") /\ UNCHANGED <<c, d>>

\* The pod's metrics enter the map; what is allocated is what is used at first.
Put(n, k) ==
    /\ pc[n] = "put" /\ k \in todo[n]
    /\ podsMetrics' = [podsMetrics EXCEPT ![k] = Metrics(n, k)]
    /\ todo' = [todo EXCEPT ![n] = @ \ {k}]
    /\ UNCHANGED <<pods, totalVars, sumVars, pc, res, cur, record, c, d, qos, allocated, estimateVars>>

EndPut(n) == Ended(n, "put") /\ Continue(n, "share", "MilliCPU") /\ UNCHANGED <<c, d>>

NextResource(n) ==
    IF res[n] = "MilliCPU" THEN Continue(n, "share", "Memory") ELSE Continue(n, "qos", "Memory")

\* The share policy of a resource: nothing to divide if all demand can be met.
whichSharePolicy(n) ==
    /\ pc[n] = "share"
    /\ \/ /\ demand[n][res[n]] <= Capacity[n][res[n]]
          /\ NextResource(n)
          /\ UNCHANGED <<c, d>>
       \/ /\ demand[n][res[n]] > Capacity[n][res[n]]
          /\ Continue(n, "guarantee", res[n])
          /\ c' = [c EXCEPT ![n] = Capacity[n][res[n]]]
          /\ d' = [d EXCEPT ![n] = demand[n][res[n]]]

Read(n, k) ==
    /\ pc[n] \in {"guarantee", "extra"} /\ cur[n] = NoKey /\ k \in todo[n]
    /\ cur' = [cur EXCEPT ![n] = k]
    /\ record' = [record EXCEPT ![n] = podsMetrics[k]]
    /\ todo' = [todo EXCEPT ![n] = @ \ {k}]
    /\ UNCHANGED <<pods, podsMetrics, totalVars, sumVars, pc, res, c, d, qos, allocated, estimateVars>>

\* The record that was read is written back with this allocation.
Write(n, alloc) ==
    /\ podsMetrics' = [podsMetrics EXCEPT ![cur[n]] = [record[n] EXCEPT !.alloc[res[n]] = alloc]]
    /\ cur' = [cur EXCEPT ![n] = NoKey]
    /\ record' = [record EXCEPT ![n] = NoRecord]
    /\ UNCHANGED <<pods, totalVars, sumVars, pc, res, todo, qos, allocated, estimateVars>>

\* Mutants: the request is guaranteed whatever the capacity; the part of the
\* capacity is taken of the demand.
guaranteeAll(n) == Smaller(record[n].usage[res[n]], record[n].request[res[n]])
guaranteeOfDemand(n) ==
    LET p == record[n].request[res[n]] IN
    Smaller(record[n].usage[res[n]],
            Smaller(Quotient(Wrap(Capacity[n][res[n]] * p), demand[n][res[n]]), p))

\* A pod is guaranteed what it requests, or its part of the capacity.
guarantee(n) ==
    LET p == record[n].request[res[n]]
        R == request[n][res[n]]
    IN  IF R = 0 THEN 0
        ELSE Smaller(record[n].usage[res[n]],
                     Smaller(Quotient(Wrap(Capacity[n][res[n]] * p), R), p))

WriteGuarantee(n) ==
    /\ pc[n] = "guarantee" /\ cur[n] # NoKey
    /\ Write(n, guarantee(n))
    /\ c' = [c EXCEPT ![n] = @ - guarantee(n)]
    /\ d' = [d EXCEPT ![n] = @ - guarantee(n)]

EndGuarantee(n) ==
    /\ Ended(n, "guarantee")
    /\ \/ d[n] > 0 /\ c[n] > 0 /\ Continue(n, "extra", res[n])
       \/ ~(d[n] > 0 /\ c[n] > 0) /\ NextResource(n)
    /\ UNCHANGED <<c, d>>

\* Mutant: the rest is divided by usage, not by what is still missing.
extraOfUsage(n) == Quotient(c[n] * record[n].usage[res[n]], d[n])

\* A pod's part of what is left, by what it is still missing.
extra(n) ==
    LET missing == Larger(record[n].usage[res[n]] - record[n].alloc[res[n]], 0)
        part == IF res[n] = "MilliCPU" THEN Wrap(c[n] * missing) ELSE c[n] * missing
    IN  Smaller(Quotient(part, d[n]), missing)

WriteExtra(n) ==
    /\ pc[n] = "extra" /\ cur[n] # NoKey
    /\ Write(n, record[n].alloc[res[n]] + extra(n))
    /\ UNCHANGED <<c, d>>

EndExtra(n) == Ended(n, "extra") /\ NextResource(n) /\ UNCHANGED <<c, d>>

\* A pod is served if it has, of each resource, what it uses or what it requests.
Served(m) == \A r \in Resources : m.usage[r] <= m.alloc[r] \/ m.alloc[r] >= m.request[r]

CountQoS(n, k) ==
    /\ pc[n] = "qos" /\ k \in todo[n]
    /\ qos' = [qos EXCEPT ![n] = @ + IF Served(podsMetrics[k]) THEN 1 ELSE 0]
    /\ todo' = [todo EXCEPT ![n] = @ \ {k}]
    /\ UNCHANGED <<pods, podsMetrics, totalVars, sumVars, pc, res, cur, record, c, d, allocated,
                   estimateVars>>

EndQoS(n) == Ended(n, "qos") /\ Continue(n, "sum", "Memory") /\ UNCHANGED <<c, d>>

SumAllocation(n, k) ==
    /\ pc[n] = "sum" /\ k \in todo[n]
    /\ allocated' = [allocated EXCEPT ![n] =
                        [r \in Resources |-> @[r] + podsMetrics[k].alloc[r]]]
    /\ todo' = [todo EXCEPT ![n] = @ \ {k}]
    /\ UNCHANGED <<pods, podsMetrics, totalVars, sumVars, pc, res, cur, record, c, d, qos, estimateVars>>

\* Mutant: the sum of another goroutine is overwritten.
AddQoSLast(n) ==
    /\ Ended(n, "sum")
    /\ podQoses' = qos[n]
    /\ pc' = [pc EXCEPT ![n] = "addNum"]
    /\ UNCHANGED <<pods, podsMetrics, totalVars, numPods, res, todo, cur, record, c, d, qos, allocated,
                   estimateVars>>

AddQoS(n) ==
    /\ Ended(n, "sum")
    /\ podQoses' = podQoses + qos[n]
    /\ pc' = [pc EXCEPT ![n] = "addNum"]
    /\ UNCHANGED <<pods, podsMetrics, totalVars, numPods, res, todo, cur, record, c, d, qos, allocated,
                   estimateVars>>

AddNum(n) ==
    /\ pc[n] = "addNum"
    /\ numPods' = numPods + Cardinality(runingPodKeys(n))
    /\ pc' = [pc EXCEPT ![n] = "done"]
    /\ UNCHANGED <<pods, podsMetrics, totalVars, podQoses, res, todo, cur, record, c, d, qos, allocated,
                   estimateVars>>

-----------------------------------------------------------------------------
(* Estimate.  The quality of service and the penalty are in thousandths.   *)

MaxPenalty == 3000
MinPenalty == 1100

QualityOfService == IF numPods = 0 THEN 1000 ELSE (podQoses * 1000) \div numPods

Estimate ==
    /\ \A n \in Nodes : pc[n] = "done"
    /\ \/ /\ QualityOfService < TargetQoS
          /\ IF penaltyUpdated \/ 100 * QualityOfService < 99 * prevQoS
             THEN /\ penalty' = Smaller(penalty + (penalty - 1000), MaxPenalty)
                  /\ penaltyUpdated' = FALSE
             ELSE UNCHANGED <<penalty, penaltyUpdated>>
       \/ /\ QualityOfService > TargetQoS
          /\ penalty' = Larger((penalty * 99) \div 100, MinPenalty)
          /\ penaltyUpdated' = TRUE
       \/ /\ QualityOfService = TargetQoS
          /\ UNCHANGED <<penalty, penaltyUpdated>>
    /\ prevQoS' = QualityOfService
    /\ estimate' = [n \in Nodes |->
                      [r \in Resources |-> (demand[n][r] * (penalty' \div 10)) \div 100]]
    /\ pc' = [n \in Nodes |-> "returned"]
    /\ UNCHANGED <<pods, podsMetrics, totalVars, sumVars, res, todo, cur, record, c, d, qos, allocated>>

-----------------------------------------------------------------------------
NextNode(n) ==
    \/ \E k \in Keys : AddTotals(n, k)
    \/ EndTotals(n)
    \/ \E k \in Keys : Put(n, k)
    \/ EndPut(n)
    \/ whichSharePolicy(n)
    \/ \E k \in Keys : Read(n, k)
    \/ WriteGuarantee(n)
    \/ EndGuarantee(n)
    \/ WriteExtra(n)
    \/ EndExtra(n)
    \/ \E k \in Keys : CountQoS(n, k)
    \/ EndQoS(n)
    \/ \E k \in Keys : SumAllocation(n, k)
    \/ AddQoS(n)
    \/ AddNum(n)

Next == (\E n \in Nodes : NextNode(n)) \/ Estimate

Spec == Init /\ [][Next]_vars

-----------------------------------------------------------------------------
Record == [request : [Resources -> Nat], usage : [Resources -> Nat], alloc : Amounts]

Stages == {"total", "put", "share", "guarantee", "extra", "qos", "sum", "addNum", "done", "returned"}

\* Types of the variables of BuildMetrics (metrics.go:245), of the goroutines and of Estimate.
TypeOK ==
    /\ pods \in Clusters
    /\ podsMetrics \in [Keys -> Record]
    /\ demand \in [Nodes -> [Resources -> Nat]] /\ request \in [Nodes -> [Resources -> Nat]]
    /\ podQoses \in Nat /\ numPods \in Nat
    /\ pc \in [Nodes -> Stages] /\ res \in [Nodes -> Resources]
    /\ todo \in [Nodes -> SUBSET Keys] /\ cur \in [Nodes -> Keys \cup {NoKey}]
    /\ record \in [Nodes -> Record]
    /\ c \in [Nodes -> Int] /\ d \in [Nodes -> Int]
    /\ qos \in [Nodes -> Nat] /\ allocated \in [Nodes -> Amounts]
    /\ penalty \in Int /\ prevQoS \in Int /\ penaltyUpdated \in BOOLEAN
    /\ estimate \in [Nodes -> Amounts]

\* No pod is ever given more than it uses (metrics.go:128 to 237), neither while
\* guarantees and extras are written back to the shared map nor if two goroutines
\* write the record of one name, or a product exceeds 64 bits.
AllocationWithinUsage ==
    \A k \in Keys : \A r \in Resources : podsMetrics[k].alloc[r] <= podsMetrics[k].usage[r]

\* The names on this node are on no other, and no product exceeds the integers:
\* C*pRequest.Memory does for a node of 128 GiB and a request of 64 MiB.
Exclusive(n) == \A m \in Nodes \ {n} : runingPodKeys(m) \cap runingPodKeys(n) = {}
NoOverflow(n) ==
    \A k \in runingPodKeys(n) : \A r \in Resources :
        Capacity[n][r] * Larger(pods[n][k].request[r], pods[n][k].usage[r]) < Word \div 2

\* The pods of a node together are never given more than its capacity; and if
\* they ask for more, all of it but a rest of less than one unit for each pod is
\* given to them (metrics.go:128, metrics.go:297), whatever the other goroutines
\* do to the map.
CapacityShared ==
    \A n \in Nodes : \A r \in Resources :
        /\ pc[n] \in {"addNum", "done", "returned"}
        /\ Exclusive(n) /\ NoOverflow(n)
        => /\ allocated[n][r] <= Capacity[n][r]
           /\ demand[n][r] > Capacity[n][r] =>
                  allocated[n][r] > Capacity[n][r] - Cardinality(runingPodKeys(n))

\* The guarantee: where the requests on a node are within its capacity, each pod
\* gets what it requests, or all that it uses, however much the others use
\* (metrics.go:133, metrics.go:192).
GuaranteeKept ==
    \A n \in Nodes : \A r \in Resources : \A k \in runingPodKeys(n) :
        /\ pc[n] \in {"qos", "sum", "addNum", "done", "returned"}
        /\ Exclusive(n) /\ NoOverflow(n)
        /\ request[n][r] <= Capacity[n][r]
        => podsMetrics[k].alloc[r] >= Smaller(pods[n][k].request[r], Usage(n, k)[r])

\* The penalty rises only because of over-subscription: if the requests on every
\* node are within its capacity, all pods count as served in the sums of all
\* goroutines (metrics.go:304), and Estimate lowers a penalty that is not below
\* MinPenalty already (scheduler.go:165).
NoPenaltyWithoutOverload ==
    /\ \A n \in Nodes : pc[n] = "returned"
    /\ \A n \in Nodes : Exclusive(n) /\ NoOverflow(n)
    /\ \A n \in Nodes : \A r \in Resources : request[n][r] <= Capacity[n][r]
    /\ TargetQoS < 1000
    => podQoses = numPods /\ penaltyUpdated /\ penalty < MaxPenalty
=============================================================================
