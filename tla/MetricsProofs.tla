--------------------------- MODULE MetricsProofs ---------------------------
(***************************************************************************)
(* For every cluster and every interleaving of the goroutines: the types   *)
(* of Metrics, that no pod is given more than it uses, and how the capacity*)
(* of a node is divided.                                                   *)
(***************************************************************************)
EXTENDS Metrics, SumProofs

\* What is allocated in a record is within its usage.
Within(m) == \A r \in Resources : m.alloc[r] <= m.usage[r]

\* A record that a goroutine holds is written back: it must be within usage too,
\* and the rest of a resource is divided only if something is missing.
Inv ==
    /\ TypeOK
    /\ \A k \in Keys : Within(podsMetrics[k])
    /\ \A n \in Nodes : Within(record[n])
    /\ \A n \in Nodes : pc[n] = "extra" => d[n] > 0
    /\ \A n \in Nodes : todo[n] \subseteq runingPodKeys(n)

-----------------------------------------------------------------------------
(* Arithmetic.                                                             *)

\* Integers of Word values are integers.
LEMMA WrapType == \A x \in Int : Wrap(x) \in Int
BY WordAssumption DEF Wrap

\* The quotient of Go is an integer.
LEMMA QuotientType == \A x \in Int, y \in Nat \ {0} : Quotient(x, y) \in Int
<1> SUFFICES ASSUME NEW x \in Int, NEW y \in Nat \ {0} PROVE Quotient(x, y) \in Int
  OBVIOUS
<1>1. CASE x >= 0
  BY <1>1 DEF Quotient
<1>2. CASE ~(x >= 0)
  BY <1>2 DEF Quotient
<1> QED BY <1>1, <1>2

\* The metrics of a pod are a record, in which usage is allocated.
LEMMA MetricsType ==
    ASSUME TypeOK, NEW n \in Nodes, NEW k \in runingPodKeys(n)
    PROVE  /\ Metrics(n, k) \in Record /\ Within(Metrics(n, k))
           /\ Usage(n, k) \in [Resources -> Nat]
           /\ pods[n][k].request \in [Resources -> Nat]
<1>1. pods[n][k] \in Pod
  BY ClusterAssumption DEF TypeOK, runingPodKeys
<1>2. Usage(n, k) \in [Resources -> Nat]
  BY <1>1 DEF Usage, Pod, Zero
<1>3. Metrics(n, k) \in Record
  BY <1>1, <1>2 DEF Metrics, Record, Pod, Amounts
<1>4. \A r \in Resources : Usage(n, k)[r] <= Usage(n, k)[r]
  BY <1>2
<1> QED BY <1>1, <1>2, <1>3, <1>4 DEF Within, Metrics, Pod

\* A guarantee is an integer within the usage of the record read.
LEMMA GuaranteeWithin ==
    ASSUME TypeOK, NEW n \in Nodes
    PROVE  guarantee(n) \in Int /\ guarantee(n) <= record[n].usage[res[n]]
<1> DEFINE p == record[n].request[res[n]]
           u == record[n].usage[res[n]]
           R == request[n][res[n]]
           C == Capacity[n][res[n]]
           q == Quotient(Wrap(C * p), R)
<1>1. p \in Nat /\ u \in Nat /\ R \in Nat /\ C \in Nat
  BY CapacityAssumption DEF TypeOK, Record
<1>2. CASE R = 0
  BY <1>1, <1>2 DEF guarantee
<1>3. CASE R # 0
  <2>1. C * p \in Int
    BY <1>1
  <2>2. q \in Int
    BY <1>1, <1>3, <2>1, WrapType, QuotientType
  <2>3. guarantee(n) = Smaller(u, Smaller(q, p))
    BY <1>3 DEF guarantee
  <2> HIDE DEF p, u, q
  <2>4. guarantee(n) \in Int /\ guarantee(n) <= u
    BY <1>1, <2>2, <2>3 DEF Smaller
  <2> QED BY <2>4 DEF u
<1> QED BY <1>2, <1>3

\* An extra added to the allocation of the record read stays within its usage.
LEMMA ExtraWithin ==
    ASSUME TypeOK, NEW n \in Nodes, Within(record[n]), d[n] > 0
    PROVE  /\ extra(n) \in Int
           /\ record[n].alloc[res[n]] + extra(n) <= record[n].usage[res[n]]
<1> DEFINE u == record[n].usage[res[n]]
           al == record[n].alloc[res[n]]
           missing == Larger(u - al, 0)
           part == IF res[n] = "MilliCPU" THEN Wrap(c[n] * missing) ELSE c[n] * missing
           q == Quotient(part, d[n])
<1>1. u \in Nat /\ al \in Int /\ al <= u /\ c[n] \in Int /\ d[n] \in Nat \ {0}
  BY DEF TypeOK, Record, Amounts, Within
<1>2. missing = u - al /\ missing \in Int
  BY <1>1 DEF Larger
<1>3. part \in Int
  <2>1. c[n] * missing \in Int
    BY <1>1, <1>2
  <2> QED BY <2>1, WrapType
<1>4. q \in Int
  BY <1>1, <1>3, QuotientType
<1>5. extra(n) = Smaller(q, missing)
  BY DEF extra
<1> HIDE DEF u, al, missing, q
<1>6. extra(n) \in Int /\ al + extra(n) <= u
  BY <1>1, <1>2, <1>4, <1>5 DEF Smaller
<1> QED BY <1>6 DEF al, u

-----------------------------------------------------------------------------
(* The invariant.                                                          *)

LEMMA InitInv == Init => Inv
<1> SUFFICES ASSUME Init PROVE Inv
  OBVIOUS
<1>1. Zero \in [Resources -> Nat] /\ NoRecord \in Record /\ Within(NoRecord)
  BY DEF Zero, NoRecord, Record, Amounts, Within
<1>2. \A n \in Nodes : runingPodKeys(n) \in SUBSET Keys
  BY ClusterAssumption DEF Init, runingPodKeys
<1>3. TypeOK
  BY <1>1, <1>2, PenaltyAssumption DEF Init, TypeOK, Stages, Resources, Amounts
<1> QED BY <1>1, <1>3 DEF Init, Inv

\* A stage begins over all pods of the node.
LEMMA ContinueInv ==
    ASSUME Inv, NEW n \in Nodes, NEW stage \in Stages, NEW r \in Resources,
           Continue(n, stage, r),
           c' \in [Nodes -> Int], d' \in [Nodes -> Int],
           \A m \in Nodes : d'[m] = d[m] \/ (m = n /\ stage # "extra"),
           stage = "extra" => d[n] > 0
    PROVE  Inv'
<1>1. runingPodKeys(n) \in SUBSET Keys
  BY ClusterAssumption DEF Inv, TypeOK, runingPodKeys
<1>2. TypeOK'
  BY <1>1 DEF Continue, Inv, TypeOK, totalVars, sumVars, estimateVars
<1>3. \A m \in Nodes : pc'[m] = "extra" => d'[m] > 0
  BY DEF Continue, Inv, TypeOK
<1>4. \A m \in Nodes : todo'[m] \subseteq runingPodKeys(m)'
  BY DEF Continue, Inv, TypeOK, runingPodKeys
<1> QED BY <1>2, <1>3, <1>4 DEF Continue, Inv, Within

LEMMA NextResourceInv ==
    ASSUME Inv, NEW n \in Nodes, NextResource(n), UNCHANGED <<c, d>>
    PROVE  Inv'
<1>1. c' \in [Nodes -> Int] /\ d' \in [Nodes -> Int] /\ \A m \in Nodes : d'[m] = d[m]
  BY DEF Inv, TypeOK
<1>2. {"share", "qos"} \subseteq Stages /\ "Memory" \in Resources
  BY DEF Stages, Resources
<1>3. CASE Continue(n, "share", "Memory")
  BY <1>1, <1>2, <1>3, ContinueInv
<1>4. CASE Continue(n, "qos", "Memory")
  BY <1>1, <1>2, <1>4, ContinueInv
<1> QED BY <1>3, <1>4 DEF NextResource

\* A record within usage is written back.
LEMMA WriteInv ==
    ASSUME Inv, NEW n \in Nodes, NEW alloc \in Int, Write(n, alloc),
           cur[n] # NoKey, alloc <= record[n].usage[res[n]],
           c' \in [Nodes -> Int], d' \in [Nodes -> Int],
           \A m \in Nodes : d'[m] = d[m] \/ (m = n /\ pc[n] # "extra")
    PROVE  Inv'
<1> DEFINE m == [record[n] EXCEPT !.alloc[res[n]] = alloc]
<1>1. m \in Record /\ Within(m)
  <2>1. record[n] \in Record /\ Within(record[n]) /\ res[n] \in Resources
    BY DEF Inv, TypeOK
  <2>2. m = [request |-> record[n].request, usage |-> record[n].usage,
             alloc |-> [record[n].alloc EXCEPT ![res[n]] = alloc]]
    BY <2>1 DEF Record
  <2>3. [record[n].alloc EXCEPT ![res[n]] = alloc] \in Amounts
    BY <2>1 DEF Record, Amounts
  <2>4. m \in Record
    BY <2>1, <2>2, <2>3 DEF Record
  <2>5. \A r \in Resources : m.alloc[r] = IF r = res[n] THEN alloc ELSE record[n].alloc[r]
    BY <2>1, <2>2 DEF Record, Amounts
  <2> QED BY <2>1, <2>2, <2>4, <2>5 DEF Within
<1>2. NoRecord \in Record /\ Within(NoRecord)
  BY DEF Zero, NoRecord, Record, Amounts, Within
<1>3. cur[n] \in Keys
  BY DEF Inv, TypeOK
<1>4. podsMetrics' = [podsMetrics EXCEPT ![cur[n]] = m]
  BY DEF Write
<1> HIDE DEF m
<1>5. podsMetrics' \in [Keys -> Record] /\ \A k \in Keys : Within(podsMetrics'[k])
  BY <1>1, <1>3, <1>4 DEF Inv, TypeOK
<1>6. record' \in [Nodes -> Record] /\ \A x \in Nodes : Within(record'[x])
  BY <1>2 DEF Inv, TypeOK, Write
<1>7. cur' \in [Nodes -> Keys \cup {NoKey}]
  BY DEF Inv, TypeOK, Write
<1>8. TypeOK'
  BY <1>5, <1>6, <1>7 DEF Inv, TypeOK, Write, totalVars, sumVars, estimateVars
<1>9. \A x \in Nodes : pc'[x] = "extra" => d'[x] > 0
  BY DEF Inv, TypeOK, Write
<1>10. \A x \in Nodes : todo'[x] \subseteq runingPodKeys(x)'
  BY DEF Write, Inv, TypeOK, runingPodKeys
<1> QED BY <1>5, <1>6, <1>8, <1>9, <1>10 DEF Inv, Within

LEMMA NextNodeInv ==
    ASSUME Inv, NEW n \in Nodes, NextNode(n)
    PROVE  Inv'
<1> USE DEF totalVars, sumVars, estimateVars
<1>0. c \in [Nodes -> Int] /\ d \in [Nodes -> Int]
  BY DEF Inv, TypeOK
<1>1. ASSUME NEW k \in Keys, AddTotals(n, k) PROVE Inv'
  <2>1. k \in runingPodKeys(n)
    BY <1>1 DEF AddTotals, Inv
  <2>2. Usage(n, k) \in [Resources -> Nat] /\ pods[n][k].request \in [Resources -> Nat]
    BY <2>1, MetricsType DEF Inv
  <2>3. demand' \in [Nodes -> [Resources -> Nat]] /\ request' \in [Nodes -> [Resources -> Nat]]
    BY <1>1, <2>2 DEF AddTotals, Inv, TypeOK
  <2>4. TypeOK'
    BY <1>1, <2>3 DEF AddTotals, Inv, TypeOK
  <2> QED BY <1>1, <2>4 DEF AddTotals, Inv, TypeOK, Within, runingPodKeys
<1>2. CASE EndTotals(n)
  BY <1>0, <1>2, ContinueInv DEF EndTotals, Stages, Resources
<1>3. ASSUME NEW k \in Keys, Put(n, k) PROVE Inv'
  <2>1. k \in runingPodKeys(n)
    BY <1>3 DEF Put, Inv
  <2>2. Metrics(n, k) \in Record /\ Within(Metrics(n, k))
    BY <2>1, MetricsType DEF Inv
  <2>3. podsMetrics' \in [Keys -> Record] /\ \A j \in Keys : Within(podsMetrics'[j])
    BY <1>3, <2>2 DEF Put, Inv, TypeOK
  <2>4. TypeOK'
    BY <1>3, <2>3 DEF Put, Inv, TypeOK
  <2> QED BY <1>3, <2>3, <2>4 DEF Put, Inv, TypeOK, Within, runingPodKeys
<1>4. CASE EndPut(n)
  BY <1>0, <1>4, ContinueInv DEF EndPut, Stages, Resources
<1>5. CASE whichSharePolicy(n)
  <2>1. CASE NextResource(n) /\ UNCHANGED <<c, d>>
    BY <2>1, NextResourceInv
  <2>2. CASE /\ Continue(n, "guarantee", res[n])
             /\ c' = [c EXCEPT ![n] = Capacity[n][res[n]]]
             /\ d' = [d EXCEPT ![n] = demand[n][res[n]]]
    <3>1. Capacity[n][res[n]] \in Int /\ demand[n][res[n]] \in Int /\ res[n] \in Resources
      BY CapacityAssumption DEF Inv, TypeOK
    <3>2. c' \in [Nodes -> Int] /\ d' \in [Nodes -> Int]
      BY <1>0, <2>2, <3>1
    <3>3. \A m \in Nodes : d'[m] = d[m] \/ m = n
      BY <1>0, <2>2
    <3> QED BY <2>2, <3>1, <3>2, <3>3, ContinueInv DEF Stages
  <2> QED BY <1>5, <2>1, <2>2 DEF whichSharePolicy
<1>6. ASSUME NEW k \in Keys, Read(n, k) PROVE Inv'
  <2>1. record' \in [Nodes -> Record] /\ \A m \in Nodes : Within(record'[m])
    BY <1>6 DEF Read, Inv, TypeOK
  <2>2. TypeOK'
    BY <1>6, <2>1 DEF Read, Inv, TypeOK
  <2> QED BY <1>6, <2>1, <2>2 DEF Read, Inv, TypeOK, Within, runingPodKeys
<1>7. CASE WriteGuarantee(n)
  <2>1. guarantee(n) \in Int /\ guarantee(n) <= record[n].usage[res[n]]
    BY GuaranteeWithin DEF Inv
  <2> HIDE DEF guarantee
  <2>2. /\ c' \in [Nodes -> Int] /\ d' \in [Nodes -> Int]
        /\ \A m \in Nodes : d'[m] = d[m] \/ m = n
    BY <1>0, <1>7, <2>1 DEF WriteGuarantee
  <2>3. Write(n, guarantee(n)) /\ cur[n] # NoKey /\ pc[n] # "extra"
    BY <1>7 DEF WriteGuarantee
  <2> QED BY <2>1, <2>2, <2>3, WriteInv
<1>8. CASE EndGuarantee(n)
  <2>1. CASE d[n] > 0 /\ Continue(n, "extra", res[n]) /\ UNCHANGED <<c, d>>
    <3>1. res[n] \in Resources
      BY DEF Inv, TypeOK
    <3> QED BY <1>0, <2>1, <3>1, ContinueInv DEF Stages
  <2>2. CASE NextResource(n) /\ UNCHANGED <<c, d>>
    BY <2>2, NextResourceInv
  <2> QED BY <1>8, <2>1, <2>2 DEF EndGuarantee
<1>9. CASE WriteExtra(n)
  <2>1. Within(record[n]) /\ d[n] > 0 /\ record[n].alloc[res[n]] \in Int
    BY <1>9 DEF WriteExtra, Inv, TypeOK, Record, Amounts
  <2>2. /\ extra(n) \in Int
        /\ record[n].alloc[res[n]] + extra(n) <= record[n].usage[res[n]]
    BY <2>1, ExtraWithin DEF Inv
  <2>3. Write(n, record[n].alloc[res[n]] + extra(n)) /\ cur[n] # NoKey /\ UNCHANGED <<c, d>>
    BY <1>9 DEF WriteExtra
  <2>4. record[n].alloc[res[n]] + extra(n) \in Int
    BY <2>1, <2>2
  <2> QED BY <1>0, <2>2, <2>3, <2>4, WriteInv
<1>10. CASE EndExtra(n)
  BY <1>10, NextResourceInv DEF EndExtra
<1>11. ASSUME NEW k \in Keys, CountQoS(n, k) PROVE Inv'
  <2>1. qos' \in [Nodes -> Nat]
    BY <1>11 DEF CountQoS, Inv, TypeOK
  <2>2. TypeOK'
    BY <1>11, <2>1 DEF CountQoS, Inv, TypeOK
  <2> QED BY <1>11, <2>2 DEF CountQoS, Inv, TypeOK, Within, runingPodKeys
<1>12. CASE EndQoS(n)
  BY <1>0, <1>12, ContinueInv DEF EndQoS, Stages, Resources
<1>13. ASSUME NEW k \in Keys, SumAllocation(n, k) PROVE Inv'
  <2>1. allocated' \in [Nodes -> Amounts]
    BY <1>13 DEF SumAllocation, Inv, TypeOK, Record, Amounts
  <2>2. TypeOK'
    BY <1>13, <2>1 DEF SumAllocation, Inv, TypeOK
  <2> QED BY <1>13, <2>2 DEF SumAllocation, Inv, TypeOK, Within, runingPodKeys
<1>14. CASE AddQoS(n)
  <2>1. TypeOK'
    BY <1>14 DEF AddQoS, Inv, TypeOK, Stages
  <2> QED BY <1>14, <2>1 DEF AddQoS, Inv, TypeOK, Within, runingPodKeys
<1>15. CASE AddNum(n)
  <2>1. Cardinality(runingPodKeys(n)) \in Nat
    BY ClusterAssumption, FS_CardinalityType DEF Inv, TypeOK, runingPodKeys
  <2>2. TypeOK'
    BY <1>15, <2>1 DEF AddNum, Inv, TypeOK, Stages
  <2> QED BY <1>15, <2>2 DEF AddNum, Inv, TypeOK, Within, runingPodKeys
<1> QED BY <1>1, <1>2, <1>3, <1>4, <1>5, <1>6, <1>7, <1>8, <1>9, <1>10, <1>11, <1>12,
           <1>13, <1>14, <1>15 DEF NextNode

LEMMA EstimateInv == ASSUME Inv, Estimate PROVE Inv'
<1> USE DEF totalVars, sumVars, estimateVars
<1>1. QualityOfService \in Int
  BY DEF Inv, TypeOK, QualityOfService
<1> HIDE DEF QualityOfService
<1>2. penalty' \in Int /\ penaltyUpdated' \in BOOLEAN /\ prevQoS' \in Int
  <2>1. penalty \in Int /\ penaltyUpdated \in BOOLEAN
    BY DEF Inv, TypeOK
  <2>2. /\ Smaller(penalty + (penalty - 1000), MaxPenalty) \in Int
        /\ Larger((penalty * 99) \div 100, MinPenalty) \in Int
    BY <2>1 DEF Smaller, Larger, MaxPenalty, MinPenalty
  <2>3. penalty' \in {Smaller(penalty + (penalty - 1000), MaxPenalty),
                      Larger((penalty * 99) \div 100, MinPenalty), penalty}
    BY DEF Estimate
  <2>4. penaltyUpdated' \in BOOLEAN
    BY <2>1, Zenon DEF Estimate
  <2> QED BY <1>1, <2>1, <2>2, <2>3, <2>4 DEF Estimate
<1>3. estimate' \in [Nodes -> Amounts]
  <2>1. (penalty' \div 10) \in Int
    BY <1>2
  <2>2. \A n \in Nodes, r \in Resources :
           (demand[n][r] * (penalty' \div 10)) \div 100 \in Int
    BY <2>1 DEF Inv, TypeOK
  <2> QED BY <2>2 DEF Estimate, Amounts
<1>4. pc' \in [Nodes -> Stages] /\ \A n \in Nodes : pc'[n] # "extra"
  BY DEF Estimate, Stages
<1>5. TypeOK'
  BY <1>2, <1>3, <1>4 DEF Estimate, Inv, TypeOK
<1> QED BY <1>4, <1>5 DEF Estimate, Inv, TypeOK, Within, runingPodKeys

LEMMA StutterInv == ASSUME Inv, UNCHANGED vars PROVE Inv'
BY DEF Inv, TypeOK, Within, runingPodKeys, vars, totalVars, sumVars, goroutineVars, estimateVars

LEMMA AlwaysInv == Spec => []Inv
<1>1. Inv /\ [Next]_vars => Inv'
  BY NextNodeInv, EstimateInv, StutterInv DEF Next
<1> QED BY InitInv, <1>1, PTL DEF Spec

\* Types of the variables of BuildMetrics and of its goroutines (metrics.go:245).
THEOREM MetricsTypeCorrect == Spec => []TypeOK
<1>1. Inv => TypeOK
  BY DEF Inv
<1> QED BY <1>1, AlwaysInv, PTL

\* No pod is given more than it uses, in any interleaving of the goroutines, with
\* any names shared between nodes and any overflow (metrics.go:128 to 237).
THEOREM MetricsAllocationWithinUsage == Spec => []AllocationWithinUsage
<1>1. Inv => AllocationWithinUsage
  BY DEF Inv, AllocationWithinUsage, Within
<1> QED BY <1>1, AlwaysInv, PTL


-----------------------------------------------------------------------------
(* Sums over the pods of a node.  The invariant below is about nodes whose *)
(* names are on no other, without overflow, whatever the other goroutines  *)
(* do: they divide its capacity, keep the guarantee, and raise no penalty  *)
(* without overload.                                                       *)

\* What the pods of a node use, what those count with that request it, and what
\* is allocated to them.
Uses(n, r) == [k \in runingPodKeys(n) |-> Usage(n, k)[r]]
Requests(n, r) ==
    [k \in runingPodKeys(n) |-> IF pods[n][k].active THEN pods[n][k].request[r] ELSE 0]
Allocs(n, r) == [k \in runingPodKeys(n) |-> podsMetrics[k].alloc[r]]

-----------------------------------------------------------------------------
(* The invariant.                                                          *)

Sole(n) == Exclusive(n) /\ NoOverflow(n)

\* The pods of the stage that are not dealt with, and those that are.
Rest(n) == todo[n] \cup ({cur[n]} \ {NoKey})
Dealt(n) == runingPodKeys(n) \ Rest(n)

Sharing == {"share", "guarantee", "extra"}
Shared == {"qos", "sum", "addNum", "done", "returned"}

\* A resource that is shared already; one that is not, for a pod.
Final(n, r) == pc[n] \in Shared \/ (pc[n] \in Sharing /\ res[n] = "Memory" /\ r = "MilliCPU")
Fresh(n, k, r) ==
    \/ pc[n] = "put"
    \/ pc[n] \in Sharing /\ res[n] = "MilliCPU" /\ r = "Memory"
    \/ pc[n] = "share" /\ r = res[n]
    \/ pc[n] = "guarantee" /\ r = res[n] /\ k \in Rest(n)

\* A goroutine holds a pod of its node.
Holds(n) ==
    /\ cur[n] # NoKey =>
           /\ pc[n] \in {"guarantee", "extra"}
           /\ cur[n] \in runingPodKeys(n) /\ cur[n] \notin todo[n]
    /\ pc[n] \in {"total", "put"} => res[n] = "MilliCPU"

\* The totals of the node are sums over its pods.
Totals(n) ==
    LET counted == IF pc[n] = "total" THEN Dealt(n) ELSE runingPodKeys(n) IN
    \A r \in Resources :
        /\ demand[n][r] = SumOf(counted, Uses(n, r))
        /\ request[n][r] = SumOf(counted, Requests(n, r))

\* The records of a node with names of its own.
Entered(n, k) == pc[n] # "total" /\ ~(pc[n] = "put" /\ k \in todo[n])
Records(n) ==
    /\ cur[n] # NoKey => record[n] = podsMetrics[cur[n]]
    /\ \A k \in runingPodKeys(n) : Entered(n, k) =>
          /\ podsMetrics[k].request = pods[n][k].request
          /\ podsMetrics[k].usage = Usage(n, k)
          /\ \A r \in Resources :
                /\ podsMetrics[k].alloc[r] >= 0
                /\ Fresh(n, k, r) => podsMetrics[k].alloc[r] = Usage(n, k)[r]
                /\ request[n][r] <= Capacity[n][r] =>
                      podsMetrics[k].alloc[r] >= Smaller(pods[n][k].request[r], Usage(n, k)[r])

\* The capacity that is left is what was not guaranteed.
Guaranteed(n) ==
    LET r == res[n]
        g == SumOf(Dealt(n), Allocs(n, r)) IN
    pc[n] = "guarantee" =>
        /\ demand[n][r] > Capacity[n][r]
        /\ c[n] = Capacity[n][r] - g /\ d[n] = demand[n][r] - g
        /\ IF request[n][r] = 0
           THEN g = 0
           ELSE request[n][r] * g <= Capacity[n][r] * SumOf(Dealt(n), Requests(n, r))

\* The extras given are the parts of c of what was missing, each rounded down.
Extras(n) ==
    LET r == res[n]
        given == SumOf(runingPodKeys(n), Allocs(n, r)) - (Capacity[n][r] - c[n])
        missing == SumOf(Rest(n), Uses(n, r)) - SumOf(Rest(n), Allocs(n, r)) IN
    pc[n] = "extra" =>
        /\ c[n] > 0 /\ c[n] <= Capacity[n][r] /\ d[n] > c[n]
        /\ d[n] - c[n] = demand[n][r] - Capacity[n][r]
        /\ d[n] * given <= c[n] * (d[n] - missing)
        /\ d[n] * given >= c[n] * (d[n] - missing) - (d[n] - 1) * Cardinality(Dealt(n))

Divided(n) ==
    \A r \in Resources : Final(n, r) =>
        /\ SumOf(runingPodKeys(n), Allocs(n, r)) <= Capacity[n][r]
        /\ demand[n][r] > Capacity[n][r] =>
              SumOf(runingPodKeys(n), Allocs(n, r))
                  > Capacity[n][r] - Cardinality(runingPodKeys(n))

Allocated(n) ==
    \A r \in Resources :
        allocated[n][r] = IF pc[n] \in {"addNum", "done", "returned"}
                          THEN SumOf(runingPodKeys(n), Allocs(n, r))
                          ELSE IF pc[n] = "sum" THEN SumOf(Dealt(n), Allocs(n, r)) ELSE 0

NodeInv(n) ==
    /\ Holds(n) /\ Totals(n)
    /\ Sole(n) => Records(n) /\ Guaranteed(n) /\ Extras(n) /\ Divided(n) /\ Allocated(n)

-----------------------------------------------------------------------------
(* Arithmetic of shares.  A quotient q of a * b by e is such that          *)
(* e * q <= a * b < e * q + e.                                             *)

LEMMA Products ==
    ASSUME NEW a \in Nat, NEW b \in Nat PROVE a * b \in Nat /\ a * b >= 0
OBVIOUS

LEMMA DivBounds ==
    ASSUME NEW a \in Nat, NEW e \in Nat \ {0}
    PROVE  /\ a \div e \in Nat
           /\ e * (a \div e) <= a /\ e * (a \div e) > a - e
OBVIOUS

\* Products are monotone, and strictly so.
LEMMA ProductLe ==
    ASSUME NEW e \in Nat, NEW a \in Int, NEW b \in Int, a <= b
    PROVE  e * a <= e * b
<1>1. e * (b - a) >= 0 /\ e * (b - a) = e * b - e * a
  OBVIOUS
<1> QED BY <1>1

LEMMA ProductCancel ==
    ASSUME NEW e \in Nat \ {0}, NEW a \in Int, NEW b \in Int, e * a <= e * b
    PROVE  a <= b
<1> SUFFICES ASSUME a >= b + 1 PROVE FALSE
  OBVIOUS
<1>1. e * (b + 1) <= e * a
  BY ProductLe
<1>2. e * (b + 1) = e * b + e
  OBVIOUS
<1>3. e * a \in Int /\ e * b \in Int
  OBVIOUS
<1> QED BY <1>1, <1>2, <1>3

\* A part of the capacity C is at least the request, if all requests are within it.
LEMMA PartCovers ==
    ASSUME NEW C \in Nat, NEW p \in Nat, NEW R \in Nat \ {0}, R <= C
    PROVE  (C * p) \div R >= p
<1>1. C * p \in Nat
  OBVIOUS
<1>2. p * R <= p * C
  BY ProductLe
<1>3. R * ((C * p) \div R) > C * p - R /\ (C * p) \div R \in Nat
  BY <1>1, DivBounds
<1>4. C * p = p * C /\ p * R = R * p
  OBVIOUS
<1> DEFINE q == (C * p) \div R
<1>5. R * (q + 1) = R * q + R
  BY <1>3
<1> HIDE DEF q
<1> SUFFICES ASSUME q + 1 <= p PROVE FALSE
  BY <1>3 DEF q
<1>6. R * (q + 1) <= R * p
  BY <1>3, ProductLe DEF q
<1>7. R * q \in Int /\ R * p \in Int /\ C * p \in Int
  BY <1>3 DEF q
<1> QED BY <1>2, <1>3, <1>4, <1>5, <1>6, <1>7 DEF q

\* What is guaranteed in all stays a part of the capacity.
LEMMA GuaranteeStep ==
    ASSUME NEW C \in Nat, NEW R \in Nat \ {0}, NEW g \in Nat, NEW P \in Nat,
           NEW p \in Nat, NEW x \in Nat,
           R * g <= C * P, x <= (C * p) \div R
    PROVE  R * (g + x) <= C * (P + p)
<1>1. C * p \in Nat /\ C * P \in Nat /\ R * g \in Nat /\ R * x \in Nat
  OBVIOUS
<1>2. (C * p) \div R \in Nat /\ R * ((C * p) \div R) <= C * p
  BY <1>1, DivBounds
<1>3. R * x <= R * ((C * p) \div R)
  BY <1>2, ProductLe
<1>4. R * (g + x) = R * g + R * x /\ C * (P + p) = C * P + C * p
  OBVIOUS
<1>5. R * ((C * p) \div R) \in Int
  BY <1>2
<1> QED BY <1>1, <1>2, <1>3, <1>4, <1>5

\* The extra of one pod: its part of a, of what was missing in all, rounded down.
LEMMA ExtraStep ==
    ASSUME NEW a \in Nat, NEW e \in Nat \ {0}, NEW given \in Int, NEW served \in Int,
           NEW m \in Nat, NEW n \in Nat,
           e * given <= a * served, e * given >= a * served - (e - 1) * n
    PROVE  LET q == (a * m) \div e IN
           /\ e * (given + q) <= a * (served + m)
           /\ e * (given + q) >= a * (served + m) - (e - 1) * (n + 1)
<1> DEFINE q == (a * m) \div e
<1>1. a * m \in Nat
  OBVIOUS
<1>2. q \in Nat /\ e * q <= a * m /\ e * q > a * m - e
  BY <1>1, DivBounds
<1> HIDE DEF q
<1>3. e * (given + q) = e * given + e * q
  BY <1>2
<1>4. a * (served + m) = a * served + a * m
  OBVIOUS
<1>5. (e - 1) * (n + 1) = (e - 1) * n + (e - 1)
  OBVIOUS
<1>6. e * given \in Int /\ a * served \in Int /\ (e - 1) * n \in Int /\ e * q \in Int
  BY <1>2
<1>7. e * (given + q) <= a * (served + m) /\ e * (given + q) >= a * (served + m) - (e - 1) * (n + 1)
  BY <1>1, <1>2, <1>3, <1>4, <1>5, <1>6
<1> QED BY <1>7 DEF q
-----------------------------------------------------------------------------
(* The pods of a node.                                                     *)

LEMMA NodeFacts ==
    ASSUME Inv, NEW n \in Nodes
    PROVE  /\ IsFiniteSet(runingPodKeys(n)) /\ runingPodKeys(n) \subseteq Keys
           /\ NoKey \notin runingPodKeys(n) /\ Cardinality(runingPodKeys(n)) \in Nat
           /\ \A r \in Resources :
                 /\ demand[n][r] \in Nat /\ request[n][r] \in Nat /\ Capacity[n][r] \in Nat
                 /\ \A k \in runingPodKeys(n) :
                       /\ Usage(n, k)[r] \in Nat /\ Uses(n, r)[k] = Usage(n, k)[r]
                       /\ pods[n][k].request[r] \in Nat /\ Requests(n, r)[k] \in Nat
                       /\ Requests(n, r)[k] = IF pods[n][k].active THEN pods[n][k].request[r] ELSE 0
                       /\ Allocs(n, r)[k] = podsMetrics[k].alloc[r]
                       /\ podsMetrics[k].alloc[r] \in Int
                       /\ podsMetrics[k].alloc[r] <= podsMetrics[k].usage[r]
<1>1. IsFiniteSet(runingPodKeys(n)) /\ runingPodKeys(n) \subseteq Keys
  BY ClusterAssumption DEF Inv, TypeOK, runingPodKeys
<1>2. NoKey \notin runingPodKeys(n) /\ Cardinality(runingPodKeys(n)) \in Nat
  BY <1>1, NoKeyAssumption, FS_CardinalityType
<1>3. ASSUME NEW r \in Resources
      PROVE  demand[n][r] \in Nat /\ request[n][r] \in Nat /\ Capacity[n][r] \in Nat
  BY CapacityAssumption DEF Inv, TypeOK
<1>4. ASSUME NEW r \in Resources, NEW k \in runingPodKeys(n)
      PROVE  /\ Usage(n, k)[r] \in Nat /\ Uses(n, r)[k] = Usage(n, k)[r]
             /\ pods[n][k].request[r] \in Nat /\ Requests(n, r)[k] \in Nat
             /\ Requests(n, r)[k] = IF pods[n][k].active THEN pods[n][k].request[r] ELSE 0
             /\ Allocs(n, r)[k] = podsMetrics[k].alloc[r]
             /\ podsMetrics[k].alloc[r] \in Int
             /\ podsMetrics[k].alloc[r] <= podsMetrics[k].usage[r]
  <2>1. Usage(n, k)[r] \in Nat /\ pods[n][k].request[r] \in Nat
    BY MetricsType DEF Inv
  <2>2. /\ podsMetrics[k].alloc[r] \in Int
        /\ podsMetrics[k].alloc[r] <= podsMetrics[k].usage[r]
    BY <1>1 DEF Inv, TypeOK, Record, Amounts, Within
  <2> QED BY <2>1, <2>2 DEF Uses, Requests, Allocs
<1> QED BY <1>1, <1>2, <1>3, <1>4

LEMMA Partition ==
    ASSUME Inv, NEW n \in Nodes, Holds(n)
    PROVE  /\ Rest(n) \subseteq runingPodKeys(n) /\ Dealt(n) \subseteq runingPodKeys(n)
           /\ IsFiniteSet(Rest(n)) /\ IsFiniteSet(Dealt(n)) /\ Cardinality(Dealt(n)) \in Nat
           /\ cur[n] = NoKey => Rest(n) = todo[n]
           /\ Rest(n) = {} => Dealt(n) = runingPodKeys(n)
<1>1. Rest(n) \subseteq runingPodKeys(n) /\ Dealt(n) \subseteq runingPodKeys(n)
  BY DEF Inv, Holds, Rest, Dealt
<1>2. IsFiniteSet(Rest(n)) /\ IsFiniteSet(Dealt(n))
  BY <1>1, NodeFacts, FS_Subset
<1> QED BY <1>1, <1>2, FS_CardinalityType DEF Rest, Dealt

\* A pod that is dealt with.
LEMMA DealtWith ==
    ASSUME Inv, NEW n \in Nodes, Holds(n), NEW k \in Rest(n), pods' = pods,
           Rest(n)' = Rest(n) \ {k}
    PROVE  Dealt(n)' = Dealt(n) \cup {k} /\ k \notin Dealt(n) /\ k \in runingPodKeys(n)
BY Partition DEF Dealt, runingPodKeys

\* Nothing that is said of a node depends on other nodes.
LEMMA Untouched ==
    ASSUME Inv, NEW n \in Nodes, NodeInv(n), pods' = pods,
           pc'[n] = pc[n], res'[n] = res[n], todo'[n] = todo[n], cur'[n] = cur[n],
           record'[n] = record[n], c'[n] = c[n], d'[n] = d[n], allocated'[n] = allocated[n],
           demand'[n] = demand[n], request'[n] = request[n],
           Sole(n) => \A k \in runingPodKeys(n) : podsMetrics'[k] = podsMetrics[k]
    PROVE  NodeInv(n)'
<1>1. /\ runingPodKeys(n)' = runingPodKeys(n) /\ Sole(n)' = Sole(n)
      /\ Rest(n)' = Rest(n) /\ Dealt(n)' = Dealt(n)
  BY DEF runingPodKeys, Sole, Exclusive, NoOverflow, Rest, Dealt
<1>2. /\ \A r \in Resources : Uses(n, r)' = Uses(n, r) /\ Requests(n, r)' = Requests(n, r)
      /\ \A k : Usage(n, k)' = Usage(n, k) /\ Entered(n, k)' = Entered(n, k)
      /\ \A k, r : Fresh(n, k, r)' = Fresh(n, k, r) /\ Final(n, r)' = Final(n, r)
  BY <1>1 DEF Uses, Requests, Usage, runingPodKeys, Entered, Fresh, Final
<1>3. Holds(n)'
  BY <1>1 DEF NodeInv, Holds
<1>4. Totals(n)'
  BY <1>1, <1>2 DEF NodeInv, Totals
<1>5. ASSUME Sole(n)
      PROVE  (Records(n) /\ Guaranteed(n) /\ Extras(n) /\ Divided(n) /\ Allocated(n))'
  <2>1. \A r \in Resources : Allocs(n, r)' = Allocs(n, r)
    BY <1>1, <1>5 DEF Allocs
  <2>2. Records(n)'
    BY <1>1, <1>2, <1>5 DEF NodeInv, Records, Holds
  <2>3. res[n] \in Resources
    BY DEF Inv, TypeOK
  <2>4. Guaranteed(n)'
    BY <1>1, <1>2, <1>5, <2>1, <2>3 DEF NodeInv, Guaranteed
  <2>5. Extras(n)'
    BY <1>1, <1>2, <1>5, <2>1, <2>3 DEF NodeInv, Extras
  <2>6. Divided(n)'
    BY <1>1, <1>2, <1>5, <2>1 DEF NodeInv, Divided
  <2>7. Allocated(n)'
    BY <1>1, <1>5, <2>1 DEF NodeInv, Allocated
  <2> QED BY <2>2, <2>4, <2>5, <2>6, <2>7
<1> QED BY <1>1, <1>3, <1>4, <1>5 DEF NodeInv
-----------------------------------------------------------------------------
(* Steps of a goroutine that begin a stage.                                *)

LEMMA InitNode == ASSUME Init, NEW n \in Nodes PROVE NodeInv(n)
<1>1. Inv
  BY InitInv
<1>2. /\ pc[n] = "total" /\ res[n] = "MilliCPU" /\ cur[n] = NoKey
      /\ todo[n] = runingPodKeys(n) /\ Dealt(n) = {}
  BY DEF Init, Dealt, Rest
<1>3. Totals(n)
  <2>1. \A r \in Resources : demand[n][r] = 0 /\ request[n][r] = 0
    BY DEF Init, Zero
  <2> QED BY <1>2, <2>1, SumEmpty DEF Totals
<1>4. Records(n) /\ Guaranteed(n) /\ Extras(n) /\ Divided(n)
  BY <1>2 DEF Records, Entered, Guaranteed, Extras, Divided, Final, Shared, Sharing
<1>5. Allocated(n)
  BY <1>2 DEF Allocated, Init, Zero
<1> QED BY <1>2, <1>3, <1>4, <1>5 DEF NodeInv, Holds

\* All that does not depend on the stage is kept when a stage begins, and the
\* records are, if no more is said of them than before.
LEMMA ContinueKeeps ==
    ASSUME Inv, NEW n \in Nodes, NodeInv(n), cur[n] = NoKey,
           NEW stage \in Stages \ {"total"}, NEW r \in Resources, Continue(n, stage, r),
           pc[n] = "total" => todo[n] = {},
           stage = "put" => r = "MilliCPU"
    PROVE  /\ pc'[n] = stage /\ res'[n] = r /\ Dealt(n)' = {} /\ Rest(n)' = runingPodKeys(n)
           /\ runingPodKeys(n)' = runingPodKeys(n)
           /\ Sole(n)' = Sole(n) /\ Holds(n)' /\ Totals(n)'
           /\ \A q \in Resources : /\ Allocs(n, q)' = Allocs(n, q)
                                   /\ Uses(n, q)' = Uses(n, q)
                                   /\ Requests(n, q)' = Requests(n, q)
           /\ \/ pc[n] = "total" /\ stage = "put"
              \/ pc[n] = "put" /\ todo[n] = {} /\ stage # "put"
              \/ pc[n] \notin {"total", "put"} /\ stage # "put"
              => /\ Sole(n) =>
                    ((\A k \in runingPodKeys(n), q \in Resources :
                        Fresh(n, k, q)' => Fresh(n, k, q))
                     => Records(n)')
<1>1. pc'[n] = stage /\ res'[n] = r /\ todo'[n] = runingPodKeys(n) /\ cur'[n] = NoKey
  BY DEF Continue, Inv, TypeOK
<1>2. runingPodKeys(n)' = runingPodKeys(n) /\ Sole(n)' = Sole(n)
  BY DEF Continue, runingPodKeys, Sole, Exclusive, NoOverflow
<1>3. Dealt(n)' = {} /\ Rest(n)' = runingPodKeys(n)
  BY <1>1, <1>2 DEF Dealt, Rest
<1>4. Holds(n)'
  BY <1>1 DEF Holds
<1>5. \A q \in Resources : /\ Allocs(n, q)' = Allocs(n, q)
                           /\ Uses(n, q)' = Uses(n, q)
                           /\ Requests(n, q)' = Requests(n, q)
  BY DEF Allocs, Uses, Requests, Usage, Continue, runingPodKeys
<1>6. Totals(n)'
  <2>1. /\ \A q \in Resources : demand'[n][q] = demand[n][q] /\ request'[n][q] = request[n][q]
        /\ pc[n] = "total" => Dealt(n) = runingPodKeys(n)
    BY DEF Continue, totalVars, Dealt, Rest
  <2> QED BY <1>1, <1>2, <1>5, <2>1 DEF NodeInv, Totals
<1>7. ASSUME Sole(n),
             \/ pc[n] = "total" /\ stage = "put"
             \/ pc[n] = "put" /\ todo[n] = {} /\ stage # "put"
             \/ pc[n] \notin {"total", "put"} /\ stage # "put",
             \A k \in runingPodKeys(n), q \in Resources :
                Fresh(n, k, q)' => Fresh(n, k, q)
      PROVE  Records(n)'
  <2>1. \A k \in runingPodKeys(n) : Entered(n, k)' => Entered(n, k)
    BY <1>1, <1>7 DEF Entered
  <2>2. /\ podsMetrics' = podsMetrics /\ pods' = pods /\ request' = request
        /\ \A k : Usage(n, k)' = Usage(n, k)
    BY DEF Continue, totalVars, Usage
  <2> QED BY <1>1, <1>2, <1>7, <2>1, <2>2 DEF NodeInv, Records
<1> QED BY <1>1, <1>2, <1>3, <1>4, <1>5, <1>6, <1>7

\* The next resource, or the end: what is said of a resource that was divided.
LEMMA NextResourceNode ==
    ASSUME Inv, NEW n \in Nodes, NodeInv(n), cur[n] = NoKey, pc[n] \in Sharing,
           NextResource(n), UNCHANGED <<c, d>>,
           Sole(n) =>
              LET g == SumOf(runingPodKeys(n), Allocs(n, res[n])) IN
              /\ g <= Capacity[n][res[n]]
              /\ demand[n][res[n]] > Capacity[n][res[n]] =>
                    g > Capacity[n][res[n]] - Cardinality(runingPodKeys(n))
    PROVE  NodeInv(n)'
<1> DEFINE stage == IF res[n] = "MilliCPU" THEN "share" ELSE "qos"
<1>1. Continue(n, stage, "Memory") /\ stage \in Stages \ {"total", "put"}
  BY DEF NextResource, Stages
<1>2. pc[n] \notin {"total", "put"} /\ "Memory" \in Resources
  BY DEF Sharing, Resources
<1> HIDE DEF stage
<1>3. /\ pc'[n] = stage /\ res'[n] = "Memory"
      /\ runingPodKeys(n)' = runingPodKeys(n)
      /\ Sole(n)' = Sole(n) /\ Holds(n)' /\ Totals(n)'
      /\ \A q \in Resources : Allocs(n, q)' = Allocs(n, q)
      /\ Sole(n) =>
           ((\A k \in runingPodKeys(n), q \in Resources : Fresh(n, k, q)' => Fresh(n, k, q))
            => Records(n)')
  BY <1>1, <1>2, ContinueKeeps
<1>4. ASSUME Sole(n)
      PROVE  (Records(n) /\ Guaranteed(n) /\ Extras(n) /\ Divided(n) /\ Allocated(n))'
  <2>1. \A k \in runingPodKeys(n), q \in Resources : Fresh(n, k, q)' => Fresh(n, k, q)
    BY <1>3 DEF Fresh, Sharing, stage, Resources
  <2>2. Records(n)'
    BY <1>3, <1>4, <2>1
  <2>3. Guaranteed(n)' /\ Extras(n)'
    BY <1>3 DEF Guaranteed, Extras, stage
  <2>4. Divided(n)'
    <3>1. demand' = demand /\ res[n] \in Resources
      BY <1>1 DEF Continue, totalVars, Inv, TypeOK
    <3>2. \A q \in Resources : Final(n, q)' => Final(n, q) \/ q = res[n]
      BY <1>3, <3>1 DEF Final, Sharing, Shared, stage, Resources
    <3> QED BY <1>3, <1>4, <3>1, <3>2 DEF NodeInv, Divided
  <2>5. Allocated(n)'
    <3>1. allocated' = allocated
      BY <1>1 DEF Continue
    <3> QED BY <1>3, <1>4, <3>1 DEF NodeInv, Allocated, Sharing, stage
  <2> QED BY <2>2, <2>3, <2>4, <2>5
<1> QED BY <1>3, <1>4 DEF NodeInv

LEMMA EndTotalsNode == ASSUME Inv, NEW n \in Nodes, NodeInv(n), EndTotals(n) PROVE NodeInv(n)'
<1>1. /\ Continue(n, "put", "MilliCPU") /\ cur[n] = NoKey /\ pc[n] = "total" /\ todo[n] = {}
      /\ "put" \in Stages \ {"total"} /\ "MilliCPU" \in Resources
  BY DEF EndTotals, Ended, Stages, Resources
<1>2. /\ pc'[n] = "put" /\ Rest(n)' = runingPodKeys(n) /\ runingPodKeys(n)' = runingPodKeys(n)
      /\ Sole(n)' = Sole(n) /\ Holds(n)' /\ Totals(n)'
  BY <1>1, ContinueKeeps
<1>3. Records(n)'
  BY <1>1, <1>2 DEF Records, Entered, Holds, Continue, Inv, TypeOK, runingPodKeys
<1>4. (Guaranteed(n) /\ Extras(n) /\ Divided(n))'
  BY <1>2 DEF Guaranteed, Extras, Divided, Final, Sharing, Shared
<1>5. Sole(n) => Allocated(n)'
  BY <1>1, <1>2 DEF NodeInv, Allocated, Continue
<1> QED BY <1>2, <1>3, <1>4, <1>5 DEF NodeInv

LEMMA EndPutNode == ASSUME Inv, NEW n \in Nodes, NodeInv(n), EndPut(n) PROVE NodeInv(n)'
<1>1. /\ Continue(n, "share", "MilliCPU") /\ cur[n] = NoKey /\ pc[n] = "put" /\ todo[n] = {}
      /\ "share" \in Stages \ {"total"} /\ "MilliCPU" \in Resources
  BY DEF EndPut, Ended, Stages, Resources
<1>2. /\ pc'[n] = "share" /\ res'[n] = "MilliCPU" /\ runingPodKeys(n)' = runingPodKeys(n)
      /\ Sole(n)' = Sole(n) /\ Holds(n)' /\ Totals(n)'
      /\ Sole(n) =>
           ((\A k \in runingPodKeys(n), q \in Resources : Fresh(n, k, q)' => Fresh(n, k, q))
            => Records(n)')
  BY <1>1, ContinueKeeps
<1>3. \A k \in runingPodKeys(n), q \in Resources : Fresh(n, k, q)
  BY <1>1 DEF Fresh
<1>4. (Guaranteed(n) /\ Extras(n) /\ Divided(n))'
  BY <1>2 DEF Guaranteed, Extras, Divided, Final, Sharing, Shared
<1>5. Sole(n) => Allocated(n)'
  BY <1>1, <1>2 DEF NodeInv, Allocated, Continue
<1> QED BY <1>2, <1>3, <1>4, <1>5 DEF NodeInv

LEMMA EndQoSNode == ASSUME Inv, NEW n \in Nodes, NodeInv(n), EndQoS(n) PROVE NodeInv(n)'
<1>1. /\ Continue(n, "sum", "Memory") /\ cur[n] = NoKey /\ pc[n] = "qos" /\ todo[n] = {}
      /\ "sum" \in Stages \ {"total"} /\ "Memory" \in Resources
  BY DEF EndQoS, Ended, Stages, Resources
<1>2. /\ pc'[n] = "sum" /\ runingPodKeys(n)' = runingPodKeys(n) /\ Dealt(n)' = {}
      /\ Sole(n)' = Sole(n) /\ Holds(n)' /\ Totals(n)'
      /\ \A q \in Resources : Allocs(n, q)' = Allocs(n, q)
      /\ Sole(n) =>
           ((\A k \in runingPodKeys(n), q \in Resources : Fresh(n, k, q)' => Fresh(n, k, q))
            => Records(n)')
  BY <1>1, ContinueKeeps
<1>3. \A k \in runingPodKeys(n), q \in Resources : ~Fresh(n, k, q)'
  BY <1>2 DEF Fresh, Sharing
<1>4. (Guaranteed(n) /\ Extras(n))'
  BY <1>2 DEF Guaranteed, Extras
<1>5. Sole(n) => Divided(n)'
  <2>1. demand' = demand /\ \A q \in Resources : Final(n, q)
    BY <1>1 DEF Continue, totalVars, Final, Shared
  <2> QED BY <1>2, <2>1 DEF NodeInv, Divided
<1>6. Sole(n) => Allocated(n)'
  BY <1>1, <1>2, SumEmpty DEF NodeInv, Allocated, Continue
<1> QED BY <1>2, <1>3, <1>4, <1>5, <1>6 DEF NodeInv
-----------------------------------------------------------------------------
(* Steps of a goroutine that deal with a pod.                              *)

LEMMA AddTotalsNode ==
    ASSUME Inv, NEW n \in Nodes, NodeInv(n), NEW k \in Keys, AddTotals(n, k) PROVE NodeInv(n)'
<1>1. /\ pc[n] = "total" /\ pc' = pc /\ pods' = pods /\ res' = res /\ cur' = cur
      /\ k \in todo[n] /\ todo'[n] = todo[n] \ {k} /\ cur[n] = NoKey
      /\ allocated' = allocated
  BY DEF AddTotals, NodeInv, Holds, Inv, TypeOK
<1>2. /\ Rest(n)' = Rest(n) \ {k} /\ k \in Rest(n)
      /\ runingPodKeys(n)' = runingPodKeys(n) /\ Sole(n)' = Sole(n)
  BY <1>1 DEF Rest, runingPodKeys, Sole, Exclusive, NoOverflow
<1>3. Dealt(n)' = Dealt(n) \cup {k} /\ k \notin Dealt(n) /\ k \in runingPodKeys(n)
  BY <1>1, <1>2, DealtWith DEF NodeInv
<1>4. ASSUME NEW r \in Resources
      PROVE  /\ demand'[n][r] = SumOf(Dealt(n)', Uses(n, r)')
             /\ request'[n][r] = SumOf(Dealt(n)', Requests(n, r)')
  <2>1. Uses(n, r)' = Uses(n, r) /\ Requests(n, r)' = Requests(n, r)
    BY <1>1 DEF Uses, Requests, Usage, runingPodKeys
  <2>2. /\ demand'[n][r] = demand[n][r] + Uses(n, r)[k]
        /\ request'[n][r] = request[n][r] + Requests(n, r)[k]
    <3>1. /\ demand'[n] = [q \in Resources |-> demand[n][q] + Usage(n, k)[q]]
          /\ request'[n] = IF pods[n][k].active
                           THEN [q \in Resources |-> request[n][q] + pods[n][k].request[q]]
                           ELSE request[n]
      BY DEF AddTotals, Inv, TypeOK
    <3>2. /\ Uses(n, r)[k] = Usage(n, k)[r] /\ request[n][r] \in Nat
          /\ Requests(n, r)[k] = IF pods[n][k].active THEN pods[n][k].request[r] ELSE 0
      BY <1>3, NodeFacts
    <3> QED BY <3>1, <3>2
  <2>3. demand[n][r] = SumOf(Dealt(n), Uses(n, r)) /\ request[n][r] = SumOf(Dealt(n), Requests(n, r))
    BY <1>1 DEF NodeInv, Totals
  <2>4. /\ IsFiniteSet(Dealt(n)) /\ Dealt(n) \subseteq runingPodKeys(n)
        /\ \A j \in runingPodKeys(n) : Uses(n, r)[j] \in Nat /\ Requests(n, r)[j] \in Nat
    BY Partition, NodeFacts DEF NodeInv
  <2>5. /\ SumOf(Dealt(n) \cup {k}, Uses(n, r)) = SumOf(Dealt(n), Uses(n, r)) + Uses(n, r)[k]
        /\ SumOf(Dealt(n) \cup {k}, Requests(n, r))
               = SumOf(Dealt(n), Requests(n, r)) + Requests(n, r)[k]
    BY <1>3, <2>4, SumAdd
  <2> QED BY <1>3, <2>1, <2>2, <2>3, <2>5
<1>5. Totals(n)' /\ Holds(n)'
  BY <1>1, <1>4 DEF Totals, NodeInv, Holds
<1>6. (Records(n) /\ Guaranteed(n) /\ Extras(n) /\ Divided(n))'
  BY <1>1 DEF Records, Entered, Guaranteed, Extras, Divided, Final, Sharing, Shared
<1>7. Sole(n) => Allocated(n)'
  BY <1>1 DEF NodeInv, Allocated
<1> QED BY <1>2, <1>5, <1>6, <1>7 DEF NodeInv

\* The totals stay what they are when stage, pods and totals do.
LEMMA TotalsKept ==
    ASSUME NEW n \in Nodes, Totals(n), pods' = pods, pc[n] # "total", pc'[n] # "total",
           demand' = demand, request' = request
    PROVE  Totals(n)'
<1>1. /\ runingPodKeys(n)' = runingPodKeys(n)
      /\ \A r \in Resources : Uses(n, r)' = Uses(n, r) /\ Requests(n, r)' = Requests(n, r)
  BY DEF Uses, Requests, Usage, runingPodKeys
<1> QED BY <1>1 DEF Totals

LEMMA PutNode ==
    ASSUME Inv, NEW n \in Nodes, NodeInv(n), NEW k \in Keys, Put(n, k) PROVE NodeInv(n)'
<1>1. /\ pc[n] = "put" /\ pc' = pc /\ pods' = pods /\ res' = res /\ cur' = cur
      /\ k \in todo[n] /\ todo'[n] = todo[n] \ {k} /\ cur[n] = NoKey
      /\ podsMetrics' = [podsMetrics EXCEPT ![k] = Metrics(n, k)]
      /\ demand' = demand /\ request' = request /\ allocated' = allocated
  BY DEF Put, NodeInv, Holds, Inv, TypeOK, totalVars
<1>2. /\ runingPodKeys(n)' = runingPodKeys(n) /\ Sole(n)' = Sole(n)
      /\ \A j : Usage(n, j)' = Usage(n, j)
  BY <1>1 DEF runingPodKeys, Sole, Exclusive, NoOverflow, Usage
<1>3. Holds(n)' /\ Totals(n)'
  BY <1>1, TotalsKept DEF NodeInv, Holds
<1>4. ASSUME Sole(n) PROVE Records(n)'
  <2>1. k \in runingPodKeys(n) /\ podsMetrics'[k] = Metrics(n, k)
    BY <1>1 DEF Inv, TypeOK
  <2>2. \A j \in runingPodKeys(n) \ {k} :
           podsMetrics'[j] = podsMetrics[j] /\ (Entered(n, j)' => Entered(n, j))
    <3>1. runingPodKeys(n) \subseteq Keys
      BY NodeFacts
    <3> QED BY <1>1, <3>1 DEF Inv, TypeOK, Entered
  <2>3. \A r \in Resources :
           /\ Metrics(n, k).alloc[r] = Usage(n, k)[r] /\ Usage(n, k)[r] >= 0
           /\ Usage(n, k)[r] >= Smaller(pods[n][k].request[r], Usage(n, k)[r])
    BY <2>1, NodeFacts DEF Metrics, Smaller
  <2>4. Metrics(n, k).request = pods[n][k].request /\ Metrics(n, k).usage = Usage(n, k)
    BY DEF Metrics
  <2>5. \A j \in runingPodKeys(n), r \in Resources : Fresh(n, j, r)
    BY <1>1 DEF Fresh
  <2> QED BY <1>1, <1>2, <1>4, <2>1, <2>2, <2>3, <2>4, <2>5 DEF NodeInv, Records
<1>5. (Guaranteed(n) /\ Extras(n) /\ Divided(n))'
  BY <1>1 DEF Guaranteed, Extras, Divided, Final, Sharing, Shared
<1>6. Sole(n) => Allocated(n)'
  BY <1>1 DEF NodeInv, Allocated
<1> QED BY <1>2, <1>3, <1>4, <1>5, <1>6 DEF NodeInv

LEMMA ReadNode ==
    ASSUME Inv, NEW n \in Nodes, NodeInv(n), NEW k \in Keys, Read(n, k) PROVE NodeInv(n)'
<1>1. /\ pc[n] \in {"guarantee", "extra"} /\ pc' = pc /\ pods' = pods /\ res' = res
      /\ k \in todo[n] /\ todo'[n] = todo[n] \ {k} /\ cur[n] = NoKey /\ cur'[n] = k
      /\ record'[n] = podsMetrics[k] /\ podsMetrics' = podsMetrics
      /\ demand' = demand /\ request' = request /\ allocated' = allocated /\ c' = c /\ d' = d
  BY DEF Read, Inv, TypeOK, totalVars
<1>2. /\ runingPodKeys(n)' = runingPodKeys(n) /\ Sole(n)' = Sole(n) /\ k \in runingPodKeys(n)
      /\ k # NoKey
  BY <1>1, NodeFacts DEF runingPodKeys, Sole, Exclusive, NoOverflow, Inv
<1>3. Rest(n)' = Rest(n)
  BY <1>1, <1>2 DEF Rest
<1>4. Dealt(n)' = Dealt(n)
  BY <1>2, <1>3 DEF Dealt
<1>5. /\ \A q \in Resources : /\ Allocs(n, q)' = Allocs(n, q)
                              /\ Uses(n, q)' = Uses(n, q)
                              /\ Requests(n, q)' = Requests(n, q)
      /\ \A j : Usage(n, j)' = Usage(n, j)
      /\ \A j, q : Fresh(n, j, q)' = Fresh(n, j, q) /\ Final(n, q)' = Final(n, q)
  BY <1>1, <1>2, <1>3 DEF Allocs, Uses, Requests, Usage, runingPodKeys, Fresh, Final
<1>6. Holds(n)' /\ Totals(n)'
  BY <1>1, <1>2, TotalsKept DEF NodeInv, Holds
<1>7. ASSUME Sole(n)
      PROVE  (Records(n) /\ Guaranteed(n) /\ Extras(n) /\ Divided(n) /\ Allocated(n))'
  <2>1. Records(n)'
    BY <1>1, <1>2, <1>5, <1>7 DEF NodeInv, Records, Entered
  <2>2. res[n] \in Resources
    BY DEF Inv, TypeOK
  <2>3. Guaranteed(n)'
    BY <1>1, <1>2, <1>4, <1>5, <1>7, <2>2 DEF NodeInv, Guaranteed
  <2>4. Extras(n)'
    BY <1>1, <1>2, <1>3, <1>4, <1>5, <1>7, <2>2 DEF NodeInv, Extras
  <2>5. Divided(n)'
    BY <1>1, <1>2, <1>5, <1>7 DEF NodeInv, Divided
  <2>6. Allocated(n)'
    BY <1>1, <1>7 DEF NodeInv, Allocated
  <2> QED BY <2>1, <2>3, <2>4, <2>5, <2>6
<1> QED BY <1>2, <1>6, <1>7 DEF NodeInv
-----------------------------------------------------------------------------
(* Steps of a goroutine that divide a resource.                            *)

LEMMA PolicyNode ==
    ASSUME Inv, NEW n \in Nodes, NodeInv(n), whichSharePolicy(n) PROVE NodeInv(n)'
<1> DEFINE r == res[n]
           K == runingPodKeys(n)
<1>1. /\ pc[n] = "share" /\ cur[n] = NoKey /\ r \in Resources
      /\ pc[n] \in Sharing /\ "guarantee" \in Stages \ {"total", "put"}
  BY DEF whichSharePolicy, NodeInv, Holds, Sharing, Inv, TypeOK, Stages
<1>2. CASE /\ demand[n][r] <= Capacity[n][r]
           /\ NextResource(n) /\ UNCHANGED <<c, d>>
  <2>1. ASSUME Sole(n) PROVE SumOf(K, Allocs(n, r)) = demand[n][r]
    <3>1. \A k \in K : Fresh(n, k, r) /\ Entered(n, k)
      BY <1>1 DEF Fresh, Entered
    <3>2. \A k \in K : Allocs(n, r)[k] = Uses(n, r)[k]
      BY <1>1, <2>1, <3>1, NodeFacts DEF NodeInv, Records
    <3>3. SumOf(K, Allocs(n, r)) = SumOf(K, Uses(n, r))
      BY <3>2, SumSame
    <3> QED BY <1>1, <3>3 DEF NodeInv, Totals
  <2>2. demand[n][r] \in Nat /\ Capacity[n][r] \in Nat
    BY <1>1, NodeFacts
  <2> QED BY <1>1, <1>2, <2>1, <2>2, NextResourceNode
<1>3. CASE /\ demand[n][r] > Capacity[n][r]
           /\ Continue(n, "guarantee", r)
           /\ c' = [c EXCEPT ![n] = Capacity[n][r]]
           /\ d' = [d EXCEPT ![n] = demand[n][r]]
  <2>1. /\ pc'[n] = "guarantee" /\ res'[n] = r /\ Dealt(n)' = {} /\ Rest(n)' = K
        /\ runingPodKeys(n)' = K /\ Sole(n)' = Sole(n) /\ Holds(n)' /\ Totals(n)'
        /\ \A q \in Resources : /\ Allocs(n, q)' = Allocs(n, q)
                                /\ Requests(n, q)' = Requests(n, q)
        /\ Sole(n) =>
             ((\A k \in K, q \in Resources : Fresh(n, k, q)' => Fresh(n, k, q)) => Records(n)')
    BY <1>1, <1>3, ContinueKeeps
  <2>2. c'[n] = Capacity[n][r] /\ d'[n] = demand[n][r]
    BY <1>3 DEF Inv, TypeOK
  <2>3. demand' = demand /\ request' = request /\ allocated' = allocated
    BY <1>3 DEF Continue, totalVars
  <2>4. Sole(n) => Records(n)'
    BY <1>1, <2>1 DEF Fresh, Sharing
  <2>5. Guaranteed(n)'
    <3>1. \A f : SumOf({}, f) = 0
      BY SumEmpty
    <3>2. demand[n][r] \in Nat /\ request[n][r] \in Nat /\ Capacity[n][r] \in Nat
      BY <1>1, NodeFacts
    <3> QED BY <1>1, <1>3, <2>1, <2>2, <2>3, <3>1, <3>2 DEF Guaranteed
  <2>6. Extras(n)'
    BY <2>1 DEF Extras
  <2>7. Sole(n) => Divided(n)'
    <3>1. \A q \in Resources : Final(n, q)' => Final(n, q)
      BY <1>1, <2>1 DEF Final, Sharing, Shared
    <3> QED BY <2>1, <2>3, <3>1 DEF NodeInv, Divided
  <2>8. Sole(n) => Allocated(n)'
    BY <1>1, <2>1, <2>3 DEF NodeInv, Allocated
  <2> QED BY <2>1, <2>4, <2>5, <2>6, <2>7, <2>8 DEF NodeInv
<1> QED BY <1>2, <1>3 DEF whichSharePolicy

\* After the guarantees, no more than the capacity is guaranteed, and something
\* is missing: the demand was larger.
LEMMA GuaranteesEnd ==
    ASSUME Inv, NEW n \in Nodes, NodeInv(n), Sole(n), Ended(n, "guarantee")
    PROVE  LET g == SumOf(runingPodKeys(n), Allocs(n, res[n])) IN
           /\ g \in Nat /\ g <= Capacity[n][res[n]] /\ demand[n][res[n]] > Capacity[n][res[n]]
           /\ c[n] = Capacity[n][res[n]] - g /\ d[n] = demand[n][res[n]] - g
<1> DEFINE r == res[n]
           K == runingPodKeys(n)
           g == SumOf(K, Allocs(n, r))
           R == request[n][r]
<1>1. r \in Resources /\ pc[n] = "guarantee"
  BY DEF Inv, TypeOK, Ended
<1>2. Dealt(n) = K
  BY DEF Dealt, Rest, Ended
<1>3. /\ demand[n][r] > Capacity[n][r] /\ c[n] = Capacity[n][r] - g /\ d[n] = demand[n][r] - g
      /\ IF R = 0 THEN g = 0 ELSE R * g <= Capacity[n][r] * SumOf(K, Requests(n, r))
  BY <1>1, <1>2 DEF NodeInv, Guaranteed
<1>4. R = SumOf(K, Requests(n, r))
  BY <1>1 DEF NodeInv, Totals
<1>5. R \in Nat /\ Capacity[n][r] \in Nat
  BY <1>1, NodeFacts
<1>6. g \in Nat
  <2>1. \A k \in K : Entered(n, k)
    BY <1>1 DEF Entered
  <2>2. \A k \in K : Allocs(n, r)[k] \in Nat
    BY <1>1, <2>1, NodeFacts DEF NodeInv, Records
  <2> QED BY <2>2, NodeFacts, UnitsFinite
<1> HIDE DEF g, R
<1>7. g <= Capacity[n][r]
  <2>1. CASE R = 0
    BY <1>3, <1>5, <2>1
  <2>2. CASE R # 0
    <3>1. R * g <= R * Capacity[n][r]
      BY <1>3, <1>4, <1>5, <2>2
    <3> QED BY <1>5, <1>6, <2>2, <3>1, ProductCancel
  <2> QED BY <2>1, <2>2
<1> QED BY <1>3, <1>6, <1>7 DEF g

LEMMA EndGuaranteeNode ==
    ASSUME Inv, NEW n \in Nodes, NodeInv(n), EndGuarantee(n) PROVE NodeInv(n)'
<1> DEFINE r == res[n]
           K == runingPodKeys(n)
           C == Capacity[n][r]
           D == demand[n][r]
           g == SumOf(K, Allocs(n, r))
<1>1. /\ pc[n] = "guarantee" /\ cur[n] = NoKey /\ todo[n] = {} /\ r \in Resources
      /\ pc[n] \in Sharing /\ "extra" \in Stages \ {"total", "put"}
      /\ Ended(n, "guarantee") /\ UNCHANGED <<c, d>>
  BY DEF EndGuarantee, Ended, Sharing, Inv, TypeOK, Stages
<1>2. C \in Nat /\ D \in Nat /\ IsFiniteSet(K) /\ Cardinality(K) \in Nat
  BY <1>1, NodeFacts
<1>3. Sole(n) => g \in Nat /\ g <= C /\ D > C /\ c[n] = C - g /\ d[n] = D - g
  BY <1>1, GuaranteesEnd
<1>4. CASE d[n] > 0 /\ c[n] > 0 /\ Continue(n, "extra", r)
  <2>1. /\ pc'[n] = "extra" /\ res'[n] = r /\ Dealt(n)' = {} /\ Rest(n)' = K
        /\ runingPodKeys(n)' = K /\ Sole(n)' = Sole(n) /\ Holds(n)' /\ Totals(n)'
        /\ \A q \in Resources : /\ Allocs(n, q)' = Allocs(n, q)
                                /\ Uses(n, q)' = Uses(n, q)
        /\ Sole(n) =>
             ((\A k \in K, q \in Resources : Fresh(n, k, q)' => Fresh(n, k, q)) => Records(n)')
    BY <1>1, <1>4, ContinueKeeps
  <2>2. demand' = demand /\ request' = request /\ allocated' = allocated
    BY <1>4 DEF Continue, totalVars
  <2>3. Sole(n) => Records(n)'
    BY <1>1, <2>1 DEF Fresh, Sharing
  <2>4. Guaranteed(n)'
    BY <2>1 DEF Guaranteed
  <2>5. ASSUME Sole(n) PROVE Extras(n)'
    <3>1. SumOf(K, Uses(n, r)) = D
      BY <1>1 DEF NodeInv, Totals
    <3>2. Cardinality({}) = 0
      BY FS_EmptySet
    <3> HIDE DEF g
    <3>3. g - (C - c[n]) = 0 /\ D - g = d[n] /\ d[n] \in Int /\ c[n] \in Int
      BY <1>2, <1>3, <2>5
    <3>4. /\ d[n] * (g - (C - c[n])) = 0 /\ c[n] * (d[n] - (D - g)) = 0
          /\ (d[n] - 1) * 0 = 0
      BY <3>3
    <3>5. /\ c[n] > 0 /\ c[n] <= C /\ d[n] > c[n] /\ d[n] - c[n] = D - C
      BY <1>2, <1>3, <1>4, <2>5
    <3>6. 0 <= 0 /\ 0 >= 0 - 0
      OBVIOUS
    <3>7. /\ d[n] * (g - (C - c[n])) <= c[n] * (d[n] - (D - g))
          /\ d[n] * (g - (C - c[n])) >= c[n] * (d[n] - (D - g)) - (d[n] - 1) * 0
      BY <3>4, <3>6
    <3>8. /\ SumOf(runingPodKeys(n)', Allocs(n, r)') = g
          /\ SumOf(Rest(n)', Uses(n, r)') = D /\ SumOf(Rest(n)', Allocs(n, r)') = g
      BY <1>1, <2>1, <3>1 DEF g
    <3>9. c'[n] = c[n] /\ d'[n] = d[n] /\ demand'[n][r] = D /\ Cardinality(Dealt(n)') = 0
      BY <1>1, <2>1, <2>2, <3>2
    <3> QED BY <2>1, <3>5, <3>8, <3>9, <3>7 DEF Extras
  <2>6. Sole(n) => Divided(n)'
    <3>1. \A q \in Resources : Final(n, q)' => Final(n, q)
      BY <1>1, <2>1 DEF Final, Sharing, Shared
    <3> QED BY <2>1, <2>2, <3>1 DEF NodeInv, Divided
  <2>7. Sole(n) => Allocated(n)'
    BY <1>1, <2>1, <2>2 DEF NodeInv, Allocated
  <2> QED BY <2>1, <2>3, <2>4, <2>5, <2>6, <2>7 DEF NodeInv
<1>5. CASE ~(d[n] > 0 /\ c[n] > 0) /\ NextResource(n)
  <2>1. ASSUME Sole(n) PROVE g <= C /\ g > C - Cardinality(K)
    <3>1. K # {}
      <4> SUFFICES ASSUME K = {} PROVE FALSE
        OBVIOUS
      <4>1. D = SumOf({}, Uses(n, r))
        BY <1>1 DEF NodeInv, Totals
      <4> QED BY <1>2, <1>3, <2>1, <4>1, SumEmpty
    <3>2. Cardinality(K) > 0
      BY <1>2, <3>1, FS_EmptySet
    <3> HIDE DEF g
    <3> QED BY <1>2, <1>3, <1>5, <2>1, <3>2
  <2> QED BY <1>1, <1>5, <2>1, NextResourceNode
<1> QED BY <1>4, <1>5, <1>1 DEF EndGuarantee

LEMMA EndExtraNode ==
    ASSUME Inv, NEW n \in Nodes, NodeInv(n), EndExtra(n) PROVE NodeInv(n)'
<1> DEFINE r == res[n]
           K == runingPodKeys(n)
           C == Capacity[n][r]
           g == SumOf(K, Allocs(n, r))
           N == Cardinality(K)
<1>1. /\ pc[n] = "extra" /\ cur[n] = NoKey /\ todo[n] = {} /\ r \in Resources
      /\ pc[n] \in Sharing /\ UNCHANGED <<c, d>> /\ NextResource(n)
  BY DEF EndExtra, Ended, Sharing, Inv, TypeOK
<1>2. Rest(n) = {} /\ Dealt(n) = K
  BY <1>1 DEF Rest, Dealt
<1>3. ASSUME Sole(n)
      PROVE  g <= C /\ (demand[n][r] > C => g > C - N)
  <2>1. C \in Nat /\ N \in Nat /\ IsFiniteSet(K)
    BY <1>1, NodeFacts
  <2>2. SumOf({}, Uses(n, r)) = 0 /\ SumOf({}, Allocs(n, r)) = 0
    BY SumEmpty
  <2>3. g \in Nat
    <3>1. \A k \in K : Entered(n, k)
      BY <1>1 DEF Entered
    <3>2. \A k \in K : Allocs(n, r)[k] \in Nat
      BY <1>1, <1>3, <3>1, NodeFacts DEF NodeInv, Records
    <3> QED BY <2>1, <3>2, UnitsFinite
  <2>4. c[n] \in Int /\ d[n] \in Int
    BY DEF Inv, TypeOK
  <2>5. /\ c[n] > 0 /\ c[n] <= C /\ d[n] > c[n]
        /\ d[n] * (g - (C - c[n])) <= c[n] * (d[n] - (0 - 0))
        /\ d[n] * (g - (C - c[n])) >= c[n] * (d[n] - (0 - 0)) - (d[n] - 1) * N
    BY <1>1, <1>2, <1>3, <2>2 DEF NodeInv, Extras
  <2> HIDE DEF g, N
  <2> DEFINE given == g - (C - c[n])
  <2>6. given \in Int /\ d[n] \in Nat \ {0} /\ c[n] \in Nat
    BY <2>1, <2>3, <2>4, <2>5
  <2> HIDE DEF given
  <2>7. d[n] * given <= d[n] * c[n]
    BY <2>4, <2>5, <2>6 DEF given
  <2>8. given <= c[n]
    BY <2>6, <2>7, ProductCancel
  <2>9. ASSUME N > 0 PROVE given > c[n] - N
    <3> SUFFICES ASSUME given + N <= c[n] PROVE FALSE
      BY <2>1, <2>6
    <3>1. d[n] * (given + N) <= d[n] * c[n]
      BY <2>1, <2>6, ProductLe
    <3>2. d[n] * (given + N) = d[n] * given + d[n] * N
      BY <2>1, <2>6
    <3>3. (d[n] - 1) * N = d[n] * N - N
      BY <2>1, <2>6
    <3>4. d[n] * given >= c[n] * d[n] - (d[n] - 1) * N
      BY <2>4, <2>5, <2>6 DEF given
    <3>5. c[n] * d[n] = d[n] * c[n]
      BY <2>6
    <3>6. d[n] * given \in Int /\ d[n] * N \in Int /\ d[n] * c[n] \in Int
      BY <2>1, <2>6
    <3> QED BY <2>1, <2>9, <3>1, <3>2, <3>3, <3>4, <3>5, <3>6
  <2>10. ASSUME demand[n][r] > C PROVE N > 0
    <3>1. K # {}
      <4> SUFFICES ASSUME K = {} PROVE FALSE
        OBVIOUS
      <4>1. demand[n][r] = SumOf({}, Uses(n, r))
        BY <1>1 DEF NodeInv, Totals
      <4> QED BY <2>1, <2>2, <2>10, <4>1
    <3> QED BY <2>1, <3>1, FS_EmptySet DEF N
  <2> QED BY <2>1, <2>3, <2>4, <2>6, <2>8, <2>9, <2>10 DEF given
<1> QED BY <1>1, <1>3, NextResourceNode
-----------------------------------------------------------------------------
(* Records that are written back.                                          *)

LEMMA WriteFacts ==
    ASSUME Inv, NEW n \in Nodes, NodeInv(n), NEW al \in Int, Write(n, al), cur[n] # NoKey
    PROVE  LET k == cur[n]
               K == runingPodKeys(n) IN
           /\ k \in K /\ k \in Rest(n) /\ k \notin Dealt(n)
           /\ Rest(n)' = Rest(n) \ {k} /\ Dealt(n)' = Dealt(n) \cup {k}
           /\ runingPodKeys(n)' = K /\ Sole(n)' = Sole(n)
           /\ pc' = pc /\ res' = res /\ pods' = pods /\ cur'[n] = NoKey
           /\ allocated' = allocated /\ demand' = demand /\ request' = request
           /\ Holds(n)' /\ Totals(n)'
           /\ \A q \in Resources : Uses(n, q)' = Uses(n, q) /\ Requests(n, q)' = Requests(n, q)
           /\ \A j : Usage(n, j)' = Usage(n, j)
           /\ \A j \in K \ {k} : podsMetrics'[j] = podsMetrics[j]
           /\ \A q \in Resources, j \in K \ {k} : Allocs(n, q)'[j] = Allocs(n, q)[j]
           /\ Sole(n) => /\ podsMetrics'[k].request = podsMetrics[k].request
                         /\ podsMetrics'[k].usage = podsMetrics[k].usage
                         /\ \A q \in Resources :
                               /\ podsMetrics'[k].alloc[q] = IF q = res[n] THEN al
                                                             ELSE podsMetrics[k].alloc[q]
                               /\ Allocs(n, q)'[k] = podsMetrics'[k].alloc[q]
<1> DEFINE k == cur[n]
           K == runingPodKeys(n)
<1>1. /\ pc' = pc /\ res' = res /\ pods' = pods /\ todo' = todo /\ cur'[n] = NoKey
      /\ allocated' = allocated /\ demand' = demand /\ request' = request
      /\ podsMetrics' = [podsMetrics EXCEPT ![k] = [record[n] EXCEPT !.alloc[res[n]] = al]]
  BY DEF Write, totalVars, Inv, TypeOK
<1>2. k \in K /\ k \notin todo[n] /\ pc[n] \in {"guarantee", "extra"}
  BY DEF NodeInv, Holds
<1>3. runingPodKeys(n)' = K /\ Sole(n)' = Sole(n) /\ K \subseteq Keys
  BY <1>1, NodeFacts DEF runingPodKeys, Sole, Exclusive, NoOverflow
<1>4. k \in Rest(n) /\ k \notin Dealt(n) /\ Rest(n)' = Rest(n) \ {k}
  BY <1>1, <1>2 DEF Rest, Dealt
<1>5. Dealt(n)' = Dealt(n) \cup {k}
  BY <1>1, <1>4, DealtWith DEF NodeInv
<1>6. Holds(n)' /\ Totals(n)'
  BY <1>1, <1>2, TotalsKept DEF NodeInv, Holds
<1>7. /\ \A q \in Resources : Uses(n, q)' = Uses(n, q) /\ Requests(n, q)' = Requests(n, q)
      /\ \A j : Usage(n, j)' = Usage(n, j)
  BY <1>1 DEF Uses, Requests, Usage, runingPodKeys
<1>8. \A j \in K \ {k} : podsMetrics'[j] = podsMetrics[j]
  BY <1>1, <1>3 DEF Inv, TypeOK
<1>9. \A q \in Resources, j \in K : Allocs(n, q)'[j] = podsMetrics'[j].alloc[q]
                                    /\ Allocs(n, q)[j] = podsMetrics[j].alloc[q]
  BY <1>3 DEF Allocs
<1>10. ASSUME Sole(n)
       PROVE  /\ podsMetrics'[k].request = podsMetrics[k].request
              /\ podsMetrics'[k].usage = podsMetrics[k].usage
              /\ \A q \in Resources :
                    podsMetrics'[k].alloc[q] = IF q = res[n] THEN al ELSE podsMetrics[k].alloc[q]
  <2>1. record[n] = podsMetrics[k]
    BY <1>10 DEF NodeInv, Records
  <2>2. podsMetrics[k] \in Record /\ k \in DOMAIN podsMetrics
    BY <1>2, <1>3 DEF Inv, TypeOK
  <2>3. podsMetrics'[k] = [podsMetrics[k] EXCEPT !.alloc[res[n]] = al]
    BY <1>1, <2>1, <2>2
  <2> HIDE DEF k
  <2>4. /\ podsMetrics'[k].request = podsMetrics[k].request
        /\ podsMetrics'[k].usage = podsMetrics[k].usage
        /\ podsMetrics'[k].alloc = [podsMetrics[k].alloc EXCEPT ![res[n]] = al]
    BY <2>2, <2>3 DEF Record
  <2>5. DOMAIN podsMetrics[k].alloc = Resources
    BY <2>2 DEF Record, Amounts
  <2> QED BY <2>4, <2>5
<1> QED BY <1>1, <1>2, <1>3, <1>4, <1>5, <1>6, <1>7, <1>8, <1>9, <1>10

\* The sum of what is allocated to the pods dealt with, when one is written.
LEMMA WriteSums ==
    ASSUME Inv, NEW n \in Nodes, NodeInv(n), Sole(n), NEW al \in Nat, Write(n, al), cur[n] # NoKey
    PROVE  LET k == cur[n]
               K == runingPodKeys(n)
               r == res[n] IN
           /\ SumOf(Dealt(n), Allocs(n, r)) \in Nat
           /\ SumOf(Dealt(n)', Allocs(n, r)') = SumOf(Dealt(n), Allocs(n, r)) + al
           /\ SumOf(Rest(n)', Allocs(n, r)') = SumOf(Rest(n), Allocs(n, r)) - Allocs(n, r)[k]
           /\ SumOf(K, Allocs(n, r)') = SumOf(K, Allocs(n, r)) - Allocs(n, r)[k] + al
           /\ SumOf(K, Allocs(n, r)) \in Nat /\ SumOf(Rest(n), Allocs(n, r)) \in Nat
<1> DEFINE k == cur[n]
           K == runingPodKeys(n)
           r == res[n]
           f == Allocs(n, r)
           g == Allocs(n, r)'
<1>1. r \in Resources /\ al \in Int
  BY DEF Inv, TypeOK
<1>2. /\ k \in K /\ k \in Rest(n) /\ k \notin Dealt(n)
      /\ Rest(n)' = Rest(n) \ {k} /\ Dealt(n)' = Dealt(n) \cup {k}
      /\ \A j \in K \ {k} : g[j] = f[j]
      /\ g[k] = al
  BY <1>1, WriteFacts
<1>3. /\ IsFiniteSet(K) /\ IsFiniteSet(Rest(n)) /\ IsFiniteSet(Dealt(n))
      /\ Rest(n) \subseteq K /\ Dealt(n) \subseteq K
  BY NodeFacts, Partition DEF NodeInv
<1>4. \A j \in K : f[j] \in Nat
  <2>1. \A j \in K : Entered(n, j)
    BY DEF NodeInv, Holds, Entered
  <2> QED BY <1>1, <2>1, NodeFacts DEF NodeInv, Records
<1> HIDE DEF k, r, f, g
<1>5. SumOf(K, f) \in Nat /\ SumOf(Rest(n), f) \in Nat /\ SumOf(Dealt(n), f) \in Nat
  BY <1>3, <1>4, UnitsFinite
<1>6. SumOf(Dealt(n), g) = SumOf(Dealt(n), f) /\ SumOf(Rest(n) \ {k}, g) = SumOf(Rest(n) \ {k}, f)
      /\ SumOf(K \ {k}, g) = SumOf(K \ {k}, f)
  BY <1>2, <1>3, SumSame
<1>7. SumOf(Dealt(n) \cup {k}, g) = SumOf(Dealt(n), g) + g[k]
  <2>1. \A j \in Dealt(n) : g[j] \in Nat
    BY <1>2, <1>3, <1>4
  <2> QED BY <1>2, <1>3, <2>1, SumAdd
<1>8. SumOf(Rest(n), f) = SumOf(Rest(n) \ {k}, f) + f[k]
  BY <1>2, <1>3, <1>4, SumRemove
<1>9. SumOf(K, f) = SumOf(K \ {k}, f) + f[k]
  BY <1>2, <1>3, <1>4, SumRemove
<1>10. SumOf(K, g) = SumOf(K \ {k}, g) + g[k]
  <2>1. \A j \in K : g[j] \in Nat
    BY <1>2, <1>4
  <2> QED BY <1>2, <1>3, <2>1, SumRemove
<1>11. SumOf(K \ {k}, f) \in Nat /\ SumOf(Rest(n) \ {k}, f) \in Nat /\ f[k] \in Nat
  <2>1. IsFiniteSet(K \ {k}) /\ IsFiniteSet(Rest(n) \ {k})
    BY <1>3, FS_RemoveElement
  <2> QED BY <1>2, <1>3, <1>4, <2>1, UnitsFinite
<1> QED BY <1>2, <1>5, <1>6, <1>7, <1>8, <1>9, <1>10, <1>11 DEF k, r, f, g

\* What is kept of the rest of NodeInv, whatever is written within the guarantee.
LEMMA WriteKeeps ==
    ASSUME Inv, NEW n \in Nodes, NodeInv(n), Sole(n), NEW al \in Nat, Write(n, al), cur[n] # NoKey,
           request[n][res[n]] <= Capacity[n][res[n]] =>
              al >= Smaller(pods[n][cur[n]].request[res[n]], Usage(n, cur[n])[res[n]])
    PROVE  Records(n)' /\ Divided(n)' /\ Allocated(n)'
<1> DEFINE k == cur[n]
           K == runingPodKeys(n)
<1>1. res[n] \in Resources /\ al \in Int /\ pc[n] \in {"guarantee", "extra"}
  BY DEF Inv, TypeOK, NodeInv, Holds
<1>2. /\ k \in K /\ Rest(n)' = Rest(n) \ {k}
      /\ runingPodKeys(n)' = K
      /\ pc' = pc /\ res' = res /\ pods' = pods /\ cur'[n] = NoKey
      /\ allocated' = allocated /\ demand' = demand /\ request' = request
      /\ \A j : Usage(n, j)' = Usage(n, j)
      /\ \A j \in K \ {k} : podsMetrics'[j] = podsMetrics[j]
      /\ \A q \in Resources, j \in K \ {k} : Allocs(n, q)'[j] = Allocs(n, q)[j]
      /\ podsMetrics'[k].request = podsMetrics[k].request
      /\ podsMetrics'[k].usage = podsMetrics[k].usage
      /\ \A q \in Resources :
            /\ podsMetrics'[k].alloc[q] = IF q = res[n] THEN al ELSE podsMetrics[k].alloc[q]
            /\ Allocs(n, q)'[k] = podsMetrics'[k].alloc[q]
  BY <1>1, WriteFacts
<1>3. \A j \in K : Entered(n, j)
  BY <1>1 DEF Entered
<1>4. \A j \in K, q \in Resources :
         Fresh(n, j, q)' => Fresh(n, j, q) /\ ~(j = k /\ q = res[n])
  BY <1>1, <1>2 DEF Fresh, Sharing, Resources
<1> HIDE DEF k
<1>5. Records(n)'
  <2>1. ASSUME NEW j \in K
        PROVE  /\ podsMetrics'[j].request = pods[n][j].request
               /\ podsMetrics'[j].usage = Usage(n, j)
               /\ \A q \in Resources :
                     /\ podsMetrics'[j].alloc[q] >= 0
                     /\ Fresh(n, j, q)' => podsMetrics'[j].alloc[q] = Usage(n, j)[q]
                     /\ request[n][q] <= Capacity[n][q] =>
                           podsMetrics'[j].alloc[q] >= Smaller(pods[n][j].request[q], Usage(n, j)[q])
    <3>1. /\ podsMetrics[j].request = pods[n][j].request
          /\ podsMetrics[j].usage = Usage(n, j)
          /\ \A q \in Resources :
                /\ podsMetrics[j].alloc[q] >= 0
                /\ Fresh(n, j, q) => podsMetrics[j].alloc[q] = Usage(n, j)[q]
                /\ request[n][q] <= Capacity[n][q] =>
                      podsMetrics[j].alloc[q] >= Smaller(pods[n][j].request[q], Usage(n, j)[q])
      BY <1>3 DEF NodeInv, Records
    <3>2. CASE j # k
      BY <1>2, <1>4, <3>1, <3>2
    <3>3. CASE j = k
      BY <1>1, <1>2, <1>4, <3>1, <3>3 DEF k
    <3> QED BY <3>2, <3>3
  <2> QED BY <1>2, <2>1 DEF Records
<1>6. Divided(n)'
  <2>1. ASSUME NEW q \in Resources, Final(n, q)
        PROVE  SumOf(K, Allocs(n, q)') = SumOf(K, Allocs(n, q))
    <3>1. q # res[n]
      BY <1>1, <2>1 DEF Final, Sharing, Shared
    <3>2. \A j \in K : Allocs(n, q)'[j] = Allocs(n, q)[j]
      BY <1>2, <3>1 DEF Allocs
    <3> QED BY <3>2, SumSame
  <2>2. \A q : Final(n, q)' = Final(n, q)
    BY <1>2 DEF Final
  <2> QED BY <1>2, <2>1, <2>2 DEF NodeInv, Divided
<1>7. Allocated(n)'
  BY <1>1, <1>2 DEF NodeInv, Allocated
<1> QED BY <1>5, <1>6, <1>7
\* Integers that fit are not changed.
LEMMA WrapFits == \A x \in Nat : x < Word \div 2 => Wrap(x) = x
<1> SUFFICES ASSUME NEW x \in Nat, x < Word \div 2 PROVE Wrap(x) = x
  OBVIOUS
<1>1. Word \div 2 \in Nat /\ 2 * (Word \div 2) <= Word
  BY WordAssumption
<1>2. (x + Word \div 2) \in 0 .. Word - 1
  BY <1>1, WordAssumption
<1>3. (x + Word \div 2) % Word = x + Word \div 2
  BY <1>2, WordAssumption
<1> QED BY <1>1, <1>3 DEF Wrap

\* No product of the capacity and a request or a usage, or less, overflows.
LEMMA NoProductOverflows ==
    ASSUME Inv, NEW n \in Nodes, Sole(n), NEW k \in runingPodKeys(n), NEW r \in Resources,
           NEW a \in Nat, a <= Capacity[n][r],
           NEW b \in Nat, b <= pods[n][k].request[r] \/ b <= Usage(n, k)[r]
    PROVE  a * b \in Nat /\ Wrap(a * b) = a * b
<1> DEFINE p == pods[n][k].request[r]
           u == pods[n][k].usage[r]
           C == Capacity[n][r]
           m == Larger(p, u)
<1>1. p \in Nat /\ u \in Nat /\ C \in Nat
  <2>1. pods[n][k] \in Pod
    BY ClusterAssumption DEF Inv, TypeOK, runingPodKeys
  <2> QED BY <2>1, NodeFacts DEF Pod
<1>2. C * m < Word \div 2
  BY DEF Sole, NoOverflow
<1>3. b <= p \/ b <= u
  BY <1>1 DEF Usage, Zero
<1> HIDE DEF p, u, C
<1>4. m \in Nat /\ b <= m
  BY <1>1, <1>3 DEF Larger
<1> HIDE DEF m
<1>5. a * b <= C * m
  <2>1. a * b <= a * m
    BY <1>4, ProductLe
  <2>2. m * a <= m * C
    <3>1. a \in Int /\ C \in Int /\ a <= C
      BY <1>1 DEF C
    <3> QED BY <1>4, <3>1, ProductLe
  <2>3. a * m = m * a /\ m * C = C * m
    BY <1>1, <1>4
  <2>4. a * b \in Int /\ a * m \in Int /\ C * m \in Int
    BY <1>1, <1>4
  <2> QED BY <2>1, <2>2, <2>3, <2>4
<1>6. a * b \in Nat /\ C * m \in Nat /\ Word \div 2 \in Nat
  BY <1>1, <1>4, WordAssumption
<1>7. a * b < Word \div 2
  BY <1>2, <1>5, <1>6
<1> QED BY <1>6, <1>7, WrapFits

\* What a pod is guaranteed is a part of the capacity by its request, and its
\* request or usage if all requests are within the capacity.
LEMMA GuaranteeValue ==
    ASSUME Inv, NEW n \in Nodes, NodeInv(n), Sole(n), cur[n] # NoKey
    PROVE  LET k == cur[n]
               r == res[n]
               R == request[n][r]
               C == Capacity[n][r] IN
           /\ guarantee(n) \in Nat
           /\ IF R = 0 THEN guarantee(n) = 0
              ELSE guarantee(n) <= (C * Requests(n, r)[k]) \div R
           /\ R <= C => guarantee(n) >= Smaller(pods[n][k].request[r], Usage(n, k)[r])
<1> DEFINE k == cur[n]
           r == res[n]
           R == request[n][r]
           C == Capacity[n][r]
           p == pods[n][k].request[r]
           u == Usage(n, k)[r]
           P == Requests(n, r)[k]
           q == (C * p) \div R
<1>1. r \in Resources /\ k \in runingPodKeys(n) /\ Entered(n, k)
  BY DEF Inv, TypeOK, NodeInv, Holds, Entered
<1>2. record[n].request = pods[n][k].request /\ record[n].usage = Usage(n, k)
  BY <1>1 DEF NodeInv, Records
<1>3. /\ R \in Nat /\ C \in Nat /\ p \in Nat /\ u \in Nat /\ P \in Nat
      /\ P = (IF pods[n][k].active THEN p ELSE 0)
      /\ ~pods[n][k].active => u = 0
  <2>1. ~pods[n][k].active => u = 0
    BY <1>1 DEF Usage, Zero
  <2> QED BY <1>1, <2>1, NodeFacts
<1>4. P <= R
  <2> DEFINE K == runingPodKeys(n)
             f == Requests(n, r)
  <2>1. R = SumOf(K, f)
    BY <1>1 DEF NodeInv, Totals, Holds, Entered
  <2>2. IsFiniteSet(K) /\ \A j \in K : f[j] \in Nat
    BY <1>1, NodeFacts
  <2>3. SumOf(K, f) = SumOf(K \ {k}, f) + f[k]
    <3> HIDE DEF K, f, k
    <3>1. k \in K
      BY <1>1 DEF K
    <3> QED BY <2>2, <3>1, SumRemove
  <2>4. SumOf(K \ {k}, f) \in Nat
    <3>1. IsFiniteSet(K \ {k})
      BY <2>2, FS_RemoveElement
    <3> HIDE DEF f
    <3> QED BY <2>2, <3>1, UnitsFinite
  <2> QED BY <1>3, <2>1, <2>3, <2>4
<1>5. C * p \in Nat /\ Wrap(C * p) = C * p
  BY <1>1, <1>3, NoProductOverflows
<1>6. guarantee(n) = IF R = 0 THEN 0 ELSE Smaller(u, Smaller(Quotient(Wrap(C * p), R), p))
  BY <1>2 DEF guarantee
<1> HIDE DEF R, C, p, u, P
<1>7. CASE R = 0
  <2>1. guarantee(n) = 0 /\ Smaller(p, u) = 0
    BY <1>3, <1>4, <1>6, <1>7 DEF Smaller
  <2> QED BY <1>7, <2>1 DEF R, C, p, u
<1>8. CASE R # 0
  <2>1. q \in Nat /\ Quotient(Wrap(C * p), R) = q
    <3> DEFINE t == C * p
    <3>1. t \in Nat /\ Wrap(t) = t
      BY <1>5
    <3> HIDE DEF t
    <3>2. t \div R \in Nat
      BY <1>3, <1>8, <3>1, DivBounds
    <3>3. Quotient(t, R) = t \div R
      <4>1. t >= 0
        BY <3>1
      <4> QED BY <4>1, Zenon DEF Quotient
    <3> QED BY <3>1, <3>2, <3>3 DEF t
  <2> HIDE DEF q
  <2>2. guarantee(n) = Smaller(u, Smaller(q, p))
    BY <1>6, <1>8, <2>1
  <2>3. guarantee(n) \in Nat /\ guarantee(n) <= q /\ guarantee(n) <= u
    BY <1>3, <2>1, <2>2 DEF Smaller
  <2>4. guarantee(n) <= (C * P) \div R
    <3>1. CASE pods[n][k].active
      BY <1>3, <2>3, <3>1 DEF q
    <3>2. CASE ~pods[n][k].active
      <4>1. C * P = 0 /\ 0 \div R = 0
        BY <1>3, <1>8, <3>2
      <4> QED BY <1>3, <2>3, <3>2, <4>1
    <3> QED BY <3>1, <3>2
  <2>5. R <= C => guarantee(n) >= Smaller(p, u)
    <3>1. R <= C => q >= p
      BY <1>3, <1>8, PartCovers DEF q
    <3> QED BY <1>3, <2>1, <2>2, <3>1 DEF Smaller
  <2> QED BY <1>8, <2>3, <2>4, <2>5 DEF R, C, p, u, P
<1> QED BY <1>7, <1>8

LEMMA WriteGuaranteeNode ==
    ASSUME Inv, NEW n \in Nodes, NodeInv(n), WriteGuarantee(n) PROVE NodeInv(n)'
<1> DEFINE k == cur[n]
           r == res[n]
           R == request[n][r]
           C == Capacity[n][r]
           x == guarantee(n)
           g == SumOf(Dealt(n), Allocs(n, r))
           P == SumOf(Dealt(n), Requests(n, r))
<1>1. pc[n] = "guarantee" /\ cur[n] # NoKey /\ Write(n, x) /\ r \in Resources /\ x \in Int
  BY GuaranteeWithin DEF WriteGuarantee, Inv, TypeOK
<1>2. /\ k \in runingPodKeys(n) /\ k \notin Dealt(n) /\ Dealt(n)' = Dealt(n) \cup {k}
      /\ Sole(n)' = Sole(n) /\ pc' = pc /\ res' = res /\ demand' = demand /\ request' = request
      /\ Holds(n)' /\ Totals(n)' /\ Requests(n, r)' = Requests(n, r)
  BY <1>1, WriteFacts
<1>3. ASSUME Sole(n) PROVE (Records(n) /\ Guaranteed(n) /\ Extras(n) /\ Divided(n) /\ Allocated(n))'
  <2>1. /\ x \in Nat
        /\ IF R = 0 THEN x = 0 ELSE x <= (C * Requests(n, r)[k]) \div R
        /\ R <= C => x >= Smaller(pods[n][k].request[r], Usage(n, k)[r])
    BY <1>1, <1>3, GuaranteeValue
  <2> HIDE DEF x
  <2>2. Records(n)' /\ Divided(n)' /\ Allocated(n)'
    BY <1>1, <1>3, <2>1, WriteKeeps
  <2>3. Extras(n)'
    BY <1>1, <1>2 DEF Extras
  <2>4. Guaranteed(n)'
    <3>1. g \in Nat /\ SumOf(Dealt(n)', Allocs(n, r)') = g + x
      BY <1>1, <1>3, <2>1, WriteSums
    <3>2. /\ IsFiniteSet(Dealt(n)) /\ Dealt(n) \subseteq runingPodKeys(n)
          /\ \A j \in runingPodKeys(n) : Requests(n, r)[j] \in Nat
      BY <1>1, NodeFacts, Partition DEF NodeInv
    <3>3. SumOf(Dealt(n)', Requests(n, r)') = P + Requests(n, r)[k] /\ P \in Nat
      BY <1>2, <3>2, SumAdd, UnitsFinite
    <3>4. R \in Nat /\ C \in Nat
      BY <1>1, NodeFacts
    <3>5. /\ demand[n][r] > C /\ c[n] = C - g /\ d[n] = demand[n][r] - g
          /\ IF R = 0 THEN g = 0 ELSE R * g <= C * P
      BY <1>1, <1>3 DEF NodeInv, Guaranteed
    <3>6. c'[n] = c[n] - x /\ d'[n] = d[n] - x
      BY DEF WriteGuarantee, Inv, TypeOK, x
    <3> DEFINE p == Requests(n, r)[k]
    <3>7. p \in Nat
      BY <1>2, <3>2
    <3> HIDE DEF g, P, R, p
    <3>8. IF R = 0 THEN g + x = 0 ELSE R * (g + x) <= C * (P + p)
      BY <2>1, <3>1, <3>3, <3>4, <3>5, <3>7, GuaranteeStep DEF p
    <3>9. c'[n] = C - (g + x) /\ d'[n] = demand[n][r] - (g + x)
      <4>1. demand[n][r] \in Nat
        BY <1>1, NodeFacts
      <4> QED BY <2>1, <3>1, <3>4, <3>5, <3>6, <4>1
    <3> QED BY <1>2, <3>1, <3>3, <3>5, <3>8, <3>9 DEF Guaranteed, p, R
  <2> QED BY <2>2, <2>3, <2>4
<1> QED BY <1>2, <1>3 DEF NodeInv

\* An extra is the part of what is left by what is missing, rounded down.
LEMMA ExtraValue ==
    ASSUME Inv, NEW n \in Nodes, NodeInv(n), Sole(n), cur[n] # NoKey, pc[n] = "extra"
    PROVE  LET k == cur[n]
               r == res[n]
               m == Uses(n, r)[k] - Allocs(n, r)[k] IN
           /\ m \in Nat /\ Allocs(n, r)[k] \in Nat
           /\ record[n].alloc[r] = Allocs(n, r)[k]
           /\ record[n].alloc[r] >= 0
           /\ extra(n) = (c[n] * m) \div d[n] /\ extra(n) \in Nat
<1> DEFINE k == cur[n]
           r == res[n]
           C == Capacity[n][r]
           u == Usage(n, k)[r]
           al == podsMetrics[k].alloc[r]
           m == u - al
<1>1. r \in Resources /\ k \in runingPodKeys(n) /\ Entered(n, k)
  BY DEF Inv, TypeOK, NodeInv, Holds, Entered
<1>2. record[n] = podsMetrics[k] /\ podsMetrics[k].usage = Usage(n, k) /\ al >= 0
  BY <1>1 DEF NodeInv, Records
<1>3. /\ u \in Nat /\ al \in Nat /\ al <= u /\ C \in Nat
      /\ Uses(n, r)[k] = u /\ Allocs(n, r)[k] = al
  BY <1>1, <1>2, NodeFacts
<1>4. c[n] \in Nat /\ c[n] <= C /\ d[n] \in Nat \ {0} /\ c[n] <= d[n]
  <2>1. c[n] > 0 /\ c[n] <= C /\ d[n] > c[n]
    BY DEF NodeInv, Extras
  <2> QED BY <2>1 DEF Inv, TypeOK
<1>5. m \in Nat /\ m <= u /\ Larger(record[n].usage[r] - record[n].alloc[r], 0) = m
  BY <1>2, <1>3 DEF Larger
<1>6. c[n] * m \in Nat /\ Wrap(c[n] * m) = c[n] * m
  BY <1>1, <1>4, <1>5, NoProductOverflows
<1> DEFINE q == (c[n] * m) \div d[n]
<1> HIDE DEF m, u, al
<1>7. q \in Nat /\ Quotient(c[n] * m, d[n]) = q
  BY <1>4, <1>6, DivBounds DEF Quotient
<1>8. q <= m
  <2>1. d[n] * q <= c[n] * m
    BY <1>4, <1>6, DivBounds
  <2>2. m * c[n] <= m * d[n]
    BY <1>4, <1>5, ProductLe DEF m
  <2>3. m * c[n] = c[n] * m /\ m * d[n] = d[n] * m
    BY <1>4, <1>5
  <2>4. d[n] * q <= d[n] * m
    <3>1. d[n] * q \in Int /\ c[n] * m \in Int /\ d[n] * m \in Int
      BY <1>4, <1>5, <1>7
    <3> HIDE DEF q
    <3> QED BY <2>1, <2>2, <2>3, <3>1
  <2> QED BY <1>4, <1>5, <1>7, <2>4, ProductCancel
<1>9. extra(n) = Smaller(q, m)
  <2>1. extra(n) = Smaller(Quotient(IF r = "MilliCPU" THEN Wrap(c[n] * m) ELSE c[n] * m, d[n]), m)
    BY <1>5 DEF extra
  <2> QED BY <1>6, <1>7, <2>1
<1> HIDE DEF q
<1>10. extra(n) = q
  BY <1>5, <1>7, <1>8, <1>9 DEF Smaller
<1> QED BY <1>2, <1>3, <1>5, <1>7, <1>10 DEF q, m, u, al
LEMMA WriteExtraNode ==
    ASSUME Inv, NEW n \in Nodes, NodeInv(n), WriteExtra(n) PROVE NodeInv(n)'
<1> DEFINE k == cur[n]
           r == res[n]
           C == Capacity[n][r]
           K == runingPodKeys(n)
           A == Allocs(n, r)
           x == extra(n)
           al == A[k] + x
<1>1. /\ pc[n] = "extra" /\ cur[n] # NoKey /\ Write(n, record[n].alloc[r] + x) /\ r \in Resources
      /\ c' = c /\ d' = d
  BY DEF WriteExtra, Inv, TypeOK
<1>2. record[n].alloc[r] + x \in Int
  <2>1. Within(record[n]) /\ d[n] > 0 /\ record[n].alloc[r] \in Int
    BY <1>1 DEF Inv, TypeOK, Record, Amounts
  <2> QED BY <2>1, ExtraWithin DEF Inv
<1>3. /\ k \in K /\ k \in Rest(n) /\ k \notin Dealt(n) /\ Dealt(n)' = Dealt(n) \cup {k}
      /\ Rest(n)' = Rest(n) \ {k} /\ runingPodKeys(n)' = K
      /\ Sole(n)' = Sole(n) /\ pc' = pc /\ res' = res /\ demand' = demand /\ request' = request
      /\ Holds(n)' /\ Totals(n)' /\ Uses(n, r)' = Uses(n, r)
  BY <1>1, <1>2, WriteFacts
<1>4. ASSUME Sole(n) PROVE (Records(n) /\ Guaranteed(n) /\ Extras(n) /\ Divided(n) /\ Allocated(n))'
  <2> DEFINE m == Uses(n, r)[k] - A[k]
             a == c[n]
             e == d[n]
             given == SumOf(K, A) - (C - a)
             missing == SumOf(Rest(n), Uses(n, r)) - SumOf(Rest(n), A)
             N == Cardinality(Dealt(n))
  <2>1. /\ m \in Nat /\ A[k] \in Nat /\ record[n].alloc[r] = A[k]
        /\ x = (a * m) \div e /\ x \in Nat
    BY <1>1, <1>4, ExtraValue
  <2> HIDE DEF x
  <2>2. al \in Nat /\ Write(n, al)
    BY <1>1, <2>1
  <2>3. Records(n)' /\ Divided(n)' /\ Allocated(n)'
    <3>1. request[n][r] <= C => al >= Smaller(pods[n][k].request[r], Usage(n, k)[r])
      <4>1. request[n][r] <= C => A[k] >= Smaller(pods[n][k].request[r], Usage(n, k)[r])
        BY <1>1, <1>3, <1>4, NodeFacts DEF NodeInv, Records, Entered
      <4>2. Smaller(pods[n][k].request[r], Usage(n, k)[r]) \in Int
        BY <1>1, <1>3, NodeFacts DEF Smaller
      <4> QED BY <2>1, <4>1, <4>2
    <3> HIDE DEF al
    <3> QED BY <1>1, <1>4, <2>2, <3>1, WriteKeeps
  <2>4. Guaranteed(n)'
    BY <1>1, <1>3 DEF Guaranteed
  <2>5. Extras(n)'
    <3>1. /\ SumOf(Rest(n)', Allocs(n, r)') = SumOf(Rest(n), A) - A[k]
          /\ SumOf(K, Allocs(n, r)') = SumOf(K, A) - A[k] + al
          /\ SumOf(K, A) \in Nat /\ SumOf(Rest(n), A) \in Nat
      <4> HIDE DEF al
      <4> QED BY <1>1, <1>4, <2>2, WriteSums
    <3>2. SumOf(Rest(n)', Uses(n, r)') = SumOf(Rest(n), Uses(n, r)) - Uses(n, r)[k]
          /\ SumOf(Rest(n), Uses(n, r)) \in Nat /\ Uses(n, r)[k] \in Nat
      <4>1. /\ IsFiniteSet(Rest(n)) /\ Rest(n) \subseteq K
            /\ \A j \in K : Uses(n, r)[j] \in Nat
        BY <1>1, NodeFacts, Partition DEF NodeInv
      <4>2. SumOf(Rest(n), Uses(n, r)) = SumOf(Rest(n) \ {k}, Uses(n, r)) + Uses(n, r)[k]
        BY <1>3, <4>1, SumRemove
      <4>3. SumOf(Rest(n) \ {k}, Uses(n, r)) \in Nat
        <5>1. IsFiniteSet(Rest(n) \ {k})
          BY <4>1, FS_RemoveElement
        <5> QED BY <4>1, <5>1, UnitsFinite
      <4> QED BY <1>3, <4>1, <4>2, <4>3, UnitsFinite
    <3>3. Cardinality(Dealt(n)') = N + 1 /\ N \in Nat
      BY <1>3, Partition, FS_AddElement DEF NodeInv
    <3>4. /\ a > 0 /\ a <= C /\ e > a /\ e - a = demand[n][r] - C
          /\ e * given <= a * (e - missing)
          /\ e * given >= a * (e - missing) - (e - 1) * N
      BY <1>1, <1>4 DEF NodeInv, Extras
    <3>5. a \in Nat /\ e \in Nat \ {0} /\ C \in Nat
      <4>1. a \in Int /\ e \in Int
        BY DEF Inv, TypeOK
      <4> QED BY <1>1, <3>4, <4>1, NodeFacts
    <3>6. given \in Int /\ missing \in Int
      BY <3>1, <3>2, <3>5
    <3>7. /\ SumOf(K, Allocs(n, r)') - (C - a) = given + x
          /\ e - (SumOf(Rest(n)', Uses(n, r)') - SumOf(Rest(n)', Allocs(n, r)'))
                 = (e - missing) + m
      BY <2>1, <3>1, <3>2, <3>5
    <3> HIDE DEF given, missing, N, m, a, e
    <3>8. /\ e * (given + x) <= a * ((e - missing) + m)
          /\ e * (given + x) >= a * ((e - missing) + m) - (e - 1) * (N + 1)
      <4>1. e - missing \in Int
        BY <3>5, <3>6
      <4> QED BY <2>1, <3>3, <3>4, <3>5, <3>6, <4>1, ExtraStep
    <3>9. c'[n] = a /\ d'[n] = e
      BY <1>1 DEF a, e
    <3> QED BY <1>1, <1>3, <3>3, <3>4, <3>7, <3>8, <3>9 DEF Extras
  <2> QED BY <2>3, <2>4, <2>5
<1> QED BY <1>3, <1>4 DEF NodeInv
-----------------------------------------------------------------------------
(* Steps of a goroutine that count and sum; all steps.                     *)

\* Nothing that the stages after the division say changes but what they sum.
LEMMA AfterwardsNode ==
    ASSUME Inv, NEW n \in Nodes, NodeInv(n), pods' = pods, podsMetrics' = podsMetrics,
           res' = res, cur' = cur, demand' = demand, request' = request,
           pc[n] \in Shared, pc'[n] \in Shared,
           Sole(n) => Allocated(n)'
    PROVE  NodeInv(n)'
<1>1. /\ runingPodKeys(n)' = runingPodKeys(n) /\ Sole(n)' = Sole(n) /\ cur[n] = NoKey
      /\ \A j : Usage(n, j)' = Usage(n, j)
      /\ \A q \in Resources : Allocs(n, q)' = Allocs(n, q)
  BY DEF runingPodKeys, Sole, Exclusive, NoOverflow, Usage, Allocs, NodeInv, Holds, Shared
<1>2. Holds(n)' /\ Totals(n)'
  BY <1>1, TotalsKept DEF NodeInv, Holds, Shared
<1>3. \A k, q : ~Fresh(n, k, q)'
  BY DEF Fresh, Sharing, Shared
<1>4. \A k : Entered(n, k)
  BY DEF Entered, Shared
<1>5. Sole(n) => Records(n)'
  BY <1>1, <1>3, <1>4 DEF NodeInv, Records
<1>6. (Guaranteed(n) /\ Extras(n))'
  BY DEF Guaranteed, Extras, Shared
<1>7. Sole(n) => Divided(n)'
  <2>1. \A q : Final(n, q)
    BY DEF Final, Shared
  <2> QED BY <1>1, <2>1 DEF NodeInv, Divided
<1> QED BY <1>1, <1>2, <1>5, <1>6, <1>7 DEF NodeInv

LEMMA CountQoSNode ==
    ASSUME Inv, NEW n \in Nodes, NodeInv(n), NEW k \in Keys, CountQoS(n, k) PROVE NodeInv(n)'
<1>1. /\ pc[n] = "qos" /\ pc' = pc /\ allocated' = allocated
      /\ pods' = pods /\ podsMetrics' = podsMetrics /\ res' = res /\ cur' = cur
      /\ demand' = demand /\ request' = request
  BY DEF CountQoS, totalVars
<1>2. Sole(n) => Allocated(n)'
  BY <1>1 DEF NodeInv, Allocated
<1> QED BY <1>1, <1>2, AfterwardsNode DEF Shared

LEMMA SumAllocationNode ==
    ASSUME Inv, NEW n \in Nodes, NodeInv(n), NEW k \in Keys, SumAllocation(n, k) PROVE NodeInv(n)'
<1>1. /\ pc[n] = "sum" /\ pc' = pc /\ k \in todo[n] /\ todo'[n] = todo[n] \ {k}
      /\ pods' = pods /\ podsMetrics' = podsMetrics /\ res' = res /\ cur' = cur
      /\ demand' = demand /\ request' = request /\ cur[n] = NoKey
      /\ allocated'[n] = [r \in Resources |-> allocated[n][r] + podsMetrics[k].alloc[r]]
  BY DEF SumAllocation, totalVars, Inv, TypeOK, NodeInv, Holds
<1>2. Rest(n)' = Rest(n) \ {k} /\ k \in Rest(n)
  BY <1>1 DEF Rest
<1>3. Dealt(n)' = Dealt(n) \cup {k} /\ k \notin Dealt(n) /\ k \in runingPodKeys(n)
  BY <1>1, <1>2, DealtWith DEF NodeInv
<1>4. ASSUME Sole(n) PROVE Allocated(n)'
  <2>1. ASSUME NEW r \in Resources PROVE allocated'[n][r] = SumOf(Dealt(n)', Allocs(n, r)')
    <3>1. Allocs(n, r)' = Allocs(n, r)
      BY <1>1 DEF Allocs, runingPodKeys
    <3>2. \A j \in runingPodKeys(n) : Allocs(n, r)[j] \in Nat
      <4>1. \A j \in runingPodKeys(n) : Entered(n, j)
        BY <1>1 DEF Entered
      <4> QED BY <1>4, <4>1, NodeFacts DEF NodeInv, Records
    <3>3. IsFiniteSet(Dealt(n)) /\ Dealt(n) \subseteq runingPodKeys(n)
      BY Partition DEF NodeInv
    <3>4. SumOf(Dealt(n) \cup {k}, Allocs(n, r)) = SumOf(Dealt(n), Allocs(n, r)) + Allocs(n, r)[k]
      BY <1>3, <3>2, <3>3, SumAdd
    <3>5. allocated[n][r] = SumOf(Dealt(n), Allocs(n, r))
      BY <1>1, <1>4 DEF NodeInv, Allocated
    <3>6. Allocs(n, r)[k] = podsMetrics[k].alloc[r]
      BY <1>3, NodeFacts
    <3> QED BY <1>1, <1>3, <3>1, <3>4, <3>5, <3>6
  <2> QED BY <1>1, <2>1 DEF Allocated
<1> QED BY <1>1, <1>4, AfterwardsNode DEF Shared

LEMMA AddQoSNode == ASSUME Inv, NEW n \in Nodes, NodeInv(n), AddQoS(n) PROVE NodeInv(n)'
<1>1. /\ pc[n] = "sum" /\ pc'[n] = "addNum" /\ allocated' = allocated
      /\ todo[n] = {} /\ cur[n] = NoKey
      /\ pods' = pods /\ podsMetrics' = podsMetrics /\ res' = res /\ cur' = cur
      /\ demand' = demand /\ request' = request
  BY DEF AddQoS, Ended, totalVars, Inv, TypeOK
<1>2. /\ Dealt(n) = runingPodKeys(n) /\ runingPodKeys(n)' = runingPodKeys(n)
      /\ \A r \in Resources : Allocs(n, r)' = Allocs(n, r)
  BY <1>1 DEF Dealt, Rest, Allocs, runingPodKeys
<1>3. Sole(n) => Allocated(n)'
  BY <1>1, <1>2 DEF NodeInv, Allocated
<1> QED BY <1>1, <1>3, AfterwardsNode DEF Shared

\* The goroutine ends, or all return.
LEMMA LastNode ==
    ASSUME Inv, NEW n \in Nodes, NodeInv(n), pods' = pods, podsMetrics' = podsMetrics,
           res' = res, cur' = cur, demand' = demand, request' = request, allocated' = allocated,
           pc[n] \in {"addNum", "done"}, pc'[n] \in {"done", "returned"}
    PROVE  NodeInv(n)'
<1>1. runingPodKeys(n)' = runingPodKeys(n) /\ \A r \in Resources : Allocs(n, r)' = Allocs(n, r)
  BY DEF Allocs, runingPodKeys
<1>2. Sole(n) => Allocated(n)'
  BY <1>1 DEF NodeInv, Allocated
<1> QED BY <1>2, AfterwardsNode DEF Shared

\* A goroutine changes no variable of another.
LEMMA OtherVariables ==
    ASSUME TypeOK, NEW n \in Nodes, NextNode(n), NEW m \in Nodes \ {n}
    PROVE  /\ pods' = pods /\ pc'[m] = pc[m] /\ res'[m] = res[m] /\ todo'[m] = todo[m]
           /\ cur'[m] = cur[m] /\ record'[m] = record[m] /\ c'[m] = c[m] /\ d'[m] = d[m]
           /\ allocated'[m] = allocated[m] /\ demand'[m] = demand[m]
           /\ request'[m] = request[m] /\ qos'[m] = qos[m]
<1> USE DEF totalVars, sumVars, estimateVars, TypeOK
<1>1. CASE \E k \in Keys : AddTotals(n, k)
  BY <1>1 DEF AddTotals
<1>2. CASE EndTotals(n)
  BY <1>2 DEF EndTotals, Continue
<1>3. CASE \E k \in Keys : Put(n, k)
  BY <1>3 DEF Put
<1>4. CASE EndPut(n)
  BY <1>4 DEF EndPut, Continue
<1>5. CASE whichSharePolicy(n)
  BY <1>5 DEF whichSharePolicy, NextResource, Continue
<1>6. CASE \E k \in Keys : Read(n, k)
  BY <1>6 DEF Read
<1>7. CASE WriteGuarantee(n)
  BY <1>7 DEF WriteGuarantee, Write
<1>8. CASE EndGuarantee(n)
  BY <1>8 DEF EndGuarantee, NextResource, Continue
<1>9. CASE WriteExtra(n)
  BY <1>9 DEF WriteExtra, Write
<1>10. CASE EndExtra(n)
  BY <1>10 DEF EndExtra, NextResource, Continue
<1>11. CASE \E k \in Keys : CountQoS(n, k)
  BY <1>11 DEF CountQoS
<1>12. CASE EndQoS(n)
  BY <1>12 DEF EndQoS, Continue
<1>13. CASE \E k \in Keys : SumAllocation(n, k)
  BY <1>13 DEF SumAllocation
<1>14. CASE AddQoS(n)
  BY <1>14 DEF AddQoS
<1>15. CASE AddNum(n)
  BY <1>15 DEF AddNum
<1> QED BY <1>1, <1>2, <1>3, <1>4, <1>5, <1>6, <1>7, <1>8, <1>9, <1>10, <1>11, <1>12,
           <1>13, <1>14, <1>15 DEF NextNode

\* A goroutine changes nothing of what is said of another node.
LEMMA OtherNode ==
    ASSUME Inv, NEW n \in Nodes, NodeInv(n), NextNode(n), NEW m \in Nodes \ {n}, NodeInv(m)
    PROVE  NodeInv(m)'
<1> USE DEF totalVars, sumVars, estimateVars
<1>1. ASSUME Sole(m), NEW j \in runingPodKeys(m) PROVE podsMetrics'[j] = podsMetrics[j]
  <2>1. j \notin runingPodKeys(n) /\ j \in Keys
    BY <1>1, NodeFacts DEF Sole, Exclusive
  <2> DEFINE oneRecord == \E k \in runingPodKeys(n) : \E x : podsMetrics' = [podsMetrics EXCEPT ![k] = x]
  <2>2. podsMetrics' = podsMetrics \/ oneRecord
    <3>1. ASSUME NEW k \in Keys, Put(n, k) PROVE oneRecord
      BY <3>1 DEF Put, Inv
    <3>2. ASSUME NEW al, Write(n, al), cur[n] # NoKey PROVE oneRecord
      BY <3>2 DEF Write, NodeInv, Holds
    <3>3. CASE whichSharePolicy(n) \/ EndGuarantee(n) \/ EndExtra(n)
      BY <3>3 DEF whichSharePolicy, EndGuarantee, EndExtra, NextResource, Continue
    <3>4. CASE EndTotals(n) \/ EndPut(n) \/ EndQoS(n) \/ AddQoS(n) \/ AddNum(n)
      BY <3>4 DEF EndTotals, EndPut, EndQoS, AddQoS, AddNum, Continue
    <3>5. CASE \E k \in Keys : AddTotals(n, k) \/ Read(n, k) \/ CountQoS(n, k) \/ SumAllocation(n, k)
      BY <3>5 DEF AddTotals, Read, CountQoS, SumAllocation
    <3>6. WriteGuarantee(n) => cur[n] # NoKey /\ Write(n, guarantee(n))
      BY DEF WriteGuarantee
    <3>7. WriteExtra(n) => cur[n] # NoKey /\ Write(n, record[n].alloc[res[n]] + extra(n))
      BY DEF WriteExtra
    <3> QED BY <3>1, <3>2, <3>3, <3>4, <3>5, <3>6, <3>7 DEF NextNode
  <2> QED BY <2>1, <2>2 DEF Inv, TypeOK
<1> QED BY <1>1, OtherVariables, Untouched DEF Inv

LEMMA OwnNode == ASSUME Inv, NEW n \in Nodes, NodeInv(n), NextNode(n) PROVE NodeInv(n)'
<1>1. CASE AddNum(n)
  <2>1. /\ pods' = pods /\ podsMetrics' = podsMetrics /\ res' = res /\ cur' = cur
        /\ demand' = demand /\ request' = request /\ allocated' = allocated
        /\ pc[n] = "addNum" /\ pc'[n] = "done"
    BY <1>1 DEF AddNum, totalVars, Inv, TypeOK
  <2> QED BY <2>1, LastNode
<1> QED BY <1>1, AddTotalsNode, EndTotalsNode, PutNode, EndPutNode, PolicyNode, ReadNode,
           WriteGuaranteeNode, EndGuaranteeNode, WriteExtraNode, EndExtraNode, CountQoSNode,
           EndQoSNode, SumAllocationNode, AddQoSNode DEF NextNode

\* The invariant of all nodes.
ShareInv == \A n \in Nodes : NodeInv(n)

LEMMA NextShare == ASSUME Inv, ShareInv, [Next]_vars PROVE ShareInv'
<1>1. ASSUME NEW n \in Nodes, NextNode(n) PROVE ShareInv'
  BY <1>1, OwnNode, OtherNode DEF ShareInv
<1>2. CASE Estimate
  <2>1. /\ pods' = pods /\ podsMetrics' = podsMetrics /\ res' = res /\ cur' = cur
        /\ demand' = demand /\ request' = request /\ allocated' = allocated
        /\ \A n \in Nodes : pc[n] = "done" /\ pc'[n] = "returned"
    BY <1>2 DEF Estimate, totalVars
  <2> QED BY <2>1, LastNode DEF ShareInv
<1>3. CASE UNCHANGED vars
  BY <1>3, Untouched DEF ShareInv, vars, totalVars, goroutineVars
<1> QED BY <1>1, <1>2, <1>3 DEF Next

LEMMA AlwaysShared == Spec => [](Inv /\ ShareInv)
<1>1. Init => ShareInv
  BY InitNode DEF ShareInv
<1>2. Inv /\ ShareInv /\ [Next]_vars => Inv' /\ ShareInv'
  BY NextShare, NextNodeInv, EstimateInv, StutterInv DEF Next
<1> QED BY InitInv, <1>1, <1>2, PTL DEF Spec

-----------------------------------------------------------------------------
(* The theorems.                                                           *)

\* The pods of a node are given no more than its capacity and, if they ask for more,
\* all of it but less than one unit for each pod (metrics.go:128, metrics.go:297).
THEOREM MetricsCapacityShared == Spec => []CapacityShared
<1>1. ASSUME Inv, ShareInv PROVE CapacityShared
  <2> SUFFICES ASSUME NEW n \in Nodes, NEW r \in Resources,
                      pc[n] \in {"addNum", "done", "returned"}, Exclusive(n), NoOverflow(n)
               PROVE  /\ allocated[n][r] <= Capacity[n][r]
                      /\ demand[n][r] > Capacity[n][r] =>
                             allocated[n][r] > Capacity[n][r] - Cardinality(runingPodKeys(n))
    BY DEF CapacityShared
  <2>1. Final(n, r) /\ Divided(n) /\ Allocated(n)
    BY <1>1 DEF ShareInv, NodeInv, Sole, Final, Shared
  <2>2. allocated[n][r] = SumOf(runingPodKeys(n), Allocs(n, r))
    BY <2>1 DEF Allocated
  <2> QED BY <2>1, <2>2 DEF Divided
<1> QED BY <1>1, AlwaysShared, PTL

\* Where the requests on a node are within its capacity, each pod gets what it requests,
\* or all that it uses (metrics.go:133, metrics.go:192).
THEOREM MetricsGuaranteeKept == Spec => []GuaranteeKept
<1>1. ASSUME Inv, ShareInv PROVE GuaranteeKept
  <2> SUFFICES ASSUME NEW n \in Nodes, NEW r \in Resources, NEW k \in runingPodKeys(n),
                      pc[n] \in {"qos", "sum", "addNum", "done", "returned"},
                      Exclusive(n), NoOverflow(n), request[n][r] <= Capacity[n][r]
               PROVE  podsMetrics[k].alloc[r] >= Smaller(pods[n][k].request[r], Usage(n, k)[r])
    BY DEF GuaranteeKept
  <2> QED BY <1>1 DEF ShareInv, NodeInv, Sole, Records, Entered
<1> QED BY <1>1, AlwaysShared, PTL
-----------------------------------------------------------------------------
(* The quality of service.                                                 *)

\* All pods are served where names are on one node and requests within capacities.
AllServed ==
    \A n \in Nodes : Sole(n) /\ \A r \in Resources : request[n][r] <= Capacity[n][r]

\* The pods of the nodes that have reached these stages.
Counted(stages) == UNION {runingPodKeys(n) : n \in {m \in Nodes : pc[m] \in stages}}

Added == {"addNum", "done", "returned"}
Ready == {"done", "returned"}

\* Each goroutine counts all its pods as served, and the sums over the nodes are
\* those of the nodes that have added theirs.
QoSCounted(n) ==
    qos[n] = IF pc[n] \in Shared \ {"qos"} THEN Cardinality(runingPodKeys(n))
             ELSE IF pc[n] = "qos" THEN Cardinality(Dealt(n)) ELSE 0
SumsCounted ==
    /\ IsFiniteSet(Counted(Added)) /\ podQoses = Cardinality(Counted(Added))
    /\ IsFiniteSet(Counted(Ready)) /\ numPods = Cardinality(Counted(Ready))
Returned ==
    (\E n \in Nodes : pc[n] = "returned") =>
        /\ \A n \in Nodes : pc[n] = "returned"
        /\ TargetQoS < 1000 => penaltyUpdated /\ penalty < MaxPenalty
CountInv ==
    /\ penalty <= MaxPenalty
    /\ AllServed => (\A n \in Nodes : QoSCounted(n)) /\ SumsCounted /\ Returned

\* Requests only grow while totals are added.
LEMMA ServedBefore ==
    ASSUME Inv, ShareInv, NEW n \in Nodes, NextNode(n), AllServed'
    PROVE  AllServed
<1> USE DEF totalVars, sumVars, estimateVars
<1>1. pods' = pods
  BY DEF NextNode, AddTotals, EndTotals, Put, EndPut, whichSharePolicy, Read, WriteGuarantee,
         EndGuarantee, WriteExtra, EndExtra, CountQoS, EndQoS, SumAllocation, AddQoS, AddNum,
         Write, NextResource, Continue
<1>2. \A m \in Nodes, r \in Resources : request'[m][r] >= request[m][r]
  <2>1. CASE request' = request
    BY <2>1 DEF Inv, TypeOK
  <2>2. ASSUME NEW k \in Keys, AddTotals(n, k)
        PROVE  \A m \in Nodes, r \in Resources : request'[m][r] >= request[m][r]
    <3>1. k \in runingPodKeys(n)
      BY <2>2 DEF AddTotals, Inv
    <3>2. \A r \in Resources : pods[n][k].request[r] \in Nat
      BY <3>1, NodeFacts
    <3>3. request \in [Nodes -> [Resources -> Nat]]
      BY DEF Inv, TypeOK
    <3>4. \/ request' = request
          \/ request' = [request EXCEPT ![n] = [r \in Resources |-> @[r] + pods[n][k].request[r]]]
      BY <2>2 DEF AddTotals
    <3> QED BY <3>2, <3>3, <3>4
  <2>3. request' = request \/ \E k \in Keys : AddTotals(n, k)
    BY DEF NextNode, EndTotals, Put, EndPut, whichSharePolicy, Read, WriteGuarantee,
           EndGuarantee, WriteExtra, EndExtra, CountQoS, EndQoS, SumAllocation, AddQoS, AddNum,
           Write, NextResource, Continue
  <2> QED BY <2>1, <2>2, <2>3
<1>3. \A m \in Nodes, r \in Resources :
         request[m][r] \in Nat /\ request'[m][r] \in Nat /\ Capacity[m][r] \in Nat
  <2>1. Inv'
    BY NextNodeInv
  <2> QED BY <2>1, CapacityAssumption DEF Inv, TypeOK
<1>4. \A m \in Nodes : Sole(m)' = Sole(m)
  BY <1>1 DEF Sole, Exclusive, NoOverflow, runingPodKeys
<1> QED BY <1>2, <1>3, <1>4 DEF AllServed

\* A goroutine that is served counts its pods.
LEMMA OwnQoS ==
    ASSUME Inv, NEW n \in Nodes, NodeInv(n), NextNode(n), AllServed, QoSCounted(n)
    PROVE  QoSCounted(n)'
<1> USE DEF totalVars, sumVars, estimateVars
<1>1. qos \in [Nodes -> Nat] /\ pc \in [Nodes -> Stages]
  BY DEF Inv, TypeOK
<1>2. Cardinality({}) = 0
  BY FS_EmptySet
<1>3. ASSUME pods' = pods, qos' = qos, pc[n] \notin Shared, pc'[n] \notin Shared
      PROVE  QoSCounted(n)'
  BY <1>3 DEF QoSCounted, Shared
<1>4. ASSUME NEW stage \in Stages, NEW r \in Resources, Continue(n, stage, r), cur[n] = NoKey
      PROVE  /\ pods' = pods /\ qos' = qos /\ pc'[n] = stage /\ Dealt(n)' = {}
             /\ runingPodKeys(n)' = runingPodKeys(n)
  <2>1. todo'[n] = runingPodKeys(n) /\ cur'[n] = NoKey /\ pods' = pods
    BY <1>4 DEF Continue, Inv, TypeOK
  <2> QED BY <1>1, <1>4, <2>1 DEF Continue, Dealt, Rest, runingPodKeys
<1>5. ASSUME NextResource(n), pc[n] \in Sharing, cur[n] = NoKey PROVE QoSCounted(n)'
  <2>1. {"share", "qos"} \subseteq Stages /\ "Memory" \in Resources
    BY DEF Stages, Resources
  <2>2. CASE Continue(n, "share", "Memory")
    BY <1>3, <1>4, <1>5, <2>1, <2>2 DEF Sharing, Shared
  <2>3. CASE Continue(n, "qos", "Memory")
    <3>1. qos' = qos /\ pc'[n] = "qos" /\ Dealt(n)' = {}
      BY <1>4, <1>5, <2>1, <2>3
    <3> QED BY <1>2, <1>5, <3>1 DEF QoSCounted, Sharing, Shared
  <2> QED BY <1>5, <2>2, <2>3 DEF NextResource
<1>6. CASE EndTotals(n)
  <2>1. Continue(n, "put", "MilliCPU") /\ pc[n] = "total" /\ cur[n] = NoKey
        /\ "put" \in Stages /\ "MilliCPU" \in Resources
    BY <1>6 DEF EndTotals, Ended, Stages, Resources
  <2> QED BY <1>3, <1>4, <2>1 DEF Shared
<1>7. CASE EndPut(n)
  <2>1. Continue(n, "share", "MilliCPU") /\ pc[n] = "put" /\ cur[n] = NoKey
        /\ "share" \in Stages /\ "MilliCPU" \in Resources
    BY <1>7 DEF EndPut, Ended, Stages, Resources
  <2> QED BY <1>3, <1>4, <2>1 DEF Shared
<1>8. CASE whichSharePolicy(n)
  <2>1. pc[n] = "share" /\ cur[n] = NoKey /\ res[n] \in Resources /\ "guarantee" \in Stages
    BY <1>8 DEF whichSharePolicy, NodeInv, Holds, Inv, TypeOK, Stages
  <2>2. NextResource(n) \/ Continue(n, "guarantee", res[n])
    BY <1>8 DEF whichSharePolicy
  <2> QED BY <1>3, <1>4, <1>5, <2>1, <2>2 DEF Sharing, Shared
<1>9. CASE EndGuarantee(n)
  <2>1. pc[n] = "guarantee" /\ cur[n] = NoKey /\ res[n] \in Resources /\ "extra" \in Stages
    BY <1>9 DEF EndGuarantee, Ended, Inv, TypeOK, Stages
  <2>2. NextResource(n) \/ Continue(n, "extra", res[n])
    BY <1>9 DEF EndGuarantee
  <2> QED BY <1>3, <1>4, <1>5, <2>1, <2>2 DEF Sharing, Shared
<1>10. CASE EndExtra(n)
  BY <1>5, <1>10 DEF EndExtra, Ended, Sharing
<1>11. CASE \E k \in Keys : AddTotals(n, k) \/ Put(n, k) \/ Read(n, k)
  <2>1. pods' = pods /\ qos' = qos /\ pc' = pc /\ pc[n] \notin Shared
    BY <1>11 DEF AddTotals, Put, Read, Shared
  <2> QED BY <1>3, <2>1
<1>12. CASE WriteGuarantee(n) \/ WriteExtra(n)
  <2>1. pods' = pods /\ qos' = qos /\ pc' = pc /\ pc[n] \notin Shared
    BY <1>12 DEF WriteGuarantee, WriteExtra, Write, Shared
  <2> QED BY <1>3, <2>1
<1>13. ASSUME NEW k \in Keys, CountQoS(n, k) PROVE QoSCounted(n)'
  <2>1. /\ pc[n] = "qos" /\ pc' = pc /\ k \in todo[n] /\ todo'[n] = todo[n] \ {k}
        /\ pods' = pods /\ cur' = cur /\ cur[n] = NoKey
        /\ qos'[n] = qos[n] + IF Served(podsMetrics[k]) THEN 1 ELSE 0
    BY <1>1, <1>13 DEF CountQoS, Inv, TypeOK, NodeInv, Holds
  <2>2. Rest(n)' = Rest(n) \ {k} /\ k \in Rest(n)
    BY <2>1 DEF Rest
  <2>3. Dealt(n)' = Dealt(n) \cup {k} /\ k \notin Dealt(n) /\ k \in runingPodKeys(n)
    BY <2>1, <2>2, DealtWith DEF NodeInv
  <2>4. Served(podsMetrics[k])
    <3>1. ASSUME NEW r \in Resources
          PROVE  \/ podsMetrics[k].usage[r] <= podsMetrics[k].alloc[r]
                 \/ podsMetrics[k].alloc[r] >= podsMetrics[k].request[r]
      <4>1. /\ podsMetrics[k].usage = Usage(n, k) /\ podsMetrics[k].request = pods[n][k].request
            /\ podsMetrics[k].alloc[r] >= Smaller(pods[n][k].request[r], Usage(n, k)[r])
        BY <2>1, <2>3 DEF AllServed, NodeInv, Records, Entered
      <4>2. /\ Usage(n, k)[r] \in Nat /\ pods[n][k].request[r] \in Nat
            /\ podsMetrics[k].alloc[r] \in Int
        BY <2>3, NodeFacts
      <4> QED BY <4>1, <4>2 DEF Smaller
    <3> QED BY <3>1 DEF Served
  <2>5. Cardinality(Dealt(n) \cup {k}) = Cardinality(Dealt(n)) + 1
    BY <2>3, Partition, FS_AddElement DEF NodeInv
  <2>6. qos[n] = Cardinality(Dealt(n))
    BY <2>1 DEF QoSCounted
  <2> QED BY <2>1, <2>3, <2>4, <2>5, <2>6 DEF QoSCounted
<1>14. CASE EndQoS(n)
  <2>1. Continue(n, "sum", "Memory") /\ pc[n] = "qos" /\ cur[n] = NoKey /\ todo[n] = {}
        /\ "sum" \in Stages /\ "Memory" \in Resources
    BY <1>14 DEF EndQoS, Ended, Stages, Resources
  <2>2. Dealt(n) = runingPodKeys(n)
    BY <2>1 DEF Dealt, Rest
  <2>3. qos' = qos /\ pc'[n] = "sum" /\ runingPodKeys(n)' = runingPodKeys(n)
    BY <1>4, <2>1
  <2> QED BY <2>1, <2>2, <2>3 DEF QoSCounted, Shared
<1>15. CASE (\E k \in Keys : SumAllocation(n, k)) \/ AddQoS(n) \/ AddNum(n)
  <2>1. pods' = pods /\ qos' = qos /\ {pc[n], pc'[n]} \subseteq Shared \ {"qos"}
    BY <1>1, <1>15 DEF SumAllocation, AddQoS, AddNum, Ended, Shared
  <2> QED BY <2>1 DEF QoSCounted, runingPodKeys
<1> QED BY <1>6, <1>7, <1>8, <1>9, <1>10, <1>11, <1>12, <1>13, <1>14, <1>15 DEF NextNode

LEMMA InitCount ==
    ASSUME Init, \A p \in Penalties : p <= MaxPenalty PROVE CountInv
<1>1. \A n \in Nodes : pc[n] = "total" /\ qos[n] = 0
  BY DEF Init
<1>2. Counted(Added) = {} /\ Counted(Ready) = {}
  BY <1>1 DEF Counted, Added, Ready
<1>3. (\A n \in Nodes : QoSCounted(n)) /\ Returned
  BY <1>1 DEF QoSCounted, Returned, Shared
<1>4. SumsCounted
  BY <1>2, FS_EmptySet DEF SumsCounted, Init
<1> QED BY <1>3, <1>4 DEF CountInv, Init

\* A node that reaches the stages adds its pods, which are on no other node.
LEMMA OneMore ==
    ASSUME Inv, AllServed, NEW n \in Nodes, NEW stages, pods' = pods,
           pc[n] \notin stages, pc'[n] \in stages, \A m \in Nodes \ {n} : pc'[m] = pc[m],
           IsFiniteSet(Counted(stages))
    PROVE  /\ IsFiniteSet(Counted(stages)')
           /\ Cardinality(Counted(stages)')
                = Cardinality(Counted(stages)) + Cardinality(runingPodKeys(n))
<1> DEFINE S == Counted(stages)
           K == runingPodKeys(n)
<1>1. Counted(stages)' = S \cup K
  BY DEF Counted, runingPodKeys
<1>2. S \cap K = {}
  BY DEF Counted, AllServed, Sole, Exclusive
<1>3. IsFiniteSet(K) /\ Cardinality(K) \in Nat /\ Cardinality(S) \in Nat
  BY NodeFacts, FS_CardinalityType
<1> HIDE DEF S, K
<1>4. IsFiniteSet(S \cup K) /\ Cardinality(S \cup K) = Cardinality(S) + Cardinality(K) - Cardinality({})
  BY <1>2, <1>3, FS_Union DEF S
<1>5. Cardinality({}) = 0
  BY FS_EmptySet
<1> QED BY <1>1, <1>3, <1>4, <1>5 DEF S, K

\* No node reaches or leaves the stages.
LEMMA NoneMore ==
    ASSUME NEW stages, pods' = pods, \A m \in Nodes : pc'[m] \in stages <=> pc[m] \in stages
    PROVE  Counted(stages)' = Counted(stages)
BY DEF Counted, runingPodKeys

LEMMA NextCount ==
    ASSUME Inv, ShareInv, CountInv, NEW n \in Nodes, NextNode(n)
    PROVE  CountInv'
<1> USE DEF totalVars, sumVars, estimateVars
<1>1. penalty' = penalty /\ penaltyUpdated' = penaltyUpdated
  BY DEF NextNode, AddTotals, EndTotals, Put, EndPut, whichSharePolicy, Read, WriteGuarantee,
         EndGuarantee, WriteExtra, EndExtra, CountQoS, EndQoS, SumAllocation, AddQoS, AddNum,
         Write, NextResource, Continue
<1>2. ASSUME AllServed'
      PROVE  ((\A m \in Nodes : QoSCounted(m)) /\ SumsCounted /\ Returned)'
  <2>1. AllServed /\ (\A m \in Nodes : QoSCounted(m)) /\ SumsCounted /\ Returned
    BY <1>2, ServedBefore DEF CountInv
  <2>2. \A m \in Nodes \ {n} : pods' = pods /\ pc'[m] = pc[m] /\ Dealt(m)' = Dealt(m) /\ qos'[m] = qos[m]
    BY OtherVariables DEF Inv, Dealt, Rest, runingPodKeys
  <2>3. \A m \in Nodes : QoSCounted(m)'
    <3>1. QoSCounted(n)'
      BY <2>1, OwnQoS DEF ShareInv
    <3>2. \A m \in Nodes \ {n} : QoSCounted(m)'
      BY <2>1, <2>2 DEF QoSCounted, runingPodKeys
    <3> QED BY <3>1, <3>2
  <2>4. CASE AddQoS(n)
    <3>1. /\ pc[n] = "sum" /\ pc'[n] = "addNum" /\ pods' = pods
          /\ podQoses' = podQoses + qos[n] /\ numPods' = numPods
      BY <2>4 DEF AddQoS, Ended, Inv, TypeOK
    <3>2. qos[n] = Cardinality(runingPodKeys(n))
      BY <2>1, <3>1 DEF QoSCounted, Shared
    <3>3. /\ IsFiniteSet(Counted(Added)')
          /\ Cardinality(Counted(Added)') = Cardinality(Counted(Added)) + Cardinality(runingPodKeys(n))
      BY <2>1, <2>2, <3>1, OneMore DEF Added, SumsCounted
    <3>4. Counted(Ready)' = Counted(Ready)
      BY <2>2, <3>1, NoneMore DEF Ready
    <3>5. SumsCounted'
      BY <2>1, <3>1, <3>2, <3>3, <3>4 DEF SumsCounted
    <3> QED BY <1>1, <2>1, <2>2, <2>3, <3>1, <3>5 DEF Returned
  <2>5. CASE AddNum(n)
    <3>1. /\ pc[n] = "addNum" /\ pc'[n] = "done" /\ pods' = pods
          /\ podQoses' = podQoses /\ numPods' = numPods + Cardinality(runingPodKeys(n))
      BY <2>5 DEF AddNum, Inv, TypeOK
    <3>2. /\ IsFiniteSet(Counted(Ready)')
          /\ Cardinality(Counted(Ready)') = Cardinality(Counted(Ready)) + Cardinality(runingPodKeys(n))
      BY <2>1, <2>2, <3>1, OneMore DEF Ready, SumsCounted
    <3>3. Counted(Added)' = Counted(Added)
      BY <2>2, <3>1, NoneMore DEF Added
    <3>4. SumsCounted'
      BY <2>1, <3>1, <3>2, <3>3 DEF SumsCounted
    <3> QED BY <1>1, <2>1, <2>2, <2>3, <3>1, <3>4 DEF Returned
  <2>6. CASE ~AddQoS(n) /\ ~AddNum(n)
    <3>1. /\ podQoses' = podQoses /\ numPods' = numPods /\ pods' = pods
          /\ pc[n] \notin Added /\ pc'[n] \notin Added
      <4> USE DEF Inv, TypeOK, Added
      <4>1. CASE \/ EndTotals(n) \/ EndPut(n) \/ whichSharePolicy(n) \/ EndGuarantee(n)
                 \/ EndExtra(n) \/ EndQoS(n)
        BY <4>1 DEF EndTotals, EndPut, whichSharePolicy, EndGuarantee, EndExtra, EndQoS,
                    NextResource, Continue, Ended
      <4>2. CASE \E k \in Keys : AddTotals(n, k) \/ Put(n, k) \/ Read(n, k) \/ CountQoS(n, k)
                                   \/ SumAllocation(n, k)
        BY <4>2 DEF AddTotals, Put, Read, CountQoS, SumAllocation
      <4>3. CASE WriteGuarantee(n) \/ WriteExtra(n)
        BY <4>3 DEF WriteGuarantee, WriteExtra, Write
      <4> QED BY <2>6, <4>1, <4>2, <4>3 DEF NextNode
    <3>2. Counted(Added)' = Counted(Added) /\ Counted(Ready)' = Counted(Ready)
      <4>1. \A m \in Nodes : (pc'[m] \in Added <=> pc[m] \in Added) /\ (pc'[m] \in Ready <=> pc[m] \in Ready)
        BY <2>2, <3>1 DEF Added, Ready
      <4> QED BY <3>1, <4>1, NoneMore
    <3>3. SumsCounted'
      BY <2>1, <3>1, <3>2 DEF SumsCounted
    <3> QED BY <1>1, <2>1, <2>2, <2>3, <3>1, <3>3 DEF Returned, Added
  <2> QED BY <2>4, <2>5, <2>6
<1> QED BY <1>1, <1>2 DEF CountInv, MaxPenalty

\* With all pods served, the quality is 1, above its target.
LEMMA EstimateCount == ASSUME Inv, CountInv, Estimate PROVE CountInv'
<1> USE DEF totalVars, sumVars
<1>1. /\ pods' = pods /\ request' = request /\ qos' = qos /\ todo' = todo /\ cur' = cur
      /\ podQoses' = podQoses /\ numPods' = numPods
      /\ \A n \in Nodes : pc[n] = "done" /\ pc'[n] = "returned"
  BY DEF Estimate
<1>2. penalty' <= MaxPenalty
  <2>1. penalty \in Int /\ penalty <= 3000
    BY DEF Inv, TypeOK, CountInv, MaxPenalty
  <2>2. Larger((penalty * 99) \div 100, 1100) <= 3000
    <3>1. (penalty * 99) \div 100 <= 3000 /\ (penalty * 99) \div 100 \in Int
      BY <2>1
    <3> QED BY <3>1 DEF Larger
  <2>3. Smaller(penalty + (penalty - 1000), 3000) <= 3000
    BY <2>1 DEF Smaller
  <2> QED BY <2>1, <2>2, <2>3 DEF Estimate, MaxPenalty, MinPenalty
<1>3. ASSUME AllServed'
      PROVE  ((\A m \in Nodes : QoSCounted(m)) /\ SumsCounted /\ Returned)'
  <2>1. AllServed
    BY <1>1, <1>3 DEF AllServed, Sole, Exclusive, NoOverflow, runingPodKeys
  <2>2. (\A m \in Nodes : QoSCounted(m)) /\ SumsCounted
    BY <2>1 DEF CountInv
  <2>3. \A m \in Nodes : QoSCounted(m)'
    BY <1>1, <2>2 DEF QoSCounted, Shared, runingPodKeys
  <2>4. Counted(Added)' = Counted(Added) /\ Counted(Ready)' = Counted(Ready)
    <3>1. \A m \in Nodes : {pc[m], pc'[m]} \subseteq Added \cap Ready
      BY <1>1 DEF Added, Ready
    <3> QED BY <1>1, <3>1, NoneMore
  <2>5. SumsCounted'
    BY <1>1, <2>2, <2>4 DEF SumsCounted
  <2>6. podQoses = numPods
    <3>1. Counted(Added) = Counted(Ready)
      BY <1>1 DEF Counted, Added, Ready
    <3> QED BY <2>2, <3>1 DEF SumsCounted
  <2>7. QualityOfService = 1000
    <3>1. numPods \in Nat
      BY DEF Inv, TypeOK
    <3>2. numPods # 0 => (numPods * 1000) \div numPods = 1000
      BY <3>1
    <3> QED BY <2>6, <3>2 DEF QualityOfService
  <2>8. ASSUME TargetQoS < 1000 PROVE penaltyUpdated' /\ penalty' < MaxPenalty
    <3>1. TargetQoS \in Nat
      BY PenaltyAssumption
    <3>2. penaltyUpdated' = TRUE /\ penalty' = Larger((penalty * 99) \div 100, MinPenalty)
      BY <2>7, <2>8, <3>1 DEF Estimate
    <3>3. penalty \in Int /\ penalty <= 3000
      BY DEF Inv, TypeOK, CountInv, MaxPenalty
    <3>4. (penalty * 99) \div 100 < 3000 /\ (penalty * 99) \div 100 \in Int
      BY <3>3
    <3> QED BY <3>2, <3>4 DEF Larger, MaxPenalty, MinPenalty
  <2>9. Returned'
    BY <1>1, <2>8 DEF Returned, MaxPenalty
  <2> QED BY <2>3, <2>5, <2>9
<1> QED BY <1>2, <1>3 DEF CountInv, MaxPenalty

\* The penalty rises only because of over-subscription (metrics.go:304,
\* scheduler.go:165): for some nodes, and a first penalty that MaxPenalty bounds.
THEOREM MetricsNoPenaltyWithoutOverload ==
    ASSUME Nodes # {}, \A p \in Penalties : p <= MaxPenalty
    PROVE  Spec => []NoPenaltyWithoutOverload
<1>1. Init => CountInv
  BY InitCount
<1>2. Inv /\ ShareInv /\ CountInv /\ [Next]_vars => CountInv'
  <2>1. ASSUME Inv, CountInv, UNCHANGED vars PROVE CountInv'
    BY <2>1 DEF CountInv, AllServed, Sole, Exclusive, NoOverflow, runingPodKeys, QoSCounted, Dealt,
                Rest, SumsCounted, Counted, Returned, MaxPenalty, vars, totalVars, sumVars,
                goroutineVars, estimateVars
  <2> QED BY <2>1, NextCount, EstimateCount DEF Next
<1>3. ASSUME CountInv, \A n \in Nodes : pc[n] = "returned",
             \A n \in Nodes : Exclusive(n) /\ NoOverflow(n),
             \A n \in Nodes : \A r \in Resources : request[n][r] <= Capacity[n][r],
             TargetQoS < 1000
      PROVE  podQoses = numPods /\ penaltyUpdated /\ penalty < MaxPenalty
  <2>1. AllServed
    BY <1>3 DEF AllServed, Sole
  <2>2. Counted(Added) = Counted(Ready)
    BY <1>3 DEF Counted, Added, Ready
  <2>3. podQoses = numPods
    BY <1>3, <2>1, <2>2 DEF CountInv, SumsCounted
  <2> QED BY <1>3, <2>1, <2>3 DEF CountInv, Returned
<1>4. CountInv => NoPenaltyWithoutOverload
  BY <1>3 DEF NoPenaltyWithoutOverload
<1> QED BY <1>1, <1>2, <1>4, AlwaysShared, PTL DEF Spec
=============================================================================
