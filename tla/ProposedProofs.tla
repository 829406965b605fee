--------------------------- MODULE ProposedProofs ---------------------------
(***************************************************************************)
(* Proofs about ProposedScheduler, for every cluster, every sequence of    *)
(* extenders, and whatever pods use and plug-ins answer.                   *)
(***************************************************************************)
EXTENDS ProposedStreaks, FIFOProofs

\* A factor of at most 20 tenths leaves at most twice the capacity.
LEMMA TwiceAllocatable ==
    ASSUME NEW a \in Nat, NEW f \in 10..20, NEW r \in Nat, 10 * r <= f * a
    PROVE  r <= 2 * a
<1>1. \/ f = 10 \/ f = 11 \/ f = 12 \/ f = 13 \/ f = 14 \/ f = 15
      \/ f = 16 \/ f = 17 \/ f = 18 \/ f = 19 \/ f = 20
  OBVIOUS
<1>2. 10 * r <= 20 * a
  BY <1>1
<1> QED BY <1>2

Selecting == pc \in {"filter", "prioritize"}

\* The bound holds for the nodes because it holds for each node that is left for
\* the pod at the front, and the factors are within their limits but at first,
\* when nothing is requested.
QueuesGood == Good(pending) /\ Good(failQueue)
FactorsLimited ==
    \/ factor \in [Nodes -> 10..20]
    \/ /\ pc = "submit"
       /\ factor \in [Nodes -> {GlobalOverSubFactor}]
       /\ \A n \in Nodes : GlobalMetrics[n].request = 0
NodesFit ==
    Selecting => /\ ~IsEmpty(pending)
                 /\ \A n \in nodes : Fits(n, FrontPod(pending))

IInv == TypeOK /\ RequestsBounded /\ QueuesGood /\ FactorsLimited /\ NodesFit

LEMMA InitIInv == Init => IInv
<1> SUFFICES ASSUME Init PROVE IInv
  OBVIOUS
<1>1. Good(pending) /\ Good(failQueue)
  BY GoodNew DEF Init
<1>2. TypeOK
  <2>1. pending \in FIFOQueues /\ failQueue \in FIFOQueues
    BY <1>1 DEF Good
  <2>2. Len(Extenders) \in Nat /\ GlobalOverSubFactor \in Nat
    BY ParameterAssumption
  <2> QED BY <2>1, <2>2 DEF Init, TypeOK, NoScore
<1>3. RequestsBounded
  <2> SUFFICES ASSUME NEW n \in Nodes
               PROVE  Request(on[n]) <= 2 * Allocatable[n] /\ Request(info[n]) <= 2 * Allocatable[n]
    BY DEF RequestsBounded
  <2>1. on[n] = {} /\ info[n] = {}
    BY DEF Init
  <2> QED BY <2>1, RequestAssumption, AllocatableAssumption
<1> QED BY <1>1, <1>2, <1>3 DEF IInv, QueuesGood, FactorsLimited, NodesFit, Selecting, Init

\* The pod at the front has a name.
LEMMA FrontIsNamed ==
    ASSUME Good(pending), ~IsEmpty(pending)
    PROVE  FrontPod(pending) \in Named /\ FrontPod(pending) \in Pods
  BY FrontNamed, FrontIndexLeast DEF Good

\* Types of what a failure or the end of a pass leaves behind.
LEMMA ResetType ==
    ASSUME Reset
    PROVE  /\ nodes' \in SUBSET Nodes /\ ext' \in 1 .. Len(Extenders) + 1
           /\ prios' \in [Nodes -> Int] /\ accepted' \in SUBSET Nodes /\ score' \in [Nodes -> Int]
  BY ParameterAssumption DEF Reset, NoScore

LEMMA SubmitIInv == ASSUME IInv, NEW p \in Pods, Submit(p) PROVE IInv'
<1>1. p \in Named
  BY DEF Submit
<1>2. Good(pending') /\ Good(failQueue')
  BY <1>1, GoodPush DEF IInv, QueuesGood, Submit
<1>3. TypeOK'
  <2>1. pending' \in FIFOQueues /\ failQueue' \in FIFOQueues
    BY <1>2 DEF Good
  <2> QED BY <2>1 DEF IInv, TypeOK, Submit, nodeVars, selectVars
<1> QED BY <1>2, <1>3 DEF IInv, RequestsBounded, QueuesGood, FactorsLimited, NodesFit, Selecting,
           Submit, nodeVars, selectVars

\* proposed_scheduler.go:83.
LEMMA StartPassIInv == ASSUME IInv, StartPass PROVE IInv'
<1>1. factor' \in [Nodes -> 10..20]
  <2>1. ASSUME NEW n \in Nodes PROVE nextFactor(n) \in 10..20
    <3>1. CASE factor \in [Nodes -> 10..20]
      <4>1. factor[n] \in 10..20
        BY <3>1
      <4> QED BY <4>1 DEF nextFactor
    <3>2. CASE \A m \in Nodes : GlobalMetrics[m].request = 0
      <4>1. GlobalMetrics[n].request = 0 /\ Allocatable[n] \in Nat
        BY <3>2, AllocatableAssumption
      <4>2. ~Underused(n)
        BY <4>1 DEF Underused
      <4> QED BY <4>2 DEF nextFactor
    <3> QED BY <3>1, <3>2 DEF IInv, FactorsLimited
  <2> QED BY <2>1 DEF StartPass
<1>2. TypeOK'
  BY <1>1 DEF IInv, TypeOK, StartPass, queueVars, nodeVars, selectVars
<1>3. RequestsBounded'
  BY DEF IInv, RequestsBounded, StartPass, nodeVars
<1> QED BY <1>1, <1>2, <1>3 DEF IInv, QueuesGood, FactorsLimited, NodesFit, Selecting,
           StartPass, queueVars

LEMMA FilterIInv == ASSUME IInv, Filter PROVE IInv'
<1>1. Good(pending') /\ Good(failQueue') /\ ~IsEmpty(pending')
        /\ FrontPod(pending') = FrontPod(pending)
  BY GoodFront, FrontStays DEF IInv, QueuesGood, Filter
<1>2. \A n \in nodes' : Fits(n, FrontPod(pending))
  BY DEF Filter, filterWithPlugins
<1>3. TypeOK'
  <2>1. pending' \in FIFOQueues /\ failQueue' \in FIFOQueues
    BY <1>1 DEF Good
  <2>2. nodes' \in SUBSET Nodes /\ accepted' \in SUBSET Nodes
    BY DEF Filter, filterWithPlugins
  <2>3. ext' \in 1 .. Len(Extenders) + 1
    BY ParameterAssumption DEF Filter
  <2> QED BY <2>1, <2>2, <2>3 DEF IInv, TypeOK, Filter, nodeVars
<1>4. NodesFit'
  BY <1>1, <1>2 DEF NodesFit, Filter, Fits
<1> QED BY <1>1, <1>3, <1>4 DEF IInv, RequestsBounded, QueuesGood, FactorsLimited, Filter, nodeVars

\* A pod that failed goes to failQueue, or ends the pass.
LEMMA FailedIInv ==
    ASSUME IInv, Selecting, SetAside \/ EndPass(info) \/ EndPass(on), Reset,
           UNCHANGED <<KeepScheduling, submitted, nodeVars, factor>>
    PROVE  IInv'
<1>1. Good(pending') /\ Good(failQueue')
  <2>1. FrontPod(pending) \in Named
    BY FrontIsNamed DEF IInv, QueuesGood, NodesFit
  <2> QED BY <2>1, GoodPush, GoodPop DEF IInv, QueuesGood, SetAside, EndPass
<1>2. pc' \in {"next", "resubmit", "apply"}
  BY DEF SetAside, EndPass
<1>3. info' = info \/ info' = on
  BY DEF SetAside, EndPass
<1>4. TypeOK'
  <2>1. pending' \in FIFOQueues /\ failQueue' \in FIFOQueues
    BY <1>1 DEF Good
  <2> QED BY <1>2, <1>3, <2>1, ResetType DEF IInv, TypeOK, nodeVars
<1>5. RequestsBounded'
  BY <1>3 DEF IInv, RequestsBounded, nodeVars
<1> QED BY <1>1, <1>2, <1>4, <1>5 DEF IInv, QueuesGood, FactorsLimited, NodesFit, Selecting

LEMMA ExtenderIInv == ASSUME IInv, NEW kept \in SUBSET Nodes, ExtenderFilter(kept) PROVE IInv'
<1>1. nodes' \subseteq nodes /\ accepted' \subseteq accepted
  <2>1. CASE Extenders[ext].filters
    BY <2>1 DEF ExtenderFilter, Left
  <2>2. CASE ~Extenders[ext].filters
    BY <2>2 DEF ExtenderFilter
  <2> QED BY <2>1, <2>2
<1>2. TypeOK'
  <2>1. ext' \in 1 .. Len(Extenders) + 1
    BY ParameterAssumption DEF ExtenderFilter, IInv, TypeOK
  <2> QED BY <1>1, <2>1 DEF IInv, TypeOK, ExtenderFilter, queueVars, nodeVars
<1>3. NodesFit'
  BY <1>1 DEF IInv, NodesFit, Selecting, ExtenderFilter, queueVars, Fits
<1> QED BY <1>2, <1>3 DEF IInv, RequestsBounded, QueuesGood, FactorsLimited, ExtenderFilter,
           queueVars, nodeVars

LEMMA PrioritizeIInv ==
    ASSUME IInv, NEW s \in [Nodes -> Scores], NEW e \in [Nodes -> Scores], Prioritize(s, e)
    PROVE  IInv'
<1>1. prios' \in [Nodes -> Int] /\ score' \in [Nodes -> Int]
  <2>1. ASSUME NEW n \in Nodes PROVE s[n] + e[n] \in Int
    <3>1. s[n] \in Scores /\ e[n] \in Scores /\ Scores \subseteq Int
      BY ParameterAssumption
    <3>2. s[n] \in Int /\ e[n] \in Int
      BY <3>1
    <3> QED BY <3>2
  <2>2. prioritize(s, e) \in [Nodes -> Int] /\ [n \in Nodes |-> s[n] + e[n]] \in [Nodes -> Int]
    BY <2>1 DEF prioritize
  <2> QED BY <2>2 DEF Prioritize
<1>2. TypeOK'
  BY <1>1 DEF IInv, TypeOK, Prioritize, queueVars, nodeVars
<1>3. NodesFit'
  BY DEF IInv, NodesFit, Selecting, Prioritize, queueVars, Fits
<1> QED BY <1>2, <1>3 DEF IInv, RequestsBounded, QueuesGood, FactorsLimited, Prioritize,
           queueVars, nodeVars

\* The pod fits on the node that selectHost picks.
LEMMA BindIInv == ASSUME IInv, NEW h \in Nodes, Bind(h) PROVE IInv'
<1> DEFINE p == FrontPod(pending)
<1>1. p \in Pods /\ Fits(h, p)
  <2>1. ~IsEmpty(pending) /\ \A n \in nodes : Fits(n, p)
    BY DEF IInv, NodesFit, Selecting, Bind
  <2> QED BY <2>1, FrontIsNamed DEF IInv, QueuesGood, Bind, selectHost
<1>2. info' = [info EXCEPT ![h] = @ \cup {p}] /\ info \in [Nodes -> SUBSET Pods]
  BY DEF Bind, IInv, TypeOK
<1>3. Good(pending') /\ Good(failQueue')
  BY GoodPop DEF IInv, QueuesGood, Bind
<1>4. TypeOK'
  <2>1. pending' \in FIFOQueues /\ failQueue' \in FIFOQueues
    BY <1>3 DEF Good
  <2>2. info' \in [Nodes -> SUBSET Pods]
    BY <1>1, <1>2
  <2> QED BY <2>1, <2>2, ResetType DEF IInv, TypeOK, Bind, nodeVars
<1>5. Request(info'[h]) <= 2 * Allocatable[h]
  <2>1. info'[h] = info[h] \cup {p} /\ info'[h] \in SUBSET Pods
    BY <1>1, <1>2
  <2>2. 10 * Request(info'[h]) <= factor[h] * Allocatable[h]
    BY <1>1, <2>1 DEF Fits
  <2>3. factor[h] \in 10..20
    BY DEF IInv, FactorsLimited, Bind
  <2>4. Request(info'[h]) \in Nat /\ Allocatable[h] \in Nat
    BY <2>1, RequestAssumption, AllocatableAssumption
  <2> HIDE DEF p
  <2> QED BY <2>2, <2>3, <2>4, TwiceAllocatable
<1>6. RequestsBounded'
  <2> SUFFICES ASSUME NEW n \in Nodes
               PROVE  Request(on'[n]) <= 2 * Allocatable[n] /\ Request(info'[n]) <= 2 * Allocatable[n]
    BY DEF RequestsBounded
  <2>1. on' = on
    BY DEF Bind, nodeVars
  <2>2. n # h => info'[n] = info[n]
    BY <1>2
  <2> QED BY <1>5, <2>1, <2>2 DEF IInv, RequestsBounded
<1> QED BY <1>3, <1>4, <1>6 DEF IInv, QueuesGood, FactorsLimited, NodesFit, Selecting, Bind

LEMMA QueueIInv == ASSUME IInv, QueueExhausted \/ Resubmit PROVE IInv'
<1>1. Good(pending') /\ Good(failQueue')
  <2>1. CASE QueueExhausted
    BY <2>1, GoodFront DEF IInv, QueuesGood, QueueExhausted
  <2>2. CASE Resubmit
    <3>1. ~IsEmpty(failQueue) => FrontPod(failQueue) \in Named
      BY FrontNamed DEF IInv, QueuesGood, Good
    <3> QED BY <2>2, <3>1, GoodPush, GoodPop DEF IInv, QueuesGood, Resubmit
  <2> QED BY <2>1, <2>2
<1>2. TypeOK' /\ RequestsBounded'
  <2>1. pending' \in FIFOQueues /\ failQueue' \in FIFOQueues
    BY <1>1 DEF Good
  <2> QED BY <2>1 DEF IInv, TypeOK, RequestsBounded, QueueExhausted, Resubmit, nodeVars, selectVars
<1> QED BY <1>1, <1>2 DEF IInv, QueuesGood, FactorsLimited, NodesFit, Selecting,
           QueueExhausted, Resubmit

\* The pods that remain request no more than those that were there.
LEMMA EndOfTickIInv ==
    ASSUME IInv, NEW u \in [Nodes -> Usages], NEW rest \in [Nodes -> SUBSET Pods], EndOfTick(u, rest)
    PROVE  IInv'
<1>1. on' = rest /\ info' = rest
  BY DEF EndOfTick
<1>2. ASSUME NEW n \in Nodes PROVE Request(rest[n]) <= 2 * Allocatable[n] /\ Request(info[n]) \in Nat
  <2>1. rest[n] \in SUBSET info[n] /\ info[n] \in SUBSET Pods /\ rest[n] \in SUBSET Pods
    BY DEF EndOfTick, IInv, TypeOK
  <2>2. Request(rest[n]) <= Request(info[n]) /\ Request(rest[n]) \in Nat /\ Request(info[n]) \in Nat
    BY <2>1, RequestAssumption
  <2>3. Request(info[n]) <= 2 * Allocatable[n] /\ Allocatable[n] \in Nat
    BY AllocatableAssumption DEF IInv, RequestsBounded
  <2> QED BY <2>2, <2>3
<1>3. GlobalMetrics' \in [Nodes -> [usage : Nat, request : Nat]]
  BY <1>2, ParameterAssumption DEF EndOfTick
<1>4. TypeOK'
  BY <1>1, <1>3 DEF IInv, TypeOK, EndOfTick, queueVars, selectVars
<1>5. RequestsBounded'
  BY <1>1, <1>2 DEF RequestsBounded
<1> QED BY <1>4, <1>5 DEF IInv, QueuesGood, FactorsLimited, NodesFit, Selecting, EndOfTick, queueVars

LEMMA NextIInv == ASSUME IInv, [Next]_vars PROVE IInv'
<1>1. ASSUME NEW p \in Pods, Submit(p) PROVE IInv'
  BY <1>1, SubmitIInv
<1>2. CASE StartPass
  BY <1>2, StartPassIInv
<1>3. CASE Filter
  BY <1>3, FilterIInv
<1>4. CASE FitError
  BY <1>4, FailedIInv DEF FitError, Selecting
<1>5. CASE PluginError
  BY <1>5, FailedIInv DEF PluginError, Selecting
<1>6. ASSUME NEW kept \in SUBSET Nodes, ExtenderFilter(kept) PROVE IInv'
  BY <1>6, ExtenderIInv
<1>7. ASSUME NEW s \in [Nodes -> Scores], NEW e \in [Nodes -> Scores], Prioritize(s, e) PROVE IInv'
  BY <1>7, PrioritizeIInv
<1>8. ASSUME NEW n \in Nodes, Bind(n) PROVE IInv'
  BY <1>8, BindIInv
<1>9. CASE QueueExhausted \/ Resubmit
  BY <1>9, QueueIInv
<1>10. ASSUME NEW u \in [Nodes -> Usages], NEW rest \in [Nodes -> SUBSET Pods], EndOfTick(u, rest)
       PROVE  IInv'
  BY <1>10, EndOfTickIInv
<1>11. CASE UNCHANGED vars
  BY <1>11 DEF IInv, TypeOK, RequestsBounded, QueuesGood, FactorsLimited, NodesFit, Selecting, Fits,
     vars, queueVars, nodeVars, selectVars
<1> QED BY <1>1, <1>2, <1>3, <1>4, <1>5, <1>6, <1>7, <1>8, <1>9, <1>10, <1>11 DEF Next

\* The variables of the scheduler keep their types, with factors of 1.0 to 2.0
\* after the first pass.
THEOREM ProposedTypeCorrect == Spec => []TypeOK
<1>1. IInv => TypeOK
  BY DEF IInv
<1> QED BY InitIInv, NextIInv, <1>1, PTL DEF Spec

\* The requests on a node never exceed twice its capacity (proposed_scheduler.go:92).
THEOREM ProposedRequestsBounded == Spec => []RequestsBounded
<1>1. IInv => RequestsBounded
  BY DEF IInv
<1> QED BY InitIInv, NextIInv, <1>1, PTL DEF Spec

-----------------------------------------------------------------------------
(* With extenders that are sent names the nodes that are left are those that *)
(* all accept.                                                             *)

SentNames == \A i \in 1 .. Len(Extenders) : Extenders[i].filters => Extenders[i].NodeCacheCapable

AllLeft ==
    /\ Selecting => nodes = accepted
    /\ pc = "prioritize" => \A n \in nodes : prios[n] = score[n]

LEMMA NextAllLeft ==
    ASSUME SentNames, TypeOK, AllLeft, [Next]_vars
    PROVE  AllLeft'
<1>1. ASSUME NEW p \in Pods, Submit(p) PROVE AllLeft'
  BY <1>1 DEF AllLeft, Selecting, Submit
<1>2. CASE StartPass
  BY <1>2 DEF AllLeft, Selecting, StartPass
<1>3. CASE Filter
  BY <1>3 DEF AllLeft, Selecting, Filter
<1>4. CASE FitError \/ PluginError
  BY <1>4 DEF AllLeft, Selecting, FitError, PluginError, SetAside, EndPass
<1>5. ASSUME NEW kept \in SUBSET Nodes, ExtenderFilter(kept) PROVE AllLeft'
  <2>1. ext \in 1 .. Len(Extenders)
    BY <1>5, ParameterAssumption DEF TypeOK, ExtenderFilter
  <2>2. CASE Extenders[ext].filters
    <3>1. nodes' = kept /\ kept \subseteq nodes /\ accepted' = accepted \cap kept
      BY <1>5, <2>1, <2>2 DEF ExtenderFilter, Left, SentNames
    <3> QED BY <1>5, <3>1 DEF AllLeft, Selecting, ExtenderFilter
  <2>3. CASE ~Extenders[ext].filters
    BY <1>5, <2>3 DEF AllLeft, Selecting, ExtenderFilter
  <2> QED BY <2>2, <2>3
<1>6. ASSUME NEW s \in [Nodes -> Scores], NEW e \in [Nodes -> Scores], Prioritize(s, e)
      PROVE  AllLeft'
  <2>1. nodes' = nodes /\ accepted' = accepted /\ nodes = accepted /\ nodes \subseteq Nodes
    BY <1>6 DEF Prioritize, AllLeft, Selecting, TypeOK
  <2>2. \A n \in nodes : prios'[n] = s[n] + e[n] /\ score'[n] = s[n] + e[n]
    BY <1>6, <2>1 DEF Prioritize, prioritize
  <2> QED BY <2>1, <2>2 DEF AllLeft, Selecting
<1>7. ASSUME NEW n \in Nodes, Bind(n) PROVE AllLeft'
  BY <1>7 DEF AllLeft, Selecting, Bind
<1>8. CASE QueueExhausted \/ Resubmit
  BY <1>8 DEF AllLeft, Selecting, QueueExhausted, Resubmit
<1>9. ASSUME NEW u \in [Nodes -> Usages], NEW rest \in [Nodes -> SUBSET Pods], EndOfTick(u, rest)
      PROVE  AllLeft'
  BY <1>9 DEF AllLeft, Selecting, EndOfTick
<1>10. CASE UNCHANGED vars
  BY <1>10 DEF AllLeft, Selecting, vars, selectVars
<1> QED BY <1>1, <1>2, <1>3, <1>4, <1>5, <1>6, <1>7, <1>8, <1>9, <1>10 DEF Next

\* A pod is bound to a node that the predicates and all extenders accept, and of
\* those to one with the highest total score (extender.go:42), if each extender
\* that filters is sent names; for others the run with copies refutes it
\* (extender.go:95).
THEOREM ProposedHighestScore ==
    ASSUME SentNames
    PROVE  Spec => []HighestScoreSelected
<1>1. Init => AllLeft
  BY DEF Init, AllLeft, Selecting
<1>2. TypeOK /\ AllLeft /\ [Next]_vars => AllLeft'
  BY NextAllLeft
<1>3. TypeOK /\ AllLeft => HighestScoreSelected
  <2> SUFFICES ASSUME TypeOK, AllLeft, pc = "prioritize", NEW n \in selectHost
               PROVE  n \in accepted /\ \A m \in accepted : score[m] <= score[n]
    BY DEF HighestScoreSelected
  <2>1. nodes = accepted /\ n \in nodes /\ \A m \in nodes : prios[m] <= prios[n]
    BY DEF AllLeft, Selecting, selectHost
  <2>2. \A m \in nodes : prios[m] = score[m]
    BY DEF AllLeft
  <2> QED BY <2>1, <2>2
<1> QED BY <1>1, <1>2, <1>3, ProposedTypeCorrect, PTL DEF Spec

-----------------------------------------------------------------------------
(* Oversubscription is earned.                                             *)

\* A factor is above 1.0 by a tenth for each tick of the streak at most; before the
\* first pass nothing is requested.
StreakInv ==
    /\ streak \in [Nodes -> 0..10]
    /\ \/ \A n \in Nodes : factor[n] \in 10..20 /\ factor[n] <= 10 + streak[n]
       \/ /\ pc = "submit"
          /\ \A n \in Nodes : GlobalMetrics[n].request = 0

LEMMA HNextNext == [HNext]_HVars => [Next]_vars
BY DEF HNext, HVars, vars

LEMMA StreakKept == ASSUME IInv, StreakInv, [HNext]_HVars PROVE StreakInv'
<1>1. CASE UNCHANGED HVars
  BY <1>1 DEF HVars, vars, nodeVars, StreakInv
<1>2. CASE HNext /\ StartPass
  <2>1. streak' = [n \in Nodes |-> Earned(n)] /\ factor' = [n \in Nodes |-> nextFactor(n)]
    BY <1>2 DEF HNext, StartPass
  <2>2. ASSUME NEW n \in Nodes
        PROVE  Earned(n) \in 0..10 /\ nextFactor(n) \in 10..20 /\ nextFactor(n) <= 10 + Earned(n)
    <3>1. streak[n] \in 0..10
      BY DEF StreakInv
    <3>2. CASE ~Underused(n)
      BY <3>2 DEF Earned, nextFactor
    <3>3. CASE Underused(n)
      <4>1. ~(GlobalMetrics[n].request = 0)
        BY <3>3, AllocatableAssumption DEF Underused
      <4>2. factor[n] \in 10..20 /\ factor[n] <= 10 + streak[n]
        BY <4>1 DEF StreakInv
      <4> QED BY <3>1, <3>3, <4>2 DEF Earned, nextFactor
    <3> QED BY <3>2, <3>3
  <2> QED BY <2>1, <2>2 DEF StreakInv
<1>3. ASSUME HNext, ~StartPass PROVE StreakInv'
  <2>1. streak' = streak
    <3>1. ~(pc = "submit" /\ pc' = "next")
      BY <1>3 DEF HNext, Next, Submit, StartPass, Filter, FitError, PluginError, ExtenderFilter,
                  Prioritize, Bind, QueueExhausted, Resubmit, EndOfTick
    <3> QED BY <1>3, <3>1 DEF HNext
  <2>2. factor' = factor
    BY <1>3 DEF HNext, Next, Submit, Filter, FitError, PluginError, ExtenderFilter,
                Prioritize, Bind, QueueExhausted, Resubmit, EndOfTick
  <2>3. pc = "submit" => pc' = pc /\ GlobalMetrics' = GlobalMetrics
    BY <1>3 DEF HNext, Next, Submit, Filter, FitError, PluginError, ExtenderFilter,
                Prioritize, Bind, QueueExhausted, Resubmit, EndOfTick, nodeVars
  <2> QED BY <2>1, <2>2, <2>3 DEF StreakInv
<1> QED BY <1>1, <1>2, <1>3

\* What a factor leaves grows with it.
LEMMA FactorGrows ==
    ASSUME NEW f \in Nat, NEW g \in Nat, f <= g, NEW a \in Nat
    PROVE  f * a <= g * a
<1>1. PICK i \in Nat : g = f + i
  <2>1. g - f \in Nat /\ g = f + (g - f)
    OBVIOUS
  <2> QED BY <2>1
<1>2. (f + i) * a = f * a + i * a /\ i * a \in Nat /\ f * a \in Nat
  OBVIOUS
<1> QED BY <1>1, <1>2

\* A bind takes the requests on a node above its capacity by no more tenths than
\* there were ticks in a row in which the pods on the node requested nine tenths of
\* it and did not use them (proposed_scheduler.go:83), whatever the factors are at
\* first.
THEOREM ProposedOversubEarned == HSpec => OversubEarned
<1>1. HInit => IInv /\ StreakInv
  <2> SUFFICES ASSUME HInit PROVE StreakInv
    BY InitIInv DEF HInit
  <2> QED BY DEF HInit, Init, StreakInv
<1>2. IInv /\ StreakInv /\ [HNext]_HVars => (IInv /\ StreakInv)'
  BY HNextNext, NextIInv, StreakKept
<1>3. IInv /\ StreakInv /\ [HNext]_HVars =>
         [\A n \in Nodes : info'[n] # info[n] /\ pc' = "next" /\ pc = "prioritize"
            => 10 * Request(info'[n]) <= (10 + streak[n]) * Allocatable[n]]_HVars
  <2> SUFFICES ASSUME IInv, StreakInv, HNext, NEW n \in Nodes,
                      info'[n] # info[n], pc' = "next", pc = "prioritize"
               PROVE  10 * Request(info'[n]) <= (10 + streak[n]) * Allocatable[n]
    OBVIOUS
  <2>1. PICK h \in Nodes : Bind(h)
    BY DEF HNext, Next, Submit, StartPass, Filter, FitError, PluginError, SetAside, EndPass,
           ExtenderFilter, Prioritize, QueueExhausted, Resubmit, EndOfTick
  <2> DEFINE p == FrontPod(pending)
             q == Request(info'[n])
             a == Allocatable[n]
             s == streak[n]
  <2>2. info' = [info EXCEPT ![h] = @ \cup {p}] /\ info \in [Nodes -> SUBSET Pods]
    BY <2>1 DEF Bind, IInv, TypeOK
  <2>3. n = h /\ info'[n] = info[n] \cup {p}
    BY <2>2
  <2>4. p \in Pods /\ Fits(n, p)
    <3>1. ~IsEmpty(pending) /\ \A m \in nodes : Fits(m, p)
      BY DEF IInv, NodesFit, Selecting
    <3> QED BY <2>1, <2>3, <3>1, FrontIsNamed DEF IInv, QueuesGood, Bind, selectHost
  <2>5. 10 * q <= factor[n] * a
    BY <2>3, <2>4 DEF Fits
  <2>6. a \in Nat /\ q \in Nat
    <3>1. info'[n] \in SUBSET Pods
      BY <2>2, <2>3, <2>4
    <3> QED BY <3>1, AllocatableAssumption, RequestAssumption
  <2>7. factor[n] \in 10..20 /\ factor[n] <= 10 + s /\ s \in 0..10
    BY DEF StreakInv
  <2> HIDE DEF q, a, s, p
  <2>8. factor[n] * a <= (10 + s) * a
    BY <2>6, <2>7, FactorGrows
  <2>9. factor[n] * a \in Nat /\ (10 + s) * a \in Nat
    BY <2>6, <2>7
  <2>10. 10 * q <= (10 + s) * a
    BY <2>5, <2>6, <2>8, <2>9
  <2> QED BY <2>10 DEF q, a, s
<1> QED BY <1>1, <1>2, <1>3, PTL DEF HSpec, OversubEarned

=============================================================================
