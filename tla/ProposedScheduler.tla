------------------------- MODULE ProposedScheduler -------------------------
(***************************************************************************)
(* The proposed scheduler (pkg/scheduler/proposed_scheduler.go) with the   *)
(* predicate PodFitsResourcesOverSub: at the start of a pass the factor by *)
(* which the requests on a node may exceed its capacity is adapted to the  *)
(* metrics of the tick before.  A node for a pod is selected by predicates *)
(* and extenders (pkg/scheduler/extender.go), then by the scores of        *)
(* plug-ins (pkg/scheduler/plugin.go) and extenders, as the generic        *)
(* scheduler does it, too.                                                 *)
(*                                                                         *)
(* What pods use, when they end, and what plug-ins and extenders answer is *)
(* chosen by \E.  Factors are in tenths, and there is one resource.  The   *)
(* victims of a preemption end like other pods, in some later tick.        *)
(***************************************************************************)
EXTENDS FIFO, Integers

CONSTANTS
    Nodes,
    Allocatable,            \* of each node
    Request(_),             \* what a set of pods requests
    Usages,                 \* what the pods on a node may use
    Scores,                 \* weighted sums of scores
    Extenders,              \* in their order; "filters" if Filter is not nil
    GlobalOverSubFactor,    \* the factors that the experiments set at first
    KeepSchedulingTimeout

ASSUME AllocatableAssumption == Allocatable \in [Nodes -> Nat]
\* A sum of requests, none of them negative.
ASSUME RequestAssumption ==
    /\ Request({}) = 0
    /\ \A S \in SUBSET Pods : Request(S) \in Nat
    /\ \A S \in SUBSET Pods : \A T \in SUBSET S : Request(T) <= Request(S)
ASSUME ParameterAssumption ==
    /\ Usages \subseteq Nat /\ Scores \subseteq Int
    /\ Extenders \in Seq([filters : BOOLEAN, NodeCacheCapable : BOOLEAN])
    /\ GlobalOverSubFactor \in Nat /\ KeepSchedulingTimeout \in Nat

VARIABLES
    pc, KeepScheduling,
    pending, failQueue, submitted,
    on,                     \* the pods that run or terminate on each node
    info,                   \* those of nodeInfoMap and of the bind events
    GlobalMetrics,          \* usage and request of each node, in the last tick
    factor,                 \* predicates.NodesOverSubFactors, in tenths
    nodes, ext,             \* the nodes left for the pod, the next extender
    prios,                  \* their scores
    accepted, score         \* history: the nodes that every answer leaves, and
                            \* what the answers add up to for a node

queueVars == <<pending, failQueue, submitted>>
nodeVars == <<on, GlobalMetrics>>
selectVars == <<nodes, ext, prios, accepted, score>>
vars == <<pc, KeepScheduling, queueVars, nodeVars, info, factor, selectVars>>

NoScore == [n \in Nodes |-> 0]

Init ==
    /\ pc = "submit" /\ KeepScheduling \in BOOLEAN
    /\ pending = NewFIFOQueue /\ failQueue = NewFIFOQueue /\ submitted = {}
    /\ on = [n \in Nodes |-> {}] /\ info = on
    /\ GlobalMetrics = [n \in Nodes |-> [usage |-> 0, request |-> 0]]
    /\ factor = [n \in Nodes |-> GlobalOverSubFactor]
    /\ nodes = {} /\ ext = 1 /\ prios = NoScore
    /\ accepted = {} /\ score = NoScore

\* A pod with a new name enters the queue.
Submit(p) ==
    /\ pc = "submit"
    /\ p \in Named \ submitted /\ ~Has(pending, KeyOf[p])
    /\ pending' = Push(pending, p)
    /\ submitted' = submitted \cup {p}
    /\ UNCHANGED <<pc, KeepScheduling, failQueue, nodeVars, info, factor, selectVars>>

-----------------------------------------------------------------------------
(* Schedule.                                                               *)

\* Nine tenths of the node are requested, and are not used.
Underused(n) ==
    /\ 10 * GlobalMetrics[n].request > 9 * Allocatable[n]
    /\ 10 * GlobalMetrics[n].usage <= 9 * Allocatable[n]

\* Mutants: no limit; the factor is kept; it is reset to that of the test.
nextFactorUnlimited(n) == IF Underused(n) THEN factor[n] + 1 ELSE 10
nextFactorKept(n) ==
    IF Underused(n) THEN IF factor[n] + 1 < 20 THEN factor[n] + 1 ELSE 20
    ELSE IF factor[n] < 20 THEN factor[n] ELSE 10
nextFactorNine(n) ==
    IF Underused(n) THEN IF factor[n] + 1 < 20 THEN factor[n] + 1 ELSE 20 ELSE 9

nextFactor(n) ==
    IF Underused(n) THEN IF factor[n] + 1 < 20 THEN factor[n] + 1 ELSE 20 ELSE 10

StartPass ==
    /\ pc = "submit"
    /\ factor' = [n \in Nodes |-> nextFactor(n)]
    /\ info' = on
    /\ pc' = "next"
    /\ UNCHANGED <<KeepScheduling, queueVars, nodeVars, selectVars>>

\* PodFitsResourcesOverSub.
Fits(n, p) == 10 * Request(info[n] \cup {p}) <= factor[n] * Allocatable[n]

filterWithPlugins(p) == {n \in Nodes : Fits(n, p)}

Filter ==
    /\ pc = "next" /\ ~IsEmpty(pending)
    /\ pending' = Front(pending)
    /\ nodes' = filterWithPlugins(FrontPod(pending))
    /\ accepted' = nodes'
    /\ ext' = 1
    /\ pc' = "filter"
    /\ UNCHANGED <<KeepScheduling, failQueue, submitted, nodeVars, info, factor, prios, score>>

\* A pod that failed is set aside, unless too many did.
SetAside ==
    /\ KeepScheduling
    /\ failQueue' = Push(failQueue, FrontPod(pending))
    /\ pending' = Pop(pending)
    /\ pc' = IF QLen(failQueue') > KeepSchedulingTimeout THEN "resubmit" ELSE "next"
    /\ UNCHANGED info

\* Without KeepScheduling a pod that fits nowhere ends the pass (with the victims
\* of a preemption), and any other error drops what the pass has decided.
EndPass(decided) ==
    /\ ~KeepScheduling
    /\ info' = decided
    /\ pc' = "apply"
    /\ UNCHANGED <<pending, failQueue>>

Reset ==
    /\ nodes' = {} /\ accepted' = {} /\ ext' = 1
    /\ prios' = NoScore /\ score' = NoScore

FitError ==
    /\ pc = "filter" /\ nodes = {}
    /\ SetAside \/ EndPass(info)
    /\ Reset
    /\ UNCHANGED <<KeepScheduling, submitted, nodeVars, factor>>

\* An error of a predicate, a prioritizer or an extender.
PluginError ==
    /\ pc \in {"filter", "prioritize"}
    /\ SetAside \/ EndPass(on)
    /\ Reset
    /\ UNCHANGED <<KeepScheduling, submitted, nodeVars, factor>>

\* The nodes that are left when an extender keeps these of those it was sent.  One
\* that is sent the nodes themselves has the address of the loop variable taken
\* for each node of its answer: all are the last one.
Left(e, kept) ==
    IF e.NodeCacheCapable \/ kept = {} THEN {kept} ELSE {{n} : n \in kept}

\* An answer with an error counts if the extender is ignorable; PluginError
\* stands for the others.
ExtenderFilter(kept) ==
    /\ pc = "filter" /\ nodes # {} /\ ext <= Len(Extenders)
    /\ IF Extenders[ext].filters
       THEN /\ kept \subseteq nodes
            /\ nodes' \in Left(Extenders[ext], kept)
            /\ accepted' = accepted \cap kept
       ELSE /\ kept = nodes
            /\ UNCHANGED <<nodes, accepted>>
    /\ ext' = ext + 1
    /\ UNCHANGED <<pc, KeepScheduling, queueVars, nodeVars, info, factor, prios, score>>

\* Mutant: the scores of the extenders count for nothing.
prioritizePlugins(plugins, extenders) ==
    [n \in Nodes |-> IF n \in nodes THEN plugins[n] ELSE 0]

\* The score of a node that is left.
prioritize(plugins, extenders) ==
    [n \in Nodes |-> IF n \in nodes THEN plugins[n] + extenders[n] ELSE 0]

\* The sums of the weighted scores that prioritizers and extenders give; all are
\* equal if there are none, and are not asked for if one node is left.
Prioritize(plugins, extenders) ==
    /\ pc = "filter" /\ nodes # {} /\ ext > Len(Extenders)
    /\ prios' = prioritize(plugins, extenders)
    /\ score' = [n \in Nodes |-> plugins[n] + extenders[n]]
    /\ pc' = "prioritize"
    /\ UNCHANGED <<KeepScheduling, queueVars, nodeVars, info, factor, nodes, ext, accepted>>

\* The hosts that selectHost may return: the last of those with the highest score
\* in the list, whose order is that of the answers of the extenders.
selectHost == {n \in nodes : \A m \in nodes : prios[m] <= prios[n]}

Bind(n) ==
    /\ pc = "prioritize"
    /\ n \in selectHost
    /\ info' = [info EXCEPT ![n] = @ \cup {FrontPod(pending)}]
    /\ pending' = Pop(pending)
    /\ pc' = "next"
    /\ Reset
    /\ UNCHANGED <<KeepScheduling, failQueue, submitted, nodeVars, factor>>

QueueExhausted ==
    /\ pc = "next" /\ IsEmpty(pending)
    /\ pending' = Front(pending)
    /\ pc' = IF KeepScheduling THEN "resubmit" ELSE "apply"
    /\ UNCHANGED <<KeepScheduling, failQueue, submitted, nodeVars, info, factor, selectVars>>

\* The pods that failed go back to the queue.
Resubmit ==
    /\ pc = "resubmit"
    /\ failQueue' = Pop(failQueue)
    /\ \/ /\ ~IsEmpty(failQueue)
          /\ pending' = Push(pending, FrontPod(failQueue))
          /\ UNCHANGED pc
       \/ /\ IsEmpty(failQueue)
          /\ pc' = "apply"
          /\ UNCHANGED pending
    /\ UNCHANGED <<KeepScheduling, submitted, nodeVars, info, factor, selectVars>>

-----------------------------------------------------------------------------
\* The pods are bound and metrics built; then the clock advances, and some end.
EndOfTick(usage, rest) ==
    /\ pc = "apply"
    /\ \A n \in Nodes : /\ rest[n] \subseteq info[n]
                        /\ info[n] = {} => usage[n] = 0
    /\ GlobalMetrics' = [n \in Nodes |-> [usage |-> usage[n], request |-> Request(info[n])]]
    /\ on' = rest /\ info' = rest
    /\ pc' = "submit"
    /\ UNCHANGED <<KeepScheduling, queueVars, factor, selectVars>>

Next ==
    \/ \E p \in Pods : Submit(p)
    \/ StartPass
    \/ Filter
    \/ FitError
    \/ PluginError
    \/ \E kept \in SUBSET Nodes : ExtenderFilter(kept)
    \/ \E plugins, extenders \in [Nodes -> Scores] : Prioritize(plugins, extenders)
    \/ \E n \in Nodes : Bind(n)
    \/ QueueExhausted
    \/ Resubmit
    \/ \E usage \in [Nodes -> Usages], rest \in [Nodes -> SUBSET Pods] : EndOfTick(usage, rest)

Spec == Init /\ [][Next]_vars

-----------------------------------------------------------------------------
(* Properties                                                              *)

\* Types of the scheduler's state, of the nodes and of the globals it reads.
TypeOK ==
    /\ pc \in {"submit", "next", "filter", "prioritize", "resubmit", "apply"}
    /\ KeepScheduling \in BOOLEAN
    /\ pending \in FIFOQueues /\ failQueue \in FIFOQueues /\ submitted \in SUBSET Pods
    /\ on \in [Nodes -> SUBSET Pods] /\ info \in [Nodes -> SUBSET Pods]
    /\ GlobalMetrics \in [Nodes -> [usage : Nat, request : Nat]]
    /\ factor \in [Nodes -> 10..20 \cup {GlobalOverSubFactor}]
    /\ nodes \in SUBSET Nodes /\ ext \in 1 .. Len(Extenders) + 1
    /\ prios \in [Nodes -> Int]
    /\ accepted \in SUBSET Nodes /\ score \in [Nodes -> Int]

\* The requests on a node never exceed twice its capacity (proposed_scheduler.go:92),
\* not even with the factor 4.0 the experiments start from: factors grow tick by
\* tick, from metrics one tick old, while pods are bound by factors that are reset
\* under them and a pass binds several pods.
RequestsBounded ==
    \A n \in Nodes : /\ Request(on[n]) <= 2 * Allocatable[n]
                     /\ Request(info[n]) <= 2 * Allocatable[n]

\* "The weighted scores are summed up and the total score is used for the node
\* selection." (extender.go:42)  A pod is bound to a node that the predicates and
\* all extenders accept, and of those to one with the highest total.
HighestScoreSelected ==
    pc = "prioritize" =>
        \A n \in selectHost : n \in accepted /\ \A m \in accepted : score[m] <= score[n]
=============================================================================
