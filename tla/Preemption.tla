----------------------------- MODULE Preemption -----------------------------
(***************************************************************************)
(* The generic scheduler without KeepScheduling on a PriorityQueue:        *)
(* preemption with nominated nodes (pkg/scheduler/generic_scheduler.go and *)
(* generic_scheduler_k8s.go), the pods on the nodes and their grace        *)
(* periods, and submitters that add, update and delete pods between two    *)
(* passes.                                                                 *)
(*                                                                         *)
(* The events of a pass are applied when it ends, at the same clock, and   *)
(* nothing reads the nodes in between (KubeSim models that step by step):  *)
(* here a decision and its event are one action.  Predicates and the room  *)
(* on a node decide what fits; extenders may then refuse all that is left  *)
(* (Refusable) or part of it, which leaves ScheduleOne its choice.         *)
(***************************************************************************)
EXTENDS PriorityQueue

CONSTANTS
    Size,               \* what a pod requests
    Capacity,           \* what a node has
    Allowed,            \* the nodes whose labels, taints, ... a pod accepts
    Refusable,          \* the pods of which extenders may refuse all nodes
    Duration, Grace,    \* of each pod, in ticks
    Replacements,       \* the manifests that come with an UpdateEvent
    Placed,             \* pods that were bound by earlier passes
    Deleted,            \* the names that submitters delete
    Offset              \* MaxInt32+1, which makes every priority positive

ASSUME SizeAssumption == Size \in [Pods -> Nat \ {0}] /\ Capacity \in Nat
ASSUME PlaceAssumption ==
    /\ Allowed \in [Pods -> SUBSET Nodes]
    /\ Replacements \subseteq Pods /\ Placed \subseteq Pods /\ Deleted \subseteq Keys
    /\ Refusable \subseteq Pods
ASSUME OffsetAssumption == Offset \in Nat /\ \A p \in Pods : Priority[p] + Offset >= 0
\* Time 0 is the empty timestamp, and the clock starts at 1.
ASSUME CreatedAssumption ==
    MaxTime >= 1 /\ \A p \in Pods : Created[p] = IF p \in Replacements THEN 0 ELSE 1
ASSUME UidAssumption == "" \notin Keys \cup {NoKey}    \* a name is not empty
ASSUME LifeAssumption == Duration \in [Pods -> Nat] /\ Grace \in [Pods -> Nat]

VARIABLES
    pc, clock,
    host, boundAt, deletedAt,   \* the simulated pod of each manifest
    seen,                       \* the manifests that were submitted
    replaced,                   \* history: manifests dropped by an update,
    victimsOf,                  \* the pods evicted for a pod under its nomination,
    intruded                    \* nominated pods whose node a pod of higher
                                \* priority was bound to

podVars == <<host, boundAt, deletedAt>>
history == <<replaced, victimsOf, intruded>>
pvars == <<vars, pc, clock, podVars, seen, history>>

Never == -1

-----------------------------------------------------------------------------
(* The pods on a node.                                                     *)

IsRunning(p) == /\ host[p] # NoNode /\ deletedAt[p] = Never
                /\ clock - boundAt[p] < Duration[p]
IsTerminating(p) == deletedAt[p] # Never /\ clock - deletedAt[p] < Grace[p]

RunningAndTerminating(n) == {p \in Pods : host[p] = n /\ (IsRunning(p) \/ IsTerminating(p))}

DeletePods(D) ==
    deletedAt' = [p \in Pods |-> IF p \in D /\ IsRunning(p) THEN clock ELSE deletedAt[p]]

-----------------------------------------------------------------------------
(* Of a NodeInfo only the sum of its requests counts here.  Only a         *)
(* SubmitEvent gives its pod a UID, and RemovePod, which looks for the UID *)
(* in the NodeInfo, fails for a pod without one.                           *)

Total(S) == MapThenSumSet(LAMBDA p : Size[p], S)

Uid(p) == IF p \in Replacements THEN "" ELSE KeyOf[p]
Removable(p) == Uid(p) # ""

NodeInfo(n) == Total(RunningAndTerminating(n))
AddPod(requested, p) == requested + Size[p]
RemovePod(requested, p) == IF Removable(p) THEN requested - Size[p] ELSE requested

\* The predicates: the labels of the node, and its resources.
HasRoom(p, requested) == AddPod(requested, p) <= Capacity
Passes(p, n, requested) == n \in Allowed[p] /\ HasRoom(p, requested)

\* Mutant: pods of the same priority do not keep what they are nominated for.
ReservedForHigher(p, n) == {q \in NominatedPods(n) : Priority[q] > Priority[p] /\ Uid(q) # Uid(p)}

ReservedFrom(p, n) == {q \in NominatedPods(n) : Priority[q] >= Priority[p] /\ Uid(q) # Uid(p)}

addNominatedPods(p, n, requested) == requested + Total(ReservedFrom(p, n))

podFitsOnNode(p, n, requested) ==
    Passes(p, n, addNominatedPods(p, n, requested)) /\ Passes(p, n, requested)

-----------------------------------------------------------------------------
(* The victims on a node: all pods of lower priority are taken off the copy *)
(* and spared one after the other, the more important ones first.          *)

LowerOn(p, n) == {q \in RunningAndTerminating(n) : Priority[q] < Priority[p]}

\* The orders that the (unstable) sort of a set of pods may give.
Sorted(S) ==
    {s \in SetToSeqs(S) : \A i, j \in 1..Len(s) : i < j => Priority[s[i]] >= Priority[s[j]]}

WithoutLower(p, n) == NodeInfo(n) - Total({q \in LowerOn(p, n) : Removable(q)})

\* Mutant: nobody is spared.
ReprieveNone(p, n, at, q) == [at EXCEPT !.victims = Append(@, q)]

ReprievePod(p, n, at, q) ==
    LET more == AddPod(at.copy, q) IN
    IF podFitsOnNode(p, n, more)
    THEN [at EXCEPT !.copy = more]
    ELSE [copy |-> RemovePod(more, q), victims |-> Append(at.victims, q)]

SelectVictims(p, n, order) ==
    LET at[i \in 0..Len(order)] ==
            IF i = 0 THEN [copy |-> WithoutLower(p, n), victims |-> << >>]
            ELSE ReprievePod(p, n, at[i - 1], order[i])
    IN  at[Len(order)].victims

Candidates(p, potential) == {n \in potential : podFitsOnNode(p, n, WithoutLower(p, n))}

\* What selectNodesForPreemption may return: for each candidate its victims.
NodesToVictims(p, potential) ==
    LET C == Candidates(p, potential)
        V == [n \in C |-> {SelectVictims(p, n, s) : s \in Sorted(LowerOn(p, n))}]
    IN  {f \in [C -> UNION {V[n] : n \in C}] : \A n \in C : f[n] \in V[n]}

\* The first victim of each of several candidates is read, but one has none.
OutOfRange(V) == Cardinality(DOMAIN V) > 1 /\ \E n \in DOMAIN V : V[n] = << >>

Cheapest(S, cost) == {n \in S : \A m \in S : cost[n] <= cost[m]}

\* Mutant: the sum of priorities decides before the highest one.
pickBySumFirst(V) ==
    LET highest == [n \in DOMAIN V |-> Priority[Head(V[n])]]
        sum == [n \in DOMAIN V |-> FoldLeft(LAMBDA t, q : t + Priority[q] + Offset, 0, V[n])]
    IN  IF Cardinality(DOMAIN V) <= 1 THEN DOMAIN V
        ELSE Cheapest(Cheapest(DOMAIN V, sum), highest)

\* The node whose first victim, and then whose sum of priorities, and then whose
\* number of victims is least: any of those that remain.
pickOneNodeForPreemption(V) ==
    LET highest == [n \in DOMAIN V |-> Priority[Head(V[n])]]
        sum == [n \in DOMAIN V |-> FoldLeft(LAMBDA t, q : t + Priority[q] + Offset, 0, V[n])]
        num == [n \in DOMAIN V |-> Len(V[n])]
    IN  IF Cardinality(DOMAIN V) <= 1 THEN DOMAIN V
        ELSE Cheapest(Cheapest(Cheapest(DOMAIN V, highest), sum), num)

\* Mutant: the pod may preempt again at once.
EligibleAlways(p) == TRUE

podEligibleToPreemptOthers(p) ==
    \A q \in Pods : ~(/\ NominatedNodeName[p] # NoNode
                      /\ host[q] = NominatedNodeName[p] /\ IsTerminating(q)
                      /\ Priority[q] < Priority[p])

\* nodesWherePreemptionMightHelp: a node is left out if the predicate that failed
\* first was not about resources; predicates are tried in any order.
PotentialNodes(p) ==
    {S \in SUBSET Nodes :
        /\ Allowed[p] \subseteq S
        /\ \A n \in S \ Allowed[p] : ~HasRoom(p, addNominatedPods(p, n, NodeInfo(n)))}

-----------------------------------------------------------------------------
\* Earlier passes put each placed pod on a node that it accepts, within capacity.
Placements ==
    {h \in [Pods -> Nodes \cup {NoNode}] :
        /\ \A p \in Pods : h[p] \in IF p \in Placed THEN Allowed[p] ELSE {NoNode}
        /\ \A n \in Nodes : Total({p \in Placed : h[p] = n}) <= Capacity}

PInit ==
    /\ Init
    /\ pc = "submit" /\ clock = 1
    /\ host \in Placements
    /\ boundAt = [p \in Pods |-> 1] /\ deletedAt = [p \in Pods |-> Never]
    /\ seen = Placed /\ replaced = {} /\ intruded = {}
    /\ victimsOf = [p \in Pods |-> {}]

\* A pod with a new name; its timestamp is the clock.
Submit(p) ==
    /\ pc = "submit"
    /\ p \notin Replacements
    /\ KeyOf[p] \notin {KeyOf[q] : q \in seen} \cup {NoKey}
    /\ inner' = HeapPush(inner, p)
    /\ seen' = seen \cup {p}
    /\ UNCHANGED <<nominations, time, out, pc, clock, podVars, history>>

\* The deletion of a pending pod, or else of the pod bound under the name.
DeleteEvent(k) ==
    /\ pc = "submit"
    /\ \/ /\ k \in Stored(inner)
          /\ inner' = HeapRemove(inner, inner.items[k].index)
          /\ RemoveNominatedNode(Pending(k))
          /\ victimsOf' = [victimsOf EXCEPT ![Pending(k)] = {}]
          /\ intruded' = intruded \ {Pending(k)}
          /\ UNCHANGED <<podVars, replaced>>
       \/ /\ k \notin Stored(inner)
          /\ DeletePods({p \in Pods : KeyOf[p] = k})
          /\ UNCHANGED <<inner, nominations, host, boundAt, history>>
    /\ UNCHANGED <<time, out, pc, clock, seen>>

\* A new manifest for a pending pod; its status and its timestamps are empty.
UpdateEvent(p) ==
    /\ pc = "submit"
    /\ p \in Replacements \ seen
    /\ LET k == KeyOf[p] IN
       /\ k \in Stored(inner)
       /\ inner' = HeapFix([inner EXCEPT !.items[k].pod = p], inner.items[k].index)
       /\ replaced' = replaced \cup {Pending(k)}
    /\ seen' = seen \cup {p}
    /\ UNCHANGED <<nominations, time, out, pc, clock, podVars, victimsOf, intruded>>

StartPass ==
    /\ pc = "submit"
    /\ pc' = "schedule"
    /\ UNCHANGED <<vars, clock, podVars, seen, history>>

Trying == pc = "schedule" /\ inner.keys # << >>

\* Mutant: the nomination is kept.
ScheduleOneNominated(n) ==
    /\ Trying
    /\ LET p == FrontPod IN
       /\ podFitsOnNode(p, n, NodeInfo(n))
       /\ inner' = HeapPop(inner)
       /\ host' = [host EXCEPT ![p] = n]
       /\ boundAt' = [boundAt EXCEPT ![p] = clock]
    /\ UNCHANGED <<nominations, time, out, pc, clock, deletedAt, seen, history>>

\* The pod at the front is popped and bound, on the node it is nominated for or
\* on any other that it fits.
ScheduleOne(n) ==
    /\ Trying
    /\ LET p == FrontPod IN
       /\ podFitsOnNode(p, n, NodeInfo(n))
       /\ inner' = HeapPop(inner)
       /\ RemoveNominatedNode(p)
       /\ host' = [host EXCEPT ![p] = n]
       /\ boundAt' = [boundAt EXCEPT ![p] = clock]
       /\ victimsOf' = [victimsOf EXCEPT ![p] = {}]
       /\ intruded' = (intruded \ {p})
                        \cup {q \in NominatedPods(n) : Priority[q] < Priority[p]}
    /\ UNCHANGED <<time, out, pc, clock, deletedAt, seen, replaced>>

\* The times t at the next clock: the manifests to be submitted then bear it.
AtNextTick(t) == [p \in Pods |-> IF p \in seen \cup Replacements THEN t[p] ELSE clock + 1]

NextTick(t) ==
    pc' = "submit" /\ clock < MaxTime /\ clock' = clock + 1 /\ time' = AtNextTick(t)

QueueExhausted ==
    /\ pc = "schedule" /\ inner.keys = << >>
    /\ NextTick(time)
    /\ UNCHANGED <<inner, nominations, out, podVars, seen, history>>

\* No node passes the predicates, or extenders refuse those that do.
FitError ==
    /\ Trying
    /\ \/ FrontPod \in Refusable
       \/ \A n \in Nodes : ~podFitsOnNode(FrontPod, n, NodeInfo(n))

NoPreemption(p) ==
    UNCHANGED <<nominations, podVars, history>>

ClearNomination(p) ==
    /\ RemoveNominatedNode(p)
    /\ victimsOf' = [victimsOf EXCEPT ![p] = {}]
    /\ intruded' = intruded \ {p}
    /\ UNCHANGED <<podVars, replaced>>

\* The node is nominated for the pod, its victims V are deleted, and pods of lower
\* priority lose their nomination for the node, which was listed before.
EvictOn(p, n, V) ==
    LET L == {q \in NominatedPods(n) : Priority[q] < Priority[p]} IN
    /\ DeletePods(V)
    /\ NominatedNodeName' = [q \in Pods |-> IF q \in L THEN NoNode
                                            ELSE IF q = p THEN n ELSE NominatedNodeName[q]]
    /\ nominatedPods' = [UpdateNominatedNode(p, n) EXCEPT ![n] =
           [k \in Keys |-> IF \E q \in L : KeyOf[q] = k THEN NoPod ELSE @[k]]]
    /\ victimsOf' = [q \in Pods |-> IF q \in L THEN {}
                                    ELSE IF q = p THEN victimsOf[p] \cup V ELSE victimsOf[q]]
    /\ intruded' = intruded \ (L \cup {p})
    /\ UNCHANGED <<host, boundAt, replaced>>

\* findPreemption and preempt.
PreemptOthers(p) ==
    \/ /\ ~podEligibleToPreemptOthers(p)
       /\ NoPreemption(p)
    \/ /\ podEligibleToPreemptOthers(p)
       /\ {} \in PotentialNodes(p)
       /\ ClearNomination(p)
    \/ /\ podEligibleToPreemptOthers(p)
       /\ \E S \in PotentialNodes(p) \ {{}} : Candidates(p, S) = {}
       /\ NoPreemption(p)
    \/ /\ podEligibleToPreemptOthers(p)
       /\ \E S \in PotentialNodes(p) \ {{}} : \E V \in NodesToVictims(p, S) :
          /\ ~OutOfRange(V)
          /\ \E n \in pickOneNodeForPreemption(V) : EvictOn(p, n, ToSet(V[n]))

\* The pod at the front gets no node: it stays there and the pass ends.
Preempt ==
    /\ FitError
    /\ PreemptOthers(FrontPod)
    /\ NextTick(SchedulingFailure(FrontPod, clock))
    /\ UNCHANGED <<inner, out, seen>>

\* The choice of a node ends the program (generic_scheduler_k8s.go:347).
PreemptPanics ==
    /\ FitError
    /\ podEligibleToPreemptOthers(FrontPod)
    /\ \E S \in PotentialNodes(FrontPod) : \E V \in NodesToVictims(FrontPod, S) : OutOfRange(V)
    /\ pc' = "panicked"
    /\ time' = SchedulingFailure(FrontPod, clock)
    /\ UNCHANGED <<inner, nominations, out, clock, podVars, seen, history>>

PNext ==
    \/ \E p \in Pods : Submit(p)
    \/ \E k \in Deleted : DeleteEvent(k)
    \/ \E p \in Pods : UpdateEvent(p)
    \/ StartPass
    \/ \E n \in Nodes : ScheduleOne(n)
    \/ QueueExhausted
    \/ Preempt
    \/ PreemptPanics

PSpec == PInit /\ [][PNext]_pvars

-----------------------------------------------------------------------------
\* Types of the nodes, and of the histories.
PTypeOK ==
    /\ TypeOK
    /\ pc \in {"submit", "schedule", "panicked"} /\ clock \in 0..MaxTime
    /\ host \in [Pods -> Nodes \cup {NoNode}]
    /\ boundAt \in [Pods -> 0..MaxTime] /\ deletedAt \in [Pods -> -1..MaxTime]
    /\ seen \in SUBSET Pods /\ replaced \in SUBSET Pods /\ intruded \in SUBSET Pods
    /\ victimsOf \in [Pods -> SUBSET Pods]

\* Although a failed attempt changes the time of a pod that stays in the heap
\* (generic_scheduler.go:125), and so breaks the order of the heap among pods of
\* one priority, Front and Pop never prefer a pod of lower priority (or of a
\* smaller request, under the other comparator).
Rank(p) == IF inner.comparator = "DefaultComparator" THEN Priority[p] ELSE Memory[p]
HighestPriorityFirst ==
    inner.keys # << >> => \A k \in Stored(inner) : Rank(Pending(k)) <= Rank(FrontPod)

\* The two records of a nomination agree, through preemption, binding and
\* deletion: a pod that NominatedPods returns for a node has that node in its
\* status, where RemoveNominatedNode and Delete look for it
\* (priority_queue.go:141, priority_queue.go:87), and is still pending, unless an
\* update replaced its manifest.
NominationsLive ==
    \A n \in Nodes, k \in Keys :
        LET p == nominatedPods[n][k] IN
        p # NoPod => /\ KeyOf[p] = k /\ NominatedNodeName[p] = n
                     /\ Pending(k) = p \/ p \in replaced

\* A pod whose victims are still in their grace period evicts no others
\* (generic_scheduler_k8s.go:87): under one nomination, the pods that terminate
\* because of it are all on the node it is nominated for.
EvictsOnOneNode ==
    \A p \in Pods : \A q \in victimsOf[p] :
        IsTerminating(q) => host[q] = NominatedNodeName[p]

\* What preemption frees is kept for the pod it was freed for
\* (generic_scheduler_k8s.go:295): a nominated pod fits on its node with the pods
\* that run there and the pods of its or a higher priority that are nominated for
\* it, unless a pod of higher priority was bound there since.  Pods without a UID
\* take each other's nominations for their own: nothing is kept for them.
ReservedRoom ==
    \A n \in Nodes : \A p \in NominatedPods(n) \ (intruded \cup replaced \cup Replacements) :
        LET S == {q \in RunningAndTerminating(n) : IsRunning(q)}
                   \cup {q \in NominatedPods(n) \ Replacements : Priority[q] >= Priority[p]}
        IN  Total(S) <= Capacity

\* All choices of victims at this point, and the nodes that may be picked.
PossibleVictims == IF ~FitError THEN {}
           ELSE UNION {NodesToVictims(FrontPod, S) : S \in PotentialNodes(FrontPod)}

\* pickOneNodeForPreemption reads the first victim of each node as the most
\* important one (generic_scheduler_k8s.go:347): the node picked never costs a pod
\* of higher priority than another would, nor, at the same highest priority, a
\* larger sum of (shifted) priorities.
CheapestNode ==
    \A V \in {W \in PossibleVictims : ~OutOfRange(W)} : \A n \in pickOneNodeForPreemption(V), m \in DOMAIN V :
        LET Most(x) == Max({Priority[q] : q \in ToSet(V[x])} \cup {-Offset})
            All(x) == MapThenSumSet(LAMBDA q : Priority[q] + Offset, ToSet(V[x]))
        IN  Most(n) < Most(m) \/ (Most(n) = Most(m) /\ All(n) <= All(m))

\* pickOneNodeForPreemption reads the first victim of each candidate without a test
\* (generic_scheduler_k8s.go:347), although selectNodesForPreemption may return
\* candidates without victims.  The index is in range for all pods but those whose
\* nodes extenders refused.
PanicsOnRefusalOnly == pc = "panicked" => FrontPod \in Refusable

\* "Try to reprieve as many pods as possible." (generic_scheduler_k8s.go:212)  No
\* victim could be spared: with any one of them and the pods that stay, the
\* preemptor does not fit, nominated pods included.  Not so on a node with pods
\* without a UID, which are counted twice.  A candidate without victims is a node
\* whose predicates the preemptor passed as it is, so that only extenders can have
\* refused it, and the choice among candidates finds a victim on each otherwise.
VictimsNeeded ==
    /\ PanicsOnRefusalOnly
    /\ \A V \in PossibleVictims : \A n \in DOMAIN V :
           /\ V[n] = << >> => podFitsOnNode(FrontPod, n, NodeInfo(n))
           /\ \/ RunningAndTerminating(n) \cap Replacements # {}
              \/ \A q \in ToSet(V[n]) :
                    ~podFitsOnNode(FrontPod, n, NodeInfo(n) - Total(ToSet(V[n]) \ {q}))
=============================================================================
