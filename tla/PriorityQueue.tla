--------------------------- MODULE PriorityQueue ---------------------------
(***************************************************************************)
(* The PriorityQueue of pkg/queue/priority_queue.go under any sequence of  *)
(* calls but Reorder: a heap of keys (container/heap), a map from keys to  *)
(* items with their position in the heap, and the pods nominated for each  *)
(* node.                                                                   *)
(*                                                                         *)
(* A nomination is also written to the status of the manifest, and the     *)
(* scheduler writes the time of a failed attempt to the manifest of a pod  *)
(* that stays in the heap: both are shared state of queue and scheduler,   *)
(* and Preemption makes those writes.  Positions count from one.           *)
(***************************************************************************)
EXTENDS Integers, Sequences, SequencesExt, FiniteSets

CONSTANTS
    Keys, Pods, NoPod, NoKey, KeyOf,  \* as in FIFO
    Nodes, NoNode,
    Priority, Memory,   \* of each pod: what the comparators look at
    Created,            \* the time of its creation
    MaxTime,            \* bound on times
    Calls               \* what callers do beside Push, Pop and Front

ASSUME KeyAssumption ==
    NoPod \notin Pods /\ NoKey \notin Keys /\ KeyOf \in [Pods -> Keys \cup {NoKey}]
ASSUME PodAssumption ==
    /\ Priority \in [Pods -> Int]
    /\ Memory \in [Pods -> Nat]
    /\ MaxTime \in Nat
    /\ Created \in [Pods -> 0..MaxTime]
ASSUME NoNodeAssumption == NoNode \notin Nodes
\* "again": a name is pushed while it is pending.
ASSUME CallsAssumption == Calls \subseteq {"again", "Delete", "Update"}

VARIABLES
    inner,              \* the rawPriorityQueue: items, keys and comparator
    nominatedPods,
    NominatedNodeName,  \* in the status of each manifest
    time,               \* podTimestamp of each manifest
    out                 \* the last call and what it returned

nominations == <<nominatedPods, NominatedNodeName>>
vars == <<inner, nominations, time, out>>

-----------------------------------------------------------------------------
(* The comparators.                                                        *)

\* Mutant: the older pod comes first whatever its priority.
OlderFirst(p, q) ==
    time[p] < time[q] \/ (time[p] = time[q] /\ Priority[p] > Priority[q])

DefaultComparator(p, q) ==
    Priority[p] > Priority[q] \/ (Priority[p] = Priority[q] /\ time[p] < time[q])

ResourceRequestComparator(p, q) == Memory[p] > Memory[q]

Comparators == {"DefaultComparator", "ResourceRequestComparator"}

Compare(c, p, q) ==
    IF c = "DefaultComparator" THEN DefaultComparator(p, q) ELSE ResourceRequestComparator(p, q)

-----------------------------------------------------------------------------
(* rawPriorityQueue, the heap.Interface.                                   *)

NoItem == [pod |-> NoPod, index |-> 0]
Stored(h) == {k \in Keys : h.items[k] # NoItem}

Less(h, i, j) == Compare(h.comparator, h.items[h.keys[i]].pod, h.items[h.keys[j]].pod)

\* Mutant: the items keep their positions.
SwapKeys(h, i, j) == [h EXCEPT !.keys[i] = h.keys[j], !.keys[j] = h.keys[i]]

Swap(h, i, j) ==
    LET ks == [h.keys EXCEPT ![i] = h.keys[j], ![j] = h.keys[i]] IN
    [h EXCEPT !.keys = ks, !.items[ks[i]].index = i, !.items[ks[j]].index = j]

\* Mutant: positions count from zero.
RawPushZero(h, p) ==
    [h EXCEPT !.items[KeyOf[p]] = [pod |-> p, index |-> Cardinality(Stored(h))],
              !.keys = Append(@, KeyOf[p])]

\* The position of the new key is taken from the number of items.
RawPush(h, p) ==
    [h EXCEPT !.items[KeyOf[p]] = [pod |-> p, index |-> Cardinality(Stored(h)) + 1],
              !.keys = Append(@, KeyOf[p])]

RawPop(h) == [h EXCEPT !.items[Last(h.keys)] = NoItem, !.keys = Front(@)]

-----------------------------------------------------------------------------
(* container/heap.  A loop runs its body for as many rounds as the heap has *)
(* keys: a body that stops leaves its argument unchanged.                  *)

Loop(Body(_), h, i) ==
    LET at[k \in 0..Len(h.keys)] ==
            IF k = 0 THEN [heap |-> h, i |-> i] ELSE Body(at[k - 1])
    IN  at[Len(h.keys)]

UpBody(at) ==
    IF at.i = 1 \/ ~Less(at.heap, at.i, at.i \div 2) THEN at
    ELSE [heap |-> Swap(at.heap, at.i \div 2, at.i), i |-> at.i \div 2]

up(h, i) == Loop(UpBody, h, i).heap

DownBody(at, n) ==
    LET h     == at.heap
        left  == 2 * at.i
        child == IF left < n /\ Less(h, left + 1, left) THEN left + 1 ELSE left
    IN  IF left > n \/ ~Less(h, child, at.i) THEN at
        ELSE [heap |-> Swap(h, at.i, child), i |-> child]

down(h, i, n) == LET Body(at) == DownBody(at, n) IN Loop(Body, h, i)

DownOrUp(h, i, n) ==
    LET moved == down(h, i, n) IN IF moved.i > i THEN moved.heap ELSE up(h, i)

HeapPush(h, p) == up(RawPush(h, p), Len(h.keys) + 1)

HeapPop(h) ==
    LET n == Len(h.keys) IN RawPop(down(Swap(h, 1, n), 1, n - 1).heap)

HeapRemove(h, i) ==
    LET n == Len(h.keys) IN
    RawPop(IF i = n THEN h ELSE DownOrUp(Swap(h, i, n), i, n - 1))

HeapFix(h, i) == DownOrUp(h, i, Len(h.keys))

-----------------------------------------------------------------------------
(* The methods of PriorityQueue.                                           *)

Returns(op, err, pod, found) ==
    out' = [op |-> op, err |-> err, pod |-> pod, found |-> found]

Init ==
    /\ \E c \in Comparators :
          inner = [items |-> [k \in Keys |-> NoItem], keys |-> << >>, comparator |-> c]
    /\ nominatedPods = [n \in Nodes |-> [k \in Keys |-> NoPod]]
    /\ NominatedNodeName = [p \in Pods |-> NoNode]
    /\ time = Created
    /\ out = [op |-> "New", err |-> "nil", pod |-> NoPod, found |-> FALSE]

Pending(k) == inner.items[k].pod
FrontPod == Pending(Head(inner.keys))

CallPush(p) ==
    /\ \/ /\ KeyOf[p] = NoKey
          /\ Returns("Push", "InvalidArgument", NoPod, FALSE)
          /\ UNCHANGED inner
       \/ /\ KeyOf[p] # NoKey
          /\ "again" \in Calls \/ KeyOf[p] \notin Stored(inner)
          /\ Returns("Push", "nil", NoPod, FALSE)
          /\ inner' = HeapPush(inner, p)
    /\ UNCHANGED <<nominations, time>>

Empty(op) ==
    /\ inner.keys = << >>
    /\ Returns(op, "ErrEmptyQueue", NoPod, FALSE)
    /\ UNCHANGED inner

CallPop ==
    /\ \/ Empty("Pop")
       \/ /\ inner.keys # << >>
          /\ Returns("Pop", "nil", FrontPod, FALSE)
          /\ inner' = HeapPop(inner)
    /\ UNCHANGED <<nominations, time>>

CallFront ==
    /\ \/ Empty("Front")
       \/ /\ inner.keys # << >>
          /\ Returns("Front", "nil", FrontPod, FALSE)
          /\ UNCHANGED inner
    /\ UNCHANGED <<nominations, time>>

\* nominatedPods without the nomination of p that its status names.
Unnominated(p) ==
    [n \in Nodes |-> IF n = NominatedNodeName[p]
                     THEN [nominatedPods[n] EXCEPT ![KeyOf[p]] = NoPod]
                     ELSE nominatedPods[n]]

RemoveNominatedNode(p) ==
    /\ NominatedNodeName' = [NominatedNodeName EXCEPT ![p] = NoNode]
    /\ nominatedPods' = Unnominated(p)

\* Mutant: the key stays in the heap, as in the FIFO queue.
DeleteItem(k) ==
    /\ "Delete" \in Calls
    /\ k \in Stored(inner)
    /\ Returns("Delete", "nil", NoPod, TRUE)
    /\ RemoveNominatedNode(Pending(k))
    /\ inner' = [inner EXCEPT !.items[k] = NoItem]
    /\ UNCHANGED time

CallDelete(k) ==
    /\ "Delete" \in Calls
    /\ \/ /\ k \notin Stored(inner)
          /\ Returns("Delete", "nil", NoPod, FALSE)
          /\ UNCHANGED <<inner, nominations>>
       \/ /\ k \in Stored(inner)
          /\ Returns("Delete", "nil", NoPod, TRUE)
          /\ RemoveNominatedNode(Pending(k))
          /\ LET h == HeapRemove(inner, inner.items[k].index) IN
             inner' = [h EXCEPT !.items[k] = NoItem]
    /\ UNCHANGED time

UpdateError(k, p) ==
    IF KeyOf[p] = NoKey THEN "InvalidArgument"
    ELSE IF KeyOf[p] # k THEN "ErrDifferentNames" ELSE "ErrNoMatchingPod"

\* Mutant: the heap is not restored.
UpdateInPlace(k, p) ==
    /\ "Update" \in Calls
    /\ KeyOf[p] = k /\ k \in Stored(inner)
    /\ Returns("Update", "nil", NoPod, FALSE)
    /\ inner' = [inner EXCEPT !.items[k].pod = p]
    /\ UNCHANGED <<nominations, time>>

CallUpdate(k, p) ==
    /\ "Update" \in Calls
    /\ \/ /\ KeyOf[p] # k \/ k \notin Stored(inner)
          /\ Returns("Update", UpdateError(k, p), NoPod, FALSE)
          /\ UNCHANGED inner
       \/ /\ KeyOf[p] = k /\ k \in Stored(inner)
          /\ Returns("Update", "nil", NoPod, FALSE)
          /\ inner' = HeapFix([inner EXCEPT !.items[k].pod = p], inner.items[k].index)
    /\ UNCHANGED <<nominations, time>>

-----------------------------------------------------------------------------
(* What the scheduler does with the pods of the queue.                     *)

\* nominatedPods with p nominated for n only.
UpdateNominatedNode(p, n) == [Unnominated(p) EXCEPT ![n][KeyOf[p]] = p]

NominatedPods(n) == {nominatedPods[n][k] : k \in Keys} \ {NoPod}

\* updatePodStatusSchedulingFailure: the times after the clock t was written to the
\* manifest, which stays where it is in the heap.
SchedulingFailure(p, t) == [time EXCEPT ![p] = t]

-----------------------------------------------------------------------------
Next ==
    \/ \E p \in Pods : CallPush(p)
    \/ CallPop
    \/ CallFront
    \/ \E k \in Keys : CallDelete(k)
    \/ \E k \in Keys, p \in Pods : CallUpdate(k, p)

Spec == Init /\ [][Next]_vars

-----------------------------------------------------------------------------
\* Types of the structs (priority_queue.go:28 and priority_queue.go:184) and of
\* the fields of a manifest that the queue reads or writes.
TypeOK ==
    /\ inner.items \in [Keys -> [pod : Pods, index : 1..Cardinality(Keys)] \cup {NoItem}]
    /\ inner.keys \in Seq(Keys)
    /\ inner.comparator \in Comparators
    /\ nominatedPods \in [Nodes -> [Keys -> Pods \cup {NoPod}]]
    /\ NominatedNodeName \in [Pods -> Nodes \cup {NoNode}]
    /\ time \in [Pods -> 0..MaxTime]

\* "A pod exists in keys iff it also exists in items." (priority_queue.go:185)
\* Less and Swap follow a key to its item without a test, and Front answers from
\* the first key: a key without an item is a nil pointer.
KeysMatchItems == {inner.keys[i] : i \in 1..Len(inner.keys)} = Stored(inner)

\* "The pods are sorted by their priority, which can be configured by users."
\* (priority_queue.go:27)  No pending pod comes before the one that Front and Pop
\* take, after any pushes, deletions in the middle of the heap and updates.
FrontFirst ==
    inner.keys # << >> =>
        \A k \in Stored(inner) : ~Compare(inner.comparator, Pending(k), FrontPod)

\* The priority queue keeps the promises of the PodQueue interface (queue.go:49):
\* no pod is lost or found twice, and Pop takes the pod that Front showed.
Interface == INSTANCE PodQueue WITH pending <- [k \in Keys |-> inner.items[k].pod]
ImplementsPodQueue == Interface!Spec
=============================================================================
