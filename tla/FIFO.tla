-------------------------------- MODULE FIFO --------------------------------
(***************************************************************************)
(* The data structure of pkg/queue/fifo.go, as operators on its value.     *)
(*                                                                         *)
(* A FIFOQueue is a map from pod keys to pods and a slice of keys.  Push   *)
(* adds to both; Delete removes from the map only, so the slice may hold   *)
(* stale keys, which Front and Pop skip when they meet them.               *)
(*                                                                         *)
(* Pods are the manifests (v1.Pod objects) a queue holds; KeyOf is         *)
(* util.PodKey, which fails (NoKey) for a pod without namespace or name.   *)
(* A key that the map does not hold is mapped to NoPod.                    *)
(***************************************************************************)
EXTENDS Naturals, Sequences

CONSTANTS Keys,    \* "namespace/name" of the pods
          Pods,    \* pod manifests
          NoPod,   \* what a lookup of an absent key gives
          NoKey,   \* util.PodKey failed
          KeyOf    \* the key of each pod

ASSUME NoPodAssumption == NoPod \notin Pods
ASSUME NoKeyAssumption == NoKey \notin Keys
ASSUME KeyOfAssumption == KeyOf \in [Pods -> Keys \cup {NoKey}]

\* The pods of which util.PodKey builds a key.
Named == {p \in Pods : KeyOf[p] # NoKey}

\* All values of the struct.
FIFOQueues == [pods : [Keys -> Pods \cup {NoPod}], queue : Seq(Keys)]

NewFIFOQueue == [pods |-> [k \in Keys |-> NoPod], queue |-> << >>]

-----------------------------------------------------------------------------
\* A key is in the map.
Has(f, k) == f.pods[k] # NoPod

\* The positions of the slice whose key is in the map.
Live(f) == {i \in 1..Len(f.queue) : Has(f, f.queue[i])}

\* The loops of Pop and Front run off the end of the slice.
IsEmpty(f) == Live(f) = {}

\* The position at which those loops stop otherwise.
FrontIndex(f) == CHOOSE i \in Live(f) : \A j \in Live(f) : i <= j
FrontKey(f) == f.queue[FrontIndex(f)]
FrontPod(f) == f.pods[FrontKey(f)]

\* The rest of the slice once its stale prefix is dropped.
DropStale(f) ==
    IF IsEmpty(f) THEN << >> ELSE SubSeq(f.queue, FrontIndex(f), Len(f.queue))

\* Mutant: the pod is put at the head of the slice.
PushAtHead(f, p) ==
    [pods |-> [f.pods EXCEPT ![KeyOf[p]] = p], queue |-> <<KeyOf[p]>> \o f.queue]

\* Push of a pod with a key.
Push(f, p) ==
    [pods  |-> [f.pods EXCEPT ![KeyOf[p]] = p],
     queue |-> Append(f.queue, KeyOf[p])]

\* Front of a queue changes the slice.
Front(f) == [pods |-> f.pods, queue |-> DropStale(f)]

\* Mutant: the pod stays in the map.
PopKeepsPod(f) == [f EXCEPT !.queue = IF IsEmpty(f) THEN << >> ELSE Tail(DropStale(f))]

Pop(f) ==
    IF IsEmpty(f)
    THEN [pods |-> f.pods, queue |-> << >>]
    ELSE [pods  |-> [f.pods EXCEPT ![FrontKey(f)] = NoPod],
          queue |-> Tail(DropStale(f))]

Delete(f, k) == [pods |-> [f.pods EXCEPT ![k] = NoPod], queue |-> f.queue]

\* Update of a pod that is in the queue by a manifest of the same key.
Update(f, p) == [pods |-> [f.pods EXCEPT ![KeyOf[p]] = p], queue |-> f.queue]

\* Len counts stale keys as well.
QLen(f) == Len(f.queue)

=============================================================================
