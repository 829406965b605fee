--------------------------- MODULE FIFOQueueProofs ---------------------------
(***************************************************************************)
(* Proofs about FIFOQueue: its invariants, and that it implements the      *)
(* interface PodQueue, for every set of keys and pods.                     *)
(***************************************************************************)
EXTENDS FIFOOrder, FIFOProofs

\* What the caller of Front saw is still there: no method ran since.
FrontShown ==
    out.op = "Front" => IF IsEmpty(fifo) THEN out.pod = NoPod
                                         ELSE out.pod = FrontPod(fifo)

\* The inductive invariant.
Inv == TypeOK /\ NoPodStranded /\ FrontShown

LEMMA InitInv == Init => Inv
<1> SUFFICES ASSUME Init PROVE Inv
  OBVIOUS
<1>1. fifo \in FIFOQueues /\ Reachable(fifo)
  BY NewOK DEF Init
<1>2. out \in Results /\ FrontShown
  BY DEF Init, Results, Errors, FrontShown
<1> QED BY <1>1, <1>2 DEF Inv, TypeOK, NoPodStranded, Reachable

LEMMA NextInv == Inv /\ [Next]_vars => Inv'
<1> SUFFICES ASSUME Inv, [Next]_vars PROVE Inv'
  OBVIOUS
<1>0. fifo \in FIFOQueues /\ Reachable(fifo) /\ out \in Results
  BY DEF Inv, TypeOK, NoPodStranded, Reachable
<1> SUFFICES fifo' \in FIFOQueues /\ Reachable(fifo') /\ out' \in Results /\ FrontShown'
  BY DEF Inv, TypeOK, NoPodStranded, Reachable
<1>1. ASSUME NEW p \in Pods, CallPush(p)
      PROVE  fifo' \in FIFOQueues /\ Reachable(fifo') /\ out' \in Results /\ FrontShown'
  <2>1. out' \in Results /\ FrontShown'
    <3>1. PICK e \in {"nil", "InvalidArgument"} :
                 out' = [op |-> "Push", err |-> e, pod |-> NoPod, found |-> FALSE]
      BY <1>1 DEF CallPush, Returns
    <3> QED BY <3>1 DEF Results, Errors, FrontShown
  <2>2. CASE KeyOf[p] = NoKey
    BY <1>0, <1>1, <2>1, <2>2 DEF CallPush
  <2>3. CASE KeyOf[p] # NoKey
    BY <1>0, <1>1, <2>1, <2>3, PushOK DEF CallPush, Named
  <2> QED BY <2>2, <2>3
<1>2. CASE CallPop
  <2>1. ~IsEmpty(fifo) => FrontPod(fifo) \in Pods
    BY <1>0, FrontIndexLeast
  <2>2. out' \in Results /\ FrontShown'
    <3>1. CASE IsEmpty(fifo)
      <4>1. out' = [op |-> "Pop", err |-> "ErrEmptyQueue", pod |-> NoPod, found |-> FALSE]
        BY <1>2, <3>1 DEF CallPop, Returns
      <4> QED BY <4>1 DEF Results, Errors, FrontShown
    <3>2. CASE ~IsEmpty(fifo)
      <4>1. out' = [op |-> "Pop", err |-> "nil", pod |-> FrontPod(fifo), found |-> FALSE]
        BY <1>2, <3>2 DEF CallPop, Returns
      <4> QED BY <2>1, <3>2, <4>1 DEF Results, Errors, FrontShown
    <3> QED BY <3>1, <3>2
  <2> QED BY <1>0, <1>2, <2>2, PopOK, PopEmptyOK DEF CallPop
<1>3. CASE CallFront
  <2>1. ~IsEmpty(fifo) => FrontPod(fifo) \in Pods
    BY <1>0, FrontIndexLeast
  <2>2. out' \in Results
    <3>1. CASE IsEmpty(fifo)
      <4>1. out' = [op |-> "Front", err |-> "ErrEmptyQueue", pod |-> NoPod, found |-> FALSE]
        BY <1>3, <3>1 DEF CallFront, Returns
      <4> QED BY <4>1 DEF Results, Errors, FrontShown
    <3>2. CASE ~IsEmpty(fifo)
      <4>1. out' = [op |-> "Front", err |-> "nil", pod |-> FrontPod(fifo), found |-> FALSE]
        BY <1>3, <3>2 DEF CallFront, Returns
      <4> QED BY <2>1, <3>2, <4>1 DEF Results, Errors, FrontShown
    <3> QED BY <3>1, <3>2
  <2>3. FrontShown'
    <3>1. out'.pod = IF IsEmpty(fifo) THEN NoPod ELSE FrontPod(fifo)
      BY <1>3 DEF CallFront, Returns
    <3>2. /\ IsEmpty(fifo') <=> IsEmpty(fifo)
          /\ ~IsEmpty(fifo) => FrontPod(fifo') = FrontPod(fifo)
      BY <1>0, <1>3, FrontAgain DEF CallFront
    <3> QED BY <3>1, <3>2 DEF FrontShown
  <2> QED BY <1>0, <1>3, <2>2, <2>3, FrontOK DEF CallFront
<1>4. ASSUME NEW k \in Keys, CallDelete(k)
      PROVE  fifo' \in FIFOQueues /\ Reachable(fifo') /\ out' \in Results /\ FrontShown'
  <2>1. out' \in Results /\ FrontShown'
    BY <1>4 DEF CallDelete, Returns, Results, Errors, FrontShown, Has
  <2> QED BY <1>0, <1>4, <2>1, DeleteOK DEF CallDelete
<1>5. ASSUME NEW k \in Keys, NEW p \in Pods, CallUpdate(k, p)
      PROVE  fifo' \in FIFOQueues /\ Reachable(fifo') /\ out' \in Results /\ FrontShown'
  <2>1. UpdateError(k, p) \in Errors
    BY DEF UpdateError, Errors
  <2>2. out' \in Results /\ FrontShown'
    <3>1. "nil" \in Errors
      BY DEF Errors
    <3>2. PICK e \in Errors : out' = [op |-> "Update", err |-> e, pod |-> NoPod, found |-> FALSE]
      BY <1>5, <2>1, <3>1 DEF CallUpdate, Returns
    <3> QED BY <3>2 DEF Results, FrontShown
  <2>3. CASE KeyOf[p] = k /\ Has(fifo, k)
    <3>1. p \in Named
      BY <2>3, NoKeyAssumption DEF Named
    <3> QED BY <1>0, <1>5, <2>2, <2>3, <3>1, UpdateOK DEF CallUpdate
  <2>4. CASE ~(KeyOf[p] = k /\ Has(fifo, k))
    BY <1>0, <1>5, <2>2, <2>4 DEF CallUpdate
  <2> QED BY <2>3, <2>4
<1>6. CASE UNCHANGED vars
  BY <1>0, <1>6 DEF vars, Inv, FrontShown
<1> QED BY <1>1, <1>2, <1>3, <1>4, <1>5, <1>6 DEF Next

\* The types hold, and no pod of the map is ever stranded outside the slice
\* (fifo.go:42 to fifo.go:103), for all keys, pods and call sequences.
THEOREM FIFOInvariant == Spec => [](TypeOK /\ NoPodStranded)
<1>1. Inv => TypeOK /\ NoPodStranded
  BY DEF Inv
<1> QED BY <1>1, InitInv, NextInv, PTL DEF Spec

\* The map, the slice and the results keep their types (the structs of fifo.go and the errors of queue.go).
THEOREM FIFOTypeCorrect == Spec => []TypeOK
<1> QED BY FIFOInvariant, PTL

-----------------------------------------------------------------------------
LEMMA InitRefines == Init => Interface!Init
  BY DEF Init, NewFIFOQueue, Interface!Init

\* Each method is the operation of the interface of the same name.
LEMMA NextRefines == Inv /\ [Next]_vars => [Interface!Next]_Interface!vars
<1> SUFFICES ASSUME Inv, [Next]_vars PROVE [Interface!Next]_Interface!vars
  OBVIOUS
<1>0. fifo \in FIFOQueues /\ Reachable(fifo) /\ out \in Results
  BY DEF Inv, TypeOK, NoPodStranded, Reachable
<1>a. fifo.pods \in [Keys -> Pods \cup {NoPod}]
  BY <1>0 DEF FIFOQueues
<1>b. IsEmpty(fifo) => Interface!NothingPending
  BY <1>0, EmptyMap DEF Interface!NothingPending
<1>c. ~IsEmpty(fifo) => /\ FrontKey(fifo) \in Keys
                        /\ fifo.pods[FrontKey(fifo)] = FrontPod(fifo)
                        /\ Interface!AtFront(FrontKey(fifo))
  <2> SUFFICES ASSUME ~IsEmpty(fifo)
               PROVE  /\ FrontKey(fifo) \in Keys
                      /\ fifo.pods[FrontKey(fifo)] = FrontPod(fifo)
                      /\ Interface!AtFront(FrontKey(fifo))
    OBVIOUS
  <2>1. FrontKey(fifo) \in Keys /\ FrontPod(fifo) # NoPod
    BY <1>0, FrontIndexLeast
  <2>2. fifo.pods[FrontKey(fifo)] = FrontPod(fifo)
    BY DEF FrontPod
  <2>3. out.op = "Front" => out.pod = FrontPod(fifo)
    BY DEF Inv, FrontShown
  <2> QED BY <2>1, <2>2, <2>3 DEF Interface!AtFront
<1>1. ASSUME NEW p \in Pods, CallPush(p) PROVE Interface!Push(p)
  <2>1. CASE KeyOf[p] = NoKey
    BY <1>1, <2>1 DEF CallPush, Returns, Interface!Push, Interface!Returns
  <2>2. CASE KeyOf[p] # NoKey
    <3>1. fifo'.pods = [fifo.pods EXCEPT ![KeyOf[p]] = p]
      BY <1>0, <1>1, <2>2, PushOK DEF CallPush, Named
    <3> QED BY <1>1, <2>2, <3>1 DEF CallPush, Returns, Interface!Push, Interface!Returns
  <2> QED BY <2>1, <2>2
<1>2. ASSUME CallPop PROVE Interface!Pop
  <2>1. CASE IsEmpty(fifo)
    <3>1. fifo'.pods = fifo.pods
      BY <1>0, <1>2, <2>1, PopEmptyOK DEF CallPop
    <3>2. Returns("Pop", "ErrEmptyQueue", NoPod, FALSE)
      BY <1>2, <2>1 DEF CallPop
    <3> QED BY <1>b, <2>1, <3>1, <3>2
            DEF Returns, Interface!Pop, Interface!Empty, Interface!Returns
  <2>2. CASE ~IsEmpty(fifo)
    <3>1. fifo'.pods = [fifo.pods EXCEPT ![FrontKey(fifo)] = NoPod]
      BY <1>0, <1>2, <2>2, PopOK DEF CallPop
    <3>2. Returns("Pop", "nil", FrontPod(fifo), FALSE)
      BY <1>2, <2>2 DEF CallPop
    <3>3. Interface!Returns("Pop", "nil", fifo.pods[FrontKey(fifo)], FALSE)
      BY <1>c, <2>2, <3>2 DEF Returns, Interface!Returns
    <3> QED BY <1>c, <2>2, <3>1, <3>3 DEF Interface!Pop
  <2> QED BY <2>1, <2>2
<1>3. ASSUME CallFront PROVE Interface!Front
  <2>0. fifo'.pods = fifo.pods
    BY <1>0, <1>3, FrontOK DEF CallFront
  <2>1. CASE IsEmpty(fifo)
    <3>2. Returns("Front", "ErrEmptyQueue", NoPod, FALSE)
      BY <1>3, <2>1 DEF CallFront
    <3> QED BY <1>b, <2>0, <2>1, <3>2
            DEF Returns, Interface!Front, Interface!Empty, Interface!Returns
  <2>2. CASE ~IsEmpty(fifo)
    <3>2. Returns("Front", "nil", FrontPod(fifo), FALSE)
      BY <1>3, <2>2 DEF CallFront
    <3>3. Interface!Returns("Front", "nil", fifo.pods[FrontKey(fifo)], FALSE)
      BY <1>c, <2>2, <3>2 DEF Returns, Interface!Returns
    <3> QED BY <1>c, <2>0, <2>2, <3>3 DEF Interface!Front
  <2> QED BY <2>1, <2>2
<1>4. ASSUME NEW k \in Keys, CallDelete(k) PROVE Interface!Delete(k)
  <2>1. fifo'.pods = [fifo.pods EXCEPT ![k] = NoPod]
    BY <1>0, <1>4, DeleteOK DEF CallDelete
  <2>2. Returns("Delete", "nil", NoPod, fifo.pods[k] # NoPod)
    BY <1>4 DEF CallDelete, Has
  <2> QED BY <2>1, <2>2 DEF Returns, Interface!Delete, Interface!Returns
<1>5. ASSUME NEW k \in Keys, NEW p \in Pods, CallUpdate(k, p) PROVE Interface!Update(k, p)
  <2>1. CASE KeyOf[p] = k /\ Has(fifo, k)
    <3>1. p \in Named
      BY <2>1, NoKeyAssumption DEF Named
    <3>2. fifo'.pods = [fifo.pods EXCEPT ![k] = p]
      BY <1>0, <1>5, <2>1, <3>1, UpdateOK DEF CallUpdate
    <3> QED BY <1>5, <2>1, <3>2
            DEF CallUpdate, Returns, Has, Interface!Update, Interface!Returns
  <2>2. CASE ~(KeyOf[p] = k /\ Has(fifo, k))
    BY <1>5, <2>2 DEF CallUpdate, Returns, Has, UpdateError, Interface!Update,
                      Interface!Returns, Interface!UpdateError
  <2> QED BY <2>1, <2>2
<1>6. ASSUME UNCHANGED vars PROVE UNCHANGED Interface!vars
  BY <1>6 DEF vars, Interface!vars
<1> QED BY <1>1, <1>2, <1>3, <1>4, <1>5, <1>6 DEF Next, Interface!Next

\* The FIFO queue implements the interface of queue.go: in particular Pop and
\* Front report an empty queue only if no pod is pending, and Pop takes the pod
\* that the Front before it returned.
THEOREM FIFOImplementsPodQueue == Spec => ImplementsPodQueue
<1>1. Spec => []Inv
  BY InitInv, NextInv, PTL DEF Spec
<1> QED BY <1>1, InitRefines, NextRefines, PTL DEF Spec, ImplementsPodQueue, Interface!Spec

-----------------------------------------------------------------------------
(* Pods leave in the order of their arrival.                               *)

\* The pods ahead of a pod are in the queue, and the slice has them before it.
InOrder ==
    /\ ahead \in [Keys -> SUBSET Keys]
    /\ \A k \in Keys \ requeued : Has(fifo, k) =>
           \A j \in ahead[k] : Has(fifo, j) /\ Precedes(fifo, j, k)

LEMMA HNextNext == [HNext]_HVars => [Next]_vars
BY DEF HNext, HPush, HOther, Next, HVars, vars

LEMMA GoodInit == Init => Good(fifo)
BY GoodNew DEF Init

LEMMA GoodNext == Good(fifo) /\ [Next]_vars => Good(fifo')
<1> SUFFICES ASSUME Good(fifo), [Next]_vars PROVE Good(fifo')
  OBVIOUS
<1>1. ASSUME NEW p \in Pods, CallPush(p) PROVE Good(fifo')
  BY <1>1, GoodPush DEF CallPush, Named
<1>2. CASE CallPop
  BY <1>2, GoodPop DEF CallPop
<1>3. CASE CallFront
  BY <1>3, GoodFront DEF CallFront
<1>4. ASSUME NEW k \in Keys, CallDelete(k) PROVE Good(fifo')
  BY <1>4, GoodDelete DEF CallDelete
<1>5. ASSUME NEW k \in Keys, NEW p \in Pods, CallUpdate(k, p) PROVE Good(fifo')
  BY <1>5, GoodUpdate, NoKeyAssumption DEF CallUpdate, Named
<1>6. CASE UNCHANGED vars
  BY <1>6 DEF vars
<1> QED BY <1>1, <1>2, <1>3, <1>4, <1>5, <1>6 DEF Next

LEMMA PushInOrder == ASSUME Good(fifo), InOrder, NEW p \in Pods, HPush(p) PROVE InOrder'
<1> DEFINE x == KeyOf[p]
<1>1. CASE x = NoKey
  <2>1. UNCHANGED <<fifo, ahead, requeued>>
    BY <1>1 DEF HPush, CallPush
  <2> QED BY <2>1 DEF InOrder, Precedes
<1>2. CASE x # NoKey
  <2>1. x \in Keys /\ p \in Named /\ fifo' = Push(fifo, p)
    BY <1>2, KeyOfAssumption DEF Named, HPush, CallPush
  <2>2. /\ ahead' = IF Has(fifo, x) THEN ahead
                    ELSE [ahead EXCEPT ![x] = {j \in Keys : Has(fifo, j)}]
        /\ requeued' = IF InSlice(x) THEN requeued \cup {x} ELSE requeued \ {x}
    BY <1>2 DEF HPush
  <2>3. fifo \in FIFOQueues /\ Reachable(fifo) /\ fifo.pods \in [Keys -> Pods \cup {NoPod}]
        /\ fifo' \in FIFOQueues
    BY <2>1, PushOK DEF Good, FIFOQueues
  <2>4. \A j \in Keys : Has(fifo, j) => Has(fifo', j)
    BY <2>1, <2>3, NoPodAssumption DEF Has, Push, Named
  <2>5. \A j \in Keys : Has(fifo, j) => Listed(fifo, j)
    BY <2>3 DEF Reachable, Listed
  <2>6. \A j \in Keys : j # x => (Has(fifo', j) <=> Has(fifo, j))
    BY <2>1, <2>3 DEF Has, Push
  <2>7. ahead' \in [Keys -> SUBSET Keys]
    BY <2>2 DEF InOrder
  <2> SUFFICES ASSUME NEW k \in Keys, k \notin requeued', Has(fifo', k), NEW j \in ahead'[k]
               PROVE  Has(fifo', j) /\ Precedes(fifo', j, k)
    BY <2>7 DEF InOrder
  <2>8. j \in Keys
    BY <2>7
  <2> HIDE DEF x
  <2>9. CASE k = x
    <3>1. ~InSlice(k)
      BY <2>2, <2>9
    <3>2. ~Listed(fifo, k) /\ ~Has(fifo, k)
      BY <2>5, <3>1 DEF Listed, InSlice
    <3>3. Has(fifo, j)
      BY <2>2, <2>9, <3>2 DEF InOrder
    <3>4. Precedes(fifo, j, k)
      BY <3>2 DEF Precedes, Listed
    <3> QED BY <2>1, <2>3, <2>4, <2>5, <2>8, <3>3, <3>4, PushPrecedes
  <2>10. CASE k # x
    <3>1. ahead'[k] = ahead[k] /\ k \notin requeued /\ Has(fifo, k)
      BY <2>2, <2>6, <2>10 DEF InOrder
    <3>2. Has(fifo, j) /\ Precedes(fifo, j, k)
      BY <3>1 DEF InOrder
    <3> QED BY <2>1, <2>3, <2>4, <2>5, <2>8, <3>2, PushPrecedes
  <2> QED BY <2>9, <2>10
<1> QED BY <1>1, <1>2

LEMMA OtherInOrder == ASSUME Good(fifo), InOrder, HOther PROVE InOrder'
<1>1. /\ ahead' = [k \in Keys |-> {j \in ahead[k] : fifo'.pods[j] # NoPod}]
      /\ requeued' = requeued
  BY DEF HOther
<1>2. ahead' \in [Keys -> SUBSET Keys]
  BY <1>1 DEF InOrder
<1>3. fifo \in FIFOQueues /\ fifo.pods \in [Keys -> Pods \cup {NoPod}] /\ Good(fifo')
  <2>1. [Next]_vars
    BY DEF HOther, Next
  <2> QED BY <2>1, GoodNext DEF Good, FIFOQueues
<1>4. ASSUME NEW k \in Keys, Has(fifo', k) PROVE Has(fifo, k)
  <2>1. CASE CallPop
    <3>1. CASE IsEmpty(fifo)
      BY <1>4, <2>1, <3>1 DEF CallPop, Pop, Has
    <3>2. CASE ~IsEmpty(fifo)
      <4>1. fifo'.pods = [fifo.pods EXCEPT ![FrontKey(fifo)] = NoPod]
        BY <1>3, <2>1, <3>2, PopOK DEF CallPop
      <4> QED BY <1>3, <1>4, <4>1 DEF Has
    <3> QED BY <3>1, <3>2
  <2>2. CASE CallFront
    BY <1>4, <2>2 DEF CallFront, Front, Has
  <2>3. ASSUME NEW l \in Keys, CallDelete(l) PROVE Has(fifo, k)
    BY <1>3, <1>4, <2>3 DEF CallDelete, Delete, Has
  <2>4. ASSUME NEW l \in Keys, NEW p \in Pods, CallUpdate(l, p) PROVE Has(fifo, k)
    <3>1. CASE UNCHANGED fifo
      BY <1>4, <3>1 DEF Has
    <3>2. CASE KeyOf[p] = l /\ Has(fifo, l) /\ fifo' = Update(fifo, p)
      <4>1. fifo'.pods = [fifo.pods EXCEPT ![l] = p]
        BY <3>2 DEF Update
      <4> QED BY <1>3, <1>4, <3>2, <4>1 DEF Has
    <3> QED BY <2>4, <3>1, <3>2 DEF CallUpdate
  <2> QED BY <2>1, <2>2, <2>3, <2>4 DEF HOther
<1>5. ASSUME NEW k \in Keys, NEW j \in Keys, Precedes(fifo, j, k), Has(fifo, j), Has(fifo', j)
      PROVE  Precedes(fifo', j, k)
  <2>1. CASE CallPop
    BY <1>3, <1>5, <2>1, PopPrecedes DEF CallPop
  <2>2. CASE CallFront
    BY <1>3, <1>5, <2>2, FrontPrecedes DEF CallFront
  <2>3. ASSUME NEW l \in Keys, CallDelete(l) PROVE Precedes(fifo', j, k)
    BY <1>5, <2>3 DEF CallDelete, Delete, Precedes
  <2>4. ASSUME NEW l \in Keys, NEW p \in Pods, CallUpdate(l, p) PROVE Precedes(fifo', j, k)
    <3>1. CASE UNCHANGED fifo
      BY <1>5, <3>1 DEF Precedes
    <3>2. CASE fifo' = Update(fifo, p)
      BY <1>5, <3>2 DEF Update, Precedes
    <3> QED BY <2>4, <3>1, <3>2 DEF CallUpdate
  <2> QED BY <2>1, <2>2, <2>3, <2>4 DEF HOther
<1> SUFFICES ASSUME NEW k \in Keys, k \notin requeued, Has(fifo', k), NEW j \in ahead'[k]
             PROVE  Has(fifo', j) /\ Precedes(fifo', j, k)
  BY <1>1, <1>2 DEF InOrder
<1>6. j \in ahead[k] /\ j \in Keys /\ Has(fifo', j)
  BY <1>1, <1>2 DEF Has
<1>7. Has(fifo, j) /\ Precedes(fifo, j, k)
  BY <1>4, <1>6 DEF InOrder
<1> QED BY <1>5, <1>6, <1>7

\* A pod is popped only when every pod that was pending when it was pushed has left,
\* for any number of keys and any length of the slice, unless the slice held a copy of
\* its key then (fifo.go:54, fifo.go:67).
THEOREM FIFOFirstInFirstOut == HSpec => FirstInFirstOut
<1>1. HInit => Good(fifo) /\ InOrder
  <2> SUFFICES ASSUME HInit PROVE InOrder
    BY GoodInit DEF HInit
  <2> QED BY DEF HInit, InOrder
<1>2. Good(fifo) /\ InOrder /\ [HNext]_HVars => Good(fifo') /\ InOrder'
  <2> SUFFICES ASSUME Good(fifo), InOrder, [HNext]_HVars PROVE InOrder'
    BY HNextNext, GoodNext
  <2>1. CASE UNCHANGED HVars
    BY <2>1 DEF HVars, InOrder, Precedes
  <2> QED BY <2>1, PushInOrder, OtherInOrder DEF HNext
<1>3. Good(fifo) /\ InOrder /\ [HNext]_HVars =>
         [\A k \in Keys \ requeued : Popped(k) => ahead[k] = {}]_HVars
  <2> SUFFICES ASSUME Good(fifo), InOrder, HNext,
                      NEW k \in Keys, k \notin requeued, Popped(k), NEW j \in ahead[k]
               PROVE  FALSE
    OBVIOUS
  <2>1. CallPop
    BY DEF HNext, HPush, HOther, CallPush, CallFront, CallDelete, CallUpdate, Returns, Popped
  <2>2. ~IsEmpty(fifo) /\ out'.pod = FrontPod(fifo) /\ KeyOf[out'.pod] = k
    BY <2>1 DEF CallPop, Returns, Popped
  <2>3. fifo \in FIFOQueues /\ k = FrontKey(fifo) /\ FrontPod(fifo) # NoPod
    BY <2>2, FrontNamed, FrontIndexLeast DEF Good
  <2>4. Has(fifo, k)
    BY <2>3 DEF Has, FrontPod
  <2>5. Has(fifo, j) /\ Precedes(fifo, j, k)
    BY <2>4 DEF InOrder
  <2> QED BY <2>2, <2>3, <2>5, FrontFirst
<1>4. (Good(fifo))' <=> Good(fifo')
  BY DEF Good, Keyed, Reachable, Has
<1> QED BY <1>1, <1>2, <1>3, <1>4, PTL DEF HSpec, FirstInFirstOut
=============================================================================
