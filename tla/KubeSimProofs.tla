---------------------------- MODULE KubeSimProofs ----------------------------
(***************************************************************************)
(* Proofs about KubeSim, for every set of pods, nodes and submitters, any  *)
(* clock and every configuration of the scheduler: its types, that no pod  *)
(* is scheduled twice and none is lost, that no node is over-committed,    *)
(* that every live pod is reachable, that Run ends when all pods are done, *)
(* and in which order, and after how many passes, the pods are tried.      *)
(***************************************************************************)
EXTENDS KubeSimOrder, KubeSimWaits, FIFOProofs, FiniteSetTheorems

\* The part of TypeOK that the operations on the queues disturb.
LEMMA InitType == Init => TypeOK
  BY NewOK DEF Init, TypeOK, Statuses

\* The first event of a non-empty list.
LEMMA HeadEvent ==
    ASSUME TypeOK, events # << >>
    PROVE  /\ Tail(events) \in Seq(Events)
           /\ Head(events) = events[1]
           /\ Head(events).kind = "bind" => Head(events).pod \in Pods /\ Head(events).node \in Nodes
           /\ Head(events).kind = "delete" => Head(events).keys \in SUBSET Keys
<1>1. events \in Seq(Events)
  BY DEF TypeOK
<1>2. Tail(events) \in Seq(Events) /\ Head(events) \in Events /\ Head(events) = events[1]
  BY <1>1
<1> QED BY <1>2 DEF Events, BindEvents, DeleteEvents

-----------------------------------------------------------------------------
(* The bind events not yet applied.                                        *)

LEMMA AppendBind ==
    ASSUME TypeOK, NEW p \in Pods, NEW n \in Nodes,
           events' = Append(events, [kind |-> "bind", pod |-> p, node |-> n])
    PROVE  /\ events' \in Seq(Events)
           /\ Len(events) \in Nat
           /\ Len(events') = Len(events) + 1
           /\ \A i \in 1..Len(events) : events'[i] = events[i]
           /\ events'[Len(events) + 1] = [kind |-> "bind", pod |-> p, node |-> n]
<1>1. events \in Seq(Events) /\ [kind |-> "bind", pod |-> p, node |-> n] \in Events
  BY DEF TypeOK, Events, BindEvents
<1> QED BY <1>1

LEMMA AppendDelete ==
    ASSUME TypeOK, NEW K \in SUBSET Keys,
           events' = Append(events, [kind |-> "delete", keys |-> K])
    PROVE  /\ events' \in Seq(Events)
           /\ Len(events) \in Nat
           /\ Len(events') = Len(events) + 1
           /\ \A i \in 1..Len(events) : events'[i] = events[i]
           /\ events'[Len(events) + 1].kind = "delete"
<1>1. events \in Seq(Events) /\ [kind |-> "delete", keys |-> K] \in Events
  BY DEF TypeOK, Events, DeleteEvents
<1> QED BY <1>1

LEMMA TailEvents ==
    ASSUME TypeOK, events # << >>, events' = Tail(events)
    PROVE  /\ events' \in Seq(Events)
           /\ Len(events) \in Nat
           /\ 1 \in 1..Len(events)
           /\ Head(events) = events[1]
           /\ Len(events') = Len(events) - 1
           /\ \A i \in 1..Len(events') : events'[i] = events[i + 1]
<1>1. events \in Seq(Events)
  BY DEF TypeOK
<1> QED BY <1>1

-----------------------------------------------------------------------------
\* Types, with what the queues keep: the pod that a pass takes from one queue
\* and pushes on the other has a key.
AllNamed ==
    /\ \A n \in Nodes : nodePods[n] \subseteq Named /\ info[n] \subseteq Named
    /\ \A i \in 1..Len(events) : events[i].kind = "bind" => events[i].pod \in Named

QueueTypes == TypeOK /\ Good(pending) /\ Good(failQueue)
TypeInv == QueueTypes /\ AllNamed

\* Deleting bound pods keeps the types.
LEMMA DeletePodsType ==
    ASSUME TypeInv, NEW keys, DeletePodsFromNode(keys)
    PROVE  /\ status' \in [Pods -> Statuses]
           /\ deletedAt' \in [Pods -> Nat]
           /\ UNCHANGED <<nodePods, boundPods, boundAt, host>>
<1> DEFINE D == {p \in Targets(keys) : Deletable(p)}
<1>1. /\ status' = [p \in Pods |-> IF p \in D THEN "Deleted" ELSE status[p]]
      /\ deletedAt' = [p \in Pods |-> IF p \in D THEN clock ELSE deletedAt[p]]
      /\ UNCHANGED <<nodePods, boundPods, boundAt, host>>
  BY DEF DeletePodsFromNode
<1> HIDE DEF D
<1> QED BY <1>1 DEF TypeInv, QueueTypes, TypeOK, Statuses

\* The victims of a preemption have keys.
LEMMA VictimKeys ==
    ASSUME TypeInv, NEW n \in Nodes, NEW V \in SUBSET info[n]
    PROVE  {KeyOf[q] : q \in V} \in SUBSET Keys
<1>1. \A q \in V : q \in Named
  BY DEF TypeInv, AllNamed
<1>2. \A q \in V : KeyOf[q] \in Keys
  BY <1>1, KeyOfAssumption DEF Named
<1> QED BY <1>2

LEMMA NextQueueTypes == TypeInv /\ [Next]_vars => QueueTypes'
<1> SUFFICES ASSUME TypeInv, [Next]_vars PROVE QueueTypes'
  OBVIOUS
<1> USE DEF loopVars, submitVars, queueVars, schedVars, podVars
<1>1. CASE Loop
  <2>1. Good(pending')
    BY <1>1, GoodFront DEF TypeInv, QueueTypes, Loop
  <2> QED BY <1>1, <2>1 DEF TypeInv, QueueTypes, TypeOK, Loop, Return, Goto, Good
<1>2. ASSUME NEW s \in Submitters, CallSubmitter(s) PROVE QueueTypes'
  BY <1>2 DEF TypeInv, QueueTypes, TypeOK, CallSubmitter, Return, Good
<1>3. ASSUME NEW p \in Pods, SubmitEvent(p) PROVE QueueTypes'
  <2>1. CASE KeyOf[p] = NoKey
    BY <1>3, <2>1 DEF TypeInv, QueueTypes, TypeOK, SubmitEvent, Return
  <2>2. CASE KeyOf[p] # NoKey
    <3>1. Good(pending')
      BY <1>3, <2>2, GoodPush DEF TypeInv, QueueTypes, SubmitEvent, Named
    <3>2. Replaced(p) \in SUBSET Pods
      BY <2>2, KeyOfAssumption DEF TypeInv, QueueTypes, TypeOK, Replaced, FIFOQueues
    <3> QED BY <1>3, <2>2, <3>1, <3>2 DEF TypeInv, QueueTypes, TypeOK, SubmitEvent, Good
  <2> QED BY <2>1, <2>2
<1>4. ASSUME NEW k \in Keys, DeleteEvent(k) PROVE QueueTypes'
  <2>1. CASE Has(pending, k)
    <3>1. Good(pending')
      BY <1>4, <2>1, GoodDelete DEF TypeInv, QueueTypes, DeleteEvent
    <3>2. pending.pods[k] \in Pods
      BY <2>1 DEF TypeInv, QueueTypes, TypeOK, FIFOQueues, Has
    <3> QED BY <1>4, <2>1, <3>1, <3>2 DEF TypeInv, QueueTypes, TypeOK, DeleteEvent, Good
  <2>2. CASE ~Has(pending, k)
    BY <1>4, <2>2, DeletePodsType DEF TypeInv, QueueTypes, TypeOK, DeleteEvent
  <2> QED BY <2>1, <2>2
<1>5. ASSUME NEW k \in Keys, NEW p \in Pods, UpdateEvent(k, p) PROVE QueueTypes'
  <2>1. CASE KeyOf[p] = k /\ Has(pending, k)
    <3>1. p \in Named
      BY <2>1, NoKeyAssumption DEF Named
    <3>2. Good(pending')
      BY <1>5, <2>1, <3>1, GoodUpdate DEF TypeInv, QueueTypes, UpdateEvent
    <3>3. Replaced(p) \in SUBSET Pods
      BY <2>1 DEF TypeInv, QueueTypes, TypeOK, Replaced, FIFOQueues
    <3> QED BY <1>5, <2>1, <3>2, <3>3 DEF TypeInv, QueueTypes, TypeOK, UpdateEvent, Good
  <2>2. CASE ~(KeyOf[p] = k /\ Has(pending, k))
    BY <1>5, <2>2 DEF TypeInv, QueueTypes, TypeOK, UpdateEvent, Return
  <2> QED BY <2>1, <2>2
<1>6. CASE TerminateSubmitterEvent
  BY <1>6 DEF TypeInv, QueueTypes, TypeOK, TerminateSubmitterEvent, Good
<1>7. CASE EndOfEvents
  BY <1>7 DEF TypeInv, QueueTypes, TypeOK, EndOfEvents, Good
<1>8. CASE StartSchedule
  <2>1. info' \in [Nodes -> SUBSET Pods]
    BY <1>8 DEF TypeInv, QueueTypes, TypeOK, StartSchedule, NodeInfo, ActiveOn
  <2> QED BY <1>8, <2>1 DEF TypeInv, QueueTypes, TypeOK, StartSchedule, Goto, Good
<1>9. ASSUME NEW n \in Nodes, ScheduleOne(n) PROVE QueueTypes'
  <2>1. FrontPod(pending) \in Named /\ Good(pending')
    BY <1>9, GoodPop, FrontNamed DEF TypeInv, QueueTypes, ScheduleOne, Trying, Good
  <2>2. [kind |-> "bind", pod |-> FrontPod(pending), node |-> n] \in Events
    BY <2>1 DEF Events, BindEvents, Named
  <2>3. events' \in Seq(Events)
    BY <1>9, <2>2 DEF ScheduleOne, TypeInv, QueueTypes, TypeOK
  <2>4. info' \in [Nodes -> SUBSET Pods]
    BY <1>9, <2>1 DEF ScheduleOne, TypeInv, QueueTypes, TypeOK, Named
  <2> QED BY <1>9, <2>1, <2>3, <2>4 DEF TypeInv, QueueTypes, TypeOK, ScheduleOne, Good
<1>10. CASE ScheduleLater
  <2>1. FrontPod(pending) \in Named /\ Good(pending')
    BY <1>10, GoodPop, FrontNamed DEF TypeInv, QueueTypes, ScheduleLater, Trying, Good
  <2>2. Good(failQueue')
    BY <1>10, <2>1, GoodPush DEF TypeInv, QueueTypes, ScheduleLater
  <2> QED BY <1>10, <2>1, <2>2 DEF TypeInv, QueueTypes, TypeOK, ScheduleLater, Goto, Good
<1>11. CASE SchedulePreempt
  <2>1. Good(pending')
    BY <1>11, GoodFront DEF TypeInv, QueueTypes, SchedulePreempt
  <2>2. events' \in Seq(Events)
    <3>1. CASE UNCHANGED events
      BY <3>1 DEF TypeInv, QueueTypes, TypeOK
    <3>2. ASSUME NEW n \in Nodes, NEW V \in SUBSET info[n], Victims(n, V),
                 events' = Append(events, [kind |-> "delete", keys |-> {KeyOf[q] : q \in V}])
          PROVE  events' \in Seq(Events)
      <4>1. {KeyOf[q] : q \in V} \in SUBSET Keys
        BY VictimKeys
      <4>2. [kind |-> "delete", keys |-> {KeyOf[q] : q \in V}] \in Events
        BY <4>1 DEF Events, DeleteEvents
      <4> QED BY <3>2, <4>2 DEF TypeInv, QueueTypes, TypeOK
    <3> QED BY <1>11, <3>1, <3>2 DEF SchedulePreempt, preempt
  <2> QED BY <1>11, <2>1, <2>2 DEF TypeInv, QueueTypes, TypeOK, SchedulePreempt, Goto, Good
<1>12. CASE ScheduleError
  <2>1. Good(pending')
    BY <1>12, GoodFront DEF TypeInv, QueueTypes, ScheduleError
  <2> QED BY <1>12, <2>1 DEF TypeInv, QueueTypes, TypeOK, ScheduleError, Goto, Good
<1>13. CASE QueueExhausted
  <2>1. Good(pending')
    BY <1>13, GoodFront DEF TypeInv, QueueTypes, QueueExhausted
  <2> QED BY <1>13, <2>1 DEF TypeInv, QueueTypes, TypeOK, QueueExhausted, Goto, Good
<1>14. CASE Resubmit
  <2>1. Good(failQueue')
    BY <1>14, GoodPop DEF TypeInv, QueueTypes, Resubmit
  <2>2. Good(pending')
    BY <1>14, GoodPush, FrontNamed DEF TypeInv, QueueTypes, Resubmit, Good
  <2> QED BY <1>14, <2>1, <2>2 DEF TypeInv, QueueTypes, TypeOK, Resubmit, Goto, Good
<1>15. CASE ApplyEvent
  <2> DEFINE e == Head(events)
  <2>1. Tail(events) \in Seq(Events)
    BY <1>15, HeadEvent DEF TypeInv, QueueTypes, ApplyEvent
  <2>2. CASE e.kind = "bind" /\ e.pod \notin Broken
    <3>1. e.pod \in Pods /\ e.node \in Nodes
      BY <1>15, <2>2, HeadEvent DEF TypeInv, QueueTypes, ApplyEvent
    <3>2. BindPod(e.node, e.pod) /\ UNCHANGED <<pc, result>>
      BY <1>15, <2>2 DEF ApplyEvent
    <3> HIDE DEF e
    <3> QED BY <1>15, <2>1, <3>1, <3>2 DEF TypeInv, QueueTypes, TypeOK, ApplyEvent, BindPod, Statuses
  <2>3. CASE e.kind = "bind" /\ e.pod \in Broken
    BY <1>15, <2>1, <2>3 DEF TypeInv, QueueTypes, TypeOK, ApplyEvent, Return
  <2>4. CASE e.kind = "delete"
    <3>1. DeletePodsFromNode(e.keys) /\ UNCHANGED <<pc, result>>
      BY <1>15, <2>4 DEF ApplyEvent
    <3> QED BY <1>15, <2>1, <3>1, DeletePodsType DEF TypeInv, QueueTypes, TypeOK, ApplyEvent
  <2> QED BY <1>15, <2>2, <2>3, <2>4 DEF ApplyEvent
<1>16. CASE EventsApplied
  BY <1>16 DEF TypeInv, QueueTypes, TypeOK, EventsApplied, Goto, Good
<1>17. CASE EndOfTick
  BY <1>17, TimeAssumption DEF TypeInv, QueueTypes, TypeOK, EndOfTick, Return, Goto, Good,
                             gcTerminatedPodsInNodes, NextClock
<1>18. CASE UNCHANGED vars
  BY <1>18 DEF TypeInv, QueueTypes, TypeOK, vars, Good
<1> QED BY <1>1, <1>2, <1>3, <1>4, <1>5, <1>6, <1>7, <1>8, <1>9, <1>10, <1>11, <1>12,
           <1>13, <1>14, <1>15, <1>16, <1>17, <1>18 DEF Next

LEMMA NextNamed == TypeInv /\ [Next]_vars => AllNamed'
<1> SUFFICES ASSUME TypeInv, [Next]_vars PROVE AllNamed'
  OBVIOUS
<1> USE DEF loopVars, submitVars, queueVars, schedVars, podVars
<1>0. /\ AllNamed /\ TypeOK
      /\ nodePods \in [Nodes -> SUBSET Pods] /\ info \in [Nodes -> SUBSET Pods]
  BY DEF TypeInv, QueueTypes, TypeOK
<1>1. CASE UNCHANGED <<nodePods, info, events>>
  BY <1>0, <1>1 DEF AllNamed
<1>2. CASE StartSchedule
  BY <1>0, <1>2 DEF AllNamed, StartSchedule, NodeInfo, ActiveOn
<1>3. ASSUME NEW n \in Nodes, ScheduleOne(n) PROVE AllNamed'
  <2>1. FrontPod(pending) \in Named /\ FrontPod(pending) \in Pods
    BY <1>3, FrontNamed DEF TypeInv, QueueTypes, ScheduleOne, Trying, Good, Named
  <2>2. \A m \in Nodes : nodePods'[m] \subseteq Named /\ info'[m] \subseteq Named
    BY <1>0, <1>3, <2>1 DEF AllNamed, ScheduleOne
  <2>3. events' = Append(events, [kind |-> "bind", pod |-> FrontPod(pending), node |-> n])
    BY <1>3 DEF ScheduleOne
  <2>4. ASSUME NEW i \in 1..Len(events'), events'[i].kind = "bind" PROVE events'[i].pod \in Named
    <3>1. CASE i \in 1..Len(events)
      BY <1>0, <2>1, <2>3, <2>4, <3>1, AppendBind DEF AllNamed
    <3>2. CASE i \notin 1..Len(events)
      <4>1. i = Len(events) + 1
        BY <1>0, <2>1, <2>3, <3>2, AppendBind
      <4>2. events'[i] = [kind |-> "bind", pod |-> FrontPod(pending), node |-> n]
        BY <1>0, <2>1, <2>3, <4>1, AppendBind
      <4> QED BY <2>1, <4>2
    <3> QED BY <3>1, <3>2
  <2> QED BY <2>2, <2>4 DEF AllNamed
<1>4. CASE SchedulePreempt
  <2>1. UNCHANGED <<nodePods, info>>
    BY <1>4 DEF SchedulePreempt
  <2>2. CASE UNCHANGED events
    BY <1>1, <2>1, <2>2
  <2>3. ASSUME NEW K \in SUBSET Keys,
               events' = Append(events, [kind |-> "delete", keys |-> K])
        PROVE  AllNamed'
    <3>1. ASSUME NEW i \in 1..Len(events'), events'[i].kind = "bind"
          PROVE  i \in 1..Len(events) /\ events'[i] = events[i]
      <4>1. i # Len(events) + 1
        BY <1>0, <2>3, <3>1, AppendDelete
      <4>2. i \in 1..Len(events)
        BY <1>0, <2>3, <4>1, AppendDelete
      <4> QED BY <1>0, <2>3, <4>2, AppendDelete
    <3> QED BY <1>0, <2>1, <3>1 DEF AllNamed
  <2> QED BY <1>4, <2>2, <2>3, VictimKeys DEF SchedulePreempt, preempt
<1>5. CASE ScheduleError
  BY <1>0, <1>5 DEF AllNamed, ScheduleError
<1>6. CASE ApplyEvent
  <2>1. /\ Len(events) \in Nat /\ 1 \in 1..Len(events) /\ Head(events) = events[1]
        /\ Len(events') = Len(events) - 1
        /\ \A i \in 1..Len(events') : events'[i] = events[i + 1]
    BY <1>0, <1>6, TailEvents DEF ApplyEvent
  <2>2. \A i \in 1..Len(events') : events'[i].kind = "bind" => events'[i].pod \in Named
    BY <1>0, <2>1 DEF AllNamed
  <2>3. UNCHANGED info
    BY <1>6 DEF ApplyEvent
  <2>4. CASE UNCHANGED nodePods
    BY <1>0, <2>2, <2>3, <2>4 DEF AllNamed
  <2>5. CASE Head(events).kind = "bind" /\ BindPod(Head(events).node, Head(events).pod)
    <3>1. Head(events).pod \in Named
      BY <1>0, <2>1, <2>5 DEF AllNamed
    <3>2. \A n \in Nodes : nodePods'[n] \subseteq nodePods[n] \cup {Head(events).pod}
      BY <1>0, <2>5 DEF BindPod
    <3> QED BY <1>0, <2>2, <2>3, <3>1, <3>2 DEF AllNamed
  <2> QED BY <1>6, <2>4, <2>5 DEF ApplyEvent, DeletePodsFromNode
<1>7. CASE EndOfTick
  BY <1>0, <1>7 DEF AllNamed, EndOfTick, gcTerminatedPodsInNodes
<1> QED BY <1>1, <1>2, <1>3, <1>4, <1>5, <1>6, <1>7
        DEF Next, Loop, CallSubmitter, SubmitEvent, DeleteEvent, DeletePodsFromNode,
            UpdateEvent, TerminateSubmitterEvent, EndOfEvents, ScheduleLater,
            QueueExhausted, Resubmit, EventsApplied, vars

LEMMA InitInv == Init => TypeInv
<1>1. Init => AllNamed
  BY DEF Init, AllNamed
<1> QED BY <1>1, InitType, GoodNew DEF TypeInv, QueueTypes, Init

LEMMA NextInv == TypeInv /\ [Next]_vars => TypeInv'
  BY NextQueueTypes, NextNamed DEF TypeInv

\* The types of KubeSim (kubesim.go:46), in every reachable state.
THEOREM KubeSimTypeCorrect == Spec => []TypeOK
<1>1. TypeInv => TypeOK
  BY DEF TypeInv, QueueTypes
<1> QED BY <1>1, InitInv, NextInv, PTL DEF Spec

-----------------------------------------------------------------------------
(* The pods of a queue under the operations on it.                         *)

LEMMA QueuedIff ==
    ASSUME NEW f, Good(f), NEW q
    PROVE  q \in Queued(f) <=> q \in Pods /\ KeyOf[q] \in Keys /\ f.pods[KeyOf[q]] = q
<1>1. f.pods \in [Keys -> Pods \cup {NoPod}] /\ Keyed(f)
  BY DEF Good, FIFOQueues
<1>2. ASSUME q \in Queued(f) PROVE q \in Pods /\ KeyOf[q] \in Keys /\ f.pods[KeyOf[q]] = q
  <2>1. PICK k \in Keys : f.pods[k] = q
    BY <1>2 DEF Queued
  <2>2. q # NoPod
    BY <1>2 DEF Queued
  <2> QED BY <1>1, <2>1, <2>2 DEF Keyed
<1>3. ASSUME q \in Pods, KeyOf[q] \in Keys, f.pods[KeyOf[q]] = q PROVE q \in Queued(f)
  BY <1>3, NoPodAssumption DEF Queued
<1> QED BY <1>2, <1>3

\* Push and Update replace the pod of the key.
LEMMA QueuedWrite ==
    ASSUME NEW f, Good(f), NEW g, Good(g), NEW p \in Named,
           g.pods = [f.pods EXCEPT ![KeyOf[p]] = p]
    PROVE  Queued(g) = (Queued(f) \ {f.pods[KeyOf[p]]}) \cup {p}
<1>1. /\ f.pods \in [Keys -> Pods \cup {NoPod}] /\ Keyed(f)
      /\ KeyOf[p] \in Keys /\ p \in Pods
  BY KeyOfAssumption DEF Good, FIFOQueues, Named
<1>2. ASSUME NEW q PROVE q \in Queued(g) <=> q \in (Queued(f) \ {f.pods[KeyOf[p]]}) \cup {p}
  <2>1. q \in Queued(g) <=> q \in Pods /\ KeyOf[q] \in Keys /\ g.pods[KeyOf[q]] = q
    BY QueuedIff
  <2>2. q \in Queued(f) <=> q \in Pods /\ KeyOf[q] \in Keys /\ f.pods[KeyOf[q]] = q
    BY QueuedIff
  <2>3. CASE q = p
    BY <1>1, <2>1, <2>3
  <2>4. CASE q # p
    <3>1. q \in Queued(f) /\ q = f.pods[KeyOf[p]] => KeyOf[q] = KeyOf[p]
      BY <1>1, <2>2, NoPodAssumption DEF Keyed
    <3> QED BY <1>1, <2>1, <2>2, <2>4, <3>1
  <2> QED BY <2>3, <2>4
<1> QED BY <1>2

\* Pop and Delete remove the pod of the key.
LEMMA QueuedErase ==
    ASSUME NEW f, Good(f), NEW g, Good(g), NEW k \in Keys,
           g.pods = [f.pods EXCEPT ![k] = NoPod]
    PROVE  Queued(g) = Queued(f) \ {f.pods[k]}
<1>1. f.pods \in [Keys -> Pods \cup {NoPod}] /\ Keyed(f)
  BY DEF Good, FIFOQueues
<1>2. ASSUME NEW q PROVE q \in Queued(g) <=> q \in Queued(f) \ {f.pods[k]}
  <2>1. q \in Queued(g) <=> q \in Pods /\ KeyOf[q] \in Keys /\ g.pods[KeyOf[q]] = q
    BY QueuedIff
  <2>2. q \in Queued(f) <=> q \in Pods /\ KeyOf[q] \in Keys /\ f.pods[KeyOf[q]] = q
    BY QueuedIff
  <2>3. q \in Queued(f) /\ q = f.pods[k] => KeyOf[q] = k
    BY <1>1, <2>2, NoPodAssumption DEF Keyed
  <2> QED BY <1>1, <2>1, <2>2, <2>3, NoPodAssumption
<1> QED BY <1>2

LEMMA QueuedPush ==
    ASSUME NEW f, Good(f), NEW p \in Named
    PROVE  Queued(Push(f, p)) = (Queued(f) \ {f.pods[KeyOf[p]]}) \cup {p}
<1>1. Good(Push(f, p))
  BY GoodPush
<1>2. Push(f, p).pods = [f.pods EXCEPT ![KeyOf[p]] = p]
  BY PushOK DEF Good
<1> QED BY <1>1, <1>2, QueuedWrite

LEMMA QueuedUpdate ==
    ASSUME NEW f, Good(f), NEW p \in Named, Has(f, KeyOf[p])
    PROVE  Queued(Update(f, p)) = (Queued(f) \ {f.pods[KeyOf[p]]}) \cup {p}
<1>1. Good(Update(f, p))
  BY GoodUpdate
<1>2. Update(f, p).pods = [f.pods EXCEPT ![KeyOf[p]] = p]
  BY UpdateOK DEF Good
<1> QED BY <1>1, <1>2, QueuedWrite

LEMMA QueuedDelete ==
    ASSUME NEW f, Good(f), NEW k \in Keys
    PROVE  Queued(Delete(f, k)) = Queued(f) \ {f.pods[k]}
<1>1. Good(Delete(f, k))
  BY GoodDelete
<1>2. Delete(f, k).pods = [f.pods EXCEPT ![k] = NoPod]
  BY DeleteOK DEF Good
<1> QED BY <1>1, <1>2, QueuedErase

LEMMA QueuedPop ==
    ASSUME NEW f, Good(f), ~IsEmpty(f)
    PROVE  /\ Queued(Pop(f)) = Queued(f) \ {FrontPod(f)}
           /\ FrontPod(f) \in Queued(f)
           /\ FrontPod(f) \in Named
           /\ f.pods[KeyOf[FrontPod(f)]] = FrontPod(f)
           /\ Pop(f).pods = [f.pods EXCEPT ![KeyOf[FrontPod(f)]] = NoPod]
<1>1. FrontPod(f) \in Named /\ KeyOf[FrontPod(f)] = FrontKey(f) /\ FrontKey(f) \in Keys
  BY FrontNamed, FrontIndexLeast DEF Good
<1>2. Pop(f).pods = [f.pods EXCEPT ![FrontKey(f)] = NoPod] /\ Good(Pop(f))
  BY PopOK, GoodPop DEF Good
<1>3. Queued(Pop(f)) = Queued(f) \ {FrontPod(f)}
  BY <1>1, <1>2, QueuedErase DEF FrontPod
<1>4. FrontPod(f) \in Queued(f)
  BY <1>1, QueuedIff DEF Named, FrontPod
<1> QED BY <1>1, <1>2, <1>3, <1>4 DEF FrontPod

LEMMA QueuedPopEmpty ==
    ASSUME NEW f, Good(f), IsEmpty(f)
    PROVE  Queued(Pop(f)) = Queued(f) /\ Queued(f) = {} /\ Pop(f).pods = f.pods
<1>1. Pop(f).pods = f.pods
  BY PopEmptyOK DEF Good
<1>2. \A k \in Keys : f.pods[k] = NoPod
  BY EmptyMap DEF Good
<1> QED BY <1>1, <1>2 DEF Queued

LEMMA QueuedFront ==
    ASSUME NEW f, Good(f)
    PROVE  Queued(Front(f)) = Queued(f)
  BY GoodFront DEF Queued

-----------------------------------------------------------------------------
(* The bind events.                                                        *)

LEMMA BindsAppendBind ==
    ASSUME TypeOK, NEW p \in Pods, NEW n \in Nodes,
           events' = Append(events, [kind |-> "bind", pod |-> p, node |-> n])
    PROVE  /\ BindIndices(p)' = BindIndices(p) \cup {Len(events) + 1}
           /\ \A q \in Pods \ {p} : BindIndices(q)' = BindIndices(q)
           /\ Deciding' = Deciding \cup {p}
<1> DEFINE e == [kind |-> "bind", pod |-> p, node |-> n]
<1>1. /\ Len(events) \in Nat /\ Len(events') = Len(events) + 1
      /\ \A i \in 1..Len(events) : events'[i] = events[i]
      /\ events'[Len(events) + 1] = e
  BY AppendBind
<1>2. e.kind = "bind" /\ e.pod = p
  OBVIOUS
<1> HIDE DEF e
<1>3. BindIndices(p)' = BindIndices(p) \cup {Len(events) + 1}
  BY <1>1, <1>2 DEF BindIndices
<1>4. ASSUME NEW q \in Pods \ {p} PROVE BindIndices(q)' = BindIndices(q)
  BY <1>1, <1>2 DEF BindIndices
<1> QED BY <1>3, <1>4 DEF Deciding

LEMMA BindsAppendDelete ==
    ASSUME TypeOK, NEW K \in SUBSET Keys,
           events' = Append(events, [kind |-> "delete", keys |-> K])
    PROVE  /\ \A q \in Pods : BindIndices(q)' = BindIndices(q)
           /\ Deciding' = Deciding
<1>1. /\ Len(events) \in Nat /\ Len(events') = Len(events) + 1
      /\ \A i \in 1..Len(events) : events'[i] = events[i]
      /\ events'[Len(events) + 1].kind = "delete"
  BY AppendDelete
<1>2. ASSUME NEW q \in Pods PROVE BindIndices(q)' = BindIndices(q)
  BY <1>1 DEF BindIndices
<1> QED BY <1>2 DEF Deciding

LEMMA BindsTail ==
    ASSUME TypeOK, events # << >>, events' = Tail(events)
    PROVE  \A q \in Pods : \A i : i \in BindIndices(q)' <=> i \in Nat \ {0} /\ i + 1 \in BindIndices(q)
<1>1. /\ Len(events) \in Nat /\ 1 \in 1..Len(events)
      /\ Len(events') = Len(events) - 1
      /\ \A i \in 1..Len(events') : events'[i] = events[i + 1]
  BY TailEvents
<1>2. ASSUME NEW q \in Pods, NEW i, i \in BindIndices(q)'
      PROVE  i \in Nat \ {0} /\ i + 1 \in BindIndices(q)
  BY <1>1, <1>2 DEF BindIndices
<1>3. ASSUME NEW q \in Pods, NEW i \in Nat \ {0}, i + 1 \in BindIndices(q)
      PROVE  i \in BindIndices(q)'
  <2>1. i + 1 \in 1..Len(events)
    BY <1>3 DEF BindIndices
  <2>2. i \in 1..Len(events')
    BY <1>1, <2>1
  <2> QED BY <1>1, <1>3, <2>2 DEF BindIndices
<1> QED BY <1>2, <1>3

-----------------------------------------------------------------------------
(* How each step moves pods between the places.                            *)

\* The pods of a pass are found under their names in one queue only.
KeysApart == \A k \in Keys : pending.pods[k] = NoPod \/ failQueue.pods[k] = NoPod

\* A queue is empty, or no event is left, outside the pass.
Phases ==
    /\ pc \notin {"schedule", "resubmit", "returned"} => \A k \in Keys : failQueue.pods[k] = NoPod
    /\ ~KeepScheduling => \A k \in Keys : failQueue.pods[k] = NoPod
    /\ pc \in {"loop", "submit", "metrics"} => events = << >>

LEMMA BoundKept ==
    ASSUME TypeInv, NEW keys, DeletePodsFromNode(keys)
    PROVE  Bound' = Bound
<1> DEFINE D == {p \in Targets(keys) : Deletable(p)}
<1>1. status' = [p \in Pods |-> IF p \in D THEN "Deleted" ELSE status[p]]
  BY DEF DeletePodsFromNode
<1>2. \A p \in D : status[p] = "Ok"
  BY DEF Deletable
<1> HIDE DEF D
<1> QED BY <1>1, <1>2 DEF Bound

LEMMA NoBinds ==
    ASSUME events = << >>
    PROVE  /\ Deciding = {}
           /\ \A p \in Pods : BindIndices(p) = {}
  BY DEF Deciding, BindIndices

LEMMA WriteMoves ==
    ASSUME TypeInv, NEW p \in Pods, p \in Named,
           pending' = Push(pending, p) \/ (Has(pending, KeyOf[p]) /\ pending' = Update(pending, p))
    PROVE  /\ Queued(pending)' = (Queued(pending) \ {pending.pods[KeyOf[p]]}) \cup {p}
           /\ Replaced(p) \subseteq Queued(pending)
           /\ Queued(pending) \ {pending.pods[KeyOf[p]]} = Queued(pending) \ Replaced(p)
<1>1. Good(pending)
  BY DEF TypeInv, QueueTypes
<1>2. Queued(pending') = (Queued(pending) \ {pending.pods[KeyOf[p]]}) \cup {p}
  BY <1>1, QueuedPush, QueuedUpdate
<1>3. KeyOf[p] \in Keys
  BY KeyOfAssumption DEF Named
<1> QED BY <1>2, <1>3 DEF Replaced, Queued

LEMMA ScheduleOneMoves ==
    ASSUME TypeInv, NEW n \in Nodes, ScheduleOne(n)
    PROVE  /\ FrontPod(pending) \in Queued(pending) /\ FrontPod(pending) \in Named
           /\ FrontPod(pending) \in Pods
           /\ Queued(pending)' = Queued(pending) \ {FrontPod(pending)}
           /\ pending.pods[KeyOf[FrontPod(pending)]] = FrontPod(pending)
           /\ pending'.pods = [pending.pods EXCEPT ![KeyOf[FrontPod(pending)]] = NoPod]
           /\ events' = Append(events, [kind |-> "bind", pod |-> FrontPod(pending), node |-> n])
           /\ UNCHANGED <<pc, failQueue, status, discarded, submitted>>
<1>1. Good(pending) /\ ~IsEmpty(pending) /\ pending' = Pop(pending)
  BY DEF TypeInv, QueueTypes, ScheduleOne, Trying
<1>2. UNCHANGED <<pc, failQueue, status, discarded, submitted>>
  BY DEF ScheduleOne, podVars
<1>3. events' = Append(events, [kind |-> "bind", pod |-> FrontPod(pending), node |-> n])
  BY DEF ScheduleOne
<1> QED BY <1>1, <1>2, <1>3, QueuedPop DEF Named

LEMMA ScheduleLaterMoves ==
    ASSUME TypeInv, ScheduleLater
    PROVE  /\ FrontPod(pending) \in Queued(pending) /\ FrontPod(pending) \in Named
           /\ Queued(pending)' = Queued(pending) \ {FrontPod(pending)}
           /\ pending.pods[KeyOf[FrontPod(pending)]] = FrontPod(pending)
           /\ pending'.pods = [pending.pods EXCEPT ![KeyOf[FrontPod(pending)]] = NoPod]
           /\ Queued(failQueue)' = (Queued(failQueue) \ {failQueue.pods[KeyOf[FrontPod(pending)]]})
                                      \cup {FrontPod(pending)}
           /\ failQueue'.pods = [failQueue.pods EXCEPT ![KeyOf[FrontPod(pending)]] = FrontPod(pending)]
           /\ UNCHANGED <<events, status, discarded, submitted>>
           /\ pc = "schedule" /\ pc' \in {"schedule", "resubmit"} /\ KeepScheduling
<1>1. /\ Good(pending) /\ Good(failQueue) /\ ~IsEmpty(pending)
      /\ pending' = Pop(pending) /\ failQueue' = Push(failQueue, FrontPod(pending))
  BY DEF TypeInv, QueueTypes, ScheduleLater, Trying
<1>2. UNCHANGED <<events, status, discarded, submitted>>
  BY DEF ScheduleLater, podVars
<1>3. pc = "schedule" /\ pc' \in {"schedule", "resubmit"} /\ KeepScheduling
  BY DEF ScheduleLater, Trying, Goto
<1>4. FrontPod(pending) \in Named
  BY <1>1, QueuedPop
<1>5. Queued(failQueue') = (Queued(failQueue) \ {failQueue.pods[KeyOf[FrontPod(pending)]]})
                              \cup {FrontPod(pending)}
  BY <1>1, <1>4, QueuedPush
<1>6. failQueue'.pods = [failQueue.pods EXCEPT ![KeyOf[FrontPod(pending)]] = FrontPod(pending)]
  BY <1>1, <1>4, PushOK DEF Good
<1> QED BY <1>1, <1>2, <1>3, <1>4, <1>5, <1>6, QueuedPop

LEMMA PreemptMoves ==
    ASSUME TypeInv, SchedulePreempt
    PROVE  /\ Queued(pending)' = Queued(pending)
           /\ pending'.pods = pending.pods
           /\ \A q \in Pods : BindIndices(q)' = BindIndices(q)
           /\ Deciding' = Deciding
           /\ \A i \in 1..Len(events') : events'[i].kind = "bind" =>
                 i \in 1..Len(events) /\ events'[i] = events[i]
           /\ UNCHANGED <<failQueue, info, clock, podVars, discarded, submitted>>
           /\ pc = "schedule" /\ pc' = "apply" /\ ~KeepScheduling
<1>1. TypeOK /\ Good(pending) /\ pending' = Front(pending)
  BY DEF TypeInv, QueueTypes, SchedulePreempt
<1>2. Queued(pending)' = Queued(pending) /\ pending'.pods = pending.pods
  BY <1>1, QueuedFront, GoodFront
<1>3. /\ UNCHANGED <<failQueue, info, clock, podVars, discarded, submitted>>
      /\ pc = "schedule" /\ pc' = "apply" /\ ~KeepScheduling
  BY DEF SchedulePreempt, Trying, Goto, loopVars
<1> DEFINE Kept == /\ \A q \in Pods : BindIndices(q)' = BindIndices(q)
                   /\ Deciding' = Deciding
                   /\ \A i \in 1..Len(events') : events'[i].kind = "bind" =>
                         i \in 1..Len(events) /\ events'[i] = events[i]
<1>4. ASSUME UNCHANGED events PROVE Kept
  BY <1>4 DEF Deciding, BindIndices
<1>5. ASSUME NEW K \in SUBSET Keys, events' = Append(events, [kind |-> "delete", keys |-> K])
      PROVE  Kept
  <2>1. ASSUME NEW i \in 1..Len(events'), events'[i].kind = "bind"
        PROVE  i \in 1..Len(events) /\ events'[i] = events[i]
    <3>1. i # Len(events) + 1
      BY <1>1, <1>5, <2>1, AppendDelete
    <3>2. i \in 1..Len(events)
      BY <1>1, <1>5, <3>1, AppendDelete
    <3> QED BY <1>1, <1>5, <3>2, AppendDelete
  <2> QED BY <1>1, <1>5, <2>1, BindsAppendDelete
<1>6. Kept
  <2> HIDE DEF Kept
  <2>1. CASE UNCHANGED events
    BY <1>4, <2>1
  <2>2. ASSUME NEW n \in Nodes, NEW V \in SUBSET info[n],
               events' = Append(events, [kind |-> "delete", keys |-> {KeyOf[q] : q \in V}])
        PROVE  Kept
    <3>1. {KeyOf[q] : q \in V} \in SUBSET Keys
      BY VictimKeys
    <3> QED BY <1>5, <2>2, <3>1
  <2> QED BY <2>1, <2>2 DEF SchedulePreempt, preempt
<1> QED BY <1>2, <1>3, <1>6

LEMMA ResubmitMoves ==
    ASSUME TypeInv, Resubmit, ~IsEmpty(failQueue)
    PROVE  /\ FrontPod(failQueue) \in Queued(failQueue) /\ FrontPod(failQueue) \in Named
           /\ Queued(failQueue)' = Queued(failQueue) \ {FrontPod(failQueue)}
           /\ failQueue.pods[KeyOf[FrontPod(failQueue)]] = FrontPod(failQueue)
           /\ failQueue'.pods = [failQueue.pods EXCEPT ![KeyOf[FrontPod(failQueue)]] = NoPod]
           /\ Queued(pending)' = (Queued(pending) \ {pending.pods[KeyOf[FrontPod(failQueue)]]})
                                    \cup {FrontPod(failQueue)}
           /\ pending'.pods = [pending.pods EXCEPT ![KeyOf[FrontPod(failQueue)]] = FrontPod(failQueue)]
           /\ UNCHANGED <<pc, events, status, discarded, submitted>>
<1>1. /\ Good(pending) /\ Good(failQueue)
      /\ failQueue' = Pop(failQueue) /\ pending' = Push(pending, FrontPod(failQueue))
      /\ UNCHANGED <<pc, events, status, discarded, submitted>>
  BY DEF TypeInv, QueueTypes, Resubmit, podVars
<1>2. FrontPod(failQueue) \in Named
  BY <1>1, QueuedPop
<1>3. Queued(pending') = (Queued(pending) \ {pending.pods[KeyOf[FrontPod(failQueue)]]})
                            \cup {FrontPod(failQueue)}
  BY <1>1, <1>2, QueuedPush
<1>4. pending'.pods = [pending.pods EXCEPT ![KeyOf[FrontPod(failQueue)]] = FrontPod(failQueue)]
  BY <1>1, <1>2, PushOK DEF Good
<1> QED BY <1>1, <1>2, <1>3, <1>4, QueuedPop

LEMMA ResubmitEnds ==
    ASSUME TypeInv, Resubmit, IsEmpty(failQueue)
    PROVE  /\ \A k \in Keys : failQueue.pods[k] = NoPod
           /\ failQueue'.pods = failQueue.pods
           /\ Queued(failQueue)' = Queued(failQueue)
           /\ UNCHANGED <<pending, events, status, discarded, submitted>>
           /\ pc' = "apply"
<1>1. /\ Good(failQueue) /\ failQueue' = Pop(failQueue)
      /\ UNCHANGED <<pending, events, status, discarded, submitted>>
      /\ pc' = "apply"
  BY DEF TypeInv, QueueTypes, Resubmit, podVars, Goto
<1> QED BY <1>1, QueuedPopEmpty, EmptyMap DEF Good

-----------------------------------------------------------------------------
(* No pod is scheduled twice.                                              *)

\* The places are disjoint, and hold submitted pods only.
Apart(P, F, D, B, X, S) ==
    /\ P \cap (F \cup D \cup B \cup X) = {}
    /\ F \cap (D \cup B \cup X) = {}
    /\ D \cap (B \cup X) = {}
    /\ B \cap X = {}
    /\ P \cup F \cup D \cup B \cup X \subseteq S

PlacesApart ==
    Apart(Queued(pending), Queued(failQueue), Deciding, Bound, discarded, submitted)

OneBind == \A p \in Pods : \A i, j \in BindIndices(p) : i = j

Places == PlacesApart /\ OneBind

LEMMA NextPlaces == TypeInv /\ Places /\ [Next]_vars => Places'
<1> SUFFICES ASSUME TypeInv, Places, [Next]_vars PROVE Places'
  OBVIOUS
<1> USE DEF loopVars, submitVars, queueVars, schedVars, podVars
<1>0. TypeOK /\ Good(pending) /\ Good(failQueue)
  BY DEF TypeInv, QueueTypes
<1>1. CASE UNCHANGED <<Queued(pending), Queued(failQueue), events, status, discarded, submitted>>
  BY <1>1 DEF Places, PlacesApart, OneBind, Deciding, BindIndices, Bound
<1>2. CASE UNCHANGED <<pending, failQueue, events, status, discarded, submitted>>
  BY <1>1, <1>2 DEF Queued
<1>3. CASE Loop \/ QueueExhausted
  <2>1. Queued(pending)' = Queued(pending)
    BY <1>0, <1>3, QueuedFront DEF Loop, QueueExhausted
  <2> QED BY <1>1, <1>3, <2>1 DEF Loop, QueueExhausted, Queued
<1>4. ASSUME NEW p \in Pods, p \in Named, p \notin submitted,
             pending' = Push(pending, p) \/ (Has(pending, KeyOf[p]) /\ pending' = Update(pending, p)),
             submitted' = submitted \cup {p},
             discarded' = discarded \cup Replaced(p),
             UNCHANGED <<failQueue, events, status>>
      PROVE  Places'
  <2>1. /\ Queued(pending)' = (Queued(pending) \ Replaced(p)) \cup {p}
        /\ Replaced(p) \subseteq Queued(pending)
    BY <1>4, WriteMoves
  <2>2. UNCHANGED <<Queued(failQueue), Deciding, Bound>> /\ OneBind'
    BY <1>4 DEF Queued, Deciding, BindIndices, Bound, Places, OneBind
  <2>3. PlacesApart'
    BY <1>4, <2>1, <2>2 DEF Places, PlacesApart, Apart
  <2> QED BY <2>2, <2>3 DEF Places
<1>5. ASSUME NEW p \in Pods, SubmitEvent(p) PROVE Places'
  BY <1>2, <1>4, <1>5 DEF SubmitEvent, Named
<1>6. ASSUME NEW k \in Keys, NEW p \in Pods, UpdateEvent(k, p) PROVE Places'
  BY <1>2, <1>4, <1>6, NoKeyAssumption DEF UpdateEvent, Named
<1>7. ASSUME NEW k \in Keys, DeleteEvent(k) PROVE Places'
  <2>1. CASE Has(pending, k)
    <3>1. Queued(pending)' = Queued(pending) \ {pending.pods[k]} /\ pending.pods[k] \in Queued(pending)
      BY <1>0, <1>7, <2>1, QueuedDelete DEF DeleteEvent, Has, Queued
    <3>2. /\ UNCHANGED <<Queued(failQueue), Deciding, Bound, submitted>> /\ OneBind'
          /\ discarded' = discarded \cup {pending.pods[k]}
      BY <1>7, <2>1 DEF DeleteEvent, Queued, Deciding, BindIndices, Bound, Places, OneBind
    <3>3. PlacesApart'
      BY <3>1, <3>2 DEF Places, PlacesApart, Apart
    <3> QED BY <3>2, <3>3 DEF Places
  <2>2. CASE ~Has(pending, k)
    <3>1. /\ UNCHANGED <<Queued(pending), Queued(failQueue), Deciding, Bound, discarded, submitted>>
          /\ OneBind'
      BY <1>7, <2>2, BoundKept DEF DeleteEvent, Queued, Deciding, BindIndices, Places, OneBind
    <3> QED BY <3>1 DEF Places, PlacesApart
  <2> QED BY <2>1, <2>2
<1>8. CASE StartSchedule \/ ScheduleError
  <2>1. Queued(pending)' = Queued(pending) /\ events' = << >>
    BY <1>0, <1>8, QueuedFront DEF StartSchedule, ScheduleError
  <2>2. UNCHANGED <<Queued(failQueue), Bound, discarded, submitted>>
    BY <1>8 DEF StartSchedule, ScheduleError, Queued, Bound
  <2>3. Deciding' = {} /\ OneBind'
    BY <2>1 DEF Deciding, OneBind, BindIndices
  <2>4. PlacesApart'
    BY <2>1, <2>2, <2>3 DEF Places, PlacesApart, Apart
  <2> QED BY <2>3, <2>4 DEF Places
<1>9. ASSUME NEW n \in Nodes, ScheduleOne(n) PROVE Places'
  <2>1. PICK p \in Pods :
              /\ p \in Queued(pending)
              /\ Queued(pending)' = Queued(pending) \ {p}
              /\ events' = Append(events, [kind |-> "bind", pod |-> p, node |-> n])
              /\ UNCHANGED <<failQueue, status, discarded, submitted>>
    BY <1>9, ScheduleOneMoves
  <2>2. UNCHANGED <<Queued(failQueue), Bound>>
    BY <2>1 DEF Queued, Bound
  <2>3. /\ BindIndices(p)' = BindIndices(p) \cup {Len(events) + 1}
        /\ \A q \in Pods \ {p} : BindIndices(q)' = BindIndices(q)
        /\ Deciding' = Deciding \cup {p}
    BY <1>0, <2>1, BindsAppendBind
  <2>4. BindIndices(p) = {}
    BY <2>1 DEF Places, PlacesApart, Apart, Deciding
  <2>5. OneBind'
    <3>1. \A q \in Pods \ {p} : \A i, j \in BindIndices(q)' : i = j
      BY <2>3 DEF Places, OneBind
    <3>2. \A i, j \in BindIndices(p)' : i = j
      BY <2>3, <2>4
    <3> QED BY <3>1, <3>2 DEF OneBind
  <2>6. PlacesApart'
    BY <2>1, <2>2, <2>3 DEF Places, PlacesApart, Apart
  <2> QED BY <2>5, <2>6 DEF Places
<1>10. CASE ScheduleLater
  <2> DEFINE p == FrontPod(pending)
             old == failQueue.pods[KeyOf[p]]
  <2>1. /\ p \in Queued(pending)
        /\ Queued(pending)' = Queued(pending) \ {p}
        /\ Queued(failQueue)' = (Queued(failQueue) \ {old}) \cup {p}
        /\ UNCHANGED <<events, status, discarded, submitted>>
    BY <1>10, ScheduleLaterMoves
  <2> HIDE DEF p, old
  <2>2. UNCHANGED <<Deciding, Bound>> /\ OneBind'
    BY <2>1 DEF Deciding, BindIndices, Bound, Places, OneBind
  <2>3. PlacesApart'
    BY <2>1, <2>2 DEF Places, PlacesApart, Apart
  <2> QED BY <2>2, <2>3 DEF Places
<1>11. CASE SchedulePreempt
  <2>1. /\ UNCHANGED <<Queued(pending), failQueue, status, Deciding, discarded, submitted>>
        /\ \A q \in Pods : BindIndices(q)' = BindIndices(q)
    BY <1>11, PreemptMoves
  <2>2. UNCHANGED <<Queued(failQueue), Bound>> /\ OneBind'
    BY <2>1 DEF Queued, Bound, Places, OneBind
  <2> QED BY <2>1, <2>2 DEF Places, PlacesApart
<1>12. CASE Resubmit
  <2>1. CASE IsEmpty(failQueue)
    BY <1>1, <1>12, <2>1, ResubmitEnds DEF Queued
  <2>2. CASE ~IsEmpty(failQueue)
    <3> DEFINE p == FrontPod(failQueue)
               old == pending.pods[KeyOf[p]]
    <3>1. /\ p \in Queued(failQueue)
          /\ Queued(failQueue)' = Queued(failQueue) \ {p}
          /\ Queued(pending)' = (Queued(pending) \ {old}) \cup {p}
          /\ UNCHANGED <<events, status, discarded, submitted>>
      BY <1>12, <2>2, ResubmitMoves
    <3> HIDE DEF p, old
    <3>2. UNCHANGED <<Deciding, Bound>> /\ OneBind'
      BY <3>1 DEF Deciding, BindIndices, Bound, Places, OneBind
    <3>3. PlacesApart'
      BY <3>1, <3>2 DEF Places, PlacesApart, Apart
    <3> QED BY <3>2, <3>3 DEF Places
  <2> QED BY <2>1, <2>2
<1>13. CASE ApplyEvent
  <2> DEFINE e == Head(events)
  <2>1. events # << >> /\ events' = Tail(events)
    BY <1>13 DEF ApplyEvent
  <2>2. \A q \in Pods : \A i : i \in BindIndices(q)' <=> i \in Nat \ {0} /\ i + 1 \in BindIndices(q)
    BY <1>0, <2>1, BindsTail
  <2>3. OneBind'
    <3> SUFFICES ASSUME NEW q \in Pods, NEW i \in BindIndices(q)', NEW j \in BindIndices(q)'
                 PROVE  i = j
      BY DEF OneBind
    <3>1. i \in Nat /\ j \in Nat /\ i + 1 \in BindIndices(q) /\ j + 1 \in BindIndices(q)
      BY <2>2
    <3>2. i + 1 = j + 1
      BY <3>1 DEF Places, OneBind
    <3> QED BY <3>1, <3>2
  <2>4. Deciding' \subseteq Deciding
    BY <2>2 DEF Deciding
  <2>5. UNCHANGED <<Queued(pending), Queued(failQueue), discarded, submitted>>
    BY <1>13 DEF ApplyEvent, Queued
  <2>6. CASE Bound' = Bound
    <3>1. PlacesApart'
      BY <2>4, <2>5, <2>6 DEF Places, PlacesApart, Apart
    <3> QED BY <2>3, <3>1 DEF Places
  <2>7. CASE e.kind = "bind" /\ BindPod(e.node, e.pod)
    <3>1. PICK p \in Pods : p = e.pod /\ 1 \in BindIndices(p)
      BY <1>0, <2>1, <2>7, HeadEvent, TailEvents DEF BindIndices
    <3>2. p \in Deciding
      BY <3>1 DEF Deciding
    <3>3. p \notin Deciding'
      <4> SUFFICES ASSUME NEW i \in BindIndices(p)' PROVE FALSE
        BY DEF Deciding
      <4>1. i \in Nat \ {0} /\ i + 1 \in BindIndices(p)
        BY <2>2
      <4>2. i + 1 = 1
        BY <3>1, <4>1 DEF Places, OneBind
      <4> QED BY <4>1, <4>2
    <3>4. status' = [status EXCEPT ![p] = "Ok"]
      BY <2>7, <3>1 DEF BindPod
    <3>5. Bound' = Bound \cup {p}
      BY <1>0, <3>4 DEF Bound, TypeOK
    <3>6. PlacesApart'
      BY <2>4, <2>5, <3>2, <3>3, <3>5 DEF Places, PlacesApart, Apart
    <3> QED BY <2>3, <3>6 DEF Places
  <2>8. CASE DeletePodsFromNode(e.keys)
    <3>1. Bound' = Bound
      BY <2>8, BoundKept
    <3> QED BY <2>6, <3>1
  <2>9. CASE UNCHANGED status
    BY <2>6, <2>9 DEF Bound
  <2> QED BY <1>13, <2>7, <2>8, <2>9 DEF ApplyEvent
<1> QED BY <1>2, <1>3, <1>5, <1>6, <1>7, <1>8, <1>9, <1>10, <1>11, <1>12, <1>13
        DEF Next, CallSubmitter, TerminateSubmitterEvent, EndOfEvents, EventsApplied,
            EndOfTick, vars

LEMMA InitPlaces == Init => Places
  BY DEF Init, Places, PlacesApart, Apart, OneBind, Queued, NewFIFOQueue, Deciding,
         BindIndices, Bound

\* The moves between pendingPods, failQueue, the events and the nodes
\* (generic_scheduler.go:115, generic_scheduler.go:181, kubesim.go:440) never put
\* a pod in two of these places, nor in two bind events.
THEOREM KubeSimNoPodTwice == Spec => []NoPodTwice
<1>1. Init => TypeInv /\ Places
  BY InitInv, InitPlaces
<1>2. TypeInv /\ Places /\ [Next]_vars => (TypeInv /\ Places)'
  BY NextInv, NextPlaces
<1>3. Places => NoPodTwice
  BY DEF Places, PlacesApart, Apart, OneBind, NoPodTwice
<1> QED BY <1>1, <1>2, <1>3, PTL DEF Spec

-----------------------------------------------------------------------------
(* No node is over-committed.                                              *)

InPass == pc \in {"schedule", "resubmit", "apply"}

\* What the scheduler sees on a node covers the pods on it and those it is about
\* to bind to it, and fits.
InfoCovers ==
    \A n \in Nodes :
        /\ ActiveOn(n) \subseteq info[n]
        /\ Fits(n, info[n])
        /\ \A i \in 1..Len(events) :
              events[i].kind = "bind" /\ events[i].node = n => events[i].pod \in info[n]

OnNodesBound == \A n \in Nodes : nodePods[n] \subseteq Bound

Room == OnNodesBound /\ NoOverCommit /\ (InPass => InfoCovers)

\* Fewer pods fit where more do.
LEMMA FitsFewer ==
    ASSUME NEW n \in Nodes, NEW S \in SUBSET Pods, NEW T \in SUBSET S, Fits(n, S)
    PROVE  Fits(n, T)
  BY FitsAssumption

LEMMA ActiveTypes ==
    ASSUME TypeInv, NEW n \in Nodes
    PROVE  /\ ActiveOn(n) \in SUBSET nodePods[n]
           /\ nodePods[n] \in SUBSET Pods
           /\ ActiveOn(n) \in SUBSET Pods
           /\ info[n] \in SUBSET Pods
  BY DEF TypeInv, QueueTypes, TypeOK, ActiveOn

\* A pod that is deleted was running: its resources stay taken, no more.
LEMMA DeleteStartsNone ==
    ASSUME TypeInv, NEW keys, DeletePodsFromNode(keys), UNCHANGED clock,
           NEW p \in Pods, Active(p, clock)'
    PROVE  Active(p, clock)
<1> DEFINE D == {q \in Targets(keys) : Deletable(q)}
<1>1. /\ status' = [q \in Pods |-> IF q \in D THEN "Deleted" ELSE status[q]]
      /\ deletedAt' = [q \in Pods |-> IF q \in D THEN clock ELSE deletedAt[q]]
      /\ UNCHANGED boundAt
  BY DEF DeletePodsFromNode
<1>2. \A q \in D : Deletable(q)
  OBVIOUS
<1> HIDE DEF D
<1>3. clock \in Nat /\ boundAt \in [Pods -> Nat] /\ Duration \in [Pods -> Nat]
  BY PodAssumption DEF TypeInv, QueueTypes, TypeOK
<1>4. CASE p \in D
  <2>1. status[p] = "Ok" /\ ~IsTerminated(p, clock)
    BY <1>2, <1>4 DEF Deletable
  <2>2. clock - boundAt[p] < Duration[p]
    BY <1>3, <2>1 DEF IsTerminated
  <2> QED BY <2>1, <2>2 DEF Active, IsRunning
<1>5. CASE p \notin D
  <2>1. status'[p] = status[p] /\ deletedAt'[p] = deletedAt[p] /\ boundAt'[p] = boundAt[p]
    BY <1>1, <1>5
  <2> QED BY <2>1 DEF Active, IsRunning, IsTerminating, IsDeleted
<1> QED BY <1>4, <1>5

LEMMA DeleteShrinks ==
    ASSUME TypeInv, NEW keys, DeletePodsFromNode(keys), UNCHANGED clock
    PROVE  \A n \in Nodes : ActiveOn(n)' \subseteq ActiveOn(n)
<1>1. UNCHANGED nodePods /\ nodePods \in [Nodes -> SUBSET Pods]
  BY DEF DeletePodsFromNode, TypeInv, QueueTypes, TypeOK
<1> QED BY <1>1, DeleteStartsNone DEF ActiveOn

\* Time ends the life of pods and starts none, and a pod that garbage collection
\* takes is not alive in the next tick.
LEMMA TickStartsNone ==
    ASSUME TypeInv, EndOfTick, NEW p \in Pods, Active(p, clock)'
    PROVE  Active(p, clock) /\ ~Collected(p)
<1>1. /\ clock \in Nat
      /\ boundAt[p] \in Nat /\ deletedAt[p] \in Nat /\ Duration[p] \in Nat /\ Grace[p] \in Nat
  BY PodAssumption DEF TypeInv, QueueTypes, TypeOK
<1>2. /\ UNCHANGED <<status, boundAt, deletedAt>>
      /\ clock' = clock \/ clock' = clock + Tick
  BY DEF EndOfTick, Return, Goto, NextClock
<1>3. clock' \in Nat /\ clock' >= clock
  BY <1>1, <1>2, TimeAssumption
<1>4. CASE IsRunning(p, clock)'
  <2>1. status[p] = "Ok" /\ clock' - boundAt[p] < Duration[p]
    BY <1>2, <1>4 DEF IsRunning
  <2>2. clock - boundAt[p] < Duration[p] /\ ~(clock - boundAt[p] >= Duration[p])
    BY <1>1, <1>3, <2>1
  <2> QED BY <2>1, <2>2 DEF Active, IsRunning, Collected, IsTerminated, IsDeleted
<1>5. CASE IsTerminating(p, clock)'
  <2>1. status[p] = "Deleted" /\ ~(clock' - deletedAt[p] >= Grace[p])
    BY <1>2, <1>5 DEF IsTerminating, IsDeleted
  <2>2. ~(clock - deletedAt[p] >= Grace[p])
    BY <1>1, <1>3, <2>1
  <2> QED BY <2>1, <2>2 DEF Active, IsTerminating, Collected, IsTerminated, IsDeleted
<1> QED BY <1>4, <1>5 DEF Active

LEMMA TickShrinks ==
    ASSUME TypeInv, EndOfTick
    PROVE  /\ \A n \in Nodes : ActiveOn(n)' \subseteq ActiveOn(n)
           /\ \A n \in Nodes : nodePods'[n] \subseteq nodePods[n]
           /\ UNCHANGED status
           /\ pc' \in {"loop", "returned"}
<1>1. nodePods \in [Nodes -> SUBSET Pods]
  BY DEF TypeInv, QueueTypes, TypeOK
<1>2. UNCHANGED status /\ pc' \in {"loop", "returned"}
  BY DEF EndOfTick, Return, Goto
<1>3. \A n \in Nodes : nodePods'[n] \subseteq nodePods[n]
  BY <1>1 DEF EndOfTick, gcTerminatedPodsInNodes
<1> QED BY <1>1, <1>2, <1>3, TickStartsNone DEF ActiveOn

\* A bind takes the place that the NodeInfo reserved.
LEMMA BindWithin ==
    ASSUME TypeInv, UNCHANGED clock, NEW n \in Nodes, NEW p \in Pods, BindPod(n, p),
           OnNodesBound, p \notin Bound
    PROVE  /\ \A m \in Nodes : ActiveOn(m)' \subseteq ActiveOn(m) \cup {q \in {p} : m = n}
           /\ OnNodesBound'
<1>1. /\ nodePods' = [nodePods EXCEPT ![n] = {q \in @ : KeyOf[q] # KeyOf[p]} \cup {p}]
      /\ status' = [status EXCEPT ![p] = "Ok"]
      /\ boundAt' = [boundAt EXCEPT ![p] = clock]
      /\ UNCHANGED deletedAt
  BY DEF BindPod
<1>2. /\ nodePods \in [Nodes -> SUBSET Pods] /\ status \in [Pods -> Statuses]
      /\ boundAt \in [Pods -> Nat]
  BY DEF TypeInv, QueueTypes, TypeOK
<1>3. ASSUME NEW m \in Nodes, NEW q \in nodePods'[m] PROVE q \in nodePods[m] \/ (q = p /\ m = n)
  BY <1>1, <1>2
<1>4. ASSUME NEW m \in Nodes PROVE p \notin nodePods[m]
  BY DEF OnNodesBound
<1>5. ASSUME NEW m \in Nodes, NEW q \in ActiveOn(m)', q # p PROVE q \in ActiveOn(m)
  <2>1. q \in nodePods'[m] /\ Active(q, clock)'
    BY <1>5 DEF ActiveOn
  <2>2. q \in nodePods[m] /\ q \in Pods
    BY <1>2, <1>3, <1>5, <2>1
  <2>3. status'[q] = status[q] /\ boundAt'[q] = boundAt[q] /\ deletedAt'[q] = deletedAt[q]
    BY <1>1, <1>2, <1>5, <2>2
  <2>4. Active(q, clock)
    BY <2>1, <2>3 DEF Active, IsRunning, IsTerminating, IsDeleted
  <2> QED BY <2>2, <2>4 DEF ActiveOn
<1>6. ASSUME NEW m \in Nodes, p \in ActiveOn(m)' PROVE m = n
  <2>1. p \in nodePods'[m]
    BY <1>6 DEF ActiveOn
  <2> QED BY <1>3, <1>4, <2>1
<1>7. Bound' = Bound \cup {p}
  BY <1>1, <1>2 DEF Bound
<1>8. OnNodesBound'
  BY <1>3, <1>7 DEF OnNodesBound
<1> QED BY <1>5, <1>6, <1>8

LEMMA NextRoom == TypeInv /\ Places /\ Room /\ [Next]_vars => Room'
<1> SUFFICES ASSUME TypeInv, Places, Room, [Next]_vars PROVE Room'
  OBVIOUS
<1> USE DEF loopVars, submitVars, queueVars, schedVars, podVars
<1>0. /\ TypeOK /\ OnNodesBound /\ NoOverCommit /\ (InPass => InfoCovers)
      /\ \A n \in Nodes : ActiveOn(n) \in SUBSET Pods /\ info[n] \in SUBSET Pods
      /\ info \in [Nodes -> SUBSET Pods]
  BY ActiveTypes DEF Room, TypeInv, QueueTypes, TypeOK
<1>1. ASSUME UNCHANGED <<nodePods, status, boundAt, deletedAt, clock>>
      PROVE  OnNodesBound' /\ NoOverCommit' /\ \A n \in Nodes : ActiveOn(n)' = ActiveOn(n)
  <2>1. \A n \in Nodes : ActiveOn(n)' = ActiveOn(n)
    BY <1>1 DEF ActiveOn, Active, IsRunning, IsTerminating, IsDeleted
  <2> QED BY <1>0, <1>1, <2>1 DEF OnNodesBound, Bound, NoOverCommit
<1>2. ASSUME \A n \in Nodes : ActiveOn(n)' \subseteq ActiveOn(n)
      PROVE  NoOverCommit'
  BY <1>0, <1>2, FitsFewer DEF NoOverCommit
<1>3. CASE UNCHANGED <<nodePods, status, boundAt, deletedAt, clock>> /\ ~InPass'
  BY <1>1, <1>3 DEF Room
<1>4. CASE UNCHANGED <<nodePods, status, boundAt, deletedAt, clock, info, events>> /\ InPass
  <2>1. InfoCovers'
    BY <1>0, <1>1, <1>4 DEF InfoCovers
  <2> QED BY <1>1, <1>4, <2>1 DEF Room
<1>5. ASSUME NEW k \in Keys, DeleteEvent(k) PROVE Room'
  <2>1. CASE UNCHANGED podVars
    BY <1>3, <1>5, <2>1 DEF DeleteEvent, Serving, InPass
  <2>2. CASE DeletePodsFromNode({k})
    <3>1. \A n \in Nodes : ActiveOn(n)' \subseteq ActiveOn(n)
      BY <1>5, <2>2, DeleteShrinks DEF DeleteEvent
    <3>2. OnNodesBound'
      BY <1>0, <2>2, BoundKept DEF OnNodesBound, DeletePodsFromNode
    <3>3. ~InPass'
      BY <1>5 DEF DeleteEvent, Serving, InPass
    <3> QED BY <1>2, <3>1, <3>2, <3>3 DEF Room
  <2> QED BY <1>5, <2>1, <2>2 DEF DeleteEvent
<1>6. CASE StartSchedule
  <2>1. UNCHANGED <<nodePods, status, boundAt, deletedAt, clock>>
    BY <1>6 DEF StartSchedule
  <2>2. events' = << >> /\ info' = [n \in Nodes |-> ActiveOn(n)]
    BY <1>6 DEF StartSchedule, NodeInfo
  <2>3. InfoCovers'
    BY <1>0, <1>1, <2>1, <2>2 DEF InfoCovers, NoOverCommit
  <2> QED BY <1>1, <2>1, <2>3 DEF Room
<1>7. ASSUME NEW n \in Nodes, ScheduleOne(n) PROVE Room'
  <2>1. UNCHANGED <<nodePods, status, boundAt, deletedAt, clock>> /\ InPass
    BY <1>7 DEF ScheduleOne, Trying, InPass
  <2>2. PICK p \in Pods :
              /\ Fits(n, info[n] \cup {p})
              /\ info' = [info EXCEPT ![n] = @ \cup {p}]
              /\ events' = Append(events, [kind |-> "bind", pod |-> p, node |-> n])
    BY <1>7, ScheduleOneMoves DEF ScheduleOne
  <2>3. /\ Len(events) \in Nat /\ Len(events') = Len(events) + 1
        /\ \A i \in 1..Len(events) : events'[i] = events[i]
        /\ events'[Len(events) + 1] = [kind |-> "bind", pod |-> p, node |-> n]
    BY <1>0, <2>2, AppendBind
  <2>4. ASSUME NEW m \in Nodes, NEW i \in 1..Len(events'),
               events'[i].kind = "bind", events'[i].node = m
        PROVE  events'[i].pod \in info'[m]
    <3>1. CASE i \in 1..Len(events)
      <4>1. events[i].pod \in info[m]
        BY <1>0, <2>1, <2>3, <2>4, <3>1 DEF InfoCovers
      <4> QED BY <1>0, <2>2, <2>3, <3>1, <4>1
    <3>2. CASE i \notin 1..Len(events)
      <4>1. i = Len(events) + 1
        BY <2>3, <3>2
      <4>2. events'[i].pod = p /\ m = n
        BY <2>3, <2>4, <4>1
      <4> QED BY <1>0, <2>2, <4>2
    <3> QED BY <3>1, <3>2
  <2>5. ASSUME NEW m \in Nodes PROVE ActiveOn(m)' \subseteq info'[m] /\ Fits(m, info'[m])
    BY <1>0, <1>1, <2>1, <2>2 DEF InfoCovers
  <2>6. InfoCovers'
    BY <2>4, <2>5 DEF InfoCovers
  <2> QED BY <1>1, <2>1, <2>6 DEF Room
<1>8. CASE SchedulePreempt
  <2>1. /\ UNCHANGED <<nodePods, status, boundAt, deletedAt, clock, info>> /\ InPass
        /\ \A i \in 1..Len(events') : events'[i].kind = "bind" =>
              i \in 1..Len(events) /\ events'[i] = events[i]
    BY <1>8, PreemptMoves DEF InPass
  <2>2. InfoCovers'
    BY <1>0, <1>1, <2>1 DEF InfoCovers
  <2> QED BY <1>1, <2>1, <2>2 DEF Room
<1>9. CASE ScheduleError
  <2>1. UNCHANGED <<nodePods, status, boundAt, deletedAt, clock, info>> /\ InPass /\ events' = << >>
    BY <1>9 DEF ScheduleError, Trying, InPass
  <2>2. InfoCovers'
    BY <1>0, <1>1, <2>1 DEF InfoCovers
  <2> QED BY <1>1, <2>1, <2>2 DEF Room
<1>10. CASE ApplyEvent
  <2>1. /\ Len(events) \in Nat /\ 1 \in 1..Len(events) /\ Head(events) = events[1]
        /\ Len(events') = Len(events) - 1
        /\ \A i \in 1..Len(events') : events'[i] = events[i + 1]
    BY <1>0, <1>10, TailEvents DEF ApplyEvent
  <2>2. UNCHANGED <<clock, info>> /\ InPass
    BY <1>10 DEF ApplyEvent, InPass
  <2>3. \A n \in Nodes : \A i \in 1..Len(events') :
           events'[i].kind = "bind" /\ events'[i].node = n => events'[i].pod \in info'[n]
    BY <1>0, <2>1, <2>2 DEF InfoCovers
  <2>4. ASSUME OnNodesBound', \A n \in Nodes : ActiveOn(n)' \subseteq info[n]
        PROVE  Room'
    <3>1. NoOverCommit'
      BY <1>0, <2>2, <2>4, FitsFewer DEF NoOverCommit, InfoCovers
    <3>2. InfoCovers'
      BY <1>0, <2>2, <2>3, <2>4 DEF InfoCovers
    <3> QED BY <2>4, <3>1, <3>2 DEF Room
  <2>5. CASE Head(events).kind = "bind" /\ BindPod(Head(events).node, Head(events).pod)
    <3>1. PICK n \in Nodes, p \in Pods : n = events[1].node /\ p = events[1].pod
      BY <1>0, <1>10, <2>5, HeadEvent DEF ApplyEvent
    <3>2. BindPod(n, p) /\ p \in info[n]
      BY <1>0, <2>1, <2>2, <2>5, <3>1 DEF InfoCovers
    <3>3. 1 \in BindIndices(p)
      BY <2>1, <2>5, <3>1 DEF BindIndices
    <3>4. p \notin Bound
      BY <3>3 DEF Places, PlacesApart, Apart, Deciding
    <3>5. /\ \A m \in Nodes : ActiveOn(m)' \subseteq ActiveOn(m) \cup {q \in {p} : m = n}
          /\ OnNodesBound'
      BY <1>0, <2>2, <3>2, <3>4, BindWithin
    <3>6. \A m \in Nodes : ActiveOn(m)' \subseteq info[m]
      BY <1>0, <2>2, <3>2, <3>5 DEF InfoCovers
    <3> QED BY <2>4, <3>5, <3>6
  <2>6. ASSUME DeletePodsFromNode(Head(events).keys) PROVE Room'
    <3>1. \A n \in Nodes : ActiveOn(n)' \subseteq ActiveOn(n)
      BY <2>2, <2>6, DeleteShrinks
    <3>2. OnNodesBound'
      BY <1>0, <2>6, BoundKept DEF OnNodesBound, DeletePodsFromNode
    <3> QED BY <1>0, <2>2, <2>4, <3>1, <3>2 DEF InfoCovers
  <2>7. CASE UNCHANGED podVars
    <3>1. OnNodesBound' /\ \A n \in Nodes : ActiveOn(n)' = ActiveOn(n)
      BY <1>1, <2>2, <2>7
    <3> QED BY <1>0, <2>2, <2>4, <3>1 DEF InfoCovers
  <2> QED BY <1>10, <2>5, <2>6, <2>7 DEF ApplyEvent
<1>11. CASE EndOfTick
  <2>1. OnNodesBound'
    BY <1>0, <1>11, TickShrinks DEF OnNodesBound, Bound
  <2>2. NoOverCommit'
    BY <1>2, <1>11, TickShrinks
  <2>3. ~InPass'
    BY <1>11, TickShrinks DEF InPass
  <2> QED BY <2>1, <2>2, <2>3 DEF Room
<1>12. CASE Loop
  BY <1>3, <1>12 DEF Loop, Return, Goto, InPass
<1>13. CASE \/ \E s \in Submitters : CallSubmitter(s)
            \/ \E p \in Pods : SubmitEvent(p)
            \/ \E k \in Keys, p \in Pods : UpdateEvent(k, p)
            \/ TerminateSubmitterEvent \/ EndOfEvents
  BY <1>3, <1>13 DEF CallSubmitter, SubmitEvent, UpdateEvent, TerminateSubmitterEvent,
                     EndOfEvents, Serving, Return, InPass
<1>14. CASE ScheduleLater \/ QueueExhausted \/ Resubmit
  BY <1>4, <1>14 DEF ScheduleLater, QueueExhausted, Resubmit, Trying, InPass
<1>15. CASE EventsApplied
  BY <1>3, <1>15 DEF EventsApplied, Goto, InPass
<1>16. CASE UNCHANGED vars
  BY <1>3, <1>4, <1>16 DEF vars, InPass
<1> QED BY <1>5, <1>6, <1>7, <1>8, <1>9, <1>10, <1>11, <1>12, <1>13, <1>14, <1>15, <1>16
        DEF Next

\* The pods on a node never exceed what the predicates accept, although the
\* scheduler decides on copies (kubesim.go:424) and BindPod refuses nothing
\* (node.go:102).
THEOREM KubeSimNoOverCommit == Spec => []NoOverCommit
<1>1. Init => TypeInv /\ Places /\ Room
  <2>1. Init => OnNodesBound /\ ~InPass
    BY DEF Init, OnNodesBound, InPass
  <2>2. Init => \A n \in Nodes : ActiveOn(n) = {}
    BY DEF Init, ActiveOn
  <2>3. Init => NoOverCommit
    BY <2>2, FitsAssumption DEF NoOverCommit
  <2> QED BY <2>1, <2>3, InitInv, InitPlaces DEF Room
<1>2. TypeInv /\ Places /\ Room /\ [Next]_vars => (TypeInv /\ Places /\ Room)'
  BY NextInv, NextPlaces, NextRoom
<1>3. Room => NoOverCommit
  BY DEF Room
<1> QED BY <1>1, <1>2, <1>3, PTL DEF Spec

-----------------------------------------------------------------------------
(* The life of a pod goes one way.                                         *)

LEMMA NextLife == TypeInv /\ Places /\ [Next]_vars => [\A p \in Pods : LifeGoesOn(p)]_vars
<1> SUFFICES ASSUME TypeInv, Places, Next, NEW p \in Pods PROVE LifeGoesOn(p)
  OBVIOUS
<1> USE DEF loopVars, submitVars, queueVars, schedVars, podVars
<1>1. CASE UNCHANGED <<status, boundAt, deletedAt, host>>
  BY <1>1 DEF LifeGoesOn, IsTerminated
<1>2. ASSUME NEW keys, DeletePodsFromNode(keys) PROVE LifeGoesOn(p)
  <2> DEFINE D == {q \in Targets(keys) : Deletable(q)}
  <2>1. /\ status' = [q \in Pods |-> IF q \in D THEN "Deleted" ELSE status[q]]
        /\ deletedAt' = [q \in Pods |-> IF q \in D THEN clock ELSE deletedAt[q]]
        /\ UNCHANGED <<boundAt, host>>
    BY <1>2 DEF DeletePodsFromNode
  <2>2. p \in D => status[p] = "Ok" /\ ~IsTerminated(p, clock)
    BY DEF Deletable
  <2>3. IsTerminated(p, clock) => status[p] = "Ok"
    BY DEF IsTerminated
  <2> HIDE DEF D
  <2> QED BY <2>1, <2>2, <2>3 DEF LifeGoesOn
<1>3. CASE ApplyEvent
  <2>1. CASE UNCHANGED podVars
    BY <1>1, <2>1
  <2>2. CASE DeletePodsFromNode(Head(events).keys)
    BY <1>2, <2>2
  <2>3. CASE Head(events).kind = "bind" /\ BindPod(Head(events).node, Head(events).pod)
    <3>1. TypeOK /\ events # << >> /\ events' = Tail(events)
      BY <1>3 DEF TypeInv, QueueTypes, ApplyEvent
    <3>2. PICK q \in Pods : q = Head(events).pod /\ 1 \in BindIndices(q)
      BY <2>3, <3>1, HeadEvent, TailEvents DEF BindIndices
    <3>3. status[q] = "None"
      BY <3>2 DEF Places, PlacesApart, Apart, Deciding, Bound
    <3>4. /\ status' = [status EXCEPT ![q] = "Ok"]
          /\ boundAt' = [boundAt EXCEPT ![q] = clock]
          /\ host' = [host EXCEPT ![q] = Head(events).node]
          /\ UNCHANGED deletedAt
      BY <2>3, <3>2 DEF BindPod
    <3>5. CASE p = q
      BY <3>3, <3>5 DEF LifeGoesOn, IsTerminated
    <3>6. CASE p # q
      <4>1. /\ status'[p] = status[p] /\ boundAt'[p] = boundAt[p]
            /\ host'[p] = host[p] /\ deletedAt'[p] = deletedAt[p]
        BY <3>1, <3>4, <3>6 DEF TypeOK
      <4> QED BY <4>1 DEF LifeGoesOn, IsTerminated
    <3> QED BY <3>5, <3>6
  <2> QED BY <1>3, <2>1, <2>2, <2>3 DEF ApplyEvent
<1>4. ASSUME NEW k \in Keys, DeleteEvent(k) PROVE LifeGoesOn(p)
  BY <1>1, <1>2, <1>4 DEF DeleteEvent
<1> QED BY <1>1, <1>3, <1>4
        DEF Next, Loop, CallSubmitter, SubmitEvent, UpdateEvent, TerminateSubmitterEvent,
            EndOfEvents, StartSchedule, ScheduleOne, ScheduleLater, SchedulePreempt,
            ScheduleError, QueueExhausted, Resubmit, EventsApplied, EndOfTick

\* A pod once started is never restarted or moved, and the start of its grace
\* period never moves (pod.go:348), whatever submitters and preemption ask.
THEOREM KubeSimLifeIsOneWay == Spec => LifeIsOneWay
<1>1. Init => TypeInv /\ Places
  BY InitInv, InitPlaces
<1>2. TypeInv /\ Places /\ [Next]_vars => (TypeInv /\ Places)'
  BY NextInv, NextPlaces
<1> QED BY <1>1, <1>2, NextLife, PTL DEF Spec, LifeIsOneWay

-----------------------------------------------------------------------------
(* No pod is lost.                                                         *)

Kept == KeysApart /\ Phases /\ NoPodLost

\* The first event applied, the others stay.
LEMMA DecidingTail ==
    ASSUME TypeOK, events # << >>, events' = Tail(events)
    PROVE  /\ Head(events).kind = "bind" => Deciding \subseteq Deciding' \cup {Head(events).pod}
           /\ Head(events).kind = "delete" => Deciding \subseteq Deciding'
<1>1. Len(events) \in Nat /\ Head(events) = events[1]
  BY TailEvents
<1>2. ASSUME NEW q \in Deciding, q \notin Deciding'
      PROVE  events[1].kind = "bind" /\ events[1].pod = q
  <2>1. q \in Pods /\ BindIndices(q) # {} /\ BindIndices(q)' = {}
    BY <1>2 DEF Deciding
  <2>2. PICK i : i \in BindIndices(q)
    BY <2>1
  <2>3. i \in 1..Len(events) /\ events[i].kind = "bind" /\ events[i].pod = q
    BY <2>2 DEF BindIndices
  <2>4. i # 1 => i - 1 \in Nat \ {0} /\ (i - 1) + 1 = i
    BY <1>1, <2>3
  <2>5. i = 1
    BY <2>1, <2>2, <2>4, BindsTail
  <2> QED BY <2>3, <2>5
<1> QED BY <1>1, <1>2

LEMMA NextKept ==
    ASSUME KeepScheduling \/ ~PluginError, TypeInv, Places, Kept, [Next]_vars
    PROVE  Kept'
<1> USE DEF loopVars, submitVars, queueVars, schedVars, podVars
<1>0. /\ TypeOK /\ Good(pending) /\ Good(failQueue)
      /\ KeysApart /\ Phases /\ NoPodLost
      /\ pending.pods \in [Keys -> Pods \cup {NoPod}]
      /\ failQueue.pods \in [Keys -> Pods \cup {NoPod}]
  BY DEF TypeInv, QueueTypes, TypeOK, FIFOQueues, Kept
<1>1. ASSUME pending'.pods = pending.pods, failQueue'.pods = failQueue.pods,
             UNCHANGED <<events, status, discarded, submitted>>, pc # "returned" \/ UNCHANGED pc,
             Phases'
      PROVE  Kept'
  <2>1. UNCHANGED <<Queued(pending), Queued(failQueue), Deciding, Bound>>
    BY <1>1 DEF Queued, Deciding, BindIndices, Bound
  <2> QED BY <1>0, <1>1, <2>1 DEF Kept, KeysApart, NoPodLost
<1>2. CASE Loop
  <2>1. pending'.pods = pending.pods
    BY <1>0, <1>2, GoodFront DEF Loop
  <2>2. Phases'
    BY <1>0, <1>2 DEF Loop, Phases, Return, Goto
  <2> QED BY <1>1, <1>2, <2>1, <2>2 DEF Loop
<1>3. CASE QueueExhausted
  <2>1. pending'.pods = pending.pods
    BY <1>0, <1>3, GoodFront DEF QueueExhausted
  <2>2. Phases'
    BY <1>0, <1>3 DEF QueueExhausted, Phases, Goto
  <2> QED BY <1>1, <1>3, <2>1, <2>2 DEF QueueExhausted
<1>4. CASE \/ \E s \in Submitters : CallSubmitter(s)
           \/ TerminateSubmitterEvent \/ EndOfEvents \/ EventsApplied
  <2>1. Phases'
    BY <1>0, <1>4 DEF CallSubmitter, TerminateSubmitterEvent, EndOfEvents, EventsApplied,
                      Serving, Phases, Return, Goto
  <2> QED BY <1>1, <1>4, <2>1 DEF CallSubmitter, TerminateSubmitterEvent, EndOfEvents,
                                  EventsApplied, Serving
<1>5. CASE EndOfTick
  <2>1. Phases'
    BY <1>0, <1>5 DEF EndOfTick, Phases, Return, Goto
  <2> QED BY <1>1, <1>5, <2>1 DEF EndOfTick
<1>6. CASE UNCHANGED vars
  <2>1. Phases'
    BY <1>0, <1>6 DEF vars, Phases
  <2> QED BY <1>1, <1>6, <2>1 DEF vars
\* Steps of a submitter: failQueue and events are empty.
<1>7. ASSUME Serving, UNCHANGED <<failQueue, events>>, pc' \in {pc, "returned"},
             NoPodLost'
      PROVE  Kept'
  BY <1>0, <1>7 DEF Serving, Kept, KeysApart, Phases
<1>8. ASSUME NEW p \in Pods, p \in Named,
             pending' = Push(pending, p) \/ (Has(pending, KeyOf[p]) /\ pending' = Update(pending, p)),
             submitted' = submitted \cup {p},
             discarded' = discarded \cup Replaced(p),
             UNCHANGED <<failQueue, events, status>>, Serving
      PROVE  NoPodLost'
  <2>1. Queued(pending)' = (Queued(pending) \ Replaced(p)) \cup {p}
    BY <1>8, WriteMoves
  <2>2. UNCHANGED <<Queued(failQueue), Deciding, Bound>>
    BY <1>8 DEF Queued, Deciding, BindIndices, Bound
  <2> QED BY <1>0, <1>8, <2>1, <2>2 DEF NoPodLost, Serving
<1>9. ASSUME NEW p \in Pods, SubmitEvent(p) PROVE Kept'
  <2>1. NoPodLost'
    BY <1>8, <1>9 DEF SubmitEvent, Named, NoPodLost, Return
  <2> QED BY <1>7, <1>9, <2>1 DEF SubmitEvent, Return
<1>10. ASSUME NEW k \in Keys, NEW p \in Pods, UpdateEvent(k, p) PROVE Kept'
  <2>1. CASE KeyOf[p] # k
    BY <1>7, <1>10, <2>1 DEF UpdateEvent, NoPodLost, Return
  <2>2. CASE KeyOf[p] = k /\ Has(pending, k)
    <3>1. NoPodLost'
      BY <1>8, <1>10, <2>2, NoKeyAssumption DEF UpdateEvent, Named
    <3> QED BY <1>7, <1>10, <2>2, <3>1 DEF UpdateEvent
  <2>3. CASE KeyOf[p] = k /\ ~Has(pending, k)
    <3>1. UNCHANGED <<pc, pending, failQueue, events, status, discarded, submitted>>
      BY <1>10, <2>3 DEF UpdateEvent
    <3>2. NoPodLost'
      BY <1>0, <3>1 DEF NoPodLost, Queued, Deciding, BindIndices, Bound
    <3> QED BY <1>7, <1>10, <3>1, <3>2 DEF UpdateEvent
  <2> QED BY <2>1, <2>2, <2>3
<1>11. ASSUME NEW k \in Keys, DeleteEvent(k) PROVE Kept'
  <2>1. CASE Has(pending, k)
    <3>1. /\ Queued(pending)' = Queued(pending) \ {pending.pods[k]}
          /\ discarded' = discarded \cup {pending.pods[k]}
          /\ UNCHANGED <<pc, failQueue, events, status, submitted>> /\ Serving
      BY <1>0, <1>11, <2>1, QueuedDelete DEF DeleteEvent
    <3>2. UNCHANGED <<Queued(failQueue), Deciding, Bound>>
      BY <3>1 DEF Queued, Deciding, BindIndices, Bound
    <3>3. NoPodLost'
      BY <1>0, <3>1, <3>2 DEF NoPodLost
    <3> QED BY <1>7, <3>1, <3>3
  <2>2. CASE ~Has(pending, k)
    <3>1. /\ UNCHANGED <<pc, pending, failQueue, events, discarded, submitted>> /\ Serving
          /\ Bound' = Bound
      BY <1>11, <2>2, BoundKept DEF DeleteEvent
    <3>2. NoPodLost'
      BY <1>0, <3>1 DEF NoPodLost, Queued, Deciding, BindIndices
    <3> QED BY <1>7, <3>1, <3>2
  <2> QED BY <2>1, <2>2
<1>12. CASE StartSchedule
  <2>1. /\ events = << >> /\ events' = << >>
        /\ UNCHANGED <<pending, failQueue, status, discarded, submitted>>
        /\ pc = "submit" /\ pc' = "schedule"
    BY <1>0, <1>12 DEF StartSchedule, Phases, Goto
  <2>2. Phases'
    BY <1>0, <2>1 DEF Phases
  <2> QED BY <1>1, <2>1, <2>2
<1>13. ASSUME NEW n \in Nodes, ScheduleOne(n) PROVE Kept'
  <2>1. PICK p \in Pods :
              /\ p = FrontPod(pending) /\ p \in Named
              /\ Queued(pending)' = Queued(pending) \ {p}
              /\ pending'.pods = [pending.pods EXCEPT ![KeyOf[p]] = NoPod]
              /\ events' = Append(events, [kind |-> "bind", pod |-> p, node |-> n])
              /\ UNCHANGED <<pc, failQueue, status, discarded, submitted>>
              /\ pc = "schedule"
    BY <1>13, ScheduleOneMoves DEF ScheduleOne, Trying
  <2>2. Deciding' = Deciding \cup {p} /\ UNCHANGED <<Queued(failQueue), Bound>>
    BY <1>0, <2>1, BindsAppendBind DEF Queued, Bound
  <2>3. NoPodLost'
    BY <1>0, <2>1, <2>2 DEF NoPodLost
  <2>4. KeysApart' /\ Phases'
    BY <1>0, <2>1 DEF KeysApart, Phases
  <2> QED BY <2>3, <2>4 DEF Kept
<1>14. CASE ScheduleLater
  <2>1. PICK p \in Named :
              /\ Queued(pending)' = Queued(pending) \ {p}
              /\ pending.pods[KeyOf[p]] = p
              /\ pending'.pods = [pending.pods EXCEPT ![KeyOf[p]] = NoPod]
              /\ Queued(failQueue)' = (Queued(failQueue) \ {failQueue.pods[KeyOf[p]]}) \cup {p}
              /\ failQueue'.pods = [failQueue.pods EXCEPT ![KeyOf[p]] = p]
              /\ UNCHANGED <<events, status, discarded, submitted>>
              /\ pc = "schedule" /\ pc' \in {"schedule", "resubmit"} /\ KeepScheduling
    BY <1>14, ScheduleLaterMoves
  <2>2. KeyOf[p] \in Keys /\ p # NoPod
    BY KeyOfAssumption, NoPodAssumption DEF Named
  <2>3. failQueue.pods[KeyOf[p]] = NoPod /\ NoPod \notin Queued(failQueue)
    BY <1>0, <2>1, <2>2 DEF KeysApart, Queued
  <2>4. UNCHANGED <<Deciding, Bound>>
    BY <2>1 DEF Deciding, BindIndices, Bound
  <2>5. NoPodLost'
    BY <1>0, <2>1, <2>3, <2>4 DEF NoPodLost
  <2>6. KeysApart' /\ Phases'
    BY <1>0, <2>1, <2>2 DEF KeysApart, Phases
  <2> QED BY <2>5, <2>6 DEF Kept
<1>15. CASE SchedulePreempt
  <2>1. /\ pending'.pods = pending.pods
        /\ UNCHANGED <<Queued(pending), Deciding, failQueue, status, discarded, submitted>>
        /\ pc = "schedule" /\ pc' = "apply" /\ ~KeepScheduling
    BY <1>15, PreemptMoves
  <2>2. UNCHANGED <<Queued(failQueue), Bound>>
    BY <2>1 DEF Queued, Bound
  <2>3. NoPodLost' /\ KeysApart' /\ Phases'
    BY <1>0, <2>1, <2>2 DEF NoPodLost, KeysApart, Phases
  <2> QED BY <2>3 DEF Kept
<1>16. CASE ScheduleError
  BY <1>16 DEF ScheduleError
<1>17. CASE Resubmit
  <2>1. CASE IsEmpty(failQueue)
    <3>1. /\ \A k \in Keys : failQueue.pods[k] = NoPod
          /\ failQueue'.pods = failQueue.pods
          /\ UNCHANGED <<pending, events, status, discarded, submitted>>
          /\ pc' = "apply" /\ pc = "resubmit"
      BY <1>17, <2>1, ResubmitEnds DEF Resubmit
    <3>2. Phases'
      BY <1>0, <3>1 DEF Phases
    <3> QED BY <1>1, <3>1, <3>2
  <2>2. CASE ~IsEmpty(failQueue)
    <3>1. PICK p \in Named :
                /\ Queued(failQueue)' = Queued(failQueue) \ {p}
                /\ failQueue.pods[KeyOf[p]] = p
                /\ failQueue'.pods = [failQueue.pods EXCEPT ![KeyOf[p]] = NoPod]
                /\ Queued(pending)' = (Queued(pending) \ {pending.pods[KeyOf[p]]}) \cup {p}
                /\ pending'.pods = [pending.pods EXCEPT ![KeyOf[p]] = p]
                /\ UNCHANGED <<pc, events, status, discarded, submitted>>
                /\ pc = "resubmit"
      BY <1>17, <2>2, ResubmitMoves DEF Resubmit
    <3>2. KeyOf[p] \in Keys /\ p # NoPod
      BY KeyOfAssumption, NoPodAssumption DEF Named
    <3>3. pending.pods[KeyOf[p]] = NoPod /\ NoPod \notin Queued(pending)
      BY <1>0, <3>1, <3>2 DEF KeysApart, Queued
    <3>4. UNCHANGED <<Deciding, Bound>>
      BY <3>1 DEF Deciding, BindIndices, Bound
    <3>5. NoPodLost'
      BY <1>0, <3>1, <3>3, <3>4 DEF NoPodLost
    <3>6. KeysApart' /\ Phases'
      BY <1>0, <3>1, <3>2 DEF KeysApart, Phases
    <3> QED BY <3>5, <3>6 DEF Kept
  <2> QED BY <2>1, <2>2
<1>18. CASE ApplyEvent
  <2>1. /\ events # << >> /\ events' = Tail(events) /\ pc = "apply"
        /\ UNCHANGED <<pending, failQueue, discarded, submitted>>
        /\ pc' \in {"apply", "returned"}
    BY <1>18 DEF ApplyEvent, Return
  <2>2. KeysApart' /\ Phases' /\ UNCHANGED <<Queued(pending), Queued(failQueue)>>
    BY <1>0, <2>1 DEF KeysApart, Phases, Queued
  <2>3. CASE pc' = "returned"
    BY <2>2, <2>3 DEF Kept, NoPodLost
  <2>4. CASE Head(events).kind = "bind" /\ BindPod(Head(events).node, Head(events).pod)
    <3>1. PICK p \in Pods : p = Head(events).pod
      BY <1>0, <2>1, <2>4, HeadEvent
    <3>2. status' = [status EXCEPT ![p] = "Ok"]
      BY <2>4, <3>1 DEF BindPod
    <3>3. Bound' = Bound \cup {p}
      BY <1>0, <3>2 DEF Bound, TypeOK
    <3>4. Deciding \subseteq Deciding' \cup {p}
      BY <1>0, <2>1, <2>4, <3>1, DecidingTail
    <3>5. NoPodLost'
      BY <1>0, <2>1, <2>2, <3>3, <3>4 DEF NoPodLost
    <3> QED BY <2>2, <3>5 DEF Kept
  <2>5. CASE Head(events).kind = "delete" /\ DeletePodsFromNode(Head(events).keys)
    <3>1. Bound' = Bound
      BY <2>5, BoundKept
    <3>2. Deciding \subseteq Deciding'
      BY <1>0, <2>1, <2>5, DecidingTail
    <3>3. NoPodLost'
      BY <1>0, <2>1, <2>2, <3>1, <3>2 DEF NoPodLost
    <3> QED BY <2>2, <3>3 DEF Kept
  <2> QED BY <1>18, <2>3, <2>4, <2>5 DEF ApplyEvent, Return
<1> QED BY <1>2, <1>3, <1>4, <1>5, <1>6, <1>9, <1>10, <1>11, <1>12, <1>13, <1>14, <1>15,
           <1>16, <1>17, <1>18 DEF Next

\* No pod is dropped between the queues, the events and the nodes, unless a
\* plug-in fails while KeepScheduling is off (generic_scheduler.go:148).
THEOREM KubeSimNoPodLost ==
    ASSUME KeepScheduling \/ ~PluginError
    PROVE  Spec => []NoPodLost
<1>1. Init => TypeInv /\ Places /\ Kept
  <2>1. Init => Kept
    BY DEF Init, Kept, KeysApart, Phases, NoPodLost, NewFIFOQueue
  <2> QED BY <2>1, InitInv, InitPlaces
<1>2. TypeInv /\ Places /\ Kept /\ [Next]_vars => (TypeInv /\ Places /\ Kept)'
  BY NextInv, NextPlaces, NextKept
<1>3. Kept => NoPodLost
  BY DEF Kept
<1> QED BY <1>1, <1>2, <1>3, PTL DEF Spec

-----------------------------------------------------------------------------
(* Every live pod is reachable.                                            *)

\* Without Resubmission no two pods of a name are in the simulator: an update
\* replaces the one that is pending.
OneName ==
    ~Resubmission =>
        \A p, q \in submitted \ discarded : KeyOf[p] = KeyOf[q] => p = q

\* boundPods holds the pod that was bound last under a name.
LastBound ==
    \A p \in Bound :
        /\ p \in Named /\ host[p] \in Nodes /\ boundAt[p] <= clock
        /\ LET q == boundPods[KeyOf[p]] IN
           q \in Bound /\ KeyOf[q] = KeyOf[p] /\ boundAt[q] >= boundAt[p]

\* It is on its node as long as it lives.
OnItsNode ==
    \A p \in Bound : Active(p, clock) =>
        /\ p \in nodePods[host[p]] \/ Displaced(p)
        /\ boundPods[KeyOf[p]] = p => p \in nodePods[host[p]]

Tracked == OneName /\ LastBound /\ OnItsNode

LEMMA ActiveBound ==
    ASSUME NEW p \in Pods, NEW c, Active(p, c)
    PROVE  p \in Bound
  BY DEF Active, IsRunning, IsTerminating, Bound

\* A new manifest takes the place of the pending one of its name.
LEMMA WriteOneName ==
    ASSUME TypeInv, Places, OneName, NEW p \in Named, p \notin submitted,
           Resubmission \/ (\A q \in submitted : KeyOf[q] # KeyOf[p]) \/ Has(pending, KeyOf[p]),
           submitted' = submitted \cup {p},
           discarded' = discarded \cup Replaced(p)
    PROVE  OneName'
<1> SUFFICES ASSUME ~Resubmission,
                    NEW q \in submitted \ discarded, q \notin Replaced(p), KeyOf[q] = KeyOf[p]
             PROVE  FALSE
  BY DEF OneName
<1>1. Has(pending, KeyOf[p])
  OBVIOUS
<1>2. Good(pending) /\ KeyOf[p] \in Keys
  BY KeyOfAssumption DEF TypeInv, QueueTypes, Named
<1> DEFINE r == pending.pods[KeyOf[p]]
<1>3. r \in Pods /\ KeyOf[r] = KeyOf[p] /\ r \in Replaced(p)
  BY <1>1, <1>2 DEF Has, Replaced, Good, FIFOQueues, Keyed
<1>4. r \in Queued(pending)
  BY <1>2, <1>3, QueuedIff
<1>5. r \in submitted \ discarded
  BY <1>4 DEF Places, PlacesApart, Apart
<1> QED BY <1>3, <1>5 DEF OneName

LEMMA NextOneName ==
    ASSUME TypeInv, Places, OneName, [Next]_vars
    PROVE  OneName'
<1> USE DEF loopVars, submitVars, queueVars, schedVars, podVars
<1>1. CASE UNCHANGED <<submitted, discarded>>
  BY <1>1 DEF OneName
<1>2. ASSUME NEW p \in Pods, SubmitEvent(p) PROVE OneName'
  <2>1. CASE KeyOf[p] = NoKey
    BY <1>1, <1>2, <2>1 DEF SubmitEvent
  <2>2. CASE KeyOf[p] # NoKey
    BY <1>2, <2>2, WriteOneName DEF SubmitEvent, Named
  <2> QED BY <2>1, <2>2
<1>3. ASSUME NEW k \in Keys, NEW p \in Pods, UpdateEvent(k, p) PROVE OneName'
  <2>1. CASE KeyOf[p] = k /\ Has(pending, k)
    <3>1. p \in Named
      BY <2>1, NoKeyAssumption DEF Named
    <3> QED BY <1>3, <2>1, <3>1, WriteOneName DEF UpdateEvent
  <2>2. CASE ~(KeyOf[p] = k /\ Has(pending, k))
    BY <1>1, <1>3, <2>2 DEF UpdateEvent
  <2> QED BY <2>1, <2>2
<1>4. ASSUME NEW k \in Keys, DeleteEvent(k) PROVE OneName'
  <2>1. submitted' = submitted /\ discarded \subseteq discarded'
    BY <1>4 DEF DeleteEvent
  <2> QED BY <2>1 DEF OneName
<1> QED BY <1>1, <1>2, <1>3, <1>4
        DEF Next, Loop, CallSubmitter, TerminateSubmitterEvent, EndOfEvents, StartSchedule,
            ScheduleOne, ScheduleLater, SchedulePreempt, ScheduleError, QueueExhausted,
            Resubmit, ApplyEvent, EventsApplied, EndOfTick, vars

\* Steps that bind no pod and move no pod that lives on.
LEMMA StaysTracked ==
    ASSUME TypeInv, LastBound, OnItsNode,
           UNCHANGED <<boundPods, boundAt, host>>, Bound' = Bound, clock' >= clock,
           clock' \in Nat,
           \A p \in Pods : Active(p, clock)' =>
               /\ Active(p, clock)
               /\ p \in nodePods[host[p]] /\ host[p] \in Nodes => p \in nodePods'[host[p]]
    PROVE  LastBound' /\ OnItsNode'
<1>0. boundAt \in [Pods -> Nat] /\ clock \in Nat /\ Bound \subseteq Pods
  BY DEF TypeInv, QueueTypes, TypeOK, Bound
<1>1. LastBound'
  <2>1. \A p \in Bound : boundAt[p] \in Nat /\ (boundAt[p] <= clock => boundAt[p] <= clock')
    BY <1>0
  <2> QED BY <2>1 DEF LastBound
<1>2. \A p \in Bound : Displaced(p) => Displaced(p)'
  BY DEF Displaced
<1>3. OnItsNode'
  BY <1>0, <1>2 DEF OnItsNode, LastBound
<1> QED BY <1>1, <1>3

\* A bind displaces only pods of its name.
LEMMA BindTracked ==
    ASSUME TypeInv, LastBound, OnItsNode, UNCHANGED clock,
           NEW n \in Nodes, NEW p \in Named, p \notin Bound, BindPod(n, p)
    PROVE  LastBound' /\ OnItsNode'
<1>0. /\ TypeOK /\ p \in Pods /\ KeyOf[p] \in Keys
  BY KeyOfAssumption DEF TypeInv, QueueTypes, Named
<1>1. /\ nodePods' = [nodePods EXCEPT ![n] = {q \in @ : KeyOf[q] # KeyOf[p]} \cup {p}]
      /\ boundPods' = [boundPods EXCEPT ![KeyOf[p]] = p]
      /\ status' = [status EXCEPT ![p] = "Ok"]
      /\ boundAt' = [boundAt EXCEPT ![p] = clock]
      /\ host' = [host EXCEPT ![p] = n]
      /\ UNCHANGED deletedAt
  BY DEF BindPod
<1>2. Bound' = Bound \cup {p} /\ Bound \subseteq Pods
  BY <1>0, <1>1 DEF Bound, TypeOK
<1>3. host'[p] = n /\ boundAt'[p] = clock /\ p \in nodePods'[n] /\ boundPods'[KeyOf[p]] = p
  BY <1>0, <1>1 DEF TypeOK
<1>4. clock \in Nat /\ clock <= clock /\ clock >= clock
  BY <1>0 DEF TypeOK
<1>5. ASSUME NEW q \in Bound
      PROVE  /\ q \in Pods /\ q # p
             /\ host'[q] = host[q] /\ boundAt'[q] = boundAt[q] /\ status'[q] = status[q]
             /\ boundAt[q] <= clock /\ clock >= boundAt[q] /\ host[q] \in Nodes /\ q \in Named
             /\ KeyOf[q] \in Keys
  <2>1. q \in Pods /\ q # p
    BY <1>2
  <2>2. host'[q] = host[q] /\ boundAt'[q] = boundAt[q] /\ status'[q] = status[q]
    BY <1>0, <1>1, <2>1 DEF TypeOK
  <2>3. boundAt[q] <= clock /\ boundAt[q] \in Nat /\ host[q] \in Nodes /\ q \in Named
    BY <1>0, <2>1 DEF LastBound, TypeOK
  <2>4. clock >= boundAt[q]
    BY <1>4, <2>3
  <2>5. KeyOf[q] \in Keys
    BY <2>3, KeyOfAssumption DEF Named
  <2> QED BY <2>1, <2>2, <2>3, <2>4, <2>5
<1>6. ASSUME NEW q \in Bound'
      PROVE  /\ q \in Named /\ host'[q] \in Nodes /\ boundAt'[q] <= clock'
             /\ LET r == boundPods'[KeyOf[q]] IN
                r \in Bound' /\ KeyOf[r] = KeyOf[q] /\ boundAt'[r] >= boundAt'[q]
  <2>1. CASE q = p
    BY <1>2, <1>3, <1>4, <2>1
  <2>2. CASE q # p /\ KeyOf[q] = KeyOf[p]
    <3>1. q \in Bound
      BY <1>2, <2>2
    <3> QED BY <1>2, <1>3, <1>5, <2>2, <3>1
  <2>3. CASE q # p /\ KeyOf[q] # KeyOf[p]
    <3>1. q \in Bound
      BY <1>2, <2>3
    <3>2. boundPods'[KeyOf[q]] = boundPods[KeyOf[q]]
      BY <1>0, <1>1, <1>5, <2>3, <3>1 DEF TypeOK
    <3>3. /\ boundPods[KeyOf[q]] \in Bound /\ KeyOf[boundPods[KeyOf[q]]] = KeyOf[q]
          /\ boundAt[boundPods[KeyOf[q]]] >= boundAt[q]
      BY <3>1 DEF LastBound
    <3> QED BY <1>2, <1>5, <3>1, <3>2, <3>3
  <2> QED BY <2>1, <2>2, <2>3
<1>7. LastBound'
  BY <1>6 DEF LastBound
<1>8. ASSUME NEW q \in Bound, Active(q, clock)'
      PROVE  /\ q \in nodePods'[host[q]] \/ Displaced(q)'
             /\ boundPods'[KeyOf[q]] = q => q \in nodePods'[host[q]]
  <2>1. Active(q, clock)
    BY <1>1, <1>5, <1>8 DEF Active, IsRunning, IsTerminating, IsDeleted
  <2>2. Displaced(q) => Displaced(q)'
    BY <1>2, <1>5 DEF Displaced
  <2>3. CASE KeyOf[q] # KeyOf[p]
    <3>1. q \in nodePods[host[q]] => q \in nodePods'[host[q]]
      BY <1>0, <1>1, <1>5, <2>3 DEF TypeOK
    <3>2. boundPods'[KeyOf[q]] = boundPods[KeyOf[q]]
      BY <1>0, <1>1, <1>5, <2>3 DEF TypeOK
    <3> QED BY <2>1, <2>2, <3>1, <3>2 DEF OnItsNode
  <2>4. CASE KeyOf[q] = KeyOf[p]
    <3>1. boundPods'[KeyOf[q]] # q
      BY <1>3, <1>5, <2>4
    <3>2. CASE host[q] = n
      <4>1. Displaced(q)'
        BY <1>2, <1>3, <1>5, <2>4, <3>2 DEF Displaced
      <4> QED BY <3>1, <4>1
    <3>3. CASE host[q] # n
      <4>1. nodePods'[host[q]] = nodePods[host[q]]
        BY <1>0, <1>1, <1>5, <3>3 DEF TypeOK
      <4> QED BY <2>1, <2>2, <3>1, <4>1 DEF OnItsNode
    <3> QED BY <3>2, <3>3
  <2> QED BY <2>3, <2>4
<1>9. OnItsNode'
  <2> SUFFICES ASSUME NEW q \in Bound', Active(q, clock)'
               PROVE  /\ q \in nodePods'[host'[q]] \/ Displaced(q)'
                      /\ boundPods'[KeyOf[q]] = q => q \in nodePods'[host'[q]]
    BY DEF OnItsNode
  <2>1. CASE q = p
    BY <1>3, <2>1
  <2>2. CASE q # p
    <3>1. q \in Bound
      BY <1>2, <2>2
    <3> QED BY <1>5, <1>8, <3>1
  <2> QED BY <2>1, <2>2
<1> QED BY <1>7, <1>9

LEMMA NextTracked ==
    ASSUME TypeInv, Places, Tracked, [Next]_vars
    PROVE  Tracked'
<1> USE DEF loopVars, submitVars, queueVars, schedVars, podVars
<1>0. /\ TypeOK /\ OneName' /\ LastBound /\ OnItsNode
      /\ clock \in Nat /\ clock >= clock /\ nodePods \in [Nodes -> SUBSET Pods]
  BY NextOneName DEF TypeInv, QueueTypes, TypeOK, Tracked
<1>1. CASE UNCHANGED <<clock, podVars>>
  <2>1. Bound' = Bound
    BY <1>1 DEF Bound
  <2>2. \A p \in Pods : Active(p, clock)' => Active(p, clock)
    BY <1>1 DEF Active, IsRunning, IsTerminating, IsDeleted
  <2> QED BY <1>0, <1>1, <2>1, <2>2, StaysTracked DEF Tracked
<1>2. ASSUME NEW keys, DeletePodsFromNode(keys), UNCHANGED clock PROVE Tracked'
  <2>1. UNCHANGED <<nodePods, boundPods, boundAt, host>>
    BY <1>2 DEF DeletePodsFromNode
  <2>2. Bound' = Bound /\ \A p \in Pods : Active(p, clock)' => Active(p, clock)
    BY <1>2, BoundKept, DeleteStartsNone
  <2> QED BY <1>0, <1>2, <2>1, <2>2, StaysTracked DEF Tracked
<1>3. ASSUME NEW k \in Keys, DeleteEvent(k) PROVE Tracked'
  BY <1>1, <1>2, <1>3 DEF DeleteEvent
<1>4. CASE ApplyEvent
  <2>1. CASE UNCHANGED podVars
    BY <1>1, <1>4, <2>1 DEF ApplyEvent
  <2>2. CASE DeletePodsFromNode(Head(events).keys)
    BY <1>2, <1>4, <2>2 DEF ApplyEvent
  <2>3. CASE Head(events).kind = "bind" /\ BindPod(Head(events).node, Head(events).pod)
    <3>1. events # << >> /\ events' = Tail(events) /\ UNCHANGED clock
      BY <1>4 DEF ApplyEvent
    <3>2. Head(events).pod \in Pods /\ Head(events).node \in Nodes
      BY <1>0, <2>3, <3>1, HeadEvent
    <3>3. 1 \in BindIndices(Head(events).pod) /\ Head(events).pod \in Named
      BY <1>0, <2>3, <3>1, TailEvents DEF BindIndices, TypeInv, AllNamed
    <3>4. Head(events).pod \notin Bound
      BY <3>2, <3>3 DEF Places, PlacesApart, Apart, Deciding
    <3> QED BY <1>0, <2>3, <3>1, <3>2, <3>3, <3>4, BindTracked DEF Tracked
  <2> QED BY <1>4, <2>1, <2>2, <2>3 DEF ApplyEvent
<1>5. CASE EndOfTick
  <2>1. UNCHANGED <<status, boundPods, boundAt, host>>
    BY <1>5 DEF EndOfTick
  <2>2. clock' \in Nat /\ clock' >= clock
    BY <1>0, <1>5, TimeAssumption DEF EndOfTick, NextClock
  <2>3. \A p \in Pods : Active(p, clock)' => Active(p, clock) /\ ~Collected(p)
    BY <1>5, TickStartsNone
  <2>4. ASSUME NEW p \in Pods, ~Collected(p), NEW n \in Nodes, p \in nodePods[n]
        PROVE  p \in nodePods'[n]
    BY <1>0, <1>5, <2>4 DEF EndOfTick, gcTerminatedPodsInNodes
  <2>5. Bound' = Bound
    BY <2>1 DEF Bound
  <2> QED BY <1>0, <2>1, <2>2, <2>3, <2>4, <2>5, StaysTracked DEF Tracked
<1> QED BY <1>1, <1>3, <1>4, <1>5
        DEF Next, Loop, CallSubmitter, SubmitEvent, UpdateEvent, TerminateSubmitterEvent,
            EndOfEvents, StartSchedule, ScheduleOne, ScheduleLater, SchedulePreempt,
            ScheduleError, QueueExhausted, Resubmit, EventsApplied, vars

LEMMA InitTracked == Init => Tracked
  BY DEF Init, Tracked, OneName, LastBound, OnItsNode, Bound

LEMMA TrackedReachable ==
    ASSUME TypeInv, Places, Tracked
    PROVE  LivePodsReachable
<1> SUFFICES ASSUME NEW p \in Pods, Active(p, clock)
             PROVE  \/ /\ host[p] \in Nodes
                       /\ p \in nodePods[host[p]]
                       /\ boundPods[KeyOf[p]] = p
                    \/ /\ Resubmission
                       /\ LET q == boundPods[KeyOf[p]] IN
                             q \notin {NoPod, p} /\ boundAt[q] >= boundAt[p]
                       /\ p \notin nodePods[host[p]] => Displaced(p)
  BY DEF LivePodsReachable
<1> DEFINE q == boundPods[KeyOf[p]]
<1>1. p \in Bound /\ Bound \subseteq Pods /\ Bound \subseteq submitted \ discarded
  BY ActiveBound DEF Bound, Places, PlacesApart, Apart
<1>2. host[p] \in Nodes /\ q \in Bound /\ KeyOf[q] = KeyOf[p] /\ boundAt[q] >= boundAt[p]
  BY <1>1 DEF Tracked, LastBound
<1>3. (p \in nodePods[host[p]] \/ Displaced(p)) /\ (q = p => p \in nodePods[host[p]])
  BY <1>1 DEF Tracked, OnItsNode
<1>4. q # p => Resubmission
  BY <1>1, <1>2 DEF Tracked, OneName
<1>5. q # NoPod
  BY <1>1, <1>2, NoPodAssumption
<1> QED BY <1>2, <1>3, <1>4, <1>5

\* A live pod stays on its node and in boundPods, where deletePodFromNode looks
\* for it (kubesim.go:485), until a later pod of its name takes its place.
THEOREM KubeSimLivePodsReachable == Spec => []LivePodsReachable
<1>1. Init => TypeInv /\ Places /\ Tracked
  BY InitInv, InitPlaces, InitTracked
<1>2. TypeInv /\ Places /\ Tracked /\ [Next]_vars => (TypeInv /\ Places /\ Tracked)'
  BY NextInv, NextPlaces, NextTracked
<1> QED BY <1>1, <1>2, TrackedReachable, PTL DEF Spec

-----------------------------------------------------------------------------
(* Run ends when all pods have come to their end.                          *)

\* Run has a result once it returned, and then takes no step.
Returned ==
    /\ pc # "returned" => result = "none"
    /\ AllPodsProcessed

\* The test that stops the loop, where a pod could only be pending or on a node.
LEMMA StopsAtTheEnd ==
    ASSUME ~Resubmission, TypeInv, Places, Kept, Tracked, pc = "loop", toTerminate,
           NEW p \in submitted \ discarded
    PROVE  status[p] # "None" /\ ~Active(p, clock)
<1>1. Good(pending) /\ IsEmpty(pending)
  BY DEF TypeInv, QueueTypes, toTerminate
<1>2. Queued(pending) = {}
  BY <1>1, QueuedPopEmpty
<1>3. (\A k \in Keys : failQueue.pods[k] = NoPod) /\ events = << >>
  BY DEF Kept, Phases
<1>4. Queued(failQueue) = {} /\ Deciding = {}
  BY <1>3, NoBinds DEF Queued
<1>5. p \in Bound
  BY <1>2, <1>4 DEF Kept, NoPodLost
<1>6. p \in Pods /\ status[p] # "None"
  BY <1>5 DEF Bound
<1>7. ASSUME Active(p, clock) PROVE FALSE
  <2>1. host[p] \in Nodes /\ p \in nodePods[host[p]]
    BY <1>6, <1>7, TrackedReachable DEF LivePodsReachable
  <2>2. p \in ActiveOn(host[p])
    BY <1>7, <2>1 DEF ActiveOn
  <2> QED BY <2>1, <2>2 DEF toTerminate
<1> QED BY <1>6, <1>7

LEMMA NextReturned ==
    ASSUME ~Resubmission, "submitter" \notin Faults, Broken = {},
           TypeInv, Places, Kept, Tracked, Returned, [Next]_vars
    PROVE  Returned'
<1> USE DEF loopVars, submitVars, queueVars, schedVars, podVars
<1>1. CASE UNCHANGED vars
  BY <1>1 DEF vars, Returned, AllPodsProcessed, Active, IsRunning, IsTerminating, IsDeleted
<1>2. ASSUME pc # "returned", UNCHANGED result PROVE Returned'
  BY <1>2 DEF Returned, AllPodsProcessed
<1>3. CASE Loop
  <2>1. CASE toTerminate \/ EndClock < clock
    <3>1. /\ pc = "loop" /\ pc' = "returned"
          /\ UNCHANGED <<clock, submitted, discarded, podVars>>
      BY <1>3, <2>1 DEF Loop, Return
    <3>2. ASSUME toTerminate, NEW p \in submitted \ discarded
          PROVE  status'[p] # "None" /\ ~Active(p, clock)'
      BY <3>1, <3>2, StopsAtTheEnd DEF Active, IsRunning, IsTerminating, IsDeleted
    <3>3. clock \in Nat /\ EndClock \in Nat
      BY TimeAssumption DEF TypeInv, QueueTypes, TypeOK
    <3>4. toTerminate \/ ~(clock' <= EndClock)
      BY <2>1, <3>1, <3>3
    <3> QED BY <3>1, <3>2, <3>4 DEF Returned, AllPodsProcessed
  <2>2. CASE ~(toTerminate \/ EndClock < clock)
    <3>1. pc = "loop" /\ ((result' = "ctx.Err" /\ pc' = "returned") \/ UNCHANGED result)
      BY <1>3, <2>2 DEF Loop, Return, Goto
    <3> QED BY <1>2, <3>1 DEF Returned, AllPodsProcessed
  <2> QED BY <2>1, <2>2
<1>4. CASE EndOfTick
  <2>1. pc = "metrics" /\ ((result' = "err" /\ pc' = "returned") \/ UNCHANGED result)
    BY <1>4 DEF EndOfTick, Return, Goto
  <2> QED BY <1>2, <2>1 DEF Returned, AllPodsProcessed
<1>5. ASSUME NEW s \in Submitters, CallSubmitter(s) PROVE Returned'
  BY <1>2, <1>5 DEF CallSubmitter
<1>6. ASSUME NEW p \in Pods, SubmitEvent(p) PROVE Returned'
  BY <1>2, <1>6 DEF SubmitEvent, Serving
<1>7. ASSUME NEW k \in Keys, NEW p \in Pods, UpdateEvent(k, p) PROVE Returned'
  BY <1>2, <1>7 DEF UpdateEvent, Serving
<1>8. CASE ApplyEvent
  BY <1>2, <1>8 DEF ApplyEvent
<1>9. CASE \/ \E k \in Keys : DeleteEvent(k)
           \/ TerminateSubmitterEvent \/ EndOfEvents \/ StartSchedule
           \/ \E n \in Nodes : ScheduleOne(n)
           \/ ScheduleLater \/ SchedulePreempt \/ ScheduleError \/ QueueExhausted
           \/ Resubmit \/ EventsApplied
  BY <1>2, <1>9
     DEF DeleteEvent, TerminateSubmitterEvent, EndOfEvents, StartSchedule, ScheduleOne,
         ScheduleLater, SchedulePreempt, ScheduleError, QueueExhausted, Resubmit,
         EventsApplied, Serving, Trying, Goto
<1> QED BY <1>1, <1>3, <1>4, <1>5, <1>6, <1>7, <1>8, <1>9 DEF Next

\* "This method blocks until ctx is done or this KubeSim finishes processing all
\* pods" (kubesim.go:154): where no submitter fails, every simSpec parses, no
\* plug-in can drop the events of a pass and no name is used twice, Run returns
\* nil before the end clock only when each pod has come to its end.
THEOREM KubeSimAllPodsProcessed ==
    ASSUME ~Resubmission, "submitter" \notin Faults, Broken = {},
           KeepScheduling \/ ~PluginError
    PROVE  Spec => []AllPodsProcessed
<1> DEFINE Inv == TypeInv /\ Places /\ Kept /\ Tracked /\ Returned
<1>1. Init => Inv
  <2>1. Init => Kept /\ Returned
    BY DEF Init, Kept, KeysApart, Phases, NoPodLost, NewFIFOQueue, Returned, AllPodsProcessed
  <2> QED BY <2>1, InitInv, InitPlaces, InitTracked
<1>2. Inv /\ [Next]_vars => Inv'
  BY NextInv, NextPlaces, NextKept, NextTracked, NextReturned
<1>3. Inv => AllPodsProcessed
  BY DEF Returned
<1> QED BY <1>1, <1>2, <1>3, PTL DEF Spec

-----------------------------------------------------------------------------
(* Without KeepScheduling pods are started in the order of submission.     *)

Arrived(k) == \E i \in 1..Len(arrived) : arrived[i] = k

\* Every name that is in the slice, or of a pod in the queue or started, arrived.
AllArrived ==
    \A k \in Keys : Listed(pending, k) \/ Has(pending, k) \/ Started(k) => Arrived(k)

\* While a pod waits, the slice has it before those that arrived after it, and
\* none of these is started.
Ahead(j, k) == Has(pending, j) => Precedes(pending, j, k) /\ ~Started(k)

InTurn ==
    \A i, j \in 1..Len(arrived) :
        i < j /\ Once(i) /\ Once(j) => Ahead(arrived[i], arrived[j])

Ordered == arrived \in Seq(Keys) /\ AllArrived /\ InTurn

\* What every step but Push and Pop of the pending pods does to them.
Quiet ==
    /\ \A k \in Keys : /\ Has(pending', k) => Has(pending, k)
                       /\ Listed(pending', k) => Listed(pending, k)
                       /\ Started(k)' => Started(k)
    /\ \A j, k \in Keys : Has(pending', j) /\ Precedes(pending, j, k) => Precedes(pending', j, k)

LEMMA QuietOrdered ==
    ASSUME Ordered, Quiet, UNCHANGED arrived
    PROVE  Ordered'
<1>1. arrived' \in Seq(Keys)
  BY DEF Ordered
<1>2. AllArrived'
  <2>1. \A k \in Keys : Arrived(k)' <=> Arrived(k)
    BY DEF Arrived
  <2> QED BY <2>1 DEF Ordered, AllArrived, Quiet
<1>3. InTurn'
  <2> SUFFICES ASSUME NEW i \in 1..Len(arrived), NEW j \in 1..Len(arrived),
                      i < j, Once(i)', Once(j)', Has(pending', arrived[i])
               PROVE  Precedes(pending', arrived[i], arrived[j]) /\ ~Started(arrived[j])'
    BY DEF InTurn, Ahead
  <2>1. Once(i) /\ Once(j) /\ arrived[i] \in Keys /\ arrived[j] \in Keys
    BY DEF Once, Ordered
  <2>2. Has(pending, arrived[i])
    BY <2>1 DEF Quiet
  <2>3. Precedes(pending, arrived[i], arrived[j]) /\ ~Started(arrived[j])
    BY <2>1, <2>2 DEF Ordered, InTurn, Ahead
  <2> QED BY <2>1, <2>3 DEF Quiet
<1> QED BY <1>1, <1>2, <1>3 DEF Ordered

LEMMA StartedFewer ==
    ASSUME Deciding' \subseteq Deciding \cup Bound, Bound' \subseteq Deciding \cup Bound
    PROVE  \A k \in Keys : Started(k)' => Started(k)
  BY DEF Started

\* The first event applied starts no other pod.
LEMMA ApplyStarts ==
    ASSUME TypeInv, ApplyEvent
    PROVE  Deciding' \subseteq Deciding /\ Bound' \subseteq Deciding \cup Bound
<1> DEFINE e == Head(events)
<1>1. TypeOK /\ events # << >> /\ events' = Tail(events)
  BY DEF TypeInv, QueueTypes, ApplyEvent
<1>2. Deciding' \subseteq Deciding
  BY <1>1, BindsTail DEF Deciding
<1>3. CASE e.kind = "bind" /\ BindPod(e.node, e.pod)
  <2>1. PICK p \in Pods : p = e.pod /\ 1 \in BindIndices(p)
    BY <1>1, <1>3, HeadEvent, TailEvents DEF BindIndices
  <2>2. p \in Deciding
    BY <2>1 DEF Deciding
  <2>3. status' = [status EXCEPT ![p] = "Ok"]
    BY <1>3, <2>1 DEF BindPod
  <2>4. Bound' \subseteq Bound \cup {p}
    BY <1>1, <2>3 DEF Bound, TypeOK
  <2> QED BY <1>2, <2>2, <2>4
<1>4. CASE DeletePodsFromNode(e.keys)
  BY <1>2, <1>4, BoundKept
<1>5. CASE UNCHANGED podVars
  BY <1>2, <1>5 DEF Bound, podVars
<1> QED BY <1>3, <1>4, <1>5 DEF ApplyEvent

\* What leaves the queue as it is, or only drops stale keys, is quiet.
LEMMA QuietQueue ==
    ASSUME TypeInv, pending' = pending \/ pending' = Front(pending),
           \A k \in Keys : Started(k)' => Started(k)
    PROVE  Quiet
<1>1. pending \in FIFOQueues
  BY DEF TypeInv, QueueTypes, TypeOK
<1>2. CASE pending' = pending
  BY <1>2 DEF Quiet, Has, Listed, Precedes
<1>3. CASE pending' = Front(pending)
  <2>1. \A k \in Keys : Has(pending', k) <=> Has(pending, k)
    BY <1>1, <1>3, FrontOK DEF Has
  <2>2. \A k \in Keys : Listed(pending', k) => Listed(pending, k)
    BY <1>1, <1>3, DropListed
  <2>3. \A j, k \in Keys : Has(pending', j) /\ Precedes(pending, j, k) => Precedes(pending', j, k)
    BY <1>1, <1>3, <2>1, FrontPrecedes
  <2> QED BY <2>1, <2>2, <2>3 DEF Quiet
<1> QED BY <1>2, <1>3

LEMMA QuietWrite ==
    ASSUME TypeInv, NEW k \in Keys, Has(pending, k),
           pending'.queue = pending.queue,
           \A l \in Keys \ {k} : pending'.pods[l] = pending.pods[l],
           \A l \in Keys : Started(l)' => Started(l)
    PROVE  Quiet
  BY DEF Quiet, Has, Listed, Precedes

LEMMA QuietSteps ==
    ASSUME TypeInv, ~KeepScheduling, pc # "resubmit", [Next]_vars,
           ~ \E p \in Pods : SubmitEvent(p) /\ KeyOf[p] # NoKey,
           ~ \E n \in Nodes : ScheduleOne(n)
    PROVE  Quiet /\ pc' # "resubmit"
<1> USE DEF loopVars, submitVars, queueVars, schedVars, podVars
<1>0. TypeOK /\ pending \in FIFOQueues
  BY DEF TypeInv, QueueTypes, TypeOK
<1>1. ASSUME UNCHANGED <<events, status>> PROVE \A k \in Keys : Started(k)' => Started(k)
  BY <1>1 DEF Started, Deciding, BindIndices, Bound
<1>2. ASSUME UNCHANGED status, events' = << >> PROVE \A k \in Keys : Started(k)' => Started(k)
  BY <1>2 DEF Started, Deciding, BindIndices, Bound
<1>3. ASSUME UNCHANGED events, Bound' = Bound PROVE \A k \in Keys : Started(k)' => Started(k)
  BY <1>3 DEF Started, Deciding, BindIndices
<1>4. CASE Loop \/ QueueExhausted
  BY <1>1, <1>4, QuietQueue DEF Loop, QueueExhausted, Return, Goto
<1>5. CASE \/ \E s \in Submitters : CallSubmitter(s)
           \/ TerminateSubmitterEvent \/ EndOfEvents \/ EventsApplied \/ EndOfTick
           \/ UNCHANGED vars
  <2>1. UNCHANGED <<pending, events, status>>
    BY <1>5 DEF CallSubmitter, TerminateSubmitterEvent, EndOfEvents, EventsApplied, EndOfTick, vars
  <2>2. pc' # "resubmit"
    BY <1>5 DEF CallSubmitter, TerminateSubmitterEvent, EndOfEvents, EventsApplied, EndOfTick, vars,
                Return, Goto
  <2> QED BY <1>1, <2>1, <2>2, QuietQueue
<1>6. CASE \E p \in Pods : SubmitEvent(p)
  <2>1. UNCHANGED <<pending, events, status>> /\ pc' # "resubmit"
    BY <1>6 DEF SubmitEvent, Return
  <2> QED BY <1>1, <2>1, QuietQueue
<1>7. ASSUME NEW k \in Keys, DeleteEvent(k) PROVE Quiet /\ pc' # "resubmit"
  <2>1. CASE Has(pending, k)
    <3>1. pending' = Delete(pending, k) /\ UNCHANGED <<pc, events, status>>
      BY <1>7, <2>1 DEF DeleteEvent
    <3>2. /\ pending'.queue = pending.queue
          /\ \A l \in Keys \ {k} : pending'.pods[l] = pending.pods[l]
      <4>1. /\ pending'.queue = pending.queue
            /\ pending'.pods = [pending.pods EXCEPT ![k] = NoPod]
        BY <1>0, <3>1, DeleteOK
      <4> QED BY <1>0, <4>1 DEF FIFOQueues
    <3>3. \A l \in Keys : Started(l)' => Started(l)
      BY <1>1, <3>1
    <3> QED BY <2>1, <3>1, <3>2, <3>3, QuietWrite
  <2>2. CASE ~Has(pending, k)
    <3>1. UNCHANGED <<pc, pending, events>> /\ Bound' = Bound
      BY <1>7, <2>2, BoundKept DEF DeleteEvent
    <3> QED BY <1>3, <3>1, QuietQueue
  <2> QED BY <2>1, <2>2
<1>8. ASSUME NEW k \in Keys, NEW p \in Pods, UpdateEvent(k, p) PROVE Quiet /\ pc' # "resubmit"
  <2>1. UNCHANGED <<events, status>> /\ pc' # "resubmit"
    BY <1>8 DEF UpdateEvent, Return, Serving
  <2>2. CASE KeyOf[p] = k /\ Has(pending, k) /\ pending' = Update(pending, p)
    <3>1. p \in Named
      BY <2>2, NoKeyAssumption DEF Named
    <3>2. /\ pending'.queue = pending.queue
          /\ \A l \in Keys \ {k} : pending'.pods[l] = pending.pods[l]
      <4>1. /\ pending'.queue = pending.queue
            /\ pending'.pods = [pending.pods EXCEPT ![k] = p]
        BY <1>0, <2>2, <3>1, UpdateOK
      <4> QED BY <1>0, <4>1 DEF FIFOQueues
    <3>3. \A l \in Keys : Started(l)' => Started(l)
      BY <1>1, <2>1
    <3> QED BY <2>1, <2>2, <3>2, <3>3, QuietWrite
  <2>3. CASE UNCHANGED pending
    BY <1>1, <2>1, <2>3, QuietQueue
  <2> QED BY <1>8, <2>2, <2>3 DEF UpdateEvent
<1>9. CASE StartSchedule \/ ScheduleError
  BY <1>2, <1>9, QuietQueue DEF StartSchedule, ScheduleError, Goto
<1>10. CASE SchedulePreempt
  <2>1. Deciding' = Deciding /\ UNCHANGED status /\ pending' = Front(pending) /\ pc' # "resubmit"
    BY <1>10, PreemptMoves DEF SchedulePreempt
  <2>2. \A k \in Keys : Started(k)' => Started(k)
    BY <2>1 DEF Started, Bound
  <2> QED BY <2>1, <2>2, QuietQueue
<1>11. CASE ApplyEvent
  <2>1. UNCHANGED pending /\ pc' # "resubmit"
    BY <1>11 DEF ApplyEvent, Return
  <2> QED BY <1>11, <2>1, ApplyStarts, StartedFewer, QuietQueue
<1> QED BY <1>4, <1>5, <1>6, <1>7, <1>8, <1>9, <1>10, <1>11 DEF Next, ScheduleLater, Resubmit

\* A Push of the key k: it arrives, or it is in the queue already.
LEMMA PushOrdered ==
    ASSUME TypeInv, Ordered, NEW p \in Named, pending' = Push(pending, p),
           UNCHANGED <<events, status>>,
           arrived' = IF Has(pending, KeyOf[p]) THEN arrived ELSE Append(arrived, KeyOf[p])
    PROVE  Ordered'
<1> DEFINE k == KeyOf[p]
           L == Len(arrived)
<1>1. /\ k \in Keys /\ pending \in FIFOQueues /\ Reachable(pending)
      /\ pending.pods \in [Keys -> Pods \cup {NoPod}] /\ pending.queue \in Seq(Keys)
      /\ arrived \in Seq(Keys) /\ L \in Nat /\ AllArrived /\ InTurn /\ p \in Pods
  BY KeyOfAssumption DEF TypeInv, QueueTypes, TypeOK, Good, Named, FIFOQueues, Ordered
<1>2. /\ pending'.pods = [pending.pods EXCEPT ![k] = p]
      /\ pending'.queue = Append(pending.queue, k)
  BY <1>1, PushOK
<1> HIDE DEF k, L
<1>3. /\ Has(pending', k)
      /\ \A l \in Keys \ {k} : Has(pending', l) <=> Has(pending, l)
  BY <1>1, <1>2, NoPodAssumption DEF Has
<1>4. \A l \in Keys \ {k} : Listed(pending', l) => Listed(pending, l)
  <2> SUFFICES ASSUME NEW l \in Keys \ {k}, NEW i \in 1..Len(pending'.queue), pending'.queue[i] = l
               PROVE  Listed(pending, l)
    BY DEF Listed
  <2> DEFINE q == pending.queue
  <2>1. q \in Seq(Keys) /\ pending'.queue = Append(q, k) /\ Len(q) \in Nat
    BY <1>1, <1>2
  <2>2. i \in 1..Len(q) /\ q[i] = l
    <3> HIDE DEF q
    <3> QED BY <1>1, <2>1
  <2> QED BY <2>2 DEF Listed
<1>5. \A l \in Keys : Started(l)' <=> Started(l)
  BY DEF Started, Deciding, BindIndices, Bound
<1>6. \A l \in Keys : Has(pending, l) => Listed(pending, l)
  BY <1>1 DEF Reachable, Listed
<1>7. \A j, l \in Keys : Has(pending, j) /\ Precedes(pending, j, l) => Precedes(pending', j, l)
  BY <1>1, <1>6, PushPrecedes
<1>8. CASE Has(pending, k)
  <2>1. arrived' = arrived
    BY <1>8 DEF k
  <2>2. AllArrived'
    <3>1. \A l \in Keys : Arrived(l)' <=> Arrived(l)
      BY <2>1 DEF Arrived
    <3> QED BY <1>1, <1>3, <1>4, <1>5, <1>8, <3>1 DEF AllArrived
  <2>3. InTurn'
    <3> SUFFICES ASSUME NEW i \in 1..L, NEW j \in 1..L, i < j, Once(i)', Once(j)',
                        Has(pending', arrived[i])
                 PROVE  Precedes(pending', arrived[i], arrived[j]) /\ ~Started(arrived[j])'
      BY <2>1 DEF InTurn, Ahead, L
    <3>1. Once(i) /\ Once(j) /\ arrived[i] \in Keys /\ arrived[j] \in Keys
      BY <1>1, <2>1 DEF Once, L
    <3>2. Has(pending, arrived[i])
      BY <1>3, <1>8, <3>1
    <3>3. Precedes(pending, arrived[i], arrived[j]) /\ ~Started(arrived[j])
      BY <1>1, <3>1, <3>2 DEF InTurn, Ahead, L
    <3>4. Precedes(pending', arrived[i], arrived[j])
      BY <1>7, <3>1, <3>2, <3>3
    <3>5. ~Started(arrived[j])'
      BY <1>5, <2>1, <3>1, <3>3
    <3> QED BY <3>4, <3>5
  <2> QED BY <1>1, <2>1, <2>2, <2>3 DEF Ordered
<1>9. CASE ~Has(pending, k)
  <2>1. arrived' = Append(arrived, k)
    BY <1>9 DEF k
  <2>2. /\ arrived' \in Seq(Keys) /\ Len(arrived') = L + 1
        /\ \A i \in 1..L : arrived'[i] = arrived[i]
        /\ arrived'[L + 1] = k
    BY <1>1, <2>1 DEF L
  <2>3. AllArrived'
    <3>1. \A l \in Keys : Arrived(l) => Arrived(l)'
      BY <1>1, <2>2 DEF Arrived, L
    <3>2. Arrived(k)'
      BY <1>1, <2>2 DEF Arrived
    <3> QED BY <1>1, <1>3, <1>4, <1>5, <3>1, <3>2 DEF AllArrived
  <2>4. InTurn'
    <3> SUFFICES ASSUME NEW i \in 1..Len(arrived'), NEW j \in 1..Len(arrived'), i < j,
                        Once(i)', Once(j)', Has(pending', arrived'[i])
                 PROVE  Precedes(pending', arrived'[i], arrived'[j]) /\ ~Started(arrived[j])'
      BY DEF InTurn, Ahead
    <3>1. i \in 1..L /\ arrived'[i] = arrived[i] /\ arrived[i] \in Keys
      BY <1>1, <2>2 DEF L
    <3>2. arrived'[i] # arrived'[j] /\ arrived'[j] \in Keys
      BY <2>2 DEF Once
    <3>3. CASE j = L + 1
      <4>1. arrived'[j] = k /\ arrived[i] # k
        BY <2>2, <3>1, <3>2, <3>3
      <4>2. ~Arrived(k)
        <5> SUFFICES ASSUME NEW m \in 1..L, arrived[m] = k PROVE FALSE
          BY DEF Arrived, L
        <5>1. m \in 1..Len(arrived') /\ arrived'[m] = arrived'[j] /\ m # j
          BY <1>1, <2>2, <3>3
        <5> QED BY <5>1 DEF Once
      <4>3. ~Listed(pending, k) /\ ~Started(k)
        BY <1>1, <4>2 DEF AllArrived
      <4>4. Has(pending, arrived[i])
        BY <1>3, <3>1, <4>1
      <4>5. Precedes(pending, arrived[i], k)
        BY <4>3 DEF Precedes, Listed
      <4>6. Precedes(pending', arrived'[i], arrived'[j])
        BY <1>1, <1>7, <3>1, <4>1, <4>4, <4>5
      <4>7. ~Started(arrived[j])'
        BY <1>1, <1>5, <4>1, <4>3
      <4> QED BY <4>6, <4>7
    <3>4. CASE j # L + 1
      <4>1. j \in 1..L /\ arrived'[j] = arrived[j]
        BY <1>1, <2>2, <3>4
      <4>2. Once(i) /\ Once(j)
        <5>1. \A m \in 1..L : m \in 1..Len(arrived') /\ arrived'[m] = arrived[m]
          BY <1>1, <2>2
        <5> QED BY <3>1, <4>1, <5>1 DEF Once, L
      <4>3. arrived[i] # k
        <5>1. L + 1 \in 1..Len(arrived') /\ arrived'[L + 1] = k /\ i # L + 1
          BY <1>1, <2>2, <3>1
        <5> QED BY <3>1, <5>1 DEF Once
      <4>4. Has(pending, arrived[i])
        BY <1>3, <3>1, <4>3
      <4>5. Precedes(pending, arrived[i], arrived[j]) /\ ~Started(arrived[j])
        BY <1>1, <3>1, <4>1, <4>2, <4>4 DEF InTurn, Ahead, L
      <4>6. Precedes(pending', arrived'[i], arrived'[j])
        BY <1>7, <3>1, <3>2, <4>1, <4>4, <4>5
      <4>7. ~Started(arrived[j])'
        BY <1>5, <3>2, <4>1, <4>5
      <4> QED BY <4>6, <4>7
    <3> QED BY <3>3, <3>4
  <2> QED BY <2>2, <2>3, <2>4 DEF Ordered
<1> QED BY <1>8, <1>9

\* The pod at the front is started: nothing that waits arrived before it.
LEMMA ScheduleOneOrdered ==
    ASSUME TypeInv, Ordered, NEW n \in Nodes, ScheduleOne(n), UNCHANGED arrived
    PROVE  Ordered' /\ pc' = "schedule"
<1> DEFINE x == FrontPod(pending)
           k == FrontKey(pending)
<1>1. /\ TypeOK /\ Good(pending) /\ pending \in FIFOQueues /\ ~IsEmpty(pending)
      /\ pending.pods \in [Keys -> Pods \cup {NoPod}] /\ pending' = Pop(pending)
      /\ arrived \in Seq(Keys) /\ AllArrived /\ InTurn /\ pc' = "schedule"
  BY DEF TypeInv, QueueTypes, TypeOK, Good, FIFOQueues, Ordered, ScheduleOne, Trying
<1>2. k \in Keys /\ x \in Pods /\ x # NoPod /\ KeyOf[x] = k /\ Has(pending, k)
  BY <1>1, FrontIndexLeast, FrontNamed DEF Good, Has, FrontPod
<1>3. pending'.pods = [pending.pods EXCEPT ![k] = NoPod]
  BY <1>1, PopOK
<1>4. Deciding' = Deciding \cup {x} /\ Bound' = Bound
  <2>1. UNCHANGED status /\ events' = Append(events, [kind |-> "bind", pod |-> x, node |-> n])
    BY DEF ScheduleOne, podVars
  <2> QED BY <1>1, <1>2, <2>1, BindsAppendBind DEF Bound
<1> HIDE DEF x, k
<1>5. \A l \in Keys : Started(l)' => Started(l) \/ l = k
  BY <1>2, <1>4 DEF Started
<1>6. \A l \in Keys : Has(pending', l) => Has(pending, l)
  BY <1>1, <1>2, <1>3 DEF Has
<1>7. \A l \in Keys : Listed(pending', l) => Listed(pending, l)
  BY <1>1, DropListed
<1>8. AllArrived'
  <2>1. \A l \in Keys : Arrived(l)' <=> Arrived(l)
    BY DEF Arrived
  <2> QED BY <1>1, <1>2, <1>5, <1>6, <1>7, <2>1 DEF AllArrived
<1>9. InTurn'
  <2> SUFFICES ASSUME NEW i \in 1..Len(arrived), NEW j \in 1..Len(arrived), i < j,
                      Once(i)', Once(j)', Has(pending', arrived[i])
               PROVE  Precedes(pending', arrived[i], arrived[j]) /\ ~Started(arrived[j])'
    BY DEF InTurn, Ahead
  <2>1. Once(i) /\ Once(j) /\ arrived[i] \in Keys /\ arrived[j] \in Keys
    BY <1>1 DEF Once
  <2>2. Has(pending, arrived[i])
    BY <1>6, <2>1
  <2>3. Precedes(pending, arrived[i], arrived[j]) /\ ~Started(arrived[j])
    BY <1>1, <2>1, <2>2 DEF InTurn, Ahead
  <2>4. Precedes(pending', arrived[i], arrived[j])
    BY <1>1, <2>1, <2>3, PopPrecedes
  <2>5. arrived[j] # k
    BY <1>1, <2>2, <2>3, FrontFirst DEF k
  <2> QED BY <1>5, <2>1, <2>3, <2>4, <2>5
<1> QED BY <1>1, <1>8, <1>9 DEF Ordered

LEMMA NextOrdered ==
    ASSUME ~KeepScheduling, TypeInv, Ordered, pc # "resubmit", [ONext]_OVars
    PROVE  Ordered' /\ pc' # "resubmit"
<1>1. [Next]_vars
  BY DEF ONext, OVars
<1>2. CASE \E p \in Pods : SubmitEvent(p) /\ KeyOf[p] # NoKey /\ ONext
  <2>1. PICK p \in Pods : SubmitEvent(p) /\ KeyOf[p] # NoKey
    BY <1>2
  <2>2. /\ p \in Named /\ pending' = Push(pending, p) /\ pc = "submit" /\ UNCHANGED <<pc, events, status>>
    BY <2>1 DEF SubmitEvent, Serving, Named, schedVars, podVars
  <2>3. /\ KeyOf[p] \in Keys /\ pending \in FIFOQueues /\ pending.pods \in [Keys -> Pods \cup {NoPod}]
        /\ pending'.pods = [pending.pods EXCEPT ![KeyOf[p]] = p] /\ p # NoPod
    BY <2>2, KeyOfAssumption, NoPodAssumption, PushOK DEF TypeInv, QueueTypes, TypeOK, FIFOQueues, Named
  <2>4. Entering = IF Has(pending, KeyOf[p]) THEN {} ELSE {KeyOf[p]}
    BY <2>2, <2>3 DEF Entering, Has
  <2>5. arrived' = IF Has(pending, KeyOf[p]) THEN arrived ELSE Append(arrived, KeyOf[p])
    BY <1>2, <2>4 DEF ONext
  <2> QED BY <2>2, <2>5, PushOrdered
<1>3. CASE \E n \in Nodes : ScheduleOne(n)
  <2>1. pc = "schedule"
    BY <1>3 DEF ScheduleOne, Trying
  <2>2. UNCHANGED arrived
    BY <2>1 DEF ONext, Entering, OVars
  <2> QED BY <1>3, <2>2, ScheduleOneOrdered
<1>4. CASE /\ ~ \E p \in Pods : SubmitEvent(p) /\ KeyOf[p] # NoKey
           /\ ~ \E n \in Nodes : ScheduleOne(n)
  <2>1. Quiet /\ pc' # "resubmit"
    BY <1>1, <1>4, QuietSteps
  <2>2. UNCHANGED arrived
    <3>1. Entering = {}
      BY <2>1 DEF Entering, Quiet, Has
    <3> QED BY <3>1 DEF ONext, OVars
  <2> QED BY <2>1, <2>2, QuietOrdered
<1>5. CASE UNCHANGED OVars
  <2>1. UNCHANGED <<pc, pending, events, status, arrived>>
    BY <1>5 DEF OVars, vars, queueVars, schedVars, podVars
  <2>2. Quiet
    BY <2>1 DEF Quiet, Has, Listed, Precedes, Started, Deciding, BindIndices, Bound
  <2> QED BY <2>1, <2>2, QuietOrdered
<1> QED BY <1>2, <1>3, <1>4, <1>5

LEMMA InitOrdered == OInit => Ordered /\ pc # "resubmit"
<1> SUFFICES ASSUME OInit PROVE Ordered /\ pc # "resubmit"
  OBVIOUS
<1>1. arrived = << >> /\ pending = NewFIFOQueue /\ events = << >> /\ status = [p \in Pods |-> "None"]
      /\ pc = "loop"
  BY DEF OInit, Init
<1>2. Len(arrived) = 0 /\ Len(events) = 0 /\ arrived \in Seq(Keys) /\ Len(pending.queue) = 0
  BY <1>1 DEF NewFIFOQueue
<1>3. \A k \in Keys : ~Listed(pending, k) /\ ~Has(pending, k) /\ ~Started(k)
  <2>1. Deciding = {} /\ Bound = {}
    BY <1>1, <1>2 DEF Deciding, BindIndices, Bound
  <2>2. \A k \in Keys : pending.pods[k] = NoPod
    BY <1>1 DEF NewFIFOQueue
  <2>3. \A k \in Keys : ~Listed(pending, k)
    BY <1>2 DEF Listed
  <2>4. \A k \in Keys : ~Started(k)
    BY <2>1 DEF Started
  <2> QED BY <2>2, <2>3, <2>4 DEF Has
<1> QED BY <1>1, <1>2, <1>3 DEF Ordered, AllArrived, InTurn

\* Without KeepScheduling (generic_scheduler.go:144) pods are started in the order of
\* their submission, for any number of pods, nodes and ticks.
THEOREM KubeSimStartedInOrder == ASSUME ~KeepScheduling PROVE OSpec => []StartedInOrder
<1>1. OInit => TypeInv /\ Ordered /\ pc # "resubmit"
  BY InitOrdered, InitInv DEF OInit
<1>2. TypeInv /\ Ordered /\ pc # "resubmit" /\ [ONext]_OVars => (TypeInv /\ Ordered /\ pc # "resubmit")'
  <2>1. [ONext]_OVars => [Next]_vars
    BY DEF ONext, OVars
  <2> QED BY <2>1, NextInv, NextOrdered
<1>3. Ordered => StartedInOrder
  BY DEF Ordered, InTurn, Ahead, StartedInOrder
<1> QED BY <1>1, <1>2, <1>3, PTL DEF OSpec

-----------------------------------------------------------------------------
(* No pod starves.                                                         *)

LEMMA BeforeFewer ==
    ASSUME IsFiniteSet(Keys), NEW f, NEW j \in Keys
    PROVE  /\ IsFiniteSet(Before(f, j)) /\ Cardinality(Before(f, j)) \in Nat
           /\ Cardinality(Before(f, j)) <= Cardinality(Keys) - 1
           /\ Cardinality(Keys) \in Nat
<1>1. Before(f, j) \in SUBSET (Keys \ {j})
  BY DEF Before
<1>2. IsFiniteSet(Keys \ {j}) /\ Cardinality(Keys \ {j}) = Cardinality(Keys) - 1
  BY FS_RemoveElement
<1> QED BY <1>1, <1>2, FS_Subset, FS_CardinalityType

TriedKeys == {KeyOf[q] : q \in tried}

WaitTypes ==
    /\ tried \subseteq Named
    /\ skipped \in [Pods -> Nat]
    /\ \A p \in tried : skipped[p] = 0
    /\ \A p \in Pods : p \notin Queued(pending) \cup Queued(failQueue) => skipped[p] = 0

\* Unless names are used again, a key has one place in the slices.
Slots ==
    /\ OneSlot(pending)
    /\ \A k \in Keys : Listed(pending, k) =>
           (\E q \in submitted : KeyOf[q] = k) /\ ~Has(failQueue, k)

\* The pods tried in a pass are out of the queue until it is over, then behind those
\* left untried; there are enough of them to fill the pass if any is left.
PassState ==
    /\ ~InLoops => failQueue.queue = << >>
    /\ InLoops => Queued(failQueue) \subseteq tried
    /\ pc = "schedule" => /\ \A k \in TriedKeys : ~Has(pending, k)
                          /\ QLen(failQueue) <= Cardinality(TriedKeys)
    /\ pc = "resubmit" =>
          /\ \A p \in Queued(pending) \ tried : \A k \in TriedKeys :
                Has(pending, k) => Precedes(pending, KeyOf[p], k)
          /\ Queued(pending) \subseteq tried \/ Cardinality(TriedKeys) > KeepSchedulingTimeout

\* The keys that come, or came in this pass, before the pod.
Load(p) == IF InLoops THEN Before(pending, KeyOf[p]) \cup TriedKeys
                      ELSE Before(pending, KeyOf[p])

\* Every pass that skipped a pod has put KeepSchedulingTimeout + 1 others behind it.
LoadBound(p) ==
    Cardinality(Load(p)) + skipped[p] * (KeepSchedulingTimeout + 1) <= Cardinality(Keys) - 1
LoadBounded == \A p \in Queued(pending) \ tried : LoadBound(p)

LEMMA WNextNext == [WNext]_WVars => [Next]_vars
BY DEF WNext, WVars

LEMMA NextWaitTypes ==
    ASSUME TypeInv, WaitTypes, [WNext]_WVars
    PROVE  WaitTypes'
<1>1. CASE UNCHANGED WVars
  <2>1. UNCHANGED <<tried, skipped, pending, failQueue>>
    BY <1>1 DEF WVars, vars, queueVars, schedVars
  <2> QED BY <2>1 DEF WaitTypes, Queued
<1>2. CASE WNext
  <2>1. tried' \subseteq Named
    BY <1>2, FrontNamed DEF WNext, WaitTypes, Trying, TypeInv, QueueTypes, Good
  <2>2. \A p \in Pods : skipped'[p] = IF p \in tried' \/ p \notin Queued(pending') \cup Queued(failQueue')
                                    THEN 0
                                    ELSE IF PassEnds THEN skipped[p] + 1 ELSE skipped[p]
    BY <1>2 DEF WNext
  <2>3. skipped' \in [Pods -> Nat]
    <3>1. \A p \in Pods : skipped[p] \in Nat
      BY DEF WaitTypes
    <3>2. skipped' = [p \in Pods |-> skipped'[p]]
      BY <1>2 DEF WNext
    <3>3. \A p \in Pods : skipped'[p] \in Nat
      BY <2>2, <3>1
    <3> QED BY <3>2, <3>3
  <2> QED BY <2>1, <2>2, <2>3 DEF WaitTypes, Named, Queued
<1> QED BY <1>1, <1>2

\* How the history goes on.
LEMMA SkippedStep ==
    ASSUME WNext, NEW p \in Queued(pending'), p \in Pods, p \notin tried'
    PROVE  skipped'[p] = IF PassEnds THEN skipped[p] + 1 ELSE skipped[p]
  BY DEF WNext

\* Outside the pass no pod is set aside.
LEMMA NoneSetAside ==
    ASSUME TypeInv, PassState, ~InLoops
    PROVE  /\ failQueue.queue = << >>
           /\ \A k \in Keys : ~Has(failQueue, k)
           /\ Queued(failQueue) = {}
<1>1. failQueue.queue = << >> /\ Reachable(failQueue)
  BY DEF PassState, TypeInv, QueueTypes, Good
<1>2. Len(failQueue.queue) = 0
  BY <1>1
<1>3. \A k \in Keys : ~Has(failQueue, k)
  <2>1. Reachable(failQueue) /\ 1..Len(failQueue.queue) = {}
    BY <1>1, <1>2
  <2> QED BY <2>1 DEF Reachable
<1> QED BY <1>1, <1>3 DEF Has, Queued

LEMMA NextSlots ==
    ASSUME ~Resubmission, KeepScheduling, TypeInv, Places, PassState, Slots, [Next]_vars
    PROVE  Slots'
<1> USE DEF loopVars, submitVars, queueVars, schedVars, podVars
<1>0. /\ TypeOK /\ Good(pending) /\ Good(failQueue)
      /\ pending \in FIFOQueues /\ failQueue \in FIFOQueues
      /\ failQueue.pods \in [Keys -> Pods \cup {NoPod}]
  BY DEF TypeInv, QueueTypes, TypeOK, FIFOQueues
<1>1. ASSUME pending'.queue = pending.queue, failQueue'.pods = failQueue.pods,
             submitted \subseteq submitted'
      PROVE  Slots'
  BY <1>1 DEF Slots, OneSlot, Listed, Has
<1>2. ASSUME pending' = Front(pending), UNCHANGED <<failQueue, submitted>>
      PROVE  Slots'
  BY <1>0, <1>2, DropOneSlot DEF Slots
<1>3. ASSUME NEW p \in Pods, SubmitEvent(p) PROVE Slots'
  <2>1. CASE KeyOf[p] = NoKey
    BY <1>1, <1>3, <2>1 DEF SubmitEvent
  <2>2. CASE KeyOf[p] # NoKey
    <3>1. /\ p \in Named /\ pending' = Push(pending, p) /\ submitted' = submitted \cup {p}
          /\ failQueue' = failQueue /\ \A q \in submitted : KeyOf[q] # KeyOf[p]
          /\ ~InLoops
      BY <1>3, <2>2 DEF SubmitEvent, Named, Serving, InLoops
    <3>2. KeyOf[p] \in Keys /\ ~Listed(pending, KeyOf[p])
      BY <3>1, KeyOfAssumption DEF Slots, Named
    <3>3. \A k \in Keys : ~Has(failQueue, k)
      BY <3>1, NoneSetAside
    <3>4. /\ OneSlot(pending')
          /\ \A k \in Keys : Listed(pending', k) <=> Listed(pending, k) \/ k = KeyOf[p]
      BY <1>0, <3>1, <3>2, PushOneSlot DEF Slots
    <3> QED BY <3>1, <3>3, <3>4 DEF Slots
  <2> QED BY <2>1, <2>2
<1>4. ASSUME NEW k \in Keys, DeleteEvent(k) PROVE Slots'
  BY <1>0, <1>1, <1>4, DeleteOK DEF DeleteEvent
<1>5. ASSUME NEW k \in Keys, NEW p \in Pods, UpdateEvent(k, p) PROVE Slots'
  <2>1. failQueue' = failQueue /\ submitted \subseteq submitted'
    BY <1>5 DEF UpdateEvent
  <2>2. CASE UNCHANGED pending
    BY <1>1, <2>1, <2>2
  <2>3. CASE pending' = Update(pending, p)
    <3>1. pending'.queue = pending.queue
      BY <2>3 DEF Update
    <3> QED BY <1>1, <2>1, <3>1
  <2> QED BY <1>5, <2>2, <2>3 DEF UpdateEvent
<1>6. ASSUME NEW n \in Nodes, ScheduleOne(n) PROVE Slots'
  <2>1. pending' = Pop(pending) /\ UNCHANGED <<failQueue, submitted>>
    BY <1>6 DEF ScheduleOne
  <2> QED BY <1>0, <2>1, DropOneSlot DEF Slots
<1>7. CASE ScheduleLater
  <2>1. /\ ~IsEmpty(pending) /\ pending' = Pop(pending) /\ UNCHANGED submitted
        /\ failQueue' = Push(failQueue, FrontPod(pending))
    BY <1>7 DEF ScheduleLater, Trying
  <2>2. FrontPod(pending) \in Named /\ KeyOf[FrontPod(pending)] = FrontKey(pending)
    BY <1>0, <2>1, FrontNamed DEF Good
  <2>3. failQueue'.pods = [failQueue.pods EXCEPT ![FrontKey(pending)] = FrontPod(pending)]
    BY <1>0, <2>1, <2>2, PushOK
  <2>4. /\ OneSlot(pending') /\ \A k : Listed(pending', k) => Listed(pending, k)
        /\ ~Listed(pending', FrontKey(pending))
    BY <1>0, <2>1, DropOneSlot DEF Slots
  <2> QED BY <1>0, <2>1, <2>3, <2>4 DEF Slots, Has
<1>8. CASE Resubmit
  <2>1. CASE IsEmpty(failQueue)
    <3>1. failQueue'.pods = failQueue.pods /\ UNCHANGED <<pending, submitted>>
      BY <1>8, <2>1, ResubmitEnds
    <3> QED BY <1>1, <3>1
  <2>2. CASE ~IsEmpty(failQueue)
    <3> DEFINE p == FrontPod(failQueue)
    <3>1. /\ p \in Queued(failQueue) /\ p \in Named /\ failQueue.pods[KeyOf[p]] = p
          /\ failQueue'.pods = [failQueue.pods EXCEPT ![KeyOf[p]] = NoPod]
          /\ UNCHANGED submitted
      BY <1>8, <2>2, ResubmitMoves
    <3>2. pending' = Push(pending, p)
      BY <1>8, <2>2 DEF Resubmit
    <3> HIDE DEF p
    <3>3. KeyOf[p] \in Keys /\ p \in Pods /\ p \in submitted
      BY <3>1, KeyOfAssumption DEF Named, Places, PlacesApart, Apart
    <3>4. ~Listed(pending, KeyOf[p])
      BY <3>1, <3>3, NoPodAssumption DEF Slots, Has
    <3>5. /\ OneSlot(pending')
          /\ \A k \in Keys : Listed(pending', k) <=> Listed(pending, k) \/ k = KeyOf[p]
      BY <1>0, <3>1, <3>2, <3>4, PushOneSlot DEF Slots
    <3> QED BY <1>0, <3>1, <3>3, <3>5 DEF Slots, Has
  <2> QED BY <2>1, <2>2
<1> QED BY <1>1, <1>2, <1>3, <1>4, <1>5, <1>6, <1>7, <1>8
        DEF Next, Loop, CallSubmitter, TerminateSubmitterEvent, EndOfEvents, StartSchedule,
            SchedulePreempt, ScheduleError, QueueExhausted, ApplyEvent, EventsApplied,
            EndOfTick, vars

\* The keys tried, when a pod at the front is tried.
LEMMA TriedMore ==
    ASSUME IsFiniteSet(Keys), TypeInv, WaitTypes, WNext, Trying,
           \A k \in TriedKeys : ~Has(pending, k)
    PROVE  /\ TriedKeys' = TriedKeys \cup {FrontKey(pending)}
           /\ FrontKey(pending) \notin TriedKeys
           /\ Cardinality(TriedKeys') = Cardinality(TriedKeys) + 1
           /\ Cardinality(TriedKeys) \in Nat
           /\ TriedKeys' \in SUBSET Keys
           /\ tried' = tried \cup {FrontPod(pending)}
           /\ FrontPod(pending) \in Named /\ FrontPod(pending) \in Pods
           /\ KeyOf[FrontPod(pending)] = FrontKey(pending)
           /\ FrontKey(pending) \in Keys
<1> DEFINE x == FrontPod(pending)
           k == FrontKey(pending)
<1>1. /\ x \in Named /\ KeyOf[x] = k /\ k \in Keys /\ x \in Pods /\ Has(pending, k)
  BY FrontNamed, FrontIndexLeast DEF TypeInv, QueueTypes, Good, Trying, Named, Has, FrontPod
<1>2. tried' = tried \cup {x}
  BY DEF WNext, Trying
<1> HIDE DEF x, k
<1>3. TriedKeys' = TriedKeys \cup {k}
  BY <1>1, <1>2 DEF TriedKeys
<1>4. k \notin TriedKeys
  BY <1>1
<1>5. TriedKeys \in SUBSET Keys
  BY KeyOfAssumption DEF TriedKeys, WaitTypes, Named
<1>6. IsFiniteSet(TriedKeys) /\ Cardinality(TriedKeys) \in Nat
  BY <1>5, FS_Subset, FS_CardinalityType
<1>7. Cardinality(TriedKeys \cup {k}) = Cardinality(TriedKeys) + 1
  BY <1>4, <1>6, FS_AddElement
<1> QED BY <1>1, <1>2, <1>3, <1>4, <1>5, <1>6, <1>7 DEF x, k

\* A pass is left through Resubmit only.
LEMMA PassSteps ==
    ASSUME KeepScheduling, Next
    PROVE  \/ ~InLoops /\ ~InLoops' /\ UNCHANGED failQueue
           \/ StartSchedule
           \/ \E n \in Nodes : ScheduleOne(n)
           \/ ScheduleLater
           \/ QueueExhausted
           \/ Resubmit
<1> USE DEF loopVars, submitVars, queueVars, schedVars, podVars
<1> QED BY DEF Next, Loop, CallSubmitter, SubmitEvent, DeleteEvent, UpdateEvent,
               TerminateSubmitterEvent, EndOfEvents, Serving, SchedulePreempt, ScheduleError,
               ApplyEvent, EventsApplied, EndOfTick, Return, Goto, InLoops, DeletePodsFromNode

LEMMA NextPassState ==
    ASSUME IsFiniteSet(Keys), ~Resubmission, KeepScheduling,
           TypeInv, Places, WaitTypes, Slots, PassState, WNext
    PROVE  PassState'
<1> USE DEF loopVars, submitVars, queueVars, schedVars, podVars
<1>0. /\ TypeOK /\ Good(pending) /\ Good(failQueue) /\ pending \in FIFOQueues
      /\ failQueue \in FIFOQueues /\ failQueue.queue \in Seq(Keys) /\ KeepSchedulingTimeout \in Nat
      /\ pending.pods \in [Keys -> Pods \cup {NoPod}]
  BY SchedulerAssumption DEF TypeInv, QueueTypes, TypeOK, FIFOQueues, Good
<1>1. CASE ~InLoops /\ ~InLoops' /\ UNCHANGED failQueue
  <2>1. pc' \notin {"schedule", "resubmit"}
    BY <1>1 DEF InLoops
  <2> QED BY <1>1, <2>1 DEF PassState
<1>2. CASE StartSchedule
  <2>1. pc = "submit" /\ pc' = "schedule" /\ tried' = {} /\ UNCHANGED failQueue
    BY <1>2 DEF StartSchedule, Goto, WNext
  <2>2. ~InLoops /\ TriedKeys' = {} /\ Cardinality({}) = 0
    BY <2>1, FS_EmptySet DEF InLoops, TriedKeys
  <2>3. Queued(failQueue)' = {} /\ failQueue'.queue = << >>
    BY <2>1, <2>2, NoneSetAside DEF Queued
  <2>4. QLen(failQueue') = 0
    BY <2>3 DEF QLen
  <2> QED BY <2>1, <2>2, <2>3, <2>4 DEF PassState, InLoops
<1>3. ASSUME NEW n \in Nodes, ScheduleOne(n) PROVE PassState'
  <2>1. /\ pc = "schedule" /\ pc' = "schedule" /\ Trying /\ pending' = Pop(pending)
        /\ UNCHANGED failQueue /\ ~IsEmpty(pending)
    BY <1>3 DEF ScheduleOne, Trying
  <2>2. /\ \A k \in TriedKeys : ~Has(pending, k)
        /\ QLen(failQueue) <= Cardinality(TriedKeys) /\ Queued(failQueue) \subseteq tried
    BY <2>1 DEF PassState, InLoops
  <2>3. /\ TriedKeys' = TriedKeys \cup {FrontKey(pending)}
        /\ Cardinality(TriedKeys') = Cardinality(TriedKeys) + 1
        /\ Cardinality(TriedKeys) \in Nat /\ TriedKeys' \in SUBSET Keys
        /\ tried' = tried \cup {FrontPod(pending)} /\ FrontKey(pending) \in Keys
    BY <2>1, <2>2, TriedMore
  <2>4. pending'.pods = [pending.pods EXCEPT ![FrontKey(pending)] = NoPod]
    BY <1>0, <2>1, PopOK
  <2>5. \A k \in TriedKeys' : ~Has(pending', k)
    BY <1>0, <2>2, <2>3, <2>4 DEF Has
  <2>6. QLen(failQueue') <= Cardinality(TriedKeys')
    BY <1>0, <2>1, <2>2, <2>3 DEF QLen
  <2>7. Queued(failQueue)' \subseteq tried'
    BY <2>1, <2>2, <2>3 DEF Queued
  <2> QED BY <2>1, <2>5, <2>6, <2>7 DEF PassState, InLoops
<1>4. CASE ScheduleLater
  <2>1. /\ pc = "schedule" /\ Trying /\ pending' = Pop(pending) /\ ~IsEmpty(pending)
        /\ failQueue' = Push(failQueue, FrontPod(pending))
        /\ pc' = IF QLen(failQueue') > KeepSchedulingTimeout THEN "resubmit" ELSE "schedule"
    BY <1>4 DEF ScheduleLater, Trying, Goto
  <2>2. /\ \A k \in TriedKeys : ~Has(pending, k)
        /\ QLen(failQueue) <= Cardinality(TriedKeys) /\ Queued(failQueue) \subseteq tried
    BY <2>1 DEF PassState, InLoops
  <2>3. /\ TriedKeys' = TriedKeys \cup {FrontKey(pending)}
        /\ Cardinality(TriedKeys') = Cardinality(TriedKeys) + 1
        /\ Cardinality(TriedKeys) \in Nat /\ TriedKeys' \in SUBSET Keys
        /\ tried' = tried \cup {FrontPod(pending)} /\ FrontKey(pending) \in Keys
        /\ FrontPod(pending) \in Named
    BY <2>1, <2>2, TriedMore
  <2>4. pending'.pods = [pending.pods EXCEPT ![FrontKey(pending)] = NoPod]
    BY <1>0, <2>1, PopOK
  <2>5. \A k \in TriedKeys' : ~Has(pending', k)
    BY <1>0, <2>2, <2>3, <2>4 DEF Has
  <2>6. failQueue'.queue = Append(failQueue.queue, KeyOf[FrontPod(pending)])
    BY <1>0, <2>1, <2>3, PushOK
  <2>7. QLen(failQueue') = QLen(failQueue) + 1 /\ QLen(failQueue) \in Nat
    BY <1>0, <2>6 DEF QLen
  <2>8. QLen(failQueue') <= Cardinality(TriedKeys')
    BY <2>2, <2>3, <2>7
  <2>9. Queued(failQueue)' \subseteq tried'
    BY <1>0, <2>1, <2>2, <2>3, QueuedPush
  <2>10. CASE QLen(failQueue') > KeepSchedulingTimeout
    <3>1. Cardinality(TriedKeys') > KeepSchedulingTimeout
      BY <1>0, <2>3, <2>7, <2>8, <2>10
    <3> QED BY <2>1, <2>5, <2>9, <2>10, <3>1 DEF PassState, InLoops
  <2>11. CASE ~(QLen(failQueue') > KeepSchedulingTimeout)
    BY <2>1, <2>5, <2>8, <2>9, <2>11 DEF PassState, InLoops
  <2> QED BY <2>10, <2>11
<1>5. CASE QueueExhausted
  <2>1. /\ pc = "schedule" /\ pc' = "resubmit" /\ IsEmpty(pending) /\ pending' = Front(pending)
        /\ UNCHANGED failQueue
    BY <1>5 DEF QueueExhausted, Goto
  <2>2. Queued(pending)' = {}
    BY <1>0, <2>1, QueuedFront, QueuedPopEmpty
  <2>3. tried' = tried
    BY <2>1 DEF WNext, Trying
  <2>4. Queued(failQueue)' \subseteq tried'
    BY <2>1, <2>3 DEF PassState, InLoops, Queued
  <2> QED BY <2>1, <2>2, <2>4 DEF PassState, InLoops
<1>6. CASE Resubmit
  <2>1. pc = "resubmit" /\ tried' = tried /\ TriedKeys' = TriedKeys
    BY <1>6 DEF Resubmit, WNext, Trying, TriedKeys
  <2>2. CASE IsEmpty(failQueue)
    <3>1. pc' = "apply" /\ failQueue' = Pop(failQueue)
      BY <1>6, <2>2 DEF Resubmit, Goto
    <3>2. failQueue'.queue = << >>
      BY <2>2, <3>1 DEF Pop
    <3> QED BY <3>1, <3>2 DEF PassState, InLoops
  <2>3. CASE ~IsEmpty(failQueue)
    <3> DEFINE x == FrontPod(failQueue)
    <3>1. /\ x \in Queued(failQueue) /\ x \in Named /\ failQueue.pods[KeyOf[x]] = x
          /\ Queued(failQueue)' = Queued(failQueue) \ {x}
          /\ Queued(pending)' = (Queued(pending) \ {pending.pods[KeyOf[x]]}) \cup {x}
          /\ pending'.pods = [pending.pods EXCEPT ![KeyOf[x]] = x]
          /\ pc' = pc /\ pending' = Push(pending, x)
      BY <1>6, <2>3, ResubmitMoves DEF Resubmit
    <3> HIDE DEF x
    <3>2. Queued(failQueue) \subseteq tried
      BY <2>1 DEF PassState, InLoops
    <3>3. KeyOf[x] \in Keys /\ x \in Pods /\ ~Listed(pending, KeyOf[x])
      BY <3>1, KeyOfAssumption, NoPodAssumption DEF Named, Slots, Has
    <3>4. Queued(pending)' \ tried' \subseteq Queued(pending) \ tried
      BY <2>1, <3>1, <3>2
    <3>5. ASSUME NEW p \in Queued(pending) \ tried, NEW k \in TriedKeys, Has(pending', k)
          PROVE  Precedes(pending', KeyOf[p], k)
      <4>1. KeyOf[p] \in Keys /\ Has(pending, KeyOf[p]) /\ k \in Keys
        BY <1>0, QueuedIff, NoPodAssumption, KeyOfAssumption DEF Has, TriedKeys, WaitTypes, Named
      <4>2. CASE k = KeyOf[x]
        BY <1>0, <3>1, <3>3, <4>1, <4>2, BeforePush
      <4>3. CASE k # KeyOf[x]
        <5>1. Has(pending, k)
          BY <1>0, <3>1, <3>3, <3>5, <4>1, <4>3 DEF Has
        <5>2. Precedes(pending, KeyOf[p], k)
          BY <2>1, <3>5, <5>1 DEF PassState
        <5> QED BY <1>0, <3>1, <3>3, <4>1, <5>2, BeforePush
      <4> QED BY <4>2, <4>3
    <3>6. Queued(pending)' \subseteq tried' \/ Cardinality(TriedKeys') > KeepSchedulingTimeout
      <4>1. Queued(pending) \subseteq tried \/ Cardinality(TriedKeys) > KeepSchedulingTimeout
        BY <2>1 DEF PassState
      <4> QED BY <2>1, <3>4, <4>1
    <3>7. Queued(failQueue)' \subseteq tried'
      BY <2>1, <3>1, <3>2
    <3>8. \A p \in Queued(pending)' \ tried' : \A k \in TriedKeys' :
             Has(pending', k) => Precedes(pending', KeyOf[p], k)
      BY <2>1, <3>4, <3>5
    <3> QED BY <2>1, <3>1, <3>6, <3>7, <3>8 DEF PassState, InLoops
  <2> QED BY <2>2, <2>3
<1> QED BY <1>1, <1>2, <1>3, <1>4, <1>5, <1>6, PassSteps DEF WNext

WaitInv == TypeInv /\ Places /\ WaitTypes /\ Slots /\ PassState

LEMMA LoadTypes ==
    ASSUME IsFiniteSet(Keys), WaitTypes
    PROVE  /\ TriedKeys \in SUBSET Keys /\ IsFiniteSet(TriedKeys)
           /\ \A j \in Keys : IsFiniteSet(Before(pending, j) \cup TriedKeys)
           /\ Cardinality(Keys) \in Nat
           /\ KeepSchedulingTimeout + 1 \in Nat \ {0}
           /\ \A p \in Pods : skipped[p] \in Nat
<1>1. TriedKeys \in SUBSET Keys
  BY KeyOfAssumption DEF TriedKeys, WaitTypes, Named
<1>2. \A j : Before(pending, j) \cup TriedKeys \in SUBSET Keys
  BY <1>1 DEF Before
<1> QED BY <1>1, <1>2, FS_Subset, FS_CardinalityType, SchedulerAssumption DEF WaitTypes

\* A pod that has not been passed over yet.
LEMMA LoadOfUnskipped ==
    ASSUME IsFiniteSet(Keys), NEW f, NEW j \in Keys, NEW s, s = 0
    PROVE  Cardinality(Before(f, j)) + s * (KeepSchedulingTimeout + 1) <= Cardinality(Keys) - 1
<1>1. /\ Cardinality(Before(f, j)) \in Nat /\ Cardinality(Keys) \in Nat
      /\ Cardinality(Before(f, j)) <= Cardinality(Keys) - 1
  BY BeforeFewer
<1>2. s * (KeepSchedulingTimeout + 1) = 0
  BY SchedulerAssumption
<1> QED BY <1>1, <1>2

\* A step that puts no key before the pod and does not end a pass.
LEMMA LoadShrinks ==
    ASSUME IsFiniteSet(Keys), NEW L, NEW M, IsFiniteSet(L), M \subseteq L, NEW s \in Nat,
           Cardinality(L) + s * (KeepSchedulingTimeout + 1) <= Cardinality(Keys) - 1
    PROVE  Cardinality(M) + s * (KeepSchedulingTimeout + 1) <= Cardinality(Keys) - 1
<1>1. /\ Cardinality(M) \in Nat /\ Cardinality(L) \in Nat /\ Cardinality(M) <= Cardinality(L)
      /\ Cardinality(Keys) \in Nat
  BY FS_Subset, FS_CardinalityType
<1>2. s * (KeepSchedulingTimeout + 1) \in Nat
  BY SchedulerAssumption
<1> QED BY <1>1, <1>2

\* A pass that put more than KeepSchedulingTimeout keys behind the pod.
LEMMA LoadOfSkipped ==
    ASSUME IsFiniteSet(Keys), NEW B, NEW T, B \in SUBSET Keys, T \in SUBSET Keys,
           B \cap T = {}, Cardinality(T) > KeepSchedulingTimeout, NEW s \in Nat,
           Cardinality(B \cup T) + s * (KeepSchedulingTimeout + 1) <= Cardinality(Keys) - 1
    PROVE  Cardinality(B) + (s + 1) * (KeepSchedulingTimeout + 1) <= Cardinality(Keys) - 1
<1>1. /\ IsFiniteSet(B) /\ IsFiniteSet(T) /\ Cardinality(Keys) \in Nat
      /\ Cardinality(B) \in Nat /\ Cardinality(T) \in Nat
  BY FS_Subset, FS_CardinalityType
<1>2. Cardinality(B \cup T) = Cardinality(B) + Cardinality(T)
  BY <1>1, FS_Union, FS_EmptySet
<1> DEFINE k == KeepSchedulingTimeout + 1
<1>3. k \in Nat /\ Cardinality(T) >= k
  BY <1>1, SchedulerAssumption
<1>4. s * k \in Nat /\ (s + 1) * k = s * k + k
  <2> HIDE DEF k
  <2> QED BY <1>3
<1>5. Cardinality(B \cup T) + s * k <= Cardinality(Keys) - 1
  OBVIOUS
<1> HIDE DEF k
<1>6. Cardinality(B) + (s + 1) * k <= Cardinality(Keys) - 1
  BY <1>1, <1>2, <1>3, <1>4, <1>5
<1> QED BY <1>6 DEF k

LEMMA NextLoad ==
    ASSUME IsFiniteSet(Keys), ~Resubmission, KeepScheduling, WaitInv, LoadBounded, WNext,
           TypeInv', WaitTypes'
    PROVE  LoadBounded'
<1> USE DEF loopVars, submitVars, queueVars, schedVars, podVars
<1>0. /\ TypeInv /\ Places /\ WaitTypes /\ Slots /\ PassState /\ TypeOK
      /\ Good(pending) /\ Good(failQueue) /\ pending \in FIFOQueues
      /\ pending.pods \in [Keys -> Pods \cup {NoPod}]
  BY DEF WaitInv, TypeInv, QueueTypes, TypeOK, FIFOQueues
<1>1. \A p \in Queued(pending) : p \in Pods /\ KeyOf[p] \in Keys /\ Has(pending, KeyOf[p])
                                  /\ pending.pods[KeyOf[p]] = p
  BY <1>0, QueuedIff, NoPodAssumption DEF Has
<1>2. \A p \in Queued(pending') : p \in Pods /\ KeyOf[p] \in Keys /\ Has(pending', KeyOf[p])
                                   /\ pending'.pods[KeyOf[p]] = p
  <2>1. Good(pending')
    BY DEF TypeInv, QueueTypes, Good, Keyed, Reachable, Has
  <2> QED BY <2>1, QueuedIff, NoPodAssumption DEF Has
<1> SUFFICES ASSUME NEW p \in Queued(pending'), p \notin tried'
             PROVE  LoadBound(p)'
  BY DEF LoadBounded, Queued
<1> DEFINE j == KeyOf[p]
<1>3. p \in Pods /\ j \in Keys
  BY <1>2
<1> HIDE DEF j
<1>4. /\ skipped'[p] = IF PassEnds THEN skipped[p] + 1 ELSE skipped[p]
      /\ skipped[p] \in Nat
  BY <1>0, <1>3, SkippedStep, LoadTypes
<1>5. Load(p) = IF InLoops THEN Before(pending, j) \cup TriedKeys ELSE Before(pending, j)
  BY DEF Load, j
<1>6. Load(p)' = IF InLoops' THEN Before(pending', j) \cup TriedKeys' ELSE Before(pending', j)
  BY DEF Load, j, Before, Has, Precedes
<1>7. LoadBound(p) <=>
         Cardinality(Load(p)) + skipped[p] * (KeepSchedulingTimeout + 1) <= Cardinality(Keys) - 1
  BY DEF LoadBound
<1>8. LoadBound(p)' <=>
         Cardinality(Load(p)') + skipped'[p] * (KeepSchedulingTimeout + 1) <= Cardinality(Keys) - 1
  BY DEF LoadBound
<1>9. IsFiniteSet(Load(p))
  BY <1>0, <1>3, <1>5, LoadTypes, BeforeFewer
\* No key is put before the pod, and no pass ends.
<1>10. ASSUME p \in Queued(pending) \ tried, Load(p)' \subseteq Load(p), ~PassEnds
       PROVE  LoadBound(p)'
  <2>1. LoadBound(p)
    BY <1>10 DEF LoadBounded
  <2> QED BY <1>4, <1>7, <1>8, <1>9, <1>10, <2>1, LoadShrinks
\* The pod has not been passed over.
<1>11. ASSUME Load(p)' = Before(pending', j), ~PassEnds, skipped[p] = 0
       PROVE  LoadBound(p)'
  BY <1>3, <1>4, <1>8, <1>11, LoadOfUnskipped
<1>12. CASE ~InLoops /\ (InLoops' => TriedKeys' = {})
                     /\ (p \in Queued(pending) => Before(pending', j) \subseteq Before(pending, j))
  <2>1. ~PassEnds /\ Load(p)' = Before(pending', j) /\ Load(p) = Before(pending, j)
    BY <1>5, <1>6, <1>12 DEF PassEnds
  <2>2. CASE p \in Queued(pending) \ tried
    BY <1>10, <1>12, <2>1, <2>2
  <2>3. CASE p \notin Queued(pending) \ tried
    <3>1. skipped[p] = 0
      BY <1>0, <1>3, <1>12, <2>3, NoneSetAside DEF WaitTypes
    <3> QED BY <1>11, <2>1, <3>1
  <2> QED BY <2>2, <2>3
<1>13. ASSUME Trying, pending' = Pop(pending), pc = "schedule", InLoops'
       PROVE  LoadBound(p)'
  <2>1. ~IsEmpty(pending) /\ InLoops /\ ~PassEnds
    BY <1>13 DEF Trying, InLoops, PassEnds
  <2>2. \A k \in TriedKeys : ~Has(pending, k)
    BY <1>0, <1>13 DEF PassState
  <2>3. /\ TriedKeys' = TriedKeys \cup {FrontKey(pending)}
        /\ tried' = tried \cup {FrontPod(pending)}
        /\ KeyOf[FrontPod(pending)] = FrontKey(pending)
    BY <1>0, <1>13, <2>2, TriedMore
  <2>4. Queued(pending') = Queued(pending) \ {FrontPod(pending)}
    BY <1>0, <1>13, <2>1, QueuedPop
  <2>5. p \in Queued(pending) \ tried /\ p # FrontPod(pending)
    BY <2>3, <2>4
  <2>6. Has(pending, j) /\ j # FrontKey(pending)
    BY <1>1, <2>5 DEF j, FrontPod
  <2>7. Before(pending', j) \subseteq Before(pending, j) /\ FrontKey(pending) \in Before(pending, j)
    BY <1>0, <1>3, <1>13, <2>1, <2>6, BeforePop
  <2>8. Load(p)' \subseteq Load(p)
    BY <1>5, <1>6, <1>13, <2>1, <2>3, <2>7
  <2> QED BY <1>10, <2>1, <2>5, <2>8
<1>14. CASE QueueExhausted
  <2>1. IsEmpty(pending) /\ pending' = Front(pending)
    BY <1>14 DEF QueueExhausted
  <2> QED BY <1>0, <2>1, QueuedFront, QueuedPopEmpty
<1>15. CASE Resubmit
  <2>1. pc = "resubmit" /\ tried' = tried /\ TriedKeys' = TriedKeys /\ InLoops
    BY <1>15 DEF Resubmit, WNext, Trying, TriedKeys, InLoops
  <2>2. Queued(failQueue) \subseteq tried
    BY <1>0, <2>1 DEF PassState
  <2>3. CASE IsEmpty(failQueue)
    <3>1. pc' = "apply" /\ pending' = pending
      BY <1>15, <2>3 DEF Resubmit, Goto
    <3>2. ~InLoops' /\ PassEnds
      BY <2>1, <3>1 DEF PassEnds, InLoops
    <3>3. p \in Queued(pending) \ tried
      BY <2>1, <3>1
    <3>4. /\ Cardinality(TriedKeys) > KeepSchedulingTimeout
          /\ \A k \in TriedKeys : Has(pending, k) => Precedes(pending, j, k)
      BY <1>0, <2>1, <3>3 DEF PassState, j
    <3>5. Before(pending, j) \cap TriedKeys = {} /\ Before(pending, j) \in SUBSET Keys
      BY <3>4 DEF Before
    <3>6. Cardinality(Before(pending, j) \cup TriedKeys) + skipped[p] * (KeepSchedulingTimeout + 1)
             <= Cardinality(Keys) - 1
      BY <1>5, <1>7, <2>1, <3>3 DEF LoadBounded
    <3>7. Cardinality(Before(pending, j)) + (skipped[p] + 1) * (KeepSchedulingTimeout + 1)
             <= Cardinality(Keys) - 1
      <4>1. TriedKeys \in SUBSET Keys
        BY <1>0, LoadTypes
      <4> QED BY <1>4, <3>4, <3>5, <3>6, <4>1, LoadOfSkipped
    <3> QED BY <1>4, <1>6, <1>8, <3>1, <3>2, <3>7
  <2>4. CASE ~IsEmpty(failQueue)
    <3> DEFINE x == FrontPod(failQueue)
    <3>1. /\ x \in Queued(failQueue) /\ x \in Named /\ failQueue.pods[KeyOf[x]] = x
          /\ Queued(pending)' = (Queued(pending) \ {pending.pods[KeyOf[x]]}) \cup {x}
          /\ pc' = pc /\ pending' = Push(pending, x)
      BY <1>0, <1>15, <2>4, ResubmitMoves DEF Resubmit
    <3> HIDE DEF x
    <3>2. KeyOf[x] \in Keys /\ ~Listed(pending, KeyOf[x])
      BY <1>0, <3>1, KeyOfAssumption, NoPodAssumption DEF Named, Slots, Has
    <3>3. p \in Queued(pending) \ tried
      <4>1. p \in Queued(pending)'
        BY DEF Queued
      <4> QED BY <2>1, <2>2, <3>1, <4>1
    <3>4. Before(pending', j) \subseteq Before(pending, j)
      BY <1>0, <1>1, <1>3, <3>1, <3>2, <3>3, BeforePush DEF j
    <3>5. InLoops' /\ ~PassEnds
      BY <2>1, <3>1 DEF InLoops, PassEnds
    <3>6. Load(p)' \subseteq Load(p)
      BY <1>5, <1>6, <2>1, <3>4, <3>5
    <3> QED BY <1>10, <3>3, <3>5, <3>6
  <2> QED BY <2>3, <2>4
<1>16. CASE StartSchedule
  <2>1. ~InLoops /\ tried' = {} /\ pending' = pending
    BY <1>16 DEF StartSchedule, InLoops, WNext
  <2> QED BY <1>12, <2>1 DEF TriedKeys
<1>17. ASSUME ~InLoops, ~InLoops' PROVE LoadBound(p)'
  <2>1. CASE p \notin Queued(pending)
    BY <1>12, <1>17, <2>1
  <2>2. CASE p \in Queued(pending)
    <3>1. Has(pending, j)
      BY <1>1, <2>2 DEF j
    <3>2. CASE pending' = pending
      BY <1>12, <1>17, <3>2
    <3>3. CASE pending' = Front(pending)
      BY <1>0, <1>12, <1>17, <3>1, <3>3, BeforeFront
    <3>4. ASSUME NEW x \in Pods, SubmitEvent(x), KeyOf[x] # NoKey PROVE LoadBound(p)'
      <4>1. /\ x \in Named /\ pending' = Push(pending, x)
            /\ \A q \in submitted : KeyOf[q] # KeyOf[x]
        BY <3>4 DEF SubmitEvent, Named
      <4>2. ~Listed(pending, KeyOf[x])
        BY <1>0, <4>1, KeyOfAssumption DEF Slots, Named
      <4>3. Before(pending', j) \subseteq Before(pending, j)
        BY <1>0, <1>3, <3>1, <4>1, <4>2, BeforePush
      <4> QED BY <1>12, <1>17, <4>3
    <3>5. ASSUME NEW k \in Keys, DeleteEvent(k), Has(pending, k) PROVE LoadBound(p)'
      <4>1. /\ pending'.queue = pending.queue
            /\ pending'.pods = [pending.pods EXCEPT ![k] = NoPod]
        BY <1>0, <3>5, DeleteOK DEF DeleteEvent
      <4>2. \A l \in Keys : Has(pending', l) => Has(pending, l)
        BY <1>0, <4>1 DEF Has
      <4> QED BY <1>12, <1>17, <4>1, <4>2, BeforeWrite
    <3>6. ASSUME NEW k \in Keys, NEW x \in Pods, UpdateEvent(k, x), KeyOf[x] = k, Has(pending, k)
          PROVE  LoadBound(p)'
      <4>0. x \in Named /\ pending' = Update(pending, x)
        BY <3>6, NoKeyAssumption DEF UpdateEvent, Named
      <4>1. /\ pending'.queue = pending.queue
            /\ pending'.pods = [pending.pods EXCEPT ![k] = x]
        BY <1>0, <3>6, <4>0, UpdateOK
      <4>2. \A l \in Keys : Has(pending', l) => Has(pending, l)
        BY <1>0, <3>6, <4>1 DEF Has
      <4> QED BY <1>12, <1>17, <4>1, <4>2, BeforeWrite
    <3>7. CASE \E x \in Pods : SubmitEvent(x)
      <4>1. PICK x \in Pods : SubmitEvent(x)
        BY <3>7
      <4> QED BY <3>2, <3>4, <4>1 DEF SubmitEvent
    <3>8. CASE \E k \in Keys : DeleteEvent(k)
      <4>1. PICK k \in Keys : DeleteEvent(k)
        BY <3>8
      <4> QED BY <3>2, <3>5, <4>1 DEF DeleteEvent
    <3>9. CASE \E k \in Keys, x \in Pods : UpdateEvent(k, x)
      <4>1. PICK k \in Keys, x \in Pods : UpdateEvent(k, x)
        BY <3>9
      <4> QED BY <3>2, <3>6, <4>1 DEF UpdateEvent
    <3> QED BY <1>17, <3>2, <3>3, <3>7, <3>8, <3>9
            DEF WNext, Next, Loop, CallSubmitter, TerminateSubmitterEvent, EndOfEvents,
                StartSchedule, ScheduleOne, ScheduleLater, SchedulePreempt, ScheduleError,
                QueueExhausted, Resubmit, Trying, ApplyEvent, EventsApplied, EndOfTick, InLoops
  <2> QED BY <2>1, <2>2
<1>18. ASSUME NEW n \in Nodes, ScheduleOne(n) PROVE LoadBound(p)'
  BY <1>13, <1>18 DEF ScheduleOne, Trying, InLoops
<1>19. CASE ScheduleLater
  BY <1>13, <1>19 DEF ScheduleLater, Trying, InLoops, Goto
<1> QED BY <1>14, <1>15, <1>16, <1>17, <1>18, <1>19, PassSteps DEF WNext

\* The quotient of the bound.
LEMMA QuotientBound ==
    ASSUME NEW a \in Nat, NEW b \in Nat \ {0}, NEW c \in Nat, a * b <= c
    PROVE  a <= c \div b
<1>1. c \div b \in Nat /\ c < b * (c \div b) + b
  OBVIOUS
<1> DEFINE q == c \div b
<1> SUFFICES ASSUME a > q PROVE FALSE
  BY <1>1
<1> HIDE DEF q
<1>2. q \in Nat /\ c < b * q + b
  BY <1>1 DEF q
<1>3. PICK d \in Nat : a = (q + 1) + d
  <2>1. a - (q + 1) \in Nat /\ a = (q + 1) + (a - (q + 1))
    BY <1>2
  <2> QED BY <2>1
<1>4. a * b = (b * q + b) + d * b /\ d * b \in Nat /\ b * q \in Nat
  BY <1>2, <1>3
<1> QED BY <1>2, <1>4

\* With KeepScheduling (generic_scheduler.go:115 to 194) no pod starves, whatever the
\* number of pods and the timeout, unless a submitter uses a name again: a stale key of
\* the slice (fifo.go:79) would then put the new pod before those that wait.
THEOREM KubeSimBoundedWait ==
    ASSUME KeepScheduling, ~Resubmission, IsFiniteSet(Keys), Keys # {}
    PROVE  WSpec => []BoundedWait
<1>1. WInit => WaitInv /\ LoadBounded
  <2> SUFFICES ASSUME WInit PROVE WaitTypes /\ Slots /\ PassState /\ LoadBounded
    BY InitInv, InitPlaces DEF WInit, WaitInv
  <2>1. /\ tried = {} /\ skipped = [p \in Pods |-> 0] /\ pc = "loop"
        /\ pending = NewFIFOQueue /\ failQueue = NewFIFOQueue
    BY DEF WInit, Init
  <2>2. pending.queue = << >> /\ failQueue.queue = << >> /\ \A k \in Keys : pending.pods[k] = NoPod
    BY <2>1 DEF NewFIFOQueue
  <2>3. Queued(pending) = {}
    BY <2>2 DEF Queued
  <2>4. 1..Len(pending.queue) = {}
    BY <2>2
  <2>5. Slots
    BY <2>4 DEF Slots, OneSlot, Listed
  <2>6. PassState
    BY <2>1, <2>2 DEF PassState, InLoops
  <2> QED BY <2>1, <2>3, <2>5, <2>6 DEF WaitTypes, LoadBounded
<1>2. WaitInv /\ LoadBounded /\ [WNext]_WVars => (WaitInv /\ LoadBounded)'
  <2> SUFFICES ASSUME WaitInv, LoadBounded, [WNext]_WVars PROVE (WaitInv /\ LoadBounded)'
    OBVIOUS
  <2>1. TypeInv' /\ Places' /\ WaitTypes' /\ Slots'
    BY WNextNext, NextInv, NextPlaces, NextWaitTypes, NextSlots DEF WaitInv
  <2>2. CASE WNext
    BY <2>1, <2>2, NextPassState, NextLoad DEF WaitInv
  <2>3. CASE UNCHANGED WVars
    <3>1. UNCHANGED <<pc, pending, failQueue, tried, skipped>>
      BY <2>3 DEF WVars, vars, queueVars, schedVars
    <3> QED BY <2>1, <3>1 DEF WaitInv, PassState, InLoops, Queued, TriedKeys, LoadBounded, LoadBound, Load
  <2> QED BY <2>2, <2>3
<1>3. WaitInv /\ LoadBounded => BoundedWait
  <2> SUFFICES ASSUME WaitInv, LoadBounded, NEW p \in Pods
               PROVE  skipped[p] <= (Cardinality(Keys) - 1) \div (KeepSchedulingTimeout + 1)
    BY DEF BoundedWait
  <2> DEFINE k == KeepSchedulingTimeout + 1
             c == Cardinality(Keys) - 1
  <2>1. skipped[p] \in Nat /\ k \in Nat \ {0} /\ Cardinality(Keys) \in Nat
    BY LoadTypes DEF WaitInv
  <2>2. c \in Nat
    BY <2>1, FS_EmptySet
  <2>3. skipped[p] * k <= c
    <3>1. CASE skipped[p] = 0
      <4> HIDE DEF k, c
      <4> QED BY <2>1, <2>2, <3>1
    <3>2. CASE skipped[p] # 0
      <4>1. p \notin tried /\ p \in Queued(pending) \cup Queued(failQueue)
        BY <3>2 DEF WaitInv, WaitTypes
      <4>2. p \in Queued(pending)
        BY <4>1, NoneSetAside DEF WaitInv, PassState
      <4>3. Cardinality(Load(p)) + skipped[p] * k <= c
        BY <4>1, <4>2 DEF LoadBounded, LoadBound
      <4>4. Cardinality(Load(p)) \in Nat
        <5>1. KeyOf[p] \in Keys
          BY <4>2, QueuedIff DEF WaitInv, TypeInv, QueueTypes
        <5>2. IsFiniteSet(Load(p))
          BY <5>1, LoadTypes, BeforeFewer DEF Load, WaitInv
        <5> QED BY <5>2, FS_CardinalityType
      <4> HIDE DEF k, c
      <4>5. skipped[p] * k \in Nat
        BY <2>1
      <4> QED BY <2>2, <4>3, <4>4, <4>5
    <3> QED BY <3>1, <3>2
  <2> HIDE DEF k, c
  <2>4. skipped[p] <= c \div k
    BY <2>1, <2>2, <2>3, QuotientBound
  <2> QED BY <2>4 DEF k, c
<1> QED BY <1>1, <1>2, <1>3, PTL DEF WSpec
=============================================================================
