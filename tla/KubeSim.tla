------------------------------ MODULE KubeSim ------------------------------
(***************************************************************************)
(* The main loop of the simulator (pkg/kubesim.go): submitters, a FIFO     *)
(* queue of pending pods (FIFO), the generic scheduler's pass over it      *)
(* (pkg/scheduler/generic_scheduler.go), the nodes (pkg/node/node.go) and  *)
(* the life of the pods bound to them (pkg/pod/pod.go).                    *)
(*                                                                         *)
(* The loop is one thread; pc is the point it has reached.  What plug-ins, *)
(* extenders, submitters and metrics writers do is not part of the         *)
(* program: it is chosen by \E, and Faults says which of them may fail.    *)
(* Clock, durations and grace periods are in seconds.                      *)
(***************************************************************************)
EXTENDS FIFO, Integers

CONSTANTS
    Nodes,
    Submitters,
    NoSubmitter,
    NoNode,                 \* the NodeName of a pod that is not bound
    Duration,               \* total of the phases of a pod's simSpec
    Grace,                  \* its termination grace period
    Priority,               \* its priority
    Broken,                 \* pods whose simSpec does not parse
    Fits(_, _),             \* the predicates accept this set of pods on this node
    Refusable,              \* pods of which extenders may refuse all nodes
    Tick,
    MetricsTick,
    EndClock,
    KeepScheduling,         \* globals of pkg/scheduler/scheduler.go
    KeepSchedulingTimeout,
    PreemptionEnabled,
    Resubmission,           \* a submitter may use the name of an earlier pod
    Faults                  \* what may fail

ASSUME AbsentAssumption == NoSubmitter \notin Submitters /\ NoNode \notin Nodes
ASSUME PodAssumption ==
    /\ Duration \in [Pods -> Nat]
    /\ Grace \in [Pods -> Nat]
    /\ Priority \in [Pods -> Int]
    /\ Broken \in SUBSET Pods /\ Refusable \in SUBSET Pods
ASSUME TimeAssumption ==
    Tick \in Nat \ {0} /\ MetricsTick \in Nat /\ EndClock \in Nat
ASSUME SchedulerAssumption ==
    /\ KeepScheduling \in BOOLEAN
    /\ KeepSchedulingTimeout \in Nat
    /\ PreemptionEnabled \in BOOLEAN
    /\ Resubmission \in BOOLEAN
    /\ Faults \subseteq {"submitter", "plugin", "writer", "cancel"}
\* Resource predicates compare sums of requests with the capacity of the node:
\* an empty node is not over its capacity, and fewer pods fit where more do.
ASSUME FitsAssumption ==
    \A n \in Nodes : /\ Fits(n, {}) \in BOOLEAN /\ Fits(n, {})
                     /\ \A S \in SUBSET Pods : Fits(n, S) \in BOOLEAN
                     /\ \A S \in SUBSET Pods : \A T \in SUBSET S : Fits(n, S) => Fits(n, T)

VARIABLES
    pc, result,             \* where Run is, and what it returned
    clock, preMetricsClock, submitterAddedEver,
    submitters,             \* the registered submitters
    todo, current,          \* those submit has to call yet, and the one it serves
    pending,                \* pendingPods
    failQueue,              \* pods that failed in this scheduling pass
    info,                   \* nodeInfoMap: the pods the scheduler sees on a node
    events,                 \* the scheduler's events, not yet applied
    nodePods,               \* node.pods, of each node
    boundPods,              \* the pod last bound under a key, or NoPod
    status, boundAt, deletedAt, host,   \* the simulated pod of each manifest
    submitted, discarded    \* history: pods that entered the queue, and those of
                            \* them that were deleted or replaced in it

loopVars == <<clock, preMetricsClock, submitterAddedEver>>
submitVars == <<submitters, todo, current>>
queueVars == <<pending, submitted, discarded>>
schedVars == <<failQueue, info, events>>
podVars == <<nodePods, boundPods, status, boundAt, deletedAt, host>>
vars == <<pc, result, loopVars, submitVars, queueVars, schedVars, podVars>>

BindEvents == [kind : {"bind"}, pod : Pods, node : Nodes]
\* The DeleteEvents of one preemption: they are adjacent and commute.
DeleteEvents == [kind : {"delete"}, keys : SUBSET Keys]
Events == BindEvents \cup DeleteEvents

-----------------------------------------------------------------------------
(* The life of a pod (pod.go): status None before it is bound.             *)

IsRunning(p, c) == status[p] = "Ok" /\ c - boundAt[p] < Duration[p]
IsTerminated(p, c) == status[p] = "Ok" /\ c - boundAt[p] >= Duration[p]
IsDeleted(p, c) == status[p] = "Deleted" /\ c - deletedAt[p] >= Grace[p]
IsTerminating(p, c) == status[p] = "Deleted" /\ ~IsDeleted(p, c)

\* The pod takes part in the node's totals.
Active(p, c) == IsRunning(p, c) \/ IsTerminating(p, c)
ActiveOn(n) == {p \in nodePods[n] : Active(p, clock)}

\* Mutant: a second Delete starts the grace period anew.
DeletableAgain(p) == status[p] # "None" /\ ~IsTerminated(p, clock)

\* Delete has an effect on the pod.
Deletable(p) == status[p] = "Ok" /\ ~IsTerminated(p, clock)

\* deletePodFromNode for each of the keys: the pod in boundPods, then the pod
\* that its node has under the key.
Targets(keys) ==
    LET bound == {boundPods[k] : k \in keys} \ {NoPod}
    IN  bound \cup UNION {{q \in nodePods[host[p]] : KeyOf[q] = KeyOf[p]} : p \in bound}

DeletePodsFromNode(keys) ==
    LET D == {p \in Targets(keys) : Deletable(p)} IN
    /\ status' = [p \in Pods |-> IF p \in D THEN "Deleted" ELSE status[p]]
    /\ deletedAt' = [p \in Pods |-> IF p \in D THEN clock ELSE deletedAt[p]]
    /\ UNCHANGED <<nodePods, boundPods, boundAt, host>>

-----------------------------------------------------------------------------
(* Run                                                                     *)

Init ==
    /\ pc = "loop" /\ result = "none"
    /\ clock = 0 /\ preMetricsClock = 0
    /\ submitters \in SUBSET Submitters
    /\ submitterAddedEver = (submitters # {})
    /\ todo = {} /\ current = NoSubmitter
    /\ pending = NewFIFOQueue /\ failQueue = NewFIFOQueue
    /\ info = [n \in Nodes |-> {}] /\ events = << >>
    /\ nodePods = [n \in Nodes |-> {}]
    /\ boundPods = [k \in Keys |-> NoPod]
    /\ status = [p \in Pods |-> "None"]
    /\ boundAt = [p \in Pods |-> 0] /\ deletedAt = [p \in Pods |-> 0]
    /\ host = [p \in Pods |-> NoNode]
    /\ submitted = {} /\ discarded = {}

Return(r) == pc' = "returned" /\ result' = r
Goto(label) == pc' = label /\ UNCHANGED result

\* Mutant: pods in their grace period are forgotten.
toTerminateEarly ==
    /\ IsEmpty(pending)
    /\ \A n \in Nodes : \A p \in nodePods[n] : ~IsRunning(p, clock)
    /\ submitterAddedEver /\ submitters = {}

toTerminate ==
    /\ IsEmpty(pending)
    /\ \A n \in Nodes : ActiveOn(n) = {}
    /\ submitterAddedEver /\ submitters = {}

\* The head of the loop.  toTerminate calls Front.
Loop ==
    /\ pc = "loop"
    /\ pending' = Front(pending)
    /\ \/ /\ toTerminate \/ EndClock < clock
          /\ Return("nil")
          /\ UNCHANGED <<todo, submitterAddedEver>>
       \/ /\ ~(toTerminate \/ EndClock < clock)
          /\ "cancel" \in Faults
          /\ Return("ctx.Err")
          /\ submitterAddedEver' = (submitterAddedEver \/ submitters # {})
          /\ UNCHANGED todo
       \/ /\ ~(toTerminate \/ EndClock < clock)
          /\ Goto("submit")
          /\ todo' = submitters
          /\ submitterAddedEver' = (submitterAddedEver \/ submitters # {})
    /\ UNCHANGED <<clock, preMetricsClock, submitters, current, submitted,
                   discarded, schedVars, podVars>>

-----------------------------------------------------------------------------
(* submit: the map of submitters is visited in any order; a submitter      *)
(* returns a list of events, which are applied one by one.                 *)

CallSubmitter(s) ==
    /\ pc = "submit" /\ current = NoSubmitter
    /\ s \in todo
    /\ todo' = todo \ {s}
    /\ \/ current' = s /\ UNCHANGED <<pc, result>>
       \/ /\ "submitter" \in Faults
          /\ Return("nil")          \* Run returns its own err, which is nil
          /\ UNCHANGED current
    /\ UNCHANGED <<loopVars, submitters, queueVars, schedVars, podVars>>

Serving == pc = "submit" /\ current # NoSubmitter

\* The pod that a write of the map entry of p drops from the queue.
Replaced(p) == {pending.pods[KeyOf[p]]} \ {NoPod}

\* A new pod; its name is new too unless Resubmission.
SubmitEvent(p) ==
    /\ Serving
    /\ p \notin submitted
    /\ Resubmission \/ \A q \in submitted : KeyOf[q] # KeyOf[p]
    /\ \/ /\ KeyOf[p] = NoKey       \* an invalid name
          /\ "submitter" \in Faults
          /\ Return("nil")
          /\ UNCHANGED queueVars
       \/ /\ KeyOf[p] # NoKey
          /\ pending' = Push(pending, p)
          /\ submitted' = submitted \cup {p}
          /\ discarded' = discarded \cup Replaced(p)
          /\ UNCHANGED <<pc, result>>
    /\ UNCHANGED <<loopVars, submitVars, schedVars, podVars>>

DeleteEvent(k) ==
    /\ Serving
    /\ \/ /\ Has(pending, k)
          /\ pending' = Delete(pending, k)
          /\ discarded' = discarded \cup {pending.pods[k]}
          /\ UNCHANGED <<submitted, podVars>>
       \/ /\ ~Has(pending, k)
          /\ DeletePodsFromNode({k})
          /\ UNCHANGED queueVars
    /\ UNCHANGED <<pc, result, loopVars, submitVars, schedVars>>

UpdateEvent(k, p) ==
    /\ Serving
    /\ p \notin submitted
    /\ \/ /\ KeyOf[p] # k           \* an invalid or a different name
          /\ "submitter" \in Faults
          /\ Return("nil")
          /\ UNCHANGED queueVars
       \/ /\ KeyOf[p] = k
          /\ Has(pending, k)
          /\ pending' = Update(pending, p)
          /\ submitted' = submitted \cup {p}
          /\ discarded' = discarded \cup Replaced(p)
          /\ UNCHANGED <<pc, result>>
       \/ /\ KeyOf[p] = k           \* only a warning
          /\ ~Has(pending, k)
          /\ UNCHANGED <<pc, result, queueVars>>
    /\ UNCHANGED <<loopVars, submitVars, schedVars, podVars>>

\* The submitter is removed; the rest of its list is still applied.
TerminateSubmitterEvent ==
    /\ Serving
    /\ submitters' = submitters \ {current}
    /\ UNCHANGED <<pc, result, loopVars, todo, current, queueVars, schedVars, podVars>>

EndOfEvents ==
    /\ Serving
    /\ current' = NoSubmitter
    /\ UNCHANGED <<pc, result, loopVars, submitters, todo, queueVars, schedVars, podVars>>

-----------------------------------------------------------------------------
(* schedule: the NodeInfo of each node, the scheduler's pass, its events.  *)

\* Mutant: a pod in its grace period no longer counts.
RunningOn(n) == {p \in nodePods[n] : IsRunning(p, clock)}

NodeInfo(n) == ActiveOn(n)

StartSchedule ==
    /\ pc = "submit" /\ current = NoSubmitter /\ todo = {}
    /\ info' = [n \in Nodes |-> NodeInfo(n)]
    /\ events' = << >>
    /\ Goto("schedule")
    /\ UNCHANGED <<loopVars, submitVars, queueVars, failQueue, podVars>>

Trying == pc = "schedule" /\ ~IsEmpty(pending)

\* Mutant: the pod is not popped.
ScheduleOneNoPop(n) ==
    /\ Trying
    /\ Fits(n, info[n] \cup {FrontPod(pending)})
    /\ info' = [info EXCEPT ![n] = @ \cup {FrontPod(pending)}]
    /\ events' = Append(events, [kind |-> "bind", pod |-> FrontPod(pending), node |-> n])
    /\ pending' = Front(pending)
    /\ UNCHANGED <<pc, result, loopVars, submitVars, submitted, discarded,
                   failQueue, podVars>>

\* scheduleOne finds a node for the pod at the front; any of those that pass the
\* predicates may have the highest score.
ScheduleOne(n) ==
    /\ Trying
    /\ LET p == FrontPod(pending) IN
       /\ Fits(n, info[n] \cup {p})
       /\ info' = [info EXCEPT ![n] = @ \cup {p}]
       /\ events' = Append(events, [kind |-> "bind", pod |-> p, node |-> n])
    /\ pending' = Pop(pending)
    /\ UNCHANGED <<pc, result, loopVars, submitVars, submitted, discarded,
                   failQueue, podVars>>

\* No node passes the predicates, or extenders refuse those that do.
FitError == \/ FrontPod(pending) \in Refusable
            \/ \A n \in Nodes : ~Fits(n, info[n] \cup {FrontPod(pending)})
PluginError == "plugin" \in Faults

\* Mutants: a pod that failed is dropped; it is queued again at once.
ScheduleNever ==
    /\ Trying
    /\ KeepScheduling
    /\ FitError \/ PluginError
    /\ pending' = Pop(pending)
    /\ UNCHANGED <<pc, result, loopVars, submitVars, submitted, discarded, schedVars, podVars>>
ScheduleAtOnce ==
    /\ Trying
    /\ KeepScheduling
    /\ FitError \/ PluginError
    /\ pending' = Push(Pop(pending), FrontPod(pending))
    /\ UNCHANGED <<pc, result, loopVars, submitVars, submitted, discarded, schedVars, podVars>>

\* A pod that failed is set aside, unless too many did.
ScheduleLater ==
    /\ Trying
    /\ KeepScheduling
    /\ FitError \/ PluginError
    /\ failQueue' = Push(failQueue, FrontPod(pending))
    /\ pending' = Pop(pending)
    /\ Goto(IF QLen(failQueue') > KeepSchedulingTimeout THEN "resubmit" ELSE "schedule")
    /\ UNCHANGED <<loopVars, submitVars, submitted, discarded, info, events, podVars>>

\* The victims of a preemption on node n: pods of lower priority, without which
\* the pod fits.  Which of them could be spared is in Preemption.
Victims(n, V) ==
    LET p == FrontPod(pending) IN
    /\ V \subseteq {q \in info[n] : Priority[q] < Priority[p]}
    /\ Fits(n, (info[n] \ V) \cup {p})

\* The events of preempt: the victims on a node that findPreemption may pick.
\* It may find none where there are some, as it counts pods without a UID twice.
\* (That it may also end the program is in Preemption.)
preempt ==
    \/ /\ PreemptionEnabled
       /\ \E n \in Nodes : \E V \in SUBSET info[n] :
             /\ Victims(n, V)
             /\ events' = Append(events, [kind |-> "delete", keys |-> {KeyOf[q] : q \in V}])
    \/ UNCHANGED events

\* Mutant: the pod goes to the end of the queue.
ScheduleSkip ==
    /\ Trying
    /\ ~KeepScheduling
    /\ FitError
    /\ pending' = Push(Pop(pending), FrontPod(pending))
    /\ Goto("apply")
    /\ UNCHANGED <<loopVars, submitVars, submitted, discarded, schedVars, podVars>>

\* The pod stays at the front; the pass ends, with the deletion of the victims
\* if preemption is enabled and a node is found.
SchedulePreempt ==
    /\ Trying
    /\ ~KeepScheduling
    /\ FitError
    /\ pending' = Front(pending)
    /\ preempt
    /\ Goto("apply")
    /\ UNCHANGED <<loopVars, submitVars, submitted, discarded, failQueue, info, podVars>>

\* Another error: the events decided so far are dropped with it.
ScheduleError ==
    /\ Trying
    /\ ~KeepScheduling
    /\ PluginError
    /\ pending' = Front(pending)
    /\ events' = << >>
    /\ Goto("apply")
    /\ UNCHANGED <<loopVars, submitVars, submitted, discarded, failQueue, info, podVars>>

QueueExhausted ==
    /\ pc = "schedule" /\ IsEmpty(pending)
    /\ pending' = Front(pending)
    /\ Goto(IF KeepScheduling THEN "resubmit" ELSE "apply")
    /\ UNCHANGED <<loopVars, submitVars, submitted, discarded, schedVars, podVars>>

\* Mutant: they go back to its head.
ResubmitAtHead ==
    /\ pc = "resubmit"
    /\ failQueue' = Pop(failQueue)
    /\ \/ /\ ~IsEmpty(failQueue)
          /\ pending' = PushAtHead(pending, FrontPod(failQueue))
          /\ UNCHANGED <<pc, result>>
       \/ /\ IsEmpty(failQueue)
          /\ Goto("apply")
          /\ UNCHANGED pending
    /\ UNCHANGED <<loopVars, submitVars, submitted, discarded, info, events, podVars>>

\* The pods that failed go back to the end of the queue.
Resubmit ==
    /\ pc = "resubmit"
    /\ failQueue' = Pop(failQueue)
    /\ \/ /\ ~IsEmpty(failQueue)
          /\ pending' = Push(pending, FrontPod(failQueue))
          /\ UNCHANGED <<pc, result>>
       \/ /\ IsEmpty(failQueue)
          /\ Goto("apply")
          /\ UNCHANGED pending
    /\ UNCHANGED <<loopVars, submitVars, submitted, discarded, info, events, podVars>>

-----------------------------------------------------------------------------
(* The events of the scheduler are applied in order.                       *)

\* node.BindPod, which takes the pod whatever the capacity left, and boundPods.
BindPod(n, p) ==
    /\ nodePods' = [nodePods EXCEPT ![n] = {q \in @ : KeyOf[q] # KeyOf[p]} \cup {p}]
    /\ boundPods' = [boundPods EXCEPT ![KeyOf[p]] = p]
    /\ status' = [status EXCEPT ![p] = "Ok"]
    /\ boundAt' = [boundAt EXCEPT ![p] = clock]
    /\ host' = [host EXCEPT ![p] = n]
    /\ UNCHANGED deletedAt

ApplyEvent ==
    /\ pc = "apply" /\ events # << >>
    /\ events' = Tail(events)
    /\ LET e == Head(events) IN
       \/ /\ e.kind = "bind"
          /\ e.pod \notin Broken
          /\ BindPod(e.node, e.pod)
          /\ UNCHANGED <<pc, result>>
       \/ /\ e.kind = "bind"
          /\ e.pod \in Broken
          /\ Return("nil")          \* NewPod failed, and so did schedule
          /\ UNCHANGED podVars
       \/ /\ e.kind = "delete"
          /\ DeletePodsFromNode(e.keys)
          /\ UNCHANGED <<pc, result>>
    /\ UNCHANGED <<loopVars, submitVars, queueVars, failQueue, info>>

EventsApplied ==
    /\ pc = "apply" /\ events = << >>
    /\ Goto("metrics")
    /\ UNCHANGED <<loopVars, submitVars, queueVars, schedVars, podVars>>

-----------------------------------------------------------------------------
(* Metrics, garbage collection and the next tick.                          *)

\* Mutant: pods in their grace period are collected too.
CollectedEarly(p) == IsTerminated(p, clock) \/ status[p] = "Deleted"

Collected(p) == IsTerminated(p, clock) \/ IsDeleted(p, clock)

gcTerminatedPodsInNodes ==
    nodePods' = [n \in Nodes |-> {p \in nodePods[n] : ~Collected(p)}]

\* Mutant: the clock runs backwards.
ClockBack == clock - Tick

NextClock == clock + Tick

EndOfTick ==
    /\ pc = "metrics"
    /\ \/ /\ clock - preMetricsClock >= MetricsTick
          /\ preMetricsClock' = clock
          /\ \/ /\ "writer" \in Faults
                /\ Return("err")
                /\ UNCHANGED <<clock, nodePods>>
             \/ /\ gcTerminatedPodsInNodes
                /\ clock' = NextClock
                /\ Goto("loop")
       \/ /\ clock - preMetricsClock < MetricsTick
          /\ clock' = NextClock
          /\ Goto("loop")
          /\ UNCHANGED <<preMetricsClock, nodePods>>
    /\ UNCHANGED <<submitterAddedEver, submitVars, queueVars, schedVars, boundPods,
                   status, boundAt, deletedAt, host>>

-----------------------------------------------------------------------------
Next ==
    \/ Loop
    \/ \E s \in Submitters : CallSubmitter(s)
    \/ \E p \in Pods : SubmitEvent(p)
    \/ \E k \in Keys : DeleteEvent(k)
    \/ \E k \in Keys, p \in Pods : UpdateEvent(k, p)
    \/ TerminateSubmitterEvent
    \/ EndOfEvents
    \/ StartSchedule
    \/ \E n \in Nodes : ScheduleOne(n)
    \/ ScheduleLater
    \/ SchedulePreempt
    \/ ScheduleError
    \/ QueueExhausted
    \/ Resubmit
    \/ ApplyEvent
    \/ EventsApplied
    \/ EndOfTick

\* The loop never blocks (submitters and schedulers "must never block"), and a
\* submitter's list of events is finite.
Fairness == WF_vars(Next)

Spec == Init /\ [][Next]_vars /\ Fairness


-----------------------------------------------------------------------------
(* Properties                                                              *)

Statuses == {"None", "Ok", "Deleted"}

\* Types of the state of KubeSim (kubesim.go:46), of the scheduler and of pods.
TypeOK ==
    /\ pc \in {"loop", "submit", "schedule", "resubmit", "apply", "metrics", "returned"}
    /\ result \in {"none", "nil", "ctx.Err", "err"}
    /\ clock \in Nat /\ preMetricsClock \in Nat
    /\ submitterAddedEver \in BOOLEAN
    /\ submitters \in SUBSET Submitters
    /\ todo \in SUBSET Submitters
    /\ current \in Submitters \cup {NoSubmitter}
    /\ pending \in FIFOQueues
    /\ failQueue \in FIFOQueues
    /\ info \in [Nodes -> SUBSET Pods]
    /\ events \in Seq(Events)
    /\ nodePods \in [Nodes -> SUBSET Pods]
    /\ boundPods \in [Keys -> Pods \cup {NoPod}]
    /\ status \in [Pods -> Statuses]
    /\ boundAt \in [Pods -> Nat]
    /\ deletedAt \in [Pods -> Nat]
    /\ host \in [Pods -> Nodes \cup {NoNode}]
    /\ submitted \in SUBSET Pods
    /\ discarded \in SUBSET Pods

\* The pods on a node never exceed what the predicates accept together, at any
\* point of any tick: the scheduler decides on a copy of the node's pods taken at
\* the start of the pass (kubesim.go:424), binds happen later, in the order of
\* the events, and BindPod itself no longer refuses a pod (node.go:102); a
\* preempted or deleted pod keeps its resources until its grace period ends.
NoOverCommit == \A n \in Nodes : Fits(n, ActiveOn(n))

\* The pods of a queue, and those of the bind events not yet applied.
Queued(f) == {f.pods[k] : k \in Keys} \ {NoPod}
BindIndices(p) == {i \in 1..Len(events) : events[i].kind = "bind" /\ events[i].pod = p}
Deciding == {p \in Pods : BindIndices(p) # {}}
Bound == {p \in Pods : status[p] # "None"}

\* No pod is dropped by the moves between pendingPods, failQueue, the events and
\* the nodes (generic_scheduler.go:116, generic_scheduler.go:181, kubesim.go:440):
\* until Run returns, every pod that entered the queue is pending, set aside,
\* about to be bound or bound, or it was deleted or replaced while pending.
NoPodLost ==
    pc # "returned" =>
        submitted \subseteq Queued(pending) \cup Queued(failQueue) \cup Deciding
                              \cup Bound \cup discarded

\* No pod is scheduled twice by those moves: a pod is in at most one of these
\* places, and in at most one bind event.
NoPodTwice ==
    /\ Queued(pending) \cap (Queued(failQueue) \cup Deciding \cup Bound \cup discarded) = {}
    /\ Queued(failQueue) \cap (Deciding \cup Bound \cup discarded) = {}
    /\ Deciding \cap (Bound \cup discarded) = {}
    /\ Bound \cap discarded = {}
    /\ \A p \in Pods : \A i, j \in BindIndices(p) : i = j

LifeGoesOn(p) ==
    /\ status[p] # "None" => /\ status'[p] # "None"
                             /\ boundAt'[p] = boundAt[p]
                             /\ host'[p] = host[p]
    /\ status[p] = "Deleted" => /\ status'[p] = "Deleted"
                                /\ deletedAt'[p] = deletedAt[p]
    /\ IsTerminated(p, clock) => status'[p] = "Ok"

\* The life of a pod goes one way (pod.go:319 to pod.go:358): once started it is
\* never restarted or moved, and once it is terminating the start of its grace
\* period never moves, although deletePodFromNode and preemption may ask again.
LifeIsOneWay == [][\A p \in Pods : LifeGoesOn(p)]_vars

\* A pod of the same name was bound to the node of p after it.
Displaced(p) ==
    \E r \in Bound \ {p} : KeyOf[r] = KeyOf[p] /\ host[r] = host[p] /\ boundAt[r] >= boundAt[p]

\* A pod that is running or in its grace period is on the node it was bound to
\* and is the one deletePodFromNode finds under its key (kubesim.go:485), so
\* garbage collection (node.go:158) removes no live pod and every live pod can be
\* deleted; unless a pod of the same name was bound later, which takes its place
\* in boundPods (kubesim.go:458), and on the node if one was bound to the same.
LivePodsReachable ==
    \A p \in Pods : Active(p, clock) =>
        \/ /\ host[p] \in Nodes
           /\ p \in nodePods[host[p]]
           /\ boundPods[KeyOf[p]] = p
        \/ /\ Resubmission
           /\ LET q == boundPods[KeyOf[p]] IN q \notin {NoPod, p} /\ boundAt[q] >= boundAt[p]
           /\ p \notin nodePods[host[p]] => Displaced(p)

\* "This method blocks until ctx is done or this KubeSim finishes processing all
\* pods" (kubesim.go:154): when Run returns nil before the end clock, each pod
\* ever submitted was deleted, or was bound and has come to its end.
AllPodsProcessed ==
    result = "nil" /\ clock <= EndClock =>
        \A p \in submitted \ discarded : status[p] # "None" /\ ~Active(p, clock)

\* Run returns: the end clock is reached if nothing else stops the loop.
RunReturns == <>(pc = "returned")

=============================================================================
