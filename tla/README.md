# k8s-cluster-simulator: a TLA+ model

A specification of the simulator in `pkg/`: TLA+ modules, TLC configurations
that check them on small instances, and TLAPS proofs for every instance. Source
positions are relative to the repository.

## 1. The system

The simulator replays the life of pods on a cluster of simulated nodes. It is a
library: the user supplies submitters, predicates, prioritizers and extenders.

| component | state | operations | interacts with |
|---|---|---|---|
| main loop (`kubesim.go`) | clock, submitters, pending queue, nodes, `boundPods` | `Run`, `submit`, `schedule`, `deletePodFromNode`, garbage collection, termination test | everything; calls submitters and the scheduler, both callbacks of the user |
| FIFO queue (`queue/fifo.go`) | a map from keys to pods and a slice of keys | `Push`, `Pop`, `Front`, `Delete`, `Update`, `Len` | main loop, scheduler; also the scheduler's fail queue |
| priority queue (`queue/priority_queue.go`) | a heap of keys, items with their heap index, nominations | the same, `Reorder`, the nomination methods | main loop, scheduler, preemption |
| generic scheduler (`scheduler/generic_scheduler.go`) | fail queue, copies of the nodes for one pass | `Schedule`, `scheduleOne`, `filter`, `prioritize`, `preempt` | queue, node copies, extenders, plug-ins |
| preemption (`scheduler/generic_scheduler_k8s.go`) | none | choice of a node and of victims | nominations of the queue |
| extender (`scheduler/extender.go`), plug-ins (`scheduler/plugin.go`) | none | `filter`, `prioritize` | scheduler |
| proposed scheduler (`scheduler/proposed_scheduler.go`, `scheduler.go`) | over-subscription factors of the nodes, prediction penalty, cache of estimated usage | a variant of `Schedule`, `Estimate` | metrics of the last tick |
| node (`node/node.go`) | pods under their keys | `BindPod`, `DeletePod`, `GCTerminatedPods`, `ToNodeInfo`, `Metrics` | pods |
| pod (`pod/pod.go`, `pod/spec.go`) | status, time of binding and deletion, the phases loaded | `NewPod`, `ResourceUsage`, `Delete`, the tests of its life | clock, files of phases |
| metrics (`metrics/metrics.go`) | none | `BuildMetrics`, `allocate` | nodes, pods, queue; goroutines |
| submitter events (`submitter/submitter.go`) | - | submit, delete, update, terminate | main loop |
| experiments (`experiments/`) | files of a workload, number of pods submitted | conversion of a trace, generation and loading of pods | submitter events, metrics of the last tick |
| writers, formatters, configuration, logging, clock, utilities | - | I/O and conversions | - |

The loop is a single thread (only `BuildMetrics` starts goroutines, and waits
for them). The difficulty is in the order of effects: the scheduler decides on
copies and its events are applied after the pass; pods move between four places
(pending queue, fail queue, events, nodes) with errors possible at each move;
submitters delete, update and resubmit pods in every stage; a deleted pod keeps
its resources for a grace period that several parties may ask for; garbage
collection happens at another rate than the clock; the queue holds stale keys;
the phases of a pod are forgotten and loaded while it runs. What each of these
can break is in the list of hazards of `PROJECT.json`.

What makes each component correct:

- queues: no pod is stranded or returned twice, the order is the promised one,
  `Pop` takes the pod that `Front` showed, nominations are consistent;
- scheduler and loop: no pod is lost, scheduled twice or starved; no node is over
  its capacity; the loop ends, and only when all pods have come to their end;
- nodes and pods: a pod lives once, its grace period is fixed by its first
  deletion, garbage collection removes no live pod, and the usage and the end of
  a pod do not depend on which of its phases are loaded;
- preemption: what it frees is for the pod it was freed for, it evicts no more
  than it needs, at the least cost, and not again while it waits;
- extenders and scores: the node selected is one that all accept, with the
  highest total;
- proposed scheduler: over-subscription is bounded and earned by unused requests;
- metrics: what is allocated on a node does not exceed its capacity or a pod's
  usage, guarantees are kept, and the sums do not depend on the order of the
  goroutines;
- experiments: the workload that is simulated is the one that was generated or
  converted, and its usage is that of the trace.

## 2. Modules

| module | models |
|---|---|
| `FIFO` | the FIFO queue's value and its methods, as operators |
| `FIFOQueue` | the FIFO queue under any sequence of calls, with their results |
| `PodQueue` | the interface `queue.PodQueue`: abstract specification |
| `PriorityQueue` | the priority queue: heap, positions of the items, nominations |
| `Preemption` | extends `PriorityQueue`: the generic scheduler's preemption on it, with nodes, victims, grace periods and submitters |
| `KubeSim` | the main loop with scheduler, nodes and pods; uses the operators of `FIFO` for the pending queue and the fail queue |
| `ProposedScheduler` | the proposed scheduler's factors and pass; filtering, extenders, scores and the selection of a node, as in both schedulers; uses `FIFO` |
| `Metrics` | `BuildMetrics` with its goroutines, and `Estimate` |
| `SimPod` | one pod: its phases, their trimming and loading |
| `Clock` | the tick, shared by `SimPod` and `Workload` |
| `Workload` | the experiments' conversion, generation and loading of pods |
| `FIFOOrder`, `KubeSimOrder`, `KubeSimWaits`, `ProposedStreaks` | these modules with history variables, for properties about many steps: order of arrival, order of submission, passes waited, ticks without use |
| `SumProofs` | lemmas that several proofs use: induction on numbers, sums over finite sets |
| `FIFOProofs`, `FIFOQueueProofs` | lemmas on the operators of `FIFO`; invariants, order and refinement of the queue |
| `PreemptionProofs` | the heap and its refinement of `PodQueue`; preemption on it |
| `KubeSimProofs`, `MetricsProofs`, `ProposedProofs` | types and safety properties of these modules, with their histories |
| `WorkloadProofs` | safety properties of `SimPod` and `Workload`, and of the two together |
| `MCFIFOQueue`, `MCPriorityQueue`, `MCPreemption`, `MCKubeSim`, `MCKubeSimStrict`, `MCProposed`, `MCMetrics`, `MCSimPod`, `MCWorkload` | instances for TLC |

Definitions called "mutant" in a comment are deliberately wrong variants of the
definition after them; they are used by no specification. They show, by
substitution, that the property they are paired with in `PROJECT.json` can fail.

### FIFO, FIFOQueue, PodQueue

A pod in TLA+ is a manifest (a `v1.Pod` object); `KeyOf` gives its
"namespace/name", or `NoKey` where `util.PodKey` fails. `FIFO` is the pair of the
map `pods` and the slice `queue`; `DropStale` is the loop by which `Pop` and
`Front` skip keys that `Delete` left in the slice. `FIFOQueue` adds the result of
the last call, so that the interface can be stated over it. `FIFOOrder` adds two
history variables: `ahead`, the pods that were pending when a pod was pushed and
still are, and `requeued`, the keys pushed while the slice held them. `PodQueue` knows
only the pending pods: `Pop` and `Front` take some pending pod, the one of a
preceding `Front` if nothing came between.

### PriorityQueue

`inner` is `rawPriorityQueue`: `items` with the position of each, the heap
`keys`, and the comparator. The operations of `container/heap` (not in the
repository) are modelled swap by swap, because `Delete` and `Update` rely on the
positions that `Swap` maintains; a loop is a recursive function of the number of
its rounds. `NominatedNodeName` and `time`
are fields of the manifests, shared with the scheduler; who writes them is in
`Preemption`. `Calls` says which methods callers use beside `Push`, `Pop` and
`Front` ("again": a name is pushed while it is pending). `Reorder` is not
modelled.

### Preemption

One pass of the generic scheduler without `KeepScheduling`, with the priority
queue. A decision and the application of its event are one action, since the
events of a pass are applied at the same clock and nothing reads the nodes in
between (`KubeSim` has the steps apart).

| action | code |
|---|---|
| `Submit`, `UpdateEvent`, `DeleteEvent` | the events of `submit`, with `Push`, `Update`, `Delete` of the queue |
| `ScheduleOne` | a pod that fits is popped, loses its nomination, and is bound |
| `Preempt` | `updatePodStatusSchedulingFailure`, then `findPreemption` and `preempt` |
| `PreemptPanics` | the same, up to the index out of range in `pickOneNodeForPreemption` |
| `StartPass`, `QueueExhausted` | the beginning of a pass, and its end with the clock |

`filter` runs the predicates and then the extenders. Extenders that refuse a node
leave `ScheduleOne` its choice among the others; of the pods in `Refusable` they
may refuse all nodes, so that there is a `FitError` although nodes pass the
predicates. Such a node is still a potential one, all its pods are reprieved, and
it is a candidate without victims. With one candidate the pod is nominated for it;
with several, `victims.Pods[0]` does not exist and the program ends (`pc` is
"panicked").

`podFitsOnNode` runs the predicates with and without the nominated pods;
`SelectVictims` is the greedy reprieve, in any order the unstable sort may give;
`pickOneNodeForPreemption` is the ranking by highest priority, sum and number of
victims (start times are not compared in the code). A NodeInfo is the sum of its
requests, and keeps the code's dependence on UIDs: only `SubmitEvent` sets one,
to the pod's name, so `RemovePod` does not find a manifest that came with an
update (`Replacements`); names are not empty (`UidAssumption`). A `SubmitEvent`
sets the creation time as well, so that it is empty for the manifests of updates
(0; the clock starts at 1). Submitters choose a name that no pod had before. Predicates are one on resources and one that does not depend
on pods (`Allowed`); those between pods are not modelled. `replaced`,
`victimsOf` and `intruded` are history variables. A pass that starts is one with
pods placed by earlier passes (`Placements`).

### KubeSim

`pc` is the point the loop has reached; one action is one step between two
points at which the state of the simulator is of interest:

| actions | code |
|---|---|
| `Loop` | head of the loop in `Run`: `toTerminate`, end clock, context |
| `CallSubmitter`, `SubmitEvent`, `DeleteEvent`, `UpdateEvent`, `TerminateSubmitterEvent`, `EndOfEvents` | `submit`, one submitter and one event at a time |
| `StartSchedule` | the copies of the nodes at the start of `schedule` |
| `ScheduleOne`, `ScheduleLater`, `SchedulePreempt`, `ScheduleError`, `QueueExhausted`, `Resubmit` | the branches of `GenericScheduler.Schedule` |
| `ApplyEvent`, `EventsApplied` | the events applied by `schedule` |
| `EndOfTick` | metrics, garbage collection and the clock |

Submitters, predicates, prioritizers, extenders and metrics writers belong to the
user: their answers are chosen freely, and `Faults` says which may fail. The
resource predicates are the constant operator `Fits`, of which `FitsAssumption`
asks what resource predicates have: an empty node fits, and fewer pods fit where
more do. A preemption may choose any set of victims of lower priority on one
node: a superset of what `Preemption` shows the code to choose, so the safety
properties hold for it. The pods in `Refusable` are those of which extenders may
refuse all nodes, as in `Preemption`; the end of the program that this may lead to
is modelled there. With the FIFO queue no nomination is kept, so
nominations play no part here.
`submitted` and `discarded` are history variables. A pod's phases are reduced to
their total `Duration`; `SimPod` shows when this is right. `KubeSimOrder` adds
the names in the order of their submission (`arrived`); `KubeSimWaits` adds the pods tried
in the current pass (`tried`) and the passes in a row that left a pending pod
untried (`skipped`).

### ProposedScheduler

`StartPass` is the loop over the nodes at `proposed_scheduler.go:83`: the factor
of a node grows by a tenth, up to 2.0, while its pods request more than nine
tenths of it and use less, and goes back to 1.0 otherwise. `Filter`,
`ExtenderFilter` and `Prioritize`, `Bind` are `filter`, one extender, `prioritize`
and `selectHost` of `scheduleOne`; `FitError`, `PluginError` and `Resubmit` the
branches of the pass. `ProposedStreaks` counts, for each node, the ticks in a row
in which it was requested and not used (`streak`). Factors are in tenths, there is one resource, and victims
end like other pods: `preempt` and `findPreemption` are copies of those of the
generic scheduler. `accepted` and `score` are history variables: the nodes that
all answers leave, and the totals of the answers.

### Metrics

Each node has a goroutine with its program counter and locals (`pc`, `res`,
`todo`, `cur`, `record`, `c`, `d`); a critical section of a mutex is one action,
so that `allocate` reads a pod's record (`Read`) and writes it (`WriteGuarantee`,
`WriteExtra`) in two. Integers wrap at `Word` where the code multiplies them.
For memory, `allocate` adds extras by a floating point ratio, modelled by the
quotient rounded down: rounding of floating point numbers is not modelled.
`Estimate` is rule 5 of `updatePenaltyRule` with the quality of service and the
penalty in thousandths.

### SimPod

Times are seconds after the binding (`age`, up to `EndAge`). The specification is
`PodSpec`, with names that differ from those of `Workload`, so that both can be
used together; they share the `Tick` of `Clock`. `spec`, `currentPhase`, `loadPhase` and
`path` are the fields of the struct; `file` is the complete list of phases. The
simulator reads each pod once a tick at least (`BuildMetrics`), which is what
`Advance` asks for: `read` says that it has been read at this clock.

### Workload

A first run of the program converts a trace (`Convert`, one goroutine for each
task, in any order) or generates pods while it simulates (`Generate`); a second
one loads the files (`StartLoad`, `Load`). `AddRow` is one row of
`ConvertTraceToPod`. The cluster is abstract: pods start and end at any tick. The
start timestamp of the trace is aligned with the tick, as in `run.sh`, arrivals
and the lengths and usage of rows are natural numbers, and
`demandToRequestRatio` is 1, its default; a task whose file has a malformed row
gives no file.

## 3. Runs

| run | result | shows |
|---|---|---|
| `fifo` | holds | types, `NoPodStranded`, `FirstInFirstOut`, refinement of `PodQueue` |
| `priority_queue` | holds | `KeysMatchItems`, `FrontFirst`, refinement of `PodQueue`, with six names and both comparators |
| `preemption` | holds | `HighestPriorityFirst`, `NominationsLive`, `EvictsOnOneNode`, `ReservedRoom`, `CheapestNode`, `VictimsNeeded` |
| `kubesim_keep` | holds | everything about the loop with `KeepScheduling`, failing plug-ins included |
| `kubesim_strict` | holds | `StartedInOrder`, `LifeIsOneWay`, `LivePodsReachable` without it: preemption, two submitters, reused names, manifests that do not parse, all faults |
| `kubesim_submit_error` | violated | `Run` returns nil with pods unprocessed after an error of a submitter |
| `kubesim_plugin_error` | violated | an error in a pass without `KeepScheduling` loses the pods popped in it |
| `proposed` | holds | `RequestsBounded`, `HighestScoreSelected`, `OversubEarned` in both modes |
| `extender_copies` | violated | an extender that returns nodes rather than names leaves only copies of the last one |
| `metrics` | holds | `AllocationWithinUsage`, `CapacityShared`, `GuaranteeKept`, `NoPenaltyWithoutOverload` |
| `simpod` | holds | usage and end of a pod with any phases (of files: none shorter than the tick) |
| `workload` | holds | `WorkloadReplayed`, `WithinTarget`, `UsageAsTraced` |

The properties, and why they could fail:

- `NoOverCommit`: decisions are made on copies and `BindPod` does not check.
- `NoPodLost`, `NoPodTwice`: four places and a move between each two of them.
- `LivePodsReachable`: `boundPods` and the nodes are two records of bound pods,
  and garbage collection cleans one of them. A later pod of the same name takes
  the place of an earlier one in both, which is why it is excepted (`Displaced`).
- `AllPodsProcessed`: the documented meaning of the return of `Run`.
- `BoundedWait`: a pass stops after `KeepSchedulingTimeout` failures; a pod
  waits at most as many passes as the pods ahead of it can fill, if no name is
  used again.
- `StartedInOrder`: head-of-line blocking, and updates in place.
- `LifeIsOneWay`: deletions are asked for by several parties, several times.
- `RunReturns`: the pass refills the queue it empties.
- `FirstInFirstOut` is stated for pods pushed when the slice has no copy of their
  key. It does not hold for others: a pod that is pushed again after a deletion
  of its name takes the place of the stale key.
- `HighestPriorityFirst`: `FrontFirst` does not hold once the scheduler has
  written the time of a failed attempt to a pod in the heap; priorities survive.
- `NominationsLive`: the queue and the manifests each record nominations, and
  removal starts from the manifest. An update leaves a nomination of the older
  manifest behind (`priority_queue.go:116`); such manifests are excepted, here and
  in `ReservedRoom`, so that this defect is not caught by them.
- `EvictsOnOneNode`: a pod whose victims are still terminating tries again at
  each tick.
- `ReservedRoom`: other pods are tried for the room that an eviction frees, and
  nominated pods may share a node. Pods of higher priority may take it. A pod
  without a UID takes the nominations of others without one for its own
  (`podFitsOnNode` skips pods of its UID), so nothing is kept for such pods.
- `VictimsNeeded`, `CheapestNode`: the reprieve is greedy, and the ranking reads
  the first victim of each node. On a node with a pod without a UID more may be
  evicted than needed (`generic_scheduler_k8s.go:182`), which is excepted. The
  first victim exists only because `filter` would have found a node without any:
  `VictimsNeeded` includes `PanicsOnRefusalOnly`, that for pods that extenders do
  not refuse the program does not end in the ranking.
- `RequestsBounded`, `OversubEarned`: the factor is set from metrics one tick old,
  for several binds, and is reset under pods bound by a larger one.
- `HighestScoreSelected`: the list of nodes and their scores pass through
  predicates, extenders in two forms, and sums kept by position.
- `AllocationWithinUsage` holds whatever overlaps; `CapacityShared` and
  `GuaranteeKept` are for nodes whose names are on no other node, and for
  products within 64 bits: they fail otherwise, and `Capacity * request` exceeds
  64 bits for a node of 128 GiB and a request of 64 MiB.
- `NoPenaltyWithoutOverload`: all goroutines add to two sums that the scheduler
  turns into its penalty.
- `WorkloadReplayed`: files are found by the string of a clock, in another run;
  the submitter leaves when it has counted as many pods as files.
- `WithinTarget`: the number to submit comes from metrics one tick old.
- `UsageAsTraced`: phases are merged, rows skipped and the last phase cut in one
  loop, at what the clock of the file leaves up to the end clock. (A pod that waits
  in the queue is bound, and ends, that much later.)
- `UsageOfThePhase`, `NeverUnreachable`, `RunsAllPhases`: phases are dropped and
  loaded while the pod runs.

Outside the runs: with "again" in `Calls` `KeysMatchItems` fails (neither the
queue nor `submit` tests for a pending name: submitters have to choose new
ones); with phases of files shorter than the tick `RunsAllPhases` fails, the
clock jumping over the last phase loaded; a pod that extenders refuse all nodes
it fits on ends the program (`PreemptPanics`, taken in the run `preemption`),
where a commented branch of `pickOneNodeForPreemption` says "We found a node
that doesn't need any preemption. Return it!" (`generic_scheduler_k8s.go:313`);
and with `Resubmission` in `kubesim_keep` (and timeout 0) `BoundedWait` fails.
`Delete` leaves the key of a pod in the slice (`fifo.go:79`), so that a pod
pushed later under this name takes the old place, before pods that have waited
all along.

### Bounds

- Queues: `MaxQueue` (5) bounds the slice, enough for three names with two stale
  copies. Six names in the heap are the fewest at which a deletion moves a key
  from one branch to the other, where it must rise. Two manifests of one name
  make updates and resubmissions.
- `Preemption`: two full nodes with two pods of different priority each; a pod of
  two units that must evict both, one of one unit and the same priority that
  could take the room, one of a higher priority that may, one that fits nowhere,
  and an update of a pending pod. Extenders may refuse the pod of one unit all
  nodes, which can leave it two candidates of which one or both have no victim.
  `MaxTime` (4): a grace period may end in it,
  and another may not.
- `KubeSim`: three names and an update on two nodes of two units, pods of one and
  of two units; four ticks (`EndClock`), so that pods end, are collected (every
  other tick) and outlive their deletion by a grace period longer than a tick;
  `KeepSchedulingTimeout` 1, so that a pass ends at its limit. In both passing runs
  extenders may refuse one pod all nodes. `kubesim_strict`
  has one node, where the pod of two units must evict two, and four ticks.
- `ProposedScheduler`: two nodes, two pods of their size and a small one, so that
  an over-subscribed node needs ten ticks to be earned (there is no bound on
  their number); one extender that filters and one that does not.
- `Metrics`: three pods on two nodes, one name of which may be on both; loads
  that over-use and over-request each resource, or none.
- `SimPod`: lists of up to five phases with `LOAD_PHASE_CACHE` 2, so that phases
  are loaded twice, of lengths below, equal to and above the tick (0 included
  for annotations).
- `Workload`: six tasks, of which two arrive at once, one at the end clock, one
  too late, and one whose file is malformed; two ways to thin them out; two
  running pods and five in all.

`CHECK_DEADLOCK FALSE` where the system stops: `Run` returns, metrics are built
once, the age in `SimPod` and the clock of `Preemption` are bounded, and the experiments
end. The queues and the proposed scheduler are checked for deadlock.

### Fairness

`KubeSim` has weak fairness of `Next`: a single thread that does not block
(`submitter.go` and `scheduler.go` ask their implementations never to block).
A submitter's list of events is finite: each manifest is submitted or updated
once in the model, and TLC's instances admit no endless sequence of deletions
that changes the state. Only `RunReturns` uses fairness.

## 4. Proofs

TLAPS proves, for every set of nodes, keys, pods and submitters, every `Fits` with
the assumption above and all faults (unless said otherwise):

| theorem | statement |
|---|---|
| `FIFOInvariant` | `Spec => [](TypeOK /\ NoPodStranded)` of `FIFOQueue` |
| `FIFOTypeCorrect` | `Spec => []TypeOK` |
| `FIFOFirstInFirstOut` | `HSpec => FirstInFirstOut` of `FIFOOrder` |
| `FIFOImplementsPodQueue` | `FIFOQueue` implements `PodQueue` |
| `PriorityQueueTypeCorrect` | `Spec => []TypeOK` of `PriorityQueue` without "again", for finitely many keys |
| `PriorityQueueKeysMatchItems` | `Spec => []KeysMatchItems` without "again" |
| `PriorityQueueFrontFirst` | `Spec => []FrontFirst` without "again" |
| `PriorityQueueImplementsPodQueue` | `PriorityQueue` implements `PodQueue`, without "again" |
| `PreemptionTypeCorrect` | `PSpec => []PTypeOK` of `Preemption`, for finitely many keys (and pods, as all of its theorems) |
| `PreemptionHighestPriorityFirst` | `PSpec => []HighestPriorityFirst` |
| `PreemptionNominationsLive` | `PSpec => []NominationsLive` |
| `PreemptionEvictsOnOneNode` | `PSpec => []EvictsOnOneNode` |
| `PreemptionReservedRoom` | `PSpec => []ReservedRoom` |
| `PreemptionVictimsNeeded` | `PSpec => []VictimsNeeded` |
| `PreemptionCheapestNode` | `PSpec => []CheapestNode`, for finitely many nodes |
| `PreemptionPanicsOnRefusalOnly` | `PSpec => []PanicsOnRefusalOnly` |
| `KubeSimTypeCorrect` | `Spec => []TypeOK` of `KubeSim` |
| `KubeSimNoPodTwice` | `Spec => []NoPodTwice` |
| `KubeSimNoOverCommit` | `Spec => []NoOverCommit` |
| `KubeSimLifeIsOneWay` | `Spec => LifeIsOneWay` |
| `KubeSimNoPodLost` | `Spec => []NoPodLost` if `KeepScheduling` or no plug-in fails |
| `KubeSimLivePodsReachable` | `Spec => []LivePodsReachable` |
| `KubeSimAllPodsProcessed` | `Spec => []AllPodsProcessed` if no submitter fails, every manifest parses, no name is used again, and `KeepScheduling` or no plug-in fails |
| `KubeSimStartedInOrder` | `OSpec => []StartedInOrder` of `KubeSimOrder` without `KeepScheduling` |
| `KubeSimBoundedWait` | `WSpec => []BoundedWait` of `KubeSimWaits` with `KeepScheduling`, for finitely many names (one at least), none used again |
| `MetricsTypeCorrect` | `Spec => []TypeOK` of `Metrics` |
| `MetricsAllocationWithinUsage` | `Spec => []AllocationWithinUsage` |
| `MetricsCapacityShared` | `Spec => []CapacityShared` |
| `MetricsGuaranteeKept` | `Spec => []GuaranteeKept` |
| `MetricsNoPenaltyWithoutOverload` | `Spec => []NoPenaltyWithoutOverload` with a node at least and a penalty that starts within `MaxPenalty` |
| `ProposedTypeCorrect` | `Spec => []TypeOK` of `ProposedScheduler` |
| `ProposedRequestsBounded` | `Spec => []RequestsBounded` |
| `ProposedHighestScore` | `Spec => []HighestScoreSelected` if extenders that filter are sent names |
| `ProposedOversubEarned` | `HSpec => OversubEarned` of `ProposedStreaks` |
| `WorkloadWithinTarget` | `Spec => []WithinTarget` of `Workload` |
| `WorkloadReplayedInFull` | `Spec => []WorkloadReplayed` |
| `WorkloadUsageAsTraced` | `Spec => []UsageAsTraced` |
| `PodUsageOfThePhase` | `PodSpec => []UsageOfThePhase` of `SimPod` |
| `PodNeverUnreachable` | `PodSpec => []NeverUnreachable` |
| `PodRunsAllPhases` | `PodSpec => []RunsAllPhases` if no phase of a file is shorter than the tick (`LongPhases`) |
| `WorkloadSimulatedAsTraced` | `Spec /\ PodSpec => []SimulatedAsTraced`: a pod of a converted file uses what the trace says |

The hypotheses of `KubeSimNoPodLost` and `ProposedHighestScore` are necessary:
`kubesim_plugin_error` and `extender_copies` are the counterexamples. So are those
of `KubeSimAllPodsProcessed` (`kubesim_submit_error`, `kubesim_plugin_error`; a pod
whose name is used again may run on, out of reach of the test of termination), of
`KubeSimBoundedWait` (stale keys) and of `PodRunsAllPhases` (a phase jumped over):
section 3 has their counterexamples. `~KeepScheduling` in `KubeSimStartedInOrder` is
the mode that the property is about.
"Again" means that a submitter breaks its contract (section 3). Finiteness gives
sums and cardinalities their meaning; a program has finitely many of anything.

### Queues

- `FIFOProofs` proves of each operator on a queue whose pods are all reachable
  (`Good`) that its result is such a queue and what it does to the map. With it,
  `IsEmpty` means that the map is empty, which is what the refinement needs. The
  lemmas on keys and on `Front` serve both schedulers.
- `FirstInFirstOut`: the invariant `InOrder` says that the pods ahead of a pending
  one are pending, and that the slice has them before it (`Precedes`: before each
  slot of the later key there is one of the other). One lemma for each operator says
  that it keeps this relation between keys that stay, and `FrontFirst` that nothing
  pending precedes the front. The same lemmas serve the main loop.
- The heap (`PreemptionProofs`, part 1): the invariant is that keys and items agree at every
  position (`Sound`), and that every key is ordered after its parent (`Ordered`).
  Sifting breaks the order at one place and moves the breach: the lemmas on the
  two loops state which pairs are in order in every round, for any transitive
  relation that the comparator implies (`Orders`), so that the same lemmas serve
  all comparators, and `Preemption`. That no key comes before the front follows by
  induction along the parents. A loop is a recursive function
  of the number of rounds; its runs are sets of functions on `0..n`, which exist
  by induction on `n`. The induction itself is the lemma of `SumProofs` that a set
  of numbers with 0 and the successors of its elements has all numbers: it has a
  set, not an operator, for its parameter.

### Preemption

- The inductive invariant `PInv` has the types; that the heap is ordered by *rank*
  (`HeapRanked`), which the priorities or the requests alone decide: a failed
  attempt changes the time of a pod in the heap, hence its place under the
  comparator, but not its rank; that pending pods are on no node (`Unplaced`);
  `NominationsLive`; and that a nominated pod's victims are on its node until it
  loses the nomination (`Evicted`).
- `VictimsNeeded` is about one step: the loop of the reprieve keeps the invariant
  (`Selecting`) that the pod fits with the pods kept so far, and that those it
  did not keep would not have fitted with them; the pods kept later only add. The
  list it goes through holds each candidate once, in order of priority.
- `PanicsOnRefusalOnly`: by that invariant the preemptor fits on a candidate without
  victims as it is (`NoVictimsFits`), so that its `FitError` is one of extenders;
  the panic leaves the pod at the front, and nothing happens after it.
- `CheapestNode`: with the list so sorted, the first victim is a most important
  one, and the fold that sums the priorities of a list without repetition is the
  sum over its set.
- `ReservedRoom` is the invariant of rooms: on each node, what runs there and
  what is nominated there with at least a pod's priority fit (`RoomOn`). Steps
  that add nothing to a node keep it (`Calm`); at a binding or a preemption the
  two rounds of `podFitsOnNode` are what it asks for (`FitsRoom`). It needs
  `Arrived`: each name has one manifest that is no replacement, so that the pods
  skipped for having the same UID are the pod itself.

### Main loop

- `TypeInv` adds to `TypeOK` that both queues are good, and that pods in queues
  and in bind events have a key.
- `NoPodTwice` is not inductive by itself: `Places` adds that only submitted pods
  are in any of the places, so that a new pod is in none.
- `NoOverCommit` needs what the scheduler's copies stand for (`Room`): during a
  pass the copy of a node covers the pods active on it and those of the bind
  events not yet applied, and it satisfies `Fits`. Applying an event moves a pod
  from the second to the first; deletions, ends and the clock only take away.
- `NoPodLost` needs `KeysApart` (no name is pending and set aside at once, so that
  no push overwrites a pod) and `Phases` (at which points of the loop events and
  set-aside pods may exist, so that going to the next one drops none).
- `LifeIsOneWay` follows from `NoPodTwice`: a pod that is bound is in no event.
- `LivePodsReachable` needs `Tracked`: `boundPods` has under each name the pod of
  that name that was bound last (`LastBound`), which is among the pods of its node
  while it lives, as any other live pod is unless a later one took its place
  (`OnItsNode`); without resubmissions no two submitted pods share a name.
- `AllPodsProcessed` follows from `NoPodLost` and `LivePodsReachable`: at the
  return the queue is empty and `boundPods` has no live pod, so every submitted
  pod has ended, if the result (`Returned`) is not an error.
- `StartedInOrder` needs `Ordered`: whatever is in the slice or was started has
  arrived, and while a pod waits the slice has it before those that arrived later,
  none of which is started (`InTurn`). Most steps only take away (`Quiet`);
  a push appends to both orders, and a pod that is started was at the front.
- `BoundedWait` is a potential: the number of pods before a waiting pod in the
  slice, with those tried in the current pass, plus `KeepSchedulingTimeout` + 1 for
  each pass that skipped it, never exceeds the number of other names
  (`LoadBounded`). Within a pass a pod moves from the first part to the second;
  a pass that ends with the pod untried has tried that many others, which go
  behind it and so pay for the pass. It needs that each key has one slot
  (`Slots`; names that are used again would break it) and what is set aside
  at each point of a pass (`PassState`).

### Metrics

- `AllocationWithinUsage` is not inductive, because a record is read in one
  critical section and written in another: `Inv` adds that the records held by
  goroutines are within their usage too, that a goroutine divides extras only if
  something is missing (`d > 0`), and that it reads pods of its node only. Wrapped
  products do no harm, since each part is cut at the usage.
- Sums over the pods of a node are cardinalities of sets of units (`SumProofs`),
  to which the library's theorems on finite sets apply: one pod's part changes
  the sum by as much, and parts that are each rounded down miss the whole by less
  than their number.
- `CapacityShared` and `GuaranteeKept` hold for a node whose names are on no other
  (the properties say so): only its goroutine writes its records. Their invariant
  (`NodeInv`) says, for each point of the goroutine, which of its pods have their guarantee
  and their extra yet, and how much is given, left and missing in sum.
- `NoPenaltyWithoutOverload` needs what the two sums have counted so far
  (`CountInv`): as many pods as the goroutines have passed.

### Proposed scheduler

- `RequestsBounded` needs `NodesFit` (each node left for the pod at the front fits
  it by its factor, which does not change during a pass) and `FactorsLimited`:
  the factors are between 1.0 and 2.0 but before the first pass, when nothing is
  requested, so that the first pass sets them all back to 1.0. `HighestScore`
  needs `AllLeft`: the nodes left are those accepted.
- `OversubEarned` needs `StreakInv`: after the first pass a factor is above 1.0 by
  at most one tenth for each tick of the node's streak.

### Experiments and simulated pods

- `WithinTarget`: the metrics of the tick before count the pods that ended since as
  running (`Generating`), so that the number to submit errs on the safe side.
- `WorkloadReplayed`: every file has the clock of a tick up to the end clock
  (`Loadable`), since arrivals are rounded down and the start of the trace is a
  tick; clocks that are multiples of the tick with none between them are the same
  or follow each other, so that a tick loads exactly the files that become due
  (`Loading`: what was loaded are the files before the clock, and their number is
  the count at which the submitter leaves).
- `UsageAsTraced`: the loop over the rows keeps `Agrees`: before it stops, the
  phases made so far say of each second what the rows read so far say; after, what
  they say up to the end clock. The fold and the recursive function of `Seconds`
  exist by induction on the number of rows, as the loops of the heap.
- `UsageOfThePhase` needs `PodInv`: the phases loaded are those of the file from the
  current one to the last one loaded (`Window`), the first of them with the length of
  all the forgotten ones added to its own, so that the sums up to any of them
  (`Until`) are those of the file. Trimming and loading keep this; a deletion
  freezes the time at which the phase is looked up.
- `RunsAllPhases` adds `LoadedAhead`: while phases remain to be loaded, the clock is
  before the end of those loaded, and after a reading it stays so for one more tick.
- `SimulatedAsTraced` puts the two ends together: the file has the seconds of
  the trace (`Traced`), and the simulator reads the phase of the second (`PodInv`,
  `UsageOfThePhase`).

### Only checked by TLC

`RunReturns`: liveness under fairness is out of the prover's reach. The absence of
deadlock in the queues and the proposed scheduler (`ENABLED`) is checked in their
runs. The three runs that end in a counterexample have nothing to prove.

## 5. Not modelled

- `Reorder` of the priority queue: no caller but its test. It numbers the items
  and lists the keys in the orders of two iterations of a map.
- A submitter that is registered while `Run` is under way (`AddSubmitter`): the
  submitters of `KubeSim` are there from the beginning.
- Predicates between pods (affinity) in preemption, and disruption budgets, which
  are commented out in the code.
- Rules of `Estimate` other than the fifth: `updatePenaltyRule` is a variable of
  the package that is set to 5.
- Formatters and writers of metrics, YAML, configuration, logging, flags of the
  experiments and the choice of a scheduler by its name: conversions and I/O. Two
  pods of one name in one tick overwrite each other's file (`WritePodAsJson`);
  names of the experiments are distinct.
- The extenders of `experiments/` and `example/`: particular answers that
  `ProposedScheduler` leaves open.
- The order of registration of submitters: `KubeSim` takes any order.
- `BuildStatus`, which formats the state of a pod for the API object.
- Files of phases that change during a simulation, and 32-bit sums of phase lengths
  (they wrap at 68 years, beyond any simulation).

## 6. Plan

1. `KubeSim` over the interface `PodQueue` in place of `FIFO`, with `Preemption`'s
   choice of victims as a refinement of its free choice.
2. Predicates between pods: here the choice of nodes for a nominated pod depends
   on which pods are counted, not only on how much they request.
3. Registration order of submitters against `submitter.go:29`.
