------------------------------- MODULE SimPod -------------------------------
(***************************************************************************)
(* One simulated pod (pkg/pod/pod.go) from its binding to its end.         *)
(*                                                                         *)
(* The resource usage of a pod is a list of phases, in the annotation      *)
(* simSpec, or in a file (annotation path) of which a few phases at a time *)
(* are loaded.  ResourceUsage finds the phase of the clock, forgets the  *)
(* phases before it and loads more when it is in the last one loaded.      *)
(* Times are in seconds after boundAt; a phase's usage is its position.    *)
(***************************************************************************)
EXTENDS Clock, Sequences, SequencesExt

CONSTANTS
    InlineSpecs,        \* lists of phase lengths given in annotations
    FileSpecs,          \* lists of phase lengths given in files
    LOAD_PHASE_CACHE,   \* clock.go:24
    GracePeriod,
    EndAge              \* bound on the age

ASSUME ConstantsAssumption ==
    /\ InlineSpecs \subseteq Seq(Nat)
    /\ FileSpecs \subseteq Seq(Nat)
    /\ LOAD_PHASE_CACHE \in Nat \ {0}
    /\ GracePeriod \in Nat
    /\ EndAge \in Nat

VARIABLES
    file,                               \* the phases of the manifest or the file
    spec, currentPhase, loadPhase, path,
    status, deletedAt,
    age,                                \* the clock, less boundAt
    usage,                              \* what ResourceUsage returned last
    read                                \* it was called at this clock

podVars == <<file, spec, currentPhase, loadPhase, path, status, deletedAt, age, usage, read>>

NoUsage == 0      \* an empty ResourceList
Panicked == -1    \* "Unreachable code in pod.ResourceUsage()"

Phases(lengths) == [i \in DOMAIN lengths |-> [seconds |-> lengths[i], usage |-> i]]
numPhase == Len(file)

\* The sum of the first i lengths.
Until(s, i) ==
    LET sum[n \in 0..Len(s)] == IF n = 0 THEN 0 ELSE sum[n - 1] + s[n].seconds
    IN  sum[i]

-----------------------------------------------------------------------------
totalExecutionDuration == Until(spec, Len(spec))

executedDuration ==
    IF status = "Deleted" THEN deletedAt
    ELSE IF age < totalExecutionDuration THEN age ELSE totalExecutionDuration

\* Mutant: off by one tick.
IsRunningOnEnd == status = "Ok" /\ executedDuration <= totalExecutionDuration

IsRunning == status = "Ok" /\ executedDuration < totalExecutionDuration
IsTerminated == status = "Ok" /\ executedDuration >= totalExecutionDuration
IsDeleted == status = "Deleted" /\ age - deletedAt >= GracePeriod
IsTerminating == status = "Deleted" /\ ~IsDeleted

-----------------------------------------------------------------------------
\* NewPod with all phases of simSpec, or with the first ones of the file.
NewPod(lengths, fromFile) ==
    LET n == IF fromFile /\ LOAD_PHASE_CACHE < Len(lengths)
             THEN LOAD_PHASE_CACHE ELSE Len(lengths)
    IN  /\ file = Phases(lengths)
        /\ spec = SubSeq(file, 1, n)
        /\ loadPhase = n
        /\ currentPhase = 0
        /\ path = (n < Len(lengths))

PodInit ==
    /\ \/ \E lengths \in InlineSpecs : NewPod(lengths, FALSE)
       \/ \E lengths \in FileSpecs : NewPod(lengths, TRUE)
    /\ status = "Ok" /\ deletedAt = 0
    /\ age = 0 /\ usage = NoUsage /\ read = FALSE

\* Mutant: the length of the phase kept is not made up for those forgotten.
TrimForgets(stop) == SubSeq(spec, stop, Len(spec))

\* The phases before position stop are forgotten: its length becomes the time at
\* which it ends.
Trim(stop) ==
    SubSeq([spec EXCEPT ![stop].seconds = Until(spec, stop)], stop, Len(spec))

\* loadPod and UpdatePod.
Loaded(s) ==
    s \o SubSeq(file, loadPhase + 1, IF loadPhase + LOAD_PHASE_CACHE < numPhase
                                     THEN loadPhase + LOAD_PHASE_CACHE ELSE numPhase)

Stop(i) == executedDuration < Until(spec, i)

\* Mutant: more is loaded only after the last phase.
NeedsMoreLate(phase) == phase >= loadPhase /\ loadPhase < numPhase

NeedsMore(phase) == phase >= loadPhase - 1 /\ loadPhase < numPhase

\* The phase of the clock; the phases that are over are dropped, and more loaded.
ReadPhase(stop) ==
    LET phase == currentPhase + stop - 1
        more  == NeedsMore(phase)
        s     == IF stop > 1 THEN Trim(stop) ELSE spec
        n     == IF loadPhase + LOAD_PHASE_CACHE < numPhase
                 THEN loadPhase + LOAD_PHASE_CACHE ELSE numPhase
    IN  /\ usage' = spec[stop].usage
        /\ currentPhase' = phase
        /\ spec' = IF more /\ path THEN Loaded(s) ELSE s
        /\ loadPhase' = IF more /\ path THEN n ELSE loadPhase
        /\ path' = IF more /\ path THEN n < numPhase ELSE path

ResourceUsage ==
    /\ read' = TRUE
    /\ \/ /\ ~(IsRunning \/ IsTerminating)
          /\ usage' = NoUsage
          /\ UNCHANGED <<spec, currentPhase, loadPhase, path>>
       \/ /\ IsRunning \/ IsTerminating
          /\ LET stops == {i \in 1..Len(spec) : Stop(i)} IN
             IF stops # {} THEN ReadPhase(Min(stops))
             ELSE usage' = Panicked /\ UNCHANGED <<spec, currentPhase, loadPhase, path>>
    /\ UNCHANGED <<file, status, deletedAt, age>>

Delete ==
    /\ ~read
    /\ ~(IsTerminated \/ status = "Deleted")
    /\ status' = "Deleted"
    /\ deletedAt' = age
    /\ UNCHANGED <<file, spec, currentPhase, loadPhase, path, age, usage, read>>

\* Run computes the metrics of all pods before it advances the clock.
Advance ==
    /\ read
    /\ age + Tick <= EndAge
    /\ age' = age + Tick
    /\ read' = FALSE
    /\ UNCHANGED <<file, spec, currentPhase, loadPhase, path, status, deletedAt, usage>>

PodNext == ResourceUsage \/ Delete \/ Advance

PodSpec == PodInit /\ [][PodNext]_podVars

-----------------------------------------------------------------------------
\* The time for which the pod has been executed if it runs all its phases.
RealTime == IF status = "Deleted" THEN deletedAt ELSE age

\* ResourceUsage returns the usage of the phase that the whole list of phases
\* has at this time, although phases were forgotten and loaded in between, and
\* the usage is the one of the deletion as long as the pod is terminating
\* (pod.go:245).  Only a pod that is not active uses nothing.
UsageOfThePhase ==
    read /\ (IsRunning \/ IsTerminating) =>
        /\ usage \in 1..numPhase
        /\ Until(file, usage - 1) <= RealTime
        /\ RealTime < Until(file, usage)

\* The panic of pod.go:283 cannot happen.
NeverUnreachable == usage # Panicked

\* A pod that was not deleted terminates when the sum of all its phases has
\* passed, no earlier and no later: "Whether the pod is running or has
\* spontaneously terminated is determined by its total execution time and the
\* clock." (pod.go:63)
RunsAllPhases ==
    status = "Ok" => (IsTerminated <=> age >= Until(file, numPhase))
=============================================================================
