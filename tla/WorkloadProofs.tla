--------------------------- MODULE WorkloadProofs ---------------------------
(***************************************************************************)
(* Workload for every trace, workload and cluster: pods are generated      *)
(* within the target, and the pods that are simulated are those of the     *)
(* files, with phases that are the usage of their tasks.  SimPod for all   *)
(* lists of phases: a pod goes through its phases to the end.  Both        *)
(* together: it uses at each second what the trace says of its task.       *)
(***************************************************************************)
EXTENDS Workload, SimPod, SumProofs

-----------------------------------------------------------------------------
(* Clocks are multiples of the tick.                                       *)

Multiple(c) == \E k \in Nat : c = k * Tick

LEMMA MultipleNext ==
    ASSUME NEW c, Multiple(c) PROVE Multiple(c + Tick) /\ c \in Nat
<1>1. PICK k \in Nat : c = k * Tick
  BY DEF Multiple
<1>2. Tick \in Nat
  BY TickAssumption, TimeAssumption
<1>3. k * Tick \in Nat /\ k * Tick + Tick = (k + 1) * Tick /\ k + 1 \in Nat
  BY <1>2
<1> QED BY <1>1, <1>3 DEF Multiple

\* No multiple is between two that follow each other.
LEMMA MultipleApart ==
    ASSUME NEW b, Multiple(b), NEW c, Multiple(c), b < c + Tick
    PROVE  b <= c
<1>1. PICK j \in Nat, k \in Nat : b = j * Tick /\ c = k * Tick
  BY DEF Multiple
<1>2. Tick \in Nat /\ Tick > 0
  BY TickAssumption, TimeAssumption
<1>3. b \in Nat /\ c \in Nat
  BY MultipleNext
<1>4. CASE j <= k
  <2>1. PICK i \in Nat : k = j + i
    <3>1. k - j \in Nat /\ k = j + (k - j)
      BY <1>4
    <3> QED BY <3>1
  <2>2. (j + i) * Tick = j * Tick + i * Tick /\ i * Tick \in Nat
    BY <1>2
  <2> QED BY <1>1, <1>3, <2>1, <2>2
<1>5. CASE j > k
  <2>1. PICK i \in Nat : j = k + 1 + i
    <3>1. j - k - 1 \in Nat /\ j = k + 1 + (j - k - 1)
      BY <1>5
    <3> QED BY <3>1
  <2>2. (k + 1 + i) * Tick = k * Tick + Tick + i * Tick /\ i * Tick \in Nat
    BY <1>2
  <2> QED BY <1>1, <1>2, <1>3, <2>1, <2>2
<1> QED BY <1>4, <1>5

\* The clock of a file is the tick of an arrival, rounded down.
LEMMA StartClockMultiple ==
    ASSUME NEW t \in Selected
    PROVE  Multiple(startClock(t))
<1> DEFINE a == Arrival[t]
           j == a \div Tick
           k == StartTimestamp \div Tick
<1>1. /\ Tick \in Nat /\ Tick > 0 /\ EndClock \in Nat /\ StartTimestamp \in Nat
      /\ StartTimestamp % Tick = 0 /\ a \in Nat
  BY TickAssumption, TimeAssumption, TasksAssumption DEF Selected
<1>2. a >= StartTimestamp
  BY <1>1 DEF Selected
<1>3. /\ j \in Nat /\ k \in Nat
      /\ Tick * j <= a /\ a < Tick * j + Tick
      /\ StartTimestamp = Tick * k
  BY <1>1
<1> HIDE DEF a, j, k
<1>4. k <= j
  <2> SUFFICES ASSUME j < k PROVE FALSE
    BY <1>3
  <2>1. PICK i \in Nat : k = j + 1 + i
    <3>1. k - j - 1 \in Nat /\ k = j + 1 + (k - j - 1)
      BY <1>3
    <3> QED BY <3>1
  <2>2. Tick * (j + 1 + i) = Tick * j + Tick + Tick * i /\ Tick * i \in Nat /\ Tick * j \in Nat
    BY <1>1, <1>3
  <2> QED BY <1>1, <1>2, <1>3, <2>1, <2>2
<1>5. j - k \in Nat /\ j * Tick - StartTimestamp = (j - k) * Tick
  <2>1. PICK i \in Nat : j = k + i
    <3>1. j - k \in Nat /\ j = k + (j - k)
      BY <1>3, <1>4
    <3> QED BY <3>1
  <2>2. (k + i) * Tick = Tick * k + i * Tick /\ i * Tick \in Nat /\ Tick * k \in Nat
    BY <1>1, <1>3
  <2> QED BY <1>1, <1>3, <2>1, <2>2
<1>6. startClock(t) = j * Tick - StartTimestamp
  BY DEF startClock, a, j
<1> QED BY <1>5, <1>6 DEF Multiple

-----------------------------------------------------------------------------
(* Generation: the metrics count the pods that ended after them as well.   *)

Counts ==
    /\ pending \in Nat /\ running \in Nat
    /\ met.pending \in Nat /\ met.running \in Nat
    /\ met.pending = pending /\ met.running >= running
    /\ podIdx \in Nat /\ total \in Nat

Generating ==
    stage = "generate" => Counts /\ pending + met.running <= TargetNum /\ podIdx <= total

LEMMA SmallerIs ==
    ASSUME NEW x \in Int, NEW y \in Int
    PROVE  /\ Smaller(x, y) \in Int /\ Smaller(x, y) <= x /\ Smaller(x, y) <= y
           /\ Smaller(x, y) \in {x, y}
BY DEF Smaller

\* What a tick does to the number of pods.
LEMMA SimulateCounts ==
    ASSUME pending \in Nat, running \in Nat, NEW num \in Nat,
           NEW started \in 0..Cardinality(Tasks), NEW ended \in 0..Cardinality(Tasks),
           Simulate(num, started, ended)
    PROVE  /\ pending' \in Nat /\ running' \in Nat
           /\ met'.pending = pending' /\ met'.running \in Nat /\ met'.running >= running'
           /\ pending' + met'.running = pending + running + num
<1>1. Cardinality(Tasks) \in Nat
  BY TasksAssumption, FS_CardinalityType
<1> QED BY <1>1 DEF Simulate

LEMMA GeneratingKept == Generating /\ [Next]_vars => Generating'
<1> SUFFICES ASSUME Generating, [Next]_vars, stage' = "generate"
             PROVE  (Counts /\ pending + met.running <= TargetNum /\ podIdx <= total)'
  BY DEF Generating
<1>1. CASE UNCHANGED vars
  BY <1>1 DEF vars, simVars, Generating, Counts
<1>2. ASSUME NEW i \in todo, Convert(i) PROVE FALSE
  BY <1>2 DEF Convert
<1>3. CASE StartLoad
  BY <1>3 DEF StartLoad
<1>4. ASSUME NEW started \in 0..Cardinality(Tasks), NEW ended \in 0..Cardinality(Tasks),
             Generate(started, ended)
      PROVE  (Counts /\ pending + met.running <= TargetNum /\ podIdx <= total)'
  <2> DEFINE num == IF registered THEN Smaller(submissionNum, total - podIdx) ELSE 0
  <2>1. Counts /\ pending + met.running <= TargetNum /\ podIdx <= total
    BY <1>4 DEF Generate, Generating
  <2>2. TargetNum \in Nat
    BY NumAssumption
  <2>3. submissionNum \in Nat /\ submissionNum = TargetNum - pending - met.running
    BY <2>1, <2>2 DEF submissionNum, Counts
  <2>4. total - podIdx \in Nat
    BY <2>1 DEF Counts
  <2>5. num \in Nat /\ num <= submissionNum /\ num <= total - podIdx
    BY <2>3, <2>4 DEF Smaller
  <2>6. podIdx' = podIdx + num /\ total' = total /\ Simulate(num, started, ended)
    BY <1>4 DEF Generate
  <2> HIDE DEF num
  <2>7. /\ pending' \in Nat /\ running' \in Nat
        /\ met'.pending = pending' /\ met'.running \in Nat /\ met'.running >= running'
        /\ pending' + met'.running = pending + running + num
    BY <2>1, <2>5, <2>6, SimulateCounts DEF Counts
  <2> QED BY <2>1, <2>2, <2>3, <2>5, <2>6, <2>7 DEF Counts
<1>5. ASSUME NEW started \in 0..Cardinality(Tasks), NEW ended \in 0..Cardinality(Tasks),
             Load(started, ended)
      PROVE  FALSE
  BY <1>5 DEF Load
<1>6. CASE Return
  BY <1>6 DEF Return
<1> QED BY <1>1, <1>2, <1>3, <1>4, <1>5, <1>6 DEF Next

\* The pods that wait and run are never more than the target while the workload is
\* generated, although their number is one tick old, and the number of pods to
\* submit is never negative (submitter.go:67).
THEOREM WorkloadWithinTarget == Spec => []WithinTarget
<1>1. Init => Generating
  <2> SUFFICES ASSUME Init PROVE Generating
    OBVIOUS
  <2>1. TotalPodsNum \in Nat /\ TargetNum \in Nat
    BY NumAssumption
  <2> QED BY <2>1 DEF Init, Generating, Counts, NoMetrics
<1>2. Generating => WithinTarget
  <2> SUFFICES ASSUME Generating, stage = "generate"
               PROVE  pending + running <= TargetNum /\ submissionNum >= 0
    BY DEF WithinTarget
  <2>1. TargetNum \in Nat
    BY NumAssumption
  <2> QED BY <2>1 DEF Generating, Counts, submissionNum
<1> QED BY <1>1, <1>2, GeneratingKept, PTL DEF Spec

-----------------------------------------------------------------------------
(* Files.                                                                  *)

\* The clock of a file is one at which it can be loaded.
Loadable(f) == f.clock \in Nat /\ Multiple(f.clock) /\ f.clock <= EndClock

Paths ==
    /\ workloadSubsetFactor \in SubsetFactors
    /\ paths \in [1..Cardinality(Selected) -> Selected]
    /\ todo \subseteq Indices

FilesInv ==
    /\ Paths
    /\ IsFiniteSet(files) /\ \A f \in files : Loadable(f)
    /\ stage \in {"convert", "generate", "generated", "load", "loaded"}
    /\ stage = "generate" => podIdx \in Nat /\ total \in Nat
    /\ Multiple(clock)

\* The files loaded so far.
Done == {f \in files : f.clock < clock}

Loading ==
    stage \in {"load", "loaded"} =>
        /\ total = Cardinality(files) /\ podIdx = Cardinality(Done)
        /\ log = {<<f.clock, f.name>> : f \in Done}
        /\ ~registered => Done = files
        /\ stage = "loaded" => ~Continues

\* The task that an index stands for.
LEMMA PathOf ==
    ASSUME Paths, NEW i \in Indices
    PROVE  paths[i * workloadSubsetFactor + 1] \in Selected
<1>1. IsFiniteSet(Selected)
  BY TasksAssumption, FS_Subset DEF Selected
<1>2. Cardinality(Selected) \in Nat
  BY <1>1, FS_CardinalityType
<1>3. TotalPodsNum \in Int /\ workloadSubsetFactor \in Nat
  BY NumAssumption DEF Paths
<1>4. fileNum \in Int /\ fileNum <= Cardinality(Selected)
  BY <1>2, <1>3 DEF fileNum, Smaller
<1>5. i \in Nat /\ i * workloadSubsetFactor < fileNum
  BY <1>4 DEF Indices
<1>6. i * workloadSubsetFactor \in Nat
  BY <1>3, <1>5
<1>7. i * workloadSubsetFactor + 1 \in 1..Cardinality(Selected)
  <2> DEFINE m == i * workloadSubsetFactor
  <2>1. m \in Nat /\ m < fileNum
    BY <1>5, <1>6
  <2> HIDE DEF m
  <2>2. m + 1 \in 1..Cardinality(Selected)
    BY <1>2, <1>4, <2>1
  <2> QED BY <2>2 DEF m
<1> QED BY <1>7 DEF Paths

LEMMA ConvertFiles ==
    ASSUME FilesInv, NEW i \in todo, Convert(i)
    PROVE  IsFiniteSet(files') /\ \A f \in files' : Loadable(f)
<1> DEFINE t == paths[i * workloadSubsetFactor + 1]
           maxLength == EndClock - startClock(t)
           new == [clock |-> startClock(t), name |-> Name[t], folder |-> i \div SubfolderCap,
                   task |-> t, phases |-> ConvertTraceToPod(t, maxLength)]
<1>1. t \in Selected
  BY PathOf DEF FilesInv, Paths
<1>2. files' = IF maxLength > 0 /\ t \notin Malformed THEN files \cup {new} ELSE files
  BY DEF Convert
<1>3. new.clock = startClock(t)
  OBVIOUS
<1>4. Multiple(startClock(t)) /\ startClock(t) \in Nat
  BY <1>1, StartClockMultiple, MultipleNext
<1>5. EndClock \in Nat
  BY TickAssumption, TimeAssumption
<1>6. maxLength > 0 => Loadable(new)
  <2>1. SUFFICES ASSUME maxLength > 0 PROVE startClock(t) <= EndClock
    BY <1>3, <1>4 DEF Loadable
  <2> HIDE DEF t
  <2> QED BY <1>4, <1>5, <2>1
<1> HIDE DEF new, maxLength
<1>7. IsFiniteSet(files \cup {new})
  BY FS_AddElement DEF FilesInv
<1> QED BY <1>2, <1>6, <1>7 DEF FilesInv

LEMMA GenerateFiles ==
    ASSUME FilesInv, Generating, NEW started, NEW ended, Generate(started, ended)
    PROVE  IsFiniteSet(files') /\ \A f \in files' : Loadable(f)
<1> DEFINE num == IF registered THEN Smaller(submissionNum, total - podIdx) ELSE 0
           fileOf == [i \in 1..num |-> [clock |-> clock, name |-> podIdx + i - 1, folder |-> -1]]
           new == {fileOf[i] : i \in 1..num}
<1>1. files' = files \cup new
  BY DEF Generate
<1>2. num \in Int
  <2>1. Counts /\ TargetNum \in Nat
    BY NumAssumption DEF Generate, Generating
  <2>2. submissionNum \in Int /\ total - podIdx \in Int
    BY <2>1 DEF Counts, submissionNum
  <2> QED BY <2>2, SmallerIs
<1>3. clock \in Nat /\ clock <= EndClock /\ Multiple(clock)
  BY MultipleNext DEF FilesInv, Generate, Continues
<1> HIDE DEF num
<1>4. \A f \in new : Loadable(f)
  <2> SUFFICES ASSUME NEW i \in 1..num PROVE Loadable(fileOf[i])
    OBVIOUS
  <2>1. fileOf[i].clock = clock
    OBVIOUS
  <2> QED BY <1>3, <2>1 DEF Loadable
<1>5. IsFiniteSet(1..num)
  BY <1>2, FS_Interval
<1>6. fileOf \in Surjection(1..num, new)
  BY DEF Surjection
<1> HIDE DEF fileOf, new
<1>7. IsFiniteSet(new)
  BY <1>5, <1>6, FS_Surjection
<1>8. IsFiniteSet(files \cup new)
  BY <1>7, FS_Union DEF FilesInv
<1> QED BY <1>1, <1>4, <1>8 DEF FilesInv

LEMMA FilesKept == FilesInv /\ Generating /\ [Next]_vars => FilesInv'
<1> SUFFICES ASSUME FilesInv, Generating, [Next]_vars PROVE FilesInv'
  OBVIOUS
<1>a. ASSUME UNCHANGED programVars, todo' \subseteq todo PROVE Paths'
  BY <1>a DEF FilesInv, Paths, programVars, Indices, fileNum, Selected
<1>b. ASSUME UNCHANGED files PROVE IsFiniteSet(files') /\ \A f \in files' : Loadable(f)
  BY <1>b DEF FilesInv
<1>c. Multiple(0)
  <2>1. 0 = 0 * Tick
    BY TickAssumption, TimeAssumption
  <2> QED BY <2>1 DEF Multiple
<1>1. CASE UNCHANGED vars
  BY <1>1, <1>a, <1>b DEF vars, simVars, FilesInv
<1>2. ASSUME NEW i \in todo, Convert(i) PROVE FilesInv'
  <2>1. IsFiniteSet(files') /\ \A f \in files' : Loadable(f)
    BY <1>2, ConvertFiles
  <2>2. UNCHANGED <<programVars, stage, clock, podIdx, total>> /\ todo' \subseteq todo
    BY <1>2 DEF Convert, simVars
  <2> QED BY <1>a, <2>1, <2>2 DEF FilesInv
<1>3. CASE StartLoad
  BY <1>3, <1>a, <1>b, <1>c DEF StartLoad, FilesInv
<1>4. ASSUME NEW started \in 0..Cardinality(Tasks), NEW ended \in 0..Cardinality(Tasks),
             Generate(started, ended)
      PROVE  FilesInv'
  <2>1. IsFiniteSet(files') /\ \A f \in files' : Loadable(f)
    BY <1>4, GenerateFiles
  <2>2. UNCHANGED <<programVars, stage, todo>> /\ clock' = clock + Tick
    BY <1>4 DEF Generate, Simulate
  <2>3. Multiple(clock')
    BY <2>2, MultipleNext DEF FilesInv
  <2>4. Generating'
    BY GeneratingKept
  <2>5. stage' = "generate" => podIdx' \in Nat /\ total' \in Nat
    BY <2>4 DEF Generating, Counts
  <2> QED BY <1>a, <2>1, <2>2, <2>3, <2>5 DEF FilesInv
<1>5. ASSUME NEW started \in 0..Cardinality(Tasks), NEW ended \in 0..Cardinality(Tasks),
             Load(started, ended)
      PROVE  FilesInv'
  <2>1. UNCHANGED <<programVars, stage, todo, files>> /\ clock' = clock + Tick /\ stage = "load"
    BY <1>5 DEF Load, Simulate
  <2>2. Multiple(clock')
    BY <2>1, MultipleNext DEF FilesInv
  <2> QED BY <1>a, <1>b, <2>1, <2>2 DEF FilesInv
<1>6. CASE Return
  BY <1>6, <1>a, <1>b DEF Return, simVars, FilesInv
<1> QED BY <1>1, <1>2, <1>3, <1>4, <1>5, <1>6 DEF Next

-----------------------------------------------------------------------------
(* Loading.                                                                *)

\* A tick loads the files of its clock.
LEMMA DoneNext ==
    ASSUME FilesInv, UNCHANGED files, clock' = clock + Tick
    PROVE  Done' = Done \cup {f \in files : f.clock = clock}
<1>1. clock \in Nat /\ Tick \in Nat /\ Tick > 0
  BY TickAssumption, TimeAssumption, MultipleNext DEF FilesInv
<1>2. ASSUME NEW f \in files
      PROVE  f.clock < clock + Tick <=> f.clock < clock \/ f.clock = clock
  <2>1. f.clock \in Nat /\ Multiple(f.clock) /\ Multiple(clock)
    BY DEF FilesInv, Loadable
  <2>2. f.clock < clock + Tick => f.clock <= clock
    BY <2>1, MultipleApart
  <2> QED BY <1>1, <2>1, <2>2
<1>3. Done' = {f \in files : f.clock < clock + Tick}
  BY DEF Done
<1> QED BY <1>2, <1>3 DEF Done

LEMMA DonePart ==
    ASSUME FilesInv
    PROVE  /\ IsFiniteSet(Done) /\ Done \subseteq files
           /\ Cardinality(Done) \in Nat /\ Cardinality(files) \in Nat
           /\ Cardinality(Done) <= Cardinality(files)
           /\ Cardinality(Done) = Cardinality(files) => Done = files
<1>1. Done \subseteq files /\ IsFiniteSet(files)
  BY DEF Done, FilesInv
<1> QED BY <1>1, FS_Subset, FS_CardinalityType

LEMMA LoadKeeps ==
    ASSUME FilesInv, FilesInv', Loading, NEW started, NEW ended, Load(started, ended)
    PROVE  Loading'
<1> DEFINE here == IF registered THEN {f \in files : f.clock = clock} ELSE {}
           now == {f \in files : f.clock = clock}
           num == Smaller(Cardinality(here), total - podIdx)
<1>1. /\ total = Cardinality(files) /\ podIdx = Cardinality(Done)
      /\ log = {<<f.clock, f.name>> : f \in Done}
      /\ ~registered => Done = files
  BY DEF Loading, Load
<1>2. UNCHANGED <<stage, files, total>> /\ stage = "load" /\ clock' = clock + Tick
  BY DEF Load, Simulate
<1>3. Done' = Done \cup now
  BY <1>2, DoneNext
<1>4. clock \in Nat
  BY MultipleNext DEF FilesInv
<1>5. Done \cap now = {}
  BY <1>4 DEF Done
<1>6. Done \cup here = Done'
  BY <1>1, <1>3 DEF Done
<1>7. PICK loaded \in SUBSET here : /\ Cardinality(loaded) = num
                                    /\ log' = log \cup {<<f.clock, f.name>> : f \in loaded}
  BY DEF Load
<1>8. podIdx' = podIdx + num /\ registered' = (registered /\ (here # {} => podIdx' < total))
  BY DEF Load
<1>9. here \subseteq now /\ now \subseteq files
  OBVIOUS
<1> HIDE DEF here, num, now
<1>10. IsFiniteSet(here) /\ Cardinality(here) \in Nat
  BY <1>9, FS_Subset, FS_CardinalityType DEF FilesInv
<1>11. Done \cap here = {}
  BY <1>5, <1>9
<1>12. Cardinality(Done') = Cardinality(Done) + Cardinality(here)
  <2>1. Cardinality(Done \cup here) =
           Cardinality(Done) + Cardinality(here) - Cardinality(Done \cap here)
    BY <1>10, DonePart, FS_Union
  <2>2. Cardinality(Done \cap here) = 0
    BY <1>11, FS_EmptySet
  <2> QED BY <1>6, <1>10, <2>1, <2>2, DonePart
<1>13. /\ Done' \subseteq files /\ Cardinality(Done') <= Cardinality(files)
       /\ Cardinality(Done') = Cardinality(files) => Done' = files
  <2>1. Done' \subseteq files /\ IsFiniteSet(files)
    BY <1>2, <1>6, <1>9, DonePart DEF FilesInv
  <2> QED BY <2>1, FS_Subset
<1>14. num = Cardinality(here)
  BY <1>1, <1>10, <1>12, <1>13, DonePart DEF num, Smaller
<1>15. loaded = here
  BY <1>7, <1>10, <1>14, FS_Subset
<1>16. podIdx' = Cardinality(Done')
  BY <1>1, <1>8, <1>12, <1>14
<1>17. log' = {<<f.clock, f.name>> : f \in Done'}
  BY <1>1, <1>6, <1>7, <1>15
<1>18. ASSUME ~registered' PROVE Done' = files
  <2>1. CASE ~registered
    BY <1>1, <1>6, <1>13, <2>1
  <2>2. CASE registered /\ ~(podIdx' < total)
    <3>1. Cardinality(Done') \in Nat /\ Cardinality(files) \in Nat
      BY <1>10, <1>12, DonePart
    <3> QED BY <1>1, <1>13, <1>16, <2>2, <3>1
  <2> QED BY <1>8, <1>18, <2>1, <2>2
<1> QED BY <1>1, <1>2, <1>16, <1>17, <1>18 DEF Loading

LEMMA LoadingKept == FilesInv /\ FilesInv' /\ Loading /\ [Next]_vars => Loading'
<1> SUFFICES ASSUME FilesInv, FilesInv', Loading, [Next]_vars PROVE Loading'
  OBVIOUS
<1>1. CASE UNCHANGED vars
  BY <1>1 DEF vars, simVars, programVars, Loading, Done, Continues, toTerminate
<1>2. ASSUME NEW i \in todo, Convert(i) PROVE Loading'
  BY <1>2 DEF Convert, Loading
<1>3. CASE StartLoad
  <2>1. stage' = "load" /\ clock' = 0 /\ podIdx' = 0 /\ log' = {} /\ registered'
        /\ total' = Cardinality(files) /\ UNCHANGED files
    BY <1>3 DEF StartLoad
  <2>2. Done' = {}
    BY <2>1 DEF Done, FilesInv, Loadable
  <2>3. Cardinality(Done') = 0
    BY <2>2, FS_EmptySet
  <2> QED BY <2>1, <2>2, <2>3 DEF Loading
<1>4. ASSUME NEW started \in 0..Cardinality(Tasks), NEW ended \in 0..Cardinality(Tasks),
             Generate(started, ended)
      PROVE  Loading'
  BY <1>4 DEF Generate, Loading
<1>5. ASSUME NEW started \in 0..Cardinality(Tasks), NEW ended \in 0..Cardinality(Tasks),
             Load(started, ended)
      PROVE  Loading'
  BY <1>5, LoadKeeps
<1>6. CASE Return
  BY <1>6 DEF Return, simVars, Loading, Done, Continues, toTerminate
<1> QED BY <1>1, <1>2, <1>3, <1>4, <1>5, <1>6 DEF Next

LEMMA InitFiles == Init => Generating /\ FilesInv
<1> SUFFICES ASSUME Init PROVE Generating /\ FilesInv
  OBVIOUS
<1>1. TotalPodsNum \in Nat /\ TargetNum \in Nat
  BY NumAssumption
<1>2. Generating
  BY <1>1 DEF Init, Generating, Counts, NoMetrics
<1>3. Paths
  BY DEF Init, Paths, Sorted, SetToSeqs
<1>4. Multiple(0)
  <2>1. 0 = 0 * Tick
    BY TickAssumption, TimeAssumption
  <2> QED BY <2>1 DEF Multiple
<1>5. IsFiniteSet({})
  BY FS_EmptySet
<1> QED BY <1>1, <1>2, <1>3, <1>4, <1>5 DEF Init, FilesInv

\* The pods that a simulation loads are those of all files, each at the clock in the
\* name of its file, whatever trace they come from and whatever the cluster does
\* (submitter.go:82).
THEOREM WorkloadReplayedInFull == Spec => []WorkloadReplayed
<1>1. Init => Generating /\ FilesInv /\ Loading
  <2> SUFFICES ASSUME Init PROVE Loading
    BY InitFiles
  <2> QED BY DEF Init, Loading
<1>2. FilesInv /\ Loading => WorkloadReplayed
  <2> SUFFICES ASSUME FilesInv, Loading, stage = "loaded"
               PROVE  log = {<<f.clock, f.name>> : f \in files}
    BY DEF WorkloadReplayed
  <2>1. ~Continues /\ log = {<<f.clock, f.name>> : f \in Done} /\ (~registered => Done = files)
    BY DEF Loading
  <2>2. CASE clock > EndClock
    <3>1. clock \in Nat /\ EndClock \in Nat
      BY TickAssumption, TimeAssumption, MultipleNext DEF FilesInv
    <3>2. \A f \in files : f.clock < clock
      BY <2>2, <3>1 DEF FilesInv, Loadable
    <3> QED BY <2>1, <3>2 DEF Done
  <2>3. CASE ~registered
    BY <2>1, <2>3
  <2>4. clock \in Nat /\ EndClock \in Nat
    BY TickAssumption, TimeAssumption, MultipleNext DEF FilesInv
  <2> QED BY <2>1, <2>2, <2>3, <2>4 DEF Continues, toTerminate
<1>3. Generating /\ FilesInv /\ Loading /\ [Next]_vars => (Generating /\ FilesInv /\ Loading)'
  BY GeneratingKept, FilesKept, LoadingKept
<1> QED BY <1>1, <1>2, <1>3, PTL DEF Spec

-----------------------------------------------------------------------------
(* The conversion reads the rows of a task one by one.                     *)

Row == [len : Nat, use : Nat \cup {NoUse}]
NoPhases == [phases |-> << >>, taskLast |-> 0, use |-> 0, isStop |-> FALSE]

Converts(rows, m, n, at) ==
    at[0] = NoPhases /\ \A k \in 1..n : at[k] = AddRow(at[k - 1], rows[k], m)

\* What the fold over the first n rows is at each set of them.
Folded(rows, m, n, acc) ==
    acc = [s \in SUBSET (1..n) |->
              IF s = {} THEN NoPhases ELSE AddRow(acc[s \ {Max(s)}], rows[Max(s)], m)]

LEMMA MaxIsLast ==
    ASSUME NEW n \in Nat, NEW s \in SUBSET (1..n), n \in s
    PROVE  Max(s) = n
<1>1. \A y \in s : n >= y
  OBVIOUS
<1>2. \A x \in s : (\A y \in s : x >= y) => x = n
  OBVIOUS
<1> QED BY <1>1, <1>2 DEF Max

LEMMA FoldExists ==
    ASSUME NEW rows, NEW m, NEW n \in Nat
    PROVE  \E acc : Folded(rows, m, n, acc)
<1> DEFINE D == {k \in Nat : \E acc : Folded(rows, m, k, acc)}
<1>1. 0 \in D
  <2> DEFINE acc == [s \in SUBSET (1..0) |-> NoPhases]
  <2>1. \A s \in SUBSET (1..0) : s = {}
    OBVIOUS
  <2>2. acc = [s \in SUBSET (1..0) |->
                  IF s = {} THEN NoPhases ELSE AddRow(acc[s \ {Max(s)}], rows[Max(s)], m)]
    BY <2>1
  <2> HIDE DEF acc
  <2> QED BY <2>2 DEF Folded
<1>2. ASSUME NEW k \in Nat, k \in D PROVE k + 1 \in D
  <2>1. PICK acc : Folded(rows, m, k, acc)
    BY <1>2
  <2> DEFINE more == [s \in SUBSET (1..(k + 1)) |->
                        IF k + 1 \in s THEN AddRow(acc[s \ {k + 1}], rows[k + 1], m) ELSE acc[s]]
  <2>2. ASSUME NEW s \in SUBSET (1..k)
        PROVE  more[s] = acc[s]
    <3>1. s \in SUBSET (1..(k + 1)) /\ k + 1 \notin s
      OBVIOUS
    <3> QED BY <3>1
  <2>3. ASSUME NEW s \in SUBSET (1..(k + 1))
        PROVE  more[s] = IF s = {} THEN NoPhases
                         ELSE AddRow(more[s \ {Max(s)}], rows[Max(s)], m)
    <3>1. CASE k + 1 \in s
      <4>1. Max(s) = k + 1
        BY <3>1, MaxIsLast
      <4>2. s \ {k + 1} \in SUBSET (1..k)
        OBVIOUS
      <4>3. more[s \ {k + 1}] = acc[s \ {k + 1}]
        BY <2>2, <4>2
      <4>4. more[s] = AddRow(acc[s \ {k + 1}], rows[k + 1], m)
        BY <3>1
      <4> HIDE DEF more
      <4> QED BY <3>1, <4>1, <4>3, <4>4
    <3>2. CASE k + 1 \notin s
      <4>1. s \in SUBSET (1..k)
        BY <3>2
      <4>2. more[s] = acc[s] /\ more[s \ {Max(s)}] = acc[s \ {Max(s)}]
        <5>1. s \ {Max(s)} \in SUBSET (1..k)
          BY <4>1
        <5> HIDE DEF more
        <5> QED BY <2>2, <4>1, <5>1
      <4>3. acc[s] = IF s = {} THEN NoPhases ELSE AddRow(acc[s \ {Max(s)}], rows[Max(s)], m)
        BY <2>1, <4>1 DEF Folded
      <4> HIDE DEF more
      <4> QED BY <4>2, <4>3
    <3> HIDE DEF more
    <3> QED BY <3>1, <3>2
  <2>4. more = [s \in SUBSET (1..(k + 1)) |-> more[s]]
    OBVIOUS
  <2> HIDE DEF more
  <2>5. Folded(rows, m, k + 1, more)
    BY <2>3, <2>4 DEF Folded
  <2> QED BY <2>5
<1> HIDE DEF D
<1>3. Nat \subseteq D
  BY <1>1, <1>2, Induction
<1> QED BY <1>3 DEF D

LEMMA ConvertedBy ==
    ASSUME NEW t \in Tasks, NEW m
    PROVE  \E at : /\ Converts(Rows[t], m, Len(Rows[t]), at)
                   /\ ConvertTraceToPod(t, m) = at[Len(Rows[t])].phases
<1> DEFINE rows == Rows[t]
           L == Len(rows)
           acc == CHOOSE f : Folded(rows, m, L, f)
           at == [k \in 0..L |-> acc[1..k]]
<1>1. rows \in Seq(Row)
  BY TasksAssumption DEF Row
<1>2. L \in Nat /\ DOMAIN rows = 1..L
  BY <1>1
<1>3. ConvertTraceToPod(t, m) = acc[1..L].phases
  BY <1>2 DEF ConvertTraceToPod, FoldLeft, MapThenFoldSet, Folded, NoPhases
<1> HIDE DEF rows, L
<1>4. Folded(rows, m, L, acc)
  BY <1>2, FoldExists
<1> HIDE DEF acc
<1>5. \A k \in 0..L : 1..k \in SUBSET (1..L) /\ at[k] = acc[1..k]
  BY <1>2
<1>6. at[0] = NoPhases
  <2>1. 1..0 = {} /\ 0 \in 0..L
    BY <1>2
  <2> QED BY <1>4, <1>5, <2>1 DEF Folded
<1>7. ASSUME NEW k \in 1..L PROVE at[k] = AddRow(at[k - 1], rows[k], m)
  <2>1. Max(1..k) = k
    BY <1>2, MaxIsLast
  <2>2. (1..k) \ {k} = 1..(k - 1) /\ 1..k # {} /\ k - 1 \in 0..L /\ k \in 0..L
    BY <1>2
  <2> DEFINE s == 1..k
  <2>3. s \in SUBSET (1..L) /\ s # {} /\ Max(s) = k /\ s \ {k} = 1..(k - 1)
    BY <1>5, <2>1, <2>2
  <2>4. at[k] = acc[s] /\ at[k - 1] = acc[1..(k - 1)]
    BY <1>5, <2>2
  <2> HIDE DEF at, s
  <2>5. acc[s] = AddRow(acc[s \ {Max(s)}], rows[Max(s)], m)
    BY <1>4, <2>3 DEF Folded
  <2> QED BY <2>3, <2>4, <2>5
<1>8. L \in 0..L
  BY <1>2
<1>9. ConvertTraceToPod(t, m) = at[L].phases
  BY <1>3, <1>5, <1>8
<1> HIDE DEF at
<1> QED BY <1>6, <1>7, <1>9 DEF Converts, rows, L

-----------------------------------------------------------------------------
(* What rows say of each second.                                           *)

Copies(len, use) == [i \in 1..len |-> use]
ReadRow(a, row) ==
    LET use == IF row.use = NoUse THEN a.use ELSE row.use
    IN  [use |-> use, list |-> a.list \o Copies(row.len, use)]

NothingRead == [use |-> 0, list |-> << >>]
Reads(rows, n, u) ==
    /\ u[0] = NothingRead
    /\ \A k \in 1..n : u[k] = ReadRow(u[k - 1], rows[k])

\* The recursive function in Seconds.
Reader(rows, n, u) ==
    u = [k \in 0..n |-> IF k = 0 THEN NothingRead ELSE ReadRow(u[k - 1], rows[k])]

LEMMA ReaderExists ==
    ASSUME NEW rows, NEW n \in Nat
    PROVE  \E u : Reader(rows, n, u)
<1> DEFINE D == {k \in Nat : \E u : Reader(rows, k, u)}
<1>1. 0 \in D
  <2> DEFINE u == [k \in 0..0 |-> NothingRead]
  <2>1. u = [k \in 0..0 |-> IF k = 0 THEN NothingRead ELSE ReadRow(u[k - 1], rows[k])]
    OBVIOUS
  <2> HIDE DEF u
  <2> QED BY <2>1 DEF Reader
<1>2. ASSUME NEW m \in Nat, m \in D PROVE m + 1 \in D
  <2>1. PICK u : Reader(rows, m, u)
    BY <1>2
  <2> DEFINE more == [k \in 0..(m + 1) |-> IF k = m + 1 THEN ReadRow(u[m], rows[k]) ELSE u[k]]
  <2>2. \A k \in 0..m : more[k] = u[k]
    OBVIOUS
  <2>3. ASSUME NEW k \in 0..(m + 1)
        PROVE  more[k] = IF k = 0 THEN NothingRead ELSE ReadRow(more[k - 1], rows[k])
    <3>1. CASE k = m + 1
      <4>1. more[k] = ReadRow(u[m], rows[k]) /\ k # 0 /\ k - 1 \in 0..m /\ k - 1 = m
        BY <3>1
      <4> HIDE DEF more
      <4> QED BY <2>2, <4>1
    <3>2. CASE k \in 0..m
      <4>1. u[k] = IF k = 0 THEN NothingRead ELSE ReadRow(u[k - 1], rows[k])
        BY <2>1, <3>2 DEF Reader
      <4>2. more[k] = u[k] /\ (k # 0 => more[k - 1] = u[k - 1])
        <5>1. k # 0 => k - 1 \in 0..m
          BY <3>2
        <5> HIDE DEF more
        <5> QED BY <2>2, <3>2, <5>1
      <4> HIDE DEF more
      <4> QED BY <4>1, <4>2
    <3> HIDE DEF more
    <3> QED BY <3>1, <3>2
  <2>4. more = [k \in 0..(m + 1) |-> more[k]]
    OBVIOUS
  <2> HIDE DEF more
  <2>5. Reader(rows, m + 1, more)
    BY <2>3, <2>4 DEF Reader
  <2> QED BY <2>5
<1> HIDE DEF D
<1>3. Nat \subseteq D
  BY <1>1, <1>2, Induction
<1> QED BY <1>3 DEF D

LEMMA SecondsRead ==
    ASSUME NEW rows, Len(rows) \in Nat
    PROVE  \E u : Reads(rows, Len(rows), u) /\ Seconds(rows) = u[Len(rows)].list
<1> DEFINE L == Len(rows)
           u == CHOOSE f : Reader(rows, L, f)
<1>1. Seconds(rows) = u[L].list
  BY DEF Seconds, Reader, ReadRow, Copies, NothingRead
<1>2. Reader(rows, L, u)
  BY ReaderExists
<1> HIDE DEF u, L
<1>3. L \in Nat
  BY DEF L
<1>4. u[0] = NothingRead
  BY <1>2, <1>3 DEF Reader
<1>5. ASSUME NEW k \in 1..L PROVE u[k] = ReadRow(u[k - 1], rows[k])
  <2>1. k \in 0..L /\ k # 0
    BY <1>3
  <2> QED BY <1>2, <2>1 DEF Reader
<1> QED BY <1>1, <1>4, <1>5 DEF Reads, L

\* What was read of the first rows depends on them alone.
LEMMA ReadsAgree ==
    ASSUME NEW n \in Nat, NEW r, NEW s, \A k \in 1..n : r[k] = s[k],
           NEW u, Reads(r, n, u), NEW v, Reads(s, n, v)
    PROVE  u[n] = v[n]
<1> DEFINE D == {k \in Nat : k <= n => u[k] = v[k]}
<1>1. 0 \in D
  BY DEF Reads
<1>2. ASSUME NEW k \in Nat, k \in D PROVE k + 1 \in D
  <2> SUFFICES ASSUME k + 1 <= n PROVE u[k + 1] = v[k + 1]
    OBVIOUS
  <2>1. u[k] = v[k]
    BY <1>2
  <2>2. k + 1 \in 1..n /\ (k + 1) - 1 = k
    OBVIOUS
  <2> QED BY <2>1, <2>2 DEF Reads
<1> HIDE DEF D
<1>3. Nat \subseteq D
  BY <1>1, <1>2, Induction
<1> QED BY <1>3 DEF D

Phase == [len : Nat, use : Nat]

\* One more phase, and a longer last phase.
LEMMA SecondsAppend ==
    ASSUME NEW ph \in Seq(Phase), NEW x \in Phase
    PROVE  Seconds(Append(ph, x)) = Seconds(ph) \o Copies(x.len, x.use)
<1> DEFINE n == Len(ph)
           more == Append(ph, x)
<1>1. n \in Nat /\ Len(more) = n + 1 /\ more[n + 1] = x /\ \A k \in 1..n : more[k] = ph[k]
  OBVIOUS
<1>2. x.use # NoUse
  BY NoUseAssumption DEF Phase
<1> HIDE DEF n, more
<1>3. PICK u : Reads(ph, n, u) /\ Seconds(ph) = u[n].list
  BY <1>1, SecondsRead DEF n
<1>4. PICK v : Reads(more, n + 1, v) /\ Seconds(more) = v[n + 1].list
  BY <1>1, SecondsRead
<1>5. Reads(more, n, v) /\ v[n + 1] = ReadRow(v[n], more[n + 1])
  BY <1>1, <1>4 DEF Reads
<1>6. u[n] = v[n]
  BY <1>1, <1>3, <1>5, ReadsAgree
<1>7. v[n + 1].list = v[n].list \o Copies(x.len, x.use)
  <2>1. v[n + 1] = ReadRow(v[n], x)
    BY <1>1, <1>5
  <2>2. ReadRow(v[n], x).list = v[n].list \o Copies(x.len, x.use)
    BY <1>2 DEF ReadRow
  <2> QED BY <2>1, <2>2
<1> QED BY <1>3, <1>4, <1>6, <1>7 DEF more

LEMMA SecondsEmpty == Seconds(<< >>) = << >>
<1>1. PICK u : Reads(<< >>, Len(<< >>), u) /\ Seconds(<< >>) = u[Len(<< >>)].list
  <2>1. Len(<< >>) \in Nat
    OBVIOUS
  <2> QED BY <2>1, SecondsRead
<1>2. Len(<< >>) = 0
  OBVIOUS
<1> QED BY <1>1, <1>2 DEF Reads, NothingRead
\* Copies in a list.
LEMMA CopiesList ==
    ASSUME NEW l \in Nat, NEW v \in Nat
    PROVE  Copies(l, v) \in Seq(Nat) /\ Len(Copies(l, v)) = l
BY DEF Copies

LEMMA Joined ==
    ASSUME NEW s \in Seq(Nat), NEW r \in Seq(Nat)
    PROVE  /\ s \o r \in Seq(Nat) /\ Len(s) \in Nat /\ Len(r) \in Nat
           /\ Len(s \o r) = Len(s) + Len(r)
           /\ \A i \in 1..(Len(s) + Len(r)) :
                 (s \o r)[i] = IF i <= Len(s) THEN s[i] ELSE r[i - Len(s)]
OBVIOUS

LEMMA SameLists ==
    ASSUME NEW s \in Seq(Nat), NEW r \in Seq(Nat), Len(s) = Len(r),
           \A i \in 1..Len(s) : s[i] = r[i]
    PROVE  s = r
OBVIOUS

LEMMA CopiesMore ==
    ASSUME NEW s \in Seq(Nat), NEW k \in Nat, NEW l \in Nat, NEW v \in Nat
    PROVE  (s \o Copies(k, v)) \o Copies(l, v) = s \o Copies(k + l, v)
<1> DEFINE x == Copies(k, v)
           y == Copies(l, v)
           z == Copies(k + l, v)
<1>1. /\ x \in Seq(Nat) /\ Len(x) = k /\ y \in Seq(Nat) /\ Len(y) = l
      /\ z \in Seq(Nat) /\ Len(z) = k + l /\ k + l \in Nat
  BY CopiesList
<1>2. /\ \A i \in 1..k : x[i] = v
      /\ \A i \in 1..l : y[i] = v
      /\ \A i \in 1..(k + l) : z[i] = v
  BY DEF Copies
<1> HIDE DEF x, y, z
<1> DEFINE n == Len(s)
           sx == s \o x
           a == sx \o y
           b == s \o z
<1>3. /\ sx \in Seq(Nat) /\ n \in Nat /\ Len(sx) = n + k
      /\ \A i \in 1..(n + k) : sx[i] = IF i <= n THEN s[i] ELSE x[i - n]
  BY <1>1, Joined
<1> HIDE DEF sx
<1>4. /\ a \in Seq(Nat) /\ Len(a) = (n + k) + l
      /\ \A i \in 1..((n + k) + l) : a[i] = IF i <= n + k THEN sx[i] ELSE y[i - (n + k)]
  <2>1. /\ a \in Seq(Nat) /\ Len(a) = Len(sx) + Len(y)
        /\ \A i \in 1..(Len(sx) + Len(y)) :
              a[i] = IF i <= Len(sx) THEN sx[i] ELSE y[i - Len(sx)]
    BY <1>1, <1>3, Joined
  <2> HIDE DEF a, n
  <2> QED BY <1>1, <1>3, <2>1
<1>5. /\ b \in Seq(Nat) /\ Len(b) = n + (k + l)
      /\ \A i \in 1..(n + (k + l)) : b[i] = IF i <= n THEN s[i] ELSE z[i - n]
  BY <1>1, Joined
<1> HIDE DEF a, b, n
<1>6. ASSUME NEW i \in 1..(n + (k + l)) PROVE a[i] = b[i]
  <2>0. i \in Int /\ i >= 1 /\ i <= n + (k + l) /\ i \in 1..((n + k) + l)
    BY <1>3
  <2>1. CASE i <= n
    <3>1. i \in 1..(n + k) /\ i <= n + k
      BY <1>3, <2>0, <2>1
    <3> QED BY <1>3, <1>4, <1>5, <2>0, <2>1, <3>1
  <2>2. CASE ~(i <= n)
    <3>1. i - n \in 1..(k + l)
      BY <1>3, <2>0, <2>2
    <3>2. b[i] = v
      BY <1>2, <1>5, <2>2, <3>1
    <3>3. CASE i <= n + k
      <4>1. i - n \in 1..k /\ i \in 1..(n + k)
        BY <1>3, <2>0, <2>2, <3>3
      <4>2. sx[i] = v
        BY <1>2, <1>3, <2>2, <4>1
      <4> QED BY <1>4, <2>0, <3>2, <3>3, <4>2
    <3>4. CASE ~(i <= n + k)
      <4>1. i - (n + k) \in 1..l
        BY <1>3, <2>0, <3>4
      <4>2. y[i - (n + k)] = v
        BY <1>2, <4>1
      <4> QED BY <1>4, <2>0, <3>2, <3>4, <4>2
    <3> QED BY <3>3, <3>4
  <2> QED BY <2>1, <2>2
<1>7. a = b
  <2>1. Len(a) = n + (k + l)
    BY <1>3, <1>4
  <2> QED BY <1>4, <1>5, <1>6, <2>1, SameLists
<1> QED BY <1>7 DEF a, b, sx, x, y, z, n

LEMMA CopiesCut ==
    ASSUME NEW s \in Seq(Nat), NEW k \in Nat, NEW v \in Nat,
           NEW m \in Nat, m <= Len(s) + k, Len(s) <= m
    PROVE  SubSeq(s \o Copies(k, v), 1, m) = s \o Copies(m - Len(s), v)
<1> DEFINE x == Copies(k, v)
           y == Copies(m - Len(s), v)
<1>1. Len(s) \in Nat /\ m - Len(s) \in Nat
  OBVIOUS
<1>2. x \in Seq(Nat) /\ Len(x) = k /\ y \in Seq(Nat) /\ Len(y) = m - Len(s)
  BY <1>1, CopiesList
<1>3. (\A i \in 1..k : x[i] = v) /\ \A i \in 1..(m - Len(s)) : y[i] = v
  BY <1>1 DEF Copies
<1> HIDE DEF x, y
<1> DEFINE sx == s \o x
           b == s \o y
<1>4. /\ sx \in Seq(Nat) /\ Len(sx) = Len(s) + k
      /\ \A i \in 1..(Len(s) + k) : sx[i] = IF i <= Len(s) THEN s[i] ELSE x[i - Len(s)]
  BY <1>2, Joined
<1>5. b \in Seq(Nat) /\ Len(b) = m
      /\ \A i \in 1..m : b[i] = IF i <= Len(s) THEN s[i] ELSE y[i - Len(s)]
  <2>1. Len(s) + Len(y) = m
    BY <1>1, <1>2
  <2> QED BY <1>2, <2>1, Joined
<1> HIDE DEF sx, b
<1> DEFINE a == SubSeq(sx, 1, m)
<1>6. a \in Seq(Nat) /\ Len(a) = m /\ \A i \in 1..m : a[i] = sx[i]
  BY <1>4
<1> HIDE DEF a
<1>7. ASSUME NEW i \in 1..m PROVE a[i] = b[i]
  <2>1. i \in 1..(Len(s) + k)
    BY <1>1
  <2>2. CASE i <= Len(s)
    BY <1>4, <1>5, <1>6, <2>1, <2>2
  <2>3. CASE Len(s) < i
    <3>1. i - Len(s) \in 1..k /\ i - Len(s) \in 1..(m - Len(s))
      BY <1>1, <2>1, <2>3
    <3> QED BY <1>1, <1>3, <1>4, <1>5, <1>6, <2>1, <2>3, <3>1
  <2> QED BY <1>1, <2>2, <2>3
<1>8. a = b
  BY <1>5, <1>6, <1>7, SameLists
<1> QED BY <1>8 DEF a, b, sx, x, y

LEMMA CutLonger ==
    ASSUME NEW s \in Seq(Nat), NEW r \in Seq(Nat), NEW m \in Nat, m <= Len(s)
    PROVE  SubSeq(s \o r, 1, m) = SubSeq(s, 1, m)
<1>1. /\ SubSeq(s \o r, 1, m) \in Seq(Nat) /\ SubSeq(s, 1, m) \in Seq(Nat)
      /\ Len(SubSeq(s \o r, 1, m)) = m /\ Len(SubSeq(s, 1, m)) = m
  OBVIOUS
<1>2. \A i \in 1..m : SubSeq(s \o r, 1, m)[i] = SubSeq(s, 1, m)[i]
  OBVIOUS
<1> QED BY <1>1, <1>2

LEMMA SecondsList ==
    ASSUME NEW ph \in Seq(Phase) PROVE Seconds(ph) \in Seq(Nat)
<1> DEFINE L == Len(ph)
<1>0. L \in Nat /\ \A k \in 1..L : ph[k] \in Phase
  OBVIOUS
<1>1. L \in Nat /\ \A k \in 1..L : ph[k].len \in Nat /\ ph[k].use \in Nat
  BY <1>0 DEF Phase
<1>2. PICK u : Reads(ph, L, u) /\ Seconds(ph) = u[L].list
  BY <1>0, SecondsRead
<1> DEFINE D == {k \in Nat : k <= L => u[k].list \in Seq(Nat)}
<1> HIDE DEF L
<1>3. 0 \in D
  <2>1. u[0].list = << >>
    BY <1>2 DEF Reads, NothingRead
  <2>2. << >> \in Seq(Nat)
    OBVIOUS
  <2> QED BY <2>1, <2>2
<1>4. ASSUME NEW k \in Nat, k \in D PROVE k + 1 \in D
  <2> SUFFICES ASSUME k + 1 <= L PROVE u[k + 1].list \in Seq(Nat)
    OBVIOUS
  <2> DEFINE x == ph[k + 1]
  <2>1. k + 1 \in 1..L /\ (k + 1) - 1 = k /\ k <= L
    BY <1>1
  <2>2. x.len \in Nat /\ x.use \in Nat /\ x.use # NoUse /\ u[k].list \in Seq(Nat)
    BY <1>1, <1>4, <2>1, NoUseAssumption
  <2>3. u[k + 1] = ReadRow(u[k], x)
    BY <1>2, <2>1 DEF Reads
  <2> HIDE DEF x
  <2>4. ReadRow(u[k], x).list = u[k].list \o Copies(x.len, x.use)
    BY <2>2 DEF ReadRow
  <2>5. Copies(x.len, x.use) \in Seq(Nat)
    BY <2>2, CopiesList
  <2> QED BY <2>2, <2>3, <2>4, <2>5
<1> HIDE DEF D
<1>5. Nat \subseteq D
  BY <1>3, <1>4, Induction
<1> QED BY <1>1, <1>2, <1>5 DEF D

LEMMA Beginning ==
    ASSUME NEW S, NEW s \in Seq(S), NEW m \in 0..Len(s)
    PROVE  SubSeq(s, 1, m) \in Seq(S) /\ Len(SubSeq(s, 1, m)) = m
OBVIOUS

LEMMA SecondsExtend ==
    ASSUME NEW ph \in Seq(Phase), NEW l \in Nat, Len(ph) > 0
    PROVE  Seconds([ph EXCEPT ![Len(ph)].len = @ + l])
              = Seconds(ph) \o Copies(l, ph[Len(ph)].use)
<1> DEFINE n == Len(ph)
           front == SubSeq(ph, 1, n - 1)
           x == ph[n]
           y == [len |-> x.len + l, use |-> x.use]
           longer == [ph EXCEPT ![n].len = @ + l]
<1>1. n \in Nat /\ n > 0 /\ x \in Phase /\ front \in Seq(Phase) /\ Len(front) = n - 1
  <2>1. n \in Nat /\ n > 0 /\ n \in 1..Len(ph) /\ n - 1 \in 0..Len(ph)
    OBVIOUS
  <2>2. x \in Phase
    BY <2>1
  <2>3. front \in Seq(Phase) /\ Len(front) = n - 1
    BY <2>1, Beginning
  <2> HIDE DEF n, front, x
  <2> QED BY <2>1, <2>2, <2>3
<1>2. x.len \in Nat /\ x.use \in Nat /\ y \in Phase
  BY <1>1 DEF Phase
<1>3. ph = Append(front, x)
  OBVIOUS
<1>4. longer = Append(front, y)
  <2>1. [x EXCEPT !.len = @ + l] = y
    BY <1>1 DEF Phase
  <2>2. longer = [ph EXCEPT ![n] = y]
    BY <2>1
  <2> HIDE DEF y, longer
  <2>3. longer \in Seq(Phase) /\ Len(longer) = n
    BY <1>2, <2>2
  <2>4. \A k \in 1..n : longer[k] = IF k = n THEN y ELSE ph[k]
    BY <2>2
  <2>5. Append(front, y) \in Seq(Phase) /\ Len(Append(front, y)) = n
    BY <1>1, <1>2
  <2>6. \A k \in 1..n : Append(front, y)[k] = IF k = n THEN y ELSE ph[k]
    BY <1>1, <1>2
  <2> QED BY <2>3, <2>4, <2>5, <2>6
<1>5. y.len = x.len + l /\ y.use = x.use
  OBVIOUS
<1> HIDE DEF n, front, x, y, longer
<1>6. Seconds(longer) = Seconds(front) \o Copies(x.len + l, x.use)
  BY <1>1, <1>2, <1>4, <1>5, SecondsAppend
<1>7. Seconds(ph) = Seconds(front) \o Copies(x.len, x.use)
  BY <1>1, <1>3, SecondsAppend
<1>8. Seconds(front) \in Seq(Nat)
  BY <1>1, SecondsList
<1>9. (Seconds(front) \o Copies(x.len, x.use)) \o Copies(l, x.use)
         = Seconds(front) \o Copies(x.len + l, x.use)
  BY <1>2, <1>8, CopiesMore
<1>10. Seconds(longer) = Seconds(ph) \o Copies(l, x.use)
  BY <1>6, <1>7, <1>9
<1> QED BY <1>10 DEF longer, n, x
-----------------------------------------------------------------------------
(* The phases of a pod are the usage of its task.                          *)

\* The phases made of some rows, and what these rows say.
Agrees(a, r, m) ==
    /\ a.phases \in Seq(Phase) /\ a.use \in Nat /\ a.isStop \in BOOLEAN
    /\ r.use \in Nat /\ r.list \in Seq(Nat)
    /\ ~a.isStop => /\ a.use = r.use /\ a.taskLast = Len(r.list) /\ a.taskLast <= m
                    /\ Seconds(a.phases) = r.list
    /\ a.isStop => m < Len(r.list) /\ Seconds(a.phases) = SubSeq(r.list, 1, m)

LEMMA AgreesNext ==
    ASSUME NEW a, NEW r, NEW m \in Nat, Agrees(a, r, m), NEW row \in Row
    PROVE  Agrees(AddRow(a, row, m), ReadRow(r, row), m)
<1> DEFINE use == IF row.use = NoUse THEN r.use ELSE row.use
           x == Copies(row.len, use)
           next == AddRow(a, row, m)
<1>1. row.len \in Nat /\ use \in Nat
  BY DEF Row, Agrees
<1>2. x \in Seq(Nat) /\ Len(x) = row.len
  BY <1>1, CopiesList
<1>3. ReadRow(r, row).use = use /\ ReadRow(r, row).list = r.list \o x
  BY DEF ReadRow
<1>4. /\ r.list \o x \in Seq(Nat) /\ Len(r.list) \in Nat
      /\ Len(r.list \o x) = Len(r.list) + row.len
  <2> HIDE DEF x, use
  <2> QED BY <1>1, <1>2, Joined DEF Agrees
<1>5. CASE a.isStop
  <2>1. next = a
    BY <1>5 DEF AddRow
  <2>2. m < Len(r.list) /\ Seconds(a.phases) = SubSeq(r.list, 1, m)
    BY <1>5 DEF Agrees
  <2> HIDE DEF x, use, next
  <2>3. SubSeq(r.list \o x, 1, m) = SubSeq(r.list, 1, m)
    BY <1>2, <1>4, <2>2, CutLonger DEF Agrees
  <2>4. m < Len(r.list \o x)
    BY <1>1, <1>4, <2>2
  <2>5. Agrees(a, ReadRow(r, row), m)
    BY <1>1, <1>3, <1>4, <1>5, <2>2, <2>3, <2>4 DEF Agrees
  <2> QED BY <2>1, <2>5 DEF next
<1>6. CASE ~a.isStop
  <2> DEFINE taskLast == a.taskLast + row.len
             phaseLen == IF taskLast > m THEN row.len - (taskLast - m) ELSE row.len
             n == Len(a.phases)
             phases == IF n > 0 /\ a.phases[n].use = use
                       THEN [a.phases EXCEPT ![n].len = @ + phaseLen]
                       ELSE Append(a.phases, [len |-> phaseLen, use |-> use])
  <2>1. /\ a.phases \in Seq(Phase) /\ a.use = r.use /\ a.taskLast = Len(r.list)
        /\ a.taskLast <= m /\ Seconds(a.phases) = r.list /\ r.list \in Seq(Nat)
    BY <1>6 DEF Agrees
  <2>2. /\ next.phases = phases /\ next.use = use /\ next.taskLast = taskLast
        /\ next.isStop = (taskLast > m)
    BY <1>6, <2>1 DEF AddRow
  <2> HIDE DEF use, x, next
  <2>3. /\ taskLast \in Nat /\ taskLast = Len(r.list \o x)
        /\ phaseLen \in Nat /\ phaseLen = IF taskLast > m THEN m - Len(r.list) ELSE row.len
    <3> DEFINE l == row.len
               k == Len(r.list)
    <3>1. k \in Nat /\ l \in Nat /\ a.taskLast = k /\ k <= m /\ Len(r.list \o x) = k + l
      BY <1>1, <1>4, <2>1
    <3> HIDE DEF k, l
    <3>2. taskLast = k + l /\ phaseLen = IF k + l > m THEN l - (k + l - m) ELSE l
      BY <3>1 DEF l
    <3> QED BY <3>1, <3>2 DEF k, l
  <2> HIDE DEF phaseLen, taskLast
  <2>4. phases \in Seq(Phase) /\ Seconds(phases) = r.list \o Copies(phaseLen, use)
    <3>1. CASE n > 0 /\ a.phases[n].use = use
      <4>1. n \in 1..n /\ a.phases[n] \in Phase
        BY <2>1, <3>1
      <4>2. [a.phases[n] EXCEPT !.len = @ + phaseLen] \in Phase
        BY <2>3, <4>1 DEF Phase
      <4>3. [a.phases EXCEPT ![n].len = @ + phaseLen] \in Seq(Phase)
        BY <2>1, <4>1, <4>2
      <4>4. Seconds([a.phases EXCEPT ![n].len = @ + phaseLen])
               = Seconds(a.phases) \o Copies(phaseLen, a.phases[n].use)
        BY <2>1, <2>3, <3>1, SecondsExtend
      <4> QED BY <2>1, <3>1, <4>3, <4>4
    <3>2. CASE ~(n > 0 /\ a.phases[n].use = use)
      <4> DEFINE y == [len |-> phaseLen, use |-> use]
      <4>1. y \in Phase /\ y.len = phaseLen /\ y.use = use
        BY <1>1, <2>3 DEF Phase
      <4>2. phases = Append(a.phases, y)
        BY <3>2
      <4> HIDE DEF y, phases
      <4>3. Seconds(Append(a.phases, y)) = Seconds(a.phases) \o Copies(y.len, y.use)
        BY <2>1, <4>1, SecondsAppend
      <4>4. Append(a.phases, y) \in Seq(Phase)
        BY <2>1, <4>1
      <4> QED BY <2>1, <4>1, <4>2, <4>3, <4>4
    <3> QED BY <3>1, <3>2
  <2> HIDE DEF phases, n
  <2>5. CASE taskLast > m
    <3>1. SubSeq(r.list \o x, 1, m) = r.list \o Copies(m - Len(r.list), use)
      <4>1. m <= Len(r.list) + row.len /\ Len(r.list) <= m
        BY <1>1, <1>4, <2>1, <2>3, <2>5
      <4> QED BY <1>1, <2>1, <4>1, CopiesCut DEF x
    <3>2. Seconds(next.phases) = SubSeq(r.list \o x, 1, m) /\ next.isStop
      BY <2>2, <2>3, <2>4, <2>5, <3>1
    <3>3. m < Len(r.list \o x)
      BY <2>3, <2>5
    <3>4. next.phases \in Seq(Phase) /\ next.use \in Nat /\ next.isStop \in BOOLEAN
      BY <1>1, <2>2, <2>4
    <3> QED BY <1>1, <1>3, <1>4, <3>2, <3>3, <3>4 DEF Agrees, next
  <2>6. CASE ~(taskLast > m)
    <3>1. Seconds(next.phases) = r.list \o x /\ ~next.isStop
      BY <2>2, <2>3, <2>4, <2>6 DEF x
    <3>2. next.taskLast = Len(r.list \o x) /\ next.taskLast <= m
      BY <2>2, <2>3, <2>6
    <3>3. next.phases \in Seq(Phase) /\ next.use = use /\ next.isStop \in BOOLEAN
      BY <2>2, <2>4
    <3> QED BY <1>1, <1>3, <1>4, <3>1, <3>2, <3>3 DEF Agrees, next
  <2> QED BY <2>5, <2>6
<1>7. a.isStop \in BOOLEAN
  BY DEF Agrees
<1> QED BY <1>5, <1>6, <1>7
LEMMA ConvertedAsTraced ==
    ASSUME NEW t \in Tasks, NEW m \in Nat
    PROVE  LET whole == Seconds(Rows[t])
           IN  /\ Seconds(ConvertTraceToPod(t, m)) = SubSeq(whole, 1, Smaller(Len(whole), m))
               /\ ConvertTraceToPod(t, m) \in Seq(Phase) /\ whole \in Seq(Nat)
<1> DEFINE rows == Rows[t]
           L == Len(rows)
           whole == Seconds(rows)
<1>1. rows \in Seq(Row)
  BY TasksAssumption DEF Row
<1>2. L \in Nat /\ \A k \in 1..L : rows[k] \in Row
  BY <1>1
<1>3. PICK at : Converts(rows, m, L, at) /\ ConvertTraceToPod(t, m) = at[L].phases
  BY ConvertedBy
<1>4. PICK u : Reads(rows, L, u) /\ whole = u[L].list
  BY <1>2, SecondsRead
<1> DEFINE D == {k \in Nat : k <= L => Agrees(at[k], u[k], m)}
<1> HIDE DEF rows, L, whole
<1>5. 0 \in D
  <2>1. at[0] = NoPhases /\ u[0] = NothingRead
    BY <1>3, <1>4 DEF Converts, Reads
  <2>2. << >> \in Seq(Phase) /\ << >> \in Seq(Nat) /\ Len(<< >>) = 0
    OBVIOUS
  <2>3. Agrees(NoPhases, NothingRead, m)
    BY <2>2, SecondsEmpty DEF Agrees, NoPhases, NothingRead
  <2> QED BY <2>1, <2>3
<1>6. ASSUME NEW k \in Nat, k \in D PROVE k + 1 \in D
  <2> SUFFICES ASSUME k + 1 <= L PROVE Agrees(at[k + 1], u[k + 1], m)
    OBVIOUS
  <2>1. k + 1 \in 1..L /\ (k + 1) - 1 = k /\ k <= L
    BY <1>2
  <2>2. at[k + 1] = AddRow(at[k], rows[k + 1], m)
    BY <1>3, <2>1 DEF Converts
  <2>3. u[k + 1] = ReadRow(u[k], rows[k + 1])
    BY <1>4, <2>1 DEF Reads
  <2>4. Agrees(at[k], u[k], m) /\ rows[k + 1] \in Row
    BY <1>2, <1>6, <2>1
  <2> QED BY <2>2, <2>3, <2>4, AgreesNext
<1> HIDE DEF D
<1>7. Nat \subseteq D
  BY <1>5, <1>6, Induction
<1>8. Agrees(at[L], u[L], m)
  BY <1>2, <1>7 DEF D
<1> DEFINE a == at[L]
<1>9. whole \in Seq(Nat) /\ Len(whole) \in Nat
  BY <1>4, <1>8 DEF Agrees
<1>12. ConvertTraceToPod(t, m) \in Seq(Phase)
  BY <1>3, <1>8 DEF Agrees
<1>10. ASSUME a.isStop
       PROVE  Seconds(ConvertTraceToPod(t, m)) = SubSeq(whole, 1, Smaller(Len(whole), m))
  <2>1. m < Len(whole) /\ Seconds(a.phases) = SubSeq(whole, 1, m)
    BY <1>4, <1>8, <1>10 DEF Agrees
  <2>2. Smaller(Len(whole), m) = m
    BY <1>9, <2>1 DEF Smaller
  <2> QED BY <1>3, <2>1, <2>2
<1>11. ASSUME ~a.isStop
       PROVE  Seconds(ConvertTraceToPod(t, m)) = SubSeq(whole, 1, Smaller(Len(whole), m))
  <2>1. Len(whole) <= m /\ Seconds(a.phases) = whole
    BY <1>4, <1>8, <1>11 DEF Agrees
  <2>2. Smaller(Len(whole), m) = Len(whole)
    BY <1>9, <2>1 DEF Smaller
  <2>3. SubSeq(whole, 1, Len(whole)) = whole
    BY <1>9
  <2> QED BY <1>3, <2>1, <2>2, <2>3
<1> QED BY <1>9, <1>10, <1>11, <1>12 DEF whole, rows

Traced ==
    isConvertTrace =>
        /\ stage \notin {"generate", "generated"}
        /\ \A f \in files : /\ f.task \in Tasks /\ EndClock - f.clock \in Nat
                            /\ f.phases = ConvertTraceToPod(f.task, EndClock - f.clock)

LEMMA TracedKept == FilesInv /\ Traced /\ [Next]_vars => Traced'
<1> SUFFICES ASSUME FilesInv, Traced, [Next]_vars, isConvertTrace
             PROVE  Traced'
  BY DEF Traced, Next, vars, programVars, Convert, StartLoad, Generate, Load, Return
<1>a. ASSUME UNCHANGED <<isConvertTrace, files>>, stage' \notin {"generate", "generated"}
      PROVE  Traced'
  BY <1>a DEF Traced
<1>1. CASE UNCHANGED vars
  BY <1>1, <1>a DEF vars, programVars, Traced
<1>2. ASSUME NEW i \in todo, Convert(i) PROVE Traced'
  <2> DEFINE t == paths[i * workloadSubsetFactor + 1]
             maxLength == EndClock - startClock(t)
             new == [clock |-> startClock(t), name |-> Name[t], folder |-> i \div SubfolderCap,
                     task |-> t, phases |-> ConvertTraceToPod(t, maxLength)]
  <2>1. t \in Selected
    BY PathOf DEF FilesInv, Paths
  <2>2. t \in Tasks /\ startClock(t) \in Nat /\ EndClock \in Nat
    BY <2>1, StartClockMultiple, MultipleNext, TickAssumption, TimeAssumption DEF Selected
  <2>3. /\ files' = IF maxLength > 0 /\ t \notin Malformed THEN files \cup {new} ELSE files
        /\ UNCHANGED <<isConvertTrace, stage>>
    BY <1>2 DEF Convert, programVars
  <2>4. new.task = t /\ new.clock = startClock(t) /\ new.phases = ConvertTraceToPod(t, maxLength)
    OBVIOUS
  <2> HIDE DEF new, t
  <2>5. maxLength > 0 => maxLength \in Nat
    BY <2>2
  <2> QED BY <2>2, <2>3, <2>4, <2>5 DEF Traced
<1>3. CASE StartLoad
  BY <1>3, <1>a DEF StartLoad, programVars
<1>4. ASSUME NEW started \in 0..Cardinality(Tasks), NEW ended \in 0..Cardinality(Tasks),
             Generate(started, ended)
      PROVE  Traced'
  BY <1>4 DEF Generate, Traced
<1>5. ASSUME NEW started \in 0..Cardinality(Tasks), NEW ended \in 0..Cardinality(Tasks),
             Load(started, ended)
      PROVE  Traced'
  BY <1>5, <1>a DEF Load, programVars
<1>6. CASE Return
  BY <1>6, <1>a DEF Return, programVars, Traced
<1> QED BY <1>1, <1>2, <1>3, <1>4, <1>5, <1>6 DEF Next

\* The phases of each pod that was converted are, second by second, the usage of its
\* task up to the end clock, for any rows: whichever are invalid, equal to the one
\* before, or cut (utils.go:102).
THEOREM WorkloadUsageAsTraced == Spec => []UsageAsTraced
<1>1. Init => Generating /\ FilesInv /\ Traced
  <2> SUFFICES ASSUME Init PROVE Traced
    BY InitFiles
  <2> QED BY DEF Init, Traced
<1>2. Traced => UsageAsTraced
  BY ConvertedAsTraced DEF Traced, UsageAsTraced
<1>3. Generating /\ FilesInv /\ Traced /\ [Next]_vars => (Generating /\ FilesInv /\ Traced)'
  BY GeneratingKept, FilesKept, TracedKept
<1> QED BY <1>1, <1>2, <1>3, PTL DEF Spec

-----------------------------------------------------------------------------
(* One pod: sums of the lengths of phases.                                 *)

\* The phases of SimPod, and their sums.
PodPhase == [seconds : Nat, usage : Nat]

Sums(s, m, u) == u = [n \in 0..m |-> IF n = 0 THEN 0 ELSE u[n - 1] + s[n].seconds]

LEMMA SumsExist ==
    ASSUME NEW s, NEW L \in Nat
    PROVE  \E u : Sums(s, L, u)
<1> DEFINE D == {m \in Nat : \E u : Sums(s, m, u)}
<1>1. 0 \in D
  <2> DEFINE u == [n \in 0..0 |-> 0]
  <2>1. u = [n \in 0..0 |-> IF n = 0 THEN 0 ELSE u[n - 1] + s[n].seconds]
    OBVIOUS
  <2> HIDE DEF u
  <2> QED BY <2>1 DEF Sums
<1>2. ASSUME NEW m \in Nat, m \in D PROVE m + 1 \in D
  <2>1. PICK u : Sums(s, m, u)
    BY <1>2
  <2> DEFINE v == [n \in 0..(m + 1) |-> IF n = m + 1 THEN u[m] + s[n].seconds ELSE u[n]]
  <2>2. \A n \in 0..m : u[n] = IF n = 0 THEN 0 ELSE u[n - 1] + s[n].seconds
    BY <2>1 DEF Sums
  <2>3. ASSUME NEW n \in 0..(m + 1)
        PROVE  v[n] = IF n = 0 THEN 0 ELSE v[n - 1] + s[n].seconds
    <3>1. CASE n = m + 1
      <4>1. n # 0 /\ n - 1 = m /\ m \in 0..(m + 1) /\ m # m + 1
        BY <3>1
      <4>2. v[n] = u[m] + s[n].seconds /\ v[m] = u[m]
        BY <3>1, <4>1
      <4> HIDE DEF v
      <4> QED BY <4>1, <4>2
    <3>2. CASE n = 0
      BY <2>2, <3>2
    <3>3. CASE n # 0 /\ n # m + 1
      <4>1. n \in 0..m /\ n - 1 \in 0..(m + 1) /\ n - 1 # m + 1
        BY <3>3
      <4>2. v[n] = u[n] /\ v[n - 1] = u[n - 1]
        BY <3>3, <4>1
      <4> HIDE DEF v
      <4> QED BY <2>2, <3>3, <4>1, <4>2
    <3> QED BY <3>1, <3>2, <3>3
  <2>4. v = [n \in 0..(m + 1) |-> IF n = 0 THEN 0 ELSE v[n - 1] + s[n].seconds]
    <3>1. v = [n \in 0..(m + 1) |-> v[n]]
      OBVIOUS
    <3> HIDE DEF v
    <3> QED BY <2>3, <3>1
  <2> HIDE DEF v
  <2> QED BY <2>4 DEF Sums
<1> HIDE DEF D
<1>3. L \in D
  BY <1>1, <1>2, Induction
<1> QED BY <1>3 DEF D

\* Until adds one length after the other.
LEMMA UntilNext ==
    ASSUME NEW s, Len(s) \in Nat
    PROVE  /\ Until(s, 0) = 0
           /\ \A i \in 1..Len(s) : Until(s, i) = Until(s, i - 1) + s[i].seconds
<1> DEFINE sum == CHOOSE u : Sums(s, Len(s), u)
<1>1. Sums(s, Len(s), sum)
  BY SumsExist
<1>2. \A i \in 0..Len(s) : Until(s, i) = sum[i]
  BY DEF Until, Sums
<1> HIDE DEF sum
<1>3. \A i \in 0..Len(s) : sum[i] = IF i = 0 THEN 0 ELSE sum[i - 1] + s[i].seconds
  BY <1>1 DEF Sums
<1>4. ASSUME NEW i \in 1..Len(s) PROVE Until(s, i) = Until(s, i - 1) + s[i].seconds
  <2>1. i \in 0..Len(s) /\ i # 0 /\ i - 1 \in 0..Len(s)
    OBVIOUS
  <2> QED BY <1>2, <1>3, <2>1
<1> QED BY <1>2, <1>3, <1>4

LEMMA PhaseOf ==
    ASSUME NEW s \in Seq(PodPhase)
    PROVE  Len(s) \in Nat /\ \A i \in 1..Len(s) : s[i] \in PodPhase /\ s[i].seconds \in Nat
<1>1. Len(s) \in Nat /\ \A i \in 1..Len(s) : s[i] \in PodPhase
  OBVIOUS
<1> QED BY <1>1 DEF PodPhase

LEMMA UntilNat ==
    ASSUME NEW s \in Seq(PodPhase)
    PROVE  \A i \in 0..Len(s) : Until(s, i) \in Nat
<1> DEFINE L == Len(s)
           D == {n \in Nat : n <= L => Until(s, n) \in Nat}
<1>1. L \in Nat /\ \A i \in 1..L : s[i].seconds \in Nat
  BY PhaseOf
<1>2. Until(s, 0) = 0 /\ \A i \in 1..L : Until(s, i) = Until(s, i - 1) + s[i].seconds
  BY UntilNext
<1> HIDE DEF L
<1>3. 0 \in D
  BY <1>2
<1>4. ASSUME NEW n \in Nat, n \in D PROVE n + 1 \in D
  <2> SUFFICES ASSUME n + 1 <= L PROVE Until(s, n + 1) \in Nat
    OBVIOUS
  <2>1. n + 1 \in 1..L /\ (n + 1) - 1 = n /\ n <= L
    BY <1>1
  <2> QED BY <1>1, <1>2, <1>4, <2>1
<1> HIDE DEF D
<1>5. Nat \subseteq D
  BY <1>3, <1>4, Induction
<1> QED BY <1>5 DEF D, L

LEMMA UntilGrows ==
    ASSUME NEW s \in Seq(PodPhase), NEW i \in 0..Len(s), NEW j \in i..Len(s)
    PROVE  Until(s, i) <= Until(s, j)
<1> DEFINE L == Len(s)
           D == {n \in Nat : i + n <= L => Until(s, i) <= Until(s, i + n)}
<1>1. L \in Nat /\ \A k \in 1..L : s[k].seconds \in Nat
  BY PhaseOf
<1>2. \A k \in 1..L : Until(s, k) = Until(s, k - 1) + s[k].seconds
  BY UntilNext
<1>3. \A k \in 0..L : Until(s, k) \in Nat
  BY UntilNat
<1>4. i \in 0..L /\ j \in i..L
  OBVIOUS
<1> HIDE DEF L
<1>5. 0 \in D
  BY <1>1, <1>3, <1>4
<1>6. ASSUME NEW n \in Nat, n \in D PROVE n + 1 \in D
  <2> SUFFICES ASSUME i + (n + 1) <= L PROVE Until(s, i) <= Until(s, i + (n + 1))
    OBVIOUS
  <2> DEFINE k == i + (n + 1)
  <2>1. k \in 1..L /\ k - 1 = i + n /\ k - 1 \in 0..L /\ i + n <= L
    BY <1>1, <1>4
  <2>2. Until(s, i) <= Until(s, k - 1)
    BY <1>6, <2>1
  <2> HIDE DEF k
  <2>3. Until(s, k) = Until(s, k - 1) + s[k].seconds /\ s[k].seconds \in Nat
    BY <1>1, <1>2, <2>1
  <2> HIDE DEF D
  <2>4. Until(s, i) <= Until(s, k)
    BY <1>3, <1>4, <2>1, <2>2, <2>3
  <2> QED BY <2>4 DEF k
<1> HIDE DEF D
<1>7. Nat \subseteq D
  BY <1>5, <1>6, Induction
<1>8. j - i \in Nat /\ i + (j - i) = j /\ j <= L
  BY <1>1, <1>4
<1>9. j - i \in D
  BY <1>7, <1>8
<1> QED BY <1>8, <1>9 DEF D

-----------------------------------------------------------------------------
(* The phases that a pod keeps are those of its file from the current one  *)
(* on, the first of them with the length of all that are over.             *)

\* The list s of phases starts at position c + 1 of the file.
Window(s, c) ==
    \A i \in 1..Len(s) :
        s[i] = [seconds |-> IF i = 1 THEN Until(file, c + 1) ELSE file[c + i].seconds,
                usage |-> c + i]

Files == file \in Seq(PodPhase) /\ \A i \in 1..numPhase : file[i].usage = i

LEMMA WindowUntil ==
    ASSUME Files, NEW s \in Seq(PodPhase), NEW c \in Nat, Window(s, c), c + Len(s) <= numPhase
    PROVE  \A i \in 1..Len(s) : Until(s, i) = Until(file, c + i)
<1> DEFINE L == Len(s)
           D == {n \in Nat : n + 1 <= L => Until(s, n + 1) = Until(file, c + (n + 1))}
<1>1. /\ L \in Nat /\ numPhase \in Nat /\ c + L <= numPhase
      /\ \A i \in 1..L : s[i].seconds \in Nat
      /\ \A i \in 1..L : s[i].seconds = IF i = 1 THEN Until(file, c + 1)
                                                  ELSE file[c + i].seconds
  <2>1. L \in Nat /\ \A i \in 1..L : s[i].seconds \in Nat
    BY PhaseOf
  <2>2. numPhase \in Nat
    BY PhaseOf DEF Files, numPhase
  <2>3. \A i \in 1..L : s[i].seconds = IF i = 1 THEN Until(file, c + 1)
                                              ELSE file[c + i].seconds
    <3> SUFFICES ASSUME NEW i \in 1..Len(s)
                 PROVE  s[i].seconds = IF i = 1 THEN Until(file, c + 1) ELSE file[c + i].seconds
      OBVIOUS
    <3>1. s[i] = [seconds |-> IF i = 1 THEN Until(file, c + 1) ELSE file[c + i].seconds,
                  usage |-> c + i]
      BY DEF Window
    <3> QED BY <3>1
  <2> QED BY <2>1, <2>2, <2>3
<1>2. /\ Until(s, 0) = 0
      /\ \A i \in 1..L : Until(s, i) = Until(s, i - 1) + s[i].seconds
  BY <1>1, UntilNext
<1>3. \A i \in 1..numPhase : Until(file, i) = Until(file, i - 1) + file[i].seconds
  BY <1>1, UntilNext DEF numPhase
<1> HIDE DEF L
<1>4. 0 \in D
  <2> SUFFICES ASSUME 1 <= L PROVE Until(s, 1) = Until(file, c + 1)
    OBVIOUS
  <2>1. 1 \in 1..L /\ 1 - 1 = 0
    BY <1>1
  <2> QED BY <1>1, <1>2, <2>1
<1>5. ASSUME NEW n \in Nat, n \in D PROVE n + 1 \in D
  <2> SUFFICES ASSUME (n + 1) + 1 <= L
               PROVE  Until(s, (n + 1) + 1) = Until(file, c + ((n + 1) + 1))
    OBVIOUS
  <2> DEFINE k == (n + 1) + 1
  <2>1. /\ k \in 1..L /\ k # 1 /\ k - 1 = n + 1 /\ n + 1 <= L
        /\ c + k \in 1..numPhase /\ (c + k) - 1 = c + (n + 1)
    BY <1>1
  <2>2. Until(s, k - 1) = Until(file, (c + k) - 1)
    BY <1>5, <2>1
  <2> HIDE DEF k, D
  <2>3. Until(s, k) = Until(s, k - 1) + file[c + k].seconds
    BY <1>1, <1>2, <2>1
  <2>4. Until(file, c + k) = Until(file, (c + k) - 1) + file[c + k].seconds
    BY <1>3, <2>1
  <2>5. Until(s, k) = Until(file, c + k)
    BY <2>2, <2>3, <2>4
  <2> QED BY <2>5 DEF k
<1> HIDE DEF D
<1>6. Nat \subseteq D
  BY <1>4, <1>5, Induction
<1>7. ASSUME NEW i \in 1..L PROVE Until(s, i) = Until(file, c + i)
  <2>1. i - 1 \in Nat /\ (i - 1) + 1 = i /\ i <= L
    BY <1>1
  <2>2. i - 1 \in D
    BY <1>6, <2>1
  <2> QED BY <2>1, <2>2 DEF D
<1> QED BY <1>7 DEF L

-----------------------------------------------------------------------------
(* The invariant.                                                          *)

\* The phases that are loaded are a window of the file that is not left behind by
\* the time, and a pod was deleted within them.
PodInv ==
    /\ Files
    /\ spec \in Seq(PodPhase) /\ currentPhase \in Nat /\ loadPhase \in Nat
    /\ loadPhase <= numPhase /\ Len(spec) = loadPhase - currentPhase
    /\ numPhase > 0 => currentPhase < loadPhase
    /\ Window(spec, currentPhase)
    /\ path = (loadPhase < numPhase)
    /\ status \in {"Ok", "Deleted"} /\ deletedAt \in Nat /\ age \in Nat
    /\ status = "Deleted" => deletedAt < Until(file, loadPhase)
    /\ Until(file, currentPhase) <= RealTime
    /\ usage \in Nat

LEMMA SpecUntil ==
    ASSUME PodInv
    PROVE  /\ \A i \in 1..Len(spec) : Until(spec, i) = Until(file, currentPhase + i)
           /\ totalExecutionDuration = Until(file, loadPhase)
           /\ Until(file, loadPhase) \in Nat /\ Until(file, currentPhase) \in Nat
           /\ RealTime \in Nat
<1> DEFINE L == Len(spec)
<1>1. L \in Nat /\ L = loadPhase - currentPhase /\ currentPhase + L <= numPhase /\ numPhase \in Nat
  BY PhaseOf DEF PodInv, numPhase, Files
<1>2. \A i \in 1..L : Until(spec, i) = Until(file, currentPhase + i)
  BY <1>1, WindowUntil DEF PodInv
<1>3. totalExecutionDuration = Until(file, loadPhase)
  <2>1. CASE L = 0
    <3>1. numPhase = 0 /\ loadPhase = 0
      BY <1>1, <2>1 DEF PodInv
    <3>2. Until(spec, 0) = 0 /\ Until(file, 0) = 0
      BY <1>1, <3>1, UntilNext DEF numPhase
    <3> QED BY <2>1, <3>1, <3>2 DEF totalExecutionDuration
  <2>2. CASE L # 0
    <3>1. L \in 1..L /\ currentPhase + L = loadPhase
      BY <1>1, <2>2 DEF PodInv
    <3> QED BY <1>2, <3>1 DEF totalExecutionDuration
  <2> QED BY <2>1, <2>2
<1>4. Until(file, loadPhase) \in Nat /\ Until(file, currentPhase) \in Nat
  <2>1. loadPhase \in 0..numPhase /\ currentPhase \in 0..numPhase
    BY <1>1 DEF PodInv
  <2> QED BY <2>1, UntilNat DEF PodInv, Files, numPhase
<1>5. RealTime \in Nat
  BY DEF RealTime, PodInv
<1> QED BY <1>2, <1>3, <1>4, <1>5

\* A pod is active when its time is within the phases that are loaded.
LEMMA ActiveWithin ==
    ASSUME PodInv
    PROVE  /\ IsRunning \/ IsTerminating =>
                 executedDuration = RealTime /\ RealTime < Until(file, loadPhase)
           /\ status = "Ok" => (IsTerminated <=> age >= Until(file, loadPhase))
           /\ status = "Ok" => (IsRunning <=> age < Until(file, loadPhase))
<1>1. /\ totalExecutionDuration = Until(file, loadPhase)
      /\ Until(file, loadPhase) \in Nat
  BY SpecUntil
<1>2. age \in Nat /\ deletedAt \in Nat /\ status \in {"Ok", "Deleted"}
      /\ (status = "Deleted" => deletedAt < Until(file, loadPhase))
  BY DEF PodInv
<1> HIDE DEF PodInv
<1> QED BY <1>1, <1>2 DEF executedDuration, IsRunning, IsTerminating, IsTerminated, RealTime

-----------------------------------------------------------------------------
(* ResourceUsage.                                                          *)

LEMMA TrimWindow ==
    ASSUME PodInv, NEW stop \in 1..Len(spec)
    PROVE  /\ Trim(stop) \in Seq(PodPhase) /\ Len(Trim(stop)) = Len(spec) - stop + 1
           /\ Window(Trim(stop), currentPhase + stop - 1)
<1> DEFINE L == Len(spec)
           x == [spec[stop] EXCEPT !.seconds = Until(spec, stop)]
           t == [spec EXCEPT ![stop] = x]
           c == currentPhase + stop - 1
<1>1. /\ spec \in Seq(PodPhase) /\ L \in Nat /\ stop \in 1..L /\ currentPhase \in Nat
      /\ spec[stop] \in PodPhase /\ Until(spec, stop) \in Nat
  <2>1. spec \in Seq(PodPhase) /\ currentPhase \in Nat
    BY DEF PodInv
  <2>2. stop \in 0..L
    BY <2>1
  <2> QED BY <2>1, <2>2, PhaseOf, UntilNat
<1>2. /\ \A i \in 1..L : spec[i] = [seconds |-> IF i = 1 THEN Until(file, currentPhase + 1)
                                                ELSE file[currentPhase + i].seconds,
                                   usage |-> currentPhase + i]
      /\ Until(spec, stop) = Until(file, currentPhase + stop)
  BY SpecUntil DEF PodInv, Window
<1>3. x \in PodPhase
  BY <1>1 DEF PodPhase
<1>4. x = [seconds |-> Until(file, c + 1), usage |-> c + 1]
  <2>1. c + 1 = currentPhase + stop
    BY <1>1
  <2>2. spec[stop].usage = currentPhase + stop
    <3>1. spec[stop] = [seconds |-> IF stop = 1 THEN Until(file, currentPhase + 1)
                                    ELSE file[currentPhase + stop].seconds,
                        usage |-> currentPhase + stop]
      BY <1>2
    <3> QED BY <3>1
  <2>3. x = [seconds |-> Until(spec, stop), usage |-> spec[stop].usage]
    BY <1>1 DEF PodPhase
  <2> HIDE DEF x, c
  <2> QED BY <1>2, <2>1, <2>2, <2>3
<1>5. t \in Seq(PodPhase) /\ Len(t) = L /\ t[stop] = x /\ \A i \in 1..L : i # stop => t[i] = spec[i]
  <2> HIDE DEF x
  <2> QED BY <1>1, <1>3
<1>6. Trim(stop) = SubSeq(t, stop, L)
  BY <1>5 DEF Trim
<1> HIDE DEF t, x, L
<1> DEFINE r == SubSeq(t, stop, L)
<1>7. /\ r \in Seq(PodPhase) /\ Len(r) = L - stop + 1
      /\ \A i \in 1..(L - stop + 1) : r[i] = t[i + stop - 1]
  BY <1>1, <1>5
<1> HIDE DEF r
<1>8. Window(r, c)
  <2> SUFFICES ASSUME NEW i \in 1..Len(r)
               PROVE  r[i] = [seconds |-> IF i = 1 THEN Until(file, c + 1) ELSE file[c + i].seconds,
                              usage |-> c + i]
    BY DEF Window
  <2>1. i \in 1..(L - stop + 1) /\ r[i] = t[i + stop - 1]
    BY <1>7
  <2>2. CASE i = 1
    <3>1. i + stop - 1 = stop
      BY <1>1, <2>2
    <3> QED BY <1>4, <1>5, <2>1, <2>2, <3>1
  <2>3. CASE i # 1
    <3> DEFINE k == i + stop - 1
    <3>1. k \in 1..L /\ k # stop /\ k # 1 /\ currentPhase + k = c + i
      BY <1>1, <2>1, <2>3
    <3> HIDE DEF k, c
    <3>2. r[i] = spec[k]
      BY <1>5, <2>1, <3>1 DEF k
    <3>3. spec[k] = [seconds |-> file[currentPhase + k].seconds, usage |-> currentPhase + k]
      BY <1>2, <3>1
    <3> QED BY <2>3, <3>1, <3>2, <3>3
  <2> QED BY <2>2, <2>3
<1> QED BY <1>6, <1>7, <1>8 DEF r, L, c

LEMMA LoadedWindow ==
    ASSUME Files, NEW s \in Seq(PodPhase), NEW c \in Nat, Window(s, c), Len(s) > 0,
           NEW l \in Nat, l = c + Len(s), NEW n \in l..numPhase
    PROVE  LET more == s \o SubSeq(file, l + 1, n)
           IN  more \in Seq(PodPhase) /\ Len(more) = n - c /\ Window(more, c)
<1> DEFINE L == Len(s)
           x == SubSeq(file, l + 1, n)
           more == s \o x
<1>1. /\ L \in Nat /\ L > 0 /\ l = c + L /\ numPhase \in Nat /\ n \in Nat /\ l <= n /\ n <= numPhase
  BY PhaseOf DEF Files, numPhase
<1>2. /\ x \in Seq(PodPhase) /\ Len(x) = n - l
      /\ \A i \in 1..(n - l) : x[i] = file[l + i]
  <2>1. file \in Seq(PodPhase) /\ numPhase = Len(file)
    BY DEF Files, numPhase
  <2> QED BY <1>1, <2>1
<1> HIDE DEF x
<1>3. /\ more \in Seq(PodPhase) /\ Len(more) = L + (n - l)
      /\ \A i \in 1..(L + (n - l)) : more[i] = IF i <= L THEN s[i] ELSE x[i - L]
  BY <1>1, <1>2
<1> HIDE DEF more, L
<1>4. L + (n - l) = n - c
  BY <1>1
<1>5. Window(more, c)
  <2> SUFFICES ASSUME NEW i \in 1..Len(more)
               PROVE  more[i] = [seconds |-> IF i = 1 THEN Until(file, c + 1) ELSE file[c + i].seconds,
                                 usage |-> c + i]
    BY DEF Window
  <2>1. i \in 1..(L + (n - l))
    BY <1>3
  <2>2. CASE i <= L
    <3>1. i \in 1..L
      BY <1>1, <2>1, <2>2
    <3> QED BY <1>3, <2>1, <2>2, <3>1 DEF Window, L
  <2>3. CASE ~(i <= L)
    <3> DEFINE k == i - L
    <3>1. k \in 1..(n - l) /\ l + k = c + i /\ i # 1 /\ c + i \in 1..numPhase
      BY <1>1, <2>1, <2>3
    <3>2. more[i] = x[k]
      BY <1>3, <2>1, <2>3
    <3> HIDE DEF k
    <3>3. more[i] = file[c + i]
      BY <1>2, <3>1, <3>2
    <3>4. file[c + i].usage = c + i
      BY <3>1 DEF Files
    <3>5. file[c + i] \in PodPhase
      BY <3>1, PhaseOf DEF Files, numPhase
    <3>6. file[c + i] = [seconds |-> file[c + i].seconds, usage |-> c + i]
      BY <3>4, <3>5 DEF PodPhase
    <3> QED BY <3>1, <3>3, <3>6
  <2> QED BY <2>2, <2>3
<1> QED BY <1>3, <1>4, <1>5 DEF more, x

\* What is read is the phase of the time, and another phase is loaded after it.
LEMMA ReadPhaseOK ==
    ASSUME PodInv, IsRunning \/ IsTerminating,
           NEW stop \in 1..Len(spec), Stop(stop), \A i \in 1..Len(spec) : Stop(i) => stop <= i,
           ReadPhase(stop), UNCHANGED <<file, status, deletedAt, age>>
    PROVE  /\ PodInv'
           /\ usage' = currentPhase' + 1 /\ usage' \in 1..numPhase
           /\ Until(file, currentPhase') <= RealTime /\ RealTime < Until(file, usage')
           /\ loadPhase <= loadPhase'
           /\ loadPhase' < numPhase => currentPhase' + 1 < loadPhase'
<1> DEFINE c == currentPhase + stop - 1
           s == IF stop > 1 THEN Trim(stop) ELSE spec
           n == IF loadPhase + LOAD_PHASE_CACHE < numPhase
                THEN loadPhase + LOAD_PHASE_CACHE ELSE numPhase
           more == NeedsMore(c)
           L == Len(spec)
<1>1. /\ spec \in Seq(PodPhase) /\ L \in Nat /\ stop \in 1..L /\ currentPhase \in Nat
      /\ loadPhase \in Nat /\ numPhase \in Nat /\ loadPhase <= numPhase
      /\ L = loadPhase - currentPhase /\ file \in Seq(PodPhase) /\ numPhase = Len(file)
      /\ path = (loadPhase < numPhase)
  BY PhaseOf DEF PodInv, Files, numPhase
<1>2. LOAD_PHASE_CACHE \in Nat /\ LOAD_PHASE_CACHE > 0
  BY ConstantsAssumption
<1>3. /\ usage' = spec[stop].usage /\ currentPhase' = c
      /\ spec' = IF more /\ path
                 THEN s \o SubSeq(file, loadPhase + 1, n) ELSE s
      /\ loadPhase' = IF more /\ path THEN n ELSE loadPhase
      /\ path' = IF more /\ path THEN n < numPhase ELSE path
  BY DEF ReadPhase, Loaded
<1>4. more => loadPhase < numPhase /\ c >= loadPhase - 1
  BY DEF NeedsMore
<1>5. ~more => loadPhase = numPhase \/ c < loadPhase - 1
  BY <1>1 DEF NeedsMore
<1>6. c \in Nat /\ c < loadPhase /\ c + 1 = currentPhase + stop /\ c + 1 \in 1..numPhase
  BY <1>1
<1>7. /\ s \in Seq(PodPhase) /\ Len(s) = loadPhase - c /\ Window(s, c)
  <2>1. CASE stop > 1
    <3>1. /\ Trim(stop) \in Seq(PodPhase) /\ Len(Trim(stop)) = L - stop + 1
          /\ Window(Trim(stop), c)
      BY TrimWindow
    <3> HIDE DEF L
    <3> QED BY <1>1, <2>1, <3>1
  <2>2. CASE stop = 1
    <3>1. c = currentPhase
      BY <1>1, <2>2
    <3>2. Window(spec, currentPhase)
      BY DEF PodInv
    <3> HIDE DEF c
    <3> QED BY <1>1, <2>2, <3>1, <3>2
  <2> QED BY <1>1, <2>1, <2>2
<1> HIDE DEF s, more
<1>8. /\ n \in Nat /\ n <= numPhase /\ loadPhase <= n
      /\ loadPhase < numPhase => loadPhase < n
  BY <1>1, <1>2
<1> HIDE DEF n, L, c
<1>9. /\ spec' \in Seq(PodPhase) /\ loadPhase' \in Nat /\ Len(spec') = loadPhase' - c
      /\ Window(spec', c) /\ loadPhase <= loadPhase' /\ loadPhase' <= numPhase
      /\ path' = (loadPhase' < numPhase)
  <2>1. CASE more /\ path
    <3>1. /\ spec' = s \o SubSeq(file, loadPhase + 1, n) /\ loadPhase' = n
          /\ path' = (n < numPhase)
      BY <1>3, <2>1
    <3>2. Files /\ Len(s) > 0 /\ loadPhase = c + Len(s) /\ n \in loadPhase..numPhase
      BY <1>1, <1>6, <1>7, <1>8 DEF PodInv
    <3>3. LET new == s \o SubSeq(file, loadPhase + 1, n)
          IN  new \in Seq(PodPhase) /\ Len(new) = n - c /\ Window(new, c)
      BY <1>1, <1>6, <1>7, <3>2, LoadedWindow
    <3> QED BY <1>1, <1>8, <3>1, <3>3
  <2>2. CASE ~(more /\ path)
    <3>1. spec' = s /\ loadPhase' = loadPhase /\ path' = path
      BY <1>3, <2>2
    <3> QED BY <1>1, <1>7, <3>1
  <2> QED BY <2>1, <2>2
<1>10. loadPhase' < numPhase => c + 1 < loadPhase'
  <2>1. CASE more
    <3>1. loadPhase' = n /\ loadPhase < n
      BY <1>1, <1>3, <1>4, <1>8, <2>1
    <3> QED BY <1>1, <1>6, <1>8, <3>1
  <2>2. CASE ~more
    <3>1. loadPhase' = loadPhase
      BY <1>3, <2>2
    <3> QED BY <1>1, <1>5, <1>6, <2>2, <3>1
  <2> QED BY <2>1, <2>2
<1>11. executedDuration = RealTime /\ RealTime \in Nat
  BY ActiveWithin, SpecUntil
<1>12. \A i \in 1..Len(spec) : Until(spec, i) = Until(file, currentPhase + i)
  BY SpecUntil
<1>13. RealTime < Until(file, c + 1)
  BY <1>6, <1>11, <1>12 DEF Stop
<1>14. Until(file, c) <= RealTime
  <2>1. CASE stop = 1
    <3>1. c = currentPhase
      BY <1>1, <2>1 DEF c
    <3> QED BY <3>1 DEF PodInv
  <2>2. CASE stop > 1
    <3>1. stop - 1 \in 1..Len(spec) /\ currentPhase + (stop - 1) = c /\ ~(stop <= stop - 1)
      BY <1>1, <2>2 DEF c
    <3>2. ~Stop(stop - 1)
      BY <3>1
    <3>3. Until(spec, stop - 1) = Until(file, c)
      BY <1>12, <3>1
    <3>4. Until(file, c) \in Nat
      <4>1. c \in 0..Len(file)
        BY <1>1, <1>6
      <4> QED BY <1>1, <4>1, UntilNat
    <3> QED BY <1>11, <3>2, <3>3, <3>4 DEF Stop
  <2> QED BY <1>1, <2>1, <2>2
<1>15. spec[stop].usage = c + 1
  <2>1. spec[stop] = [seconds |-> IF stop = 1 THEN Until(file, currentPhase + 1)
                                  ELSE file[currentPhase + stop].seconds,
                      usage |-> currentPhase + stop]
    BY <1>1 DEF PodInv, Window
  <2> QED BY <1>6, <2>1
<1>16. Until(file, loadPhase) <= Until(file, loadPhase')
  <2>1. loadPhase \in 0..Len(file) /\ loadPhase' \in loadPhase..Len(file)
    BY <1>1, <1>9
  <2> QED BY <1>1, <2>1, UntilGrows
<1>17. RealTime' = RealTime
  BY DEF RealTime
<1>18. PodInv'
  <2>1. Files' /\ numPhase' = numPhase
    BY DEF Files, PodInv, numPhase
  <2>3. (status = "Deleted" => deletedAt < Until(file, loadPhase))'
    <3>1. status = "Deleted" => deletedAt < Until(file, loadPhase)
      BY DEF PodInv
    <3>2. Until(file, loadPhase) \in Nat /\ Until(file, loadPhase') \in Nat /\ deletedAt \in Nat
      <4>1. loadPhase \in 0..Len(file) /\ loadPhase' \in 0..Len(file)
        BY <1>1, <1>9
      <4> QED BY <1>1, <4>1, UntilNat DEF PodInv
    <3> QED BY <1>16, <3>1, <3>2
  <2>4. usage' \in Nat
    BY <1>3, <1>6, <1>15
  <2>5. (Until(file, currentPhase) <= RealTime)'
    BY <1>3, <1>14, <1>17
  <2>6. status' \in {"Ok", "Deleted"} /\ deletedAt' \in Nat /\ age' \in Nat
    BY DEF PodInv
  <2>7. currentPhase' < loadPhase'
    BY <1>1, <1>3, <1>6, <1>9
  <2>8. Window(spec, currentPhase)'
    <3>1. currentPhase' = c /\ file' = file
      BY <1>3
    <3>2. \A i \in 1..Len(spec') :
             spec'[i] = [seconds |-> IF i = 1 THEN Until(file, c + 1) ELSE file[c + i].seconds,
                         usage |-> c + i]
      BY <1>9 DEF Window
    <3>3. \A i \in 1..Len(spec') :
             spec'[i] = [seconds |-> IF i = 1 THEN Until(file', currentPhase' + 1)
                                     ELSE file'[currentPhase' + i].seconds,
                         usage |-> currentPhase' + i]
      BY <3>1, <3>2
    <3> QED BY <3>3 DEF Window
  <2> QED BY <1>3, <1>6, <1>9, <2>1, <2>3, <2>4, <2>5, <2>6, <2>7, <2>8 DEF PodInv
<1> QED BY <1>3, <1>6, <1>9, <1>10, <1>13, <1>14, <1>15, <1>18

\* An active pod is in one of the phases that are loaded.
LEMMA PhaseFound ==
    ASSUME PodInv, IsRunning \/ IsTerminating
    PROVE  LET stops == {i \in 1..Len(spec) : Stop(i)}
           IN  /\ stops # {}
               /\ Min(stops) \in 1..Len(spec) /\ Stop(Min(stops))
               /\ \A i \in 1..Len(spec) : Stop(i) => Min(stops) <= i
<1> DEFINE stops == {i \in 1..Len(spec) : Stop(i)}
           L == Len(spec)
<1>1. L \in Nat
  BY PhaseOf DEF PodInv
<1>2. executedDuration < Until(spec, L)
  BY ActiveWithin, SpecUntil DEF totalExecutionDuration
<1>3. L # 0
  <2>1. Until(spec, 0) = 0
    BY <1>1, UntilNext
  <2>2. executedDuration \in Nat
    BY ActiveWithin, SpecUntil
  <2> QED BY <1>2, <2>1, <2>2
<1>4. L \in stops
  BY <1>1, <1>2, <1>3 DEF Stop
<1>5. PICK x \in stops : \A y \in stops : x <= y
  <2>1. stops \subseteq Nat /\ stops # {}
    BY <1>1, <1>4
  <2> HIDE DEF stops
  <2> QED BY <2>1, NatMin
<1>6. Min(stops) \in stops /\ \A y \in stops : Min(stops) <= y
  <2> HIDE DEF stops
  <2> QED BY <1>5 DEF Min
<1> QED BY <1>4, <1>6

LEMMA ReadOK ==
    ASSUME PodInv, UsageOfThePhase, ResourceUsage
    PROVE  /\ PodInv' /\ UsageOfThePhase' /\ loadPhase <= loadPhase'
           /\ (IsRunning /\ loadPhase' < numPhase) =>
                 /\ currentPhase' + 1 < loadPhase'
                 /\ age < Until(file, currentPhase' + 1)
<1>1. UNCHANGED <<file, status, deletedAt, age>>
  BY DEF ResourceUsage
<1>2. RealTime' = RealTime /\ numPhase' = numPhase
  BY <1>1 DEF RealTime, numPhase
<1>3. CASE ~(IsRunning \/ IsTerminating)
  <2>1. usage' = NoUsage /\ UNCHANGED <<spec, currentPhase, loadPhase, path>>
    BY <1>3 DEF ResourceUsage
  <2>2. PodInv'
    BY <1>1, <2>1 DEF PodInv, Files, Window, NoUsage, numPhase, RealTime
  <2>3. ~(IsRunning \/ IsTerminating)'
    BY <1>1, <1>3, <2>1 DEF IsRunning, IsTerminating, IsDeleted, executedDuration,
                            totalExecutionDuration
  <2>4. loadPhase \in Nat
    BY DEF PodInv
  <2> QED BY <1>3, <2>1, <2>2, <2>3, <2>4 DEF UsageOfThePhase
<1>4. CASE IsRunning \/ IsTerminating
  <2> DEFINE stops == {i \in 1..Len(spec) : Stop(i)}
             stop == Min(stops)
  <2>1. /\ stops # {} /\ stop \in 1..Len(spec) /\ Stop(stop)
        /\ \A i \in 1..Len(spec) : Stop(i) => stop <= i
    BY <1>4, PhaseFound
  <2>2. ReadPhase(stop)
    BY <1>4, <2>1 DEF ResourceUsage
  <2> HIDE DEF stop
  <2>3. /\ PodInv'
        /\ usage' = currentPhase' + 1 /\ usage' \in 1..numPhase
        /\ Until(file, currentPhase') <= RealTime /\ RealTime < Until(file, usage')
        /\ loadPhase <= loadPhase'
        /\ loadPhase' < numPhase => currentPhase' + 1 < loadPhase'
    BY <1>1, <1>4, <2>1, <2>2, ReadPhaseOK
  <2>4. currentPhase' \in Nat /\ usage' - 1 = currentPhase'
    <3>1. currentPhase' \in Nat
      BY <2>3 DEF PodInv
    <3> DEFINE c == currentPhase'
               u == usage'
    <3>2. c \in Nat /\ u = c + 1
      BY <2>3, <3>1
    <3> HIDE DEF c, u
    <3>3. c \in Nat /\ u - 1 = c
      BY <3>2
    <3> QED BY <3>3 DEF c, u
  <2>5. UsageOfThePhase'
    BY <1>1, <1>2, <2>3, <2>4 DEF UsageOfThePhase
  <2>6. IsRunning => RealTime = age
    BY DEF IsRunning, RealTime
  <2> QED BY <2>3, <2>4, <2>5, <2>6
<1> QED BY <1>3, <1>4

-----------------------------------------------------------------------------
(* Theorems.                                                               *)

LEMMA PodInitOK ==
    ASSUME PodInit
    PROVE  /\ PodInv /\ UsageOfThePhase /\ status = "Ok" /\ age = 0 /\ ~read
           /\ loadPhase < numPhase =>
                 /\ loadPhase > 0
                 /\ \E lengths \in FileSpecs : file = Phases(lengths) /\ lengths \in Seq(Nat)
<1>1. /\ status = "Ok" /\ deletedAt = 0 /\ age = 0 /\ usage = NoUsage /\ read = FALSE
  BY DEF PodInit
<1>2. PICK lengths \in InlineSpecs \cup FileSpecs, fromFile \in BOOLEAN :
         /\ NewPod(lengths, fromFile) /\ (fromFile => lengths \in FileSpecs)
  BY DEF PodInit
<1>3. lengths \in Seq(Nat)
  BY ConstantsAssumption
<1> DEFINE m == Len(lengths)
           n == IF fromFile /\ LOAD_PHASE_CACHE < m THEN LOAD_PHASE_CACHE ELSE m
<1>4. m \in Nat /\ n \in Nat /\ n <= m /\ (m > 0 => n > 0) /\ (n < m => fromFile)
  BY <1>3, ConstantsAssumption
<1>5. /\ file = Phases(lengths) /\ spec = SubSeq(file, 1, n) /\ loadPhase = n
      /\ currentPhase = 0 /\ path = (n < m)
  BY <1>2 DEF NewPod
<1>6. /\ file \in Seq(PodPhase) /\ Len(file) = m
      /\ \A i \in 1..m : file[i] = [seconds |-> lengths[i], usage |-> i]
  <2>1. \A i \in 1..m : [seconds |-> lengths[i], usage |-> i] \in PodPhase
    BY <1>3 DEF PodPhase
  <2>2. DOMAIN lengths = 1..m /\ m \in Nat
    BY <1>3
  <2>3. file = [i \in 1..m |-> [seconds |-> lengths[i], usage |-> i]]
    BY <1>5, <2>2 DEF Phases
  <2> HIDE DEF m
  <2> QED BY <2>1, <2>2, <2>3
<1> HIDE DEF m, n
<1>7. /\ spec \in Seq(PodPhase) /\ Len(spec) = n
      /\ \A i \in 1..n : spec[i] = file[i]
  BY <1>4, <1>5, <1>6
<1>8. \A i \in 1..m : file[i].usage = i /\ file[i] \in PodPhase
  BY <1>6 DEF PodPhase
<1>9. Window(spec, currentPhase)
  <2> SUFFICES ASSUME NEW i \in 1..n
               PROVE  spec[i] = [seconds |-> IF i = 1 THEN Until(file, 0 + 1) ELSE file[0 + i].seconds,
                                 usage |-> 0 + i]
    BY <1>5, <1>7 DEF Window
  <2>1. i \in 1..m /\ 0 + i = i /\ m >= 1 /\ 0 + 1 = 1
    BY <1>4
  <2>2. spec[i] = [seconds |-> file[i].seconds, usage |-> i]
    BY <1>6, <1>7, <2>1
  <2>3. Until(file, 1) = file[1].seconds
    <3>1. Until(file, 0) = 0 /\ Until(file, 1) = Until(file, 1 - 1) + file[1].seconds
      BY <1>4, <1>6, <2>1, UntilNext
    <3>2. file[1].seconds \in Nat
      BY <1>6, <2>1, PhaseOf
    <3> QED BY <3>1, <3>2
  <2> QED BY <2>1, <2>2, <2>3
<1>10. Until(file, 0) = 0
  BY <1>4, <1>6, UntilNext
<1>11. PodInv
  BY <1>1, <1>4, <1>5, <1>6, <1>7, <1>8, <1>9, <1>10 DEF PodInv, Files, numPhase, RealTime, NoUsage
<1>12. UsageOfThePhase
  BY <1>1 DEF UsageOfThePhase
<1>13. numPhase = m
  BY <1>6 DEF numPhase
<1> QED BY <1>1, <1>2, <1>3, <1>4, <1>5, <1>11, <1>12, <1>13

LEMMA DeleteOfPod ==
    ASSUME PodInv, UsageOfThePhase, Delete
    PROVE  PodInv' /\ UsageOfThePhase'
<1>1. /\ ~read /\ read' = read /\ status' = "Deleted" /\ deletedAt' = age
      /\ UNCHANGED <<file, spec, currentPhase, loadPhase, path, age, usage>>
  BY DEF Delete
<1>2. status = "Ok" /\ ~IsTerminated
  BY DEF Delete, PodInv
<1>3. age < Until(file, loadPhase)
  <2>1. age \in Nat /\ Until(file, loadPhase) \in Nat
    BY SpecUntil DEF PodInv
  <2> QED BY <1>2, <2>1, ActiveWithin
<1>4. RealTime' = RealTime
  BY <1>1, <1>2 DEF RealTime
<1>5. PodInv'
  BY <1>1, <1>3, <1>4 DEF PodInv, Files, Window, numPhase
<1> QED BY <1>1, <1>5 DEF UsageOfThePhase

LEMMA AdvanceOfPod ==
    ASSUME PodInv, Advance
    PROVE  PodInv' /\ UsageOfThePhase'
<1>1. /\ read' = FALSE /\ age' = age + Tick
      /\ UNCHANGED <<file, spec, currentPhase, loadPhase, path, status, deletedAt, usage>>
  BY DEF Advance
<1>2. age \in Nat /\ Tick \in Nat /\ deletedAt \in Nat /\ Until(file, currentPhase) \in Nat
  BY TickAssumption, SpecUntil DEF PodInv
<1>3. age' \in Nat /\ Until(file, currentPhase) <= RealTime'
  <2>1. Until(file, currentPhase) <= RealTime
    BY DEF PodInv
  <2> QED BY <1>1, <1>2, <2>1 DEF RealTime
<1>4. PodInv'
  BY <1>1, <1>3 DEF PodInv, Files, Window, numPhase
<1> QED BY <1>1, <1>4 DEF UsageOfThePhase

LEMMA PodInvKept == PodInv /\ UsageOfThePhase /\ [PodNext]_podVars => (PodInv /\ UsageOfThePhase)'
<1> SUFFICES ASSUME PodInv, UsageOfThePhase, [PodNext]_podVars
             PROVE  PodInv' /\ UsageOfThePhase'
  OBVIOUS
<1>1. CASE UNCHANGED podVars
  BY <1>1 DEF podVars, PodInv, UsageOfThePhase, Files, Window, numPhase, RealTime, IsRunning,
              IsTerminating, IsDeleted, executedDuration, totalExecutionDuration
<1>2. CASE ResourceUsage
  BY <1>2, ReadOK
<1>3. CASE Delete
  BY <1>3, DeleteOfPod
<1>4. CASE Advance
  BY <1>4, AdvanceOfPod
<1> QED BY <1>1, <1>2, <1>3, <1>4 DEF PodNext

\* The usage that is read is that of the whole list of phases at this time, for any
\* lengths, zero included, and any tick, although phases are forgotten, loaded and
\* lengthened in between (pod.go:265).
THEOREM PodUsageOfThePhase == PodSpec => []UsageOfThePhase
<1>1. PodInit => PodInv /\ UsageOfThePhase
  BY PodInitOK
<1> QED BY <1>1, PodInvKept, PTL DEF PodSpec

\* An active pod is always in one of the phases loaded, so that the panic of
\* pod.go:283 is not reached.
THEOREM PodNeverUnreachable == PodSpec => []NeverUnreachable
<1>1. PodInit => PodInv /\ UsageOfThePhase
  BY PodInitOK
<1>2. PodInv => NeverUnreachable
  BY DEF PodInv, NeverUnreachable, Panicked
<1> QED BY <1>1, <1>2, PodInvKept, PTL DEF PodSpec

\* No phase of a file is shorter than the tick.
LongPhases == \A lengths \in FileSpecs : \A i \in DOMAIN lengths : lengths[i] >= Tick

\* As long as phases remain to be loaded, the clock does not pass those loaded.
LoadedAhead ==
    loadPhase < numPhase =>
        /\ \A i \in 1..numPhase : file[i].seconds >= Tick
        /\ status = "Ok" => /\ age < Until(file, loadPhase)
                            /\ read => age + Tick < Until(file, loadPhase)

LEMMA LoadedAheadInit == LongPhases /\ PodInit => LoadedAhead
<1> SUFFICES ASSUME LongPhases, PodInit, loadPhase < numPhase
             PROVE  /\ \A i \in 1..numPhase : file[i].seconds >= Tick
                    /\ age < Until(file, loadPhase) /\ ~read
  BY DEF LoadedAhead
<1>1. /\ PodInv /\ age = 0 /\ ~read /\ loadPhase > 0
      /\ \E lengths \in FileSpecs : file = Phases(lengths) /\ lengths \in Seq(Nat)
  BY PodInitOK
<1>2. PICK lengths \in FileSpecs : file = Phases(lengths) /\ lengths \in Seq(Nat)
  BY <1>1
<1>3. \A i \in 1..numPhase : file[i].seconds >= Tick
  <2>1. Len(file) = Len(lengths) /\ \A i \in 1..Len(lengths) : file[i].seconds = lengths[i]
    BY <1>2 DEF Phases
  <2>2. \A i \in 1..Len(lengths) : lengths[i] >= Tick
    BY <1>2 DEF LongPhases
  <2> QED BY <2>1, <2>2 DEF numPhase
<1>4. /\ file \in Seq(PodPhase) /\ numPhase = Len(file) /\ numPhase \in Nat /\ loadPhase \in Nat
      /\ loadPhase <= numPhase
  BY <1>1, PhaseOf DEF PodInv, Files, numPhase
<1>5. Until(file, 1) <= Until(file, loadPhase)
  <2>1. 1 \in 0..Len(file) /\ loadPhase \in 1..Len(file)
    BY <1>1, <1>4
  <2> QED BY <1>4, <2>1, UntilGrows
<1>6. Until(file, 0) = 0 /\ Until(file, 1) = Until(file, 0) + file[1].seconds
  <2>1. 1 \in 1..Len(file) /\ 1 - 1 = 0 /\ Len(file) \in Nat
    BY <1>1, <1>4
  <2>2. Until(file, 1) = Until(file, 1 - 1) + file[1].seconds
    BY <2>1, UntilNext
  <2> QED BY <2>1, <2>2, UntilNext
<1>7. file[1].seconds \in Nat /\ file[1].seconds >= Tick
  BY <1>1, <1>3, <1>4, PhaseOf
<1>8. Until(file, loadPhase) \in Nat /\ Tick \in Nat /\ Tick > 0
  BY <1>1, SpecUntil, TickAssumption
<1> QED BY <1>1, <1>3, <1>5, <1>6, <1>7, <1>8

LEMMA LoadedAheadKept ==
    PodInv /\ UsageOfThePhase /\ LoadedAhead /\ [PodNext]_podVars => LoadedAhead'
<1> SUFFICES ASSUME PodInv, UsageOfThePhase, LoadedAhead, [PodNext]_podVars
             PROVE  LoadedAhead'
  OBVIOUS
<1>1. CASE UNCHANGED podVars
  BY <1>1 DEF podVars, LoadedAhead, numPhase
<1>2. CASE ResourceUsage
  <2>1. /\ PodInv' /\ loadPhase <= loadPhase'
        /\ (IsRunning /\ loadPhase' < numPhase) =>
              /\ currentPhase' + 1 < loadPhase' /\ age < Until(file, currentPhase' + 1)
    BY <1>2, ReadOK
  <2>2. UNCHANGED <<file, status, deletedAt, age>> /\ numPhase' = numPhase
    BY <1>2 DEF ResourceUsage, numPhase
  <2> SUFFICES ASSUME loadPhase' < numPhase
               PROVE  /\ \A i \in 1..numPhase : file[i].seconds >= Tick
                      /\ status = "Ok" => /\ age < Until(file, loadPhase')
                                          /\ age + Tick < Until(file, loadPhase')
    BY <2>2 DEF LoadedAhead
  <2>3. /\ loadPhase \in Nat /\ numPhase \in Nat /\ age \in Nat
        /\ file \in Seq(PodPhase) /\ numPhase = Len(file)
    BY PhaseOf DEF PodInv, Files, numPhase
  <2>4. loadPhase' \in Nat /\ currentPhase' \in Nat
    BY <2>1 DEF PodInv
  <2>5. loadPhase < numPhase
    BY <2>1, <2>3, <2>4
  <2>6. \A i \in 1..numPhase : file[i].seconds >= Tick
    BY <2>5 DEF LoadedAhead
  <2>7. ASSUME status = "Ok" PROVE age < Until(file, loadPhase') /\ age + Tick < Until(file, loadPhase')
    <3> DEFINE k == loadPhase'
               j == currentPhase' + 1
    <3>1. IsRunning
      BY <2>5, <2>7, ActiveWithin DEF LoadedAhead
    <3>2. j < k /\ age < Until(file, j)
      BY <2>1, <3>1
    <3>3. j \in 0..Len(file) /\ k - 1 \in j..Len(file) /\ k \in 1..Len(file) /\ k \in 0..Len(file)
          /\ k - 1 \in 0..Len(file)
      <4> DEFINE c == currentPhase'
      <4>1. k \in Nat /\ c \in Nat /\ j = c + 1 /\ j < k /\ k < numPhase
        BY <2>4, <3>2
      <4> HIDE DEF c, j, k
      <4> QED BY <2>3, <4>1
    <3> HIDE DEF j, k
    <3>4. Until(file, j) <= Until(file, k - 1)
      BY <2>3, <3>3, UntilGrows
    <3>5. Until(file, k) = Until(file, k - 1) + file[k].seconds
      BY <2>3, <3>3, UntilNext
    <3>6. file[k].seconds \in Nat /\ file[k].seconds >= Tick
      BY <2>3, <2>6, <3>3, PhaseOf
    <3>7. /\ Until(file, k) \in Nat /\ Until(file, k - 1) \in Nat /\ Until(file, j) \in Nat
          /\ Tick \in Nat
      BY <2>3, <3>3, UntilNat, TickAssumption
    <3>8. age < Until(file, k) /\ age + Tick < Until(file, k)
      BY <2>3, <3>2, <3>4, <3>5, <3>6, <3>7
    <3> QED BY <3>8 DEF k
  <2> QED BY <2>6, <2>7
<1>3. CASE Delete
  BY <1>3 DEF Delete, LoadedAhead, numPhase
<1>4. CASE Advance
  BY <1>4 DEF Advance, LoadedAhead, numPhase
<1> QED BY <1>1, <1>2, <1>3, <1>4 DEF PodNext

LEMMA RunsAllLoaded == PodInv /\ LoadedAhead => RunsAllPhases
<1> SUFFICES ASSUME PodInv, LoadedAhead, status = "Ok"
             PROVE  IsTerminated <=> age >= Until(file, numPhase)
  BY DEF RunsAllPhases
<1>1. IsTerminated <=> age >= Until(file, loadPhase)
  BY ActiveWithin
<1>2. /\ file \in Seq(PodPhase) /\ numPhase = Len(file) /\ numPhase \in Nat
      /\ loadPhase \in Nat /\ loadPhase <= numPhase /\ age \in Nat
  BY PhaseOf DEF PodInv, Files, numPhase
<1>3. Until(file, loadPhase) <= Until(file, numPhase)
  <2>1. loadPhase \in 0..Len(file) /\ numPhase \in loadPhase..Len(file)
    BY <1>2
  <2> QED BY <1>2, <2>1, UntilGrows
<1>4. Until(file, loadPhase) \in Nat /\ Until(file, numPhase) \in Nat
  <2>1. loadPhase \in 0..Len(file) /\ numPhase \in 0..Len(file)
    BY <1>2
  <2> QED BY <1>2, <2>1, UntilNat
<1>5. CASE loadPhase < numPhase
  <2>1. age < Until(file, loadPhase)
    BY <1>5 DEF LoadedAhead
  <2> QED BY <1>1, <1>2, <1>3, <1>4, <2>1
<1>6. CASE loadPhase = numPhase
  BY <1>1, <1>6
<1> QED BY <1>2, <1>5, <1>6

\* A pod ends when all its phases are over, those that are not loaded yet included
\* (pod.go:273), if no phase of a file is shorter than the tick: the clock would jump
\* over the one that is loaded ahead.
THEOREM PodRunsAllPhases == ASSUME LongPhases PROVE PodSpec => []RunsAllPhases
<1>1. PodInit => PodInv /\ UsageOfThePhase /\ LoadedAhead
  BY PodInitOK, LoadedAheadInit
<1>2. /\ PodInv /\ UsageOfThePhase /\ LoadedAhead /\ [PodNext]_podVars
         => (PodInv /\ UsageOfThePhase /\ LoadedAhead)'
  BY PodInvKept, LoadedAheadKept
<1> QED BY <1>1, <1>2, RunsAllLoaded, PTL DEF PodSpec

-----------------------------------------------------------------------------
(* The pod of a file that was converted.                                   *)

\* The lengths of phases that are in the file of a pod.
LengthsOf(phases) == [i \in DOMAIN phases |-> phases[i].len]

\* In the k-th phase of a pod its usage is that of the phase, second by second.
LEMMA SecondsOfPhase ==
    ASSUME NEW ph \in Seq(Phase), NEW k \in 1..Len(ph), NEW r \in Nat,
           Until(Phases(LengthsOf(ph)), k - 1) <= r, r < Until(Phases(LengthsOf(ph)), k)
    PROVE  r + 1 \in 1..Len(Seconds(ph)) /\ Seconds(ph)[r + 1] = ph[k].use
<1> DEFINE L == Len(ph)
           p == Phases(LengthsOf(ph))
<1>1. L \in Nat /\ \A i \in 1..L : ph[i] \in Phase
  OBVIOUS
<1>2. \A i \in 1..L : ph[i].len \in Nat /\ ph[i].use \in Nat /\ ph[i].use # NoUse
  BY <1>1, NoUseAssumption DEF Phase
<1>3. p \in Seq(PodPhase) /\ Len(p) = L /\ \A i \in 1..L : p[i].seconds = ph[i].len
  <2>1. LengthsOf(ph) = [i \in 1..L |-> ph[i].len]
    BY <1>1 DEF LengthsOf
  <2>2. p = [i \in 1..L |-> [seconds |-> ph[i].len, usage |-> i]]
    BY <2>1 DEF Phases
  <2>3. \A i \in 1..L : [seconds |-> ph[i].len, usage |-> i] \in PodPhase
    BY <1>1, <1>2 DEF PodPhase
  <2> HIDE DEF p, L
  <2> QED BY <1>1, <2>2, <2>3
<1> HIDE DEF p
<1>4. Until(p, 0) = 0 /\ \A i \in 1..L : Until(p, i) = Until(p, i - 1) + ph[i].len
  BY <1>1, <1>3, UntilNext
<1>5. \A i \in 0..L : Until(p, i) \in Nat
  BY <1>3, UntilNat
<1>6. PICK u : Reads(ph, L, u) /\ Seconds(ph) = u[L].list
  BY <1>1, SecondsRead
<1>7. k \in 1..L /\ Until(p, k - 1) <= r /\ r < Until(p, k)
  BY DEF p
<1> HIDE DEF L
<1>8. ASSUME NEW i \in 1..L
      PROVE  u[i].list = u[i - 1].list \o Copies(ph[i].len, ph[i].use)
  <2> DEFINE x == ph[i]
             before == u[i - 1]
  <2>1. u[i] = ReadRow(before, x)
    BY <1>6 DEF Reads
  <2>2. x.use # NoUse
    BY <1>2
  <2> HIDE DEF x, before
  <2>3. ReadRow(before, x).list = before.list \o Copies(x.len, x.use)
    BY <2>2 DEF ReadRow
  <2> QED BY <2>1, <2>3 DEF x, before
<1>9. u[0].list = << >>
  BY <1>6 DEF Reads, NothingRead
<1> DEFINE D == {n \in Nat : n <= L => u[n].list \in Seq(Nat) /\ Len(u[n].list) = Until(p, n)}
<1>10. 0 \in D
  <2>1. << >> \in Seq(Nat) /\ Len(<< >>) = 0
    OBVIOUS
  <2> QED BY <1>4, <1>9, <2>1
<1>11. ASSUME NEW n \in Nat, n \in D PROVE n + 1 \in D
  <2> SUFFICES ASSUME n + 1 <= L
               PROVE  u[n + 1].list \in Seq(Nat) /\ Len(u[n + 1].list) = Until(p, n + 1)
    OBVIOUS
  <2> DEFINE x == Copies(ph[n + 1].len, ph[n + 1].use)
             s == u[n].list
  <2>1. n + 1 \in 1..L /\ (n + 1) - 1 = n /\ n <= L
    BY <1>1
  <2>2. x \in Seq(Nat) /\ Len(x) = ph[n + 1].len
    BY <1>2, <2>1, CopiesList
  <2>3. u[n + 1].list = s \o x /\ s \in Seq(Nat) /\ Len(s) = Until(p, n)
    BY <1>8, <1>11, <2>1
  <2>4. Until(p, n + 1) = Until(p, n) + ph[n + 1].len
    BY <1>4, <2>1
  <2> HIDE DEF x, s, D
  <2>5. s \o x \in Seq(Nat) /\ Len(s \o x) = Len(s) + Len(x)
    BY <2>2, <2>3, Joined
  <2> QED BY <2>2, <2>3, <2>4, <2>5
<1> HIDE DEF D
<1>12. Nat \subseteq D
  BY <1>10, <1>11, Induction
<1>13. \A n \in 0..L : u[n].list \in Seq(Nat) /\ Len(u[n].list) = Until(p, n)
  BY <1>1, <1>12 DEF D
<1> DEFINE F == {n \in Nat : k + n <= L => /\ r + 1 \in 1..Len(u[k + n].list)
                                         /\ u[k + n].list[r + 1] = ph[k].use}
<1>14. 0 \in F
  <2> DEFINE s == u[k - 1].list
             len == ph[k].len
             x == Copies(len, ph[k].use)
  <2>1. k - 1 \in 0..L /\ k \in 0..L /\ k + 0 = k
    BY <1>1, <1>7
  <2>2. s \in Seq(Nat) /\ Len(s) = Until(p, k - 1) /\ Len(s) \in Nat
    BY <1>5, <1>13, <2>1
  <2>3. len \in Nat /\ x \in Seq(Nat) /\ Len(x) = len /\ \A i \in 1..len : x[i] = ph[k].use
    BY <1>2, <1>7, CopiesList DEF Copies
  <2>4. u[k].list = s \o x /\ Until(p, k) = Len(s) + len
    BY <1>4, <1>7, <1>8, <2>2
  <2> HIDE DEF s, len, x
  <2>5. /\ Len(s \o x) = Len(s) + len
        /\ \A i \in 1..(Len(s) + len) : (s \o x)[i] = IF i <= Len(s) THEN s[i] ELSE x[i - Len(s)]
    BY <2>2, <2>3, Joined
  <2>6. r + 1 \in 1..(Len(s) + len) /\ ~(r + 1 <= Len(s)) /\ r + 1 - Len(s) \in 1..len
    BY <1>7, <2>2, <2>3, <2>4
  <2>7. (s \o x)[r + 1] = ph[k].use
    BY <2>3, <2>5, <2>6
  <2> QED BY <2>1, <2>4, <2>5, <2>6, <2>7
<1>15. ASSUME NEW n \in Nat, n \in F PROVE n + 1 \in F
  <2> DEFINE j == k + (n + 1)
             s == u[k + n].list
             x == Copies(ph[j].len, ph[j].use)
  <2> SUFFICES ASSUME j <= L
               PROVE  r + 1 \in 1..Len(u[j].list) /\ u[j].list[r + 1] = ph[k].use
    OBVIOUS
  <2>1. j \in 1..L /\ j - 1 = k + n /\ k + n <= L /\ k + n \in 0..L
    BY <1>1, <1>7
  <2>2. r + 1 \in 1..Len(s) /\ s[r + 1] = ph[k].use
    BY <1>15, <2>1
  <2> HIDE DEF j, F
  <2>3. s \in Seq(Nat) /\ x \in Seq(Nat) /\ u[j].list = s \o x
    BY <1>2, <1>8, <1>13, <2>1, CopiesList
  <2> HIDE DEF s, x
  <2>4. /\ Len(s) \in Nat /\ Len(x) \in Nat /\ Len(s \o x) = Len(s) + Len(x)
        /\ \A i \in 1..(Len(s) + Len(x)) :
              (s \o x)[i] = IF i <= Len(s) THEN s[i] ELSE x[i - Len(s)]
    BY <2>3, Joined
  <2>5. r + 1 \in 1..(Len(s) + Len(x)) /\ r + 1 <= Len(s)
    BY <2>2, <2>4
  <2> QED BY <2>2, <2>3, <2>4, <2>5
<1> HIDE DEF F
<1>16. Nat \subseteq F
  BY <1>14, <1>15, Induction
<1>17. L - k \in Nat /\ k + (L - k) = L
  BY <1>1, <1>7
<1>18. L - k \in F
  BY <1>16, <1>17
<1> QED BY <1>6, <1>17, <1>18 DEF F

\* The pod that runs the phases of a file that was converted, read by the simulator.
SimulatedAsTraced ==
    isConvertTrace /\ read /\ (IsRunning \/ IsTerminating) =>
        \A f \in files :
            file = Phases(LengthsOf(f.phases)) =>
                /\ RealTime < EndClock - f.clock
                /\ RealTime < Len(Seconds(Rows[f.task]))
                /\ f.phases[usage].use = Seconds(Rows[f.task])[RealTime + 1]

\* A trace that is converted to files, of which the simulator loads, trims and cuts
\* the phases (utils.go:102, pod.go:244), is what the pods use: at each second of a
\* pod, as long as it runs and while it terminates, the phase that ResourceUsage
\* returns is what the rows of its task say of that second, for any rows, lengths of
\* phases, tick and LOAD_PHASE_CACHE; and a pod that is bound at the clock of its
\* file is over at the end clock.
THEOREM WorkloadSimulatedAsTraced == Spec /\ PodSpec => []SimulatedAsTraced
<1>1. Init => Generating /\ FilesInv /\ Traced
  <2> SUFFICES ASSUME Init PROVE Traced
    BY InitFiles
  <2> QED BY DEF Init, Traced
<1>2. Generating /\ FilesInv /\ Traced /\ [Next]_vars => (Generating /\ FilesInv /\ Traced)'
  BY GeneratingKept, FilesKept, TracedKept
<1>3. PodInit => PodInv /\ UsageOfThePhase
  BY PodInitOK
<1>4. Traced /\ PodInv /\ UsageOfThePhase => SimulatedAsTraced
  <2> SUFFICES ASSUME Traced, PodInv, UsageOfThePhase, isConvertTrace,
                      read, IsRunning \/ IsTerminating,
                      NEW f \in files, file = Phases(LengthsOf(f.phases))
               PROVE  /\ RealTime < EndClock - f.clock
                      /\ RealTime < Len(Seconds(Rows[f.task]))
                      /\ f.phases[usage].use = Seconds(Rows[f.task])[RealTime + 1]
    BY DEF SimulatedAsTraced
  <2> DEFINE whole == Seconds(Rows[f.task])
             m == EndClock - f.clock
             ph == f.phases
             r == RealTime
             n == Smaller(Len(whole), m)
  <2>1. f.task \in Tasks /\ m \in Nat /\ ph = ConvertTraceToPod(f.task, m)
    BY DEF Traced
  <2>2. Seconds(ph) = SubSeq(whole, 1, n) /\ ph \in Seq(Phase) /\ whole \in Seq(Nat)
    BY <2>1, ConvertedAsTraced
  <2>3. Len(whole) \in Nat /\ n \in Nat /\ n <= Len(whole) /\ n <= m
    BY <2>1, <2>2 DEF Smaller
  <2>4. usage \in 1..Len(ph)
    <3>1. Len(file) = Len(ph)
      <4>1. DOMAIN ph = 1..Len(ph) /\ Len(ph) \in Nat
        BY <2>2
      <4>2. file = [i \in 1..Len(ph) |-> [seconds |-> ph[i].len, usage |-> i]]
        BY <4>1 DEF Phases, LengthsOf
      <4> HIDE DEF ph
      <4> QED BY <4>1, <4>2
    <3> QED BY <3>1 DEF UsageOfThePhase, numPhase
  <2>5. r \in Nat /\ Until(file, usage - 1) <= r /\ r < Until(file, usage)
    BY SpecUntil DEF UsageOfThePhase
  <2> HIDE DEF whole, m, n
  <2>6. r + 1 \in 1..Len(Seconds(ph)) /\ Seconds(ph)[r + 1] = ph[usage].use
    BY <2>2, <2>4, <2>5, SecondsOfPhase
  <2> HIDE DEF r, ph
  <2>7. Len(SubSeq(whole, 1, n)) = n /\ \A i \in 1..n : SubSeq(whole, 1, n)[i] = whole[i]
    BY <2>2, <2>3
  <2>8. r + 1 \in 1..n
    BY <2>2, <2>6, <2>7
  <2>9. ph[usage].use = whole[r + 1] /\ r < m /\ r < Len(whole)
    BY <2>1, <2>2, <2>3, <2>5, <2>6, <2>7, <2>8
  <2> QED BY <2>9 DEF whole, m, ph, r
<1> QED BY <1>1, <1>2, <1>3, <1>4, PodInvKept, PTL DEF Spec, PodSpec
=============================================================================
