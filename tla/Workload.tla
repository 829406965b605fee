------------------------------ MODULE Workload ------------------------------
(***************************************************************************)
(* The workload of the experiments (experiments/main.go, submitter.go and  *)
(* utils.go).  A trace is converted to files, one for each selected task,  *)
(* named by the clock at which its pod is to be submitted; or pods are     *)
(* generated while a simulation runs, and files written for them.  A       *)
(* simulation of its own then loads the files and submits their pods.      *)
(*                                                                         *)
(* The cluster is abstract: pending pods start and running pods end at any *)
(* tick.  Clocks count seconds from the start clock, which is that of the  *)
(* simulation and of the trace.                                            *)
(***************************************************************************)
EXTENDS Clock, Sequences, FiniteSets, SequencesExt

CONSTANTS
    Tasks,              \* the files of the trace
    Arrival,            \* arrival of each task, in seconds
    Name,               \* the number in the name of its pod
    Rows,               \* rows of each file: [len, use], "use" is NoUse if it exceeds 1
    NoUse,
    Malformed,          \* tasks whose file has a row that is too short
    StartTimestamp,     \* arrival of the tasks to be submitted at the start clock
    EndClock,
    TotalPodsNum, TargetNum, SubfolderCap,
    SubsetFactors

ASSUME TimeAssumption ==
    /\ EndClock \in Nat
    /\ StartTimestamp \in Nat /\ StartTimestamp % Tick = 0       \* 0 in run.sh
ASSUME NumAssumption ==
    /\ TotalPodsNum \in Nat \ {0} /\ TargetNum \in Nat /\ SubfolderCap \in Nat \ {0}
    /\ SubsetFactors \subseteq Nat \ {0}

ASSUME TasksAssumption ==
    /\ IsFiniteSet(Tasks) /\ Malformed \subseteq Tasks
    /\ Arrival \in [Tasks -> Nat]
    /\ \A t \in Tasks : Rows[t] \in Seq([len : Nat, use : Nat \cup {NoUse}])
    /\ \A t, u \in Tasks : Name[t] = Name[u] => t = u
ASSUME NoUseAssumption == NoUse \notin Nat

VARIABLES
    isConvertTrace, workloadSubsetFactor,
    paths,              \* the tasks to be submitted, sorted
    stage,              \* what the program does
    todo,               \* indices of the tasks to be converted
    files,              \* those in the workload folder
    total,              \* totalPodsNum of the run
    registered,         \* the submitter is
    podIdx,             \* number of pods submitted
    clock, pending, running, met,
    log                 \* history: clocks and names of the pods submitted

simVars == <<clock, pending, running, met>>
programVars == <<isConvertTrace, workloadSubsetFactor, paths>>
vars == <<programVars, stage, todo, files, total, registered, podIdx, simVars, log>>

Smaller(x, y) == IF x < y THEN x ELSE y

-----------------------------------------------------------------------------
(* ConvertTraceToPod: the phases of a pod.                                 *)

\* Mutant: phases that follow each other are merged by length.
AddRowShort(at, row, maxLength) ==
    IF at.isStop THEN at ELSE
    LET use == IF row.use = NoUse THEN at.use ELSE row.use
        taskLast == at.taskLast + row.len
    IN  [at EXCEPT !.use = use, !.taskLast = taskLast, !.isStop = taskLast > maxLength,
                   !.phases = Append(@, [len |-> Smaller(row.len, maxLength), use |-> use])]

\* A row extends the last phase if the usage stays the same; an invalid usage is
\* that of the row before; the row that exceeds the length is the last one.
AddRow(at, row, maxLength) ==
    IF at.isStop THEN at ELSE
    LET use == IF row.use = NoUse THEN at.use ELSE row.use
        taskLast == at.taskLast + row.len
        phaseLen == IF taskLast > maxLength THEN row.len - (taskLast - maxLength) ELSE row.len
        n == Len(at.phases)
    IN  [use |-> use, taskLast |-> taskLast, isStop |-> taskLast > maxLength,
         phases |-> IF n > 0 /\ at.phases[n].use = use
                    THEN [at.phases EXCEPT ![n].len = @ + phaseLen]
                    ELSE Append(at.phases, [len |-> phaseLen, use |-> use])]

ConvertTraceToPod(t, maxLength) ==
    FoldLeft(LAMBDA at, row : AddRow(at, row, maxLength),
             [phases |-> << >>, taskLast |-> 0, use |-> 0, isStop |-> FALSE], Rows[t]).phases

-----------------------------------------------------------------------------
(* convertTrace2Workload                                                   *)

\* Tasks that arrive at once are in no order: the number that should order them
\* still has the suffix ".csv" when it is parsed, and is taken as zero.
TaskInChronologicalOrder(t, u) == Arrival[t] < Arrival[u]

\* Tasks that arrive between the start and the end clock.
Selected == {t \in Tasks : Arrival[t] - StartTimestamp \in 0..EndClock}
Sorted == {s \in SetToSeqs(Selected) :
              \A i, j \in DOMAIN s : TaskInChronologicalOrder(s[i], s[j]) => i < j}
fileNum == Smaller(Cardinality(Selected), TotalPodsNum)
Indices == {i \in 0 .. fileNum - 1 : i * workloadSubsetFactor < fileNum}

\* Mutant: the clock is not rounded.
startClockExact(t) == Arrival[t] - StartTimestamp

startClock(t) == (Arrival[t] \div Tick) * Tick - StartTimestamp

\* Goroutines convert the tasks in any order.
Convert(i) ==
    /\ stage = "convert" /\ i \in todo
    /\ LET t == paths[i * workloadSubsetFactor + 1]
           maxLength == EndClock - startClock(t)
       IN  files' = IF maxLength > 0 /\ t \notin Malformed
                    THEN files \cup {[clock |-> startClock(t), name |-> Name[t],
                                      folder |-> i \div SubfolderCap,
                                      task |-> t, phases |-> ConvertTraceToPod(t, maxLength)]}
                    ELSE files
    /\ todo' = todo \ {i}
    /\ UNCHANGED <<programVars, stage, total, registered, podIdx, simVars, log>>

-----------------------------------------------------------------------------
(* buildScheduler and the main loop.                                       *)

NoMetrics == [pending |-> 0, running |-> 0]

Init ==
    /\ isConvertTrace \in BOOLEAN /\ workloadSubsetFactor \in SubsetFactors
    /\ paths \in Sorted
    /\ stage = IF isConvertTrace THEN "convert" ELSE "generate"
    /\ todo = IF isConvertTrace THEN Indices ELSE {}
    /\ files = {} /\ total = TotalPodsNum /\ registered = TRUE /\ podIdx = 0
    /\ clock = 0 /\ pending = 0 /\ running = 0 /\ met = NoMetrics
    /\ log = {}

\* The program is run again, without isgen: it counts the files.
StartLoad ==
    /\ \/ stage = "convert" /\ todo = {}
       \/ stage = "generated"
    /\ stage' = "load"
    /\ total' = Cardinality(files)
    /\ registered' = TRUE /\ podIdx' = 0
    /\ clock' = 0 /\ pending' = 0 /\ running' = 0 /\ met' = NoMetrics
    /\ log' = {}
    /\ UNCHANGED <<programVars, todo, files>>

toTerminate == pending = 0 /\ running = 0 /\ ~registered
Continues == ~toTerminate /\ clock <= EndClock

Return ==
    /\ stage \in {"generate", "load"}
    /\ ~Continues
    /\ stage' = IF stage = "generate" THEN "generated" ELSE "loaded"
    /\ UNCHANGED <<programVars, todo, files, total, registered, podIdx, simVars, log>>

\* Pods are scheduled, metrics built, and the clock advances; some pods end.
Simulate(submitted, started, ended) ==
    /\ started <= pending + submitted
    /\ ended <= running + started
    /\ pending' = pending + submitted - started
    /\ running' = running + started - ended
    /\ met' = [pending |-> pending', running |-> running + started]
    /\ clock' = clock + Tick

\* Mutant: pods that wait do not count.
submissionNumRunning == TargetNum - met.running

submissionNum == TargetNum - met.pending - met.running

\* generateWorkloads: the metrics are those of the tick before.
Generate(started, ended) ==
    /\ stage = "generate" /\ Continues
    /\ LET num == IF registered THEN Smaller(submissionNum, total - podIdx) ELSE 0
           new == {[clock |-> clock, name |-> podIdx + i - 1, folder |-> -1] : i \in 1..num}
       IN  /\ files' = files \cup new
           /\ log' = log \cup {<<f.clock, f.name>> : f \in new}
           /\ podIdx' = podIdx + num
           /\ registered' = (registered /\ podIdx' < total)
           /\ Simulate(num, started, ended)
    /\ UNCHANGED <<programVars, stage, todo, total>>

\* loadWorkload: the files of this clock.  It stops at the last pod.
Load(started, ended) ==
    /\ stage = "load" /\ Continues
    /\ LET here == IF registered THEN {f \in files : f.clock = clock} ELSE {}
           num == Smaller(Cardinality(here), total - podIdx)
       IN  \E loaded \in {S \in SUBSET here : Cardinality(S) = num} :
           /\ log' = log \cup {<<f.clock, f.name>> : f \in loaded}
           /\ podIdx' = podIdx + num
           /\ registered' = (registered /\ (here # {} => podIdx' < total))
           /\ Simulate(num, started, ended)
    /\ UNCHANGED <<programVars, stage, todo, files, total>>

Next ==
    \/ \E i \in todo : Convert(i)
    \/ StartLoad
    \/ \E started, ended \in 0..Cardinality(Tasks) : Generate(started, ended)
    \/ \E started, ended \in 0..Cardinality(Tasks) : Load(started, ended)
    \/ Return

Spec == Init /\ [][Next]_vars

-----------------------------------------------------------------------------
(* Properties                                                              *)

\* A workload that was generated or converted once is the one that is simulated
\* (submitter.go:82): each file is loaded at the clock in its name, although the
\* lookup is by the string of a clock (main.go:323) and arrivals are rounded to
\* the ticks of another program run (main.go:263), and the submitter does not
\* leave before the last one (submitter.go:98).
WorkloadReplayed ==
    stage = "loaded" => log = {<<f.clock, f.name>> : f \in files}

\* While pods are generated, those that wait and those that run are never more
\* than targetNum together, although their number is one tick old
\* (submitter.go:67); a negative number of pods to submit would be the capacity
\* of a slice.
WithinTarget ==
    stage = "generate" => pending + running <= TargetNum /\ submissionNum >= 0

\* What rows say of the usage at each second.
Seconds(rows) ==
    LET valid(row, use) == IF row.use = NoUse THEN use ELSE row.use
        upTo[n \in 0..Len(rows)] ==
            IF n = 0 THEN [use |-> 0, list |-> << >>]
            ELSE LET use == valid(rows[n], upTo[n - 1].use)
                 IN  [use |-> use, list |-> upTo[n - 1].list \o [i \in 1..rows[n].len |-> use]]
    IN  upTo[Len(rows)].list

\* The phases of a pod are the usage of its task (utils.go:102): merging phases,
\* skipping invalid rows and cutting the last phase change nothing up to the end
\* clock, beyond which no pod runs that is bound at the clock of its file.
UsageAsTraced ==
    isConvertTrace =>
        \A f \in files :
            LET whole == Seconds(Rows[f.task])
            IN  Seconds(f.phases) = SubSeq(whole, 1, Smaller(Len(whole), EndClock - f.clock))
=============================================================================
