----------------------------- MODULE FIFOQueue -----------------------------
(***************************************************************************)
(* The FIFOQueue of pkg/queue/fifo.go under any sequence of calls: one     *)
(* action per method, with the result the caller gets.                     *)
(***************************************************************************)
EXTENDS FIFO

CONSTANT MaxQueue   \* bound on the length of the slice

ASSUME MaxQueueAssumption == MaxQueue \in Nat

VARIABLES fifo,   \* the struct
          out     \* the last call and what it returned

vars == <<fifo, out>>

Errors == {"nil", "InvalidArgument", "ErrEmptyQueue", "ErrDifferentNames",
           "ErrNoMatchingPod"}

Results == [op : {"New", "Push", "Pop", "Front", "Delete", "Update"},
            err : Errors, pod : Pods \cup {NoPod}, found : BOOLEAN]

Returns(op, err, pod, found) ==
    out' = [op |-> op, err |-> err, pod |-> pod, found |-> found]

Init == /\ fifo = NewFIFOQueue
        /\ out = [op |-> "New", err |-> "nil", pod |-> NoPod, found |-> FALSE]

\* Mutant: the error of util.PodKey is not looked at.
CallPushUnchecked(p) ==
    /\ QLen(fifo) < MaxQueue
    /\ Returns("Push", "nil", NoPod, FALSE)
    /\ fifo' = Push(fifo, p)

CallPush(p) ==
    \/ /\ KeyOf[p] = NoKey
       /\ Returns("Push", "InvalidArgument", NoPod, FALSE)
       /\ UNCHANGED fifo
    \/ /\ KeyOf[p] # NoKey
       /\ QLen(fifo) < MaxQueue
       /\ Returns("Push", "nil", NoPod, FALSE)
       /\ fifo' = Push(fifo, p)

\* Mutant: only the head of the slice is looked at.
CallPopHead ==
    /\ IF fifo.queue = << >> \/ ~Has(fifo, Head(fifo.queue))
       THEN Returns("Pop", "ErrEmptyQueue", NoPod, FALSE) /\ UNCHANGED fifo
       ELSE Returns("Pop", "nil", FrontPod(fifo), FALSE) /\ fifo' = Pop(fifo)

CallPop ==
    /\ IF IsEmpty(fifo) THEN Returns("Pop", "ErrEmptyQueue", NoPod, FALSE)
                        ELSE Returns("Pop", "nil", FrontPod(fifo), FALSE)
    /\ fifo' = Pop(fifo)

CallFront ==
    /\ IF IsEmpty(fifo) THEN Returns("Front", "ErrEmptyQueue", NoPod, FALSE)
                        ELSE Returns("Front", "nil", FrontPod(fifo), FALSE)
    /\ fifo' = Front(fifo)

CallDelete(k) == /\ Returns("Delete", "nil", NoPod, Has(fifo, k))
                 /\ fifo' = Delete(fifo, k)

\* The checks of Update in the order the code makes them.
UpdateError(k, p) ==
    IF KeyOf[p] = NoKey THEN "InvalidArgument"
    ELSE IF KeyOf[p] # k THEN "ErrDifferentNames" ELSE "ErrNoMatchingPod"

CallUpdate(k, p) ==
    \/ /\ KeyOf[p] = k
       /\ Has(fifo, k)
       /\ Returns("Update", "nil", NoPod, FALSE)
       /\ fifo' = Update(fifo, p)
    \/ /\ KeyOf[p] # k \/ ~Has(fifo, k)
       /\ Returns("Update", UpdateError(k, p), NoPod, FALSE)
       /\ UNCHANGED fifo

Next == \/ \E p \in Pods : CallPush(p)
        \/ CallPop
        \/ CallFront
        \/ \E k \in Keys : CallDelete(k)
        \/ \E k \in Keys, p \in Pods : CallUpdate(k, p)

Spec == Init /\ [][Next]_vars

-----------------------------------------------------------------------------
\* Types of the struct (fifo.go:29) and of the results.
TypeOK == fifo \in FIFOQueues /\ out \in Results

\* Every pod of the map can be reached through the slice: Delete and Update
\* touch the map alone and Pop and Front drop keys from the slice (fifo.go:54,
\* fifo.go:67), so a key dropped once too often would strand its pod, pending
\* for ever without ever being scheduled.
NoPodStranded ==
    \A k \in Keys : Has(fifo, k) => \E i \in 1..Len(fifo.queue) : fifo.queue[i] = k

\* The FIFO queue keeps the promises of the PodQueue interface (queue.go:49).
Interface == INSTANCE PodQueue WITH pending <- fifo.pods
ImplementsPodQueue == Interface!Spec
=============================================================================
