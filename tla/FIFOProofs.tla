----------------------------- MODULE FIFOProofs -----------------------------
(***************************************************************************)
(* Lemmas about the operators of FIFO, for every set of keys and pods.     *)
(***************************************************************************)
EXTENDS FIFO, WellFoundedInduction, TLAPS

\* Every pod of the map can be reached through the slice.
Reachable(f) ==
    \A k \in Keys : Has(f, k) => \E i \in 1..Len(f.queue) : f.queue[i] = k

\* A non-empty set of numbers has a least element.
LEMMA LeastNat ==
    ASSUME NEW S \in SUBSET Nat, S # {}
    PROVE  \E i \in S : \A j \in S : i <= j
<1>1. PICK i \in S : \A j \in S : ~(<<j, i>> \in OpToRel(<, Nat))
  <2>1. IsWellFoundedOn(OpToRel(<, Nat), Nat)
    BY NatLessThanWellFounded
  <2> QED BY <2>1, WFMin
<1>2. ASSUME NEW j \in S PROVE i <= j
  <2>1. ~(<<j, i>> \in OpToRel(<, Nat))
    BY <1>1
  <2>2. <<j, i>> \in Nat \X Nat /\ <<j, i>>[1] = j /\ <<j, i>>[2] = i
    OBVIOUS
  <2>3. ~(j < i)
    BY <2>1, <2>2 DEF OpToRel
  <2> QED BY <2>3
<1> QED BY <1>2

\* The loops of Pop and Front (fifo.go:54, fifo.go:67) stop at the first
\* position whose key is in the map.
LEMMA FrontIndexLeast ==
    ASSUME NEW f \in FIFOQueues, ~IsEmpty(f)
    PROVE  /\ FrontIndex(f) \in 1..Len(f.queue)
           /\ FrontKey(f) \in Keys
           /\ FrontPod(f) \in Pods
           /\ FrontPod(f) # NoPod
           /\ \A j \in 1..Len(f.queue) : Has(f, f.queue[j]) => FrontIndex(f) <= j
<1>1. Live(f) \in SUBSET Nat /\ Live(f) # {}
  BY DEF Live, IsEmpty
<1>2. \E i \in Live(f) : \A j \in Live(f) : i <= j
  BY <1>1, LeastNat
<1>3. FrontIndex(f) \in Live(f) /\ \A j \in Live(f) : FrontIndex(f) <= j
  BY <1>2 DEF FrontIndex
<1>4. FrontIndex(f) \in 1..Len(f.queue) /\ Has(f, FrontKey(f))
  BY <1>3 DEF Live, FrontKey
<1>5. FrontKey(f) \in Keys
  BY <1>4 DEF FIFOQueues, FrontKey
<1>6. FrontPod(f) \in Pods /\ FrontPod(f) # NoPod
  BY <1>4, <1>5 DEF FIFOQueues, FrontPod, Has
<1> QED BY <1>3, <1>4, <1>5, <1>6 DEF Live

\* Dropping the stale prefix keeps every key that is in the map.
LEMMA DropStaleOK ==
    ASSUME NEW f \in FIFOQueues, ~IsEmpty(f)
    PROVE  /\ DropStale(f) \in Seq(Keys)
           /\ Len(DropStale(f)) = Len(f.queue) - FrontIndex(f) + 1
           /\ \A i \in 1..Len(DropStale(f)) : DropStale(f)[i] = f.queue[FrontIndex(f) + i - 1]
<1> DEFINE q == f.queue
           m == FrontIndex(f)
<1>1. q \in Seq(Keys)
  BY DEF FIFOQueues
<1>2. m \in 1..Len(q)
  BY FrontIndexLeast
<1>3. DropStale(f) = SubSeq(q, m, Len(q))
  BY DEF DropStale
<1> HIDE DEF q, m
<1>4. /\ SubSeq(q, m, Len(q)) \in Seq(Keys)
      /\ Len(SubSeq(q, m, Len(q))) = Len(q) - m + 1
      /\ \A i \in 1..Len(SubSeq(q, m, Len(q))) : SubSeq(q, m, Len(q))[i] = q[m + i - 1]
  BY <1>1, <1>2
<1> QED BY <1>3, <1>4 DEF q, m

\* The new queue (fifo.go:35) holds nothing.
LEMMA NewOK == NewFIFOQueue \in FIFOQueues /\ Reachable(NewFIFOQueue) /\ IsEmpty(NewFIFOQueue)
  BY DEF NewFIFOQueue, FIFOQueues, Reachable, Has, IsEmpty, Live

\* Pop and Front report an empty queue exactly when the map is empty.
LEMMA EmptyMap ==
    ASSUME NEW f \in FIFOQueues, Reachable(f)
    PROVE  IsEmpty(f) <=> \A k \in Keys : f.pods[k] = NoPod
<1>1. ASSUME NEW i \in 1..Len(f.queue) PROVE f.queue[i] \in Keys
  BY DEF FIFOQueues
<1> QED BY <1>1 DEF Reachable, IsEmpty, Live, Has

\* Push (fifo.go:42) keeps the types and strands no pod.
LEMMA PushOK ==
    ASSUME NEW f \in FIFOQueues, NEW p \in Named
    PROVE  /\ Push(f, p) \in FIFOQueues
           /\ Push(f, p).pods = [f.pods EXCEPT ![KeyOf[p]] = p]
           /\ Push(f, p).queue = Append(f.queue, KeyOf[p])
           /\ Reachable(f) => Reachable(Push(f, p))
<1> DEFINE g == Push(f, p)
           q == f.queue
           k == KeyOf[p]
<1>1. k \in Keys /\ p \in Pods
  BY KeyOfAssumption DEF Named
<1>2. q \in Seq(Keys) /\ f.pods \in [Keys -> Pods \cup {NoPod}]
  BY DEF FIFOQueues
<1>3. g.pods = [f.pods EXCEPT ![k] = p] /\ g.queue = Append(q, k)
  BY DEF Push
<1>4. g \in FIFOQueues
  BY <1>1, <1>2 DEF Push, FIFOQueues
<1>5. Reachable(f) => Reachable(g)
  <2> SUFFICES ASSUME Reachable(f), NEW j \in Keys, Has(g, j)
               PROVE  \E i \in 1..Len(g.queue) : g.queue[i] = j
    BY DEF Reachable
  <2> HIDE DEF g, q, k
  <2>1. CASE j = k
    <3>1. Len(g.queue) = Len(q) + 1 /\ g.queue[Len(q) + 1] = k
      BY <1>1, <1>2, <1>3
    <3> QED BY <2>1, <3>1, <1>2
  <2>2. CASE j # k
    <3>1. Has(f, j)
      BY <1>1, <1>2, <1>3, <2>2 DEF Has
    <3>2. PICK i \in 1..Len(q) : q[i] = j
      BY <3>1 DEF Reachable, q
    <3>3. Len(g.queue) = Len(q) + 1 /\ g.queue[i] = q[i]
      BY <1>1, <1>2, <1>3
    <3> QED BY <3>2, <3>3, <1>2
  <2> QED BY <2>1, <2>2
<1> QED BY <1>3, <1>4, <1>5

\* Front (fifo.go:67) drops stale keys only.
LEMMA FrontOK ==
    ASSUME NEW f \in FIFOQueues
    PROVE  /\ Front(f) \in FIFOQueues
           /\ Front(f).pods = f.pods
           /\ Reachable(f) => Reachable(Front(f))
<1>1. f.queue \in Seq(Keys) /\ f.pods \in [Keys -> Pods \cup {NoPod}]
  BY DEF FIFOQueues
<1>2. Front(f).pods = f.pods /\ Front(f).queue = DropStale(f)
  BY DEF Front, FIFOQueues
<1>3. DropStale(f) \in Seq(Keys)
  BY DropStaleOK DEF DropStale
<1>4. Front(f) \in FIFOQueues
  BY <1>1, <1>3 DEF Front, FIFOQueues
<1>5. ASSUME Reachable(f), NEW k \in Keys, Has(Front(f), k)
      PROVE  \E i \in 1..Len(DropStale(f)) : DropStale(f)[i] = k
  <2>1. Has(f, k)
    BY <1>2, <1>5 DEF Has
  <2>2. PICK i \in 1..Len(f.queue) : f.queue[i] = k
    BY <2>1, <1>5 DEF Reachable
  <2>3. ~IsEmpty(f)
    BY <2>1, <2>2 DEF IsEmpty, Live
  <2>4. FrontIndex(f) \in 1..Len(f.queue) /\ FrontIndex(f) <= i
    BY <2>1, <2>2, <2>3, FrontIndexLeast
  <2>5. i - FrontIndex(f) + 1 \in 1..Len(DropStale(f))
    BY <1>1, <2>2, <2>3, <2>4, DropStaleOK
  <2>6. DropStale(f)[i - FrontIndex(f) + 1] = f.queue[i]
    <3>1. FrontIndex(f) + (i - FrontIndex(f) + 1) - 1 = i
      BY <2>2, <2>4
    <3> QED BY <2>3, <2>5, <3>1, DropStaleOK
  <2> QED BY <2>2, <2>5, <2>6
<1> QED BY <1>2, <1>4, <1>5 DEF Reachable

\* Pop (fifo.go:54) of a queue that is not empty removes the pod of Front, and
\* drops no key of another pod.
LEMMA PopOK ==
    ASSUME NEW f \in FIFOQueues, ~IsEmpty(f)
    PROVE  /\ Pop(f) \in FIFOQueues
           /\ Pop(f).pods = [f.pods EXCEPT ![FrontKey(f)] = NoPod]
           /\ Reachable(f) => Reachable(Pop(f))
<1> DEFINE d == DropStale(f)
<1>1. f.queue \in Seq(Keys) /\ f.pods \in [Keys -> Pods \cup {NoPod}]
  BY DEF FIFOQueues
<1>2. FrontIndex(f) \in 1..Len(f.queue) /\ FrontKey(f) \in Keys
  BY FrontIndexLeast
<1>3. /\ d \in Seq(Keys)
      /\ Len(d) = Len(f.queue) - FrontIndex(f) + 1
      /\ \A i \in 1..Len(d) : d[i] = f.queue[FrontIndex(f) + i - 1]
  BY DropStaleOK
<1>4. Pop(f).pods = [f.pods EXCEPT ![FrontKey(f)] = NoPod] /\ Pop(f).queue = Tail(d)
  BY DEF Pop
<1> HIDE DEF d
<1>5. d # << >>
  BY <1>1, <1>2, <1>3
<1>6. /\ Tail(d) \in Seq(Keys)
      /\ Len(Tail(d)) = Len(d) - 1
      /\ \A i \in 1..Len(Tail(d)) : Tail(d)[i] = d[i + 1]
  BY <1>3, <1>5
<1>7. Pop(f) \in FIFOQueues
  BY <1>1, <1>6 DEF Pop, FIFOQueues, d
<1>8. ASSUME Reachable(f), NEW k \in Keys, Has(Pop(f), k)
      PROVE  \E i \in 1..Len(Tail(d)) : Tail(d)[i] = k
  <2>1. Has(f, k) /\ k # FrontKey(f)
    BY <1>1, <1>2, <1>4, <1>8 DEF Has
  <2>2. PICK i \in 1..Len(f.queue) : f.queue[i] = k
    BY <2>1, <1>8 DEF Reachable
  <2>3. FrontIndex(f) <= i /\ FrontIndex(f) # i
    BY <2>1, <2>2, FrontIndexLeast DEF FrontKey
  <2> DEFINE j == i - FrontIndex(f)
  <2>4. j \in 1..Len(Tail(d)) /\ j + 1 \in 1..Len(d)
    <3>1. Len(f.queue) \in Nat
      BY <1>1
    <3>2. Len(Tail(d)) = Len(f.queue) - FrontIndex(f)
      BY <1>2, <1>3, <1>6, <3>1
    <3>3. i > FrontIndex(f)
      BY <1>2, <2>2, <2>3, <3>1
    <3>4. Len(d) = Len(f.queue) - FrontIndex(f) + 1
      BY <1>3
    <3> QED BY <1>2, <2>2, <3>1, <3>2, <3>3, <3>4
  <2>5. FrontIndex(f) + (j + 1) - 1 = i
    BY <1>2, <2>2
  <2>6. Tail(d)[j] = d[j + 1]
    BY <1>6, <2>4
  <2>7. d[j + 1] = f.queue[i]
    BY <1>3, <2>4, <2>5
  <2> QED BY <2>2, <2>4, <2>6, <2>7
<1> QED BY <1>4, <1>7, <1>8 DEF Reachable

\* Pop of an empty queue drops what is left of the slice.
LEMMA PopEmptyOK ==
    ASSUME NEW f \in FIFOQueues, IsEmpty(f)
    PROVE  /\ Pop(f) \in FIFOQueues
           /\ Pop(f).pods = f.pods
           /\ Reachable(f) => Reachable(Pop(f))
<1>1. f.queue \in Seq(Keys) /\ f.pods \in [Keys -> Pods \cup {NoPod}]
  BY DEF FIFOQueues
<1>2. Pop(f).pods = f.pods /\ Pop(f).queue = << >> /\ Pop(f) \in FIFOQueues
  BY <1>1 DEF Pop, FIFOQueues
<1>3. ASSUME Reachable(f), NEW k \in Keys, Has(Pop(f), k) PROVE FALSE
  BY <1>2, <1>3, EmptyMap DEF Has
<1> QED BY <1>2, <1>3 DEF Reachable

\* Delete (fifo.go:79) leaves the slice alone.
LEMMA DeleteOK ==
    ASSUME NEW f \in FIFOQueues, NEW k \in Keys
    PROVE  /\ Delete(f, k) \in FIFOQueues
           /\ Delete(f, k).pods = [f.pods EXCEPT ![k] = NoPod]
           /\ Delete(f, k).queue = f.queue
           /\ Reachable(f) => Reachable(Delete(f, k))
<1>1. f.queue \in Seq(Keys) /\ f.pods \in [Keys -> Pods \cup {NoPod}]
  BY DEF FIFOQueues
<1>2. /\ Delete(f, k).pods = [f.pods EXCEPT ![k] = NoPod]
      /\ Delete(f, k).queue = f.queue
      /\ Delete(f, k) \in FIFOQueues
  BY <1>1 DEF Delete, FIFOQueues
<1> QED BY <1>1, <1>2 DEF Reachable, Has

\* Update (fifo.go:87) of a pod of the queue leaves the slice alone.
LEMMA UpdateOK ==
    ASSUME NEW f \in FIFOQueues, NEW p \in Named
    PROVE  /\ Update(f, p) \in FIFOQueues
           /\ Update(f, p).pods = [f.pods EXCEPT ![KeyOf[p]] = p]
           /\ Update(f, p).queue = f.queue
           /\ Reachable(f) /\ Has(f, KeyOf[p]) => Reachable(Update(f, p))
<1>1. f.queue \in Seq(Keys) /\ f.pods \in [Keys -> Pods \cup {NoPod}]
  BY DEF FIFOQueues
<1>2. KeyOf[p] \in Keys /\ p \in Pods
  BY KeyOfAssumption DEF Named
<1>3. /\ Update(f, p).pods = [f.pods EXCEPT ![KeyOf[p]] = p]
      /\ Update(f, p).queue = f.queue
      /\ Update(f, p) \in FIFOQueues
  BY <1>1, <1>2 DEF Update, FIFOQueues
<1> QED BY <1>1, <1>2, <1>3 DEF Reachable, Has

\* A second Front, or a Pop, meets the pod that the first Front returned.
LEMMA FrontAgain ==
    ASSUME NEW f \in FIFOQueues
    PROVE  /\ IsEmpty(Front(f)) <=> IsEmpty(f)
           /\ ~IsEmpty(f) => FrontPod(Front(f)) = FrontPod(f)
<1> DEFINE g == Front(f)
<1>1. g \in FIFOQueues /\ g.pods = f.pods /\ g.queue = DropStale(f)
  BY FrontOK DEF Front
<1>2. CASE IsEmpty(f)
  <2>1. g.queue = << >>
    BY <1>1, <1>2 DEF DropStale
  <2> QED BY <1>2, <2>1 DEF IsEmpty, Live
<1>3. CASE ~IsEmpty(f)
  <2>1. Len(g.queue) >= 1 /\ g.queue[1] = FrontKey(f)
    <3>1. FrontIndex(f) \in 1..Len(f.queue)
      BY <1>3, FrontIndexLeast
    <3>2. Len(f.queue) \in Nat
      BY DEF FIFOQueues
    <3>3. Len(g.queue) = Len(f.queue) - FrontIndex(f) + 1
      BY <1>1, <1>3, DropStaleOK
    <3>4. Len(g.queue) >= 1 /\ 1 \in 1..Len(g.queue)
      BY <3>1, <3>2, <3>3
    <3>5. g.queue[1] = f.queue[FrontIndex(f) + 1 - 1]
      BY <1>1, <1>3, <3>4, DropStaleOK
    <3>6. FrontIndex(f) + 1 - 1 = FrontIndex(f)
      BY <3>1
    <3> QED BY <3>4, <3>5, <3>6 DEF FrontKey
  <2>2. Has(g, FrontKey(f))
    BY <1>1, <1>3, FrontIndexLeast DEF Has, FrontPod
  <2>3. Len(g.queue) \in Nat
    BY <1>1 DEF FIFOQueues
  <2>4. 1 \in Live(g)
    BY <2>1, <2>2, <2>3 DEF Live
  <2>5. ~IsEmpty(g)
    BY <2>4 DEF IsEmpty
  <2>6. FrontIndex(g) \in 1..Len(g.queue) /\ FrontIndex(g) <= 1
    BY <1>1, <2>1, <2>2, <2>3, <2>5, FrontIndexLeast
  <2>7. FrontKey(g) = FrontKey(f)
    BY <2>1, <2>3, <2>6 DEF FrontKey
  <2> QED BY <1>1, <1>3, <2>5, <2>7 DEF FrontPod
<1> QED BY <1>2, <1>3

-----------------------------------------------------------------------------
\* Pods of the queues have a key.
Keyed(f) == \A k \in Keys : f.pods[k] # NoPod => KeyOf[f.pods[k]] = k

LEMMA FrontNamed ==
    ASSUME NEW f \in FIFOQueues, Keyed(f), ~IsEmpty(f)
    PROVE  FrontPod(f) \in Named /\ KeyOf[FrontPod(f)] = FrontKey(f)
<1>1. FrontKey(f) \in Keys /\ FrontPod(f) \in Pods /\ FrontPod(f) # NoPod
  BY FrontIndexLeast
<1>2. KeyOf[FrontPod(f)] = FrontKey(f)
  BY <1>1 DEF Keyed, FrontPod
<1> QED BY <1>1, <1>2, NoKeyAssumption DEF Named

\* What the queues keep: their pods are under their keys and in reach.
Good(f) == f \in FIFOQueues /\ Keyed(f) /\ Reachable(f)

LEMMA GoodNew == Good(NewFIFOQueue)
  BY NewOK DEF Good, Keyed, NewFIFOQueue

LEMMA GoodPush ==
    ASSUME NEW f, Good(f), NEW p \in Named
    PROVE  Good(Push(f, p))
<1>1. f \in FIFOQueues /\ f.pods \in [Keys -> Pods \cup {NoPod}] /\ KeyOf[p] \in Keys
  BY KeyOfAssumption DEF Good, FIFOQueues, Named
<1>2. /\ Push(f, p) \in FIFOQueues
      /\ Push(f, p).pods = [f.pods EXCEPT ![KeyOf[p]] = p]
      /\ Reachable(Push(f, p))
  BY <1>1, PushOK DEF Good
<1>3. Keyed(Push(f, p))
  BY <1>1, <1>2 DEF Good, Keyed
<1> QED BY <1>2, <1>3 DEF Good

LEMMA GoodFront ==
    ASSUME NEW f, Good(f)
    PROVE  Good(Front(f)) /\ Front(f).pods = f.pods
  BY FrontOK DEF Good, Keyed

LEMMA GoodPop ==
    ASSUME NEW f, Good(f)
    PROVE  Good(Pop(f))
<1>1. f \in FIFOQueues /\ f.pods \in [Keys -> Pods \cup {NoPod}]
  BY DEF Good, FIFOQueues
<1>2. CASE IsEmpty(f)
  BY <1>1, <1>2, PopEmptyOK DEF Good, Keyed
<1>3. CASE ~IsEmpty(f)
  <2>1. FrontKey(f) \in Keys
    BY <1>1, <1>3, FrontIndexLeast
  <2> QED BY <1>1, <1>3, <2>1, PopOK DEF Good, Keyed
<1> QED BY <1>2, <1>3

LEMMA GoodDelete ==
    ASSUME NEW f, Good(f), NEW k \in Keys
    PROVE  Good(Delete(f, k))
<1>1. f \in FIFOQueues /\ f.pods \in [Keys -> Pods \cup {NoPod}]
  BY DEF Good, FIFOQueues
<1> QED BY <1>1, DeleteOK DEF Good, Keyed

LEMMA GoodUpdate ==
    ASSUME NEW f, Good(f), NEW p \in Named, Has(f, KeyOf[p])
    PROVE  Good(Update(f, p))
<1>1. f \in FIFOQueues /\ f.pods \in [Keys -> Pods \cup {NoPod}] /\ KeyOf[p] \in Keys
  BY KeyOfAssumption DEF Good, FIFOQueues, Named
<1>2. /\ Update(f, p) \in FIFOQueues
      /\ Update(f, p).pods = [f.pods EXCEPT ![KeyOf[p]] = p]
      /\ Reachable(Update(f, p))
  BY <1>1, UpdateOK DEF Good
<1>3. Keyed(Update(f, p))
  BY <1>1, <1>2 DEF Good, Keyed
<1> QED BY <1>2, <1>3 DEF Good

\* Front leaves the pod at the front where it is (fifo.go:67).
LEMMA FrontStays ==
    ASSUME NEW f, Good(f), ~IsEmpty(f)
    PROVE  ~IsEmpty(Front(f)) /\ FrontPod(Front(f)) = FrontPod(f)
<1> DEFINE g == Front(f)
<1>1. /\ f \in FIFOQueues /\ g \in FIFOQueues /\ g.pods = f.pods /\ g.queue = DropStale(f)
  BY FrontOK DEF Good, Front
<1>2. /\ FrontIndex(f) \in 1..Len(f.queue) /\ f.queue[FrontIndex(f)] = FrontKey(f)
      /\ Has(f, FrontKey(f))
  BY <1>1, FrontIndexLeast DEF FrontKey, FrontPod, Has
<1>3. /\ Len(g.queue) = Len(f.queue) - FrontIndex(f) + 1
      /\ \A i \in 1..Len(g.queue) : g.queue[i] = f.queue[FrontIndex(f) + i - 1]
  BY <1>1, DropStaleOK
<1>4. 1 \in 1..Len(g.queue) /\ g.queue[1] = FrontKey(f)
  <2>1. Len(f.queue) \in Nat /\ FrontIndex(f) \in Nat /\ FrontIndex(f) <= Len(f.queue)
    BY <1>1, <1>2 DEF FIFOQueues
  <2>2. 1 \in 1..Len(g.queue)
    BY <1>3, <2>1
  <2>3. FrontIndex(f) + 1 - 1 = FrontIndex(f)
    BY <2>1
  <2> QED BY <1>2, <1>3, <2>2, <2>3
<1>5. Has(g, g.queue[1])
  BY <1>1, <1>2, <1>4 DEF Has
<1>6. ~IsEmpty(g)
  BY <1>4, <1>5 DEF IsEmpty, Live
<1>7. FrontIndex(g) = 1
  <2>1. FrontIndex(g) \in 1..Len(g.queue) /\ FrontIndex(g) <= 1
    BY <1>1, <1>4, <1>5, <1>6, FrontIndexLeast
  <2> QED BY <2>1
<1>8. FrontPod(g) = FrontPod(f)
  BY <1>1, <1>4, <1>7 DEF FrontPod, FrontKey
<1> QED BY <1>6, <1>8

-----------------------------------------------------------------------------
(* The order of the slice.                                                 *)

Listed(f, k) == \E i \in 1..Len(f.queue) : f.queue[i] = k

\* Each k of the slice has a j before it.
Precedes(f, j, k) ==
    \A i \in 1..Len(f.queue) : f.queue[i] = k => \E m \in 1..(i - 1) : f.queue[m] = j

LEMMA PushPrecedes ==
    ASSUME NEW f, f \in FIFOQueues, NEW p \in Named, NEW j, NEW k, Precedes(f, j, k),
           KeyOf[p] = k => Listed(f, j)
    PROVE  Precedes(Push(f, p), j, k)
<1> DEFINE q == f.queue
           L == Len(q)
           x == KeyOf[p]
           r == Append(q, x)
<1>1. q \in Seq(Keys) /\ L \in Nat /\ x \in Keys /\ Push(f, p).queue = r
  BY KeyOfAssumption DEF FIFOQueues, Named, Push
<1>2. Len(r) = L + 1 /\ r[L + 1] = x /\ \A i \in 1..L : r[i] = q[i]
  BY <1>1
<1>3. x = k => \E i \in 1..L : q[i] = j
  BY DEF Listed
<1>4. \A i \in 1..L : q[i] = k => \E m \in 1..(i - 1) : q[m] = j
  BY DEF Precedes
<1> HIDE DEF r, x, L, q
<1>5. ASSUME NEW i \in 1..Len(r), r[i] = k PROVE \E m \in 1..(i - 1) : r[m] = j
  <2>1. CASE i \in 1..L
    <3>1. PICK m \in 1..(i - 1) : q[m] = j
      BY <1>2, <1>4, <1>5, <2>1
    <3>2. m \in 1..L
      BY <1>1, <2>1
    <3> QED BY <1>2, <3>1, <3>2
  <2>2. CASE i = L + 1
    <3>1. PICK m \in 1..L : q[m] = j
      BY <1>2, <1>3, <1>5, <2>2
    <3>2. m \in 1..(i - 1)
      BY <1>1, <2>2
    <3> QED BY <1>2, <3>1, <3>2
  <2> QED BY <1>1, <1>2, <2>1, <2>2
<1> QED BY <1>1, <1>5 DEF Precedes

\* No live key is lost when the first d of the slice are dropped, those before the
\* front one.
LEMMA DropPrecedes ==
    ASSUME NEW f, f \in FIFOQueues, NEW g, g \in FIFOQueues, NEW d \in 0..Len(f.queue),
           Len(g.queue) = Len(f.queue) - d,
           \A i \in 1..Len(g.queue) : g.queue[i] = f.queue[d + i],
           NEW j, NEW k, \A i \in 1..d : f.queue[i] # j,
           Precedes(f, j, k)
    PROVE  Precedes(g, j, k)
<1> DEFINE L == Len(f.queue)
           K == Len(g.queue)
<1>1. L \in Nat /\ K \in Nat /\ K = L - d /\ d \in Nat
  BY DEF FIFOQueues
<1> SUFFICES ASSUME NEW i \in 1..K, g.queue[i] = k PROVE \E m \in 1..(i - 1) : g.queue[m] = j
  BY DEF Precedes
<1>2. d + i \in 1..L /\ f.queue[d + i] = k
  BY <1>1
<1>3. PICK m \in 1..(d + i - 1) : f.queue[m] = j
  <2>1. \A n \in 1..Len(f.queue) : f.queue[n] = k => \E m \in 1..(n - 1) : f.queue[m] = j
    BY DEF Precedes
  <2> DEFINE n == d + i
  <2> HIDE DEF n
  <2>2. n \in 1..Len(f.queue) /\ f.queue[n] = k
    BY <1>2 DEF n
  <2>3. \E m \in 1..(n - 1) : f.queue[m] = j
    BY <2>1, <2>2
  <2> QED BY <2>3 DEF n
<1> HIDE DEF K, L
<1>4. m \notin 1..d
  BY <1>3
<1>5. m - d \in 1..(i - 1) /\ m - d \in 1..K /\ d + (m - d) = m
  BY <1>1, <1>2, <1>4
<1>6. g.queue[m - d] = j
  BY <1>3, <1>5 DEF K
<1> QED BY <1>5, <1>6

LEMMA FrontPrecedes ==
    ASSUME NEW f, f \in FIFOQueues, NEW j, Has(f, j), NEW k, Precedes(f, j, k)
    PROVE  Precedes(Front(f), j, k)
<1>1. CASE IsEmpty(f)
  <2>1. Front(f).queue = << >> /\ Len(<< >>) = 0
    BY <1>1 DEF Front, DropStale
  <2> QED BY <2>1 DEF Precedes
<1>2. CASE ~IsEmpty(f)
  <2> DEFINE d == FrontIndex(f) - 1
             L == Len(f.queue)
  <2>1. FrontIndex(f) \in 1..L /\ L \in Nat
    BY <1>2, FrontIndexLeast DEF FIFOQueues
  <2>2. /\ Front(f) \in FIFOQueues /\ Front(f).queue = DropStale(f)
        /\ Len(DropStale(f)) = L - FrontIndex(f) + 1
        /\ \A i \in 1..Len(DropStale(f)) : DropStale(f)[i] = f.queue[FrontIndex(f) + i - 1]
    BY <1>2, FrontOK, DropStaleOK DEF Front
  <2>3. d \in 0..L /\ L - d = L - FrontIndex(f) + 1
    BY <2>1
  <2>4. \A i \in 1..L : Has(f, f.queue[i]) => FrontIndex(f) <= i
    BY <1>2, FrontIndexLeast
  <2>5. \A i \in 1..d : f.queue[i] # j
    <3> SUFFICES ASSUME NEW i \in 1..d, f.queue[i] = j PROVE FALSE
      OBVIOUS
    <3>1. i \in 1..L /\ ~(FrontIndex(f) <= i)
      BY <2>1
    <3> QED BY <2>4, <3>1
  <2>6. \A i \in 1..Len(Front(f).queue) : Front(f).queue[i] = f.queue[d + i]
    <3> SUFFICES ASSUME NEW i \in 1..Len(DropStale(f)) PROVE DropStale(f)[i] = f.queue[d + i]
      BY <2>2
    <3>1. FrontIndex(f) + i - 1 = d + i
      BY <2>1, <2>2
    <3> QED BY <2>2, <3>1
  <2>7. Len(Front(f).queue) = L - d
    BY <2>2, <2>3
  <2> HIDE DEF d
  <2> QED BY <2>2, <2>3, <2>5, <2>6, <2>7, DropPrecedes
<1> QED BY <1>1, <1>2

LEMMA PopPrecedes ==
    ASSUME NEW f, f \in FIFOQueues, NEW j, Has(Pop(f), j), j \in Keys, NEW k, Precedes(f, j, k)
    PROVE  Precedes(Pop(f), j, k)
<1>1. CASE IsEmpty(f)
  <2>1. Pop(f).queue = << >> /\ Len(<< >>) = 0
    BY <1>1 DEF Pop
  <2> QED BY <2>1 DEF Precedes
<1>2. CASE ~IsEmpty(f)
  <2> DEFINE d == FrontIndex(f)
             L == Len(f.queue)
             s == DropStale(f)
  <2>1. d \in 1..L /\ L \in Nat /\ d \in 0..L /\ FrontKey(f) = f.queue[d] /\ FrontKey(f) \in Keys
    BY <1>2, FrontIndexLeast DEF FIFOQueues, FrontKey
  <2>2. /\ Pop(f) \in FIFOQueues /\ Pop(f).queue = Tail(s)
        /\ Pop(f).pods = [f.pods EXCEPT ![FrontKey(f)] = NoPod]
    BY <1>2, PopOK DEF Pop
  <2>3. s \in Seq(Keys) /\ Len(s) = L - d + 1 /\ \A i \in 1..Len(s) : s[i] = f.queue[d + i - 1]
    BY <1>2, DropStaleOK
  <2> HIDE DEF s
  <2>4. Len(Tail(s)) = L - d /\ \A i \in 1..(L - d) : Tail(s)[i] = s[i + 1]
    BY <2>1, <2>3
  <2>5. \A i \in 1..L : Has(f, f.queue[i]) => d <= i
    BY <1>2, FrontIndexLeast
  <2>6. f.pods \in [Keys -> Pods \cup {NoPod}]
    BY DEF FIFOQueues
  <2>7. j # FrontKey(f) /\ Has(f, j)
    BY <2>1, <2>2, <2>6 DEF Has
  <2> HIDE DEF d, L
  <2>8. \A i \in 1..d : f.queue[i] # j
    <3> SUFFICES ASSUME NEW i \in 1..d, f.queue[i] = j PROVE FALSE
      OBVIOUS
    <3>1. i \in 1..L /\ d <= i
      BY <2>1, <2>5, <2>7
    <3>2. i = d
      BY <2>1, <3>1
    <3> QED BY <2>1, <2>7, <3>2
  <2>9. \A i \in 1..Len(Pop(f).queue) : Pop(f).queue[i] = f.queue[d + i]
    <3> SUFFICES ASSUME NEW i \in 1..(L - d) PROVE Tail(s)[i] = f.queue[d + i]
      BY <2>2, <2>4
    <3>1. i + 1 \in 1..Len(s) /\ d + (i + 1) - 1 = d + i
      BY <2>1, <2>3
    <3> QED BY <2>3, <2>4, <3>1
  <2>10. Len(Pop(f).queue) = Len(f.queue) - d /\ d \in 0..Len(f.queue)
    BY <2>1, <2>2, <2>4 DEF L
  <2> QED BY <2>2, <2>8, <2>9, <2>10, DropPrecedes
<1> QED BY <1>1, <1>2

\* What precedes the front key has left.
LEMMA FrontFirst ==
    ASSUME NEW f, f \in FIFOQueues, ~IsEmpty(f), NEW j, Precedes(f, j, FrontKey(f))
    PROVE  ~Has(f, j)
<1> SUFFICES ASSUME Has(f, j) PROVE FALSE
  OBVIOUS
<1> DEFINE d == FrontIndex(f)
           L == Len(f.queue)
<1>1. d \in 1..L /\ L \in Nat /\ FrontKey(f) = f.queue[d]
  BY FrontIndexLeast DEF FIFOQueues, FrontKey
<1>2. PICK m \in 1..(d - 1) : f.queue[m] = j
  BY <1>1 DEF Precedes
<1>3. m \in 1..L /\ ~(d <= m)
  BY <1>1
<1>4. \A i \in 1..L : Has(f, f.queue[i]) => d <= i
  BY FrontIndexLeast
<1> QED BY <1>2, <1>3, <1>4

\* No key is twice in the slice.
OneSlot(f) == \A i, j \in 1..Len(f.queue) : f.queue[i] = f.queue[j] => i = j

\* The keys in the queue that may be popped before j is.
Before(f, j) == {k \in Keys \ {j} : Has(f, k) /\ ~Precedes(f, j, k)}

\* The slice of Front and Pop is an end of the slice.
LEMMA DropEnd ==
    ASSUME NEW f, f \in FIFOQueues, ~IsEmpty(f), NEW g, g = Front(f) \/ g = Pop(f)
    PROVE  \E d \in 0..Len(f.queue) :
              /\ Len(g.queue) = Len(f.queue) - d
              /\ \A i \in 1..Len(g.queue) : d + i \in 1..Len(f.queue) /\ g.queue[i] = f.queue[d + i]
              /\ g = Pop(f) => d = FrontIndex(f)
<1> DEFINE q == DropStale(f)
           m == FrontIndex(f)
           L == Len(f.queue)
<1>1. /\ q \in Seq(Keys) /\ Len(q) = L - m + 1
      /\ \A i \in 1..Len(q) : q[i] = f.queue[m + i - 1]
      /\ m \in 1..L /\ L \in Nat
  BY DropStaleOK, FrontIndexLeast DEF FIFOQueues
<1>2. Front(f).queue = q /\ Pop(f).queue = Tail(q)
  BY DEF Front, Pop
<1> HIDE DEF q, m, L
<1>3. q # << >>
  BY <1>1
<1>4. CASE g.queue = q /\ g # Pop(f)
  <2>1. m - 1 \in 0..L /\ Len(q) = L - (m - 1)
    BY <1>1
  <2>2. \A i \in 1..Len(q) : (m - 1) + i \in 1..L /\ q[i] = f.queue[(m - 1) + i]
    BY <1>1
  <2> QED BY <1>4, <2>1, <2>2 DEF L
<1>5. CASE g = Pop(f)
  <2>1. Len(Tail(q)) = Len(q) - 1 /\ \A i \in 1..Len(Tail(q)) : Tail(q)[i] = q[i + 1]
    BY <1>1, <1>3
  <2>2. m \in 0..L /\ Len(Tail(q)) = L - m
    BY <1>1, <2>1
  <2>3. \A i \in 1..Len(Tail(q)) : m + i \in 1..L /\ Tail(q)[i] = f.queue[m + i]
    <3> SUFFICES ASSUME NEW i \in 1..Len(Tail(q)) PROVE m + i \in 1..L /\ Tail(q)[i] = f.queue[m + i]
      OBVIOUS
    <3>1. i + 1 \in 1..Len(q) /\ m + (i + 1) - 1 = m + i
      BY <1>1, <2>1
    <3> QED BY <1>1, <2>1, <2>2, <3>1
  <2> QED BY <1>2, <1>5, <2>2, <2>3 DEF L, m
<1> QED BY <1>2, <1>4, <1>5

LEMMA DropEmpty ==
    ASSUME NEW f, IsEmpty(f), NEW g, g = Front(f) \/ g = Pop(f)
    PROVE  Len(g.queue) = 0
  BY DEF Front, Pop, DropStale

LEMMA DropListed ==
    ASSUME NEW f, f \in FIFOQueues, NEW k, NEW g,
           g = Front(f) \/ g = Pop(f), Listed(g, k)
    PROVE  Listed(f, k)
<1>1. CASE IsEmpty(f)
  <2>1. Len(g.queue) = 0
    BY <1>1, DropEmpty
  <2> QED BY <2>1 DEF Listed
<1>2. CASE ~IsEmpty(f)
  BY <1>2, DropEnd DEF Listed
<1> QED BY <1>1, <1>2

LEMMA DropOneSlot ==
    ASSUME NEW f, f \in FIFOQueues, OneSlot(f), NEW g, g = Front(f) \/ g = Pop(f)
    PROVE  /\ OneSlot(g)
           /\ \A k : Listed(g, k) => Listed(f, k)
           /\ g = Pop(f) /\ ~IsEmpty(f) => ~Listed(g, FrontKey(f))
<1>1. CASE IsEmpty(f)
  <2>1. Len(g.queue) = 0
    BY <1>1, DropEmpty
  <2> QED BY <1>1, <2>1 DEF OneSlot, Listed
<1>2. CASE ~IsEmpty(f)
  <2>0. Len(f.queue) \in Nat
    BY DEF FIFOQueues
  <2>1. PICK d \in 0..Len(f.queue) :
              /\ Len(g.queue) = Len(f.queue) - d
              /\ \A i \in 1..Len(g.queue) : d + i \in 1..Len(f.queue) /\ g.queue[i] = f.queue[d + i]
              /\ g = Pop(f) => d = FrontIndex(f)
    BY <1>2, DropEnd
  <2>2. OneSlot(g)
    <3> SUFFICES ASSUME NEW i \in 1..Len(g.queue), NEW j \in 1..Len(g.queue), g.queue[i] = g.queue[j]
                 PROVE  i = j
      BY DEF OneSlot
    <3>1. d + i = d + j
      BY <2>1 DEF OneSlot
    <3> QED BY <2>0, <2>1, <3>1
  <2>3. \A k : Listed(g, k) => Listed(f, k)
    BY <2>1 DEF Listed
  <2>4. ASSUME g = Pop(f), Listed(g, FrontKey(f)) PROVE FALSE
    <3>1. PICK i \in 1..Len(g.queue) : g.queue[i] = FrontKey(f)
      BY <2>4 DEF Listed
    <3>2. FrontIndex(f) \in 1..Len(f.queue) /\ d = FrontIndex(f)
      BY <1>2, <2>1, <2>4, FrontIndexLeast
    <3>3. d + i = d
      BY <2>1, <3>1, <3>2 DEF OneSlot, FrontKey
    <3> QED BY <2>0, <2>1, <3>3
  <2> QED BY <2>2, <2>3, <2>4
<1> QED BY <1>1, <1>2

LEMMA PushOneSlot ==
    ASSUME NEW f, f \in FIFOQueues, OneSlot(f), NEW p \in Named, ~Listed(f, KeyOf[p])
    PROVE  /\ OneSlot(Push(f, p))
           /\ \A k \in Keys : Listed(Push(f, p), k) <=> Listed(f, k) \/ k = KeyOf[p]
<1> DEFINE q == f.queue
           x == KeyOf[p]
           r == Append(q, x)
<1>1. q \in Seq(Keys) /\ x \in Keys /\ Len(q) \in Nat /\ Push(f, p).queue = r
  <2>1. q \in Seq(Keys) /\ x \in Keys
    BY KeyOfAssumption DEF FIFOQueues, Named
  <2>2. Push(f, p).queue = r
    BY PushOK
  <2> QED BY <2>1, <2>2
<1> HIDE DEF q, x
<1>2. Len(r) = Len(q) + 1 /\ r[Len(q) + 1] = x /\ \A i \in 1..Len(q) : r[i] = q[i]
  BY <1>1
<1>3. \A i \in 1..Len(q) : q[i] # x
  BY DEF Listed, q, x
<1> HIDE DEF r
<1>4. OneSlot(Push(f, p))
  <2> SUFFICES ASSUME NEW i \in 1..Len(r), NEW j \in 1..Len(r), r[i] = r[j] PROVE i = j
    BY <1>1 DEF OneSlot
  <2>1. CASE i \in 1..Len(q) /\ j \in 1..Len(q)
    BY <1>2, <2>1 DEF OneSlot, q
  <2>2. CASE i = Len(q) + 1 \/ j = Len(q) + 1
    BY <1>1, <1>2, <1>3, <2>2
  <2> QED BY <1>1, <1>2, <2>1, <2>2
<1>5. ASSUME NEW k \in Keys PROVE Listed(Push(f, p), k) <=> Listed(f, k) \/ k = x
  <2>1. Listed(Push(f, p), k) <=> \E i \in 1..Len(r) : r[i] = k
    BY <1>1 DEF Listed
  <2>2. Listed(f, k) <=> \E i \in 1..Len(q) : q[i] = k
    BY DEF Listed, q
  <2>3. \A i : i \in 1..Len(r) <=> i \in 1..Len(q) \/ i = Len(q) + 1
    BY <1>1, <1>2
  <2> QED BY <1>2, <2>1, <2>2, <2>3
<1> QED BY <1>4, <1>5 DEF x

LEMMA BeforeFront ==
    ASSUME NEW f, Good(f), NEW j, Has(f, j)
    PROVE  Before(Front(f), j) \subseteq Before(f, j)
<1>1. f \in FIFOQueues
  BY DEF Good
<1>2. \A k \in Keys : Has(Front(f), k) => Has(f, k)
  BY <1>1, FrontOK DEF Has
<1>3. \A k \in Keys : Precedes(f, j, k) => Precedes(Front(f), j, k)
  BY <1>1, FrontPrecedes
<1> QED BY <1>2, <1>3 DEF Before

LEMMA BeforePop ==
    ASSUME NEW f, Good(f), ~IsEmpty(f), NEW j \in Keys, Has(f, j), j # FrontKey(f)
    PROVE  /\ Before(Pop(f), j) \subseteq Before(f, j)
           /\ FrontKey(f) \in Before(f, j)
<1>1. f \in FIFOQueues /\ f.pods \in [Keys -> Pods \cup {NoPod}] /\ FrontKey(f) \in Keys
      /\ FrontPod(f) # NoPod
  BY FrontIndexLeast DEF Good, FIFOQueues
<1>2. Pop(f).pods = [f.pods EXCEPT ![FrontKey(f)] = NoPod]
  BY <1>1, PopOK
<1>3. \A k \in Keys : Has(Pop(f), k) => Has(f, k)
  BY <1>1, <1>2 DEF Has
<1>4. Has(Pop(f), j)
  BY <1>1, <1>2 DEF Has
<1>5. \A k \in Keys : Precedes(f, j, k) => Precedes(Pop(f), j, k)
  BY <1>1, <1>4, PopPrecedes
<1>6. Has(f, FrontKey(f)) /\ ~Precedes(f, j, FrontKey(f))
  BY <1>1, FrontFirst DEF Has, FrontPod
<1> QED BY <1>1, <1>3, <1>5, <1>6 DEF Before

LEMMA BeforePush ==
    ASSUME NEW f, Good(f), NEW p \in Named, ~Listed(f, KeyOf[p]), NEW j \in Keys, Has(f, j)
    PROVE  /\ Before(Push(f, p), j) \subseteq Before(f, j)
           /\ \A k \in Keys : Precedes(f, j, k) => Precedes(Push(f, p), j, k)
           /\ Precedes(Push(f, p), j, KeyOf[p])
<1>1. f \in FIFOQueues /\ f.pods \in [Keys -> Pods \cup {NoPod}] /\ KeyOf[p] \in Keys /\ Listed(f, j)
  BY KeyOfAssumption DEF Good, FIFOQueues, Reachable, Listed, Named
<1>2. Push(f, p).pods = [f.pods EXCEPT ![KeyOf[p]] = p]
  BY <1>1, PushOK
<1>3. \A k \in Keys : Precedes(f, j, k) => Precedes(Push(f, p), j, k)
  BY <1>1, PushPrecedes
<1>4. Precedes(f, j, KeyOf[p])
  BY DEF Precedes, Listed
<1>5. \A k \in Keys : k # KeyOf[p] /\ Has(Push(f, p), k) => Has(f, k)
  BY <1>1, <1>2 DEF Has
<1> QED BY <1>1, <1>3, <1>4, <1>5 DEF Before

\* Deletion and update leave the slice as it is.
LEMMA BeforeWrite ==
    ASSUME NEW f, NEW g, g.queue = f.queue, NEW j, \A k \in Keys : Has(g, k) => Has(f, k)
    PROVE  Before(g, j) \subseteq Before(f, j)
  BY DEF Before, Precedes
=============================================================================
