-------------------------- MODULE PreemptionProofs --------------------------
(***************************************************************************)
(* Part 1: the heap of priority_queue.go, for every comparator value, every*)
(* set of keys and every sequence of calls: positions and items agree, the *)
(* pod at the front comes before all others, and the queue implements      *)
(* PodQueue.  This part uses no definition or assumption of Preemption.    *)
(*                                                                         *)
(* Part 2: Preemption for every set of pods and nodes, every placement by  *)
(* earlier passes and every clock: its types, that the pod at the front has*)
(* the highest priority although times change in the heap, that the records*)
(* of nominations agree, that a pod under nomination evicts on one node,   *)
(* that victims are needed, the node cheapest, what is freed kept, and that*)
(* only candidates that extenders refused end the program.                 *)
(***************************************************************************)
EXTENDS Preemption, SumProofs

-----------------------------------------------------------------------------
(* Loops that make progress.                                               *)

\* The runs of n rounds of the function G from b.
Runs(D, b, G, n) == {f \in [0..n -> D] : f[0] = b /\ \A k \in 1..n : f[k] = G[f[k - 1]]}

LEMMA RunExists ==
    ASSUME NEW D, NEW b \in D, NEW G \in [D -> D], NEW n \in Nat
    PROVE  Runs(D, b, G, n) # {}
<1> DEFINE S == {m \in Nat : Runs(D, b, G, m) # {}}
<1>1. 0 \in S
  <2> DEFINE g == [k \in 0..0 |-> b]
  <2>1. g \in [0..0 -> D] /\ g[0] = b
    OBVIOUS
  <2>2. \A k \in 1..0 : g[k] = G[g[k - 1]]
    OBVIOUS
  <2> HIDE DEF g
  <2> QED BY <2>1, <2>2 DEF Runs
<1>2. ASSUME NEW m \in Nat, m \in S PROVE m + 1 \in S
  <2>1. PICK f \in [0..m -> D] : f[0] = b /\ \A k \in 1..m : f[k] = G[f[k - 1]]
    BY <1>2 DEF Runs
  <2> DEFINE g == [k \in 0..(m + 1) |-> IF k = m + 1 THEN G[f[m]] ELSE f[k]]
  <2>2. g \in [0..(m + 1) -> D]
    OBVIOUS
  <2>3. g[0] = b /\ \A k \in 1..(m + 1) : g[k] = G[g[k - 1]]
    BY <2>1
  <2> HIDE DEF g
  <2> QED BY <2>2, <2>3 DEF Runs
<1> HIDE DEF S
<1>3. n \in S
  BY <1>1, <1>2, Induction
<1> QED BY <1>3 DEF S

\* A run of which every round that changes the state lowers a measure has ended
\* after as many rounds.
Progress(D, G, M) == \A at \in D : G[at] = at \/ M[G[at]] < M[at]

LEMMA RunEnds ==
    ASSUME NEW D, NEW b \in D, NEW G \in [D -> D], NEW M \in [D -> Nat], NEW n \in Nat,
           M[b] <= n, Progress(D, G, M),
           NEW f \in Runs(D, b, G, n)
    PROVE  f[n] \in D /\ G[f[n]] = f[n]
<1>1. /\ f \in [0..n -> D] /\ f[0] = b
      /\ \A k \in 1..n : f[k] = G[f[k - 1]]
  BY DEF Runs
<1> DEFINE S == {k \in Nat : k \in 0..n => G[f[k]] = f[k] \/ M[f[k]] + k <= M[b]}
<1>2. 0 \in S
  BY <1>1
<1>3. ASSUME NEW k \in Nat, k \in S PROVE k + 1 \in S
  <2> SUFFICES ASSUME k + 1 \in 0..n
               PROVE  G[f[k + 1]] = f[k + 1] \/ M[f[k + 1]] + (k + 1) <= M[b]
    OBVIOUS
  <2>1. k \in 0..n /\ k + 1 \in 1..n /\ (k + 1) - 1 = k
    OBVIOUS
  <2>2. f[k] \in D /\ f[k + 1] = G[f[k]] /\ f[k + 1] \in D
    BY <1>1, <2>1
  <2>3. CASE G[f[k]] = f[k]
    BY <2>2, <2>3
  <2>4. CASE G[f[k]] # f[k]
    <3>1. M[f[k]] + k <= M[b] /\ M[f[k + 1]] < M[f[k]]
      BY <1>3, <2>1, <2>2, <2>4 DEF Progress
    <3>2. M[f[k]] \in Nat /\ M[f[k + 1]] \in Nat /\ M[b] \in Nat
      BY <2>2
    <3> QED BY <3>1, <3>2
  <2> QED BY <2>3, <2>4
<1> HIDE DEF S
<1>4. n \in S
  BY <1>2, <1>3, Induction
<1>5. f[n] \in D
  BY <1>1
<1>6. G[f[n]] = f[n] \/ M[f[n]] + n <= M[b]
  BY <1>4 DEF S
<1>7. ASSUME G[f[n]] # f[n] PROVE FALSE
  <2>1. M[f[n]] \in Nat /\ M[G[f[n]]] \in Nat /\ M[b] \in Nat
    BY <1>5
  <2>2. M[f[n]] + n <= M[b] /\ M[G[f[n]]] < M[f[n]]
    BY <1>5, <1>6, <1>7 DEF Progress
  <2> QED BY <2>1, <2>2
<1> QED BY <1>5, <1>7

LEMMA Half ==
    ASSUME NEW x \in Nat, x >= 2
    PROVE  /\ x \div 2 \in Nat /\ x \div 2 >= 1 /\ x \div 2 < x
           /\ \A y \in Nat : x \div 2 = y <=> (x = 2 * y \/ x = 2 * y + 1)
  OBVIOUS

-----------------------------------------------------------------------------
(* The loops of container/heap: a loop is a run of its body.               *)

LEMMA UpRuns ==
    ASSUME NEW D, NEW h, NEW i, Len(h.keys) \in Nat,
           [heap |-> h, i |-> i] \in D, \A at \in D : UpBody(at) \in D
    PROVE  \E f \in Runs(D, [heap |-> h, i |-> i], [at \in D |-> UpBody(at)], Len(h.keys)) :
              up(h, i) = f[Len(h.keys)].heap
<1> DEFINE n == Len(h.keys)
           b == [heap |-> h, i |-> i]
           G == [at \in D |-> UpBody(at)]
           Eq(f) == f = [k \in 0..n |-> IF k = 0 THEN b ELSE UpBody(f[k - 1])]
           g == CHOOSE f : Eq(f)
<1>1. up(h, i) = g[n].heap
  BY DEF up, Loop
<1>2. G \in [D -> D] /\ b \in D /\ n \in Nat /\ \A at \in D : G[at] = UpBody(at)
  OBVIOUS
<1> SUFFICES g \in Runs(D, b, G, n)
  BY <1>1
<1> HIDE DEF G, b, n
<1>3. PICK f \in [0..n -> D] : f[0] = b /\ \A k \in 1..n : f[k] = G[f[k - 1]]
  <2>1. Runs(D, b, G, n) # {}
    BY <1>2, RunExists
  <2> QED BY <2>1 DEF Runs
<1>4. ASSUME NEW k \in 1..n PROVE f[k] = UpBody(f[k - 1])
  <2>1. k - 1 \in 0..n
    BY <1>2
  <2>2. f[k - 1] \in D
    BY <2>1
  <2> QED BY <1>2, <1>3, <2>2
<1>5. Eq(f)
  <2>1. \A k \in 0..n : k # 0 => k \in 1..n
    BY <1>2
  <2> QED BY <1>3, <1>4, <2>1
<1>6. Eq(g)
  <2> HIDE DEF Eq
  <2> QED BY <1>5
<1> HIDE DEF g
<1>7. g = [k \in 0..n |-> IF k = 0 THEN b ELSE UpBody(g[k - 1])]
  BY <1>6
<1>8. 0 \in 0..n /\ \A k \in 1..n : k \in 0..n /\ k # 0
  BY <1>2
<1>9. g[0] = b /\ \A k \in 1..n : g[k] = UpBody(g[k - 1])
  BY <1>7, <1>8
<1> DEFINE S == {m \in Nat : m \in 0..n => g[m] \in D}
<1>10. 0 \in S
  BY <1>2, <1>9
<1>11. ASSUME NEW m \in Nat, m \in S PROVE m + 1 \in S
  <2> SUFFICES ASSUME m + 1 \in 0..n PROVE g[m + 1] \in D
    OBVIOUS
  <2>1. g[m + 1] = UpBody(g[m]) /\ g[m] \in D
    BY <1>2, <1>9, <1>11
  <2> QED BY <2>1
<1> HIDE DEF S
<1>12. Nat \subseteq S
  BY <1>10, <1>11, Induction
<1>13. \A k \in 0..n : g[k] \in D
  BY <1>2, <1>12 DEF S
<1>14. g \in [0..n -> D]
  BY <1>7, <1>13
<1>15. \A k \in 1..n : g[k] = G[g[k - 1]]
  <2>1. \A k \in 1..n : k - 1 \in 0..n
    BY <1>2
  <2> QED BY <1>2, <1>9, <1>13, <2>1
<1> HIDE DEF Eq
<1> QED BY <1>9, <1>14, <1>15 DEF Runs

LEMMA DownRuns ==
    ASSUME NEW D, NEW h, NEW i, NEW m, Len(h.keys) \in Nat,
           [heap |-> h, i |-> i] \in D, \A at \in D : DownBody(at, m) \in D
    PROVE  \E f \in Runs(D, [heap |-> h, i |-> i], [at \in D |-> DownBody(at, m)], Len(h.keys)) :
              down(h, i, m) = f[Len(h.keys)]
<1> DEFINE n == Len(h.keys)
           b == [heap |-> h, i |-> i]
           G == [at \in D |-> DownBody(at, m)]
           Eq(f) == f = [k \in 0..n |-> IF k = 0 THEN b ELSE DownBody(f[k - 1], m)]
           g == CHOOSE f : Eq(f)
<1>1. down(h, i, m) = g[n]
  BY DEF down, Loop
<1>2. G \in [D -> D] /\ b \in D /\ n \in Nat /\ \A at \in D : G[at] = DownBody(at, m)
  OBVIOUS
<1> SUFFICES g \in Runs(D, b, G, n)
  BY <1>1
<1> HIDE DEF G, b, n
<1>3. PICK f \in [0..n -> D] : f[0] = b /\ \A k \in 1..n : f[k] = G[f[k - 1]]
  <2>1. Runs(D, b, G, n) # {}
    BY <1>2, RunExists
  <2> QED BY <2>1 DEF Runs
<1>4. ASSUME NEW k \in 1..n PROVE f[k] = DownBody(f[k - 1], m)
  <2>1. k - 1 \in 0..n
    BY <1>2
  <2>2. f[k - 1] \in D
    BY <2>1
  <2> QED BY <1>2, <1>3, <2>2
<1>5. Eq(f)
  <2>1. \A k \in 0..n : k # 0 => k \in 1..n
    BY <1>2
  <2> QED BY <1>3, <1>4, <2>1
<1>6. Eq(g)
  <2> HIDE DEF Eq
  <2> QED BY <1>5
<1> HIDE DEF g
<1>7. g = [k \in 0..n |-> IF k = 0 THEN b ELSE DownBody(g[k - 1], m)]
  BY <1>6
<1>8. 0 \in 0..n /\ \A k \in 1..n : k \in 0..n /\ k # 0
  BY <1>2
<1>9. g[0] = b /\ \A k \in 1..n : g[k] = DownBody(g[k - 1], m)
  BY <1>7, <1>8
<1> DEFINE S == {j \in Nat : j \in 0..n => g[j] \in D}
<1>10. 0 \in S
  BY <1>2, <1>9
<1>11. ASSUME NEW j \in Nat, j \in S PROVE j + 1 \in S
  <2> SUFFICES ASSUME j + 1 \in 0..n PROVE g[j + 1] \in D
    OBVIOUS
  <2>1. g[j + 1] = DownBody(g[j], m) /\ g[j] \in D
    BY <1>2, <1>9, <1>11
  <2> QED BY <2>1
<1> HIDE DEF S
<1>12. Nat \subseteq S
  BY <1>10, <1>11, Induction
<1>13. \A k \in 0..n : g[k] \in D
  BY <1>2, <1>12 DEF S
<1>14. g \in [0..n -> D]
  BY <1>7, <1>13
<1>15. \A k \in 1..n : g[k] = G[g[k - 1]]
  <2>1. \A k \in 1..n : k - 1 \in 0..n
    BY <1>2
  <2> QED BY <1>2, <1>9, <1>13, <2>1
<1> HIDE DEF Eq
<1> QED BY <1>9, <1>14, <1>15 DEF Runs

\* A state of up at which its loop stops, if each round moves up.
LEMMA UpEnds ==
    ASSUME NEW D, NEW h, NEW i \in Nat, Len(h.keys) \in Nat, i <= Len(h.keys),
           [heap |-> h, i |-> i] \in D,
           \A at \in D : /\ at.i \in Nat /\ UpBody(at) \in D
                         /\ UpBody(at) = at \/ UpBody(at).i < at.i
    PROVE  \E at \in D : UpBody(at) = at /\ up(h, i) = at.heap
<1> DEFINE n == Len(h.keys)
           b == [heap |-> h, i |-> i]
           G == [at \in D |-> UpBody(at)]
           M == [at \in D |-> at.i]
<1>1. PICK f \in Runs(D, b, G, n) : up(h, i) = f[n].heap
  BY UpRuns
<1>2. /\ b \in D /\ G \in [D -> D] /\ M \in [D -> Nat] /\ n \in Nat /\ M[b] <= n
      /\ \A at \in D : G[at] = UpBody(at) /\ (G[at] = at \/ M[G[at]] < M[at])
  OBVIOUS
<1> HIDE DEF n, b, G, M
<1>3. f[n] \in D /\ G[f[n]] = f[n]
  <2>1. Progress(D, G, M)
    BY <1>2 DEF Progress
  <2>2. f \in Runs(D, b, G, n) /\ b \in D /\ G \in [D -> D] /\ n \in Nat /\ M \in [D -> Nat]
    BY <1>1, <1>2
  <2>3. M[b] <= n
    BY <1>2
  <2> QED BY ONLY <2>1, <2>2, <2>3, RunEnds, SMTT(30)
<1> QED BY <1>1, <1>2, <1>3

\* And of down.
LEMMA DownEnds ==
    ASSUME NEW D, NEW h, NEW i \in Nat, NEW m, Len(h.keys) \in Nat,
           [heap |-> h, i |-> i] \in D,
           \A at \in D : /\ at.i \in 0..Len(h.keys) /\ DownBody(at, m) \in D
                         /\ DownBody(at, m) = at \/ DownBody(at, m).i > at.i
    PROVE  down(h, i, m) \in D /\ DownBody(down(h, i, m), m) = down(h, i, m)
<1> DEFINE n == Len(h.keys)
           b == [heap |-> h, i |-> i]
           G == [at \in D |-> DownBody(at, m)]
           M == [at \in D |-> n - at.i]
<1>1. PICK f \in Runs(D, b, G, n) : down(h, i, m) = f[n]
  BY DownRuns
<1>2. b \in D /\ G \in [D -> D] /\ n \in Nat /\ \A at \in D : G[at] = DownBody(at, m)
  OBVIOUS
<1>3. /\ M \in [D -> Nat] /\ \A at \in D : M[at] = n - at.i
      /\ \A at \in D : at.i \in Nat
  OBVIOUS
<1>4. b.i = i
  OBVIOUS
<1>5. \A at \in D : DownBody(at, m) \in D /\ (DownBody(at, m) = at \/ DownBody(at, m).i > at.i)
  OBVIOUS
<1> HIDE DEF n, b, G, M
<1>6. M[b] <= n
  BY <1>2, <1>3, <1>4
<1>7. ASSUME NEW at \in D, G[at] # at PROVE M[G[at]] < M[at]
  <2>1. G[at] = DownBody(at, m) /\ G[at] \in D
    BY <1>2, <1>5
  <2>2. /\ at.i \in Nat /\ G[at].i \in Nat /\ G[at].i > at.i
        /\ M[at] = n - at.i /\ M[G[at]] = n - G[at].i
    BY <1>3, <1>5, <1>7, <2>1
  <2> QED BY <1>2, <2>2
<1>8. f[n] \in D /\ G[f[n]] = f[n]
  <2>1. Progress(D, G, M)
    BY <1>7 DEF Progress
  <2>2. f \in Runs(D, b, G, n) /\ b \in D /\ G \in [D -> D] /\ n \in Nat /\ M \in [D -> Nat]
    BY <1>1, <1>2, <1>3
  <2> QED BY ONLY <1>6, <2>1, <2>2, RunEnds, SMTT(30)
<1> QED BY <1>1, <1>2, <1>8

-----------------------------------------------------------------------------
(* Items, keys and positions.                                              *)

Heaps == [items : [Keys -> [pod : Pods \cup {NoPod}, index : Nat]],
          keys : Seq(Keys), comparator : Comparators]

Positions(h) == 1..Len(h.keys)
PodAt(h, x) == h.items[h.keys[x]].pod
Content(h) == [k \in Keys |-> h.items[k].pod]

\* Each position has a key with an item that knows the position, and an item that
\* is stored is at its position.
Sound(h) ==
    /\ h \in Heaps
    /\ \A x \in Positions(h) : /\ h.items[h.keys[x]].index = x
                               /\ PodAt(h, x) \in Pods /\ KeyOf[PodAt(h, x)] = h.keys[x]
    /\ \A k \in Keys : h.items[k] # NoItem =>
          h.items[k].index \in Positions(h) /\ h.keys[h.items[k].index] = k

LEMMA SoundFacts ==
    ASSUME NEW h, Sound(h)
    PROVE  /\ Len(h.keys) \in Nat
           /\ h.keys \in [Positions(h) -> Keys]
           /\ \A x \in Positions(h) : h.keys[x] \in Stored(h) /\ PodAt(h, x) \in Pods
           /\ \A x, y \in Positions(h) : h.keys[x] = h.keys[y] => x = y
           /\ \A k \in Keys : k \in Stored(h) <=> \E x \in Positions(h) : h.keys[x] = k
           /\ \A k \in Keys : k \in Stored(h) <=> h.items[k].pod # NoPod
           /\ \A k \in Stored(h) : /\ h.items[k].index \in Positions(h)
                                   /\ h.keys[h.items[k].index] = k
                                   /\ PodAt(h, h.items[k].index) = h.items[k].pod
                                   /\ h.items[k].pod \in Pods /\ KeyOf[h.items[k].pod] = k
<1>1. /\ h.keys \in Seq(Keys) /\ Len(h.keys) \in Nat
      /\ h.keys \in [Positions(h) -> Keys]
      /\ h.items \in [Keys -> [pod : Pods \cup {NoPod}, index : Nat]]
  BY DEF Sound, Heaps, Positions
<1>2. ASSUME NEW x \in Positions(h)
      PROVE  h.keys[x] \in Stored(h) /\ PodAt(h, x) \in Pods /\ h.items[h.keys[x]].index = x
  <2>1. h.keys[x] \in Keys /\ PodAt(h, x) \in Pods /\ h.items[h.keys[x]].index = x
    BY <1>1 DEF Sound
  <2>2. h.items[h.keys[x]] # NoItem
    BY <2>1, KeyAssumption DEF PodAt, NoItem
  <2> QED BY <2>1, <2>2 DEF Stored
<1>3. \A x, y \in Positions(h) : h.keys[x] = h.keys[y] => x = y
  BY <1>2
<1>4. ASSUME NEW k \in Stored(h)
      PROVE  /\ k \in Keys /\ h.items[k].index \in Positions(h)
             /\ h.keys[h.items[k].index] = k
             /\ PodAt(h, h.items[k].index) = h.items[k].pod
             /\ h.items[k].pod \in Pods /\ KeyOf[h.items[k].pod] = k
  <2>1. k \in Keys /\ h.items[k].index \in Positions(h) /\ h.keys[h.items[k].index] = k
    BY DEF Stored, Sound
  <2> QED BY <2>1 DEF Sound, PodAt
<1>5. ASSUME NEW k \in Keys PROVE k \in Stored(h) <=> h.items[k].pod # NoPod
  <2>1. k \in Stored(h) => h.items[k].pod # NoPod
    BY <1>4, KeyAssumption
  <2>2. k \notin Stored(h) => h.items[k] = NoItem
    BY DEF Stored
  <2> QED BY <2>1, <2>2 DEF NoItem
<1>6. ASSUME NEW k \in Keys PROVE k \in Stored(h) <=> \E x \in Positions(h) : h.keys[x] = k
  BY <1>2, <1>4
<1> QED BY <1>1, <1>2, <1>3, <1>4, <1>5, <1>6

\* There are as many items as keys.
LEMMA StoredCount ==
    ASSUME NEW h, Sound(h)
    PROVE  Cardinality(Stored(h)) = Len(h.keys)
<1>1. /\ Len(h.keys) \in Nat /\ h.keys \in [Positions(h) -> Keys]
      /\ \A x \in Positions(h) : h.keys[x] \in Stored(h)
      /\ \A x, y \in Positions(h) : h.keys[x] = h.keys[y] => x = y
      /\ \A k \in Stored(h) : \E x \in Positions(h) : h.keys[x] = k
  BY SoundFacts DEF Stored
<1>2. h.keys \in Bijection(1..Len(h.keys), Stored(h))
  <2>1. h.keys \in [1..Len(h.keys) -> Stored(h)]
    BY <1>1 DEF Positions
  <2> QED BY <1>1, <2>1 DEF Positions, Bijection, Injection, Surjection, IsInjective
<1>3. IsFiniteSet(1..Len(h.keys)) /\ Cardinality(1..Len(h.keys)) = Len(h.keys)
  BY <1>1, FS_Interval
<1> QED BY <1>2, <1>3, FS_Bijection DEF ExistsBijection

\* The heap g has the pods of h, and those of h beyond position m at the same
\* places.
Rearranged(g, h, m) ==
    /\ Sound(g) /\ Len(g.keys) = Len(h.keys) /\ g.comparator = h.comparator
    /\ Content(g) = Content(h)
    /\ \A x \in Positions(h) : x > m => g.keys[x] = h.keys[x]

LEMMA SwapOK ==
    ASSUME NEW h, Sound(h), NEW i \in Positions(h), NEW j \in Positions(h)
    PROVE  /\ Sound(Swap(h, i, j))
           /\ Len(Swap(h, i, j).keys) = Len(h.keys)
           /\ Swap(h, i, j).comparator = h.comparator
           /\ Content(Swap(h, i, j)) = Content(h)
           /\ \A x \in Positions(h) :
                 x \notin {i, j} => /\ Swap(h, i, j).keys[x] = h.keys[x]
                                    /\ PodAt(Swap(h, i, j), x) = PodAt(h, x)
           /\ Swap(h, i, j).keys[i] = h.keys[j] /\ PodAt(Swap(h, i, j), i) = PodAt(h, j)
           /\ Swap(h, i, j).keys[j] = h.keys[i] /\ PodAt(Swap(h, i, j), j) = PodAt(h, i)
<1> DEFINE ks == [h.keys EXCEPT ![i] = h.keys[j], ![j] = h.keys[i]]
           its == [h.items EXCEPT ![ks[i]].index = i, ![ks[j]].index = j]
           g == Swap(h, i, j)
<1>1. /\ h.keys \in Seq(Keys) /\ Len(h.keys) \in Nat /\ h \in Heaps
      /\ h.items \in [Keys -> [pod : Pods \cup {NoPod}, index : Nat]]
      /\ i \in 1..Len(h.keys) /\ j \in 1..Len(h.keys)
      /\ h.keys[i] \in Keys /\ h.keys[j] \in Keys
  BY SoundFacts DEF Sound, Heaps, Positions
<1>2. /\ ks \in Seq(Keys) /\ Len(ks) = Len(h.keys)
      /\ ks[i] = h.keys[j] /\ ks[j] = h.keys[i]
      /\ \A x \in 1..Len(h.keys) : x \notin {i, j} => ks[x] = h.keys[x]
  BY <1>1
<1>3. g = [h EXCEPT !.keys = ks, !.items[ks[i]].index = i, !.items[ks[j]].index = j]
  BY DEF Swap
<1>4. /\ g = [items |-> its, keys |-> ks, comparator |-> h.comparator]
      /\ g.keys = ks /\ g.items = its /\ g.comparator = h.comparator
  <2> HIDE DEF ks
  <2> QED BY <1>1, <1>3 DEF Heaps
<1>5. /\ its \in [Keys -> [pod : Pods \cup {NoPod}, index : Nat]]
      /\ \A k \in Keys : its[k].pod = h.items[k].pod
      /\ \A k \in Keys : its[k].index = IF k = ks[j] THEN j
                                        ELSE IF k = ks[i] THEN i ELSE h.items[k].index
      /\ \A k \in Keys : k \notin {ks[i], ks[j]} => its[k] = h.items[k]
  <2>1. i \in Nat /\ j \in Nat
    BY <1>1
  <2> HIDE DEF ks
  <2> QED BY <1>1, <1>2, <2>1
<1> HIDE DEF ks, its, g
<1>6. g \in Heaps
  BY <1>1, <1>2, <1>4, <1>5 DEF Heaps
<1>7. /\ \A x, y \in 1..Len(h.keys) : h.keys[x] = h.keys[y] => x = y
      /\ \A x \in 1..Len(h.keys) : /\ h.keys[x] \in Keys /\ h.items[h.keys[x]].index = x
                                   /\ h.items[h.keys[x]].pod \in Pods
                                   /\ KeyOf[h.items[h.keys[x]].pod] = h.keys[x]
      /\ \A k \in Keys : h.items[k] # NoItem =>
            h.items[k].index \in 1..Len(h.keys) /\ h.keys[h.items[k].index] = k
  BY SoundFacts DEF Sound, Positions, PodAt
<1>8. ASSUME NEW x \in 1..Len(h.keys)
      PROVE  /\ ks[x] \in Keys /\ its[ks[x]].index = x
             /\ its[ks[x]].pod = h.items[ks[x]].pod
             /\ its[ks[x]].pod \in Pods /\ KeyOf[its[ks[x]].pod] = ks[x]
  <2>1. PICK y \in 1..Len(h.keys) : ks[x] = h.keys[y] /\ (x \notin {i, j} => y = x)
    BY <1>1, <1>2
  <2>2. its[ks[x]].index = x
    <3>1. CASE x = j
      BY <1>1, <1>2, <1>5, <3>1
    <3>2. CASE x # j /\ x = i
      <4>1. ks[x] # ks[j]
        BY <1>1, <1>2, <1>7, <3>2
      <4> QED BY <1>1, <1>2, <1>5, <3>2, <4>1
    <3>3. CASE x \notin {i, j}
      <4>1. ks[x] = h.keys[x] /\ ks[x] \notin {ks[i], ks[j]} /\ ks[x] \in Keys
        BY <1>1, <1>2, <1>7, <3>3
      <4> QED BY <1>5, <1>7, <4>1
    <3> QED BY <3>1, <3>2, <3>3
  <2> QED BY <1>5, <1>7, <2>1, <2>2
<1>9. ASSUME NEW k \in Keys, its[k] # NoItem
      PROVE  its[k].index \in 1..Len(h.keys) /\ ks[its[k].index] = k
  <2>1. CASE k \in {ks[i], ks[j]}
    BY <1>1, <1>5, <2>1
  <2>2. CASE k \notin {ks[i], ks[j]}
    <3>1. its[k] = h.items[k]
      BY <1>5, <2>2
    <3>2. its[k].index \in 1..Len(h.keys) /\ h.keys[its[k].index] = k
      BY <1>7, <1>9, <3>1
    <3>3. its[k].index \notin {i, j}
      BY <1>2, <2>2, <3>2
    <3> QED BY <1>2, <3>2, <3>3
  <2> QED BY <2>1, <2>2
<1>10. Sound(g)
  BY <1>2, <1>4, <1>6, <1>8, <1>9 DEF Sound, Positions, PodAt
<1>11. Content(g) = Content(h)
  BY <1>4, <1>5 DEF Content
<1>12. \A x \in 1..Len(h.keys) : PodAt(g, x) = h.items[ks[x]].pod
  BY <1>4, <1>8 DEF PodAt
<1> QED BY <1>1, <1>2, <1>4, <1>10, <1>11, <1>12 DEF g, Positions, PodAt

LEMMA RearrangedSelf ==
    ASSUME NEW h, Sound(h), NEW m
    PROVE  Rearranged(h, h, m)
  BY DEF Rearranged

LEMMA RearrangedSwap ==
    ASSUME NEW h, NEW g, NEW m \in Nat, m <= Len(h.keys), Rearranged(g, h, m),
           NEW i \in 1..m, NEW j \in 1..m, Len(h.keys) \in Nat
    PROVE  Rearranged(Swap(g, i, j), h, m)
<1>1. Sound(g) /\ i \in Positions(g) /\ j \in Positions(g) /\ Positions(g) = Positions(h)
  BY DEF Rearranged, Positions
<1>2. \A x \in Positions(h) : x > m => x \notin {i, j}
  BY DEF Positions
<1> QED BY <1>1, <1>2, SwapOK DEF Rearranged

-----------------------------------------------------------------------------
(* The order of the heap.  W is any order of the pods that the comparator  *)
(* refines: <<p, q>> \in W if p may come before q.                         *)

Orders(W, c) ==
    /\ \A p, q \in Pods : Compare(c, p, q) => <<p, q>> \in W
    /\ \A p, q \in Pods : ~Compare(c, p, q) => <<q, p>> \in W
    /\ \A p, q, r \in Pods : <<p, q>> \in W /\ <<q, r>> \in W => <<p, r>> \in W

\* The first m positions are a heap.
Ordered(h, m, W) == \A x \in 2..m : <<PodAt(h, x \div 2), PodAt(h, x)>> \in W

\* All but the pod at i, which may come before its parent.
UpReady(h, i, m, W) ==
    /\ \A x \in 2..m : x # i => <<PodAt(h, x \div 2), PodAt(h, x)>> \in W
    /\ i > 1 => \A x \in 2..m : x \div 2 = i => <<PodAt(h, i \div 2), PodAt(h, x)>> \in W

UpStates(h, m, W) ==
    {at \in [heap : Heaps, i : Nat] :
        Rearranged(at.heap, h, m) /\ at.i \in 1..m /\ UpReady(at.heap, at.i, m, W)}

LEMMA UpStep ==
    ASSUME NEW h, NEW m \in Nat, NEW W, Len(h.keys) \in Nat, m <= Len(h.keys),
           Orders(W, h.comparator), NEW at \in UpStates(h, m, W)
    PROVE  /\ UpBody(at) \in UpStates(h, m, W)
           /\ UpBody(at) = at \/ UpBody(at).i < at.i
           /\ UpBody(at) = at => Ordered(at.heap, m, W)
<1> DEFINE g == at.heap
           i == at.i
           j == i \div 2
<1>1. /\ at \in [heap : Heaps, i : Nat]
      /\ Rearranged(g, h, m) /\ i \in 1..m /\ UpReady(g, i, m, W)
  BY DEF UpStates
<1>2. /\ Sound(g) /\ g.comparator = h.comparator /\ Positions(g) = 1..Len(h.keys)
      /\ \A x \in 1..m : PodAt(g, x) \in Pods
  <2>1. Sound(g) /\ g.comparator = h.comparator /\ Positions(g) = 1..Len(h.keys)
    BY <1>1 DEF Rearranged, Positions
  <2>2. \A x \in 1..m : x \in Positions(g)
    BY <2>1
  <2> QED BY <2>1, <2>2, SoundFacts
<1>3. i > 1 => j \in 1..m /\ j < i
  BY <1>1, Half
<1>4. Less(g, i, j) <=> Compare(h.comparator, PodAt(g, i), PodAt(g, j))
  BY <1>2 DEF Less, PodAt
<1>5. CASE i = 1 \/ ~Less(g, i, j)
  <2>1. UpBody(at) = at
    BY <1>5 DEF UpBody
  <2>2. i > 1 => <<PodAt(g, j), PodAt(g, i)>> \in W
    BY <1>1, <1>2, <1>3, <1>4, <1>5 DEF Orders
  <2>3. Ordered(g, m, W)
    BY <1>1, <2>2 DEF UpReady, Ordered
  <2> QED BY <2>1, <2>3
<1>6. CASE i # 1 /\ Less(g, i, j)
  <2> DEFINE s == Swap(g, j, i)
  <2>1. UpBody(at) = [heap |-> s, i |-> j]
    BY <1>6 DEF UpBody
  <2>2. i > 1 /\ j \in 1..m /\ j < i /\ i \in 1..m
    BY <1>1, <1>3, <1>6
  <2>3. Rearranged(s, h, m)
    BY <1>1, <2>2, RearrangedSwap
  <2>4. /\ \A x \in 1..m : x \notin {i, j} => PodAt(s, x) = PodAt(g, x)
        /\ PodAt(s, i) = PodAt(g, j) /\ PodAt(s, j) = PodAt(g, i)
    BY <1>2, <2>2, SwapOK
  <2>5. <<PodAt(g, i), PodAt(g, j)>> \in W
    BY <1>2, <1>4, <1>6, <2>2 DEF Orders
  <2> DEFINE P(x) == PodAt(g, x)
             Q(x) == PodAt(s, x)
  <2>6. \A x, y, z \in 1..m : <<P(x), P(y)>> \in W /\ <<P(y), P(z)>> \in W => <<P(x), P(z)>> \in W
    BY <1>2 DEF Orders
  <2>7. /\ \A x \in 2..m : x # i => <<P(x \div 2), P(x)>> \in W
        /\ \A x \in 2..m : x \div 2 = i => <<P(j), P(x)>> \in W
    BY <1>1, <2>2 DEF UpReady
  <2>8. \A x \in 2..m : x \in 1..m /\ x \div 2 \in 1..m /\ x \div 2 # x
    BY Half
  <2>9. /\ \A x \in 1..m : x \notin {i, j} => Q(x) = P(x)
        /\ Q(i) = P(j) /\ Q(j) = P(i) /\ <<P(i), P(j)>> \in W
    BY <2>4, <2>5
  <2> HIDE DEF s, P, Q, g, i
  <2>10. ASSUME NEW x \in 2..m, x # j PROVE <<Q(x \div 2), Q(x)>> \in W
    <3>1. CASE x = i
      BY <2>9, <3>1
    <3>2. CASE x # i /\ x \div 2 = i
      BY <2>7, <2>8, <2>9, <2>10, <3>2
    <3>3. CASE x # i /\ x \div 2 = j
      <4>1. <<P(j), P(x)>> \in W
        BY <2>7, <3>3
      <4>2. <<P(i), P(x)>> \in W
        BY <2>2, <2>6, <2>8, <2>9, <4>1
      <4> QED BY <2>8, <2>9, <2>10, <3>3, <4>2
    <3>4. CASE x # i /\ x \div 2 \notin {i, j}
      BY <2>7, <2>8, <2>9, <2>10, <3>4
    <3> QED BY <3>1, <3>2, <3>3, <3>4
  <2>11. ASSUME j > 1, NEW x \in 2..m, x \div 2 = j PROVE <<Q(j \div 2), Q(x)>> \in W
    <3>1. j \in 2..m /\ j # i
      BY <2>2, <2>11
    <3>2. /\ <<P(j \div 2), P(j)>> \in W /\ j \div 2 \in 1..m /\ j \div 2 # j
      BY <2>7, <2>8, <3>1
    <3>3. j \div 2 # i
      BY <2>2, <3>1, Half
    <3>4. Q(j \div 2) = P(j \div 2)
      BY <2>9, <3>2, <3>3
    <3>5. CASE x = i
      BY <2>9, <3>2, <3>4, <3>5
    <3>6. CASE x # i
      <4>1. <<P(j), P(x)>> \in W
        BY <2>7, <2>11, <3>6
      <4>2. x \in 1..m /\ x # j
        BY <2>8, <2>11
      <4>3. Q(x) = P(x)
        BY <2>9, <3>6, <4>2
      <4> QED BY <2>2, <2>6, <3>2, <3>4, <4>1, <4>2, <4>3
    <3> QED BY <3>5, <3>6
  <2>12. UpReady(s, j, m, W)
    BY <2>10, <2>11 DEF UpReady, Q
  <2>13. UpBody(at) \in UpStates(h, m, W)
    BY <2>1, <2>2, <2>3, <2>12 DEF UpStates, Rearranged, Sound
  <2>14. UpBody(at).i < at.i
    BY <2>1, <2>2 DEF i
  <2>15. UpBody(at) # at
    BY <2>1, <2>2 DEF i
  <2> QED BY <2>13, <2>14, <2>15
<1> QED BY <1>5, <1>6

LEMMA UpOK ==
    ASSUME NEW h, Sound(h), NEW m \in Nat, m <= Len(h.keys), NEW W,
           Orders(W, h.comparator), NEW i \in 1..m, UpReady(h, i, m, W)
    PROVE  Rearranged(up(h, i), h, m) /\ Ordered(up(h, i), m, W)
<1> DEFINE D == UpStates(h, m, W)
<1>1. Len(h.keys) \in Nat /\ h \in Heaps
  BY SoundFacts DEF Sound
<1>2. [heap |-> h, i |-> i] \in D
  BY <1>1, RearrangedSelf DEF UpStates
<1>3. \A at \in D : /\ at.i \in Nat /\ UpBody(at) \in D
                    /\ UpBody(at) = at \/ UpBody(at).i < at.i
                    /\ UpBody(at) = at => Ordered(at.heap, m, W)
                    /\ Rearranged(at.heap, h, m)
  <2>1. \A at \in D : at.i \in Nat /\ Rearranged(at.heap, h, m)
    BY DEF UpStates
  <2> QED BY <1>1, <2>1, UpStep
<1> HIDE DEF D
<1>4. i \in Nat /\ i <= Len(h.keys)
  BY <1>1
<1>5. PICK at \in D : UpBody(at) = at /\ up(h, i) = at.heap
  BY <1>1, <1>2, <1>3, <1>4, UpEnds
<1> QED BY <1>3, <1>5

-----------------------------------------------------------------------------
\* down has come from position start to i: all pods come after their parents but
\* the children of i, and perhaps the pod at i if it has not moved.
DownReady(h, i, start, m, W) ==
    /\ \A x \in 2..m : x \div 2 # i /\ ~(x = i /\ i = start)
                          => <<PodAt(h, x \div 2), PodAt(h, x)>> \in W
    /\ i > 1 => \A x \in 2..m : x \div 2 = i => <<PodAt(h, i \div 2), PodAt(h, x)>> \in W

OrderedBut(h, i, m, W) == \A x \in 2..m : x # i => <<PodAt(h, x \div 2), PodAt(h, x)>> \in W

\* No child of i comes before it.
DownDone(h, i, m, W) == \A x \in 2..m : x \div 2 = i => <<PodAt(h, i), PodAt(h, x)>> \in W

DownStates(h, start, m, W) ==
    {at \in [heap : Heaps, i : Nat] :
        /\ Rearranged(at.heap, h, m) /\ at.i \in Positions(h) /\ at.i >= start
        /\ at.i = start => at.heap = h
        /\ DownReady(at.heap, at.i, start, m, W)}

LEMMA DownStep ==
    ASSUME NEW h, NEW m \in Nat, NEW W, Len(h.keys) \in Nat, m <= Len(h.keys),
           NEW start \in Nat, Orders(W, h.comparator), NEW at \in DownStates(h, start, m, W)
    PROVE  /\ DownBody(at, m) \in DownStates(h, start, m, W)
           /\ DownBody(at, m) = at \/ DownBody(at, m).i > at.i
           /\ DownBody(at, m) = at => DownDone(at.heap, at.i, m, W)
<1> DEFINE g == at.heap
           i == at.i
           left == 2 * i
           child == IF left < m /\ Less(g, left + 1, left) THEN left + 1 ELSE left
           P(x) == PodAt(g, x)
<1>1. /\ at \in [heap : Heaps, i : Nat]
      /\ Rearranged(g, h, m) /\ i \in Positions(h) /\ i >= start
      /\ DownReady(g, i, start, m, W)
  BY DEF DownStates
<1>2. /\ Sound(g) /\ g.comparator = h.comparator /\ Positions(g) = 1..Len(h.keys)
      /\ \A x \in 1..m : P(x) \in Pods
  <2>1. Sound(g) /\ g.comparator = h.comparator /\ Positions(g) = 1..Len(h.keys)
    BY <1>1 DEF Rearranged, Positions
  <2>2. \A x \in 1..m : x \in Positions(g)
    BY <2>1
  <2> QED BY <2>1, <2>2, SoundFacts
<1>3. i \in Nat /\ i >= 1 /\ left \in Nat /\ i < left
  BY <1>1 DEF Positions
<1>4. \A x, y \in 1..m : Less(g, x, y) <=> Compare(h.comparator, P(x), P(y))
  BY <1>2 DEF Less, PodAt
<1>5. \A x, y, z \in 1..m : <<P(x), P(y)>> \in W /\ <<P(y), P(z)>> \in W => <<P(x), P(z)>> \in W
  BY <1>2 DEF Orders
<1>6. /\ \A x, y \in 1..m : Less(g, x, y) => <<P(x), P(y)>> \in W
      /\ \A x, y \in 1..m : ~Less(g, x, y) => <<P(y), P(x)>> \in W
  BY <1>2, <1>4 DEF Orders
<1>7. /\ \A x \in 2..m : x \div 2 # i /\ ~(x = i /\ i = start) => <<P(x \div 2), P(x)>> \in W
      /\ i > 1 => \A x \in 2..m : x \div 2 = i => <<P(i \div 2), P(x)>> \in W
  BY <1>1 DEF DownReady
<1>8. \A x \in 2..m : /\ x \in 1..m /\ x \div 2 \in 1..m /\ x \div 2 < x
                      /\ x \div 2 = i <=> (x = left \/ x = left + 1)
  <2> SUFFICES ASSUME NEW x \in 2..m
               PROVE  /\ x \in 1..m /\ x \div 2 \in 1..m /\ x \div 2 < x
                      /\ x \div 2 = i <=> (x = left \/ x = left + 1)
    OBVIOUS
  <2>1. x \in Nat /\ x >= 2 /\ x \in 1..m /\ i \in Nat /\ left = 2 * i
    BY <1>3
  <2> HIDE DEF left, i
  <2>2. /\ x \div 2 \in Nat /\ x \div 2 >= 1 /\ x \div 2 < x
        /\ \A y \in Nat : x \div 2 = y <=> (x = 2 * y \/ x = 2 * y + 1)
    BY <2>1, Half
  <2> QED BY <2>1, <2>2
<1>9. left <= m => /\ left \in 1..m /\ child \in 2..m /\ child \div 2 = i /\ child > i
                   /\ \A x \in 2..m : x \div 2 = i => <<P(child), P(x)>> \in W
  <2> HIDE DEF P, g
  <2> SUFFICES ASSUME left <= m
               PROVE  /\ left \in 1..m /\ child \in 2..m /\ child \div 2 = i /\ child > i
                      /\ \A x \in 2..m : x \div 2 = i => <<P(child), P(x)>> \in W
    OBVIOUS
  <2>1. left \in 2..m /\ (left < m => left + 1 \in 2..m)
    BY <1>3
  <2>2. child \in 2..m /\ child > i /\ (child = left \/ child = left + 1)
    BY <1>3, <2>1
  <2>3. child \div 2 = i
    BY <1>8, <2>2
  <2>4. ASSUME NEW x \in 2..m, x \div 2 = i PROVE <<P(child), P(x)>> \in W
    <3>1. x = left \/ x = left + 1
      BY <1>8, <2>4
    <3>2. left \in 1..m /\ x \in 1..m
      BY <1>8, <2>1, <2>4
    <3>3. CASE child = left + 1
      <4>1. Less(g, left + 1, left) /\ left + 1 \in 1..m
        BY <1>3, <3>3
      <4>2. <<P(left + 1), P(left)>> \in W
        BY <1>6, <3>2, <4>1
      <4>3. <<P(left + 1), P(left + 1)>> \in W
        BY <1>6, <4>1
      <4> QED BY <3>1, <3>3, <4>2, <4>3
    <3>4. CASE child = left
      <4>1. <<P(left), P(left)>> \in W
        BY <1>6, <3>2
      <4>2. ASSUME x = left + 1 PROVE <<P(left), P(left + 1)>> \in W
        <5>1. left < m /\ ~Less(g, left + 1, left)
          BY <1>3, <3>2, <3>4, <4>2
        <5> QED BY <1>6, <3>2, <4>2, <5>1
      <4> QED BY <3>1, <3>4, <4>1, <4>2
    <3> QED BY <2>2, <3>3, <3>4
  <2> QED BY <2>1, <2>2, <2>3, <2>4, <1>8
<1>10. DownBody(at, m) = IF left > m \/ ~Less(g, child, i) THEN at
                         ELSE [heap |-> Swap(g, i, child), i |-> child]
  BY DEF DownBody
<1> HIDE DEF child
<1>11. CASE left > m \/ ~Less(g, child, i)
  <2>1. DownBody(at, m) = at
    BY <1>10, <1>11
  <2>2. ASSUME NEW x \in 2..m, x \div 2 = i PROVE <<P(i), P(x)>> \in W
    <3>1. left <= m
      BY <1>3, <1>8, <2>2
    <3>2. child \in 1..m /\ i \in 1..m /\ x \in 1..m
      BY <1>3, <1>8, <1>9, <2>2, <3>1
    <3>3. <<P(i), P(child)>> \in W
      BY <1>3, <1>6, <1>11, <3>1, <3>2
    <3>4. <<P(child), P(x)>> \in W
      BY <1>9, <2>2, <3>1
    <3> QED BY <1>5, <3>2, <3>3, <3>4
  <2>3. DownDone(g, i, m, W)
    BY <2>2 DEF DownDone
  <2> QED BY <2>1, <2>3
<1>12. CASE ~(left > m \/ ~Less(g, child, i))
  <2> DEFINE s == Swap(g, i, child)
             Q(x) == PodAt(s, x)
  <2>1. DownBody(at, m) = [heap |-> s, i |-> child]
    BY <1>10, <1>12
  <2>2. /\ left <= m /\ i \in 1..m /\ child \in 2..m /\ child \in 1..m /\ child > i
        /\ child \div 2 = i
        /\ \A x \in 2..m : x \div 2 = i => <<P(child), P(x)>> \in W
    BY <1>3, <1>8, <1>9, <1>12
  <2>3. Rearranged(s, h, m)
    BY <1>1, <2>2, RearrangedSwap
  <2>4. /\ \A x \in 1..m : x \notin {i, child} => Q(x) = P(x)
        /\ Q(i) = P(child) /\ Q(child) = P(i)
    <3>1. i \in Positions(g) /\ child \in Positions(g) /\ \A x \in 1..m : x \in Positions(g)
      BY <1>2, <2>2
    <3>2. Sound(g)
      BY <1>2
    <3> HIDE DEF g, i
    <3> QED BY <3>1, <3>2, SwapOK
  <2>5. <<P(child), P(i)>> \in W
    BY <1>6, <1>12, <2>2
  <2> HIDE DEF s, Q, P, g, i, left
  <2>6. ASSUME NEW x \in 2..m, x \div 2 # child PROVE <<Q(x \div 2), Q(x)>> \in W
    <3>1. x \in 1..m /\ x \div 2 \in 1..m /\ x \div 2 < x
      BY <1>8
    <3>2. CASE x = child
      BY <2>2, <2>4, <2>5, <3>2
    <3>3. CASE x # child /\ x \div 2 = i
      <4>1. x # i
        BY <3>1, <3>3
      <4> QED BY <2>2, <2>4, <3>1, <3>3, <4>1
    <3>4. CASE x = i
      <4>1. <<P(i \div 2), P(child)>> \in W
        BY <1>3, <1>7, <2>2, <3>4
      <4>2. x \div 2 # child /\ x \div 2 # i
        BY <2>6, <3>1, <3>4
      <4> QED BY <2>4, <3>1, <3>4, <4>1, <4>2
    <3>5. CASE x \notin {i, child} /\ x \div 2 # i
      BY <1>7, <2>4, <2>6, <3>1, <3>5
    <3> QED BY <3>2, <3>3, <3>4, <3>5
  <2>7. ASSUME NEW x \in 2..m, x \div 2 = child PROVE <<Q(child \div 2), Q(x)>> \in W
    <3>1. x \in 1..m /\ child < x /\ x # i
      BY <1>3, <1>8, <2>2, <2>7
    <3>2. Q(x) = P(x)
      BY <2>4, <3>1
    <3>3. <<P(child), P(x)>> \in W
      BY <1>7, <2>2, <2>7, <3>1
    <3> QED BY <2>2, <2>4, <3>2, <3>3
  <2>8. DownReady(s, child, start, m, W)
    BY <2>6, <2>7 DEF DownReady, Q
  <2>9. child \in Positions(h) /\ child >= start /\ child # start /\ child \in Nat /\ child > at.i
    BY <1>1, <1>3, <2>2 DEF Positions, i
  <2>10. DownBody(at, m) \in DownStates(h, start, m, W)
    BY <2>1, <2>3, <2>8, <2>9 DEF DownStates, Rearranged, Sound
  <2>11. DownBody(at, m).i > at.i /\ DownBody(at, m) # at
    BY <1>3, <2>1, <2>9 DEF i
  <2> QED BY <2>10, <2>11
<1> QED BY <1>11, <1>12

LEMMA DownOK ==
    ASSUME NEW h, Sound(h), NEW m \in Nat, m <= Len(h.keys), NEW W,
           Orders(W, h.comparator), NEW i \in Positions(h), DownReady(h, i, i, m, W)
    PROVE  /\ Rearranged(down(h, i, m).heap, h, m)
           /\ down(h, i, m).i \in Nat /\ down(h, i, m).i >= i
           /\ down(h, i, m).i > i => Ordered(down(h, i, m).heap, m, W)
           /\ down(h, i, m).i = i => /\ down(h, i, m).heap = h
                                     /\ OrderedBut(h, i, m, W)
<1> DEFINE D == DownStates(h, i, m, W)
           at == down(h, i, m)
<1>1. Len(h.keys) \in Nat /\ h \in Heaps /\ i \in Nat
  BY SoundFacts DEF Sound, Positions
<1>2. [heap |-> h, i |-> i] \in D
  BY <1>1, RearrangedSelf DEF DownStates
<1>3. \A a \in D : /\ a.i \in 0..Len(h.keys) /\ DownBody(a, m) \in D
                   /\ DownBody(a, m) = a \/ DownBody(a, m).i > a.i
                   /\ DownBody(a, m) = a => DownDone(a.heap, a.i, m, W)
  <2>1. \A a \in D : a.i \in 0..Len(h.keys)
    BY <1>1 DEF DownStates, Positions
  <2> QED BY <1>1, <2>1, DownStep
<1>4. at \in D /\ DownBody(at, m) = at
  <2> HIDE DEF D
  <2> QED BY <1>1, <1>2, <1>3, DownEnds
<1> HIDE DEF at
<1>5. /\ Rearranged(at.heap, h, m) /\ at.i \in Nat /\ at.i >= i
      /\ at.i = i => at.heap = h
      /\ DownReady(at.heap, at.i, i, m, W)
  BY <1>4 DEF DownStates
<1>6. DownDone(at.heap, at.i, m, W)
  BY <1>3, <1>4
<1>7. at.i > i => Ordered(at.heap, m, W)
  BY <1>1, <1>5, <1>6 DEF DownReady, DownDone, Ordered
<1>8. at.i = i => OrderedBut(h, i, m, W)
  BY <1>5, <1>6 DEF DownReady, DownDone, OrderedBut
<1> QED BY <1>5, <1>7, <1>8 DEF at

LEMMA DownOrUpOK ==
    ASSUME NEW h, Sound(h), NEW m \in Nat, m <= Len(h.keys), NEW W,
           Orders(W, h.comparator), NEW i \in 1..m, DownReady(h, i, i, m, W)
    PROVE  Rearranged(DownOrUp(h, i, m), h, m) /\ Ordered(DownOrUp(h, i, m), m, W)
<1> DEFINE at == down(h, i, m)
<1>1. i \in Positions(h) /\ Len(h.keys) \in Nat /\ i \in Nat
  BY SoundFacts DEF Positions
<1>2. /\ Rearranged(at.heap, h, m) /\ at.i \in Nat /\ at.i >= i
      /\ at.i > i => Ordered(at.heap, m, W)
      /\ at.i = i => OrderedBut(h, i, m, W)
  <2>1. DownReady(h, i, i, m, W)
    OBVIOUS
  <2> QED BY ONLY Sound(h), m \in Nat, m <= Len(h.keys), Orders(W, h.comparator), <1>1, <2>1, DownOK
<1>3. DownOrUp(h, i, m) = IF at.i > i THEN at.heap ELSE up(h, i)
  BY DEF DownOrUp
<1> HIDE DEF at
<1>4. CASE at.i > i
  BY <1>2, <1>3, <1>4
<1>5. CASE ~(at.i > i)
  <2>1. UpReady(h, i, m, W)
    BY <1>1, <1>2, <1>5 DEF UpReady, DownReady, OrderedBut
  <2> QED BY <1>3, <1>5, <2>1, UpOK
<1> QED BY <1>4, <1>5

-----------------------------------------------------------------------------
(* The operations of container/heap, in terms of the pods they leave.      *)

\* The heaps have the same pods at the first m positions but i.
AgreeBut(g, h, i, m) == \A x \in 1..m : x # i => PodAt(g, x) = PodAt(h, x)

LEMMA ReadyToMove ==
    ASSUME NEW h, Sound(h), NEW W, Orders(W, h.comparator), Ordered(h, Len(h.keys), W),
           NEW i \in Positions(h), NEW m \in Nat, m <= Len(h.keys),
           NEW g, AgreeBut(g, h, i, m)
    PROVE  DownReady(g, i, i, m, W)
<1>1. Len(h.keys) \in Nat /\ i \in 1..Len(h.keys) /\ \A x \in 1..Len(h.keys) : PodAt(h, x) \in Pods
  BY SoundFacts DEF Positions
<1>2. ASSUME NEW x \in 2..m
      PROVE  /\ x \in 1..m /\ x \div 2 \in 1..m /\ x \div 2 < x
             /\ <<PodAt(h, x \div 2), PodAt(h, x)>> \in W
  <2>1. x \in Nat /\ x >= 2
    OBVIOUS
  <2>2. x \div 2 \in Nat /\ x \div 2 >= 1 /\ x \div 2 < x
    BY <2>1, Half
  <2>3. x \in 2..Len(h.keys)
    BY <1>1
  <2> QED BY <2>1, <2>2, <2>3 DEF Ordered
<1>3. ASSUME NEW x \in 2..m, x \div 2 # i, x # i
      PROVE  <<PodAt(g, x \div 2), PodAt(g, x)>> \in W
  BY <1>2, <1>3 DEF AgreeBut
<1>4. ASSUME i > 1, NEW x \in 2..m, x \div 2 = i
      PROVE  <<PodAt(g, i \div 2), PodAt(g, x)>> \in W
  <2>1. i \in 2..m /\ x # i
    BY <1>1, <1>2, <1>4
  <2>2. /\ <<PodAt(h, i \div 2), PodAt(h, i)>> \in W /\ i \div 2 \in 1..m /\ i \div 2 # i
        /\ <<PodAt(h, i), PodAt(h, x)>> \in W /\ x \in 1..m /\ i \in 1..m
    BY <1>2, <1>4, <2>1
  <2>3. PodAt(h, i \div 2) \in Pods /\ PodAt(h, i) \in Pods /\ PodAt(h, x) \in Pods
    BY <1>1, <2>2
  <2>4. <<PodAt(h, i \div 2), PodAt(h, x)>> \in W
    BY <2>2, <2>3 DEF Orders
  <2>5. PodAt(g, i \div 2) = PodAt(h, i \div 2) /\ PodAt(g, x) = PodAt(h, x)
    BY <2>1, <2>2 DEF AgreeBut
  <2> QED BY <2>4, <2>5
<1> QED BY <1>3, <1>4 DEF DownReady

\* g is a sound, ordered heap of n pods: those of content.
Holds(g, n, content, c, W) ==
    /\ Sound(g) /\ Len(g.keys) = n /\ Content(g) = content
    /\ g.comparator = c /\ Ordered(g, n, W)

LEMMA RawPushOK ==
    ASSUME NEW h, Sound(h), NEW W, Ordered(h, Len(h.keys), W),
           NEW p \in Pods, KeyOf[p] # NoKey, KeyOf[p] \notin Stored(h)
    PROVE  /\ Sound(RawPush(h, p)) /\ Len(RawPush(h, p).keys) = Len(h.keys) + 1
           /\ RawPush(h, p).comparator = h.comparator
           /\ Content(RawPush(h, p)) = [Content(h) EXCEPT ![KeyOf[p]] = p]
           /\ UpReady(RawPush(h, p), Len(h.keys) + 1, Len(h.keys) + 1, W)
<1> DEFINE n == Len(h.keys)
           k == KeyOf[p]
           g == RawPush(h, p)
<1>1. /\ h.keys \in Seq(Keys) /\ n \in Nat /\ h \in Heaps /\ k \in Keys
      /\ h.items \in [Keys -> [pod : Pods \cup {NoPod}, index : Nat]]
      /\ Cardinality(Stored(h)) = n
  <2>1. k \in Keys
    BY KeyAssumption
  <2>2. Cardinality(Stored(h)) = n
    BY StoredCount
  <2>3. n \in Nat
    BY SoundFacts
  <2> QED BY <2>1, <2>2, <2>3 DEF Sound, Heaps
<1>2. g = [items |-> [h.items EXCEPT ![k] = [pod |-> p, index |-> n + 1]],
           keys |-> Append(h.keys, k), comparator |-> h.comparator]
  <2>1. g = [h EXCEPT !.items[k] = [pod |-> p, index |-> n + 1], !.keys = Append(@, k)]
    BY <1>1 DEF RawPush
  <2> HIDE DEF g, k, n
  <2> QED BY <1>1, <2>1 DEF Heaps
<1>3. /\ g.keys \in Seq(Keys) /\ Len(g.keys) = n + 1 /\ g.keys[n + 1] = k
      /\ \A x \in 1..n : g.keys[x] = h.keys[x]
      /\ g.comparator = h.comparator
  BY <1>1, <1>2
<1>4. /\ g.items \in [Keys -> [pod : Pods \cup {NoPod}, index : Nat]]
      /\ g.items[k] = [pod |-> p, index |-> n + 1]
      /\ \A q \in Keys : q # k => g.items[q] = h.items[q]
  BY <1>1, <1>2
<1>5. g \in Heaps
  <2>1. h.comparator \in Comparators
    BY <1>1 DEF Heaps
  <2> QED BY <1>2, <1>3, <1>4, <2>1 DEF Heaps
<1> HIDE DEF g, n
<1>6. \A x \in 1..n : h.keys[x] \in Stored(h) /\ h.keys[x] # k /\ h.keys[x] \in Keys
  BY SoundFacts DEF Positions, n, Stored
<1>7. ASSUME NEW x \in 1..(n + 1)
      PROVE  /\ g.items[g.keys[x]].index = x /\ PodAt(g, x) \in Pods
             /\ KeyOf[PodAt(g, x)] = g.keys[x]
             /\ x \in 1..n => PodAt(g, x) = PodAt(h, x)
  <2>1. CASE x = n + 1
    BY <1>1, <1>3, <1>4, <2>1 DEF PodAt
  <2>2. CASE x \in 1..n
    <3>1. g.items[g.keys[x]] = h.items[h.keys[x]] /\ g.keys[x] = h.keys[x]
      BY <1>3, <1>4, <1>6, <2>2
    <3> QED BY <2>2, <3>1 DEF PodAt, Sound, Positions, n
  <2> QED BY <1>1, <2>1, <2>2
<1>8. ASSUME NEW q \in Keys, g.items[q] # NoItem
      PROVE  g.items[q].index \in 1..(n + 1) /\ g.keys[g.items[q].index] = q
  <2>1. CASE q = k
    BY <1>1, <1>3, <1>4, <2>1
  <2>2. CASE q # k
    <3>1. h.items[q].index \in 1..n /\ h.keys[h.items[q].index] = q /\ g.items[q] = h.items[q]
      BY <1>4, <1>8, <2>2 DEF Sound, Positions, n
    <3> QED BY <1>1, <1>3, <3>1
  <2> QED BY <2>1, <2>2
<1>9. Sound(g)
  BY <1>3, <1>5, <1>7, <1>8 DEF Sound, Positions
<1>10. Content(g) = [Content(h) EXCEPT ![k] = p]
  <2>1. \A q \in Keys : g.items[q].pod = IF q = k THEN p ELSE h.items[q].pod
    BY <1>4
  <2> HIDE DEF k
  <2> QED BY <1>1, <2>1 DEF Content
<1>11. UpReady(g, n + 1, n + 1, W)
  <2>1. ASSUME NEW x \in 2..(n + 1), x # n + 1
        PROVE  <<PodAt(g, x \div 2), PodAt(g, x)>> \in W
    <3>1. x \in Nat /\ x >= 2 /\ x \in 2..n
      BY <1>1, <2>1
    <3>2. x \div 2 \in Nat /\ x \div 2 >= 1 /\ x \div 2 < x
      BY <3>1, Half
    <3>3. x \in 1..n /\ x \div 2 \in 1..n
      BY <1>1, <3>1, <3>2
    <3>4. PodAt(g, x) = PodAt(h, x) /\ PodAt(g, x \div 2) = PodAt(h, x \div 2)
      BY <1>1, <1>7, <3>3
    <3> QED BY <3>1, <3>4 DEF Ordered, n
  <2>2. ASSUME NEW x \in 2..(n + 1) PROVE x \div 2 # n + 1
    <3>1. x \in Nat /\ x >= 2
      BY <1>1
    <3> QED BY <1>1, <3>1, Half
  <2> QED BY <2>1, <2>2 DEF UpReady
<1> QED BY <1>3, <1>9, <1>10, <1>11 DEF g, n

LEMMA HeapPushOK ==
    ASSUME NEW h, Sound(h), NEW W, Orders(W, h.comparator), Ordered(h, Len(h.keys), W),
           NEW p \in Pods, KeyOf[p] # NoKey, KeyOf[p] \notin Stored(h)
    PROVE  Holds(HeapPush(h, p), Len(h.keys) + 1, [Content(h) EXCEPT ![KeyOf[p]] = p],
                 h.comparator, W)
<1> DEFINE n == Len(h.keys)
           g == RawPush(h, p)
<1>1. /\ n \in Nat
      /\ Sound(g) /\ Len(g.keys) = n + 1 /\ g.comparator = h.comparator
      /\ Content(g) = [Content(h) EXCEPT ![KeyOf[p]] = p] /\ UpReady(g, n + 1, n + 1, W)
  BY RawPushOK, SoundFacts
<1>2. HeapPush(h, p) = up(g, n + 1)
  BY DEF HeapPush
<1> HIDE DEF g, n
<1>3. Orders(W, g.comparator) /\ n + 1 \in Nat /\ n + 1 <= Len(g.keys) /\ n + 1 \in 1..(n + 1)
  BY <1>1 DEF n
<1>4. Rearranged(up(g, n + 1), g, n + 1) /\ Ordered(up(g, n + 1), n + 1, W)
  BY <1>1, <1>3, UpOK
<1> QED BY <1>1, <1>2, <1>4 DEF Holds, Rearranged, n

LEMMA RawPopOK ==
    ASSUME NEW h, Sound(h), NEW n \in Nat, Len(h.keys) = n, n # 0, NEW W, Ordered(h, n - 1, W)
    PROVE  Holds(RawPop(h), n - 1, [Content(h) EXCEPT ![h.keys[n]] = NoPod], h.comparator, W)
<1> DEFINE k == h.keys[n]
           g == RawPop(h)
<1>1. /\ h.keys \in Seq(Keys) /\ h \in Heaps /\ n - 1 \in Nat
      /\ h.items \in [Keys -> [pod : Pods \cup {NoPod}, index : Nat]]
      /\ n \in 1..n /\ k \in Keys
      /\ h.comparator \in Comparators
  BY DEF Sound, Heaps
<1>2. g = [items |-> [h.items EXCEPT ![k] = NoItem],
           keys |-> SubSeq(h.keys, 1, n - 1), comparator |-> h.comparator]
  <2>1. g = [h EXCEPT !.items[k] = NoItem, !.keys = SubSeq(@, 1, n - 1)]
    BY <1>1 DEF RawPop, Last, Front
  <2> HIDE DEF g, k
  <2> QED BY <1>1, <2>1 DEF Heaps
<1>3. /\ g.keys \in Seq(Keys) /\ Len(g.keys) = n - 1
      /\ \A x \in 1..(n - 1) : g.keys[x] = h.keys[x]
      /\ g.comparator = h.comparator
  BY <1>1, <1>2
<1>4. /\ g.items \in [Keys -> [pod : Pods \cup {NoPod}, index : Nat]]
      /\ g.items[k] = NoItem
      /\ \A q \in Keys : q # k => g.items[q] = h.items[q]
  <2>1. NoItem \in [pod : Pods \cup {NoPod}, index : Nat]
    BY DEF NoItem
  <2> HIDE DEF k
  <2> QED BY <1>1, <1>2, <2>1
<1>5. g \in Heaps
  BY <1>1, <1>2, <1>3, <1>4 DEF Heaps
<1>6. /\ \A x \in 1..n : h.keys[x] \in Keys
      /\ \A x \in 1..(n - 1) : h.keys[x] # k
  <2>1. /\ \A x, y \in 1..n : h.keys[x] = h.keys[y] => x = y
    BY SoundFacts DEF Positions
  <2> QED BY <1>1, <2>1
<1> HIDE DEF g, k
<1>7. ASSUME NEW x \in 1..(n - 1)
      PROVE  /\ g.items[g.keys[x]].index = x /\ PodAt(g, x) \in Pods
             /\ KeyOf[PodAt(g, x)] = g.keys[x]
             /\ PodAt(g, x) = PodAt(h, x)
  <2>1. x \in 1..n /\ g.items[g.keys[x]] = h.items[h.keys[x]] /\ g.keys[x] = h.keys[x]
    BY <1>3, <1>4, <1>6
  <2> QED BY <2>1 DEF PodAt, Sound, Positions
<1>8. ASSUME NEW q \in Keys, g.items[q] # NoItem
      PROVE  g.items[q].index \in 1..(n - 1) /\ g.keys[g.items[q].index] = q
  <2>1. q # k /\ g.items[q] = h.items[q]
    BY <1>4, <1>8
  <2>2. h.items[q].index \in 1..n /\ h.keys[h.items[q].index] = q
    BY <1>8, <2>1 DEF Sound, Positions
  <2>3. h.items[q].index # n
    BY <2>1, <2>2 DEF k
  <2>4. h.items[q].index \in 1..(n - 1)
    BY <2>2, <2>3
  <2> QED BY <1>3, <2>1, <2>2, <2>4
<1>9. Sound(g)
  BY <1>3, <1>5, <1>7, <1>8 DEF Sound, Positions
<1>10. Content(g) = [Content(h) EXCEPT ![k] = NoPod]
  <2>1. \A q \in Keys : g.items[q].pod = IF q = k THEN NoPod ELSE h.items[q].pod
    BY <1>4 DEF NoItem
  <2> QED BY <1>1, <2>1 DEF Content
<1>11. Ordered(g, n - 1, W)
  <2>1. ASSUME NEW x \in 2..(n - 1) PROVE <<PodAt(g, x \div 2), PodAt(g, x)>> \in W
    <3>1. x \in Nat /\ x >= 2 /\ x \in 1..(n - 1)
      OBVIOUS
    <3>2. x \div 2 \in 1..(n - 1)
      BY <3>1, Half
    <3>3. PodAt(g, x) = PodAt(h, x) /\ PodAt(g, x \div 2) = PodAt(h, x \div 2)
      BY <1>7, <3>1, <3>2
    <3> QED BY <3>3 DEF Ordered
  <2> QED BY <2>1 DEF Ordered
<1> QED BY <1>3, <1>9, <1>10, <1>11 DEF g, k, Holds

\* The last position, once its pod is the one to remove.
LEMMA RemoveLast ==
    ASSUME NEW h, Sound(h), NEW n \in Nat, Len(h.keys) = n, n # 0, NEW W,
           NEW g, Rearranged(g, h, n - 1), Ordered(g, n - 1, W)
    PROVE  Holds(RawPop(g), n - 1, [Content(h) EXCEPT ![h.keys[n]] = NoPod], h.comparator, W)
<1>1. /\ Sound(g) /\ Len(g.keys) = n /\ g.comparator = h.comparator
      /\ Content(g) = Content(h) /\ g.keys[n] = h.keys[n]
  BY DEF Rearranged, Positions
<1>2. Holds(RawPop(g), n - 1, [Content(g) EXCEPT ![g.keys[n]] = NoPod], g.comparator, W)
  BY <1>1, RawPopOK
<1> QED BY <1>1, <1>2

LEMMA HeapRemoveOK ==
    ASSUME NEW h, Sound(h), NEW W, Orders(W, h.comparator), Ordered(h, Len(h.keys), W),
           NEW i \in Positions(h)
    PROVE  Holds(HeapRemove(h, i), Len(h.keys) - 1, [Content(h) EXCEPT ![h.keys[i]] = NoPod],
                 h.comparator, W)
<1> DEFINE n == Len(h.keys)
<1>1. n \in Nat /\ n # 0 /\ i \in 1..n /\ n \in Positions(h) /\ n - 1 \in Nat
  BY SoundFacts DEF Positions
<1>2. CASE i = n
  <2>1. HeapRemove(h, i) = RawPop(h)
    BY <1>2 DEF HeapRemove
  <2>2. Ordered(h, n - 1, W)
    BY <1>1 DEF Ordered
  <2> HIDE DEF n
  <2>3. Len(h.keys) = n
    BY DEF n
  <2>4. Holds(RawPop(h), n - 1, [Content(h) EXCEPT ![h.keys[n]] = NoPod], h.comparator, W)
    BY <1>1, <2>2, <2>3, RawPopOK
  <2> QED BY <1>2, <2>1, <2>4 DEF n
<1>3. CASE i # n
  <2> DEFINE s == Swap(h, i, n)
             d == DownOrUp(s, i, n - 1)
  <2>1. HeapRemove(h, i) = RawPop(d)
    BY <1>3 DEF HeapRemove
  <2>2. /\ Sound(s) /\ Len(s.keys) = n /\ s.comparator = h.comparator
        /\ Content(s) = Content(h) /\ s.keys[n] = h.keys[i]
        /\ \A x \in 1..n : x \notin {i, n} => PodAt(s, x) = PodAt(h, x)
    BY <1>1, SwapOK DEF Positions
  <2> HIDE DEF n, s
  <2>3. AgreeBut(s, h, i, n - 1)
    BY <1>1, <2>2 DEF AgreeBut
  <2>4. n - 1 \in Nat /\ n - 1 <= Len(h.keys)
    BY <1>1 DEF n
  <2>5. DownReady(s, i, i, n - 1, W)
    BY <2>3, <2>4, ReadyToMove
  <2>6. i \in 1..(n - 1) /\ n - 1 <= Len(s.keys) /\ Orders(W, s.comparator)
    BY <1>1, <1>3, <2>2
  <2>7. Rearranged(d, s, n - 1) /\ Ordered(d, n - 1, W)
    BY <2>2, <2>4, <2>5, <2>6, DownOrUpOK
  <2> HIDE DEF d
  <2>8. Holds(RawPop(d), n - 1, [Content(s) EXCEPT ![s.keys[n]] = NoPod], s.comparator, W)
    BY <1>1, <2>2, <2>7, RemoveLast
  <2> QED BY <2>1, <2>2, <2>8 DEF n
<1> QED BY <1>2, <1>3

LEMMA HeapPopOK ==
    ASSUME NEW h, Sound(h), NEW W, Orders(W, h.comparator), Ordered(h, Len(h.keys), W),
           Len(h.keys) # 0
    PROVE  Holds(HeapPop(h), Len(h.keys) - 1, [Content(h) EXCEPT ![h.keys[1]] = NoPod],
                 h.comparator, W)
<1> DEFINE n == Len(h.keys)
           s == Swap(h, 1, n)
           at == down(s, 1, n - 1)
<1>1. n \in Nat /\ n # 0 /\ 1 \in Positions(h) /\ n \in Positions(h) /\ n - 1 \in Nat
  BY SoundFacts DEF Positions
<1>2. HeapPop(h) = RawPop(at.heap)
  BY DEF HeapPop
<1>3. /\ Sound(s) /\ Len(s.keys) = n /\ s.comparator = h.comparator
      /\ Content(s) = Content(h) /\ s.keys[n] = h.keys[1]
      /\ \A x \in 1..n : x \notin {1, n} => PodAt(s, x) = PodAt(h, x)
  BY <1>1, SwapOK DEF Positions
<1> HIDE DEF n, s
<1>4. AgreeBut(s, h, 1, n - 1)
  BY <1>1, <1>3 DEF AgreeBut
<1>5. n - 1 <= Len(h.keys) /\ n - 1 <= Len(s.keys) /\ Orders(W, s.comparator)
  BY <1>1, <1>3 DEF n
<1>6. DownReady(s, 1, 1, n - 1, W)
  BY <1>1, <1>4, <1>5, ReadyToMove
<1>7. 1 \in Positions(s)
  BY <1>1, <1>3 DEF Positions
<1>8. /\ Rearranged(at.heap, s, n - 1)
      /\ at.i \in Nat /\ at.i >= 1
      /\ at.i > 1 => Ordered(at.heap, n - 1, W)
      /\ at.i = 1 => at.heap = s /\ OrderedBut(s, 1, n - 1, W)
  BY <1>1, <1>3, <1>5, <1>6, <1>7, DownOK
<1> HIDE DEF at
<1>9. Ordered(at.heap, n - 1, W)
  <2>1. OrderedBut(s, 1, n - 1, W) => Ordered(s, n - 1, W)
    BY DEF Ordered, OrderedBut
  <2> QED BY <1>8, <2>1
<1>10. Holds(RawPop(at.heap), n - 1, [Content(s) EXCEPT ![s.keys[n]] = NoPod], s.comparator, W)
  BY <1>1, <1>3, <1>8, <1>9, RemoveLast
<1> QED BY <1>2, <1>3, <1>10 DEF n

\* Update gives the item a new pod of the same name.
LEMMA HeapFixOK ==
    ASSUME NEW h, Sound(h), NEW W, Orders(W, h.comparator), Ordered(h, Len(h.keys), W),
           NEW k \in Stored(h), NEW p \in Pods, KeyOf[p] = k
    PROVE  Holds(HeapFix([h EXCEPT !.items[k].pod = p], h.items[k].index), Len(h.keys),
                 [Content(h) EXCEPT ![k] = p], h.comparator, W)
<1> DEFINE n == Len(h.keys)
           i == h.items[k].index
           g == [h EXCEPT !.items[k].pod = p]
           its == [h.items EXCEPT ![k].pod = p]
<1>1. /\ h.keys \in Seq(Keys) /\ n \in Nat /\ h \in Heaps /\ k \in Keys
      /\ h.items \in [Keys -> [pod : Pods \cup {NoPod}, index : Nat]]
      /\ i \in Positions(h) /\ h.keys[i] = k /\ i \in 1..n
      /\ \A x, y \in 1..n : h.keys[x] = h.keys[y] => x = y
  <2>1. i \in Positions(h) /\ h.keys[i] = k /\ n \in Nat
    BY SoundFacts
  <2>2. \A x, y \in 1..n : h.keys[x] = h.keys[y] => x = y
    BY SoundFacts DEF Positions
  <2> QED BY <2>1, <2>2 DEF Sound, Heaps, Stored, Positions
<1>2. g = [items |-> its, keys |-> h.keys, comparator |-> h.comparator]
  <2>1. g = [h EXCEPT !.items = its]
    OBVIOUS
  <2> HIDE DEF g, its
  <2> QED BY <1>1, <2>1 DEF Heaps
<1>3. g.keys = h.keys /\ g.comparator = h.comparator /\ g.items = its
  BY <1>2
<1>4. /\ its \in [Keys -> [pod : Pods \cup {NoPod}, index : Nat]]
      /\ its[k].pod = p /\ \A q \in Keys : its[q].index = h.items[q].index
      /\ \A q \in Keys : q # k => its[q] = h.items[q]
  BY <1>1
<1> HIDE DEF its, g, i
<1>5. g \in Heaps
  BY <1>1, <1>2, <1>4 DEF Heaps
<1>6. ASSUME NEW x \in 1..n
      PROVE  /\ h.keys[x] \in Keys /\ its[h.keys[x]].index = x /\ its[h.keys[x]].pod \in Pods
             /\ KeyOf[its[h.keys[x]].pod] = h.keys[x]
             /\ x # i => PodAt(g, x) = PodAt(h, x)
  <2>1. /\ h.keys[x] \in Keys /\ h.items[h.keys[x]].index = x
        /\ h.items[h.keys[x]].pod \in Pods /\ KeyOf[h.items[h.keys[x]].pod] = h.keys[x]
    BY <1>1 DEF Sound, Positions, PodAt
  <2>2. x # i => h.keys[x] # k
    BY <1>1
  <2>3. h.keys[x] # k => its[h.keys[x]] = h.items[h.keys[x]]
    BY <1>4, <2>1
  <2> QED BY <1>3, <1>4, <2>1, <2>2, <2>3 DEF PodAt
<1>7. ASSUME NEW q \in Keys, its[q] # NoItem
      PROVE  its[q].index \in 1..n /\ h.keys[its[q].index] = q
  <2>1. CASE q = k
    BY <1>1, <1>4, <2>1 DEF i
  <2>2. CASE q # k
    BY <1>4, <1>7, <2>2 DEF Sound, Positions
  <2> QED BY <2>1, <2>2
<1>8. Sound(g)
  BY <1>3, <1>5, <1>6, <1>7 DEF Sound, Positions, PodAt
<1>9. Content(g) = [Content(h) EXCEPT ![k] = p]
  <2>1. \A q \in Keys : g.items[q].pod = IF q = k THEN p ELSE h.items[q].pod
    BY <1>3, <1>4
  <2> QED BY <1>1, <2>1 DEF Content
<1>10. DownReady(g, i, i, n, W)
  <2>1. AgreeBut(g, h, i, n)
    BY <1>6 DEF AgreeBut
  <2>2. n <= Len(h.keys)
    BY <1>1
  <2> HIDE DEF n
  <2> QED BY <1>1, <2>1, <2>2, ReadyToMove
<1>11. HeapFix(g, i) = DownOrUp(g, i, n)
  BY <1>3 DEF HeapFix
<1>12. n <= Len(g.keys) /\ Orders(W, g.comparator) /\ Len(g.keys) = n
  BY <1>1, <1>3
<1> HIDE DEF n
<1>13. Rearranged(DownOrUp(g, i, n), g, n) /\ Ordered(DownOrUp(g, i, n), n, W)
  BY <1>1, <1>8, <1>10, <1>12, DownOrUpOK
<1>14. Holds(HeapFix(g, i), n, [Content(h) EXCEPT ![k] = p], h.comparator, W)
  BY <1>3, <1>9, <1>11, <1>12, <1>13 DEF Holds, Rearranged
<1> QED BY <1>14 DEF g, i, n

\* The pod at the front may come before every other.
LEMMA FrontIsLeast ==
    ASSUME NEW h, Sound(h), NEW W, Orders(W, h.comparator), Ordered(h, Len(h.keys), W),
           NEW x \in Positions(h)
    PROVE  <<PodAt(h, 1), PodAt(h, x)>> \in W
<1> DEFINE n == Len(h.keys)
           T == {y \in 1..n : <<PodAt(h, 1), PodAt(h, y)>> \notin W}
<1>1. n \in Nat /\ 1 \in 1..n /\ \A y \in 1..n : PodAt(h, y) \in Pods
  BY SoundFacts DEF Positions
<1>2. SUFFICES ASSUME T # {} PROVE FALSE
  BY DEF Positions
<1>3. T \subseteq Nat
  OBVIOUS
<1>4. PICK y \in T : \A z \in T : y <= z
  <2> HIDE DEF T
  <2> QED BY <1>2, <1>3, NatMin
<1>5. y # 1
  <2>1. <<PodAt(h, 1), PodAt(h, 1)>> \in W
    BY <1>1 DEF Orders
  <2> QED BY <1>4, <2>1
<1>6. y \in Nat /\ y >= 2 /\ y \in 2..n
  BY <1>1, <1>4, <1>5
<1>7. y \div 2 \in 1..n /\ y \div 2 < y
  BY <1>6, Half
<1>8. <<PodAt(h, 1), PodAt(h, y \div 2)>> \in W
  BY <1>4, <1>6, <1>7
<1>9. <<PodAt(h, y \div 2), PodAt(h, y)>> \in W
  BY <1>6 DEF Ordered
<1>10. <<PodAt(h, 1), PodAt(h, y)>> \in W
  <2>1. PodAt(h, 1) \in Pods /\ PodAt(h, y \div 2) \in Pods /\ PodAt(h, y) \in Pods
    BY <1>1, <1>6, <1>7
  <2> HIDE DEF T
  <2> QED BY <1>8, <1>9, <2>1 DEF Orders
<1> QED BY <1>4, <1>10

-----------------------------------------------------------------------------
(* The queue: the heap is sound and ordered whenever no method runs.  The  *)
(* theorems assume that no name is pushed while it is pending: neither the *)
(* queue nor submit tests that, and such a push puts a key twice into the  *)
(* heap, so that it is up to the submitters to choose new names.           *)

\* <<p, q>> if q does not come before p.
NotAfter(c) == {pq \in Pods \X Pods : ~Compare(c, pq[2], pq[1])}

LEMMA NotAfterOrders ==
    ASSUME time \in [Pods -> Nat], NEW c \in Comparators
    PROVE  Orders(NotAfter(c), c)
<1>1. /\ \A p \in Pods : Priority[p] \in Int /\ Memory[p] \in Nat /\ time[p] \in Nat
  BY PodAssumption
<1>2. ASSUME NEW p \in Pods, NEW q \in Pods, Compare(c, p, q) PROVE ~Compare(c, q, p)
  BY <1>1, <1>2 DEF Compare, DefaultComparator, ResourceRequestComparator
<1>3. ASSUME NEW p \in Pods, NEW q \in Pods, NEW r \in Pods,
             ~Compare(c, q, p), ~Compare(c, r, q)
      PROVE  ~Compare(c, r, p)
  BY <1>1, <1>3 DEF Compare, DefaultComparator, ResourceRequestComparator
<1>4. \A p, q \in Pods : <<p, q>> \in NotAfter(c) <=> ~Compare(c, q, p)
  BY DEF NotAfter
<1> QED BY <1>2, <1>3, <1>4 DEF Orders

\* A Front shows the pod that is still there when the next call begins.
FrontShown == out.op = "Front" => IF inner.keys = << >> THEN out.pod = NoPod
                                                        ELSE out.pod = FrontPod

\* The inductive invariant.
Inv == /\ time \in [Pods -> 0..MaxTime]
       /\ Sound(inner)
       /\ Ordered(inner, Len(inner.keys), NotAfter(inner.comparator))
       /\ nominatedPods \in [Nodes -> [Keys -> Pods \cup {NoPod}]]
       /\ NominatedNodeName \in [Pods -> Nodes \cup {NoNode}]
       /\ FrontShown

\* What Inv says of the heap, as the operations of container/heap need it.
LEMMA InvFacts ==
    ASSUME Inv
    PROVE  /\ Sound(inner) /\ inner.comparator \in Comparators
           /\ Orders(NotAfter(inner.comparator), inner.comparator)
           /\ Ordered(inner, Len(inner.keys), NotAfter(inner.comparator))
           /\ Len(inner.keys) \in Nat
           /\ (inner.keys = << >>) <=> (Len(inner.keys) = 0)
<1>1. Sound(inner) /\ inner.comparator \in Comparators /\ inner.keys \in Seq(Keys)
  BY DEF Inv, Sound, Heaps
<1>2. time \in [Pods -> Nat]
  BY PodAssumption DEF Inv
<1>3. Orders(NotAfter(inner.comparator), inner.comparator)
  BY <1>1, <1>2, NotAfterOrders
<1> QED BY <1>1, <1>3 DEF Inv

\* The front of a queue that is not empty.
LEMMA FrontFacts ==
    ASSUME Sound(inner), inner.keys # << >>
    PROVE  /\ Len(inner.keys) # 0 /\ 1 \in Positions(inner)
           /\ inner.keys[1] \in Stored(inner) /\ inner.keys[1] = Head(inner.keys)
           /\ FrontPod = PodAt(inner, 1) /\ FrontPod \in Pods
           /\ Pending(inner.keys[1]) = FrontPod /\ KeyOf[FrontPod] = inner.keys[1]
<1>1. inner.keys \in Seq(Keys) /\ Len(inner.keys) # 0 /\ Len(inner.keys) \in Nat
  BY DEF Sound, Heaps
<1>2. 1 \in Positions(inner) /\ Head(inner.keys) = inner.keys[1]
  BY <1>1 DEF Positions
<1>3. FrontPod = PodAt(inner, 1)
  BY <1>2 DEF FrontPod, Pending, PodAt
<1>4. /\ inner.keys[1] \in Stored(inner) /\ PodAt(inner, 1) \in Pods
      /\ KeyOf[PodAt(inner, 1)] = inner.keys[1]
  BY <1>2, SoundFacts DEF Sound
<1> QED BY <1>1, <1>2, <1>3, <1>4 DEF Pending, FrontPod

LEMMA InitInv == Init => Inv
<1> SUFFICES ASSUME Init PROVE Inv
  OBVIOUS
<1>1. PICK c \in Comparators :
         inner = [items |-> [k \in Keys |-> NoItem], keys |-> << >>, comparator |-> c]
  BY DEF Init
<1>2. inner.keys = << >> /\ Len(inner.keys) = 0 /\ inner.items = [k \in Keys |-> NoItem]
  BY <1>1
<1>3. inner \in Heaps
  BY <1>1 DEF Heaps, NoItem
<1>4. Sound(inner)
  BY <1>2, <1>3 DEF Sound, Positions
<1>5. Ordered(inner, Len(inner.keys), NotAfter(inner.comparator))
  BY <1>2 DEF Ordered
<1> QED BY <1>4, <1>5, PodAssumption DEF Init, Inv, FrontShown

\* What each method does to the pending pods.
LEMMA PushStep ==
    ASSUME Inv, "again" \notin Calls, NEW p \in Pods, CallPush(p), KeyOf[p] # NoKey
    PROVE  Holds(inner', Len(inner.keys) + 1, [Content(inner) EXCEPT ![KeyOf[p]] = p],
                 inner.comparator, NotAfter(inner.comparator))
<1>1. inner' = HeapPush(inner, p) /\ KeyOf[p] \notin Stored(inner)
  BY DEF CallPush
<1> QED BY <1>1, InvFacts, HeapPushOK

LEMMA PopStep ==
    ASSUME Inv, CallPop, inner.keys # << >>
    PROVE  Holds(inner', Len(inner.keys) - 1, [Content(inner) EXCEPT ![inner.keys[1]] = NoPod],
                 inner.comparator, NotAfter(inner.comparator))
<1>1. inner' = HeapPop(inner)
  BY DEF CallPop, Empty
<1> QED BY <1>1, InvFacts, HeapPopOK

LEMMA DeleteStep ==
    ASSUME Inv, NEW k \in Stored(inner), CallDelete(k)
    PROVE  Holds(inner', Len(inner.keys) - 1, [Content(inner) EXCEPT ![k] = NoPod],
                 inner.comparator, NotAfter(inner.comparator))
<1> DEFINE i == inner.items[k].index
           h == HeapRemove(inner, i)
           W == NotAfter(inner.comparator)
<1>1. k \in Keys /\ i \in Positions(inner) /\ inner.keys[i] = k
  BY InvFacts, SoundFacts DEF Stored
<1>2. Holds(h, Len(inner.keys) - 1, [Content(inner) EXCEPT ![k] = NoPod], inner.comparator, W)
  BY <1>1, InvFacts, HeapRemoveOK
<1>3. inner' = [h EXCEPT !.items[k] = NoItem]
  BY DEF CallDelete
<1> HIDE DEF h
<1>4. h \in Heaps /\ Sound(h) /\ Content(h) = [Content(inner) EXCEPT ![k] = NoPod]
  BY <1>2 DEF Holds, Sound
<1>5. h.items[k].pod = NoPod
  <2>1. Content(h)[k] = NoPod
    BY <1>1, <1>4 DEF Content
  <2> QED BY <1>1, <2>1 DEF Content
<1>6. h.items[k] = NoItem
  <2>1. k \notin Stored(h)
    BY <1>1, <1>4, <1>5, SoundFacts
  <2> QED BY <1>1, <2>1 DEF Stored
<1>7. inner' = h
  BY <1>3, <1>4, <1>6 DEF Heaps
<1> QED BY <1>2, <1>7

LEMMA UpdateStep ==
    ASSUME Inv, NEW k \in Stored(inner), NEW p \in Pods, KeyOf[p] = k, CallUpdate(k, p)
    PROVE  Holds(inner', Len(inner.keys), [Content(inner) EXCEPT ![k] = p],
                 inner.comparator, NotAfter(inner.comparator))
<1>1. inner' = HeapFix([inner EXCEPT !.items[k].pod = p], inner.items[k].index)
  BY DEF CallUpdate
<1> QED BY <1>1, InvFacts, HeapFixOK

\* Removing a nomination keeps the types of the two records.
LEMMA NominationTypes ==
    ASSUME nominatedPods \in [Nodes -> [Keys -> Pods \cup {NoPod}]],
           NominatedNodeName \in [Pods -> Nodes \cup {NoNode}],
           NEW p \in Pods, RemoveNominatedNode(p)
    PROVE  /\ nominatedPods' \in [Nodes -> [Keys -> Pods \cup {NoPod}]]
           /\ NominatedNodeName' \in [Pods -> Nodes \cup {NoNode}]
  BY DEF RemoveNominatedNode, Unnominated

\* Of the invariant, what a step that keeps the times must show.
LEMMA InvKept ==
    ASSUME Inv, UNCHANGED time, NEW n, NEW content,
           Holds(inner', n, content, inner.comparator, NotAfter(inner.comparator)),
           nominatedPods' \in [Nodes -> [Keys -> Pods \cup {NoPod}]],
           NominatedNodeName' \in [Pods -> Nodes \cup {NoNode}],
           FrontShown'
    PROVE  Inv'
<1>1. /\ Sound(inner') /\ Len(inner'.keys) = n /\ inner'.comparator = inner.comparator
      /\ Ordered(inner', n, NotAfter(inner.comparator))
  BY DEF Holds
<1>2. NotAfter(inner.comparator)' = NotAfter(inner.comparator)
  BY <1>1 DEF NotAfter, Compare, DefaultComparator, ResourceRequestComparator
<1> QED BY <1>1, <1>2 DEF Inv

LEMMA NextInv == "again" \notin Calls /\ Inv /\ [Next]_vars => Inv'
<1> SUFFICES ASSUME "again" \notin Calls, Inv, [Next]_vars PROVE Inv'
  OBVIOUS
<1> DEFINE W == NotAfter(inner.comparator)
<1>1. ASSUME UNCHANGED <<inner, time>>,
             nominatedPods' \in [Nodes -> [Keys -> Pods \cup {NoPod}]],
             NominatedNodeName' \in [Pods -> Nodes \cup {NoNode}],
             FrontShown'
      PROVE  Inv'
  <2>1. Holds(inner', Len(inner.keys), Content(inner), inner.comparator, W)
    BY <1>1, InvFacts DEF Holds
  <2> QED BY <1>1, <2>1, InvKept
<1>2. /\ nominatedPods \in [Nodes -> [Keys -> Pods \cup {NoPod}]]
      /\ NominatedNodeName \in [Pods -> Nodes \cup {NoNode}]
  BY DEF Inv
<1>3. ASSUME NEW p \in Pods, CallPush(p) PROVE Inv'
  <2>1. FrontShown' /\ UNCHANGED <<nominations, time>>
    BY <1>3 DEF CallPush, Returns, FrontShown
  <2>2. CASE KeyOf[p] = NoKey
    BY <1>1, <1>2, <1>3, <2>1, <2>2 DEF CallPush, nominations
  <2>3. CASE KeyOf[p] # NoKey
    BY <1>2, <1>3, <2>1, <2>3, PushStep, InvKept DEF nominations
  <2> QED BY <2>2, <2>3
<1>4. CASE CallPop
  <2>1. FrontShown' /\ UNCHANGED <<nominations, time>>
    BY <1>4 DEF CallPop, Empty, Returns, FrontShown
  <2>2. CASE inner.keys = << >>
    BY <1>1, <1>2, <1>4, <2>1, <2>2 DEF CallPop, Empty, nominations
  <2>3. CASE inner.keys # << >>
    BY <1>2, <1>4, <2>1, <2>3, PopStep, InvKept DEF nominations
  <2> QED BY <2>2, <2>3
<1>5. CASE CallFront
  <2>1. FrontShown' /\ UNCHANGED <<inner, nominations, time>>
    BY <1>5 DEF CallFront, Empty, Returns, FrontShown, FrontPod, Pending
  <2> QED BY <1>1, <1>2, <2>1 DEF nominations
<1>6. ASSUME NEW k \in Keys, CallDelete(k) PROVE Inv'
  <2>1. FrontShown' /\ UNCHANGED time
    BY <1>6 DEF CallDelete, Returns, FrontShown
  <2>2. CASE k \notin Stored(inner)
    BY <1>1, <1>2, <1>6, <2>1, <2>2 DEF CallDelete, nominations
  <2>3. CASE k \in Stored(inner)
    <3>1. Pending(k) \in Pods
      BY <2>3, InvFacts, SoundFacts DEF Pending
    <3>2. RemoveNominatedNode(Pending(k))
      BY <1>6, <2>3 DEF CallDelete
    <3>3. /\ nominatedPods' \in [Nodes -> [Keys -> Pods \cup {NoPod}]]
          /\ NominatedNodeName' \in [Pods -> Nodes \cup {NoNode}]
      BY <1>2, <3>1, <3>2, NominationTypes
    <3> QED BY <1>6, <2>1, <2>3, <3>3, DeleteStep, InvKept
  <2> QED BY <2>2, <2>3
<1>7. ASSUME NEW k \in Keys, NEW p \in Pods, CallUpdate(k, p) PROVE Inv'
  <2>1. FrontShown' /\ UNCHANGED <<nominations, time>>
    BY <1>7 DEF CallUpdate, Returns, FrontShown
  <2>2. CASE KeyOf[p] # k \/ k \notin Stored(inner)
    BY <1>1, <1>2, <1>7, <2>1, <2>2 DEF CallUpdate, nominations
  <2>3. CASE KeyOf[p] = k /\ k \in Stored(inner)
    BY <1>2, <1>7, <2>1, <2>3, UpdateStep, InvKept DEF nominations
  <2> QED BY <2>2, <2>3
<1>8. CASE UNCHANGED vars
  <2>1. FrontShown' /\ UNCHANGED <<inner, nominations, time>>
    BY <1>8 DEF Inv, vars, FrontShown, FrontPod, Pending
  <2> QED BY <1>1, <1>2, <2>1 DEF nominations
<1> QED BY <1>3, <1>4, <1>5, <1>6, <1>7, <1>8 DEF Next

LEMMA SpecInv == "again" \notin Calls => (Spec => []Inv)
<1> SUFFICES ASSUME "again" \notin Calls PROVE Spec => []Inv
  OBVIOUS
<1>1. Inv /\ [Next]_vars => Inv'
  BY NextInv
<1> QED BY <1>1, InitInv, PTL DEF Spec

\* "A pod exists in keys iff it also exists in items." (priority_queue.go:185)
\* The heap never follows a key without an item, and no item is out of its reach,
\* whatever pods are pushed, popped, updated and deleted from its middle.
THEOREM PriorityQueueKeysMatchItems ==
    ASSUME "again" \notin Calls
    PROVE  Spec => []KeysMatchItems
<1>1. Inv => KeysMatchItems
  <2> SUFFICES ASSUME Inv PROVE KeysMatchItems
    OBVIOUS
  <2>1. Sound(inner)
    BY DEF Inv
  <2>2. /\ \A x \in Positions(inner) : inner.keys[x] \in Stored(inner)
        /\ \A k \in Stored(inner) : \E x \in Positions(inner) : inner.keys[x] = k
    BY <2>1, SoundFacts DEF Stored
  <2> QED BY <2>2 DEF KeysMatchItems, Positions
<1> QED BY <1>1, SpecInv, PTL

\* "The pods are sorted by their priority" (priority_queue.go:27): no pending pod
\* comes before the one at the front, by the comparator of the queue.
THEOREM PriorityQueueFrontFirst ==
    ASSUME "again" \notin Calls
    PROVE  Spec => []FrontFirst
<1>1. Inv => FrontFirst
  <2> SUFFICES ASSUME Inv, inner.keys # << >>, NEW k \in Stored(inner)
               PROVE  ~Compare(inner.comparator, Pending(k), FrontPod)
    BY DEF FrontFirst
  <2>1. FrontPod = PodAt(inner, 1)
    BY InvFacts, FrontFacts
  <2>2. inner.items[k].index \in Positions(inner) /\ PodAt(inner, inner.items[k].index) = Pending(k)
    BY InvFacts, SoundFacts DEF Pending
  <2>3. <<FrontPod, Pending(k)>> \in NotAfter(inner.comparator)
    BY <2>1, <2>2, InvFacts, FrontIsLeast
  <2> QED BY <2>3 DEF NotAfter
<1> QED BY <1>1, SpecInv, PTL

\* A sound heap has the types of the structs: in particular, no more positions than
\* there are names.
LEMMA HeapTypes ==
    ASSUME IsFiniteSet(Keys), NEW h, Sound(h)
    PROVE  /\ h.items \in [Keys -> [pod : Pods, index : 1..Cardinality(Keys)] \cup {NoItem}]
           /\ h.keys \in Seq(Keys) /\ h.comparator \in Comparators
<1>1. /\ h.keys \in Seq(Keys) /\ h.comparator \in Comparators
      /\ h.items \in [Keys -> [pod : Pods \cup {NoPod}, index : Nat]]
      /\ Len(h.keys) \in Nat
  BY DEF Sound, Heaps
<1>2. Len(h.keys) <= Cardinality(Keys) /\ Cardinality(Keys) \in Nat
  <2>1. Stored(h) \subseteq Keys
    BY DEF Stored
  <2>2. Cardinality(Stored(h)) = Len(h.keys)
    BY StoredCount
  <2> QED BY <2>1, <2>2, FS_Subset, FS_CardinalityType
<1>3. ASSUME NEW k \in Keys
      PROVE  h.items[k] \in [pod : Pods, index : 1..Cardinality(Keys)] \cup {NoItem}
  <2>1. CASE k \notin Stored(h)
    BY <2>1 DEF Stored
  <2>2. CASE k \in Stored(h)
    <3>1. h.items[k].index \in 1..Len(h.keys) /\ h.items[k].pod \in Pods
      BY <2>2, SoundFacts DEF Positions
    <3>2. h.items[k].index \in 1..Cardinality(Keys)
      BY <1>1, <1>2, <3>1
    <3> QED BY <1>1, <3>1, <3>2
  <2> QED BY <2>1, <2>2
<1> QED BY <1>1, <1>3

\* The types of the structs (priority_queue.go:28 and priority_queue.go:184), of
\* the nominations and of the times, for any finite set of names.
THEOREM PriorityQueueTypeCorrect ==
    ASSUME "again" \notin Calls, IsFiniteSet(Keys)
    PROVE  Spec => []TypeOK
<1>1. Inv => TypeOK
  <2> SUFFICES ASSUME Inv PROVE TypeOK
    OBVIOUS
  <2>1. Sound(inner)
    BY DEF Inv
  <2> QED BY <2>1, HeapTypes DEF TypeOK, Inv
<1> QED BY <1>1, SpecInv, PTL

-----------------------------------------------------------------------------
(* The interface of queue.go.                                              *)

LEMMA InitRefines == Init => Interface!Init
  BY DEF Init, NoItem, Interface!Init

\* Each method is the operation of the interface of the same name.
LEMMA NextRefines == "again" \notin Calls /\ Inv /\ [Next]_vars => [Interface!Next]_Interface!vars
<1> SUFFICES ASSUME "again" \notin Calls, Inv, [Next]_vars
             PROVE  [Interface!Next]_Interface!vars
  OBVIOUS
<1> DEFINE pending == [k \in Keys |-> inner.items[k].pod]
<1>a. Content(inner) = pending /\ Content(inner') = pending'
  BY DEF Content
<1>b. \A k \in Keys : (k \in Stored(inner)) <=> (pending[k] # NoPod)
  BY InvFacts, SoundFacts
<1>c. inner.keys = << >> => Interface!NothingPending
  <2>1. Len(inner.keys) = 0 => \A k \in Keys : k \notin Stored(inner)
    BY InvFacts, SoundFacts DEF Positions
  <2> QED BY <1>b, <2>1, InvFacts DEF Interface!NothingPending
<1>d. inner.keys # << >> =>
         /\ inner.keys[1] \in Keys /\ pending[inner.keys[1]] = FrontPod
         /\ Interface!AtFront(inner.keys[1])
  <2> SUFFICES ASSUME inner.keys # << >>
               PROVE  /\ inner.keys[1] \in Keys /\ pending[inner.keys[1]] = FrontPod
                      /\ Interface!AtFront(inner.keys[1])
    OBVIOUS
  <2>1. inner.keys[1] \in Stored(inner) /\ Pending(inner.keys[1]) = FrontPod
    BY InvFacts, FrontFacts
  <2>2. inner.keys[1] \in Keys /\ pending[inner.keys[1]] = FrontPod
    BY <2>1 DEF Stored, Pending
  <2>3. out.op = "Front" => out.pod = FrontPod
    BY DEF Inv, FrontShown
  <2> QED BY <1>b, <2>1, <2>2, <2>3 DEF Interface!AtFront
<1>1. ASSUME NEW p \in Pods, CallPush(p) PROVE Interface!Push(p)
  <2>1. CASE KeyOf[p] = NoKey
    BY <1>1, <2>1 DEF CallPush, Returns, Interface!Push, Interface!Returns
  <2>2. CASE KeyOf[p] # NoKey
    <3>1. pending' = [pending EXCEPT ![KeyOf[p]] = p]
      BY <1>a, <1>1, <2>2, PushStep DEF Holds
    <3> QED BY <1>1, <2>2, <3>1 DEF CallPush, Returns, Interface!Push, Interface!Returns
  <2> QED BY <2>1, <2>2
<1>2. ASSUME CallPop PROVE Interface!Pop
  <2>1. CASE inner.keys = << >>
    <3>1. UNCHANGED pending /\ Returns("Pop", "ErrEmptyQueue", NoPod, FALSE)
      BY <1>2, <2>1 DEF CallPop, Empty
    <3> QED BY <1>c, <2>1, <3>1
            DEF Returns, Interface!Pop, Interface!Empty, Interface!Returns
  <2>2. CASE inner.keys # << >>
    <3>1. pending' = [pending EXCEPT ![inner.keys[1]] = NoPod]
      BY <1>a, <1>2, <2>2, PopStep DEF Holds
    <3>2. Returns("Pop", "nil", FrontPod, FALSE)
      BY <1>2, <2>2 DEF CallPop, Empty
    <3>3. Interface!Returns("Pop", "nil", pending[inner.keys[1]], FALSE)
      BY <1>d, <2>2, <3>2 DEF Returns, Interface!Returns
    <3> QED BY <1>d, <2>2, <3>1, <3>3 DEF Interface!Pop
  <2> QED BY <2>1, <2>2
<1>3. ASSUME CallFront PROVE Interface!Front
  <2>0. UNCHANGED pending
    BY <1>3 DEF CallFront, Empty
  <2>1. CASE inner.keys = << >>
    <3>1. Returns("Front", "ErrEmptyQueue", NoPod, FALSE)
      BY <1>3, <2>1 DEF CallFront, Empty
    <3> QED BY <1>c, <2>0, <2>1, <3>1
            DEF Returns, Interface!Front, Interface!Empty, Interface!Returns
  <2>2. CASE inner.keys # << >>
    <3>1. Returns("Front", "nil", FrontPod, FALSE)
      BY <1>3, <2>2 DEF CallFront, Empty
    <3>2. Interface!Returns("Front", "nil", pending[inner.keys[1]], FALSE)
      BY <1>d, <2>2, <3>1 DEF Returns, Interface!Returns
    <3> QED BY <1>d, <2>0, <2>2, <3>2 DEF Interface!Front
  <2> QED BY <2>1, <2>2
<1>4. ASSUME NEW k \in Keys, CallDelete(k) PROVE Interface!Delete(k)
  <2>1. CASE k \notin Stored(inner)
    <3>1. UNCHANGED pending /\ Returns("Delete", "nil", NoPod, FALSE)
      BY <1>4, <2>1 DEF CallDelete
    <3>2. pending[k] = NoPod
      BY <1>b, <2>1
    <3> HIDE DEF pending
    <3>3. pending' = [pending EXCEPT ![k] = NoPod]
      BY <3>1, <3>2 DEF pending
    <3> QED BY <3>1, <3>2, <3>3 DEF pending, Returns, Interface!Delete, Interface!Returns
  <2>2. CASE k \in Stored(inner)
    <3>1. pending' = [pending EXCEPT ![k] = NoPod]
      BY <1>a, <1>4, <2>2, DeleteStep DEF Holds
    <3>2. Returns("Delete", "nil", NoPod, TRUE) /\ pending[k] # NoPod
      BY <1>b, <1>4, <2>2 DEF CallDelete
    <3> QED BY <3>1, <3>2 DEF Returns, Interface!Delete, Interface!Returns
  <2> QED BY <2>1, <2>2
<1>5. ASSUME NEW k \in Keys, NEW p \in Pods, CallUpdate(k, p) PROVE Interface!Update(k, p)
  <2>1. CASE KeyOf[p] = k /\ k \in Stored(inner)
    <3>1. pending' = [pending EXCEPT ![k] = p]
      BY <1>a, <1>5, <2>1, UpdateStep DEF Holds
    <3>2. Returns("Update", "nil", NoPod, FALSE) /\ pending[k] # NoPod
      BY <1>b, <1>5, <2>1 DEF CallUpdate
    <3> QED BY <2>1, <3>1, <3>2 DEF Returns, Interface!Update, Interface!Returns
  <2>2. CASE ~(KeyOf[p] = k /\ k \in Stored(inner))
    <3>1. UNCHANGED pending /\ Returns("Update", UpdateError(k, p), NoPod, FALSE)
      BY <1>5, <2>2 DEF CallUpdate
    <3>2. KeyOf[p] # k \/ pending[k] = NoPod
      BY <1>b, <2>2
    <3> QED BY <3>1, <3>2 DEF Returns, UpdateError, Interface!Update,
                              Interface!Returns, Interface!UpdateError
  <2> QED BY <2>1, <2>2
<1>6. ASSUME UNCHANGED vars PROVE UNCHANGED Interface!vars
  BY <1>6 DEF vars, Interface!vars
<1> QED BY <1>1, <1>2, <1>3, <1>4, <1>5, <1>6 DEF Next, Interface!Next

\* The priority queue implements the interface of queue.go: no pod is lost or found
\* twice, Pop and Front report an empty queue only if no pod is pending, and Pop
\* takes the pod that the Front before it returned.
THEOREM PriorityQueueImplementsPodQueue ==
    ASSUME "again" \notin Calls
    PROVE  Spec => ImplementsPodQueue
<1>1. Inv /\ [Next]_vars => [Interface!Next]_Interface!vars
  BY NextRefines
<1> QED BY <1>1, SpecInv, InitRefines, PTL DEF Spec, ImplementsPodQueue, Interface!Spec
-----------------------------------------------------------------------------
(***************************************************************************)
(* Part 2: preemption.                                                     *)
(***************************************************************************)

(* The inductive invariant.  The heap is ordered by what a failed attempt  *)
(* does not change: the priority or the request of a pod.                  *)

RankOf(c, p) == IF c = "DefaultComparator" THEN Priority[p] ELSE Memory[p]
Ranked(c) == {pq \in Pods \X Pods : RankOf(c, pq[2]) <= RankOf(c, pq[1])}

LEMMA RankedOrders == \A c : Orders(Ranked(c), c)
<1> SUFFICES ASSUME NEW c PROVE Orders(Ranked(c), c)
  OBVIOUS
<1>1. \A p \in Pods : RankOf(c, p) \in Int
  BY PodAssumption DEF RankOf
<1>2. \A p, q \in Pods : Compare(c, p, q) => RankOf(c, q) <= RankOf(c, p)
  BY PodAssumption DEF RankOf, Compare, DefaultComparator, ResourceRequestComparator
<1>3. \A p, q \in Pods : ~Compare(c, p, q) => RankOf(c, p) <= RankOf(c, q)
  BY PodAssumption DEF RankOf, Compare, DefaultComparator, ResourceRequestComparator
<1>4. \A p, q \in Pods : <<p, q>> \in Ranked(c) <=> RankOf(c, q) <= RankOf(c, p)
  BY DEF Ranked
<1> QED BY <1>1, <1>2, <1>3, <1>4 DEF Orders

HeapRanked == Sound(inner) /\ Ordered(inner, Len(inner.keys), Ranked(inner.comparator))

Types ==
    /\ nominatedPods \in [Nodes -> [Keys -> Pods \cup {NoPod}]]
    /\ NominatedNodeName \in [Pods -> Nodes \cup {NoNode}]
    /\ time \in [Pods -> 0..MaxTime]
    /\ pc \in {"submit", "schedule", "panicked"} /\ clock \in 1..MaxTime
    /\ host \in [Pods -> Nodes \cup {NoNode}]
    /\ boundAt \in [Pods -> 0..MaxTime] /\ deletedAt \in [Pods -> -1..MaxTime]
    /\ seen \in SUBSET Pods /\ replaced \in SUBSET Pods /\ intruded \in SUBSET Pods
    /\ victimsOf \in [Pods -> SUBSET Pods]

\* A pod that is pending or yet to come is on no node, and was never deleted.
Unplaced ==
    /\ \A k \in Keys : Pending(k) # NoPod => Pending(k) \in seen /\ host[Pending(k)] = NoNode
    /\ \A p \in Pods : p \notin seen => host[p] = NoNode
    /\ \A p \in Pods : deletedAt[p] # Never => host[p] # NoNode

\* The victims of a pod are less important and were deleted, and those that
\* terminate are where the pod is nominated.
Evicted ==
    \A p \in Pods : \A q \in victimsOf[p] :
        /\ Priority[q] < Priority[p] /\ deletedAt[q] # Never
        /\ IsTerminating(q) => host[q] = NominatedNodeName[p]

PInv == HeapRanked /\ Types /\ Unplaced /\ NominationsLive /\ Evicted

-----------------------------------------------------------------------------
(* What pods request together.                                             *)

LEMMA TotalIs ==
    ASSUME IsFiniteSet(Pods), NEW S \in SUBSET Pods
    PROVE  Total(S) = SumOf(S, Size) /\ Total(S) \in Nat /\ IsFiniteSet(S)
<1>1. IsFiniteSet(S) /\ \A k \in S : Size[k] \in Nat
  BY FS_Subset, SizeAssumption
<1> DEFINE c == [s \in SUBSET S |-> CHOOSE x \in s : TRUE]
           Eq(acc) == acc = [s \in SUBSET S |-> IF s = {} THEN 0
                             ELSE LET x == CHOOSE x \in s : TRUE IN Size[x] + acc[s \ {x}]]
           acc == CHOOSE f : Eq(f)
<1>2. Total(S) = acc[S]
  BY DEF Total, MapThenSumSet, MapThenFoldSet
<1>3. \A s \in SUBSET S : s # {} => c[s] \in s
  OBVIOUS
<1>4. \A f : Eq(f) <=> Accumulates(S, Size, c, f)
  BY DEF Accumulates
<1>5. Accumulates(S, Size, c, acc)
  <2> HIDE DEF Eq, c
  <2>1. \E f : Eq(f)
    BY <1>1, <1>3, <1>4, AccumulatorExists
  <2>2. Eq(acc)
    BY <2>1
  <2> QED BY <1>4, <2>2
<1> HIDE DEF acc, c, Eq
<1>6. acc[S] = SumOf(S, Size)
  BY <1>1, <1>3, <1>5, AccumulatorSums
<1> QED BY <1>1, <1>2, <1>6, SumPart

\* More pods request more, and two sets at most the sum of what each requests.
LEMMA TotalPart ==
    ASSUME IsFiniteSet(Pods), NEW S \in SUBSET Pods, NEW T \in SUBSET S
    PROVE  /\ Total(T) \in Nat /\ Total(S) \in Nat /\ Total(T) <= Total(S)
           /\ Total(S \ T) = Total(S) - Total(T)
<1>1. \A k \in S : Size[k] \in Nat
  BY SizeAssumption
<1>2. Total(S) = SumOf(S, Size) /\ Total(S) \in Nat /\ IsFiniteSet(S)
  BY TotalIs
<1>3. Total(T) = SumOf(T, Size) /\ Total(T) \in Nat /\ Total(S \ T) = SumOf(S \ T, Size)
  <2>1. T \in SUBSET Pods /\ S \ T \in SUBSET Pods
    OBVIOUS
  <2> QED BY <2>1, TotalIs
<1>4. SumOf(T, Size) <= SumOf(S, Size) /\ SumOf(S \ T, Size) = SumOf(S, Size) - SumOf(T, Size)
  BY <1>1, <1>2, SumPart, SumWithout
<1> QED BY <1>2, <1>3, <1>4

LEMMA TotalUnion ==
    ASSUME IsFiniteSet(Pods), NEW S \in SUBSET Pods, NEW T \in SUBSET Pods
    PROVE  /\ Total(S) \in Nat /\ Total(T) \in Nat /\ Total(S \cup T) \in Nat
           /\ Total(S \cup T) <= Total(S) + Total(T)
<1>1. \A k \in S \cup T : Size[k] \in Nat
  BY SizeAssumption
<1>2. Total(S) = SumOf(S, Size) /\ Total(S) \in Nat /\ IsFiniteSet(S)
  BY TotalIs
<1>3. Total(T) = SumOf(T, Size) /\ Total(T) \in Nat /\ IsFiniteSet(T)
  BY TotalIs
<1>4. Total(S \cup T) = SumOf(S \cup T, Size) /\ Total(S \cup T) \in Nat
  <2>1. S \cup T \in SUBSET Pods
    OBVIOUS
  <2> QED BY <2>1, TotalIs
<1>5. SumOf(S \cup T, Size) <= SumOf(S, Size) + SumOf(T, Size)
  BY <1>1, <1>2, <1>3, SumUnion
<1> QED BY <1>2, <1>3, <1>4, <1>5

LEMMA TotalWith ==
    ASSUME IsFiniteSet(Pods), NEW S \in SUBSET Pods, NEW q \in Pods
    PROVE  /\ Size[q] \in Nat
           /\ q \notin S => Total(S \cup {q}) = Total(S) + Size[q]
           /\ Total(S \cup {q}) <= Total(S) + Size[q]
           /\ Total(S) \in Nat /\ Total(S \cup {q}) \in Nat
<1>1. Size[q] \in Nat /\ \A k \in S : Size[k] \in Nat
  BY SizeAssumption
<1>2. Total(S) = SumOf(S, Size) /\ Total(S) \in Nat /\ IsFiniteSet(S)
  BY TotalIs
<1>3. Total(S \cup {q}) = SumOf(S \cup {q}, Size) /\ Total(S \cup {q}) \in Nat
  <2>1. S \cup {q} \in SUBSET Pods
    OBVIOUS
  <2> QED BY <2>1, TotalIs
<1>4. q \notin S => SumOf(S \cup {q}, Size) = SumOf(S, Size) + Size[q]
  BY <1>1, <1>2, SumAdd
<1>5. q \in S => S \cup {q} = S
  OBVIOUS
<1>6. q \in S => Total(S \cup {q}) = Total(S)
  BY <1>5
<1> QED BY <1>1, <1>2, <1>3, <1>4, <1>6

\* A pod fits if there is room with the pods for which room is kept.
LEMMA FitsIff ==
    ASSUME IsFiniteSet(Pods), Types, NEW p \in Pods, NEW n \in Nodes, NEW r \in Int
    PROVE  /\ Size[p] + Total(ReservedFrom(p, n)) \in Nat /\ Capacity \in Nat
           /\ ReservedFrom(p, n) \in SUBSET Pods
           /\ podFitsOnNode(p, n, r) <=>
                 n \in Allowed[p] /\ r + (Size[p] + Total(ReservedFrom(p, n))) <= Capacity
<1>1. ReservedFrom(p, n) \in SUBSET Pods
  BY KeyAssumption DEF ReservedFrom, NominatedPods, Types
<1>2. Total(ReservedFrom(p, n)) \in Nat
  BY <1>1, TotalIs
<1>3. Size[p] \in Nat /\ Capacity \in Nat
  BY SizeAssumption
<1> DEFINE t == Total(ReservedFrom(p, n))
<1> HIDE DEF t
<1>4. podFitsOnNode(p, n, r) <=>
         /\ n \in Allowed[p] /\ (r + t) + Size[p] <= Capacity
         /\ n \in Allowed[p] /\ r + Size[p] <= Capacity
  BY DEF podFitsOnNode, Passes, HasRoom, AddPod, addNominatedPods, t
<1>5. t \in Nat
  BY <1>2 DEF t
<1> QED BY <1>1, <1>2, <1>3, <1>4, <1>5 DEF t

-----------------------------------------------------------------------------
(* The victims on a node.                                                  *)

\* at is what the loop over the first m pods of order computes.
Reprieves(p, n, order, m, at) ==
    at = [i \in 0..m |-> IF i = 0 THEN [copy |-> WithoutLower(p, n), victims |-> << >>]
                         ELSE ReprievePod(p, n, at[i - 1], order[i])]

LEMMA ReprievesExist ==
    ASSUME NEW p, NEW n, NEW order, NEW m \in Nat
    PROVE  \E at : Reprieves(p, n, order, m, at)
<1> DEFINE b == [copy |-> WithoutLower(p, n), victims |-> << >>]
           S == {j \in Nat : \E at : Reprieves(p, n, order, j, at)}
<1>1. 0 \in S
  <2> DEFINE g == [i \in 0..0 |-> b]
  <2>1. g = [i \in 0..0 |-> IF i = 0 THEN b ELSE ReprievePod(p, n, g[i - 1], order[i])]
    OBVIOUS
  <2> HIDE DEF g
  <2>2. Reprieves(p, n, order, 0, g)
    BY <2>1 DEF Reprieves
  <2> QED BY <2>2
<1>2. ASSUME NEW j \in Nat, j \in S PROVE j + 1 \in S
  <2>1. PICK f : Reprieves(p, n, order, j, f)
    BY <1>2
  <2> DEFINE g == [i \in 0..(j + 1) |-> IF i = j + 1 THEN ReprievePod(p, n, f[j], order[j + 1])
                                                     ELSE f[i]]
  <2>2. \A i \in 0..j : f[i] = IF i = 0 THEN b ELSE ReprievePod(p, n, f[i - 1], order[i])
    BY <2>1 DEF Reprieves
  <2>3. ASSUME NEW i \in 0..(j + 1)
        PROVE  g[i] = IF i = 0 THEN b ELSE ReprievePod(p, n, g[i - 1], order[i])
    <3>1. CASE i = j + 1
      <4>1. g[i] = ReprievePod(p, n, f[j], order[j + 1]) /\ g[j] = f[j] /\ i - 1 = j /\ i # 0
        BY <3>1
      <4> HIDE DEF g
      <4> QED BY <3>1, <4>1
    <3>2. CASE i \in 0..j
      <4>1. g[i] = f[i] /\ (i # 0 => g[i - 1] = f[i - 1])
        BY <3>2
      <4> HIDE DEF g, b
      <4> QED BY <2>2, <3>2, <4>1
    <3> QED BY <3>1, <3>2
  <2>4. g = [i \in 0..(j + 1) |-> g[i]]
    OBVIOUS
  <2> HIDE DEF g
  <2>5. Reprieves(p, n, order, j + 1, g)
    BY <2>3, <2>4 DEF Reprieves
  <2> QED BY <2>5
<1> HIDE DEF S
<1>3. m \in S
  BY <1>1, <1>2, Induction
<1> QED BY <1>3 DEF S

LEMMA SelectRun ==
    ASSUME NEW p, NEW n, NEW m \in Nat, NEW order, Len(order) = m
    PROVE  \E at : /\ SelectVictims(p, n, order) = at[m].victims
                   /\ at[0] = [copy |-> WithoutLower(p, n), victims |-> << >>]
                   /\ \A i \in 1..m : at[i] = ReprievePod(p, n, at[i - 1], order[i])
<1> DEFINE Eq(at) == at = [i \in 0..m |-> IF i = 0 THEN [copy |-> WithoutLower(p, n), victims |-> << >>]
                                          ELSE ReprievePod(p, n, at[i - 1], order[i])]
           at == CHOOSE f : Eq(f)
<1>1. SelectVictims(p, n, order) = at[m].victims
  BY DEF SelectVictims
<1>2. \A f : Eq(f) <=> Reprieves(p, n, order, m, f)
  BY DEF Reprieves
<1>3. Reprieves(p, n, order, m, at)
  <2> HIDE DEF Eq
  <2>1. \E f : Eq(f)
    BY <1>2, ReprievesExist
  <2>2. Eq(at)
    BY <2>1
  <2> QED BY <1>2, <2>2
<1> HIDE DEF at, Eq
<1>4. \A i \in 0..m : at[i] = IF i = 0 THEN [copy |-> WithoutLower(p, n), victims |-> << >>]
                              ELSE ReprievePod(p, n, at[i - 1], order[i])
  BY <1>3 DEF Reprieves
<1>5. at[0] = [copy |-> WithoutLower(p, n), victims |-> << >>]
  <2>1. 0 \in 0..m
    OBVIOUS
  <2> QED BY ONLY <1>4, <2>1
<1>6. ASSUME NEW i \in 1..m PROVE at[i] = ReprievePod(p, n, at[i - 1], order[i])
  <2>1. i \in 0..m /\ i # 0
    OBVIOUS
  <2> QED BY ONLY <1>4, <2>1
<1> QED BY <1>1, <1>5, <1>6

\* A pod without a UID cannot be removed from a NodeInfo.
LEMMA RemovableIff == \A q \in Pods : Removable(q) <=> q \notin Replacements
BY KeyAssumption, UidAssumption DEF Removable, Uid

\* The pods that stay after i rounds of the loop that chose the victims v.
Before(order, i) == {order[j] : j \in 1..i}
Kept(p, n, order, i, v) ==
    (RunningAndTerminating(n) \ LowerOn(p, n)) \cup (Before(order, i) \ ToSet(v))

\* The pod fits with the pods that stay.  The copy counts them, and more only if
\* there are pods that RemovePod does not find.
Selecting(p, n, order, i, a) ==
    LET kept == Total(Kept(p, n, order, i, a.victims)) IN
    /\ a \in [copy : Int, victims : Seq(LowerOn(p, n))]
    /\ ToSet(a.victims) \subseteq Before(order, i)
    /\ kept <= a.copy /\ podFitsOnNode(p, n, kept)
    /\ RunningAndTerminating(n) \cap Replacements = {} =>
          /\ a.copy = kept
          /\ \A q \in ToSet(a.victims) : ~podFitsOnNode(p, n, kept + Size[q])
    /\ \A x, y \in 1..Len(a.victims) : x < y =>
          a.victims[x] # a.victims[y] /\ Priority[a.victims[x]] >= Priority[a.victims[y]]

LEMMA SelectingBegins ==
    ASSUME IsFiniteSet(Pods), Types, NEW p \in Pods, NEW n \in Nodes, NEW order,
           podFitsOnNode(p, n, WithoutLower(p, n))
    PROVE  Selecting(p, n, order, 0, [copy |-> WithoutLower(p, n), victims |-> << >>])
<1> DEFINE R == RunningAndTerminating(n)
           X == LowerOn(p, n)
           Y == {q \in X : Removable(q)}
           a == [copy |-> WithoutLower(p, n), victims |-> << >>]
<1>1. R \in SUBSET Pods /\ X \in SUBSET R /\ Y \in SUBSET X /\ Y \in SUBSET R
  BY DEF RunningAndTerminating, LowerOn
<1>2. Kept(p, n, order, 0, << >>) = R \ X
  <2>1. Before(order, 0) = {}
    BY DEF Before
  <2> QED BY <2>1 DEF Kept
<1>3. R \cap Replacements = {} => Y = X
  BY <1>1, RemovableIff
<1>4. WithoutLower(p, n) = Total(R) - Total(Y)
  BY DEF WithoutLower, NodeInfo
<1> HIDE DEF R, X, Y
<1>5. /\ Total(R \ X) = Total(R) - Total(X) /\ Total(R) \in Nat /\ Total(X) \in Nat
      /\ Total(Y) \in Nat /\ Total(Y) <= Total(X)
  <2>1. X \in SUBSET Pods
    BY <1>1
  <2> QED BY <1>1, <2>1, TotalPart
<1>6. /\ WithoutLower(p, n) \in Int /\ Total(R \ X) \in Int /\ Total(R \ X) <= WithoutLower(p, n)
      /\ R \cap Replacements = {} => WithoutLower(p, n) = Total(R \ X)
  BY <1>3, <1>4, <1>5
<1>7. podFitsOnNode(p, n, Total(R \ X))
  <2> DEFINE s == Size[p] + Total(ReservedFrom(p, n))
  <2>1. s \in Nat /\ Capacity \in Nat
    BY FitsIff
  <2>2. \A r \in Int : podFitsOnNode(p, n, r) <=> n \in Allowed[p] /\ r + s <= Capacity
    BY FitsIff
  <2> HIDE DEF s
  <2> QED BY <1>6, <2>1, <2>2
<1>8. ToSet(<< >>) = {} /\ Len(<< >>) = 0 /\ << >> \in Seq(X)
  BY DEF ToSet
<1>9. a.copy = WithoutLower(p, n) /\ a.victims = << >> /\ a \in [copy : Int, victims : Seq(X)]
  BY <1>6, <1>8
<1> HIDE DEF a
<1>10. Selecting(p, n, order, 0, a)
  <2>1. Kept(p, n, order, 0, a.victims) = R \ X
    BY <1>2, <1>9
  <2>2. ToSet(a.victims) = {} /\ 1..Len(a.victims) = {}
    BY <1>8, <1>9
  <2> QED BY <1>6, <1>7, <1>9, <2>1, <2>2 DEF Selecting, R, X
<1> QED BY <1>10 DEF a

LEMMA SelectingGoesOn ==
    ASSUME IsFiniteSet(Pods), Types, NEW p \in Pods, NEW n \in Nodes, NEW m \in Nat,
           NEW order \in [1..m -> LowerOn(p, n)],
           \A x, y \in 1..m : x < y => order[x] # order[y] /\ Priority[order[x]] >= Priority[order[y]],
           NEW i \in Nat, i + 1 <= m, NEW a, Selecting(p, n, order, i, a)
    PROVE  Selecting(p, n, order, i + 1, ReprievePod(p, n, a, order[i + 1]))
<1> DEFINE R == RunningAndTerminating(n)
           X == LowerOn(p, n)
           q == order[i + 1]
           v == a.victims
           K == Kept(p, n, order, i, v)
           more == AddPod(a.copy, q)
           b == ReprievePod(p, n, a, q)
           s == Size[p] + Total(ReservedFrom(p, n))
<1>1. /\ a \in [copy : Int, victims : Seq(X)] /\ ToSet(v) \subseteq Before(order, i)
      /\ Total(K) <= a.copy /\ podFitsOnNode(p, n, Total(K))
      /\ R \cap Replacements = {} =>
            /\ a.copy = Total(K)
            /\ \A t \in ToSet(v) : ~podFitsOnNode(p, n, Total(K) + Size[t])
      /\ \A x, y \in 1..Len(v) : x < y => v[x] # v[y] /\ Priority[v[x]] >= Priority[v[y]]
  BY DEF Selecting
<1>2. i + 1 \in 1..m /\ q \in X
  OBVIOUS
<1>3. R \in SUBSET Pods /\ X \in SUBSET R
  BY DEF RunningAndTerminating, LowerOn
<1>4. /\ Before(order, i) \subseteq X /\ q \notin Before(order, i)
      /\ Before(order, i + 1) = Before(order, i) \cup {q}
      /\ \A t \in Before(order, i) : Priority[t] >= Priority[q]
  <2>1. 1..(i + 1) = 1..i \cup {i + 1} /\ 1..i \subseteq 1..m /\ \A j \in 1..i : j < i + 1
    OBVIOUS
  <2> QED BY <1>2, <2>1 DEF Before
<1>5. /\ s \in Nat /\ Capacity \in Nat
      /\ \A r \in Int : podFitsOnNode(p, n, r) <=> n \in Allowed[p] /\ r + s <= Capacity
  BY FitsIff
<1>6. K \in SUBSET Pods /\ q \notin K /\ q \in Pods /\ ToSet(v) \subseteq Pods
  BY <1>1, <1>2, <1>3, <1>4 DEF Kept
<1>7. /\ Total(K) \in Nat /\ Size[q] \in Nat /\ Total(K \cup {q}) = Total(K) + Size[q]
      /\ \A t \in ToSet(v) : Size[t] \in Nat
  BY <1>6, TotalWith, SizeAssumption
<1>8. more = a.copy + Size[q] /\ a.copy \in Int /\ v \in Seq(X)
  BY <1>1 DEF AddPod
<1>9. Removable(q) \/ R \cap Replacements # {}
  BY <1>2, <1>3, <1>6, RemovableIff
<1>10. CASE podFitsOnNode(p, n, more)
  <2>1. b = [a EXCEPT !.copy = more]
    BY <1>10 DEF ReprievePod
  <2>2. b.copy = more /\ b.victims = v /\ b \in [copy : Int, victims : Seq(X)]
    <3>1. more \in Int
      BY <1>7, <1>8
    <3> HIDE DEF more, b, X
    <3> QED BY <1>1, <2>1, <3>1
  <2>3. Kept(p, n, order, i + 1, v) = K \cup {q}
    BY <1>1, <1>4 DEF Kept
  <2> HIDE DEF K, b, more, q, s, v, R, X
  <2>4. /\ Total(K \cup {q}) <= more /\ podFitsOnNode(p, n, Total(K \cup {q}))
        /\ a.copy = Total(K) => more = Total(K \cup {q})
    BY <1>1, <1>5, <1>7, <1>8, <1>10
  <2>5. ASSUME NEW t \in ToSet(v), ~podFitsOnNode(p, n, Total(K) + Size[t])
        PROVE  ~podFitsOnNode(p, n, Total(K \cup {q}) + Size[t])
    BY <1>5, <1>7, <2>5
  <2>6. ToSet(v) \subseteq Before(order, i + 1)
    BY <1>1, <1>4
  <2> QED BY <1>1, <2>2, <2>3, <2>4, <2>5, <2>6 DEF Selecting, b, q, R, X
<1>11. CASE ~podFitsOnNode(p, n, more)
  <2> DEFINE w == Append(v, q)
  <2>1. b = [copy |-> RemovePod(more, q), victims |-> w]
    BY <1>11 DEF ReprievePod
  <2>2. RemovePod(more, q) = IF Removable(q) THEN a.copy ELSE more
    BY <1>7, <1>8 DEF RemovePod
  <2>3. /\ Len(w) = Len(v) + 1 /\ w \in Seq(X) /\ Len(v) \in Nat
        /\ \A x \in 1..(Len(v) + 1) : w[x] = IF x = Len(v) + 1 THEN q ELSE v[x]
        /\ \A x \in 1..Len(v) : v[x] \in ToSet(v)
    <3> HIDE DEF q, v, X
    <3> QED BY <1>2, <1>8 DEF ToSet, X, q
  <2>4. ToSet(w) = ToSet(v) \cup {q}
    <3> HIDE DEF q, v, X, w
    <3>1. DOMAIN w = 1..(Len(v) + 1) /\ DOMAIN v = 1..Len(v)
      BY <1>8, <2>3
    <3>2. 1..(Len(v) + 1) = 1..Len(v) \cup {Len(v) + 1}
      BY <2>3
    <3> QED BY <2>3, <3>1, <3>2 DEF ToSet
  <2>5. Kept(p, n, order, i + 1, w) = K
    BY <1>4, <2>4 DEF Kept
  <2>6. ToSet(w) \subseteq Before(order, i + 1)
    BY <1>1, <1>4, <2>4
  <2>7. ASSUME NEW x \in 1..Len(w), NEW y \in 1..Len(w), x < y
        PROVE  w[x] # w[y] /\ Priority[w[x]] >= Priority[w[y]]
    <3>1. x \in 1..Len(v) /\ (y \in 1..Len(v) \/ y = Len(v) + 1)
      BY <2>3, <2>7
    <3>2. w[x] = v[x] /\ v[x] \in Before(order, i)
      <4>1. x \in 1..(Len(v) + 1) /\ x # Len(v) + 1
        BY <2>3, <3>1
      <4> QED BY <1>1, <2>3, <3>1, <4>1
    <3>3. CASE y = Len(v) + 1
      <4>1. w[y] = q
        BY <2>3, <3>3
      <4> QED BY <1>4, <3>2, <4>1
    <3>4. CASE y \in 1..Len(v)
      <4>1. w[y] = v[y]
        BY <2>3, <3>4
      <4> QED BY <1>1, <2>7, <3>1, <3>2, <3>4, <4>1
    <3> QED BY <3>1, <3>3, <3>4
  <2>8. b.copy = RemovePod(more, q) /\ b.victims = w /\ b \in [copy : Int, victims : Seq(X)]
    <3>1. RemovePod(more, q) \in Int
      BY <1>7, <1>8, <2>2
    <3> HIDE DEF more, b, X, w
    <3> QED BY <2>1, <2>3, <3>1
  <2> HIDE DEF K, b, more, q, s, v, w, R, X
  <2>9. /\ Total(K) <= RemovePod(more, q)
        /\ Removable(q) => RemovePod(more, q) = a.copy
    BY <1>1, <1>7, <1>8, <2>2
  <2>10. ASSUME R \cap Replacements = {}, NEW t \in ToSet(w)
         PROVE  ~podFitsOnNode(p, n, Total(K) + Size[t])
    <3>1. CASE t = q
      <4>1. more = Total(K) + Size[t]
        BY <1>1, <1>8, <2>10, <3>1
      <4> QED BY <1>11, <4>1
    <3>2. CASE t \in ToSet(v)
      BY <1>1, <2>10, <3>2
    <3> QED BY <2>4, <2>10, <3>1, <3>2
  <2> QED BY <1>1, <1>9, <2>5, <2>6, <2>7, <2>8, <2>9, <2>10 DEF Selecting, b, q, R, X
<1> QED BY <1>10, <1>11

\* All pods of lower priority were tried when the loop ends.
LEMMA Selected ==
    ASSUME IsFiniteSet(Pods), Types, NEW p \in Pods, NEW n \in Nodes,
           podFitsOnNode(p, n, WithoutLower(p, n)), NEW order \in Sorted(LowerOn(p, n))
    PROVE  LET v == SelectVictims(p, n, order)
               kept == Total(RunningAndTerminating(n) \ ToSet(v))
           IN  /\ v \in Seq(LowerOn(p, n)) /\ podFitsOnNode(p, n, kept)
               /\ RunningAndTerminating(n) \cap Replacements = {} =>
                     \A q \in ToSet(v) : ~podFitsOnNode(p, n, kept + Size[q])
               /\ \A x, y \in 1..Len(v) : x < y =>
                     v[x] # v[y] /\ Priority[v[x]] >= Priority[v[y]]
<1> DEFINE R == RunningAndTerminating(n)
           X == LowerOn(p, n)
           m == Cardinality(X)
<1>1. R \in SUBSET Pods /\ X \in SUBSET R /\ X \in SUBSET Pods
  BY DEF RunningAndTerminating, LowerOn
<1>2. m \in Nat /\ IsFiniteSet(X)
  BY <1>1, FS_Subset, FS_CardinalityType
<1>3. /\ order \in [1..m -> X] /\ \A x, y \in 1..m : x # y => order[x] # order[y]
      /\ \A x, y \in 1..Len(order) : x < y => Priority[order[x]] >= Priority[order[y]]
  BY DEF Sorted, SetToSeqs
<1> HIDE DEF X, m
<1>4. Len(order) = m
  BY <1>2, <1>3
<1>5. \A x, y \in 1..m : x < y => order[x] # order[y] /\ Priority[order[x]] >= Priority[order[y]]
  BY <1>2, <1>3, <1>4
<1>6. PICK at : /\ SelectVictims(p, n, order) = at[m].victims
                /\ at[0] = [copy |-> WithoutLower(p, n), victims |-> << >>]
                /\ \A i \in 1..m : at[i] = ReprievePod(p, n, at[i - 1], order[i])
  BY <1>2, <1>4, SelectRun
<1> DEFINE S == {i \in Nat : i <= m => Selecting(p, n, order, i, at[i])}
<1>7. 0 \in S
  BY <1>6, SelectingBegins
<1>8. ASSUME NEW i \in Nat, i \in S PROVE i + 1 \in S
  <2> SUFFICES ASSUME i + 1 <= m PROVE Selecting(p, n, order, i + 1, at[i + 1])
    OBVIOUS
  <2>1. i <= m /\ i + 1 \in 1..m /\ (i + 1) - 1 = i
    BY <1>2
  <2>2. at[i + 1] = ReprievePod(p, n, at[i], order[i + 1])
    BY <1>6, <2>1
  <2>3. Selecting(p, n, order, i, at[i])
    BY <1>8, <2>1
  <2> QED BY <1>2, <1>3, <1>5, <2>2, <2>3, SelectingGoesOn DEF X
<1> HIDE DEF S
<1>9. m \in S
  BY <1>2, <1>7, <1>8, Induction
<1>10. Selecting(p, n, order, m, at[m])
  BY <1>2, <1>9 DEF S
<1>11. Before(order, m) = X
  <2>1. IsFiniteSet(1..m) /\ Cardinality(1..m) = m
    BY <1>2, FS_Interval
  <2>2. order \in Injection(1..m, X)
    BY <1>3 DEF Injection, IsInjective
  <2>3. order \in Surjection(1..m, X)
    BY <1>2, <2>1, <2>2, FS_Injection DEF m
  <2> QED BY <1>3, <2>3 DEF Before, Surjection
<1> DEFINE v == at[m].victims
<1>12. /\ v \in Seq(X)
       /\ Kept(p, n, order, m, v) = R \ ToSet(v)
  <2>1. v \in Seq(X) /\ ToSet(v) \subseteq X
    BY <1>10, <1>11 DEF Selecting, X
  <2> QED BY <1>1, <1>11, <2>1 DEF Kept, X
<1> HIDE DEF v
<1>13. SelectVictims(p, n, order) = v
  BY <1>6 DEF v
<1> QED BY <1>10, <1>12, <1>13 DEF Selecting, v, X

\* What NodesToVictims chooses.
LEMMA ChosenVictims ==
    ASSUME IsFiniteSet(Pods), Types, NEW p \in Pods, NEW S \in SUBSET Nodes,
           NEW V \in NodesToVictims(p, S), NEW n \in DOMAIN V
    PROVE  LET R == RunningAndTerminating(n)
               kept == Total(R \ ToSet(V[n]))
           IN  /\ n \in Nodes /\ V[n] \in Seq(LowerOn(p, n)) /\ ToSet(V[n]) \subseteq LowerOn(p, n)
               /\ podFitsOnNode(p, n, kept)
               /\ R \cap Replacements = {} =>
                     \A q \in ToSet(V[n]) : ~podFitsOnNode(p, n, kept + Size[q])
               /\ \A x, y \in 1..Len(V[n]) : x < y =>
                     V[n][x] # V[n][y] /\ Priority[V[n][x]] >= Priority[V[n][y]]
<1> DEFINE C == Candidates(p, S)
           Vs == [k \in C |-> {SelectVictims(p, k, s) : s \in Sorted(LowerOn(p, k))}]
<1>1. V \in {f \in [C -> UNION {Vs[k] : k \in C}] : \A k \in C : f[k] \in Vs[k]}
  BY DEF NodesToVictims
<1>2. n \in C /\ V[n] \in Vs[n]
  <2> HIDE DEF C, Vs
  <2> QED BY <1>1
<1>3. PICK s \in Sorted(LowerOn(p, n)) : V[n] = SelectVictims(p, n, s)
  BY <1>2
<1>4. n \in Nodes /\ podFitsOnNode(p, n, WithoutLower(p, n))
  BY <1>2 DEF Candidates
<1>5. V[n] \in Seq(LowerOn(p, n))
  BY <1>3, <1>4, Selected
<1>6. ToSet(V[n]) \subseteq LowerOn(p, n)
  <2> DEFINE v == V[n]
             X == LowerOn(p, n)
  <2> HIDE DEF v, X
  <2>1. v \in Seq(X)
    BY <1>5 DEF v, X
  <2>2. ToSet(v) \subseteq X
    BY <2>1 DEF ToSet
  <2> QED BY <2>2 DEF v, X
<1> QED BY <1>3, <1>4, <1>5, <1>6, Selected

\* The node that is picked is one of them.
LEMMA Picked == \A V : pickOneNodeForPreemption(V) \subseteq DOMAIN V
<1>1. \A T, cost : Cheapest(T, cost) \subseteq T
  BY DEF Cheapest
<1> HIDE DEF Cheapest
<1> QED BY <1>1 DEF pickOneNodeForPreemption

-----------------------------------------------------------------------------
(* What the steps do.                                                      *)

\* The pending pod of one name changes.
Becomes(k, v) ==
    \A j \in Keys : inner'.items[j].pod = IF j = k THEN v ELSE inner.items[j].pod

LEMMA HeapStep ==
    ASSUME HeapRanked, NEW n, NEW k \in Keys, NEW v,
           Holds(inner', n, [Content(inner) EXCEPT ![k] = v], inner.comparator,
                 Ranked(inner.comparator))
    PROVE  HeapRanked' /\ Becomes(k, v)
<1>1. /\ Sound(inner') /\ Len(inner'.keys) = n /\ inner'.comparator = inner.comparator
      /\ Ordered(inner', n, Ranked(inner.comparator))
      /\ Content(inner') = [Content(inner) EXCEPT ![k] = v]
  BY DEF Holds
<1>2. HeapRanked'
  BY <1>1 DEF HeapRanked
<1>3. ASSUME NEW j \in Keys
      PROVE  inner'.items[j].pod = IF j = k THEN v ELSE inner.items[j].pod
  <2>1. Content(inner')[j] = IF j = k THEN v ELSE Content(inner)[j]
    BY <1>1 DEF Content
  <2> QED BY <2>1 DEF Content
<1> QED BY <1>2, <1>3 DEF Becomes

LEMMA HeapFacts ==
    ASSUME HeapRanked
    PROVE  /\ Sound(inner)
           /\ Orders(Ranked(inner.comparator), inner.comparator)
           /\ Ordered(inner, Len(inner.keys), Ranked(inner.comparator))
           /\ \A k \in Keys : (k \in Stored(inner)) <=> (Pending(k) # NoPod)
           /\ \A k \in Stored(inner) : /\ k \in Keys /\ Pending(k) \in Pods
                                       /\ KeyOf[Pending(k)] = k
                                       /\ inner.items[k].index \in Positions(inner)
                                       /\ inner.keys[inner.items[k].index] = k
<1>1. Sound(inner) /\ Orders(Ranked(inner.comparator), inner.comparator)
  BY RankedOrders DEF HeapRanked
<1>2. \A k \in Keys : (k \in Stored(inner)) <=> (Pending(k) # NoPod)
  BY <1>1, SoundFacts DEF Pending
<1>3. \A k \in Stored(inner) : /\ k \in Keys /\ Pending(k) \in Pods
                               /\ KeyOf[Pending(k)] = k
                               /\ inner.items[k].index \in Positions(inner)
                               /\ inner.keys[inner.items[k].index] = k
  BY <1>1, SoundFacts DEF Pending, Stored
<1> QED BY <1>1, <1>2, <1>3 DEF HeapRanked

\* The pod at the front.
LEMMA FrontIs ==
    ASSUME HeapRanked, inner.keys # << >>
    PROVE  /\ Len(inner.keys) # 0 /\ FrontPod \in Pods
           /\ KeyOf[FrontPod] \in Keys /\ inner.keys[1] = KeyOf[FrontPod]
           /\ Pending(KeyOf[FrontPod]) = FrontPod
<1>1. Sound(inner)
  BY DEF HeapRanked
<1> QED BY <1>1, FrontFacts DEF Stored

LEMMA SubmitStep ==
    ASSUME HeapRanked, Unplaced, NEW p \in Pods, Submit(p)
    PROVE  /\ HeapRanked' /\ KeyOf[p] \in Keys /\ Becomes(KeyOf[p], p)
           /\ Pending(KeyOf[p]) = NoPod /\ p \notin seen
<1>1. /\ KeyOf[p] \notin {KeyOf[q] : q \in seen} /\ KeyOf[p] # NoKey
      /\ inner' = HeapPush(inner, p)
  BY DEF Submit
<1>2. KeyOf[p] \in Keys /\ p \notin seen
  BY <1>1, KeyAssumption
<1>3. KeyOf[p] \notin Stored(inner)
  <2> SUFFICES ASSUME KeyOf[p] \in Stored(inner) PROVE FALSE
    OBVIOUS
  <2>1. Pending(KeyOf[p]) # NoPod /\ KeyOf[Pending(KeyOf[p])] = KeyOf[p]
    BY <1>2, HeapFacts
  <2>2. Pending(KeyOf[p]) \in seen
    BY <1>2, <2>1 DEF Unplaced
  <2> QED BY <1>1, <2>1, <2>2
<1>4. Holds(inner', Len(inner.keys) + 1, [Content(inner) EXCEPT ![KeyOf[p]] = p],
            inner.comparator, Ranked(inner.comparator))
  BY <1>1, <1>3, HeapFacts, HeapPushOK
<1> QED BY <1>2, <1>3, <1>4, HeapFacts, HeapStep

LEMMA DeleteEventStep ==
    ASSUME HeapRanked, NEW k \in Stored(inner), DeleteEvent(k)
    PROVE  HeapRanked' /\ k \in Keys /\ Becomes(k, NoPod)
<1> DEFINE i == inner.items[k].index
<1>1. inner' = HeapRemove(inner, i)
  BY DEF DeleteEvent
<1>2. k \in Keys /\ i \in Positions(inner) /\ inner.keys[i] = k
  BY HeapFacts
<1>3. Holds(inner', Len(inner.keys) - 1, [Content(inner) EXCEPT ![k] = NoPod],
            inner.comparator, Ranked(inner.comparator))
  BY <1>1, <1>2, HeapFacts, HeapRemoveOK
<1> QED BY <1>2, <1>3, HeapStep

LEMMA UpdateEventStep ==
    ASSUME HeapRanked, NEW p \in Pods, UpdateEvent(p)
    PROVE  /\ HeapRanked' /\ KeyOf[p] \in Stored(inner) /\ Becomes(KeyOf[p], p)
<1>1. /\ KeyOf[p] \in Stored(inner)
      /\ inner' = HeapFix([inner EXCEPT !.items[KeyOf[p]].pod = p],
                          inner.items[KeyOf[p]].index)
  BY DEF UpdateEvent
<1>2. Holds(inner', Len(inner.keys), [Content(inner) EXCEPT ![KeyOf[p]] = p],
            inner.comparator, Ranked(inner.comparator))
  BY <1>1, HeapFacts, HeapFixOK
<1> QED BY <1>1, <1>2, HeapFacts, HeapStep

LEMMA ScheduleOneStep ==
    ASSUME HeapRanked, NEW n \in Nodes, ScheduleOne(n)
    PROVE  HeapRanked' /\ Becomes(KeyOf[FrontPod], NoPod)
<1>1. inner' = HeapPop(inner) /\ inner.keys # << >>
  BY DEF ScheduleOne, Trying
<1>2. Holds(inner', Len(inner.keys) - 1, [Content(inner) EXCEPT ![KeyOf[FrontPod]] = NoPod],
            inner.comparator, Ranked(inner.comparator))
  BY <1>1, FrontIs, HeapFacts, HeapPopOK
<1> QED BY <1>1, <1>2, FrontIs, HeapStep

\* The outcomes of preemption.
LEMMA PreemptCases ==
    ASSUME IsFiniteSet(Pods), Types, NEW p \in Pods, PreemptOthers(p)
    PROVE  \/ NoPreemption(p)
           \/ ClearNomination(p)
           \/ /\ podEligibleToPreemptOthers(p)
              /\ \E n \in Nodes : \E X \in SUBSET LowerOn(p, n) :
                    podFitsOnNode(p, n, Total(RunningAndTerminating(n) \ X)) /\ EvictOn(p, n, X)
<1>1. CASE podEligibleToPreemptOthers(p)
           /\ \E S \in PotentialNodes(p) \ {{}} : \E V \in NodesToVictims(p, S) :
                 ~OutOfRange(V) /\ \E n \in pickOneNodeForPreemption(V) : EvictOn(p, n, ToSet(V[n]))
  <2>1. PICK S \in PotentialNodes(p) : \E V \in NodesToVictims(p, S) :
                 \E n \in pickOneNodeForPreemption(V) : EvictOn(p, n, ToSet(V[n]))
    BY <1>1
  <2>2. PICK V \in NodesToVictims(p, S) :
                 \E n \in pickOneNodeForPreemption(V) : EvictOn(p, n, ToSet(V[n]))
    BY <2>1
  <2>3. PICK n \in pickOneNodeForPreemption(V) : EvictOn(p, n, ToSet(V[n]))
    BY <2>2
  <2>4. S \in SUBSET Nodes
    BY <2>1 DEF PotentialNodes
  <2>5. n \in DOMAIN V
    BY <2>3, Picked
  <2>6. /\ n \in Nodes /\ ToSet(V[n]) \subseteq LowerOn(p, n)
        /\ podFitsOnNode(p, n, Total(RunningAndTerminating(n) \ ToSet(V[n])))
    BY <2>2, <2>4, <2>5, ChosenVictims
  <2> QED BY <1>1, <2>3, <2>6
<1> QED BY <1>1 DEF PreemptOthers

-----------------------------------------------------------------------------
(* Nominations.                                                            *)

LEMMA NominationOf ==
    ASSUME Types, NominationsLive, NEW n \in Nodes, NEW k \in Keys, nominatedPods[n][k] # NoPod
    PROVE  LET p == nominatedPods[n][k] IN
           /\ p \in Pods /\ KeyOf[p] = k /\ NominatedNodeName[p] = n
           /\ Pending(k) = p \/ p \in replaced
  BY DEF Types, NominationsLive

\* A pod that leaves the queue, or that preemption cannot help, loses its
\* nomination; the other pods stay.
LEMMA RemoveKeeps ==
    ASSUME Types, NominationsLive, NEW p \in Pods, RemoveNominatedNode(p),
           UNCHANGED replaced,
           \A k \in Keys : Pending(k)' = Pending(k) \/ Pending(k) = p
    PROVE  NominationsLive'
<1> SUFFICES ASSUME NEW n \in Nodes, NEW k \in Keys, nominatedPods'[n][k] # NoPod
             PROVE  /\ KeyOf[nominatedPods'[n][k]] = k
                    /\ NominatedNodeName'[nominatedPods'[n][k]] = n
                    /\ Pending(k)' = nominatedPods'[n][k] \/ nominatedPods'[n][k] \in replaced'
  BY DEF NominationsLive
<1> DEFINE q == nominatedPods[n][k]
<1>1. /\ nominatedPods \in [Nodes -> [Keys -> Pods \cup {NoPod}]]
      /\ NominatedNodeName \in [Pods -> Nodes \cup {NoNode}]
  BY DEF Types
<1>2. nominatedPods'[n] = IF n = NominatedNodeName[p]
                          THEN [nominatedPods[n] EXCEPT ![KeyOf[p]] = NoPod] ELSE nominatedPods[n]
  BY DEF RemoveNominatedNode, Unnominated
<1>3. nominatedPods'[n][k] = q /\ ~(n = NominatedNodeName[p] /\ k = KeyOf[p])
  BY <1>1, <1>2
<1>4. q \in Pods /\ KeyOf[q] = k /\ NominatedNodeName[q] = n /\ (Pending(k) = q \/ q \in replaced)
  BY <1>3, NominationOf
<1>5. q # p
  BY <1>3, <1>4
<1>6. NominatedNodeName'[q] = n
  BY <1>1, <1>4, <1>5 DEF RemoveNominatedNode
<1> QED BY <1>3, <1>4, <1>5, <1>6

\* Without a change to the nominations.
LEMMA NominationsKept ==
    ASSUME Types, NominationsLive, UNCHANGED nominations,
           \A n \in Nodes, k \in Keys : nominatedPods[n][k] # NoPod =>
              Pending(k)' = Pending(k) \/ Pending(k) \in replaced' \/ Pending(k) = NoPod,
           replaced \subseteq replaced'
    PROVE  NominationsLive'
<1> SUFFICES ASSUME NEW n \in Nodes, NEW k \in Keys, nominatedPods'[n][k] # NoPod
             PROVE  /\ KeyOf[nominatedPods'[n][k]] = k
                    /\ NominatedNodeName'[nominatedPods'[n][k]] = n
                    /\ Pending(k)' = nominatedPods'[n][k] \/ nominatedPods'[n][k] \in replaced'
  BY DEF NominationsLive
<1>1. nominatedPods' = nominatedPods /\ NominatedNodeName' = NominatedNodeName
  BY DEF nominations
<1>2. NoPod \notin Pods
  BY KeyAssumption
<1> QED BY <1>1, <1>2, NominationOf

\* Preemption nominates the pod and takes the nominations of less important ones.
LEMMA EvictEntries ==
    ASSUME Types, NEW p \in Pods, KeyOf[p] \in Keys, NEW n \in Nodes, NEW X, EvictOn(p, n, X),
           NEW m \in Nodes, NEW k \in Keys, nominatedPods'[m][k] # NoPod
    PROVE  LET L == {q \in NominatedPods(n) : Priority[q] < Priority[p]} IN
           \/ m = n /\ k = KeyOf[p] /\ nominatedPods'[m][k] = p
           \/ /\ nominatedPods'[m][k] = nominatedPods[m][k]
              /\ ~(m = NominatedNodeName[p] /\ k = KeyOf[p])
              /\ m = n => ~\E q \in L : KeyOf[q] = k
<1> DEFINE L == {q \in NominatedPods(n) : Priority[q] < Priority[p]}
           U == Unnominated(p)
           u == [U EXCEPT ![n][KeyOf[p]] = p]
<1>1. nominatedPods \in [Nodes -> [Keys -> Pods \cup {NoPod}]]
  BY DEF Types
<1>2. nominatedPods' = [UpdateNominatedNode(p, n) EXCEPT ![n] =
             [j \in Keys |-> IF \E q \in L : KeyOf[q] = j THEN NoPod ELSE @[j]]]
  BY DEF EvictOn
<1> HIDE DEF L
<1>3. /\ U = [j \in Nodes |-> IF j = NominatedNodeName[p]
                              THEN [nominatedPods[j] EXCEPT ![KeyOf[p]] = NoPod]
                              ELSE nominatedPods[j]]
      /\ U \in [Nodes -> [Keys -> Pods \cup {NoPod}]]
  BY <1>1 DEF Unnominated
<1>4. U[m][k] # NoPod =>
         U[m][k] = nominatedPods[m][k] /\ ~(m = NominatedNodeName[p] /\ k = KeyOf[p])
  BY <1>1, <1>3
<1> HIDE DEF U
<1>5. UpdateNominatedNode(p, n) = u
  BY DEF UpdateNominatedNode, U
<1>6. u[m][k] = IF m = n /\ k = KeyOf[p] THEN p ELSE U[m][k]
  BY <1>3
<1>7. u \in [Nodes -> [Keys -> Pods \cup {NoPod}]]
  BY <1>3
<1>8. nominatedPods'[m] = IF m = n THEN [j \in Keys |-> IF \E q \in L : KeyOf[q] = j
                                                        THEN NoPod ELSE u[n][j]]
                          ELSE u[m]
  <2> HIDE DEF u
  <2>1. nominatedPods' = [u EXCEPT ![n] = [j \in Keys |-> IF \E q \in L : KeyOf[q] = j
                                                          THEN NoPod ELSE u[n][j]]]
    BY <1>2, <1>5
  <2> QED BY <1>7, <2>1
<1> HIDE DEF u
<1>9. \/ m = n /\ k = KeyOf[p] /\ nominatedPods'[m][k] = p
      \/ nominatedPods'[m][k] = U[m][k] /\ (m = n => ~\E q \in L : KeyOf[q] = k)
  BY <1>6, <1>8
<1> QED BY <1>4, <1>9 DEF L

LEMMA EvictKeeps ==
    ASSUME Types, NominationsLive, NEW p \in Pods, KeyOf[p] \in Keys, Pending(KeyOf[p]) = p,
           NEW n \in Nodes, NEW X, EvictOn(p, n, X), UNCHANGED inner
    PROVE  NominationsLive'
<1> DEFINE L == {q \in NominatedPods(n) : Priority[q] < Priority[p]}
<1>1. /\ NominatedNodeName \in [Pods -> Nodes \cup {NoNode}]
      /\ replaced' = replaced
      /\ \A q \in Pods : Priority[q] \in Int
  BY PodAssumption DEF Types, EvictOn
<1>2. p \notin L
  BY <1>1
<1>3. \A q \in L : q \in Pods /\ NominatedNodeName[q] = n
  <2>1. \A q \in NominatedPods(n) : \E k \in Keys : q = nominatedPods[n][k] /\ q # NoPod
    BY DEF NominatedPods
  <2> QED BY <2>1, NominationOf
<1>4. NominatedNodeName' = [q \in Pods |-> IF q \in L THEN NoNode
                                          ELSE IF q = p THEN n ELSE NominatedNodeName[q]]
  BY DEF EvictOn
<1> SUFFICES ASSUME NEW m \in Nodes, NEW k \in Keys, nominatedPods'[m][k] # NoPod
             PROVE  /\ KeyOf[nominatedPods'[m][k]] = k
                    /\ NominatedNodeName'[nominatedPods'[m][k]] = m
                    /\ Pending(k) = nominatedPods'[m][k] \/ nominatedPods'[m][k] \in replaced
  BY <1>1 DEF NominationsLive, Pending
<1> DEFINE r == nominatedPods'[m][k]
<1>5. \/ m = n /\ k = KeyOf[p] /\ r = p
      \/ r = nominatedPods[m][k] /\ ~(m = NominatedNodeName[p] /\ k = KeyOf[p])
         /\ (m = n => ~\E q \in L : KeyOf[q] = k)
  BY EvictEntries
<1> HIDE DEF L
<1>6. CASE m = n /\ k = KeyOf[p] /\ r = p
  BY <1>2, <1>4, <1>6
<1>7. CASE r = nominatedPods[m][k] /\ ~(m = NominatedNodeName[p] /\ k = KeyOf[p])
           /\ (m = n => ~\E q \in L : KeyOf[q] = k)
  <2>1. r \in Pods /\ KeyOf[r] = k /\ NominatedNodeName[r] = m /\ (Pending(k) = r \/ r \in replaced)
    BY <1>7, NominationOf
  <2>2. r # p
    BY <1>7, <2>1
  <2>3. r \notin L
    BY <1>3, <1>7, <2>1
  <2>4. NominatedNodeName'[r] = m
    BY <1>4, <2>1, <2>2, <2>3
  <2> QED BY <2>1, <2>4
<1> QED BY <1>5, <1>6, <1>7

-----------------------------------------------------------------------------
(* The steps keep the invariant.                                           *)

\* The times of the next tick.
LEMMA TickTypes ==
    ASSUME Types, NEW t \in [Pods -> 0..MaxTime], NextTick(t)
    PROVE  time' \in [Pods -> 0..MaxTime] /\ clock' \in 1..MaxTime /\ pc' = "submit"
<1>1. MaxTime \in Nat /\ clock \in 1..MaxTime /\ clock < MaxTime /\ clock' = clock + 1
  BY PodAssumption DEF Types, NextTick
<1>2. time' = [p \in Pods |-> IF p \in seen \cup Replacements THEN t[p] ELSE clock + 1]
  BY DEF NextTick, AtNextTick
<1>3. clock + 1 \in 0..MaxTime /\ clock + 1 \in 1..MaxTime
  BY <1>1
<1> QED BY <1>1, <1>2, <1>3 DEF NextTick

LEMMA DeletePodsTypes ==
    ASSUME Types, NEW D, DeletePods(D)
    PROVE  /\ deletedAt' \in [Pods -> -1..MaxTime]
           /\ \A p \in Pods : deletedAt[p] # Never => deletedAt'[p] = deletedAt[p]
           /\ \A p \in Pods : deletedAt'[p] # Never =>
                 deletedAt[p] # Never \/ (p \in D /\ host[p] # NoNode)
           /\ \A p \in D \cap Pods : IsRunning(p) => deletedAt'[p] # Never
<1>1. /\ MaxTime \in Nat /\ clock \in 1..MaxTime /\ deletedAt \in [Pods -> -1..MaxTime]
      /\ deletedAt' = [p \in Pods |-> IF p \in D /\ IsRunning(p) THEN clock ELSE deletedAt[p]]
  BY PodAssumption DEF Types, DeletePods
<1>2. \A p \in Pods : IsRunning(p) => deletedAt[p] = Never /\ host[p] # NoNode
  BY DEF IsRunning
<1>3. clock \in -1..MaxTime /\ clock # Never
  BY <1>1 DEF Never
<1> QED BY <1>1, <1>2, <1>3

LEMMA EvictTypes ==
    ASSUME Types, NEW p \in Pods, KeyOf[p] \in Keys, NEW n \in Nodes,
           NEW X \in SUBSET LowerOn(p, n), EvictOn(p, n, X)
    PROVE  /\ nominatedPods' \in [Nodes -> [Keys -> Pods \cup {NoPod}]]
           /\ NominatedNodeName' \in [Pods -> Nodes \cup {NoNode}]
           /\ deletedAt' \in [Pods -> -1..MaxTime]
           /\ victimsOf' \in [Pods -> SUBSET Pods] /\ intruded' \in SUBSET Pods
           /\ UNCHANGED <<host, boundAt, replaced>>
<1> DEFINE L == {q \in NominatedPods(n) : Priority[q] < Priority[p]}
           u == UpdateNominatedNode(p, n)
<1>1. u \in [Nodes -> [Keys -> Pods \cup {NoPod}]]
  <2>1. Unnominated(p) \in [Nodes -> [Keys -> Pods \cup {NoPod}]]
    BY DEF Types, Unnominated
  <2> HIDE DEF u
  <2> QED BY <2>1 DEF u, UpdateNominatedNode
<1>2. nominatedPods' = [u EXCEPT ![n] =
             [k \in Keys |-> IF \E q \in L : KeyOf[q] = k THEN NoPod ELSE u[n][k]]]
  <2> HIDE DEF u
  <2> QED BY <1>1 DEF EvictOn, u
<1>3. nominatedPods' \in [Nodes -> [Keys -> Pods \cup {NoPod}]]
  <2> HIDE DEF u, L
  <2> QED BY <1>1, <1>2
<1>4. X \subseteq Pods
  BY DEF LowerOn, RunningAndTerminating
<1>5. victimsOf' \in [Pods -> SUBSET Pods]
  <2>1. victimsOf' = [q \in Pods |-> IF q \in L THEN {}
                                    ELSE IF q = p THEN victimsOf[p] \cup X ELSE victimsOf[q]]
    BY DEF EvictOn
  <2> HIDE DEF L
  <2> QED BY <1>4, <2>1 DEF Types
<1>6. NominatedNodeName' \in [Pods -> Nodes \cup {NoNode}]
  <2>1. NominatedNodeName' = [q \in Pods |-> IF q \in L THEN NoNode
                                            ELSE IF q = p THEN n ELSE NominatedNodeName[q]]
    BY DEF EvictOn
  <2> HIDE DEF L
  <2> QED BY <2>1 DEF Types
<1>7. deletedAt' \in [Pods -> -1..MaxTime]
  BY DeletePodsTypes DEF EvictOn
<1> QED BY <1>3, <1>5, <1>6, <1>7 DEF EvictOn, Types

LEMMA NextTypes == IsFiniteSet(Pods) /\ PInv /\ [PNext]_pvars => Types'
<1> SUFFICES ASSUME IsFiniteSet(Pods), PInv, [PNext]_pvars PROVE Types'
  OBVIOUS
<1>0. HeapRanked /\ Types /\ Unplaced
  BY DEF PInv
<1>a. MaxTime \in Nat
  BY PodAssumption
<1>1. ASSUME NEW p \in Pods, Submit(p) PROVE Types'
  BY <1>0, <1>1 DEF Submit, Types, nominations, podVars, history
<1>2. ASSUME NEW k \in Deleted, DeleteEvent(k) PROVE Types'
  <2>1. CASE k \in Stored(inner)
    <3>1. Pending(k) \in Pods
      BY <1>0, <2>1, HeapFacts
    <3>2. /\ RemoveNominatedNode(Pending(k))
          /\ victimsOf' = [victimsOf EXCEPT ![Pending(k)] = {}]
          /\ intruded' = intruded \ {Pending(k)}
          /\ UNCHANGED <<podVars, replaced, time, pc, clock, seen>>
      BY <1>2, <2>1 DEF DeleteEvent
    <3>3. /\ nominatedPods' \in [Nodes -> [Keys -> Pods \cup {NoPod}]]
          /\ NominatedNodeName' \in [Pods -> Nodes \cup {NoNode}]
      BY <1>0, <3>1, <3>2, NominationTypes DEF Types
    <3> QED BY <1>0, <3>2, <3>3 DEF Types, podVars
  <2>2. CASE k \notin Stored(inner)
    <3>1. DeletePods({p \in Pods : KeyOf[p] = k})
      BY <1>2, <2>2 DEF DeleteEvent
    <3>2. deletedAt' \in [Pods -> -1..MaxTime]
      BY <1>0, <3>1, DeletePodsTypes
    <3> QED BY <1>0, <1>2, <2>2, <3>2 DEF DeleteEvent, Types, nominations, history
  <2> QED BY <2>1, <2>2
<1>3. ASSUME NEW p \in Pods, UpdateEvent(p) PROVE Types'
  <2>1. Pending(KeyOf[p]) \in Pods
    BY <1>0, <1>3, UpdateEventStep, HeapFacts
  <2> QED BY <1>0, <1>3, <2>1 DEF UpdateEvent, Types, nominations, podVars
<1>4. CASE StartPass
  BY <1>0, <1>4 DEF StartPass, Types, vars, nominations, podVars, history
<1>5. ASSUME NEW n \in Nodes, ScheduleOne(n) PROVE Types'
  <2>1. FrontPod \in Pods
    BY <1>0, <1>5, FrontIs DEF ScheduleOne, Trying
  <2>2. /\ RemoveNominatedNode(FrontPod)
        /\ host' = [host EXCEPT ![FrontPod] = n]
        /\ boundAt' = [boundAt EXCEPT ![FrontPod] = clock]
        /\ victimsOf' = [victimsOf EXCEPT ![FrontPod] = {}]
        /\ intruded' = (intruded \ {FrontPod})
                         \cup {q \in NominatedPods(n) : Priority[q] < Priority[FrontPod]}
        /\ UNCHANGED <<time, pc, clock, deletedAt, seen, replaced>>
    BY <1>5 DEF ScheduleOne
  <2>3. /\ nominatedPods' \in [Nodes -> [Keys -> Pods \cup {NoPod}]]
        /\ NominatedNodeName' \in [Pods -> Nodes \cup {NoNode}]
    BY <1>0, <2>1, <2>2, NominationTypes DEF Types
  <2>4. NominatedPods(n) \subseteq Pods
    BY <1>0 DEF NominatedPods, Types
  <2>5. clock \in 0..MaxTime
    BY <1>0, <1>a DEF Types
  <2> QED BY <1>0, <2>1, <2>2, <2>3, <2>4, <2>5 DEF Types
<1>6. CASE QueueExhausted
  <2>1. time' \in [Pods -> 0..MaxTime] /\ clock' \in 1..MaxTime /\ pc' = "submit"
    BY <1>0, <1>6, TickTypes DEF QueueExhausted, Types
  <2> QED BY <1>0, <1>6, <2>1 DEF QueueExhausted, Types, nominations, podVars, history
<1>7. CASE Preempt
  <2> DEFINE p == FrontPod
  <2>1. p \in Pods /\ KeyOf[p] \in Keys
    BY <1>0, <1>7, FrontIs DEF Preempt, FitError, Trying
  <2>2. SchedulingFailure(p, clock) \in [Pods -> 0..MaxTime]
    <3>1. clock \in 0..MaxTime
      BY <1>0, <1>a DEF Types
    <3> QED BY <1>0, <2>1, <3>1 DEF SchedulingFailure, Types
  <2>3. time' \in [Pods -> 0..MaxTime] /\ clock' \in 1..MaxTime /\ pc' = "submit"
    BY <1>0, <1>7, <2>2, TickTypes DEF Preempt
  <2>4. seen' = seen /\ PreemptOthers(p)
    BY <1>7 DEF Preempt
  <2> HIDE DEF p
  <2>5. CASE NoPreemption(p)
    BY <1>0, <2>3, <2>4, <2>5 DEF NoPreemption, Types, nominations, podVars, history
  <2>6. CASE ClearNomination(p)
    <3>1. /\ nominatedPods' \in [Nodes -> [Keys -> Pods \cup {NoPod}]]
          /\ NominatedNodeName' \in [Pods -> Nodes \cup {NoNode}]
      BY <1>0, <2>1, <2>6, NominationTypes DEF Types, ClearNomination
    <3> QED BY <1>0, <2>3, <2>4, <2>6, <3>1 DEF ClearNomination, Types, podVars
  <2>7. ASSUME NEW n \in Nodes, NEW X \in SUBSET LowerOn(p, n), EvictOn(p, n, X) PROVE Types'
    BY <1>0, <2>1, <2>3, <2>4, <2>7, EvictTypes DEF Types
  <2> QED BY <1>0, <2>1, <2>4, <2>5, <2>6, <2>7, PreemptCases
<1>8. CASE PreemptPanics
  <2>1. FrontPod \in Pods /\ clock \in 0..MaxTime
    BY <1>0, <1>8, <1>a, FrontIs DEF PreemptPanics, FitError, Trying, Types
  <2>2. time' \in [Pods -> 0..MaxTime]
    BY <1>0, <1>8, <2>1 DEF PreemptPanics, SchedulingFailure, Types
  <2> QED BY <1>0, <1>8, <2>2 DEF PreemptPanics, Types, nominations, podVars, history
<1>9. CASE UNCHANGED pvars
  BY <1>0, <1>9 DEF pvars, Types, vars, nominations, podVars, history
<1> QED BY <1>1, <1>2, <1>3, <1>4, <1>5, <1>6, <1>7, <1>8, <1>9 DEF PNext

LEMMA NextHeap == PInv /\ [PNext]_pvars => HeapRanked'
<1> SUFFICES ASSUME PInv, [PNext]_pvars PROVE HeapRanked'
  OBVIOUS
<1>0. HeapRanked /\ Unplaced
  BY DEF PInv
<1>1. UNCHANGED inner => HeapRanked'
  BY <1>0 DEF HeapRanked
<1>2. ASSUME NEW k \in Deleted, DeleteEvent(k) PROVE HeapRanked'
  <2>1. CASE k \in Stored(inner)
    BY <1>0, <1>2, <2>1, DeleteEventStep
  <2>2. CASE k \notin Stored(inner)
    BY <1>1, <1>2, <2>2 DEF DeleteEvent
  <2> QED BY <2>1, <2>2
<1>3. ASSUME StartPass \/ QueueExhausted \/ Preempt \/ PreemptPanics \/ UNCHANGED pvars
      PROVE  UNCHANGED inner
  BY <1>3 DEF StartPass, QueueExhausted, Preempt, PreemptPanics, pvars, vars
<1> QED BY <1>0, <1>1, <1>2, <1>3, SubmitStep, UpdateEventStep, ScheduleOneStep DEF PNext

\* What each step does to the pending pods and to the pods on the nodes.
Arrives(p) == /\ p \in Pods \ seen /\ KeyOf[p] \in Keys /\ Becomes(KeyOf[p], p)
              /\ seen' = seen \cup {p} /\ UNCHANGED <<host, deletedAt, clock>>

Leaves(p, n) == /\ p \in Pods /\ KeyOf[p] \in Keys /\ Pending(KeyOf[p]) = p
                /\ Becomes(KeyOf[p], NoPod)
                /\ host' = [host EXCEPT ![p] = n] /\ UNCHANGED <<seen, deletedAt, clock>>

Stays == /\ \A k \in Keys : Pending(k)' = Pending(k)
         /\ clock' >= clock /\ UNCHANGED <<host, seen>>
         /\ \A p \in Pods : deletedAt[p] # Never => deletedAt'[p] = deletedAt[p]
         /\ \A p \in Pods : deletedAt'[p] # Never => deletedAt[p] # Never \/ host[p] # NoNode

LEMMA StepCases ==
    ASSUME IsFiniteSet(Pods), PInv, [PNext]_pvars
    PROVE  \/ Stays
           \/ \E p \in Pods : Arrives(p)
           \/ \E p \in Pods, n \in Nodes \cup {NoNode} : Leaves(p, n)
<1>0. HeapRanked /\ Types /\ Unplaced
  BY DEF PInv
<1>a. clock \in Int
  BY <1>0 DEF Types
<1>b. UNCHANGED <<inner, clock, host, deletedAt, seen>> => Stays
  BY <1>a DEF Stays, Pending
<1>1. ASSUME NEW p \in Pods, Submit(p) PROVE Arrives(p)
  BY <1>0, <1>1, SubmitStep DEF Submit, Arrives, podVars
<1>2. ASSUME NEW k \in Deleted, DeleteEvent(k)
      PROVE  Stays \/ \E p \in Pods, n \in Nodes \cup {NoNode} : Leaves(p, n)
  <2>1. CASE k \in Stored(inner)
    <3>1. Pending(k) \in Pods /\ KeyOf[Pending(k)] = k /\ k \in Keys /\ Becomes(k, NoPod)
      BY <1>0, <1>2, <2>1, HeapFacts, DeleteEventStep
    <3>2. Pending(k) # NoPod
      BY <3>1, KeyAssumption
    <3>3. host[Pending(k)] = NoNode
      BY <1>0, <3>1, <3>2 DEF Unplaced
    <3>4. host' = host /\ host \in [Pods -> Nodes \cup {NoNode}] /\ UNCHANGED <<seen, deletedAt, clock>>
      BY <1>0, <1>2, <2>1 DEF DeleteEvent, podVars, Types
    <3>5. host' = [host EXCEPT ![Pending(k)] = NoNode]
      BY <3>1, <3>3, <3>4
    <3>6. Leaves(Pending(k), NoNode)
      BY <3>1, <3>4, <3>5 DEF Leaves
    <3> QED BY <3>1, <3>6
  <2>2. CASE k \notin Stored(inner)
    <3>1. /\ DeletePods({p \in Pods : KeyOf[p] = k})
          /\ UNCHANGED <<inner, clock, host, seen>>
      BY <1>2, <2>2 DEF DeleteEvent
    <3>2. /\ \A p \in Pods : deletedAt[p] # Never => deletedAt'[p] = deletedAt[p]
          /\ \A p \in Pods : deletedAt'[p] # Never => deletedAt[p] # Never \/ host[p] # NoNode
      BY <1>0, <3>1, DeletePodsTypes
    <3> QED BY <1>a, <3>1, <3>2 DEF Stays, Pending
  <2> QED BY <2>1, <2>2
<1>3. ASSUME NEW p \in Pods, UpdateEvent(p) PROVE Arrives(p)
  <2>1. KeyOf[p] \in Stored(inner) /\ Becomes(KeyOf[p], p)
    BY <1>0, <1>3, UpdateEventStep
  <2>2. KeyOf[p] \in Keys
    BY <2>1 DEF Stored
  <2> QED BY <1>3, <2>1, <2>2 DEF UpdateEvent, Arrives, podVars
<1>4. CASE StartPass \/ PreemptPanics
  BY <1>4, <1>b DEF StartPass, PreemptPanics, vars, podVars
<1>5. ASSUME NEW n \in Nodes, ScheduleOne(n) PROVE Leaves(FrontPod, n)
  BY <1>0, <1>5, FrontIs, ScheduleOneStep DEF ScheduleOne, Trying, Leaves
<1>6. CASE QueueExhausted
  <2>1. clock' >= clock /\ UNCHANGED <<inner, host, deletedAt, seen>>
    BY <1>6, <1>a DEF QueueExhausted, NextTick, podVars
  <2> QED BY <2>1 DEF Stays, Pending
<1>7. CASE Preempt
  <2> DEFINE p == FrontPod
  <2>0. p \in Pods
    BY <1>0, <1>7, FrontIs DEF Preempt, FitError, Trying
  <2>1. clock' >= clock /\ UNCHANGED <<inner, seen>> /\ PreemptOthers(p)
    BY <1>7, <1>a DEF Preempt, NextTick
  <2>2. NoPreemption(p) \/ ClearNomination(p) => Stays
    BY <2>1 DEF NoPreemption, ClearNomination, podVars, Stays, Pending
  <2>3. ASSUME NEW n, NEW X, EvictOn(p, n, X) PROVE Stays
    <3>1. DeletePods(X) /\ UNCHANGED host
      BY <2>3 DEF EvictOn
    <3>2. /\ \A q \in Pods : deletedAt[q] # Never => deletedAt'[q] = deletedAt[q]
          /\ \A q \in Pods : deletedAt'[q] # Never => deletedAt[q] # Never \/ host[q] # NoNode
      BY <1>0, <3>1, DeletePodsTypes
    <3> QED BY <2>1, <3>1, <3>2 DEF Stays, Pending
  <2> QED BY <1>0, <2>0, <2>1, <2>2, <2>3, PreemptCases
<1>8. CASE UNCHANGED pvars
  BY <1>8, <1>b DEF pvars, vars, podVars
<1>9. ASSUME NEW n \in Nodes, ScheduleOne(n)
      PROVE  \E p \in Pods, m \in Nodes \cup {NoNode} : Leaves(p, m)
  <2>1. Leaves(FrontPod, n) /\ FrontPod \in Pods
    BY <1>5, <1>9 DEF Leaves
  <2> QED BY <2>1
<1> QED BY <1>1, <1>2, <1>3, <1>4, <1>6, <1>7, <1>8, <1>9 DEF PNext

LEMMA NextUnplaced == IsFiniteSet(Pods) /\ PInv /\ [PNext]_pvars => Unplaced'
<1> SUFFICES ASSUME IsFiniteSet(Pods), PInv, [PNext]_pvars PROVE Unplaced'
  OBVIOUS
<1>0. HeapRanked /\ Types /\ Unplaced
  BY DEF PInv
<1>a. host \in [Pods -> Nodes \cup {NoNode}] /\ seen \in SUBSET Pods
  BY <1>0 DEF Types
<1>b. \A k \in Keys : Pending(k) # NoPod => Pending(k) \in Pods /\ KeyOf[Pending(k)] = k
  BY <1>0, HeapFacts
<1>1. CASE Stays
  BY <1>0, <1>1 DEF Unplaced, Stays
<1>2. ASSUME NEW p \in Pods, Arrives(p) PROVE Unplaced'
  <2>1. \A k \in Keys : Pending(k)' = IF k = KeyOf[p] THEN p ELSE Pending(k)
    BY <1>2 DEF Arrives, Becomes, Pending
  <2>2. host[p] = NoNode /\ p \in seen' /\ seen' = seen \cup {p} /\ UNCHANGED <<host, deletedAt>>
    BY <1>0, <1>2 DEF Arrives, Unplaced
  <2> QED BY <1>0, <2>1, <2>2 DEF Unplaced
<1>3. ASSUME NEW p \in Pods, NEW n \in Nodes \cup {NoNode}, Leaves(p, n) PROVE Unplaced'
  <2>1. \A k \in Keys : Pending(k)' = IF k = KeyOf[p] THEN NoPod ELSE Pending(k)
    BY <1>3 DEF Leaves, Becomes, Pending
  <2>2. /\ KeyOf[p] \in Keys /\ Pending(KeyOf[p]) = p /\ p # NoPod
        /\ host' = [host EXCEPT ![p] = n] /\ UNCHANGED <<seen, deletedAt>>
    BY <1>3, KeyAssumption DEF Leaves
  <2>3. p \in seen /\ host[p] = NoNode
    BY <1>0, <2>2 DEF Unplaced
  <2>4. ASSUME NEW k \in Keys, Pending(k)' # NoPod
        PROVE  Pending(k)' \in seen' /\ host'[Pending(k)'] = NoNode
    <3>1. k # KeyOf[p] /\ Pending(k)' = Pending(k) /\ Pending(k) # NoPod
      BY <2>1, <2>4
    <3>2. Pending(k) \in Pods /\ Pending(k) # p
      BY <1>b, <3>1
    <3> QED BY <1>0, <1>a, <2>2, <3>1, <3>2 DEF Unplaced
  <2>5. \A q \in Pods : q \notin seen' => host'[q] = NoNode
    BY <1>0, <1>a, <2>2, <2>3 DEF Unplaced
  <2>6. \A q \in Pods : deletedAt'[q] # Never => host'[q] # NoNode
    BY <1>0, <1>a, <2>2, <2>3 DEF Unplaced
  <2> QED BY <2>4, <2>5, <2>6 DEF Unplaced
<1> QED BY <1>1, <1>2, <1>3, StepCases

LEMMA NextNominations == IsFiniteSet(Pods) /\ PInv /\ [PNext]_pvars => NominationsLive'
<1> SUFFICES ASSUME IsFiniteSet(Pods), PInv, [PNext]_pvars PROVE NominationsLive'
  OBVIOUS
<1>0. HeapRanked /\ Types /\ Unplaced /\ NominationsLive
  BY DEF PInv
<1>a. UNCHANGED <<inner, nominations, replaced>> => NominationsLive'
  BY <1>0, NominationsKept DEF Pending
<1>1. ASSUME NEW p \in Pods, Submit(p) PROVE NominationsLive'
  <2>1. \A k \in Keys : Pending(k)' = IF k = KeyOf[p] THEN p ELSE Pending(k)
    BY <1>0, <1>1, SubmitStep DEF Becomes, Pending
  <2>2. Pending(KeyOf[p]) = NoPod
    BY <1>0, <1>1, SubmitStep
  <2>3. UNCHANGED nominations /\ replaced \subseteq replaced'
    BY <1>1 DEF Submit, history
  <2> QED BY <1>0, <2>1, <2>2, <2>3, NominationsKept
<1>2. ASSUME NEW k \in Deleted, DeleteEvent(k) PROVE NominationsLive'
  <2>1. CASE k \in Stored(inner)
    <3>1. Pending(k) \in Pods /\ KeyOf[Pending(k)] = k /\ Becomes(k, NoPod)
      BY <1>0, <1>2, <2>1, HeapFacts, DeleteEventStep
    <3>2. RemoveNominatedNode(Pending(k)) /\ UNCHANGED replaced
      BY <1>2, <2>1 DEF DeleteEvent
    <3>3. \A j \in Keys : Pending(j)' = Pending(j) \/ Pending(j) = Pending(k)
      BY <3>1 DEF Becomes, Pending
    <3> QED BY <1>0, <3>1, <3>2, <3>3, RemoveKeeps
  <2>2. CASE k \notin Stored(inner)
    BY <1>2, <1>a, <2>2 DEF DeleteEvent, history
  <2> QED BY <2>1, <2>2
<1>3. ASSUME NEW p \in Pods, UpdateEvent(p) PROVE NominationsLive'
  <2>1. \A k \in Keys : Pending(k)' = IF k = KeyOf[p] THEN p ELSE Pending(k)
    BY <1>0, <1>3, UpdateEventStep DEF Becomes, Pending
  <2>2. UNCHANGED nominations /\ replaced' = replaced \cup {Pending(KeyOf[p])}
    BY <1>3 DEF UpdateEvent
  <2> QED BY <1>0, <2>1, <2>2, NominationsKept
<1>4. CASE StartPass \/ QueueExhausted \/ PreemptPanics
  BY <1>4, <1>a DEF StartPass, QueueExhausted, PreemptPanics, vars, history
<1>5. ASSUME NEW n \in Nodes, ScheduleOne(n) PROVE NominationsLive'
  <2>1. FrontPod \in Pods /\ Pending(KeyOf[FrontPod]) = FrontPod
    BY <1>0, <1>5, FrontIs DEF ScheduleOne, Trying
  <2>2. RemoveNominatedNode(FrontPod) /\ UNCHANGED replaced
    BY <1>5 DEF ScheduleOne
  <2>3. \A k \in Keys : Pending(k)' = Pending(k) \/ Pending(k) = FrontPod
    BY <1>0, <1>5, <2>1, ScheduleOneStep DEF Becomes, Pending
  <2> QED BY <1>0, <2>1, <2>2, <2>3, RemoveKeeps
<1>6. CASE Preempt
  <2> DEFINE p == FrontPod
  <2>1. p \in Pods /\ KeyOf[p] \in Keys /\ Pending(KeyOf[p]) = p
    BY <1>0, <1>6, FrontIs DEF Preempt, FitError, Trying
  <2>2. UNCHANGED inner /\ PreemptOthers(p)
    BY <1>6 DEF Preempt
  <2> HIDE DEF p
  <2>3. CASE NoPreemption(p)
    BY <1>a, <2>2, <2>3 DEF NoPreemption, history
  <2>4. CASE ClearNomination(p)
    <3>1. \A k \in Keys : Pending(k)' = Pending(k)
      BY <2>2 DEF Pending
    <3> QED BY <1>0, <2>1, <2>4, <3>1, RemoveKeeps DEF ClearNomination
  <2>5. ASSUME NEW n \in Nodes, NEW X, EvictOn(p, n, X) PROVE NominationsLive'
    BY <1>0, <2>1, <2>2, <2>5, EvictKeeps
  <2> QED BY <1>0, <2>1, <2>2, <2>3, <2>4, <2>5, PreemptCases
<1>7. CASE UNCHANGED pvars
  BY <1>7, <1>a DEF pvars, vars, history
<1> QED BY <1>1, <1>2, <1>3, <1>4, <1>5, <1>6, <1>7 DEF PNext

\* No pod begins to terminate again.
LEMMA StillTerminating ==
    ASSUME IsFiniteSet(Pods), PInv, [PNext]_pvars, NEW q \in Pods, deletedAt[q] # Never,
           IsTerminating(q)'
    PROVE  IsTerminating(q) /\ host'[q] = host[q]
<1>0. Types /\ Unplaced
  BY DEF PInv
<1>1. host[q] # NoNode
  BY <1>0 DEF Unplaced
<1>2. clock' >= clock /\ deletedAt'[q] = deletedAt[q]
  <2>1. clock \in Int
    BY <1>0 DEF Types
  <2> QED BY <2>1, StepCases DEF Stays, Arrives, Leaves
<1>3. IsTerminating(q)
  <2>1. clock' - deletedAt[q] < Grace[q] /\ Grace[q] \in Nat /\ clock \in Int /\ deletedAt[q] \in Int
    BY <1>0, <1>2, LifeAssumption DEF IsTerminating, Types
  <2>2. clock' \in Int
    BY NextTypes DEF Types
  <2> QED BY <1>2, <2>1, <2>2 DEF IsTerminating
<1>4. host'[q] = host[q]
  <2>1. ASSUME NEW p \in Pods, NEW n \in Nodes \cup {NoNode}, Leaves(p, n) PROVE host'[q] = host[q]
    <3>1. KeyOf[p] \in Keys /\ Pending(KeyOf[p]) = p /\ p # NoPod /\ host' = [host EXCEPT ![p] = n]
      BY <2>1, KeyAssumption DEF Leaves
    <3>2. host[p] = NoNode
      BY <1>0, <3>1 DEF Unplaced
    <3> QED BY <1>0, <1>1, <3>1, <3>2 DEF Types
  <2> QED BY <2>1, StepCases DEF Stays, Arrives
<1> QED BY <1>3, <1>4

LEMMA NextEvicted == IsFiniteSet(Pods) /\ PInv /\ [PNext]_pvars => Evicted'
<1> SUFFICES ASSUME IsFiniteSet(Pods), PInv, [PNext]_pvars,
                    NEW p \in Pods, NEW q \in victimsOf'[p]
             PROVE  /\ Priority[q] < Priority[p] /\ deletedAt'[q] # Never
                    /\ IsTerminating(q)' => host'[q] = NominatedNodeName'[p]
  BY DEF Evicted
<1>0. HeapRanked /\ Types /\ Unplaced /\ NominationsLive /\ Evicted
  BY DEF PInv
<1>a. /\ victimsOf \in [Pods -> SUBSET Pods]
      /\ NominatedNodeName \in [Pods -> Nodes \cup {NoNode}]
      /\ host \in [Pods -> Nodes \cup {NoNode}]
  BY <1>0 DEF Types
<1>b. ASSUME q \in victimsOf[p], NominatedNodeName'[p] = NominatedNodeName[p]
      PROVE  /\ Priority[q] < Priority[p] /\ deletedAt'[q] # Never
             /\ IsTerminating(q)' => host'[q] = NominatedNodeName'[p]
  <2>1. /\ q \in Pods /\ Priority[q] < Priority[p] /\ deletedAt[q] # Never
        /\ IsTerminating(q) => host[q] = NominatedNodeName[p]
    BY <1>0, <1>a, <1>b DEF Evicted
  <2>2. deletedAt'[q] # Never
    BY <2>1, StepCases DEF Stays, Arrives, Leaves
  <2>3. IsTerminating(q)' => IsTerminating(q) /\ host'[q] = host[q]
    BY <2>1, StillTerminating
  <2> QED BY <1>b, <2>1, <2>2, <2>3
<1>c. UNCHANGED <<victimsOf, NominatedNodeName>>
         => /\ Priority[q] < Priority[p] /\ deletedAt'[q] # Never
            /\ IsTerminating(q)' => host'[q] = NominatedNodeName'[p]
  BY <1>b
<1>d. ASSUME NEW r \in Pods, RemoveNominatedNode(r),
             victimsOf' = [victimsOf EXCEPT ![r] = {}]
      PROVE  /\ Priority[q] < Priority[p] /\ deletedAt'[q] # Never
             /\ IsTerminating(q)' => host'[q] = NominatedNodeName'[p]
  <2>1. p # r /\ q \in victimsOf[p]
    BY <1>a, <1>d
  <2>2. NominatedNodeName'[p] = NominatedNodeName[p]
    BY <1>a, <1>d, <2>1 DEF RemoveNominatedNode
  <2> QED BY <1>b, <2>1, <2>2
<1> DEFINE Goal == /\ Priority[q] < Priority[p] /\ deletedAt'[q] # Never
                   /\ IsTerminating(q)' => host'[q] = NominatedNodeName'[p]
<1>1. ASSUME NEW r \in Pods, Submit(r) PROVE Goal
  BY <1>1, <1>c DEF Submit, nominations, history
<1>2. ASSUME NEW k \in Deleted, DeleteEvent(k) PROVE Goal
  <2>1. CASE k \in Stored(inner)
    <3>1. Pending(k) \in Pods
      BY <1>0, <2>1, HeapFacts
    <3> QED BY <1>2, <1>d, <2>1, <3>1 DEF DeleteEvent
  <2>2. CASE k \notin Stored(inner)
    BY <1>2, <1>c, <2>2 DEF DeleteEvent, nominations, history
  <2> QED BY <2>1, <2>2
<1>3. ASSUME NEW r \in Pods, UpdateEvent(r) PROVE Goal
  BY <1>3, <1>c DEF UpdateEvent, nominations
<1>4. CASE StartPass \/ QueueExhausted \/ PreemptPanics
  BY <1>4, <1>c DEF StartPass, QueueExhausted, PreemptPanics, vars, nominations, history
<1>5. ASSUME NEW n \in Nodes, ScheduleOne(n) PROVE Goal
  <2>1. FrontPod \in Pods
    BY <1>0, <1>5, FrontIs DEF ScheduleOne, Trying
  <2> QED BY <1>5, <1>d, <2>1 DEF ScheduleOne
<1>6. CASE Preempt
  <2> DEFINE r == FrontPod
  <2>1. r \in Pods
    BY <1>0, <1>6, FrontIs DEF Preempt, FitError, Trying
  <2>2. PreemptOthers(r)
    BY <1>6 DEF Preempt
  <2> HIDE DEF r
  <2>3. CASE NoPreemption(r)
    BY <1>c, <2>3 DEF NoPreemption, nominations, history
  <2>4. CASE ClearNomination(r)
    BY <1>d, <2>1, <2>4 DEF ClearNomination
  <2>5. ASSUME podEligibleToPreemptOthers(r), NEW n \in Nodes,
               NEW X \in SUBSET LowerOn(r, n), EvictOn(r, n, X)
        PROVE  Goal
    <3> DEFINE L == {s \in NominatedPods(n) : Priority[s] < Priority[r]}
    <3>1. /\ victimsOf' = [s \in Pods |-> IF s \in L THEN {}
                                         ELSE IF s = r THEN victimsOf[r] \cup X ELSE victimsOf[s]]
          /\ NominatedNodeName' = [s \in Pods |-> IF s \in L THEN NoNode
                                            ELSE IF s = r THEN n ELSE NominatedNodeName[s]]
          /\ DeletePods(X) /\ host' = host
      BY <2>5 DEF EvictOn
    <3> HIDE DEF L
    <3>2. p \notin L
      BY <3>1
    <3>3. CASE p # r
      <4>1. q \in victimsOf[p] /\ NominatedNodeName'[p] = NominatedNodeName[p]
        BY <3>1, <3>2, <3>3
      <4> QED BY <1>b, <4>1
    <3>4. CASE p = r /\ q \in X
      <4>1. q \in Pods /\ host[q] = n /\ Priority[q] < Priority[p] /\ (IsRunning(q) \/ IsTerminating(q))
        BY <2>5, <3>4 DEF LowerOn, RunningAndTerminating
      <4>2. deletedAt'[q] # Never
        <5>1. CASE IsRunning(q)
          BY <1>0, <3>1, <3>4, <4>1, <5>1, DeletePodsTypes
        <5>2. CASE IsTerminating(q)
          <6>1. deletedAt[q] # Never
            BY <5>2 DEF IsTerminating
          <6> QED BY <1>0, <3>1, <4>1, <6>1, DeletePodsTypes
        <5> QED BY <4>1, <5>1, <5>2
      <4>3. NominatedNodeName'[p] = n /\ host'[q] = n
        BY <3>1, <3>2, <3>4, <4>1
      <4> QED BY <4>1, <4>2, <4>3
    <3>5. CASE p = r /\ q \notin X
      <4>1. q \in victimsOf[p]
        BY <3>1, <3>2, <3>5
      <4>2. /\ q \in Pods /\ Priority[q] < Priority[p] /\ deletedAt[q] # Never
            /\ IsTerminating(q) => host[q] = NominatedNodeName[p]
        BY <1>0, <1>a, <4>1 DEF Evicted
      <4>3. ~IsTerminating(q)
        <5>1. host[q] # NoNode
          BY <1>0, <4>2 DEF Unplaced
        <5> QED BY <2>5, <3>5, <4>2, <5>1 DEF podEligibleToPreemptOthers
      <4>4. ~IsTerminating(q)'
        BY <4>2, <4>3, StillTerminating
      <4>5. deletedAt'[q] # Never
        BY <1>0, <3>1, <4>2, DeletePodsTypes
      <4> QED BY <4>2, <4>4, <4>5
    <3> QED BY <3>3, <3>4, <3>5
  <2> QED BY <1>0, <2>1, <2>2, <2>3, <2>4, <2>5, PreemptCases
<1>7. CASE UNCHANGED pvars
  BY <1>7, <1>c DEF pvars, vars, nominations, history
<1> QED BY <1>1, <1>2, <1>3, <1>4, <1>5, <1>6, <1>7 DEF PNext

LEMMA InitPInv == PInit => PInv
<1> SUFFICES ASSUME PInit PROVE PInv
  OBVIOUS
<1>1. Init
  BY DEF PInit
<1>2. Inv /\ inner.keys = << >> /\ Len(inner.keys) = 0
  BY <1>1, InitInv DEF Init
<1>3. HeapRanked
  <2>1. Ordered(inner, Len(inner.keys), Ranked(inner.comparator))
    BY <1>2 DEF Ordered
  <2> QED BY <1>2, <2>1 DEF HeapRanked, Inv
<1>4. \A k \in Keys : Pending(k) = NoPod
  BY <1>1 DEF Init, Pending, NoItem
<1>5. /\ host \in [Pods -> Nodes \cup {NoNode}]
      /\ \A p \in Pods : p \notin Placed => host[p] = NoNode
  BY DEF PInit, Placements
<1>6. Types
  <2>1. MaxTime \in Nat /\ MaxTime >= 1
    BY PodAssumption, CreatedAssumption
  <2>2. 1 \in 0..MaxTime /\ 1 \in 1..MaxTime /\ Never \in -1..MaxTime
    BY <2>1 DEF Never
  <2> QED BY <1>2, <1>5, <2>2, PlaceAssumption DEF PInit, Types, Inv
<1>7. Unplaced
  BY <1>4, <1>5 DEF Unplaced, PInit
<1>8. NominationsLive
  BY <1>1 DEF Init, NominationsLive
<1>9. Evicted
  BY DEF PInit, Evicted
<1> QED BY <1>3, <1>6, <1>7, <1>8, <1>9 DEF PInv

LEMMA PSpecInv ==
    ASSUME IsFiniteSet(Pods)
    PROVE  PSpec => []PInv
<1>1. PInv /\ [PNext]_pvars => PInv'
  BY NextHeap, NextTypes, NextUnplaced, NextNominations, NextEvicted DEF PInv
<1> QED BY <1>1, InitPInv, PTL DEF PSpec

-----------------------------------------------------------------------------
\* The types of queue, nodes and histories, for finite sets of names and pods.
THEOREM PreemptionTypeCorrect ==
    ASSUME IsFiniteSet(Pods), IsFiniteSet(Keys)
    PROVE  PSpec => []PTypeOK
<1>1. PInv => PTypeOK
  <2> SUFFICES ASSUME PInv PROVE PTypeOK
    OBVIOUS
  <2>1. Sound(inner) /\ Types
    BY DEF PInv, HeapRanked
  <2>2. TypeOK
    BY <2>1, HeapTypes DEF TypeOK, Types
  <2>3. clock \in 0..MaxTime
    BY <2>1 DEF Types
  <2> QED BY <2>1, <2>2, <2>3 DEF PTypeOK, Types
<1> QED BY <1>1, PSpecInv, PTL

\* Although failed attempts change the times of pods in the heap
\* (generic_scheduler.go:125), the pod that Front shows has the highest priority,
\* or the largest request under the other comparator.
THEOREM PreemptionHighestPriorityFirst ==
    ASSUME IsFiniteSet(Pods)
    PROVE  PSpec => []HighestPriorityFirst
<1>1. PInv => HighestPriorityFirst
  <2> SUFFICES ASSUME PInv, inner.keys # << >>, NEW k \in Stored(inner)
               PROVE  Rank(Pending(k)) <= Rank(FrontPod)
    BY DEF HighestPriorityFirst
  <2>1. HeapRanked
    BY DEF PInv
  <2>2. FrontPod = PodAt(inner, 1)
    BY <2>1, FrontFacts DEF HeapRanked
  <2>3. inner.items[k].index \in Positions(inner) /\ PodAt(inner, inner.items[k].index) = Pending(k)
    BY <2>1, SoundFacts DEF Pending, HeapRanked
  <2>4. <<FrontPod, Pending(k)>> \in Ranked(inner.comparator)
    BY <2>1, <2>2, <2>3, HeapFacts, FrontIsLeast
  <2> QED BY <2>4 DEF Ranked, RankOf, Rank
<1> QED BY <1>1, PSpecInv, PTL

\* The two records of a nomination agree, and it is the nomination of a pod that is
\* pending or was replaced by an update (priority_queue.go:87, priority_queue.go:141).
THEOREM PreemptionNominationsLive ==
    ASSUME IsFiniteSet(Pods)
    PROVE  PSpec => []NominationsLive
<1>1. PInv => NominationsLive
  BY DEF PInv
<1> QED BY <1>1, PSpecInv, PTL

\* A pod whose victims are still in their grace period evicts no others: those that
\* terminate are all on the node it is nominated for (generic_scheduler_k8s.go:87).
THEOREM PreemptionEvictsOnOneNode ==
    ASSUME IsFiniteSet(Pods)
    PROVE  PSpec => []EvictsOnOneNode
<1>1. PInv => EvictsOnOneNode
  BY DEF PInv, Evicted, EvictsOnOneNode
<1> QED BY <1>1, PSpecInv, PTL

-----------------------------------------------------------------------------
(* What preemption costs.                                                  *)

\* A non-empty set of numbers up to a bound has a largest one.
LEMMA MaxOfNumbers ==
    ASSUME NEW m \in Nat, NEW s \in SUBSET (1..m), s # {}
    PROVE  Max(s) \in s
<1> DEFINE T == {m - i : i \in s}
<1>1. T \subseteq Nat /\ T # {}
  <2>1. \A i \in s : i \in 1..m /\ m - i \in Nat
    OBVIOUS
  <2>2. \E i \in s : TRUE
    OBVIOUS
  <2> QED BY <2>1, <2>2
<1> HIDE DEF T
<1>2. PICK t \in T : \A u \in T : t <= u
  BY <1>1, NatMin
<1>3. PICK i \in s : t = m - i
  BY <1>2 DEF T
<1>4. ASSUME NEW j \in s PROVE i >= j
  <2>1. m - j \in T
    BY DEF T
  <2>2. m - i <= m - j /\ i \in Int /\ j \in Int
    BY <1>2, <1>3, <2>1
  <2> QED BY <2>2
<1>5. \E x \in s : \A y \in s : x >= y
  BY <1>4
<1> QED BY <1>5 DEF Max

\* The sum in pickOneNodeForPreemption, over a list, and the sum over its members.
Shifted == [q \in Pods |-> Priority[q] + Offset]

LEMMA ListSum ==
    ASSUME NEW v \in Seq(Pods)
    PROVE  FoldLeft(LAMBDA t, q : t + Priority[q] + Offset, 0, v)
              = SumOf(1..Len(v), [i \in 1..Len(v) |-> Shifted[v[i]]])
<1> DEFINE S == 1..Len(v)
           f == [i \in S |-> Shifted[v[i]]]
           Eq(acc) == acc = [s \in SUBSET S |-> IF s = {} THEN 0
                             ELSE acc[s \ {Max(s)}] + Priority[v[Max(s)]] + Offset]
           acc == CHOOSE g : Eq(g)
           sum == [s \in SUBSET S |-> SumOf(s, f)]
<1>1. DOMAIN v = S /\ Len(v) \in Nat
  OBVIOUS
<1>2. FoldLeft(LAMBDA t, q : t + Priority[q] + Offset, 0, v) = acc[S]
  BY <1>1 DEF FoldLeft, MapThenFoldSet
<1>3. IsFiniteSet(S)
  BY <1>1, FS_Interval
<1>4. \A i \in S : /\ f[i] = Priority[v[i]] + Offset /\ f[i] \in Nat
                   /\ Priority[v[i]] \in Int /\ Offset \in Int
  <2> TAKE i \in S
  <2>1. v[i] \in Pods
    OBVIOUS
  <2> QED BY <2>1, OffsetAssumption, PodAssumption DEF Shifted
<1>5. \A s \in SUBSET S : s # {} => Max(s) \in s
  BY <1>1, MaxOfNumbers
<1> HIDE DEF S, f
<1>6. Eq(sum)
  <2>1. ASSUME NEW s \in SUBSET S
        PROVE  SumOf(s, f) = IF s = {} THEN 0
                             ELSE sum[s \ {Max(s)}] + Priority[v[Max(s)]] + Offset
    <3>1. CASE s = {}
      BY <3>1, SumEmpty
    <3>2. CASE s # {}
      <4>1. IsFiniteSet(s) /\ Max(s) \in s
        BY <1>3, <1>5, <3>2, FS_Subset
      <4> DEFINE x == Max(s)
      <4> HIDE DEF x
      <4>2. SumOf(s, f) = SumOf(s \ {x}, f) + f[x]
        BY <1>4, <4>1, SumRemove DEF x
      <4>3. SumOf(s \ {x}, f) \in Nat
        BY <1>3, <1>4, SumPart
      <4>4. sum[s \ {x}] = SumOf(s \ {x}, f)
        OBVIOUS
      <4>5. f[x] = Priority[v[x]] + Offset /\ Priority[v[x]] \in Int /\ Offset \in Int
        BY <1>4, <4>1 DEF x
      <4> HIDE DEF sum
      <4>6. SumOf(s, f) = sum[s \ {x}] + Priority[v[x]] + Offset
        BY <4>2, <4>3, <4>4, <4>5
      <4> QED BY <3>2, <4>6 DEF x
    <3> QED BY <3>1, <3>2
  <2>2. sum = [s \in SUBSET S |-> SumOf(s, f)]
    OBVIOUS
  <2> HIDE DEF sum
  <2> QED BY <2>1, <2>2
<1>7. Eq(acc)
  <2> HIDE DEF Eq, sum
  <2> QED BY <1>6
<1> HIDE DEF acc
<1>8. acc[{}] = 0
  <2>1. {} \in SUBSET S
    OBVIOUS
  <2> QED BY <1>7, <2>1
<1>9. ASSUME NEW s \in SUBSET S, s # {}, NEW x, x = Max(s), acc[s \ {x}] \in Nat
      PROVE  acc[s] = f[x] + acc[s \ {x}]
  <2>1. x \in s
    BY <1>5, <1>9
  <2>2. acc[s] = acc[s \ {x}] + Priority[v[x]] + Offset
    BY <1>7, <1>9
  <2>3. f[x] = Priority[v[x]] + Offset /\ Priority[v[x]] \in Int /\ Offset \in Int
    BY <1>4, <2>1
  <2> QED BY <1>9, <2>2, <2>3
<1>10. \A s \in SUBSET S : s # {} =>
          \E x \in s : acc[s \ {x}] \in Nat => acc[s] = f[x] + acc[s \ {x}]
  BY <1>5, <1>9
<1>11. acc[S] = SumOf(S, f)
  BY <1>3, <1>4, <1>8, <1>10, StepwiseSum
<1> QED BY <1>2, <1>11 DEF S, f

LEMMA SetSum ==
    ASSUME NEW W \in SUBSET Pods, IsFiniteSet(W)
    PROVE  MapThenSumSet(LAMBDA q : Priority[q] + Offset, W) = SumOf(W, Shifted)
<1>1. \A k \in W : Shifted[k] = Priority[k] + Offset /\ Shifted[k] \in Nat
  BY OffsetAssumption, PodAssumption DEF Shifted
<1> DEFINE c == [s \in SUBSET W |-> CHOOSE x \in s : TRUE]
           Eq(acc) == acc = [s \in SUBSET W |-> IF s = {} THEN 0
                             ELSE LET x == CHOOSE x \in s : TRUE
                                  IN  Priority[x] + Offset + acc[s \ {x}]]
           acc == CHOOSE f : Eq(f)
<1>2. MapThenSumSet(LAMBDA q : Priority[q] + Offset, W) = acc[W]
  BY DEF MapThenSumSet, MapThenFoldSet
<1>3. \A s \in SUBSET W : s # {} => c[s] \in s
  OBVIOUS
<1>4. ASSUME NEW f PROVE Eq(f) <=> Accumulates(W, Shifted, c, f)
  <2>1. ASSUME NEW s \in SUBSET W
        PROVE  (IF s = {} THEN 0 ELSE LET x == CHOOSE x \in s : TRUE
                                      IN  Priority[x] + Offset + f[s \ {x}])
                  = (IF s = {} THEN 0 ELSE Shifted[c[s]] + f[s \ {c[s]}])
    <3>1. CASE s # {}
      <4>1. c[s] = (CHOOSE x \in s : TRUE) /\ c[s] \in W
        BY <1>3, <3>1
      <4> HIDE DEF c
      <4> QED BY <1>1, <4>1
    <3> QED BY <3>1
  <2> HIDE DEF c
  <2> QED BY <2>1 DEF Accumulates
<1>5. Accumulates(W, Shifted, c, acc)
  <2> HIDE DEF Eq, c
  <2>1. \E f : Eq(f)
    BY <1>1, <1>3, <1>4, AccumulatorExists
  <2>2. Eq(acc)
    BY <2>1
  <2> QED BY <1>4, <2>2
<1> HIDE DEF acc, c, Eq
<1>6. acc[W] = SumOf(W, Shifted)
  BY <1>1, <1>3, <1>5, AccumulatorSums
<1> QED BY <1>2, <1>6

\* The two sums agree for a list without a pod that occurs twice.
LEMMA SumsAgree ==
    ASSUME IsFiniteSet(Pods), NEW v \in Seq(Pods),
           \A x, y \in 1..Len(v) : x < y => v[x] # v[y]
    PROVE  /\ FoldLeft(LAMBDA t, q : t + Priority[q] + Offset, 0, v)
                 = MapThenSumSet(LAMBDA q : Priority[q] + Offset, ToSet(v))
           /\ MapThenSumSet(LAMBDA q : Priority[q] + Offset, ToSet(v)) \in Nat
<1> DEFINE S == 1..Len(v)
           f == [i \in S |-> Shifted[v[i]]]
           W == ToSet(v)
<1>1. Len(v) \in Nat /\ v \in [S -> Pods] /\ DOMAIN v = S
  OBVIOUS
<1>2. W \in SUBSET Pods /\ W = {v[i] : i \in S}
  BY <1>1 DEF ToSet
<1>3. IsFiniteSet(S) /\ IsFiniteSet(W)
  BY <1>1, <1>2, FS_Interval, FS_Subset
<1>4. \A q \in Pods : Shifted[q] \in Nat
  BY OffsetAssumption, PodAssumption DEF Shifted
<1>5. \A i, j \in S : v[i] = v[j] => i = j
  OBVIOUS
<1> HIDE DEF S, W
<1>6. v \in [S -> W] /\ \A i \in S : f[i] \in Nat /\ Shifted[v[i]] = f[i]
  BY <1>1, <1>2, <1>4
<1>7. \A t \in W : \E i \in S : v[i] = t
  BY <1>2
<1> HIDE DEF f
<1>8. SumOf(W, Shifted) = SumOf(S, f)
  BY <1>3, <1>5, <1>6, <1>7, SumRenamed
<1>9. SumOf(W, Shifted) \in Nat
  BY <1>2, <1>3, <1>4, UnitsFinite
<1> QED BY <1>2, <1>3, <1>8, <1>9, ListSum, SetSum DEF S, W, f

\* What there may be to choose from when the pod at the front fits no node.
LEMMA PossibleFacts ==
    ASSUME IsFiniteSet(Pods), PInv, NEW V \in PossibleVictims
    PROVE  /\ FitError /\ FrontPod \in Pods
           /\ \E S \in SUBSET Nodes : V \in NodesToVictims(FrontPod, S)
<1>1. FitError /\ \E S \in PotentialNodes(FrontPod) : V \in NodesToVictims(FrontPod, S)
  BY DEF PossibleVictims
<1>2. FrontPod \in Pods
  BY <1>1, FrontIs DEF FitError, Trying, PInv
<1> QED BY <1>1, <1>2 DEF PotentialNodes

\* The pod at the front fits on a candidate without victims as that is.
LEMMA NoVictimsFits ==
    ASSUME IsFiniteSet(Pods), PInv, NEW V \in PossibleVictims, NEW n \in DOMAIN V, V[n] = << >>
    PROVE  n \in Nodes /\ podFitsOnNode(FrontPod, n, NodeInfo(n))
<1>1. FrontPod \in Pods /\ Types
  BY PossibleFacts DEF PInv
<1>2. PICK S \in SUBSET Nodes : V \in NodesToVictims(FrontPod, S)
  BY PossibleFacts
<1>3. /\ n \in Nodes
      /\ podFitsOnNode(FrontPod, n, Total(RunningAndTerminating(n) \ ToSet(V[n])))
  BY <1>1, <1>2, ChosenVictims
<1>4. ToSet(V[n]) = {}
  BY DEF ToSet
<1>5. Total(RunningAndTerminating(n) \ ToSet(V[n])) = NodeInfo(n)
  <2>1. RunningAndTerminating(n) \ ToSet(V[n]) = RunningAndTerminating(n)
    BY <1>4
  <2> QED BY <2>1 DEF NodeInfo
<1> QED BY <1>3, <1>5

\* Several candidates, one without victims, come about only for a pod that
\* extenders refuse.
LEMMA OutOfRangeRefused ==
    ASSUME IsFiniteSet(Pods), PInv, NEW V \in PossibleVictims, OutOfRange(V)
    PROVE  FrontPod \in Refusable
<1>1. PICK n \in DOMAIN V : V[n] = << >>
  BY DEF OutOfRange
<1>2. n \in Nodes /\ podFitsOnNode(FrontPod, n, NodeInfo(n))
  BY <1>1, NoVictimsFits
<1> QED BY <1>2, PossibleFacts DEF FitError

\* The first victim of each candidate is read without a test
\* (generic_scheduler_k8s.go:347): that ends the program only for a pod whose nodes
\* extenders refused (generic_scheduler.go:305), because a node that passes the
\* predicates as it is leaves the others without a FitError.
THEOREM PreemptionPanicsOnRefusalOnly ==
    ASSUME IsFiniteSet(Pods)
    PROVE  PSpec => []PanicsOnRefusalOnly
<1>1. PInit => PanicsOnRefusalOnly
  BY DEF PInit, PanicsOnRefusalOnly
<1>2. PInv /\ PanicsOnRefusalOnly /\ [PNext]_pvars => PanicsOnRefusalOnly'
  <2> SUFFICES ASSUME PInv, PanicsOnRefusalOnly, [PNext]_pvars, pc' = "panicked"
               PROVE  FrontPod' \in Refusable
    BY DEF PanicsOnRefusalOnly
  <2>1. CASE PreemptPanics
    <3>1. FitError /\ UNCHANGED inner
      BY <2>1 DEF PreemptPanics
    <3>2. PICK S \in PotentialNodes(FrontPod) :
              \E V \in NodesToVictims(FrontPod, S) : OutOfRange(V)
      BY <2>1 DEF PreemptPanics
    <3>3. PICK V \in NodesToVictims(FrontPod, S) : OutOfRange(V)
      BY <3>2
    <3>4. V \in PossibleVictims
      BY <3>1, <3>2, <3>3 DEF PossibleVictims
    <3>5. FrontPod \in Refusable
      BY <3>3, <3>4, OutOfRangeRefused
    <3> QED BY <3>1, <3>5 DEF FrontPod, Pending
  <2>2. CASE UNCHANGED pvars
    BY <2>2 DEF pvars, vars, PanicsOnRefusalOnly, FrontPod, Pending
  <2>3. CASE PNext /\ ~PreemptPanics
    BY <2>3 DEF PNext, Submit, DeleteEvent, UpdateEvent, StartPass, ScheduleOne, Trying,
                QueueExhausted, Preempt, FitError, NextTick
  <2> QED BY <2>1, <2>2, <2>3
<1> QED BY <1>1, <1>2, PSpecInv, PTL DEF PSpec

\* No victim could be spared (generic_scheduler_k8s.go:212), and a candidate without
\* victims is a node of which the preemptor passes the predicates as it is, so that
\* there is a victim to read (generic_scheduler_k8s.go:347) unless extenders refused
\* the pod.
THEOREM PreemptionVictimsNeeded ==
    ASSUME IsFiniteSet(Pods)
    PROVE  PSpec => []VictimsNeeded
<1>1. PInv /\ PanicsOnRefusalOnly => VictimsNeeded
  <2> SUFFICES ASSUME PInv, PanicsOnRefusalOnly, NEW V \in PossibleVictims, NEW n \in DOMAIN V
               PROVE  /\ V[n] = << >> => podFitsOnNode(FrontPod, n, NodeInfo(n))
                      /\ \/ RunningAndTerminating(n) \cap Replacements # {}
                         \/ \A q \in ToSet(V[n]) :
                               ~podFitsOnNode(FrontPod, n, NodeInfo(n) - Total(ToSet(V[n]) \ {q}))
    BY DEF VictimsNeeded
  <2> DEFINE R == RunningAndTerminating(n)
             W == ToSet(V[n])
  <2>1. FrontPod \in Pods /\ Types
    BY PossibleFacts DEF PInv
  <2>2. PICK S \in SUBSET Nodes : V \in NodesToVictims(FrontPod, S)
    BY PossibleFacts
  <2>3. /\ W \subseteq LowerOn(FrontPod, n)
        /\ R \cap Replacements = {} =>
              \A q \in W : ~podFitsOnNode(FrontPod, n, Total(R \ W) + Size[q])
    BY <2>1, <2>2, ChosenVictims
  <2>4. R \in SUBSET Pods /\ W \in SUBSET R
    BY <2>3 DEF LowerOn, RunningAndTerminating
  <2>5. NodeInfo(n) = Total(R)
    BY DEF NodeInfo
  <2> HIDE DEF R, W
  <2>6. ASSUME NEW q \in W PROVE NodeInfo(n) - Total(W \ {q}) = Total(R \ W) + Size[q]
    <3>1. W \ {q} \in SUBSET R /\ R \ (W \ {q}) = (R \ W) \cup {q} /\ q \in Pods
          /\ q \notin R \ W /\ R \ W \in SUBSET Pods
      BY <2>4
    <3>2. Total(R \ (W \ {q})) = Total(R) - Total(W \ {q})
      BY <2>4, <3>1, TotalPart
    <3>3. Total((R \ W) \cup {q}) = Total(R \ W) + Size[q]
      BY <3>1, TotalWith
    <3> QED BY <2>5, <3>1, <3>2, <3>3
  <2> QED BY <2>3, <2>6, NoVictimsFits DEF R, W
<1> QED BY <1>1, PSpecInv, PreemptionPanicsOnRefusalOnly, PTL

\* The node picked costs no pod of higher priority than another would, nor, at the
\* same highest priority, a larger sum of priorities
\* (generic_scheduler_k8s.go:347).
THEOREM PreemptionCheapestNode ==
    ASSUME IsFiniteSet(Pods), IsFiniteSet(Nodes)
    PROVE  PSpec => []CheapestNode
<1>1. PInv => CheapestNode
  <2> SUFFICES ASSUME PInv, NEW V \in PossibleVictims, ~OutOfRange(V),
                      NEW n \in pickOneNodeForPreemption(V), NEW m \in DOMAIN V
               PROVE  LET Most(x) == Max({Priority[q] : q \in ToSet(V[x])} \cup {-Offset})
                          All(x) == MapThenSumSet(LAMBDA q : Priority[q] + Offset, ToSet(V[x]))
                      IN  Most(n) < Most(m) \/ (Most(n) = Most(m) /\ All(n) <= All(m))
    BY DEF CheapestNode
  <2> DEFINE D == DOMAIN V
             Most(x) == Max({Priority[q] : q \in ToSet(V[x])} \cup {-Offset})
             All(x) == MapThenSumSet(LAMBDA q : Priority[q] + Offset, ToSet(V[x]))
             highest == [x \in D |-> Priority[Head(V[x])]]
             sum == [x \in D |-> FoldLeft(LAMBDA t, q : t + Priority[q] + Offset, 0, V[x])]
             num == [x \in D |-> Len(V[x])]
             Dear == Cheapest(D, highest)
  <2> SUFFICES Most(n) < Most(m) \/ (Most(n) = Most(m) /\ All(n) <= All(m))
    OBVIOUS
  <2>1. n \in D
    BY Picked
  <2>2. PICK S \in SUBSET Nodes : V \in NodesToVictims(FrontPod, S)
    BY PossibleFacts
  <2>3. ASSUME NEW x \in D
        PROVE  /\ x \in Nodes /\ sum[x] = All(x) /\ All(x) \in Nat
               /\ V[x] # << >> => highest[x] = Most(x) /\ Most(x) \in Int
    <3> DEFINE v == V[x]
    <3>1. /\ x \in Nodes /\ v \in Seq(LowerOn(FrontPod, x))
          /\ \A i, j \in 1..Len(v) : i < j => v[i] # v[j] /\ Priority[v[i]] >= Priority[v[j]]
      BY <2>2, PossibleFacts, ChosenVictims DEF PInv
    <3>2. v \in Seq(Pods)
      <4>1. LowerOn(FrontPod, x) \subseteq Pods
        BY DEF LowerOn, RunningAndTerminating
      <4> HIDE DEF v
      <4> QED BY <3>1, <4>1
    <3>3. sum[x] = FoldLeft(LAMBDA t, q : t + Priority[q] + Offset, 0, v)
      OBVIOUS
    <3>4. sum[x] = All(x) /\ All(x) \in Nat
      <4>1. /\ FoldLeft(LAMBDA t, q : t + Priority[q] + Offset, 0, v)
                 = MapThenSumSet(LAMBDA q : Priority[q] + Offset, ToSet(v))
            /\ MapThenSumSet(LAMBDA q : Priority[q] + Offset, ToSet(v)) \in Nat
        <5> HIDE DEF v
        <5> QED BY <3>1, <3>2, SumsAgree
      <4> HIDE DEF sum
      <4> QED BY <3>3, <4>1
    <3> SUFFICES ASSUME v # << >> PROVE highest[x] = Most(x) /\ Most(x) \in Int
      <4> HIDE DEF Most, All, highest, sum
      <4> QED BY <3>1, <3>4
    <3> HIDE DEF v
    <3> DEFINE h == Priority[Head(v)]
               T == {Priority[q] : q \in ToSet(v)} \cup {-Offset}
    <3>5. /\ Len(v) \in Nat /\ 1 \in 1..Len(v) /\ Head(v) = v[1]
          /\ ToSet(v) = {v[i] : i \in 1..Len(v)} /\ \A i \in 1..Len(v) : v[i] \in Pods
      BY <3>1, <3>2 DEF ToSet
    <3>6. /\ Offset \in Nat /\ \A q \in Pods : Priority[q] \in Int /\ Priority[q] + Offset >= 0
      BY OffsetAssumption, PodAssumption
    <3>7. h \in T /\ T \subseteq Int /\ \A y \in T : h >= y
      <4>1. h \in Int /\ h >= -Offset
        BY <3>5, <3>6
      <4>2. \A i \in 1..Len(v) : h >= Priority[v[i]]
        <5>1. \A i \in 1..Len(v) : i = 1 \/ 1 < i
          OBVIOUS
        <5> QED BY <3>1, <3>5, <3>6, <4>1, <5>1
      <4> QED BY <3>5, <3>6, <4>1, <4>2
    <3> HIDE DEF h, T
    <3>8. Max(T) = h
      <4> DEFINE most == Max(T)
      <4>1. most \in T /\ \A y \in T : most >= y
        BY <3>7 DEF Max
      <4> HIDE DEF most
      <4>2. most >= h /\ h >= most /\ most \in Int /\ h \in Int
        BY <3>7, <4>1
      <4>3. most = h
        BY <4>2
      <4> QED BY <4>3 DEF most
    <3>9. Most(x) = h /\ h \in Int
      BY <3>7, <3>8 DEF T, v
    <3>10. highest[x] = h
      BY DEF h, v
    <3> HIDE DEF Most, All, highest, sum
    <3> QED BY <3>9, <3>10
  <2>4. pickOneNodeForPreemption(V) = IF Cardinality(D) <= 1 THEN D
                                      ELSE Cheapest(Cheapest(Dear, sum), num)
    BY DEF pickOneNodeForPreemption
  <2> HIDE DEF Most, All, highest, sum, num
  <2>a. (\E x \in D : V[x] = << >>) => ~(Cardinality(D) > 1)
    BY DEF OutOfRange
  <2> HIDE DEF D
  <2>b. IsFiniteSet(D) /\ Cardinality(D) \in Nat
    <3>1. D \in SUBSET Nodes
      BY <2>3
    <3> QED BY <3>1, FS_Subset, FS_CardinalityType
  <2>5. CASE Cardinality(D) <= 1
    <3>1. n = m
      <4> SUFFICES ASSUME n # m PROVE FALSE
        OBVIOUS
      <4>1. m \in D /\ IsFiniteSet(D \ {n}) /\ Cardinality(D \ {n}) = Cardinality(D) - 1
        BY <2>1, <2>b, FS_RemoveElement DEF D
      <4>2. Cardinality(D \ {n}) = 0
        BY <2>5, <2>b, <4>1, FS_CardinalityType
      <4>3. D \ {n} = {}
        BY <4>1, <4>2, FS_EmptySet
      <4> QED BY <4>1, <4>3
    <3> QED BY <2>1, <2>3, <3>1
  <2>6. CASE ~(Cardinality(D) <= 1)
    <3>0. \A x \in D : V[x] # << >>
      BY <2>6, <2>a, <2>b
    <3>1. n \in Cheapest(Dear, sum)
      BY <2>4, <2>6 DEF Cheapest
    <3>2. n \in Dear /\ \A k \in Dear : sum[n] <= sum[k]
      BY <3>1 DEF Cheapest
    <3>3. m \in D /\ highest[n] <= highest[m]
      BY <3>2 DEF Cheapest, D
    <3>4. Most(n) <= Most(m) /\ Most(n) \in Int /\ Most(m) \in Int
      BY <2>1, <2>3, <3>0, <3>3
    <3>5. ASSUME Most(n) = Most(m) PROVE All(n) <= All(m)
      <4>1. highest[m] = highest[n]
        BY <2>1, <2>3, <3>0, <3>3, <3>5
      <4>2. m \in Dear
        BY <3>2, <3>3, <4>1 DEF Cheapest
      <4> QED BY <2>1, <2>3, <3>2, <3>3, <4>2
    <3> QED BY <3>4, <3>5
  <2> QED BY <2>5, <2>6
<1> QED BY <1>1, PSpecInv, PTL

-----------------------------------------------------------------------------
(* What is kept for a nominated pod.                                       *)

\* A pod with a name of its own arrives once under that name, and the pods that
\* earlier passes placed are not pending.
Arrived ==
    /\ \A p \in Placed : host[p] # NoNode
    /\ replaced \subseteq seen
    /\ \A p \in seen \ (Placed \cup Replacements), q \in seen \ Replacements :
          KeyOf[p] = KeyOf[q] => p = q

RunningOn(n) == {q \in RunningAndTerminating(n) : IsRunning(q)}
NominatedAbove(n, p) == {q \in NominatedPods(n) \ Replacements : Priority[q] >= Priority[p]}

\* ReservedRoom on one node.
RoomOn(n) ==
    \A p \in NominatedPods(n) \ (intruded \cup replaced \cup Replacements) :
        Total(RunningOn(n) \cup NominatedAbove(n, p)) <= Capacity

RInv == PInv /\ Arrived /\ \A n \in Nodes : RoomOn(n)

LEMMA NominatedFacts ==
    ASSUME Types, NominationsLive, NEW n \in Nodes, NEW q \in NominatedPods(n)
    PROVE  /\ q \in Pods /\ KeyOf[q] \in Keys /\ nominatedPods[n][KeyOf[q]] = q
           /\ NominatedNodeName[q] = n /\ (Pending(KeyOf[q]) = q \/ q \in replaced)
<1>1. PICK k \in Keys : q = nominatedPods[n][k] /\ q # NoPod
  BY DEF NominatedPods
<1> QED BY <1>1, NominationOf

\* No pod begins to run but the one that is bound.
LEMMA RunningShrinks ==
    ASSUME IsFiniteSet(Pods), PInv, [PNext]_pvars, NEW n \in Nodes,
           UNCHANGED <<host, boundAt>>
    PROVE  RunningOn(n)' \subseteq RunningOn(n)
<1> SUFFICES ASSUME NEW q \in RunningOn(n)' PROVE q \in RunningOn(n)
  OBVIOUS
<1>1. q \in Pods /\ host[q] = n /\ host[q] # NoNode /\ deletedAt'[q] = Never
      /\ clock' - boundAt[q] < Duration[q]
  BY DEF RunningOn, RunningAndTerminating, IsRunning
<1>2. Types /\ Types'
  BY NextTypes DEF PInv
<1>3. clock' >= clock /\ deletedAt[q] = Never
  <2>1. clock \in Int
    BY <1>2 DEF Types
  <2> QED BY <1>1, <2>1, StepCases DEF Stays, Arrives, Leaves
<1>4. clock - boundAt[q] < Duration[q]
  <2>1. clock \in Int /\ clock' \in Int /\ boundAt[q] \in Int /\ Duration[q] \in Int
    BY <1>1, <1>2, LifeAssumption DEF Types
  <2> QED BY <1>1, <1>3, <2>1
<1> QED BY <1>1, <1>3, <1>4 DEF RunningOn, RunningAndTerminating, IsRunning

\* A step that adds no pod to a node.
Calm(n) ==
    /\ RunningOn(n)' \subseteq RunningOn(n)
    /\ NominatedPods(n)' \subseteq NominatedPods(n)
    /\ \A q \in NominatedPods(n)' : q \in intruded \cup replaced => q \in (intruded \cup replaced)'

LEMMA CalmKeeps ==
    ASSUME IsFiniteSet(Pods), Types, NEW n \in Nodes, RoomOn(n), Calm(n)
    PROVE  RoomOn(n)'
<1> SUFFICES ASSUME NEW p \in NominatedPods(n)' \ ((intruded \cup replaced)' \cup Replacements)
             PROVE  Total(RunningOn(n) \cup NominatedAbove(n, p))' <= Capacity
  BY DEF RoomOn
<1> DEFINE S == RunningOn(n) \cup NominatedAbove(n, p)
<1>1. p \in NominatedPods(n) \ (intruded \cup replaced \cup Replacements)
  BY DEF Calm
<1>2. Total(S) <= Capacity
  BY <1>1 DEF RoomOn
<1>3. S \in SUBSET Pods
  BY KeyAssumption DEF RunningOn, RunningAndTerminating, NominatedAbove, NominatedPods, Types
<1>4. S' \in SUBSET S
  BY DEF Calm, NominatedAbove
<1>5. Total(S') = Total(S)'
  BY DEF Total, MapThenSumSet, MapThenFoldSet
<1> DEFINE T == S'
<1> HIDE DEF S, T
<1>6. Total(T) \in Nat /\ Total(S) \in Nat /\ Total(T) <= Total(S) /\ Capacity \in Nat
  BY <1>3, <1>4, TotalPart, SizeAssumption DEF T
<1>7. Total(T) <= Capacity
  BY <1>2, <1>6
<1> QED BY <1>5, <1>7 DEF S, T

\* A pod that is removed is nominated nowhere.
LEMMA RemovedNominations ==
    ASSUME Types, NominationsLive, NEW p \in Pods, RemoveNominatedNode(p), NEW n \in Nodes
    PROVE  NominatedPods(n)' \subseteq NominatedPods(n) \ {p}
<1> SUFFICES ASSUME NEW k \in Keys, nominatedPods'[n][k] # NoPod
             PROVE  nominatedPods'[n][k] \in NominatedPods(n) \ {p}
  BY DEF NominatedPods
<1>1. nominatedPods \in [Nodes -> [Keys -> Pods \cup {NoPod}]]
  BY DEF Types
<1>2. nominatedPods'[n] = IF n = NominatedNodeName[p]
                          THEN [nominatedPods[n] EXCEPT ![KeyOf[p]] = NoPod] ELSE nominatedPods[n]
  BY DEF RemoveNominatedNode, Unnominated
<1>3. /\ nominatedPods'[n][k] = nominatedPods[n][k]
      /\ ~(n = NominatedNodeName[p] /\ k = KeyOf[p])
  BY <1>1, <1>2
<1>4. nominatedPods[n][k] # p
  BY <1>3, NominationOf
<1> QED BY <1>3, <1>4 DEF NominatedPods

\* After preemption the pod is nominated for the node, with pods of its or a
\* higher priority, and for no other.
LEMMA EvictedNominations ==
    ASSUME Types, NominationsLive, NEW p \in Pods, KeyOf[p] \in Keys,
           NEW n \in Nodes, NEW X, EvictOn(p, n, X), NEW m \in Nodes, NEW r \in NominatedPods(m)'
    PROVE  /\ m = n /\ r # p => r \in NominatedPods(n) /\ Priority[r] >= Priority[p]
           /\ m # n => r \in NominatedPods(m) \ {p}
<1>1. PICK k \in Keys : r = nominatedPods'[m][k] /\ r # NoPod
  BY DEF NominatedPods
<1> DEFINE L == {q \in NominatedPods(n) : Priority[q] < Priority[p]}
<1>2. \/ m = n /\ r = p
      \/ /\ r = nominatedPods[m][k] /\ ~(m = NominatedNodeName[p] /\ k = KeyOf[p])
         /\ m = n => ~\E q \in L : KeyOf[q] = k
  BY <1>1, EvictEntries
<1>3. CASE /\ r = nominatedPods[m][k] /\ ~(m = NominatedNodeName[p] /\ k = KeyOf[p])
           /\ m = n => ~\E q \in L : KeyOf[q] = k
  <2>1. r \in NominatedPods(m) /\ r \in Pods /\ KeyOf[r] = k /\ NominatedNodeName[r] = m
    BY <1>1, <1>3, NominationOf DEF NominatedPods
  <2>2. r # p
    BY <1>3, <2>1
  <2>3. m = n => r \notin L
    BY <1>3, <2>1
  <2>4. Priority[r] \in Int /\ Priority[p] \in Int
    BY <2>1, PodAssumption
  <2> QED BY <2>1, <2>2, <2>3, <2>4
<1> QED BY <1>2, <1>3

\* Only the pod itself is left out of what is kept from a pending pod, apart from
\* pods without a UID.
LEMMA SameUid ==
    ASSUME HeapRanked, Types, Unplaced, NominationsLive, Arrived,
           NEW p \in Pods, KeyOf[p] \in Keys, Pending(KeyOf[p]) = p,
           NEW n \in Nodes, NEW q \in NominatedPods(n) \ Replacements, Uid(q) = Uid(p)
    PROVE  q = p
<1>1. q \in Pods /\ KeyOf[q] \in Keys /\ (Pending(KeyOf[q]) = q \/ q \in replaced)
  BY NominatedFacts
<1>2. p \notin Replacements /\ KeyOf[p] = KeyOf[q]
  BY <1>1, UidAssumption DEF Uid
<1>3. p # NoPod /\ p \in seen /\ host[p] = NoNode
  <2>1. p # NoPod
    BY KeyAssumption
  <2> QED BY <2>1 DEF Unplaced
<1>4. p \notin Placed
  BY <1>3 DEF Arrived
<1>5. CASE q \in replaced
  BY <1>2, <1>3, <1>4, <1>5 DEF Arrived
<1> QED BY <1>1, <1>2, <1>5

\* Where a pod fits, there is room for it beside what is kept from it.
LEMMA FitsRoom ==
    ASSUME IsFiniteSet(Pods), HeapRanked, Types, Unplaced, NominationsLive, Arrived,
           NEW p \in Pods, KeyOf[p] \in Keys, Pending(KeyOf[p]) = p,
           NEW n \in Nodes, NEW R \in SUBSET Pods, podFitsOnNode(p, n, Total(R)),
           NEW T \in SUBSET (R \cup {p} \cup
                   {q \in NominatedPods(n) \ Replacements : Priority[q] >= Priority[p]})
    PROVE  Total(T) <= Capacity
<1> DEFINE Q == ReservedFrom(p, n)
           U == R \cup Q
<1>1. Q \in SUBSET Pods
  BY FitsIff, SizeAssumption, TotalIs
<1>2. Total(R) + (Size[p] + Total(Q)) <= Capacity /\ Total(R) \in Nat
  <2>1. Total(R) \in Nat
    BY TotalIs
  <2> QED BY <2>1, FitsIff
<1>3. T \in SUBSET (U \cup {p})
  <2>1. ASSUME NEW q \in NominatedPods(n) \ Replacements, Priority[q] >= Priority[p], q # p
        PROVE  q \in Q
    BY <2>1, SameUid DEF ReservedFrom
  <2> HIDE DEF Q
  <2> QED BY <2>1
<1> HIDE DEF Q
<1>4. /\ Total(R) \in Nat /\ Total(Q) \in Nat /\ Total(U) \in Nat
      /\ Total(U) <= Total(R) + Total(Q)
  BY <1>1, TotalUnion
<1>5. U \in SUBSET Pods
  BY <1>1
<1> HIDE DEF U
<1>6. Total(U \cup {p}) <= Total(U) + Size[p] /\ Size[p] \in Nat
  BY <1>5, TotalWith
<1>7. Total(T) <= Total(U \cup {p}) /\ Total(T) \in Nat /\ Total(U \cup {p}) \in Nat
  <2>1. U \cup {p} \in SUBSET Pods
    BY <1>5
  <2> QED BY <1>3, <2>1, TotalPart
<1> QED BY <1>2, <1>4, <1>6, <1>7, SizeAssumption

LEMMA NextArrived == IsFiniteSet(Pods) /\ PInv /\ Arrived /\ [PNext]_pvars => Arrived'
<1> SUFFICES ASSUME IsFiniteSet(Pods), PInv, Arrived, [PNext]_pvars PROVE Arrived'
  OBVIOUS
<1>0. HeapRanked /\ Types /\ Unplaced
  BY DEF PInv
<1>1. \A p \in Placed : host'[p] # NoNode
  <2> SUFFICES ASSUME NEW p \in Placed PROVE host'[p] # NoNode
    OBVIOUS
  <2>1. host[p] # NoNode /\ p \in Pods
    BY PlaceAssumption DEF Arrived
  <2>2. ASSUME NEW q \in Pods, NEW n \in Nodes \cup {NoNode}, Leaves(q, n) PROVE host'[p] = host[p]
    <3>1. KeyOf[q] \in Keys /\ Pending(KeyOf[q]) = q /\ q # NoPod /\ host' = [host EXCEPT ![q] = n]
      BY <2>2, KeyAssumption DEF Leaves
    <3>2. host[q] = NoNode
      BY <1>0, <3>1 DEF Unplaced
    <3> QED BY <1>0, <2>1, <3>1, <3>2 DEF Types
  <2> QED BY <2>1, <2>2, StepCases DEF Stays, Arrives
<1>a. UNCHANGED <<seen, replaced>> => Arrived'
  BY <1>1 DEF Arrived
<1>2. ASSUME NEW p \in Pods, Submit(p) PROVE Arrived'
  <2>1. /\ p \notin Replacements /\ KeyOf[p] \notin {KeyOf[q] : q \in seen}
        /\ seen' = seen \cup {p} /\ replaced' = replaced
    BY <1>2 DEF Submit, history
  <2> QED BY <1>1, <2>1 DEF Arrived
<1>3. ASSUME NEW p \in Pods, UpdateEvent(p) PROVE Arrived'
  <2>1. /\ p \in Replacements /\ KeyOf[p] \in Stored(inner)
        /\ seen' = seen \cup {p} /\ replaced' = replaced \cup {Pending(KeyOf[p])}
    BY <1>3 DEF UpdateEvent
  <2>2. Pending(KeyOf[p]) \in seen
    <3>1. KeyOf[p] \in Keys /\ Pending(KeyOf[p]) # NoPod
      BY <1>0, <2>1, HeapFacts, KeyAssumption
    <3> QED BY <1>0, <3>1 DEF Unplaced
  <2> QED BY <1>1, <2>1, <2>2 DEF Arrived
<1>4. ASSUME NEW k \in Deleted, DeleteEvent(k) PROVE UNCHANGED <<seen, replaced>>
  BY <1>4 DEF DeleteEvent, history
<1>5. ASSUME StartPass \/ QueueExhausted \/ PreemptPanics
              \/ (\E n \in Nodes : ScheduleOne(n)) \/ UNCHANGED pvars
      PROVE  UNCHANGED <<seen, replaced>>
  BY <1>5 DEF StartPass, QueueExhausted, PreemptPanics, ScheduleOne, pvars, history
<1>6. ASSUME Preempt PROVE UNCHANGED <<seen, replaced>>
  <2>1. FrontPod \in Pods /\ PreemptOthers(FrontPod) /\ seen' = seen
    BY <1>0, <1>6, FrontIs DEF Preempt, FitError, Trying
  <2> QED BY <1>0, <2>1, PreemptCases DEF NoPreemption, ClearNomination, EvictOn, history
<1> QED BY <1>a, <1>2, <1>3, <1>4, <1>5, <1>6 DEF PNext

LEMMA NextRoom ==
    ASSUME IsFiniteSet(Pods), RInv, [PNext]_pvars, NEW n \in Nodes
    PROVE  RoomOn(n)'
<1>0. /\ PInv /\ HeapRanked /\ Types /\ Unplaced /\ NominationsLive /\ Arrived /\ RoomOn(n)
  BY DEF RInv, PInv
<1>a. ASSUME UNCHANGED <<host, boundAt, nominatedPods>>, intruded \subseteq intruded',
             replaced \subseteq replaced'
      PROVE  RoomOn(n)'
  <2>1. NominatedPods(n)' = NominatedPods(n)
    BY <1>a DEF NominatedPods
  <2>2. RunningOn(n)' \subseteq RunningOn(n)
    BY <1>0, <1>a, RunningShrinks
  <2>3. Calm(n)
    BY <1>a, <2>1, <2>2 DEF Calm
  <2> QED BY <1>0, <2>3, CalmKeeps
<1>b. ASSUME NEW p \in Pods, RemoveNominatedNode(p), UNCHANGED <<host, boundAt, replaced>>,
             intruded' = intruded \ {p}
      PROVE  RoomOn(n)'
  <2>1. NominatedPods(n)' \subseteq NominatedPods(n) \ {p}
    BY <1>0, <1>b, RemovedNominations
  <2>2. RunningOn(n)' \subseteq RunningOn(n)
    BY <1>0, <1>b, RunningShrinks
  <2>3. Calm(n)
    BY <1>b, <2>1, <2>2 DEF Calm
  <2> QED BY <1>0, <2>3, CalmKeeps
<1>1. ASSUME NEW p \in Pods, Submit(p) PROVE RoomOn(n)'
  BY <1>a, <1>1 DEF Submit, nominations, podVars, history
<1>2. ASSUME NEW k \in Deleted, DeleteEvent(k) PROVE RoomOn(n)'
  <2>1. CASE k \in Stored(inner)
    <3>1. Pending(k) \in Pods
      BY <1>0, <2>1, HeapFacts
    <3> QED BY <1>2, <1>b, <2>1, <3>1 DEF DeleteEvent, podVars
  <2>2. CASE k \notin Stored(inner)
    BY <1>2, <1>a, <2>2 DEF DeleteEvent, nominations, history
  <2> QED BY <2>1, <2>2
<1>3. ASSUME NEW p \in Pods, UpdateEvent(p) PROVE RoomOn(n)'
  BY <1>3, <1>a DEF UpdateEvent, nominations, podVars
<1>4. CASE StartPass \/ QueueExhausted \/ PreemptPanics \/ UNCHANGED pvars
  BY <1>4, <1>a DEF StartPass, QueueExhausted, PreemptPanics, pvars, vars, nominations, podVars, history
<1>5. ASSUME NEW m \in Nodes, ScheduleOne(m) PROVE RoomOn(n)'
  <2> DEFINE p == FrontPod
  <2>1. p \in Pods /\ KeyOf[p] \in Keys /\ Pending(KeyOf[p]) = p
    BY <1>0, <1>5, FrontIs DEF ScheduleOne, Trying
  <2>2. /\ podFitsOnNode(p, m, NodeInfo(m)) /\ RemoveNominatedNode(p)
        /\ host' = [host EXCEPT ![p] = m] /\ boundAt' = [boundAt EXCEPT ![p] = clock]
        /\ intruded' = (intruded \ {p}) \cup {q \in NominatedPods(m) : Priority[q] < Priority[p]}
        /\ UNCHANGED <<clock, deletedAt, replaced>>
    BY <1>5 DEF ScheduleOne
  <2> HIDE DEF p
  <2>3. NominatedPods(n)' \subseteq NominatedPods(n) \ {p}
    BY <1>0, <2>1, <2>2, RemovedNominations
  <2>4. \A q \in Pods \ {p} : q \in RunningOn(n)' => q \in RunningOn(n)
    <3>1. \A q \in Pods \ {p} : host'[q] = host[q] /\ boundAt'[q] = boundAt[q]
      BY <1>0, <2>2 DEF Types
    <3> QED BY <2>2, <3>1 DEF RunningOn, RunningAndTerminating, IsRunning, IsTerminating
  <2>5. RunningOn(n)' \subseteq Pods
    BY DEF RunningOn, RunningAndTerminating
  <2>6. CASE n # m
    <3>1. p \notin RunningOn(n)'
      <4>1. host'[p] = m
        BY <1>0, <2>1, <2>2 DEF Types
      <4> QED BY <2>6, <4>1 DEF RunningOn, RunningAndTerminating
    <3>2. Calm(n)
      BY <2>2, <2>3, <2>4, <2>5, <3>1 DEF Calm
    <3> QED BY <1>0, <3>2, CalmKeeps
  <2>7. CASE n = m
    <3> SUFFICES ASSUME NEW r \in NominatedPods(n)' \ ((intruded \cup replaced)' \cup Replacements)
                 PROVE  Total(RunningOn(n) \cup NominatedAbove(n, r))' <= Capacity
      BY DEF RoomOn
    <3> DEFINE T == (RunningOn(n) \cup NominatedAbove(n, r))'
               R == RunningAndTerminating(n)
    <3>1. r \in NominatedPods(n) /\ r \in Pods
      BY <1>0, <2>3, NominatedFacts
    <3>2. \A q \in NominatedPods(n) : Priority[q] \in Int
      BY <1>0, NominatedFacts, PodAssumption
    <3>3. Priority[r] >= Priority[p]
      BY <2>1, <2>2, <2>3, <2>7, <3>1, PodAssumption
    <3>4. T \in SUBSET (R \cup {p} \cup
                 {q \in NominatedPods(n) \ Replacements : Priority[q] >= Priority[p]})
      <4>1. RunningOn(n) \subseteq R
        BY DEF RunningOn
      <4>2. ASSUME NEW q \in NominatedAbove(n, r)'
            PROVE  q \in NominatedPods(n) \ Replacements /\ Priority[q] >= Priority[p]
        <5>1. q \in NominatedPods(n) \ Replacements /\ Priority[q] >= Priority[r]
          BY <2>3, <4>2 DEF NominatedAbove
        <5>2. Priority[r] \in Int /\ Priority[q] \in Int /\ Priority[p] \in Int
          BY <2>1, <3>1, <3>2, <5>1, PodAssumption
        <5> QED BY <3>3, <5>1, <5>2
      <4> QED BY <2>4, <2>5, <4>1, <4>2
    <3>5. R \in SUBSET Pods /\ podFitsOnNode(p, n, Total(R))
      BY <2>2, <2>7 DEF RunningAndTerminating, NodeInfo
    <3> HIDE DEF T, R
    <3>6. Total(T) <= Capacity
      BY <1>0, <2>1, <3>4, <3>5, FitsRoom
    <3> QED BY <3>6 DEF T, Total, MapThenSumSet, MapThenFoldSet
  <2> QED BY <2>6, <2>7
<1>6. CASE Preempt
  <2> DEFINE p == FrontPod
  <2>1. p \in Pods /\ KeyOf[p] \in Keys /\ Pending(KeyOf[p]) = p
    BY <1>0, <1>6, FrontIs DEF Preempt, FitError, Trying
  <2>2. PreemptOthers(p)
    BY <1>6 DEF Preempt
  <2> HIDE DEF p
  <2>3. CASE NoPreemption(p)
    BY <1>a, <2>3 DEF NoPreemption, nominations, podVars, history
  <2>4. CASE ClearNomination(p)
    BY <1>b, <2>1, <2>4 DEF ClearNomination, podVars
  <2>5. ASSUME NEW m \in Nodes, NEW X \in SUBSET LowerOn(p, m), EvictOn(p, m, X),
               podFitsOnNode(p, m, Total(RunningAndTerminating(m) \ X))
        PROVE  RoomOn(n)'
    <3> DEFINE L == {q \in NominatedPods(m) : Priority[q] < Priority[p]}
    <3>1. /\ DeletePods(X) /\ UNCHANGED <<host, boundAt, replaced>>
          /\ intruded' = intruded \ (L \cup {p})
      BY <2>5 DEF EvictOn
    <3>2. RunningOn(n)' \subseteq RunningOn(n)
      BY <1>0, <3>1, RunningShrinks
    <3>3. CASE n # m
      <4>1. \A q \in NominatedPods(n)' : q \in NominatedPods(n) \ {p}
        BY <1>0, <2>1, <2>5, <3>3, EvictedNominations
      <4>2. \A q \in NominatedPods(n) : q \notin L
        BY <1>0, <3>3, NominatedFacts
      <4> HIDE DEF L
      <4>3. Calm(n)
        BY <3>1, <3>2, <4>1, <4>2 DEF Calm
      <4> QED BY <1>0, <4>3, CalmKeeps
    <3>4. CASE n = m
      <4> SUFFICES ASSUME NEW r \in NominatedPods(n)' \ ((intruded \cup replaced)' \cup Replacements)
                   PROVE  Total(RunningOn(n) \cup NominatedAbove(n, r))' <= Capacity
        BY DEF RoomOn
      <4> DEFINE T == (RunningOn(n) \cup NominatedAbove(n, r))'
                 R == RunningAndTerminating(n) \ X
      <4>1. \A q \in NominatedPods(n)' : q = p \/ (q \in NominatedPods(n) /\ Priority[q] >= Priority[p])
        BY <1>0, <2>1, <2>5, <3>4, EvictedNominations
      <4>2. \A q \in NominatedPods(n) : q \in Pods
        BY <1>0, NominatedFacts
      <4>3. RunningOn(n)' \subseteq R
        <5>1. ASSUME NEW q \in RunningOn(n), q \in X PROVE q \notin RunningOn(n)'
          <6>1. q \in Pods /\ IsRunning(q)
            BY <5>1 DEF RunningOn, RunningAndTerminating
          <6>2. deletedAt'[q] # Never
            BY <1>0, <3>1, <5>1, <6>1, DeletePodsTypes
          <6> QED BY <6>2 DEF RunningOn, IsRunning
        <5> QED BY <3>2, <5>1 DEF RunningOn
      <4>4. T \in SUBSET (R \cup {p} \cup
                 {q \in NominatedPods(n) \ Replacements : Priority[q] >= Priority[p]})
        <5>1. ASSUME NEW q \in NominatedAbove(n, r)', q # p
              PROVE  q \in NominatedPods(n) \ Replacements /\ Priority[q] >= Priority[p]
          BY <4>1, <5>1 DEF NominatedAbove
        <5> QED BY <4>3, <5>1
      <4>5. R \in SUBSET Pods /\ podFitsOnNode(p, n, Total(R))
        BY <2>5, <3>4 DEF RunningAndTerminating
      <4> HIDE DEF T, R
      <4>6. Total(T) <= Capacity
        BY <1>0, <2>1, <4>4, <4>5, FitsRoom
      <4> QED BY <4>6 DEF T, Total, MapThenSumSet, MapThenFoldSet
    <3> QED BY <3>3, <3>4
  <2> QED BY <1>0, <2>1, <2>2, <2>3, <2>4, <2>5, PreemptCases
<1> QED BY <1>1, <1>2, <1>3, <1>4, <1>5, <1>6 DEF PNext

\* What preemption frees is kept for the pod it was freed for
\* (generic_scheduler_k8s.go:295), until a pod of higher priority is bound there.
THEOREM PreemptionReservedRoom ==
    ASSUME IsFiniteSet(Pods)
    PROVE  PSpec => []ReservedRoom
<1>1. PInit => RInv
  <2> SUFFICES ASSUME PInit PROVE RInv
    OBVIOUS
  <2>1. \A n \in Nodes : NominatedPods(n) = {}
    BY DEF PInit, Init, NominatedPods
  <2>2. \A n \in Nodes : RoomOn(n)
    BY <2>1 DEF RoomOn
  <2>3. Arrived
    <3>1. \A p \in Placed : host[p] \in Nodes /\ host[p] # NoNode
      BY PlaceAssumption, NoNodeAssumption DEF PInit, Placements
    <3> QED BY <3>1 DEF Arrived, PInit
  <2> QED BY <2>2, <2>3, InitPInv DEF RInv
<1>2. RInv /\ [PNext]_pvars => RInv'
  <2>1. PInv /\ [PNext]_pvars => PInv'
    BY NextHeap, NextTypes, NextUnplaced, NextNominations, NextEvicted DEF PInv
  <2> QED BY <2>1, NextArrived, NextRoom DEF RInv
<1>3. RInv => ReservedRoom
  BY DEF RInv, RoomOn, RunningOn, NominatedAbove, ReservedRoom
<1> QED BY <1>1, <1>2, <1>3, PTL DEF PSpec
=============================================================================
