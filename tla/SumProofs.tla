------------------------------ MODULE SumProofs ------------------------------
(***************************************************************************)
(* Facts that several proofs need: induction on numbers in the form of     *)
(* sets, and sums over finite sets.  A sum of numbers is the cardinality   *)
(* of the set of their units, so that the library's theorems on finite     *)
(* sets apply to it; the folds of the community modules compute it.        *)
(***************************************************************************)
EXTENDS Integers, Sequences, FiniteSets, FiniteSetTheorems, WellFoundedInduction, TLAPS

-----------------------------------------------------------------------------
(* Induction on numbers.                                                   *)

\* A set of numbers has a least element.
LEMMA NatMin ==
    ASSUME NEW T, T \subseteq Nat, T # {}
    PROVE  \E x \in T : \A y \in T : x <= y
<1> DEFINE R == {ss \in Nat \X Nat : ss[1] < ss[2]}
<1>1. IsWellFoundedOn(R, Nat)
  BY NatLessThanWellFounded DEF OpToRel
<1> HIDE DEF R
<1>2. PICK x \in T : \A y \in T : ~(<<y, x>> \in R)
  BY <1>1, WFMin
<1>3. \A y \in T : ~ (y < x)
  BY <1>2 DEF R
<1> QED BY <1>3

LEMMA Induction ==
    ASSUME NEW S, 0 \in S, \A n \in Nat : n \in S => n + 1 \in S
    PROVE  Nat \subseteq S
<1> SUFFICES ASSUME NEW m \in Nat, m \notin S PROVE FALSE
  OBVIOUS
<1> DEFINE T == {n \in Nat : n \notin S}
<1>1. PICK x \in T : \A y \in T : x <= y
  <2>1. T \subseteq Nat /\ T # {}
    OBVIOUS
  <2> HIDE DEF T
  <2> QED BY <2>1, NatMin
<1>2. x # 0 /\ x \in Nat /\ x - 1 \in Nat
  OBVIOUS
<1>3. x - 1 \notin T
  BY <1>1, <1>2
<1>4. x - 1 \in S
  BY <1>2, <1>3
<1> QED BY <1>2, <1>4

-----------------------------------------------------------------------------
(* Sums.                                                                   *)

\* The sum of f over a finite set: the number of its units.
Units(S, f) == UNION {{k} \X (1 .. f[k]) : k \in S}
SumOf(S, f) == Cardinality(Units(S, f))

\* There are finitely many units.
LEMMA UnitsFinite ==
    ASSUME NEW S, IsFiniteSet(S), NEW f, \A k \in S : f[k] \in Nat
    PROVE  IsFiniteSet(Units(S, f)) /\ SumOf(S, f) \in Nat
<1> DEFINE unit == [k \in S |-> {k} \X (1 .. f[k])]
           all == {unit[k] : k \in S}
<1>1. unit \in Surjection(S, all)
  BY DEF Surjection
<1>2. IsFiniteSet(all)
  BY <1>1, FS_Surjection
<1>3. \A k \in S : IsFiniteSet(unit[k])
  <2> TAKE k \in S
  <2>1. IsFiniteSet({k})
    BY FS_Singleton
  <2>2. f[k] \in Int /\ 1 \in Int
    OBVIOUS
  <2>3. IsFiniteSet(1 .. f[k])
    BY <2>2, FS_Interval
  <2> QED BY <2>1, <2>3, FS_Product
<1>4. IsFiniteSet(UNION all)
  <2> HIDE DEF all
  <2>1. \A T \in all : IsFiniteSet(T)
    BY <1>3 DEF all
  <2> QED BY <1>2, <2>1, FS_UNION
<1>5. Units(S, f) = UNION all
  BY DEF Units
<1> QED BY <1>4, <1>5, FS_CardinalityType DEF SumOf

\* The sum over nothing.
LEMMA SumEmpty == ASSUME NEW f PROVE SumOf({}, f) = 0
<1>1. Units({}, f) = {}
  BY DEF Units
<1> QED BY <1>1, FS_EmptySet DEF SumOf

\* One more term.
LEMMA SumAdd ==
    ASSUME NEW S, IsFiniteSet(S), NEW f, \A k \in S : f[k] \in Nat,
           NEW x, x \notin S, f[x] \in Nat
    PROVE  SumOf(S \cup {x}, f) = SumOf(S, f) + f[x]
<1> DEFINE more == {x} \X (1 .. f[x])
<1>1. Units(S \cup {x}, f) = Units(S, f) \cup more
  BY DEF Units
<1>2. Units(S, f) \cap more = {}
  BY DEF Units
<1>3. IsFiniteSet(more) /\ Cardinality(more) = f[x]
  <2>1. IsFiniteSet({x}) /\ Cardinality({x}) = 1
    BY FS_Singleton
  <2>2. IsFiniteSet(1 .. f[x]) /\ Cardinality(1 .. f[x]) = f[x]
    BY FS_Interval
  <2>3. IsFiniteSet(more) /\ Cardinality(more) = 1 * f[x]
    <3> DEFINE one == {x}
               up == 1 .. f[x]
    <3>1. IsFiniteSet(one) /\ IsFiniteSet(up) /\ Cardinality(one) = 1 /\ Cardinality(up) = f[x]
      BY <2>1, <2>2
    <3> HIDE DEF one, up
    <3>2. IsFiniteSet(one \X up) /\ Cardinality(one \X up) = Cardinality(one) * Cardinality(up)
      BY <3>1, FS_Product
    <3>3. more = one \X up
      BY DEF one, up
    <3> QED BY <3>1, <3>2, <3>3
  <2> QED BY <2>3
<1>4. IsFiniteSet(Units(S, f)) /\ Cardinality(Units(S, f)) \in Nat
  BY UnitsFinite DEF SumOf
<1> HIDE DEF more
<1>5. Cardinality(Units(S, f) \cup more)
          = Cardinality(Units(S, f)) + Cardinality(more) - Cardinality({})
  BY <1>2, <1>3, <1>4, FS_Union
<1>6. Cardinality({}) = 0
  BY FS_EmptySet
<1>7. Cardinality(Units(S, f) \cup more) = Cardinality(Units(S, f)) + f[x]
  BY <1>3, <1>4, <1>5, <1>6
<1> QED BY <1>1, <1>7 DEF SumOf

\* One term less.
LEMMA SumRemove ==
    ASSUME NEW S, IsFiniteSet(S), NEW f, \A k \in S : f[k] \in Nat, NEW x \in S
    PROVE  SumOf(S, f) = SumOf(S \ {x}, f) + f[x]
<1>1. IsFiniteSet(S \ {x}) /\ \A k \in S \ {x} : f[k] \in Nat
  BY FS_RemoveElement
<1>2. (S \ {x}) \cup {x} = S
  OBVIOUS
<1>3. f[x] \in Nat /\ x \notin S \ {x}
  OBVIOUS
<1>4. SumOf((S \ {x}) \cup {x}, f) = SumOf(S \ {x}, f) + f[x]
  BY <1>1, <1>3, SumAdd
<1> QED BY <1>2, <1>4

\* A sum depends on its terms only.
LEMMA SumSame ==
    ASSUME NEW S, NEW f, NEW g, \A k \in S : f[k] = g[k]
    PROVE  SumOf(S, f) = SumOf(S, g)
<1>1. Units(S, f) = Units(S, g)
  BY DEF Units
<1> QED BY <1>1 DEF SumOf

\* A sum over a part is less, and the sum of the parts is that of the whole.
LEMMA SumPart ==
    ASSUME NEW S, IsFiniteSet(S), NEW f, \A k \in S : f[k] \in Nat, NEW T \in SUBSET S
    PROVE  /\ IsFiniteSet(T) /\ SumOf(T, f) \in Nat /\ SumOf(S, f) \in Nat
           /\ SumOf(T, f) <= SumOf(S, f)
<1>1. Units(T, f) \subseteq Units(S, f)
  BY DEF Units
<1>2. IsFiniteSet(T) /\ \A k \in T : f[k] \in Nat
  BY FS_Subset
<1>3. IsFiniteSet(Units(S, f)) /\ SumOf(S, f) \in Nat /\ SumOf(T, f) \in Nat
  BY <1>2, UnitsFinite
<1> QED BY <1>1, <1>2, <1>3, FS_Subset DEF SumOf

LEMMA SumUnion ==
    ASSUME NEW S, IsFiniteSet(S), NEW T, IsFiniteSet(T),
           NEW f, \A k \in S \cup T : f[k] \in Nat
    PROVE  /\ SumOf(S \cup T, f) <= SumOf(S, f) + SumOf(T, f)
           /\ S \cap T = {} => SumOf(S \cup T, f) = SumOf(S, f) + SumOf(T, f)
<1>1. Units(S \cup T, f) = Units(S, f) \cup Units(T, f)
  BY DEF Units
<1>2. /\ IsFiniteSet(Units(S, f)) /\ Cardinality(Units(S, f)) \in Nat
      /\ IsFiniteSet(Units(T, f)) /\ Cardinality(Units(T, f)) \in Nat
  BY UnitsFinite DEF SumOf
<1>3. S \cap T = {} => Units(S, f) \cap Units(T, f) = {}
  BY DEF Units
<1>4. Cardinality({}) = 0
  BY FS_EmptySet
<1> DEFINE A == Units(S, f)
           B == Units(T, f)
<1> HIDE DEF A, B
<1>5. IsFiniteSet(A \cap B) /\ Cardinality(A \cap B) \in Nat
  <2>1. IsFiniteSet(A \cap B)
    BY <1>2, FS_Intersection DEF A
  <2> QED BY <2>1, FS_CardinalityType
<1>6. Cardinality(A \cup B) = Cardinality(A) + Cardinality(B) - Cardinality(A \cap B)
  BY <1>2, FS_Union DEF A, B
<1>7. SumOf(S, f) = Cardinality(A) /\ SumOf(T, f) = Cardinality(B)
      /\ SumOf(S \cup T, f) = Cardinality(A \cup B)
  BY <1>1 DEF SumOf, A, B
<1>8. Cardinality(A) \in Nat /\ Cardinality(B) \in Nat
  BY <1>2 DEF A, B
<1>9. S \cap T = {} => A \cap B = {}
  BY <1>3 DEF A, B
<1>10. SumOf(S \cup T, f) <= SumOf(S, f) + SumOf(T, f)
  BY <1>5, <1>6, <1>7, <1>8
<1>11. ASSUME S \cap T = {} PROVE SumOf(S \cup T, f) = SumOf(S, f) + SumOf(T, f)
  <2>1. Cardinality(A \cap B) = 0
    BY <1>4, <1>9, <1>11
  <2> QED BY <1>6, <1>7, <1>8, <2>1
<1> QED BY <1>10, <1>11

\* What is left of a sum without a part.
LEMMA SumWithout ==
    ASSUME NEW S, IsFiniteSet(S), NEW f, \A k \in S : f[k] \in Nat, NEW T \in SUBSET S
    PROVE  SumOf(S \ T, f) = SumOf(S, f) - SumOf(T, f)
<1>1. /\ IsFiniteSet(T) /\ IsFiniteSet(S \ T)
      /\ SumOf(T, f) \in Nat /\ SumOf(S \ T, f) \in Nat
  BY SumPart
<1>2. (S \ T) \cup T = S /\ (S \ T) \cap T = {}
  OBVIOUS
<1>3. SumOf((S \ T) \cup T, f) = SumOf(S \ T, f) + SumOf(T, f)
  <2>1. \A k \in (S \ T) \cup T : f[k] \in Nat
    OBVIOUS
  <2> QED BY <1>1, <1>2, <2>1, SumUnion
<1>4. SumOf((S \ T) \cup T, f) = SumOf(S, f)
  BY <1>2
<1> QED BY <1>1, <1>3, <1>4

\* A sum can be taken over other names of its terms.
LEMMA SumRenamed ==
    ASSUME NEW S, IsFiniteSet(S), NEW f, \A k \in S : f[k] \in Nat,
           NEW T, NEW g, NEW r \in [S -> T],
           \A i, j \in S : r[i] = r[j] => i = j, \A t \in T : \E i \in S : r[i] = t,
           \A i \in S : g[r[i]] = f[i]
    PROVE  SumOf(T, g) = SumOf(S, f)
<1> DEFINE b == [u \in Units(S, f) |-> <<r[u[1]], u[2]>>]
<1>1. \A u : u \in Units(S, f) <=> \E i \in S : \E m \in 1 .. f[i] : u = <<i, m>>
  BY DEF Units
<1>2. \A u : u \in Units(T, g) <=> \E t \in T : \E m \in 1 .. g[t] : u = <<t, m>>
  BY DEF Units
<1>3. b \in [Units(S, f) -> Units(T, g)]
  <2>1. ASSUME NEW u \in Units(S, f) PROVE <<r[u[1]], u[2]>> \in Units(T, g)
    <3>1. PICK i \in S : \E m \in 1 .. f[i] : u = <<i, m>>
      BY <1>1
    <3>a. PICK m \in 1 .. f[i] : u = <<i, m>>
      BY <3>1
    <3>2. r[i] \in T /\ m \in 1 .. g[r[i]] /\ u[1] = i /\ u[2] = m
      BY <3>a
    <3> QED BY <1>2, <3>2
  <2> QED BY <2>1
<1>4. \A u, v \in Units(S, f) : b[u] = b[v] => u = v
  <2>1. ASSUME NEW u \in Units(S, f), NEW v \in Units(S, f), b[u] = b[v] PROVE u = v
    <3>1. PICK i \in S : \E m \in 1 .. f[i] : u = <<i, m>>
      BY <1>1
    <3>a. PICK m \in 1 .. f[i] : u = <<i, m>>
      BY <3>1
    <3>2. PICK j \in S : \E l \in 1 .. f[j] : v = <<j, l>>
      BY <1>1
    <3>b. PICK l \in 1 .. f[j] : v = <<j, l>>
      BY <3>2
    <3>3. b[u] = <<r[i], m>> /\ b[v] = <<r[j], l>>
      BY <3>a, <3>b
    <3>4. r[i] = r[j] /\ m = l
      BY <2>1, <3>3
    <3> QED BY <3>a, <3>b, <3>4
  <2> QED BY <2>1
<1>5. \A w \in Units(T, g) : \E u \in Units(S, f) : b[u] = w
  <2>1. ASSUME NEW w \in Units(T, g) PROVE \E u \in Units(S, f) : b[u] = w
    <3>1. PICK t \in T : \E m \in 1 .. g[t] : w = <<t, m>>
      BY <1>2
    <3>a. PICK m \in 1 .. g[t] : w = <<t, m>>
      BY <3>1
    <3>2. PICK i \in S : r[i] = t
      OBVIOUS
    <3>3. <<i, m>> \in Units(S, f)
      BY <1>1, <3>a, <3>2
    <3> QED BY <3>a, <3>2, <3>3
  <2> QED BY <2>1
<1> HIDE DEF b
<1>6. b \in Bijection(Units(S, f), Units(T, g))
  <2>1. b \in Injection(Units(S, f), Units(T, g))
    BY <1>3, <1>4 DEF Injection, IsInjective
  <2>2. b \in Surjection(Units(S, f), Units(T, g))
    BY <1>3, <1>5 DEF Surjection
  <2> QED BY <2>1, <2>2 DEF Bijection
<1>7. IsFiniteSet(Units(S, f))
  BY UnitsFinite
<1> QED BY <1>6, <1>7, FS_Bijection DEF SumOf, ExistsBijection

-----------------------------------------------------------------------------
(* Folds.  acc adds f over the subsets of S, taking the element c[s] first. *)

Accumulates(S, f, c, acc) ==
    acc = [s \in SUBSET S |-> IF s = {} THEN 0 ELSE f[c[s]] + acc[s \ {c[s]}]]

LEMMA AccumulatorExists ==
    ASSUME NEW S, IsFiniteSet(S), NEW f, \A k \in S : f[k] \in Nat,
           NEW c, \A s \in SUBSET S : s # {} => c[s] \in s
    PROVE  \E acc : Accumulates(S, f, c, acc)
<1> DEFINE sum == [s \in SUBSET S |-> SumOf(s, f)]
<1>1. ASSUME NEW s \in SUBSET S
      PROVE  SumOf(s, f) = IF s = {} THEN 0 ELSE f[c[s]] + sum[s \ {c[s]}]
  <2>1. CASE s = {}
    BY <2>1, SumEmpty
  <2>2. CASE s # {}
    <3>1. IsFiniteSet(s) /\ c[s] \in s
      BY <2>2, FS_Subset
    <3>2. SumOf(s, f) = SumOf(s \ {c[s]}, f) + f[c[s]]
      BY <3>1, SumRemove
    <3>3. SumOf(s \ {c[s]}, f) \in Nat
      BY SumPart
    <3>4. sum[s \ {c[s]}] = SumOf(s \ {c[s]}, f) /\ f[c[s]] \in Nat
      BY <3>1
    <3> QED BY <2>2, <3>2, <3>3, <3>4
  <2> QED BY <2>1, <2>2
<1>2. sum = [s \in SUBSET S |-> IF s = {} THEN 0 ELSE f[c[s]] + sum[s \ {c[s]}]]
  BY <1>1
<1> HIDE DEF sum
<1> QED BY <1>2 DEF Accumulates

\* A function on the subsets of S that adds one term of f for one element more.
LEMMA StepwiseSum ==
    ASSUME NEW S, IsFiniteSet(S), NEW f, \A k \in S : f[k] \in Nat,
           NEW acc, acc[{}] = 0,
           \A s \in SUBSET S : s # {} =>
              \E x \in s : acc[s \ {x}] \in Nat => acc[s] = f[x] + acc[s \ {x}]
    PROVE  acc[S] = SumOf(S, f)
<1> DEFINE D == {n \in Nat : \A s \in SUBSET S : Cardinality(s) = n => acc[s] = SumOf(s, f)}
<1>1. 0 \in D
  <2> SUFFICES ASSUME NEW s \in SUBSET S, Cardinality(s) = 0 PROVE acc[s] = SumOf(s, f)
    OBVIOUS
  <2>1. s = {}
    BY FS_Subset, FS_EmptySet
  <2> QED BY <2>1, SumEmpty
<1>2. ASSUME NEW n \in Nat, n \in D PROVE n + 1 \in D
  <2> SUFFICES ASSUME NEW s \in SUBSET S, Cardinality(s) = n + 1 PROVE acc[s] = SumOf(s, f)
    OBVIOUS
  <2>1. IsFiniteSet(s) /\ s # {}
    BY FS_Subset, FS_EmptySet
  <2>2. PICK x \in s : acc[s \ {x}] \in Nat => acc[s] = f[x] + acc[s \ {x}]
    BY <2>1
  <2>3. Cardinality(s \ {x}) = n
    <3>1. Cardinality(s \ {x}) = Cardinality(s) - 1
      BY <2>1, <2>2, FS_RemoveElement
    <3> QED BY <3>1
  <2>4. acc[s \ {x}] = SumOf(s \ {x}, f)
    BY <1>2, <2>3
  <2>5. SumOf(s, f) = SumOf(s \ {x}, f) + f[x]
    BY <2>1, <2>2, SumRemove
  <2>6. SumOf(s \ {x}, f) \in Nat /\ f[x] \in Nat
    BY <2>2, SumPart
  <2> QED BY <2>2, <2>4, <2>5, <2>6
<1> HIDE DEF D
<1>3. Cardinality(S) \in D
  BY <1>1, <1>2, Induction, FS_CardinalityType
<1> QED BY <1>3 DEF D

LEMMA AccumulatorSums ==
    ASSUME NEW S, IsFiniteSet(S), NEW f, \A k \in S : f[k] \in Nat,
           NEW c, \A s \in SUBSET S : s # {} => c[s] \in s,
           NEW acc, Accumulates(S, f, c, acc)
    PROVE  acc[S] = SumOf(S, f)
<1>1. \A s \in SUBSET S : acc[s] = IF s = {} THEN 0 ELSE f[c[s]] + acc[s \ {c[s]}]
  BY DEF Accumulates
<1>2. acc[{}] = 0
  <2>1. {} \in SUBSET S
    OBVIOUS
  <2> QED BY <1>1, <2>1
<1>3. ASSUME NEW s \in SUBSET S, s # {} PROVE acc[s] = f[c[s]] + acc[s \ {c[s]}] /\ c[s] \in s
  BY <1>1, <1>3
<1> QED BY <1>2, <1>3, StepwiseSum
=============================================================================
