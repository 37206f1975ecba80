-------------------------- MODULE CollectionLemmas --------------------------
(***************************************************************************)
(* What the proofs need of finite sets, sequences, sums and the natural    *)
(* numbers.                                                                *)
(***************************************************************************)
EXTENDS Integers, Sequences, Functions, FiniteSetTheorems, NaturalsInduction, WellFoundedInduction,
        TLAPS

\* A set of natural numbers has a least member.
LEMMA LeastNat ==
  ASSUME NEW S \in SUBSET Nat, S # {}
  PROVE  \E i \in S : \A j \in S : i <= j
<1> DEFINE R == OpToRel(<, Nat)
<1>1. IsWellFoundedOn(R, Nat)
  BY NatLessThanWellFounded
<1>2. \A x, y \in Nat : x < y => <<x, y>> \in R
  BY DEF OpToRel
<1> HIDE DEF R
<1>3. \E i \in S : \A j \in S : ~(<<j, i>> \in R)
  BY <1>1, WFMin
<1>4. PICK i \in S : \A j \in S : ~(<<j, i>> \in R)
  BY <1>3
<1>5. \A j \in S : ~(j < i) /\ j \in Nat /\ i \in Nat
  BY <1>2, <1>4
<1> QED
  BY <1>4, <1>5

\* A set that gains a member has one more, one that loses a member has one less.
LEMMA OneMore ==
  ASSUME NEW S, NEW x, IsFiniteSet(S), x \notin S
  PROVE  /\ IsFiniteSet(S \cup {x})
         /\ Cardinality(S \cup {x}) = Cardinality(S) + 1
  BY FS_AddElement

LEMMA OneLess ==
  ASSUME NEW S, NEW x, IsFiniteSet(S), x \in S
  PROVE  /\ Cardinality(S \ {x}) = Cardinality(S) - 1
         /\ Cardinality(S) > 0
<1>1. Cardinality(S) \in Nat /\ Cardinality(S) # 0
  BY FS_CardinalityType, FS_EmptySet
<1> QED
  BY <1>1, FS_RemoveElement

\* A set that has no two members has at most one.
LEMMA AtMostOne ==
  ASSUME NEW S, \A x, y \in S : x = y
  PROVE  IsFiniteSet(S) /\ Cardinality(S) \in 0..1 /\ (S = {} => Cardinality(S) = 0)
<1>1. CASE S = {}
  BY <1>1, FS_EmptySet
<1>2. CASE S # {}
  <2>1. PICK x : S = {x}
    BY <1>2
  <2> QED
    BY <2>1, FS_Singleton
<1> QED
  BY <1>1, <1>2

\* The members of a sequence are no more than its length, and as many only if no two
\* places hold the same.
LEMMA SequenceSet ==
  ASSUME NEW n \in Nat, NEW f, DOMAIN f = 1..n, f = [i \in 1..n |-> f[i]],
         NEW S, S = {f[i] : i \in 1..n}
  PROVE  /\ IsFiniteSet(S) /\ Cardinality(S) \in Nat /\ Cardinality(S) <= n
         /\ Cardinality(S) = n <=> \A i, j \in 1..n : i # j => f[i] # f[j]
<1>1. f \in Surjection(1..n, S)
  <2>1. f \in [1..n -> S]
    OBVIOUS
  <2>2. \A t \in S : \E i \in 1..n : f[i] = t
    OBVIOUS
  <2> QED
    BY <2>1, <2>2 DEF Surjection
<1>2. IsFiniteSet(1..n) /\ Cardinality(1..n) = n
  BY FS_Interval
<1>3. IsFiniteSet(S) /\ Cardinality(S) <= n /\ (Cardinality(S) = n <=> f \in Injection(1..n, S))
  BY <1>1, <1>2, FS_Surjection
<1>4. f \in Injection(1..n, S) <=> \A i, j \in 1..n : i # j => f[i] # f[j]
  <2>1. f \in [1..n -> S]
    OBVIOUS
  <2> QED
    BY <2>1 DEF Injection, IsInjective
<1> QED
  BY <1>3, <1>4, FS_CardinalityType

LEMMA SequenceTyped ==
  ASSUME NEW S, NEW s \in Seq(S)
  PROVE  /\ Len(s) \in Nat /\ DOMAIN s = 1..Len(s)
         /\ \A i \in 1..Len(s) : s[i] \in S
  OBVIOUS
-----------------------------------------------------------------------------
\* Induction over the natural numbers and over the finite sets, of sets instead of
\* formulas.
LEMMA NatSet ==
  ASSUME NEW G, 0 \in G, \A n \in Nat : n \in G => n + 1 \in G
  PROVE  \A n \in Nat : n \in G
<1> DEFINE Bad == {n \in Nat : n \notin G}
<1> SUFFICES ASSUME Bad # {} PROVE FALSE
  OBVIOUS
<1>1. PICK m \in Bad : \A j \in Bad : m <= j
  BY LeastNat
<1>2. m \in Nat /\ m # 0 /\ m \notin G
  BY <1>1
<1>3. m - 1 \in Nat /\ (m - 1) + 1 = m /\ ~(m <= m - 1)
  BY <1>2
<1>4. m - 1 \in G
  BY <1>1, <1>3
<1>5. (m - 1) + 1 \in G
  BY <1>3, <1>4
<1> QED
  BY <1>2, <1>3, <1>5

LEMMA SizedSets ==
  ASSUME NEW S, IsFiniteSet(S), NEW G,
         {} \in G,
         \A s \in SUBSET S : s # {} /\ (\A x \in s : s \ {x} \in G) => s \in G
  PROVE  S \in G
<1> DEFINE H == {n \in Nat : \A s \in SUBSET S : Cardinality(s) = n => s \in G}
<1>1. \A s \in SUBSET S : IsFiniteSet(s) /\ Cardinality(s) \in Nat
  BY FS_Subset, FS_CardinalityType
<1>2. 0 \in H
  <2>1. \A s \in SUBSET S : Cardinality(s) = 0 => s = {}
    BY <1>1, FS_EmptySet
  <2> QED
    BY <2>1
<1>3. ASSUME NEW n \in Nat, n \in H PROVE n + 1 \in H
  <2> SUFFICES ASSUME NEW s \in SUBSET S, Cardinality(s) = n + 1 PROVE s \in G
    OBVIOUS
  <2>1. s # {}
    BY <1>3, FS_EmptySet
  <2>2. ASSUME NEW x \in s PROVE s \ {x} \in G
    <3>1. Cardinality(s \ {x}) = Cardinality(s) - 1
      BY <1>1, <2>2, OneLess
    <3>2. Cardinality(s \ {x}) = n /\ s \ {x} \in SUBSET S
      BY <3>1
    <3> QED
      BY <1>3, <3>2
  <2> QED
    BY <2>1, <2>2
<1>4. \A n \in Nat : n \in H
  <2> HIDE DEF H
  <2> QED
    BY <1>2, <1>3, NatSet
<1>5. Cardinality(S) \in H
  BY <1>1, <1>4
<1> QED
  BY <1>5

-----------------------------------------------------------------------------
\* The function that SumFunctionOnSet is defined by.
Pick(s) == CHOOSE x \in s : TRUE
Sums(g, f, D) == g = [s \in D |-> IF s = {} THEN 0 ELSE f[Pick(s)] + g[s \ {Pick(s)}]]
SumsOf(f, S) == CHOOSE g : Sums(g, f, SUBSET S)

LEMMA SumIs ==
  ASSUME NEW f, NEW S
  PROVE  SumFunctionOnSet(f, S) = SumsOf(f, S)[S]
  BY DEF SumFunctionOnSet, FoldFunctionOnSet, MapThenFoldSet, Pick, Sums, SumsOf

LEMMA PickIn == \A s : s # {} => Pick(s) \in s
  BY DEF Pick

LEMMA SumsExist ==
  ASSUME NEW f, NEW S, IsFiniteSet(S)
  PROVE  Sums(SumsOf(f, S), f, SUBSET S)
<1> DEFINE Small(n) == {s \in SUBSET S : Cardinality(s) <= n}
           G == {n \in Nat : \E g : Sums(g, f, Small(n))}
<1>1. \A s \in SUBSET S : IsFiniteSet(s) /\ Cardinality(s) \in Nat
  BY FS_Subset, FS_CardinalityType
<1>2. 0 \in G
  <2> DEFINE g == [s \in Small(0) |-> 0]
  <2>1. \A s \in Small(0) : s = {}
    BY <1>1, FS_EmptySet
  <2>2. g = [s \in Small(0) |-> IF s = {} THEN 0 ELSE f[Pick(s)] + g[s \ {Pick(s)}]]
    BY <2>1
  <2>3. Sums(g, f, Small(0))
    BY <2>2 DEF Sums
  <2> QED
    BY <2>3
<1>3. ASSUME NEW n \in Nat, n \in G PROVE n + 1 \in G
  <2>1. PICK g : Sums(g, f, Small(n))
    BY <1>3
  <2> DEFINE h == [s \in Small(n + 1) |-> IF s = {} THEN 0 ELSE f[Pick(s)] + g[s \ {Pick(s)}]]
  <2>2. \A s \in Small(n) : s \in Small(n + 1)
    BY <1>1
  <2>3. \A s \in Small(n) : g[s] = IF s = {} THEN 0 ELSE f[Pick(s)] + g[s \ {Pick(s)}]
    BY <2>1 DEF Sums
  <2>4. \A s \in Small(n) : h[s] = g[s]
    <3> HIDE DEF Small
    <3> QED
      BY <2>2, <2>3
  <2>5. ASSUME NEW s \in Small(n + 1), s # {} PROVE s \ {Pick(s)} \in Small(n)
    <3>1. Pick(s) \in s
      BY <2>5, PickIn
    <3>2. Cardinality(s \ {Pick(s)}) = Cardinality(s) - 1
      BY <1>1, <3>1, OneLess
    <3>3. Cardinality(s) \in Nat /\ Cardinality(s) <= n + 1
      BY <1>1
    <3> QED
      BY <3>2, <3>3
  <2>6. h = [s \in Small(n + 1) |-> IF s = {} THEN 0 ELSE f[Pick(s)] + h[s \ {Pick(s)}]]
    <3>1. \A s \in Small(n + 1) : h[s] = IF s = {} THEN 0 ELSE f[Pick(s)] + h[s \ {Pick(s)}]
      <4> HIDE DEF Small
      <4> QED
        BY <2>4, <2>5
    <3> HIDE DEF Small
    <3> QED
      BY <3>1
  <2>7. Sums(h, f, Small(n + 1))
    BY <2>6 DEF Sums
  <2>8. \E k : Sums(k, f, Small(n + 1))
    <3> HIDE DEF h, Small
    <3> QED
      BY <2>7
  <2>9. n + 1 \in Nat
    OBVIOUS
  <2> QED
    BY <2>8, <2>9, Zenon
<1>4. \A n \in Nat : n \in G
  <2> HIDE DEF G
  <2> QED
    BY <1>2, <1>3, NatSet
<1>5. Small(Cardinality(S)) = SUBSET S /\ Cardinality(S) \in Nat
  BY FS_Subset, FS_CardinalityType
<1>6. \E g : Sums(g, f, SUBSET S)
  BY <1>4, <1>5
<1> QED
  BY <1>6, Zenon DEF SumsOf

LEMMA SumsStep ==
  ASSUME NEW f, NEW S, IsFiniteSet(S), NEW s \in SUBSET S
  PROVE  SumsOf(f, S)[s] = IF s = {} THEN 0 ELSE f[Pick(s)] + SumsOf(f, S)[s \ {Pick(s)}]
<1> DEFINE g == SumsOf(f, S)
<1>1. Sums(g, f, SUBSET S)
  BY SumsExist
<1> HIDE DEF g
<1>2. g[s] = IF s = {} THEN 0 ELSE f[Pick(s)] + g[s \ {Pick(s)}]
  BY <1>1 DEF Sums
<1> QED
  BY <1>2 DEF g

\* Two functions that agree on the members of a set have the same sum over it.
LEMMA SumsAgree ==
  ASSUME NEW f, NEW g, NEW S, NEW R, IsFiniteSet(S), IsFiniteSet(R), NEW s \in SUBSET (S \cap R),
         \A x \in s : f[x] = g[x]
  PROVE  SumsOf(f, S)[s] = SumsOf(g, R)[s]
<1> DEFINE G == {r \in SUBSET s : SumsOf(f, S)[r] = SumsOf(g, R)[r]}
<1>1. IsFiniteSet(s)
  BY FS_Subset
<1>2. {} \in G
  BY SumsStep, ZenonT(60)
<1>3. ASSUME NEW r \in SUBSET s, r # {}, \A x \in r : r \ {x} \in G PROVE r \in G
  <2>1. Pick(r) \in r /\ Pick(r) \in s
    BY <1>3, PickIn
  <2>2. SumsOf(f, S)[r \ {Pick(r)}] = SumsOf(g, R)[r \ {Pick(r)}]
    BY <1>3, <2>1
  <2>3. SumsOf(f, S)[r] = f[Pick(r)] + SumsOf(f, S)[r \ {Pick(r)}]
    BY <1>3, SumsStep
  <2>4. SumsOf(g, R)[r] = g[Pick(r)] + SumsOf(g, R)[r \ {Pick(r)}]
    BY <1>3, SumsStep
  <2> QED
    BY <2>1, <2>2, <2>3, <2>4
<1>4. s \in G
  <2> HIDE DEF G
  <2> QED
    BY <1>1, <1>2, <1>3, SizedSets
<1> QED
  BY <1>4

LEMMA SumsTyped ==
  ASSUME NEW S, IsFiniteSet(S), NEW f, \A x \in S : f[x] \in Int, NEW s \in SUBSET S
  PROVE  /\ SumsOf(f, S)[s] \in Int
         /\ (\A x \in s : f[x] >= 0) => SumsOf(f, S)[s] >= 0
<1> DEFINE T == SumsOf(f, S)
           G == {r \in SUBSET s : T[r] \in Int /\ ((\A x \in s : f[x] >= 0) => T[r] >= 0)}
<1>1. IsFiniteSet(s)
  BY FS_Subset
<1>2. {} \in G
  <2>1. T[{}] = 0
    BY SumsStep
  <2> QED
    BY <2>1
<1>3. ASSUME NEW r \in SUBSET s, r # {}, \A x \in r : r \ {x} \in G PROVE r \in G
  <2>1. Pick(r) \in r /\ Pick(r) \in s /\ f[Pick(r)] \in Int
    BY <1>3, PickIn
  <2>2. T[r \ {Pick(r)}] \in Int /\ ((\A x \in s : f[x] >= 0) => T[r \ {Pick(r)}] >= 0)
    BY <1>3, <2>1
  <2>3. T[r] = f[Pick(r)] + T[r \ {Pick(r)}]
    <3>1. r \in SUBSET S
      OBVIOUS
    <3> QED
      BY <1>3, <3>1, SumsStep
  <2> HIDE DEF T
  <2>4. T[r] \in Int /\ ((\A x \in s : f[x] >= 0) => T[r] >= 0)
    BY <2>1, <2>2, <2>3
  <2> QED
    BY <2>4
<1>4. s \in G
  <2> HIDE DEF G
  <2> QED
    BY <1>1, <1>2, <1>3, SizedSets
<1> QED
  BY <1>4

\* Any member can be taken first.
LEMMA SumsSplit ==
  ASSUME NEW S, IsFiniteSet(S), NEW f, \A x \in S : f[x] \in Int, NEW x \in S
  PROVE  SumsOf(f, S)[S] = f[x] + SumsOf(f, S)[S \ {x}]
<1> DEFINE T == SumsOf(f, S)
           G == {r \in SUBSET S : \A y \in r : T[r] = f[y] + T[r \ {y}]}
<1>1. {} \in G
  OBVIOUS
<1>2. ASSUME NEW r \in SUBSET S, r # {}, \A y \in r : r \ {y} \in G PROVE r \in G
  <2> SUFFICES ASSUME NEW y \in r PROVE T[r] = f[y] + T[r \ {y}]
    OBVIOUS
  <2> DEFINE p == Pick(r)
  <2>1. p \in r /\ T[r] = f[p] + T[r \ {p}]
    BY <1>2, PickIn, SumsStep
  <2>2. CASE y = p
    BY <2>1, <2>2
  <2>3. CASE y # p
    <3>1. T[r \ {p}] = f[y] + T[(r \ {p}) \ {y}]
      BY <1>2, <2>1, <2>3
    <3>2. T[r \ {y}] = f[p] + T[(r \ {y}) \ {p}]
      BY <1>2, <2>1, <2>3
    <3>3. T[(r \ {p}) \ {y}] = T[(r \ {y}) \ {p}]
      <4>1. (r \ {p}) \ {y} = (r \ {y}) \ {p}
        OBVIOUS
      <4> QED
        BY <4>1
    <3>4. T[(r \ {y}) \ {p}] \in Int /\ f[y] \in Int /\ f[p] \in Int
      <4>1. (r \ {y}) \ {p} \in SUBSET S /\ y \in S /\ p \in S
        BY <2>1
      <4> QED
        BY <4>1, SumsTyped
    <3>5. T[r] = f[p] + T[r \ {p}]
      BY <2>1
    <3> QED
      <4> HIDE DEF T, p
      <4>1. T[r] = f[p] + (f[y] + T[(r \ {y}) \ {p}])
        BY <3>1, <3>3, <3>5
      <4> QED
        BY <3>2, <3>4, <4>1
  <2> QED
    BY <2>2, <2>3
<1>3. S \in G
  <2> HIDE DEF G
  <2> QED
    BY <1>1, <1>2, SizedSets
<1> QED
  BY <1>3
-----------------------------------------------------------------------------
\* What SumFunctionOnSet yields.
LEMMA SumFacts ==
  ASSUME NEW S, IsFiniteSet(S), NEW f, \A x \in S : f[x] \in Int
  PROVE  /\ SumFunctionOnSet(f, {}) = 0
         /\ SumFunctionOnSet(f, S) \in Int
         /\ (\A x \in S : f[x] >= 0) => SumFunctionOnSet(f, S) >= 0
         /\ \A x \in S : SumFunctionOnSet(f, S) = f[x] + SumFunctionOnSet(f, S \ {x})
<1>1. SumFunctionOnSet(f, {}) = 0
  <2>1. SumsOf(f, {})[{}] = 0
    BY FS_EmptySet, SumsStep
  <2> QED
    BY <2>1, SumIs
<1>2. /\ SumFunctionOnSet(f, S) \in Int
      /\ (\A x \in S : f[x] >= 0) => SumFunctionOnSet(f, S) >= 0
  <2>1. SumFunctionOnSet(f, S) = SumsOf(f, S)[S] /\ S \in SUBSET S
    BY SumIs
  <2>2. /\ SumsOf(f, S)[S] \in Int
        /\ (\A x \in S : f[x] >= 0) => SumsOf(f, S)[S] >= 0
    BY <2>1, SumsTyped
  <2> QED
    BY <2>1, <2>2
<1>3. ASSUME NEW x \in S PROVE SumFunctionOnSet(f, S) = f[x] + SumFunctionOnSet(f, S \ {x})
  <2>1. IsFiniteSet(S \ {x}) /\ S \ {x} \in SUBSET (S \cap (S \ {x}))
    BY FS_Subset
  <2>2. SumsOf(f, S)[S \ {x}] = SumsOf(f, S \ {x})[S \ {x}]
    BY <2>1, SumsAgree
  <2>3. SumsOf(f, S)[S] = f[x] + SumsOf(f, S)[S \ {x}]
    BY SumsSplit
  <2> QED
    BY <2>2, <2>3, SumIs
<1> QED
  BY <1>1, <1>2, <1>3

LEMMA SumAgree ==
  ASSUME NEW S, IsFiniteSet(S), NEW f, NEW g, \A x \in S : f[x] = g[x]
  PROVE  SumFunctionOnSet(f, S) = SumFunctionOnSet(g, S)
<1>1. SumsOf(f, S)[S] = SumsOf(g, S)[S]
  BY SumsAgree
<1> QED
  BY <1>1, SumIs

\* A sum changes by as much as the one value that changes.
LEMMA SumChange ==
  ASSUME NEW S, IsFiniteSet(S), NEW f, NEW g, NEW k \in S,
         \A x \in S : f[x] \in Int /\ g[x] \in Int /\ (x # k => g[x] = f[x])
  PROVE  SumFunctionOnSet(g, S) = SumFunctionOnSet(f, S) + g[k] - f[k]
<1>1. IsFiniteSet(S \ {k})
  BY FS_Subset
<1>2. SumFunctionOnSet(f, S \ {k}) = SumFunctionOnSet(g, S \ {k})
  BY <1>1, SumAgree
<1>3. SumFunctionOnSet(f, S) = f[k] + SumFunctionOnSet(f, S \ {k})
  BY SumFacts
<1>4. SumFunctionOnSet(g, S) = g[k] + SumFunctionOnSet(g, S \ {k})
  BY SumFacts
<1>5. SumFunctionOnSet(f, S \ {k}) \in Int /\ f[k] \in Int /\ g[k] \in Int
  BY <1>1, SumFacts
<1> QED
  BY <1>2, <1>3, <1>4, <1>5

LEMMA SumOfZeros ==
  ASSUME NEW S, IsFiniteSet(S), NEW f, \A x \in S : f[x] = 0
  PROVE  SumFunctionOnSet(f, S) = 0
<1> DEFINE G == {s \in SUBSET S : SumFunctionOnSet(f, s) = 0}
<1>1. {} \in G
  BY FS_EmptySet, SumFacts
<1>2. ASSUME NEW s \in SUBSET S, s # {}, \A x \in s : s \ {x} \in G PROVE s \in G
  <2>1. PICK x \in s : TRUE
    BY <1>2
  <2>2. IsFiniteSet(s) /\ \A y \in s : f[y] \in Int
    BY FS_Subset
  <2>3. SumFunctionOnSet(f, s) = f[x] + SumFunctionOnSet(f, s \ {x})
    BY <2>2, SumFacts
  <2>4. SumFunctionOnSet(f, s \ {x}) = 0 /\ f[x] = 0
    BY <1>2
  <2> QED
    BY <2>3, <2>4
<1>3. S \in G
  <2> HIDE DEF G
  <2> QED
    BY <1>1, <1>2, SizedSets
<1> QED
  BY <1>3

\* Adding one at some places adds as many as there are.
LEMMA SumOneEach ==
  ASSUME NEW S, IsFiniteSet(S), NEW f, \A x \in S : f[x] \in Int, NEW B \in SUBSET S,
         NEW g, \A x \in S : g[x] = f[x] + IF x \in B THEN 1 ELSE 0
  PROVE  SumFunctionOnSet(g, S) = SumFunctionOnSet(f, S) + Cardinality(B)
<1> DEFINE h(b) == [x \in S |-> f[x] + IF x \in b THEN 1 ELSE 0]
           G == {b \in SUBSET B :
                   SumFunctionOnSet(h(b), S) = SumFunctionOnSet(f, S) + Cardinality(b)}
<1>1. SumFunctionOnSet(f, S) \in Int
  BY SumFacts
<1>2. \A b : \A x \in S : h(b)[x] \in Int /\ h(b)[x] = f[x] + IF x \in b THEN 1 ELSE 0
  OBVIOUS
<1>3. {} \in G
  <2>1. \A x \in S : h({})[x] = f[x]
    OBVIOUS
  <2> HIDE DEF h
  <2>2. SumFunctionOnSet(h({}), S) = SumFunctionOnSet(f, S)
    BY <2>1, SumAgree
  <2> QED
    BY <1>1, <2>2, FS_EmptySet
<1>4. ASSUME NEW b \in SUBSET B, b # {}, \A x \in b : b \ {x} \in G PROVE b \in G
  <2>1. PICK k \in b : TRUE
    BY <1>4
  <2>2. SumFunctionOnSet(h(b \ {k}), S) = SumFunctionOnSet(f, S) + Cardinality(b \ {k})
    BY <1>4
  <2>3. Cardinality(b \ {k}) = Cardinality(b) - 1 /\ Cardinality(b) \in Nat
    <3>1. IsFiniteSet(b)
      BY FS_Subset
    <3> QED
      BY <3>1, <2>1, OneLess, FS_CardinalityType
  <2> HIDE DEF h, G
  <2>4. PICK u, v : u = h(b \ {k}) /\ v = h(b)
    OBVIOUS
  <2>5. k \in S /\ \A x \in S : u[x] \in Int /\ v[x] \in Int /\ (x # k => v[x] = u[x])
    BY <1>2, <2>1, <2>4
  <2>6. v[k] = u[k] + 1 /\ u[k] \in Int
    BY <1>2, <2>1, <2>4, <2>5
  <2>7. SumFunctionOnSet(v, S) = SumFunctionOnSet(u, S) + v[k] - u[k]
    BY <2>5, SumChange
  <2>8. SumFunctionOnSet(u, S) \in Int
    BY <2>5, SumFacts
  <2>9. SumFunctionOnSet(v, S) = SumFunctionOnSet(u, S) + 1
    BY <2>6, <2>7, <2>8
  <2>10. SumFunctionOnSet(h(b), S) = SumFunctionOnSet(f, S) + Cardinality(b)
    BY <1>1, <2>2, <2>3, <2>4, <2>9
  <2> QED
    BY <2>10 DEF G
<1>5. IsFiniteSet(B)
  BY FS_Subset
<1>6. B \in G
  <2> HIDE DEF G
  <2> QED
    BY <1>3, <1>4, <1>5, SizedSets
<1>7. SumFunctionOnSet(h(B), S) = SumFunctionOnSet(f, S) + Cardinality(B)
  BY <1>6
<1>8. \A x \in S : g[x] = h(B)[x]
  BY <1>2
<1> HIDE DEF h
<1>9. SumFunctionOnSet(g, S) = SumFunctionOnSet(h(B), S)
  BY <1>8, SumAgree
<1> QED
  BY <1>7, <1>9

-----------------------------------------------------------------------------
\* The members of a sequence, its first n and what is beyond them.
Members(s) == {s[i] : i \in DOMAIN s}
FirstOf(s, n) == SubSeq(s, 1, IF n < Len(s) THEN n ELSE Len(s))
Beyond(s, n) == SubSeq(s, n + 1, Len(s))

Increasing(s) == \A i, j \in DOMAIN s : i < j => s[i] < s[j]

\* The function that keeping members is defined by.
Kept(f, s, S, n) ==
  f = [i \in 0..n |-> IF i = 0 THEN <<>>
                      ELSE IF s[i] \in S THEN Append(f[i-1], s[i]) ELSE f[i-1]]
KeptOf(s, S, n) == CHOOSE f : Kept(f, s, S, n)

LEMMA KeptExists ==
  ASSUME NEW s, NEW S, NEW n \in Nat
  PROVE  Kept(KeptOf(s, S, n), s, S, n)
<1> DEFINE G == {k \in Nat : \E f : Kept(f, s, S, k)}
<1>1. 0 \in G
  <2>1. Kept([i \in 0..0 |-> <<>>], s, S, 0)
    BY DEF Kept
  <2> QED
    BY <2>1
<1>2. ASSUME NEW k \in Nat, k \in G PROVE k + 1 \in G
  <2>1. PICK f : Kept(f, s, S, k)
    BY <1>2
  <2> DEFINE next == IF s[k+1] \in S THEN Append(f[k], s[k+1]) ELSE f[k]
             g == [i \in 0..k+1 |-> IF i = k + 1 THEN next ELSE f[i]]
  <2>2. \A i \in 0..k : f[i] = IF i = 0 THEN <<>>
                        ELSE IF s[i] \in S THEN Append(f[i-1], s[i]) ELSE f[i-1]
    BY <2>1, Zenon DEF Kept
  <2>3. \A i \in 0..k+1 : g[i] = IF i = 0 THEN <<>>
                          ELSE IF s[i] \in S THEN Append(g[i-1], s[i]) ELSE g[i-1]
    <3> SUFFICES ASSUME NEW i \in 0..k+1
                 PROVE  g[i] = IF i = 0 THEN <<>>
                               ELSE IF s[i] \in S THEN Append(g[i-1], s[i]) ELSE g[i-1]
      OBVIOUS
    <3> HIDE DEF next
    <3>1. CASE i = k + 1
      <4>1. g[i] = next /\ g[i-1] = f[k] /\ i # 0
        BY <3>1
      <4> QED
        BY <3>1, <4>1 DEF next
    <3>2. CASE i # k + 1
      <4>1. i \in 0..k /\ g[i] = f[i] /\ (i # 0 => g[i-1] = f[i-1])
        BY <3>2
      <4> HIDE DEF g
      <4> QED
        BY <2>2, <4>1
    <3> QED
      BY <3>1, <3>2
  <2>4. Kept(g, s, S, k + 1)
    BY <2>3 DEF Kept
  <2>5. \E h : Kept(h, s, S, k + 1)
    <3> HIDE DEF g
    <3> QED
      BY <2>4
  <2> QED
    BY <2>5
<1>3. \A k \in Nat : k \in G
  <2> HIDE DEF G
  <2> QED
    BY <1>1, <1>2, NatSet
<1>4. \E f : Kept(f, s, S, n)
  BY <1>3
<1> QED
  BY <1>4, Zenon DEF KeptOf

\* What is kept of a sequence: its members in S, in their order.
LEMMA KeptFacts ==
  ASSUME NEW T \in SUBSET Int, NEW s \in Seq(T), Increasing(s), NEW S
  PROVE  /\ KeptOf(s, S, Len(s))[Len(s)] \in Seq(T)
         /\ Len(KeptOf(s, S, Len(s))[Len(s)]) <= Len(s)
         /\ Members(KeptOf(s, S, Len(s))[Len(s)]) = Members(s) \cap S
         /\ Increasing(KeptOf(s, S, Len(s))[Len(s)])
<1>1. Len(s) \in Nat /\ DOMAIN s = 1..Len(s) /\ \A i \in 1..Len(s) : s[i] \in T
  OBVIOUS
<1> DEFINE f == KeptOf(s, S, Len(s))
           Good(n) == /\ f[n] \in Seq(T) /\ Len(f[n]) <= n
                      /\ Members(f[n]) = {s[i] : i \in 1..n} \cap S
                      /\ Increasing(f[n])
           G == {n \in Nat : n <= Len(s) => Good(n)}
<1>2. \A n \in 0..Len(s) :
        f[n] = IF n = 0 THEN <<>>
               ELSE IF s[n] \in S THEN Append(f[n-1], s[n]) ELSE f[n-1]
  <2> HIDE DEF f
  <2>1. Kept(f, s, S, Len(s))
    BY <1>1, KeptExists DEF f
  <2> QED
    BY <2>1, Zenon DEF Kept
<1> HIDE DEF f
<1>3. 0 \in G
  <2>1. f[0] = <<>>
    BY <1>1, <1>2
  <2>2. Good(0)
    BY <2>1 DEF Members, Increasing
  <2> QED
    BY <2>2
<1>4. ASSUME NEW n \in Nat, n \in G PROVE n + 1 \in G
  <2> SUFFICES ASSUME n + 1 <= Len(s) PROVE Good(n + 1)
    OBVIOUS
  <2>1. /\ f[n] \in Seq(T) /\ Len(f[n]) <= n
        /\ Members(f[n]) = {s[i] : i \in 1..n} \cap S /\ Increasing(f[n])
    BY <1>1, <1>4
  <2>2. n + 1 \in 1..Len(s) /\ n + 1 # 0 /\ n + 1 - 1 = n /\ s[n + 1] \in T
    BY <1>1
  <2>3. {s[i] : i \in 1..n + 1} = {s[i] : i \in 1..n} \cup {s[n + 1]}
    OBVIOUS
  <2>7. f[n + 1] = IF s[n + 1] \in S THEN Append(f[n], s[n + 1]) ELSE f[n]
    <3>1. n + 1 \in 0..Len(s)
      BY <1>1
    <3>2. f[n + 1] = IF s[n + 1] \in S THEN Append(f[n + 1 - 1], s[n + 1]) ELSE f[n + 1 - 1]
      BY <1>2, <2>2, <3>1
    <3> QED
      BY <2>2, <3>2
  <2>4. CASE s[n + 1] \notin S
    <3>1. f[n + 1] = f[n]
      BY <2>4, <2>7
    <3> QED
      BY <2>1, <2>2, <2>3, <2>4, <3>1
  <2>5. CASE s[n + 1] \in S
    <3>1. f[n + 1] = Append(f[n], s[n + 1])
      BY <2>5, <2>7
    <3> DEFINE r == f[n]
    <3>2. /\ r \in Seq(T) /\ Len(r) \in Nat /\ DOMAIN r = 1..Len(r)
          /\ f[n + 1] \in Seq(T) /\ Len(f[n + 1]) = Len(r) + 1
          /\ DOMAIN f[n + 1] = 1..Len(r) + 1
          /\ f[n + 1][Len(r) + 1] = s[n + 1]
          /\ \A i \in 1..Len(r) : f[n + 1][i] = r[i]
      BY <2>1, <2>2, <3>1
    <3>3. Members(f[n + 1]) = Members(r) \cup {s[n + 1]}
      <4>1. 1..Len(r) + 1 = 1..Len(r) \cup {Len(r) + 1}
        BY <3>2
      <4>2. /\ Members(f[n + 1]) = {f[n + 1][i] : i \in 1..Len(r) + 1}
            /\ Members(r) = {r[i] : i \in 1..Len(r)}
        BY <3>2, Zenon DEF Members
      <4> HIDE DEF r
      <4> QED
        BY <3>2, <4>1, <4>2, SMTT(40)
    <3>4. \A i \in 1..Len(r) : r[i] < s[n + 1]
      <4> SUFFICES ASSUME NEW i \in 1..Len(r) PROVE r[i] < s[n + 1]
        OBVIOUS
      <4>1. r[i] \in Members(r)
        BY <3>2 DEF Members
      <4>2. PICK j \in 1..n : r[i] = s[j]
        BY <2>1, <4>1
      <4>3. j \in DOMAIN s /\ n + 1 \in DOMAIN s /\ j < n + 1
        BY <1>1, <2>2
      <4> QED
        BY <4>2, <4>3 DEF Increasing
    <3>5. Increasing(f[n + 1])
      <4> SUFFICES ASSUME NEW i \in 1..Len(r) + 1, NEW j \in 1..Len(r) + 1, i < j
                   PROVE  f[n + 1][i] < f[n + 1][j]
        BY <3>2 DEF Increasing
      <4>1. i \in 1..Len(r) /\ (j \in 1..Len(r) \/ j = Len(r) + 1)
        BY <3>2
      <4> HIDE DEF r
      <4>2. CASE j \in 1..Len(r)
        BY <2>1, <3>2, <4>1, <4>2 DEF Increasing, r
      <4>3. CASE j = Len(r) + 1
        BY <3>2, <3>4, <4>1, <4>3
      <4> QED
        BY <4>1, <4>2, <4>3
    <3>6. Len(f[n + 1]) <= n + 1
      BY <2>1, <3>2
    <3> QED
      BY <2>1, <2>3, <2>5, <3>2, <3>3, <3>5, <3>6
  <2> QED
    BY <2>4, <2>5
<1>5. \A n \in Nat : n \in G
  <2> HIDE DEF G
  <2> QED
    BY <1>3, <1>4, NatSet
<1>6. Good(Len(s))
  <2>1. Len(s) \in G
    BY <1>1, <1>5
  <2> QED
    BY <1>1, <2>1
<1>7. KeptOf(s, S, Len(s))[Len(s)] = f[Len(s)] /\ Members(s) = {s[i] : i \in 1..Len(s)}
  BY <1>1 DEF f, Members
<1> QED
  BY <1>6, <1>7

\* The places of a sequence, of two joined, of the first n and of the rest.
LEMMA PlacesIn ==
  ASSUME NEW S, NEW s \in Seq(S)
  PROVE  Members(s) = {s[i] : i \in 1..Len(s)} /\ Members(s) \subseteq S
  BY DEF Members

LEMMA Joined ==
  ASSUME NEW S, NEW a \in Seq(S), NEW b \in Seq(S)
  PROVE  Members(a \o b) = Members(a) \cup Members(b)
<1>1. /\ a \o b \in Seq(S) /\ Len(a \o b) = Len(a) + Len(b)
      /\ Len(a) \in Nat /\ Len(b) \in Nat
      /\ \A i \in 1..Len(a) + Len(b) : (a \o b)[i] = IF i <= Len(a) THEN a[i] ELSE b[i - Len(a)]
  OBVIOUS
<1>2. /\ Members(a \o b) = {(a \o b)[i] : i \in 1..Len(a) + Len(b)}
      /\ Members(a) = {a[i] : i \in 1..Len(a)}
      /\ Members(b) = {b[i] : i \in 1..Len(b)}
  BY <1>1, PlacesIn
<1>3. ASSUME NEW x \in Members(a \o b)
      PROVE  x \in Members(a) \cup Members(b)
  <2>1. PICK i \in 1..Len(a) + Len(b) : x = (a \o b)[i]
    BY <1>2
  <2>2. CASE i <= Len(a)
    BY <1>1, <1>2, <2>1, <2>2
  <2>3. CASE i > Len(a)
    <3>1. i - Len(a) \in 1..Len(b) /\ x = b[i - Len(a)]
      BY <1>1, <2>1, <2>3
    <3> QED
      BY <1>2, <3>1
  <2> QED
    BY <1>1, <2>2, <2>3
<1>4. Members(a) \subseteq Members(a \o b)
  <2> SUFFICES ASSUME NEW i \in 1..Len(a) PROVE a[i] \in Members(a \o b)
    BY <1>2
  <2>1. i \in 1..Len(a) + Len(b) /\ (a \o b)[i] = a[i]
    BY <1>1
  <2> QED
    BY <1>2, <2>1
<1>5. Members(b) \subseteq Members(a \o b)
  <2> SUFFICES ASSUME NEW i \in 1..Len(b) PROVE b[i] \in Members(a \o b)
    BY <1>2
  <2>1. Len(a) + i \in 1..Len(a) + Len(b) /\ (a \o b)[Len(a) + i] = b[i]
    BY <1>1
  <2> QED
    BY <1>2, <2>1
<1> QED
  BY <1>3, <1>4, <1>5

LEMMA MembersAppend ==
  ASSUME NEW S, NEW s \in Seq(S), NEW v \in S
  PROVE  Members(Append(s, v)) = Members(s) \cup {v}
<1>1. /\ Len(s) \in Nat /\ DOMAIN s = 1..Len(s) /\ DOMAIN Append(s, v) = 1..Len(s) + 1
      /\ Append(s, v)[Len(s) + 1] = v /\ \A i \in 1..Len(s) : Append(s, v)[i] = s[i]
  OBVIOUS
<1>2. 1..Len(s) + 1 = 1..Len(s) \cup {Len(s) + 1}
  BY <1>1
<1> QED
  BY <1>1, <1>2 DEF Members

\* The same of a sequence of any kind, with the number that is kept.
LEMMA KeptOfAny ==
  ASSUME NEW T, NEW s \in Seq(T), NEW S
  PROVE  /\ KeptOf(s, S, Len(s))[Len(s)] \in Seq(T)
         /\ Members(KeptOf(s, S, Len(s))[Len(s)]) = Members(s) \cap S
         /\ Len(KeptOf(s, S, Len(s))[Len(s)]) = Cardinality({i \in DOMAIN s : s[i] \in S})
<1>1. Len(s) \in Nat /\ DOMAIN s = 1..Len(s) /\ \A i \in 1..Len(s) : s[i] \in T
  OBVIOUS
<1> DEFINE f == KeptOf(s, S, Len(s))
           P(n) == {i \in 1..n : s[i] \in S}
           Good(n) == /\ f[n] \in Seq(T) /\ Members(f[n]) = {s[i] : i \in 1..n} \cap S
                      /\ IsFiniteSet(P(n)) /\ Len(f[n]) = Cardinality(P(n))
           G == {n \in Nat : n <= Len(s) => Good(n)}
<1>2. \A n \in 0..Len(s) :
        f[n] = IF n = 0 THEN <<>>
               ELSE IF s[n] \in S THEN Append(f[n-1], s[n]) ELSE f[n-1]
  <2> HIDE DEF f
  <2>1. Kept(f, s, S, Len(s))
    BY <1>1, KeptExists DEF f
  <2> QED
    BY <2>1, Zenon DEF Kept
<1> HIDE DEF f
<1>3. 0 \in G
  <2>1. f[0] = <<>>
    BY <1>1, <1>2
  <2>2. P(0) = {} /\ Cardinality({}) = 0 /\ IsFiniteSet({})
    BY FS_EmptySet
  <2>3. Members(<<>>) = {} /\ <<>> \in Seq(T) /\ Len(<<>>) = 0 /\ {s[i] : i \in 1..0} = {}
    BY DEF Members
  <2>4. Good(0)
    <3> HIDE DEF P
    <3> QED
      BY <2>1, <2>2, <2>3
  <2> QED
    BY <2>4
<1>4. ASSUME NEW n \in Nat, n \in G PROVE n + 1 \in G
  <2> SUFFICES ASSUME n + 1 <= Len(s) PROVE Good(n + 1)
    OBVIOUS
  <2>1. /\ f[n] \in Seq(T) /\ Members(f[n]) = {s[i] : i \in 1..n} \cap S
        /\ IsFiniteSet(P(n)) /\ Len(f[n]) = Cardinality(P(n))
    BY <1>1, <1>4
  <2>2. n + 1 \in 1..Len(s) /\ n + 1 # 0 /\ n + 1 - 1 = n /\ s[n + 1] \in T /\ n + 1 \in 0..Len(s)
    BY <1>1
  <2>3. /\ {s[i] : i \in 1..n + 1} = {s[i] : i \in 1..n} \cup {s[n + 1]}
        /\ 1..n + 1 = 1..n \cup {n + 1} /\ n + 1 \notin 1..n
    OBVIOUS
  <2>4. f[n + 1] = IF s[n + 1] \in S THEN Append(f[n], s[n + 1]) ELSE f[n]
    <3>1. f[n + 1] = IF s[n + 1] \in S THEN Append(f[n + 1 - 1], s[n + 1]) ELSE f[n + 1 - 1]
      BY <1>2, <2>2
    <3> QED
      BY <2>2, <3>1
  <2>5. CASE s[n + 1] \notin S
    <3>1. f[n + 1] = f[n] /\ P(n + 1) = P(n)
      BY <2>3, <2>4, <2>5
    <3> HIDE DEF P
    <3> QED
      BY <2>1, <2>3, <2>5, <3>1
  <2>6. CASE s[n + 1] \in S
    <3>1. f[n + 1] = Append(f[n], s[n + 1])
      BY <2>4, <2>6
    <3>2. P(n + 1) = P(n) \cup {n + 1} /\ n + 1 \notin P(n)
      BY <2>3, <2>6
    <3> HIDE DEF P
    <3>3. IsFiniteSet(P(n + 1)) /\ Cardinality(P(n + 1)) = Cardinality(P(n)) + 1
      BY <2>1, <3>2, OneMore
    <3>4. Members(Append(f[n], s[n + 1])) = Members(f[n]) \cup {s[n + 1]}
      BY <2>1, <2>2, MembersAppend
    <3>5. Append(f[n], s[n + 1]) \in Seq(T) /\ Len(Append(f[n], s[n + 1])) = Len(f[n]) + 1
      BY <2>1, <2>2
    <3> QED
      BY <2>1, <2>3, <2>6, <3>1, <3>3, <3>4, <3>5
  <2> QED
    BY <2>5, <2>6
<1>5. \A n \in Nat : n \in G
  <2> HIDE DEF G
  <2> QED
    BY <1>3, <1>4, NatSet
<1>6. Good(Len(s))
  <2>1. Len(s) \in G
    BY <1>1, <1>5
  <2> QED
    BY <1>1, <2>1
<1>7. /\ KeptOf(s, S, Len(s))[Len(s)] = f[Len(s)] /\ Members(s) = {s[i] : i \in 1..Len(s)}
      /\ P(Len(s)) = {i \in DOMAIN s : s[i] \in S}
  BY <1>1 DEF f, Members
<1> QED
  BY <1>6, <1>7

LEMMA TwoParts ==
  ASSUME NEW S, NEW s \in Seq(S), NEW n \in Nat
  PROVE  Members(s) = Members(FirstOf(s, n)) \cup Members(Beyond(s, n))
<1> DEFINE k == IF n < Len(s) THEN n ELSE Len(s)
           p == FirstOf(s, n)
           r == Beyond(s, n)
<1>1. /\ Len(s) \in Nat /\ k \in Nat /\ k <= Len(s) /\ k <= n
      /\ (n >= Len(s) => k = Len(s)) /\ (n < Len(s) => k = n) /\ (n = 0 => k = 0)
  OBVIOUS
<1>2. p = SubSeq(s, 1, k) /\ r = SubSeq(s, n + 1, Len(s))
  BY DEF FirstOf, Beyond
<1> HIDE DEF k, p, r
<1>3. p \in Seq(S) /\ Len(p) = k /\ \A i \in 1..k : p[i] = s[i]
  BY <1>1, <1>2
<1>4. /\ r \in Seq(S)
      /\ Len(r) = IF n <= Len(s) THEN Len(s) - n ELSE 0
      /\ \A i \in 1..Len(r) : r[i] = s[n + i]
  BY <1>1, <1>2
<1>5. /\ Members(s) = {s[i] : i \in 1..Len(s)}
      /\ Members(p) = {p[i] : i \in 1..k}
      /\ Members(r) = {r[i] : i \in 1..Len(r)}
  BY <1>3, <1>4, PlacesIn
<1>6. ASSUME NEW x \in Members(s)
      PROVE  x \in Members(p) \cup Members(r)
  <2>1. PICK i \in 1..Len(s) : x = s[i]
    BY <1>5
  <2>2. CASE i <= k
    BY <1>1, <1>3, <1>5, <2>1, <2>2
  <2>3. CASE i > k
    <3>1. n < Len(s) /\ k = n
      BY <1>1, <2>3
    <3>2. i - n \in 1..Len(r) /\ n + (i - n) = i
      BY <1>1, <1>4, <2>3, <3>1
    <3>3. r[i - n] = s[i]
      BY <1>4, <3>2
    <3> QED
      BY <1>5, <2>1, <3>2, <3>3
  <2> QED
    BY <1>1, <2>2, <2>3
<1>7. Members(p) \subseteq Members(s)
  BY <1>1, <1>3, <1>5
<1>8. Members(r) \subseteq Members(s)
  <2> SUFFICES ASSUME NEW i \in 1..Len(r) PROVE r[i] \in Members(s)
    BY <1>5
  <2>1. n + i \in 1..Len(s) /\ r[i] = s[n + i]
    BY <1>1, <1>4
  <2> QED
    BY <1>5, <2>1
<1> QED
  BY <1>6, <1>7, <1>8 DEF p, r

LEMMA Divided ==
  ASSUME NEW S, NEW s \in Seq(S), NEW n \in Nat
  PROVE  /\ FirstOf(s, n) \in Seq(S) /\ Beyond(s, n) \in Seq(S)
         /\ n >= Len(s) => FirstOf(s, n) = s
         /\ n = 0 => Members(FirstOf(s, n)) = {}
<1> DEFINE k == IF n < Len(s) THEN n ELSE Len(s)
           p == FirstOf(s, n)
           r == Beyond(s, n)
<1>1. /\ Len(s) \in Nat /\ k \in Nat /\ k <= Len(s) /\ k <= n
      /\ (n >= Len(s) => k = Len(s)) /\ (n < Len(s) => k = n) /\ (n = 0 => k = 0)
  OBVIOUS
<1>2. p = SubSeq(s, 1, k) /\ r = SubSeq(s, n + 1, Len(s))
  BY DEF FirstOf, Beyond
<1> HIDE DEF k, p, r
<1>3. p \in Seq(S) /\ Len(p) = k /\ r \in Seq(S)
  BY <1>1, <1>2
<1>4. Members(p) = {p[i] : i \in 1..k}
  BY <1>3, PlacesIn
<1>9. n >= Len(s) => p = s
  BY <1>1, <1>2
<1>10. n = 0 => Members(p) = {}
  BY <1>1, <1>4
<1> QED
  BY <1>3, <1>9, <1>10 DEF p, r

\* The first m of the first n are the first m.
LEMMA Nested ==
  ASSUME NEW S, NEW s \in Seq(S), NEW n \in Nat, NEW m \in 0..n
  PROVE  Members(FirstOf(s, n)) =
           Members(FirstOf(s, m)) \cup Members(Beyond(FirstOf(s, n), m))
<1> DEFINE p == FirstOf(s, n)
<1>1. p \in Seq(S)
  BY Divided
<1>2. Members(p) = Members(FirstOf(p, m)) \cup Members(Beyond(p, m))
  <2>1. m \in Nat
    OBVIOUS
  <2> HIDE DEF p
  <2> QED
    BY <1>1, <2>1, TwoParts
<1>3. FirstOf(p, m) = FirstOf(s, m)
  <2> DEFINE k == IF n < Len(s) THEN n ELSE Len(s)
             j == IF m < Len(s) THEN m ELSE Len(s)
  <2>1. Len(s) \in Nat /\ k \in Nat /\ j \in Nat /\ j <= k /\ k <= Len(s)
    OBVIOUS
  <2>2. (IF m < k THEN m ELSE k) = j
    OBVIOUS
  <2>3. p = SubSeq(s, 1, k) /\ FirstOf(s, m) = SubSeq(s, 1, j)
    BY DEF FirstOf
  <2> HIDE DEF p, k, j
  <2>4. Len(p) = k /\ \A i \in 1..k : p[i] = s[i]
    BY <2>1, <2>3
  <2>5. FirstOf(p, m) = SubSeq(p, 1, j)
    BY <2>2, <2>4 DEF FirstOf
  <2>6. SubSeq(p, 1, j) = SubSeq(s, 1, j)
    <3>1. SubSeq(p, 1, j) \in Seq(S) /\ Len(SubSeq(p, 1, j)) = j
      BY <1>1, <2>1, <2>4
    <3>2. SubSeq(s, 1, j) \in Seq(S) /\ Len(SubSeq(s, 1, j)) = j
      BY <2>1
    <3>3. \A i \in 1..j : SubSeq(p, 1, j)[i] = SubSeq(s, 1, j)[i]
      BY <1>1, <2>1, <2>4
    <3> QED
      BY <3>1, <3>2, <3>3
  <2> QED
    BY <2>3, <2>5, <2>6
<1> QED
  BY <1>2, <1>3 DEF p

-----------------------------------------------------------------------------
\* The function that joining the sequences s[0] to s[n] is defined by.
Flat(f, s, n) == f = [i \in 0..n |-> IF i = 0 THEN s[i] ELSE f[i-1] \o s[i]]
FlatOf(s, n) == CHOOSE f : Flat(f, s, n)

LEMMA FlatExists == ASSUME NEW s, NEW n \in Nat PROVE Flat(FlatOf(s, n), s, n)
<1> DEFINE G == {k \in Nat : \E f : Flat(f, s, k)}
<1>1. 0 \in G
  <2>1. Flat([i \in 0..0 |-> s[i]], s, 0)
    BY DEF Flat
  <2> QED
    BY <2>1
<1>2. ASSUME NEW k \in Nat, k \in G PROVE k + 1 \in G
  <2>1. PICK f : Flat(f, s, k)
    BY <1>2
  <2> DEFINE next == f[k] \o s[k+1]
             g == [i \in 0..k+1 |-> IF i = k + 1 THEN next ELSE f[i]]
  <2>2. ASSUME NEW i \in 0..k+1
        PROVE  g[i] = IF i = 0 THEN s[i] ELSE g[i-1] \o s[i]
    <3> HIDE DEF next
    <3>1. CASE i = k + 1
      <4>1. g[i] = next /\ g[i-1] = f[k] /\ i # 0
        BY <3>1
      <4> QED
        BY <3>1, <4>1 DEF next
    <3>2. CASE i # k + 1
      <4>1. i \in 0..k /\ g[i] = f[i] /\ (i # 0 => g[i-1] = f[i-1])
        BY <3>2
      <4>2. f[i] = IF i = 0 THEN s[i] ELSE f[i-1] \o s[i]
        BY <2>1, <4>1 DEF Flat
      <4> HIDE DEF g
      <4> QED
        BY <4>1, <4>2
    <3> QED
      BY <3>1, <3>2
  <2>3. g = [i \in 0..k+1 |-> g[i]]
    OBVIOUS
  <2> HIDE DEF g
  <2>4. Flat(g, s, k + 1)
    BY <2>2, <2>3 DEF Flat
  <2> QED
    BY <2>4
<1>3. \A k \in Nat : k \in G
  <2> HIDE DEF G
  <2> QED
    BY <1>1, <1>2, NatSet
<1>4. \E f : Flat(f, s, n)
  BY <1>3
<1> QED
  BY <1>4, Zenon DEF FlatOf

\* Joined sequences have the members of all of them.
LEMMA Flattened ==
  ASSUME NEW T, NEW n \in Nat, NEW s \in [0..n -> Seq(T)]
  PROVE  /\ FlatOf(s, n)[n] \in Seq(T)
         /\ Members(FlatOf(s, n)[n]) = UNION {Members(s[i]) : i \in 0..n}
<1> DEFINE f == FlatOf(s, n)
           G == {k \in Nat : k \in 0..n =>
                   /\ f[k] \in Seq(T)
                   /\ \A x : x \in Members(f[k]) <=> \E i \in 0..k : x \in Members(s[i])}
<1>1. \A i \in 0..n : s[i] \in Seq(T)
  OBVIOUS
<1>2. \A i \in 0..n : f[i] = IF i = 0 THEN s[i] ELSE f[i-1] \o s[i]
  <2>1. Flat(f, s, n)
    BY FlatExists
  <2> HIDE DEF f
  <2> QED
    BY <2>1 DEF Flat
<1> HIDE DEF f
<1>3. 0 \in G
  <2>1. f[0] = s[0]
    BY <1>1, <1>2
  <2>2. \A x : x \in Members(s[0]) <=> \E i \in 0..0 : x \in Members(s[i])
    OBVIOUS
  <2> QED
    BY <1>1, <2>1, <2>2
<1>4. ASSUME NEW k \in Nat, k \in G PROVE k + 1 \in G
  <2> SUFFICES ASSUME k + 1 \in 0..n
               PROVE  /\ f[k+1] \in Seq(T)
                      /\ \A x : x \in Members(f[k+1])
                                  <=> \E i \in 0..k+1 : x \in Members(s[i])
    OBVIOUS
  <2>1. k \in 0..n /\ k + 1 # 0 /\ (k + 1) - 1 = k
    OBVIOUS
  <2>2. f[k] \in Seq(T) /\ \A x : x \in Members(f[k]) <=> \E i \in 0..k : x \in Members(s[i])
    BY <1>4, <2>1
  <2> HIDE DEF G
  <2>3. f[k+1] = f[k] \o s[k+1] /\ s[k+1] \in Seq(T)
    BY <1>1, <1>2, <2>1
  <2>4. Members(f[k+1]) = Members(f[k]) \cup Members(s[k+1])
    BY <2>2, <2>3, Joined
  <2>5. \A i : i \in 0..k+1 <=> i \in 0..k \/ i = k+1
    OBVIOUS
  <2>6. f[k+1] \in Seq(T)
    BY <2>2, <2>3
  <2> QED
    BY <2>2, <2>4, <2>5, <2>6
<1>5. \A k \in Nat : k \in G
  <2> HIDE DEF G
  <2> QED
    BY <1>3, <1>4, NatSet
<1>6. n \in 0..n /\ n \in G
  <2> HIDE DEF G
  <2> QED
    BY <1>5
<1>7. /\ f[n] \in Seq(T)
      /\ \A x : x \in Members(f[n]) <=> \E i \in 0..n : x \in Members(s[i])
  BY <1>6
<1> QED
  BY <1>7 DEF f

-----------------------------------------------------------------------------
\* The sum of a sequence.
Total(s) == SumFunctionOnSet(s, DOMAIN s)
Square(s) == [i \in DOMAIN s |-> s[i] * s[i]]

LEMMA Numbers ==
  ASSUME NEW s \in Seq(Int)
  PROVE  /\ Len(s) \in Nat /\ DOMAIN s = 1..Len(s) /\ IsFiniteSet(DOMAIN s)
         /\ \A i \in DOMAIN s : s[i] \in Int
<1>1. Len(s) \in Nat /\ DOMAIN s = 1..Len(s)
  OBVIOUS
<1>2. \A i \in DOMAIN s : s[i] \in Int
  OBVIOUS
<1> QED
  BY <1>1, <1>2, FS_Interval

LEMMA TotalTyped ==
  ASSUME NEW s \in Seq(Int)
  PROVE  Total(s) \in Int /\ Total(<<>>) = 0
<1>1. Total(s) \in Int
  BY Numbers, SumFacts DEF Total
<1>2. IsFiniteSet({}) /\ DOMAIN <<>> = {}
  BY FS_EmptySet
<1>3. SumFunctionOnSet(<<>>, {}) = 0
  BY <1>2, SumFacts
<1> QED
  BY <1>1, <1>2, <1>3 DEF Total

LEMMA TotalAppend ==
  ASSUME NEW s \in Seq(Int), NEW v \in Int
  PROVE  Total(Append(s, v)) = Total(s) + v
<1> DEFINE t == Append(s, v)
           n == Len(s) + 1
<1>1. t \in Seq(Int) /\ Len(t) = n /\ t[n] = v /\ \A i \in 1..Len(s) : t[i] = s[i]
  OBVIOUS
<1>2. DOMAIN t = 1..n /\ n \in DOMAIN t /\ (1..n) \ {n} = 1..Len(s) /\ DOMAIN s = 1..Len(s)
  OBVIOUS
<1>3. IsFiniteSet(DOMAIN t) /\ IsFiniteSet(DOMAIN s) /\ \A i \in DOMAIN t : t[i] \in Int
  BY <1>1, Numbers
<1> HIDE DEF t, n
<1>4. SumFunctionOnSet(t, DOMAIN t) = t[n] + SumFunctionOnSet(t, DOMAIN t \ {n})
  BY <1>2, <1>3, SumFacts, ZenonT(60)
<1>5. DOMAIN t \ {n} = DOMAIN s
  BY <1>2
<1>6. SumFunctionOnSet(t, DOMAIN s) = SumFunctionOnSet(s, DOMAIN s)
  BY <1>1, <1>2, <1>3, SumAgree
<1>7. Total(t) = v + Total(s)
  BY <1>1, <1>4, <1>5, <1>6 DEF Total
<1> QED
  BY <1>7, TotalTyped DEF t

\* What holds of the empty sequence, and of every sequence with one number more.
LEMMA NumberSequences ==
  ASSUME NEW G, <<>> \in G,
         \A s \in Seq(Int), v \in Int : s \in G => Append(s, v) \in G
  PROVE  \A s \in Seq(Int) : s \in G
<1> DEFINE H == {n \in Nat : \A s \in Seq(Int) : Len(s) = n => s \in G}
<1>1. 0 \in H
  <2>1. \A s \in Seq(Int) : Len(s) = 0 => s = <<>>
    OBVIOUS
  <2> QED
    BY <2>1
<1>2. ASSUME NEW n \in Nat, n \in H PROVE n + 1 \in H
  <2> SUFFICES ASSUME NEW s \in Seq(Int), Len(s) = n + 1 PROVE s \in G
    OBVIOUS
  <2> DEFINE f == SubSeq(s, 1, n)
  <2>1. f \in Seq(Int) /\ Len(f) = n /\ \A i \in 1..n : f[i] = s[i]
    OBVIOUS
  <2>2. s[n + 1] \in Int
    OBVIOUS
  <2>3. s = Append(f, s[n + 1])
    <3> HIDE DEF f
    <3>1. Len(Append(f, s[n + 1])) = Len(s)
      BY <2>1
    <3>2. \A i \in 1..Len(s) : Append(f, s[n + 1])[i] = s[i]
      BY <2>1
    <3>3. Append(f, s[n + 1]) \in Seq(Int)
      BY <2>1, <2>2
    <3> QED
      BY <3>1, <3>2, <3>3
  <2>4. f \in G
    BY <1>2, <2>1
  <2> HIDE DEF f
  <2> QED
    BY <2>1, <2>2, <2>3, <2>4
<1>3. \A n \in Nat : n \in H
  <2> HIDE DEF H
  <2> QED
    BY <1>1, <1>2, NatSet
<1> QED
  BY <1>3

\* A sequence that loses its head loses that of its sum.
LEMMA TotalTail ==
  ASSUME NEW s \in Seq(Int), s # <<>>
  PROVE  Tail(s) \in Seq(Int) /\ Total(s) = Head(s) + Total(Tail(s))
<1> DEFINE G == {r \in Seq(Int) : r # <<>> => Total(r) = Head(r) + Total(Tail(r))}
<1>1. <<>> \in G
  OBVIOUS
<1>2. ASSUME NEW r \in Seq(Int), NEW v \in Int, r \in G PROVE Append(r, v) \in G
  <2> DEFINE t == Append(r, v)
  <2>1. t \in Seq(Int) /\ Total(t) = Total(r) + v
    BY TotalAppend
  <2>2. CASE r = <<>>
    <3>1. t = <<v>> /\ Head(t) = v /\ Tail(t) = <<>>
      BY <2>2
    <3>2. Total(r) = 0 /\ Total(Tail(t)) = 0
      BY <2>2, <3>1, TotalTyped
    <3>3. Total(t) = Head(t) + Total(Tail(t))
      <4> HIDE DEF t
      <4> QED
        BY <2>1, <3>1, <3>2
    <3> QED
      BY <2>1, <3>3
  <2>3. CASE r # <<>>
    <3>1. Head(t) = Head(r) /\ Head(r) \in Int /\ Tail(r) \in Seq(Int)
      BY <2>3
    <3>2. Tail(t) = Append(Tail(r), v)
      BY <2>3
    <3>3. Total(Tail(t)) = Total(Tail(r)) + v
      BY <3>1, <3>2, TotalAppend
    <3>4. Total(r) = Head(r) + Total(Tail(r))
      BY <1>2, <2>3
    <3>5. Total(Tail(r)) \in Int
      BY <3>1, TotalTyped
    <3>6. Total(t) = Head(t) + Total(Tail(t))
      <4> HIDE DEF t
      <4> QED
        BY <2>1, <3>1, <3>3, <3>4, <3>5
    <3> QED
      BY <2>1, <3>6
  <2> QED
    BY <2>2, <2>3
<1>3. s \in G
  <2> HIDE DEF G
  <2> QED
    BY <1>1, <1>2, NumberSequences
<1> QED
  BY <1>3

\* Sequences of one length with the same elements are the same.
LEMMA SameSequence ==
  ASSUME NEW S, NEW a \in Seq(S), NEW b \in Seq(S), Len(a) = Len(b),
         \A i \in 1..Len(a) : a[i] = b[i]
  PROVE  a = b
<1>1. a = [i \in 1..Len(a) |-> a[i]] /\ b = [i \in 1..Len(b) |-> b[i]]
  OBVIOUS
<1> QED
  BY <1>1, Zenon

\* Squares of a sequence that is extended, or has lost its head.
LEMMA SquareFacts ==
  ASSUME NEW s \in Seq(Int)
  PROVE  /\ Square(s) \in Seq(Int) /\ Len(Square(s)) = Len(s)
         /\ \A v \in Int : Square(Append(s, v)) = Append(Square(s), v * v)
         /\ s # <<>> => /\ Square(Tail(s)) = Tail(Square(s)) /\ Square(s) # <<>>
                        /\ Head(Square(s)) = Head(s) * Head(s)
<1>1. Square(s) \in Seq(Int) /\ Len(Square(s)) = Len(s)
  BY SMTT(40) DEF Square
<1>2. ASSUME NEW v \in Int PROVE Square(Append(s, v)) = Append(Square(s), v * v)
  BY <1>1 DEF Square
<1>3. ASSUME s # <<>> PROVE /\ Square(Tail(s)) = Tail(Square(s)) /\ Square(s) # <<>>
                            /\ Head(Square(s)) = Head(s) * Head(s)
  <2>1. /\ Tail(s) \in Seq(Int) /\ Len(Tail(s)) = Len(s) - 1 /\ Len(s) \in Nat \ {0}
        /\ \A i \in 1..Len(s) - 1 : Tail(s)[i] = s[i + 1]
    BY <1>3
  <2>2. Square(s) # <<>>
    BY <1>1, <2>1
  <2>3. /\ Tail(Square(s)) \in Seq(Int) /\ Len(Tail(Square(s))) = Len(s) - 1
        /\ \A i \in 1..Len(s) - 1 : Tail(Square(s))[i] = Square(s)[i + 1]
    BY <1>1, <2>2
  <2>4. /\ Square(Tail(s)) \in Seq(Int) /\ Len(Square(Tail(s))) = Len(s) - 1
        /\ \A i \in 1..Len(s) - 1 : Square(Tail(s))[i] = Tail(s)[i] * Tail(s)[i]
    BY <2>1 DEF Square
  <2>5. \A i \in 1..Len(s) : Square(s)[i] = s[i] * s[i]
    BY DEF Square
  <2>6. ASSUME NEW i \in 1..Len(s) - 1 PROVE Square(Tail(s))[i] = Tail(Square(s))[i]
    <3>1. i + 1 \in 1..Len(s)
      BY <2>1
    <3> QED
      BY <2>1, <2>3, <2>4, <2>5, <3>1
  <2>7. Square(Tail(s)) = Tail(Square(s))
    <3>1. PICK a \in Seq(Int), b \in Seq(Int) : a = Square(Tail(s)) /\ b = Tail(Square(s))
      BY <2>3, <2>4
    <3>2. Len(a) = Len(b) /\ \A i \in 1..Len(a) : a[i] = b[i]
      BY <2>3, <2>4, <2>6, <3>1
    <3>3. a = b
      BY <3>2, SameSequence
    <3> QED
      BY <3>1, <3>3
  <2>8. Head(Square(s)) = Head(s) * Head(s)
    <3>1. Head(Square(s)) = Square(s)[1] /\ Head(s) = s[1] /\ 1 \in 1..Len(s)
      BY <1>1, <2>1
    <3> QED
      BY <2>5, <3>1
  <2> QED
    BY <2>2, <2>7, <2>8
<1> QED
  BY <1>1, <1>2, <1>3

\* The squares of the distances from c, n times enlarged.
Spread(s, n, c) == [i \in DOMAIN s |-> (n * s[i] - c) * (n * s[i] - c)]

LEMMA SpreadTyped ==
  ASSUME NEW s \in Seq(Int), NEW n \in Int, NEW c \in Int
  PROVE  /\ Spread(s, n, c) \in Seq(Int) /\ Len(Spread(s, n, c)) = Len(s)
         /\ \A v \in Int : Spread(Append(s, v), n, c)
                             = Append(Spread(s, n, c), (n * v - c) * (n * v - c))
<1>1. Spread(s, n, c) \in Seq(Int) /\ Len(Spread(s, n, c)) = Len(s)
  <2>1. \A x \in Int : (n * x - c) * (n * x - c) \in Int
    OBVIOUS
  <2>2. \A i \in 1..Len(s) : s[i] \in Int /\ (n * s[i] - c) * (n * s[i] - c) \in Int
    BY <2>1, Numbers
  <2>3. Spread(s, n, c) = [i \in 1..Len(s) |-> (n * s[i] - c) * (n * s[i] - c)]
    BY Numbers DEF Spread
  <2>4. Spread(s, n, c) \in [1..Len(s) -> Int] /\ Len(s) \in Nat
    BY <2>2, <2>3, Numbers
  <2> QED
    BY <2>4
<1>2. ASSUME NEW v \in Int
      PROVE  Spread(Append(s, v), n, c) = Append(Spread(s, n, c), (n * v - c) * (n * v - c))
  BY <1>1 DEF Spread
<1> QED
  BY <1>1, <1>2

LEMMA SpreadTotal ==
  ASSUME NEW s \in Seq(Int), NEW n \in Int, NEW c \in Int
  PROVE  Total(Spread(s, n, c))
           = n * n * Total(Square(s)) - 2 * n * c * Total(s) + Len(s) * c * c
<1> DEFINE G == {r \in Seq(Int) : Total(Spread(r, n, c))
                   = n * n * Total(Square(r)) - 2 * n * c * Total(r) + Len(r) * c * c}
<1>1. <<>> \in G
  <2>1. Spread(<<>>, n, c) = <<>> /\ Square(<<>>) = <<>> /\ Len(<<>>) = 0 /\ <<>> \in Seq(Int)
    BY DEF Spread, Square
  <2>2. Total(<<>>) = 0
    BY <2>1, TotalTyped
  <2>3. n * n * 0 - 2 * n * c * 0 + 0 * c * c = 0
    OBVIOUS
  <2> QED
    BY <2>1, <2>2, <2>3
<1>2. ASSUME NEW r \in Seq(Int), NEW v \in Int, r \in G PROVE Append(r, v) \in G
  <2>1. PICK w \in Int : w = (n * v - c) * (n * v - c)
    OBVIOUS
  <2>2. Total(Spread(Append(r, v), n, c)) = Total(Spread(r, n, c)) + w
    <3>1. Spread(Append(r, v), n, c) = Append(Spread(r, n, c), (n * v - c) * (n * v - c))
      BY SpreadTyped
    <3>2. Spread(r, n, c) \in Seq(Int)
      BY SpreadTyped
    <3> QED
      BY <2>1, <3>1, <3>2, TotalAppend
  <2>3. Total(Square(Append(r, v))) = Total(Square(r)) + v * v
    <3>1. PICK x \in Int : x = v * v
      OBVIOUS
    <3>2. Square(Append(r, v)) = Append(Square(r), x) /\ Square(r) \in Seq(Int)
      BY <3>1, SquareFacts
    <3> QED
      BY <3>1, <3>2, TotalAppend
  <2>4. Total(Append(r, v)) = Total(r) + v
    BY TotalAppend
  <2>5. Append(r, v) \in Seq(Int) /\ Len(Append(r, v)) = Len(r) + 1 /\ Len(r) \in Int
    OBVIOUS
  <2>6. PICK p \in Int, q \in Int, k \in Int, l \in Int :
          p = Total(Spread(r, n, c)) /\ q = Total(Square(r)) /\ k = Total(r) /\ l = Len(r)
    BY <2>5, SpreadTyped, SquareFacts, TotalTyped
  <2>7. p = n * n * q - 2 * n * c * k + l * c * c
    BY <1>2, <2>6
  <2>8. n * n * (q + v * v) - 2 * n * c * (k + v) + (l + 1) * c * c = p + w
    BY <2>1, <2>7
  <2> QED
    BY <2>2, <2>3, <2>4, <2>5, <2>6, <2>8
<1>3. s \in G
  <2> HIDE DEF G
  <2> QED
    BY <1>1, <1>2, NumberSequences
<1> QED
  BY <1>3

\* A sum of squares is no less than each of them.
LEMMA TotalOfSquares ==
  ASSUME NEW s \in Seq(Int)
  PROVE  /\ Total(Square(s)) \in Int /\ Total(Square(s)) >= 0
         /\ Total(Square(s)) = 0 <=> \A i \in DOMAIN s : s[i] = 0
<1> DEFINE q == Square(s)
<1>1. q \in Seq(Int) /\ DOMAIN q = DOMAIN s /\ IsFiniteSet(DOMAIN q)
  BY SquareFacts, Numbers DEF Square
<1>2. \A i \in DOMAIN q : q[i] \in Int /\ q[i] >= 0 /\ q[i] = s[i] * s[i] /\ s[i] \in Int
  BY <1>1, Numbers DEF Square
<1>3. \A i \in DOMAIN q : q[i] = 0 <=> s[i] = 0
  BY <1>2
<1> HIDE DEF q
<1>4. Total(q) \in Int /\ Total(q) >= 0
  BY <1>1, <1>2, SumFacts DEF Total
<1>5. ASSUME NEW i \in DOMAIN q PROVE q[i] <= Total(q)
  <2>1. Total(q) = q[i] + SumFunctionOnSet(q, DOMAIN q \ {i})
    BY <1>1, <1>2, SumFacts, ZenonT(60) DEF Total
  <2>2. IsFiniteSet(DOMAIN q \ {i})
    BY <1>1, FS_Subset
  <2>3. SumFunctionOnSet(q, DOMAIN q \ {i}) \in Int /\ SumFunctionOnSet(q, DOMAIN q \ {i}) >= 0
    BY <1>2, <2>2, SumFacts
  <2> QED
    BY <1>2, <2>1, <2>3
<1>6. ASSUME \A i \in DOMAIN q : q[i] = 0 PROVE Total(q) = 0
  BY <1>1, <1>6, SumOfZeros DEF Total
<1>7. Total(q) = 0 <=> \A i \in DOMAIN q : q[i] = 0
  BY <1>2, <1>4, <1>5, <1>6
<1> QED
  BY <1>1, <1>3, <1>4, <1>7 DEF q

LEMMA FunctionIsSeq ==
  ASSUME NEW S, NEW n \in Nat, NEW f \in [1..n -> S]
  PROVE  f \in Seq(S) /\ Len(f) = n
  OBVIOUS

\* A product with a positive number orders as the other factor.
LEMMA Sign ==
  ASSUME NEW n \in Nat, NEW e \in Int, n > 0
  PROVE  /\ e <= 0 <=> n * e <= 0
         /\ e > 0 <=> n * e > 0
<1>1. e <= 0 => n * e <= 0
  OBVIOUS
<1>2. e > 0 => n * e > 0
  OBVIOUS
<1>3. n * e \in Int
  OBVIOUS
<1> QED
  BY <1>1, <1>2, <1>3

LEMMA Scaled ==
  ASSUME NEW n \in Nat, n > 0, NEW x \in Int, NEW y \in Int
  PROVE  n * x >= n * y <=> x >= y
<1>1. PICK d \in Int : d = y - x
  OBVIOUS
<1>2. n * d = n * y - n * x
  BY <1>1
<1>3. n * x \in Int /\ n * y \in Int
  OBVIOUS
<1>4. d <= 0 <=> n * d <= 0
  BY Sign
<1> QED
  BY <1>1, <1>2, <1>3, <1>4

\* The number that decides: count * sumSq - sum * sum is the sum of the squared
\* deviations, divided by the count.
LEMMA Factored ==
  ASSUME NEW n \in Int, NEW k \in Int, NEW q \in Int
  PROVE  n * n * q - 2 * n * k * k + n * k * k = n * (n * q - k * k)
<1>1. PICK a \in Int, b \in Int, c \in Int : a = n * q /\ b = k * k /\ c = n * b
  OBVIOUS
<1>2. n * n * q = n * a /\ 2 * n * k * k = 2 * c /\ n * k * k = c
  BY <1>1
<1>3. n * (a - b) = n * a - c
  BY <1>1
<1>4. PICK x \in Int : x = n * a
  BY <1>1
<1>5. x - 2 * c + c = x - c
  BY <1>1, <1>4
<1> QED
  BY <1>1, <1>2, <1>3, <1>4, <1>5

Excess(s) == Len(s) * Total(Square(s)) - Total(s) * Total(s)
Scatter(s) == [i \in DOMAIN s |-> Len(s) * s[i] - Total(s)]

LEMMA ScatterOf ==
  ASSUME NEW s \in Seq(Int)
  PROVE  /\ Excess(s) \in Int
         /\ Total(Square(Scatter(s))) = Len(s) * Excess(s) /\ Len(s) * Excess(s) >= 0
         /\ Len(s) * Excess(s) = 0 <=> \A i \in DOMAIN Scatter(s) : Scatter(s)[i] = 0
<1>1. PICK n \in Nat : n = Len(s)
  OBVIOUS
<1>2. PICK k \in Int, q \in Int : k = Total(s) /\ q = Total(Square(s))
  BY TotalTyped, SquareFacts
<1>3. PICK e \in Int : e = n * q - k * k
  <2>1. n * q - k * k \in Int
    OBVIOUS
  <2> QED
    BY <2>1
<1>4. PICK d : d = [i \in DOMAIN s |-> n * s[i] - k]
  BY Zenon
<1>5. Total(Square(d)) = n * e
  <2>1. Square(d) = Spread(s, n, k)
    BY <1>1, <1>4 DEF Square, Spread
  <2>2. Total(Spread(s, n, k)) = n * n * q - 2 * n * k * k + n * k * k
    <3>1. Total(Spread(s, n, k))
            = n * n * Total(Square(s)) - 2 * n * k * Total(s) + Len(s) * k * k
      <4>1. s \in Seq(Int) /\ n \in Int /\ k \in Int
        OBVIOUS
      <4> QED
        BY ONLY <4>1, SpreadTotal, Zenon
    <3> QED
      BY ONLY <3>1, <1>1, <1>2, Zenon
  <2>3. n * n * q - 2 * n * k * k + n * k * k = n * (n * q - k * k)
    <3>1. n \in Int
      OBVIOUS
    <3> QED
      BY <3>1, Factored
  <2> QED
    BY ONLY <2>1, <2>2, <2>3, <1>3, Zenon
<1>6. n * e >= 0 /\ (n * e = 0 <=> \A i \in DOMAIN d : d[i] = 0)
  <2>1. \A x \in Int : n * x - k \in Int
    OBVIOUS
  <2>2. \A i \in 1..n : s[i] \in Int /\ n * s[i] - k \in Int
    BY <1>1, <2>1, Numbers
  <2>3. d = [i \in 1..n |-> n * s[i] - k]
    BY <1>1, <1>4, Numbers
  <2>4. d \in [1..n -> Int]
    BY <2>2, <2>3
  <2>5. d \in Seq(Int)
    BY <2>4, FunctionIsSeq
  <2> QED
    BY <1>5, <2>5, TotalOfSquares
<1>7. Excess(s) = e /\ Scatter(s) = d
  <2>1. Excess(s) = e
    BY <1>1, <1>2, <1>3, Zenon DEF Excess
  <2>2. Scatter(s) = d
    BY <1>1, <1>2, <1>4, Zenon DEF Scatter
  <2> QED
    BY <2>1, <2>2
<1> QED
  <2>1. e \in Int
    OBVIOUS
  <2> QED
    BY ONLY <1>1, <1>5, <1>6, <1>7, <2>1, Zenon

-----------------------------------------------------------------------------
\* A finite set of integers has a least and a greatest member.
LEMMA Extremes ==
  ASSUME NEW S \in SUBSET Int, IsFiniteSet(S), S # {}
  PROVE  /\ \E m \in S : \A x \in S : m <= x
         /\ \E m \in S : \A x \in S : x <= m
<1> DEFINE G == {s \in SUBSET S : s # {} => /\ \E m \in s : \A x \in s : m <= x
                                            /\ \E m \in s : \A x \in s : x <= m}
<1>1. {} \in G
  OBVIOUS
<1>2. ASSUME NEW s \in SUBSET S, s # {}, \A x \in s : s \ {x} \in G PROVE s \in G
  <2>1. PICK y \in s : TRUE
    BY <1>2
  <2>2. y \in Int /\ \A x \in s : x \in Int
    BY <2>1
  <2>3. CASE s \ {y} = {}
    <3>1. \A x \in s : x = y
      BY <2>3
    <3> QED
      BY <2>1, <2>2, <3>1
  <2>4. CASE s \ {y} # {}
    <3>1. PICK a \in s \ {y}, b \in s \ {y} : \A x \in s \ {y} : a <= x /\ x <= b
      BY <1>2, <2>1, <2>4
    <3>2. \E m \in s : \A x \in s : m <= x
      <4>1. CASE a <= y
        BY <2>2, <3>1, <4>1
      <4>2. CASE ~(a <= y)
        <5>1. \A x \in s : y <= x
          BY <2>2, <3>1, <4>2
        <5> QED
          BY <2>1, <5>1
      <4> QED
        BY <4>1, <4>2
    <3>3. \E m \in s : \A x \in s : x <= m
      <4>1. CASE y <= b
        BY <2>2, <3>1, <4>1
      <4>2. CASE ~(y <= b)
        <5>1. \A x \in s : x <= y
          BY <2>2, <3>1, <4>2
        <5> QED
          BY <2>1, <5>1
      <4> QED
        BY <4>1, <4>2
    <3> QED
      BY <3>2, <3>3
  <2> QED
    BY <2>3, <2>4
<1>3. S \in G
  <2> HIDE DEF G
  <2> QED
    BY <1>1, <1>2, SizedSets
<1> QED
  BY <1>3

-----------------------------------------------------------------------------
\* The numbers of a sequence in their order: place i is for the number that has fewer
\* than i below it and, with its equals, reaches i.
Under(s, x) == {i \in DOMAIN s : s[i] < x}
UpTo(s, x)  == {i \in DOMAIN s : s[i] <= x}
Ranked(s) ==
  [i \in DOMAIN s |-> CHOOSE x \in Members(s) :
                        Cardinality(Under(s, x)) < i /\ i <= Cardinality(UpTo(s, x))]

LEMMA PlacesFinite ==
  ASSUME NEW s \in Seq(Int)
  PROVE  /\ Members(s) \in SUBSET Int /\ IsFiniteSet(Members(s))
         /\ \A P \in SUBSET DOMAIN s : IsFiniteSet(P) /\ Cardinality(P) \in 0..Len(s)
         /\ Cardinality(DOMAIN s) = Len(s)
<1>1. Len(s) \in Nat /\ DOMAIN s = 1..Len(s) /\ \A i \in DOMAIN s : s[i] \in Int
  BY Numbers
<1>2. IsFiniteSet(DOMAIN s) /\ Cardinality(DOMAIN s) = Len(s)
  BY <1>1, FS_Interval, SMTT(40)
<1>3. Members(s) \in SUBSET Int
  BY <1>1 DEF Members
<1>4. IsFiniteSet(Members(s))
  <2>1. s = [i \in 1..Len(s) |-> s[i]] /\ Members(s) = {s[i] : i \in 1..Len(s)}
    BY <1>1 DEF Members
  <2> QED
    BY <1>1, <2>1, SequenceSet
<1>5. ASSUME NEW P \in SUBSET DOMAIN s PROVE IsFiniteSet(P) /\ Cardinality(P) \in 0..Len(s)
  <2>1. IsFiniteSet(P) /\ Cardinality(P) <= Cardinality(DOMAIN s)
    BY <1>2, FS_Subset
  <2>2. Cardinality(P) \in Nat
    BY <2>1, FS_CardinalityType
  <2> QED
    BY <1>1, <1>2, <2>1, <2>2
<1> QED
  BY <1>2, <1>3, <1>4, <1>5

LEMMA RankExists ==
  ASSUME NEW s \in Seq(Int), NEW i \in DOMAIN s
  PROVE  \E x \in Members(s) : Cardinality(Under(s, x)) < i /\ i <= Cardinality(UpTo(s, x))
<1> DEFINE V == {x \in Members(s) : i <= Cardinality(UpTo(s, x))}
<1>1. /\ Len(s) \in Nat /\ i \in Nat /\ 0 < i /\ i <= Len(s) /\ Members(s) \in SUBSET Int
      /\ IsFiniteSet(Members(s)) /\ Members(s) # {}
  BY Numbers, PlacesFinite DEF Members
<1>2. \A j \in DOMAIN s : s[j] \in Members(s) /\ s[j] \in Int
  BY Numbers DEF Members
<1>3. V # {}
  <2>1. PICK m \in Members(s) : \A x \in Members(s) : x <= m
    BY <1>1, Extremes
  <2>2. UpTo(s, m) = DOMAIN s
    BY <1>2, <2>1 DEF UpTo
  <2> QED
    BY <1>1, <2>2, PlacesFinite
<1>4. PICK x \in V : \A y \in V : x <= y
  <2>1. V \in SUBSET Int /\ IsFiniteSet(V)
    BY <1>1, FS_Subset
  <2> HIDE DEF V
  <2> QED
    BY <1>3, <2>1, Extremes
<1>5. x \in Int /\ x \in Members(s)
  BY <1>1
<1>6. CASE Under(s, x) = {}
  <2>1. Cardinality(Under(s, x)) = 0
    BY <1>6, FS_EmptySet
  <2> QED
    BY <1>1, <1>5, <2>1
<1>7. CASE Under(s, x) # {}
  <2> DEFINE W == {y \in Members(s) : y < x}
  <2>1. W # {} /\ W \in SUBSET Int /\ IsFiniteSet(W)
    <3>1. W # {}
      BY <1>2, <1>7 DEF Under
    <3> QED
      BY <1>1, <3>1, FS_Subset
  <2>2. PICK y \in W : \A z \in W : z <= y
    <3> HIDE DEF W
    <3> QED
      BY <2>1, Extremes
  <2>3. UpTo(s, y) = Under(s, x)
    <3>1. y \in Int /\ y < x
      BY <2>1, <2>2
    <3>2. \A j \in DOMAIN s : s[j] <= y <=> s[j] < x
      BY <1>2, <1>5, <2>2, <3>1
    <3> QED
      BY <3>2 DEF UpTo, Under
  <2>4. ~(i <= Cardinality(UpTo(s, y)))
    <3>1. y \in Int /\ y < x /\ y \in Members(s)
      BY <2>1, <2>2
    <3> QED
      BY <1>4, <1>5, <3>1
  <2>5. Cardinality(Under(s, x)) \in Nat
    BY PlacesFinite DEF Under
  <2> QED
    BY <1>1, <1>5, <2>3, <2>4, <2>5
<1> QED
  BY <1>6, <1>7

LEMMA RankedFacts ==
  ASSUME NEW s \in Seq(Int)
  PROVE  /\ DOMAIN Ranked(s) = 1..Len(s)
         /\ \A i \in 1..Len(s) :
              /\ Ranked(s)[i] \in Members(s) /\ Ranked(s)[i] \in Int
              /\ Cardinality(Under(s, Ranked(s)[i])) < i
              /\ i <= Cardinality(UpTo(s, Ranked(s)[i]))
         /\ \A i, j \in 1..Len(s) : i <= j => Ranked(s)[i] <= Ranked(s)[j]
<1>1. DOMAIN s = 1..Len(s) /\ Len(s) \in Nat
  BY Numbers
<1>2. DOMAIN Ranked(s) = 1..Len(s)
  BY <1>1 DEF Ranked
<1>3. ASSUME NEW i \in 1..Len(s)
      PROVE  /\ Ranked(s)[i] \in Members(s) /\ Ranked(s)[i] \in Int
             /\ Cardinality(Under(s, Ranked(s)[i])) < i
             /\ i <= Cardinality(UpTo(s, Ranked(s)[i]))
  <2> DEFINE P(x) == Cardinality(Under(s, x)) < i /\ i <= Cardinality(UpTo(s, x))
  <2>1. \E x \in Members(s) : P(x)
    BY <1>1, RankExists
  <2>2. Ranked(s)[i] = CHOOSE x \in Members(s) : P(x)
    BY <1>1 DEF Ranked
  <2> HIDE DEF P
  <2>3. Ranked(s)[i] \in Members(s) /\ P(Ranked(s)[i])
    BY <2>1, <2>2
  <2> QED
    BY <2>3, PlacesFinite DEF P
<1>4. ASSUME NEW i \in 1..Len(s), NEW j \in 1..Len(s), i <= j
      PROVE  Ranked(s)[i] <= Ranked(s)[j]
  <2> DEFINE x == Ranked(s)[i]
             y == Ranked(s)[j]
  <2>1. x \in Int /\ Cardinality(Under(s, x)) < i /\ y \in Int /\ j <= Cardinality(UpTo(s, y))
    BY <1>3
  <2> SUFFICES ASSUME y < x PROVE FALSE
    BY <2>1
  <2>2. UpTo(s, y) \subseteq Under(s, x)
    <3>1. \A k \in DOMAIN s : s[k] \in Int
      BY Numbers
    <3> HIDE DEF x, y
    <3> QED
      BY <2>1, <3>1 DEF UpTo, Under
  <2>3. Cardinality(UpTo(s, y)) <= Cardinality(Under(s, x))
    <3>1. IsFiniteSet(Under(s, x))
      BY PlacesFinite DEF Under
    <3> QED
      BY <2>2, <3>1, FS_Subset
  <2>4. Cardinality(UpTo(s, y)) \in Int /\ Cardinality(Under(s, x)) \in Int
    BY PlacesFinite DEF Under, UpTo
  <2> HIDE DEF x, y
  <2> QED
    BY <1>4, <2>1, <2>3, <2>4
<1> QED
  BY <1>2, <1>3, <1>4

LEMMA RankedTyped ==
  ASSUME NEW s \in Seq(Int)
  PROVE  Ranked(s) \in Seq(Int) /\ Len(Ranked(s)) = Len(s)
<1>1. Len(s) \in Nat /\ \A i \in 1..Len(s) : Ranked(s)[i] \in Int
  BY RankedFacts
<1>2. Ranked(s) = [i \in 1..Len(s) |-> Ranked(s)[i]]
  BY RankedFacts DEF Ranked
<1>3. Ranked(s) \in [1..Len(s) -> Int]
  BY <1>1, <1>2
<1> QED
  BY <1>1, <1>3, FunctionIsSeq

\* Those that are not below x are the others.
LEMMA NotUnder ==
  ASSUME NEW s \in Seq(Int), NEW x \in Int
  PROVE  Cardinality({i \in DOMAIN s : s[i] >= x}) = Len(s) - Cardinality(Under(s, x))
<1> DEFINE O == {i \in DOMAIN s : s[i] >= x}
<1>1. \A i \in DOMAIN s : s[i] \in Int
  BY Numbers
<1>2. O = DOMAIN s \ Under(s, x) /\ Under(s, x) \in SUBSET DOMAIN s
  BY <1>1 DEF Under
<1>3. IsFiniteSet(DOMAIN s) /\ Cardinality(DOMAIN s) = Len(s)
  BY PlacesFinite
<1>4. DOMAIN s \cap Under(s, x) = Under(s, x)
  BY <1>2
<1>5. Cardinality(DOMAIN s \ Under(s, x))
        = Cardinality(DOMAIN s) - Cardinality(DOMAIN s \cap Under(s, x))
  BY <1>3, FS_Difference
<1> QED
  BY <1>2, <1>3, <1>4, <1>5

-----------------------------------------------------------------------------
\* The members of a finite set of integers, in order.
LEMMA Sorted ==
  ASSUME NEW S \in SUBSET Int, IsFiniteSet(S)
  PROVE  \E s \in [1..Cardinality(S) -> S] : \A i, j \in DOMAIN s : i < j => s[i] < s[j]
<1> DEFINE G == {r \in SUBSET S : \E s \in [1..Cardinality(r) -> r] :
                                    \A i, j \in DOMAIN s : i < j => s[i] < s[j]}
<1>1. {} \in G
  <2>1. Cardinality({}) = 0
    BY FS_EmptySet
  <2>2. <<>> \in [1..0 -> {}] /\ \A i, j \in DOMAIN <<>> : FALSE
    OBVIOUS
  <2> QED
    BY <2>1, <2>2
<1>2. ASSUME NEW r \in SUBSET S, r # {}, \A x \in r : r \ {x} \in G PROVE r \in G
  <2>1. IsFiniteSet(r) /\ r \in SUBSET Int
    BY FS_Subset
  <2>2. PICK m \in r : \A x \in r : x <= m
    BY <1>2, <2>1, Extremes
  <2>3. PICK n \in Nat : Cardinality(r \ {m}) = n /\ Cardinality(r) = n + 1
    <3>1. Cardinality(r \ {m}) = Cardinality(r) - 1 /\ Cardinality(r) > 0 /\ Cardinality(r) \in Nat
      BY <2>1, <2>2, OneLess, FS_CardinalityType
    <3> QED
      BY <3>1
  <2>4. PICK s \in [1..n -> r \ {m}] : \A i, j \in DOMAIN s : i < j => s[i] < s[j]
    BY <1>2, <2>2, <2>3
  <2> DEFINE t == [i \in 1..n+1 |-> IF i = n + 1 THEN m ELSE s[i]]
  <2>5. t \in [1..n+1 -> r]
    BY <2>2
  <2>6. ASSUME NEW i \in 1..n+1, NEW j \in 1..n+1, i < j PROVE t[i] < t[j]
    <3>1. i \in 1..n /\ t[i] = s[i] /\ s[i] \in r \ {m}
      BY <2>6
    <3>2. CASE j = n + 1
      <4>1. s[i] <= m /\ s[i] # m /\ s[i] \in Int /\ m \in Int /\ t[j] = m
        BY <2>1, <2>2, <3>1, <3>2
      <4> QED
        BY <3>1, <4>1
    <3>3. CASE j # n + 1
      <4>1. j \in 1..n /\ t[j] = s[j]
        BY <3>3
      <4> QED
        BY <2>4, <2>6, <3>1, <4>1
    <3> QED
      BY <3>2, <3>3
  <2> HIDE DEF t
  <2> QED
    BY <2>3, <2>5, <2>6
<1>3. S \in G
  <2> HIDE DEF G
  <2> QED
    BY <1>1, <1>2, SizedSets
<1> QED
  BY <1>3

\* Such a list holds every member.
LEMMA SortedHoldsAll ==
  ASSUME NEW S \in SUBSET Int, IsFiniteSet(S), NEW s \in [1..Cardinality(S) -> S],
         \A i, j \in DOMAIN s : i < j => s[i] < s[j]
  PROVE  \A x \in S : \E i \in 1..Cardinality(S) : s[i] = x
<1> DEFINE T == {s[i] : i \in 1..Cardinality(S)}
<1>1. Cardinality(S) \in Nat
  BY FS_CardinalityType
<1>2. \A i, j \in 1..Cardinality(S) : i # j => s[i] # s[j]
  <2> SUFFICES ASSUME NEW i \in 1..Cardinality(S), NEW j \in 1..Cardinality(S), i # j
               PROVE  s[i] # s[j]
    OBVIOUS
  <2>1. i < j \/ j < i
    BY <1>1
  <2>2. s[i] < s[j] \/ s[j] < s[i]
    BY <2>1
  <2>3. s[i] \in Int /\ s[j] \in Int
    OBVIOUS
  <2> QED
    BY <2>2, <2>3
<1>3. Cardinality(T) = Cardinality(S)
  <2>1. DOMAIN s = 1..Cardinality(S) /\ s = [i \in 1..Cardinality(S) |-> s[i]]
    OBVIOUS
  <2> QED
    BY <1>1, <1>2, <2>1, SequenceSet
<1>4. T \subseteq S
  OBVIOUS
<1>5. T = S
  <2> HIDE DEF T
  <2> QED
    BY <1>3, <1>4, FS_Subset
<1> QED
  BY <1>5

\* The place where a number belongs in such a list.
LEMMA Bisected ==
  ASSUME NEW n \in Nat, NEW s \in [1..n -> Int],
         \A i, j \in DOMAIN s : i < j => s[i] < s[j], NEW v \in Int
  PROVE  \E i \in 0..n : \A j \in DOMAIN s : j <= i <=> s[j] < v
<1> DEFINE P == {j \in 1..n : s[j] < v}
<1>1. CASE P = {}
  <2>1. \A j \in 1..n : ~(j <= 0) /\ ~(s[j] < v)
    BY <1>1
  <2>2. 0 \in 0..n /\ DOMAIN s = 1..n
    OBVIOUS
  <2>3. \A j \in DOMAIN s : j <= 0 <=> s[j] < v
    BY <2>1, <2>2
  <2> QED
    BY <2>2, <2>3
<1>2. CASE P # {}
  <2>1. P \in SUBSET Int /\ IsFiniteSet(P)
    BY FS_Interval, FS_Subset
  <2>2. PICK m \in P : \A x \in P : x <= m
    <3> HIDE DEF P
    <3> QED
      BY <1>2, <2>1, Extremes
  <2>3. ASSUME NEW j \in 1..n PROVE j <= m <=> s[j] < v
    <3>1. s[j] \in Int /\ s[m] \in Int /\ s[m] < v /\ m \in 1..n
      BY <2>2
    <3>2. j < m => s[j] < s[m]
      BY <3>1
    <3>3. CASE j < m
      BY <3>1, <3>2, <3>3
    <3>4. CASE j = m
      BY <3>1, <3>4
    <3>5. CASE j > m
      <4>1. j \notin P
        BY <2>2, <3>1, <3>5
      <4> QED
        BY <3>5, <3>1, <4>1
    <3> QED
      BY <3>1, <3>3, <3>4, <3>5
  <2>4. m \in 0..n /\ DOMAIN s = 1..n
    BY <2>2
  <2>5. \A j \in DOMAIN s : j <= m <=> s[j] < v
    BY <2>3, <2>4
  <2> QED
    BY <2>4, <2>5
<1> QED
  BY <1>1, <1>2

-----------------------------------------------------------------------------
\* The latest n of a sequence.
LatestOf(s, n) == SubSeq(s, IF Len(s) > n THEN Len(s) - n + 1 ELSE 1, Len(s))

LEMMA LatestEnds ==
  ASSUME NEW S, NEW s \in Seq(S), NEW n \in Nat \ {0}
  PROVE  /\ LatestOf(s, n) \in Seq(S) /\ Len(s) \in Nat
         /\ Len(LatestOf(s, n)) = IF Len(s) > n THEN n ELSE Len(s)
         /\ \A i \in 1..Len(LatestOf(s, n)) :
              LatestOf(s, n)[i] = s[i + (Len(s) - Len(LatestOf(s, n)))]
<1>1. Len(s) \in Nat
  OBVIOUS
<1>2. CASE Len(s) > n
  <2>1. LatestOf(s, n) = SubSeq(s, Len(s) - n + 1, Len(s))
    BY <1>2 DEF LatestOf
  <2>2. Len(s) - n + 1 \in 1..Len(s) /\ Len(s) - (Len(s) - n + 1) + 1 = n
    BY <1>1, <1>2
  <2> DEFINE l == SubSeq(s, Len(s) - n + 1, Len(s))
  <2>3. l \in Seq(S) /\ Len(l) = n
    BY <1>1, <2>2
  <2>4. \A i \in 1..n : l[i] = s[i + (Len(s) - n)]
    BY <1>1, <2>2
  <2> HIDE DEF l
  <2>5. LatestOf(s, n) = l
    BY <2>1 DEF l
  <2> QED
    BY <1>1, <1>2, <2>3, <2>4, <2>5
<1>3. CASE ~(Len(s) > n)
  <2>1. LatestOf(s, n) = SubSeq(s, 1, Len(s))
    BY <1>3 DEF LatestOf
  <2>2. SubSeq(s, 1, Len(s)) = s
    OBVIOUS
  <2>3. LatestOf(s, n) = s /\ \A i \in 1..Len(s) : i + (Len(s) - Len(s)) = i
    BY <1>1, <2>1, <2>2
  <2> QED
    BY <1>3, <2>3, <1>1
<1> QED
  BY <1>2, <1>3

\* Appending to the latest and to the whole leave the same latest.
LEMMA LatestAppend ==
  ASSUME NEW S, NEW s \in Seq(S), NEW n \in Nat \ {0}, NEW v \in S
  PROVE  LatestOf(Append(LatestOf(s, n), v), n) = LatestOf(Append(s, v), n)
<1>1. PICK l \in Seq(S) : l = LatestOf(s, n)
  BY LatestEnds
<1>2. Append(s, v) \in Seq(S) /\ Append(l, v) \in Seq(S)
  OBVIOUS
<1>3. PICK t \in Seq(S), u \in Seq(S) : t = Append(s, v) /\ u = Append(l, v)
  BY <1>2
<1>4. PICK a \in Seq(S), b \in Seq(S) : a = LatestOf(u, n) /\ b = LatestOf(t, n)
  BY LatestEnds
<1>6. /\ Len(s) \in Nat /\ Len(l) = IF Len(s) > n THEN n ELSE Len(s)
      /\ \A i \in 1..Len(l) : l[i] = s[i + (Len(s) - Len(l))]
  BY <1>1, LatestEnds
<1>7. /\ Len(u) \in Nat /\ Len(a) = IF Len(u) > n THEN n ELSE Len(u)
      /\ \A i \in 1..Len(a) : a[i] = u[i + (Len(u) - Len(a))]
  BY <1>4, LatestEnds
<1>8. /\ Len(t) \in Nat /\ Len(b) = IF Len(t) > n THEN n ELSE Len(t)
      /\ \A i \in 1..Len(b) : b[i] = t[i + (Len(t) - Len(b))]
  BY <1>4, LatestEnds
<1>9. /\ Len(t) = Len(s) + 1 /\ t[Len(s) + 1] = v /\ \A i \in 1..Len(s) : t[i] = s[i]
      /\ Len(u) = Len(l) + 1 /\ u[Len(l) + 1] = v /\ \A i \in 1..Len(l) : u[i] = l[i]
  BY <1>3
<1>10. PICK p \in Nat, q \in Nat, k \in Nat :
         /\ p = Len(s) /\ q = Len(l) /\ k = Len(a) /\ q + 1 = Len(u) /\ p + 1 = Len(t)
         /\ k = Len(b) /\ k > 0 /\ q <= p /\ k <= q + 1 /\ k <= p + 1
  <2>1. CASE Len(s) > n
    <3>1. Len(l) = n /\ Len(u) = n + 1 /\ Len(a) = n /\ Len(b) = n
      BY <1>6, <1>7, <1>8, <1>9, <2>1
    <3> QED
      BY <1>6, <1>7, <1>8, <1>9, <2>1, <3>1
  <2>2. CASE ~(Len(s) > n)
    <3>1. Len(l) = Len(s) /\ Len(u) = Len(t) /\ Len(a) = Len(b)
      BY <1>6, <1>7, <1>8, <1>9, <2>2
    <3>2. Len(a) \in Nat /\ Len(a) > 0 /\ Len(a) <= Len(u)
      BY <1>7, <1>9, <1>6, <3>1
    <3> QED
      BY <1>6, <1>7, <1>8, <1>9, <3>1, <3>2
  <2> QED
    BY <2>1, <2>2
<1>11. ASSUME NEW i \in 1..k PROVE a[i] = b[i]
  <2>1. a[i] = u[i + (q + 1 - k)] /\ b[i] = t[i + (p + 1 - k)]
    <3>1. /\ 1..k = 1..Len(a) /\ Len(u) - Len(a) = q + 1 - k
          /\ 1..k = 1..Len(b) /\ Len(t) - Len(b) = p + 1 - k
      BY <1>10
    <3> QED
      BY <1>7, <1>8, <3>1
  <2>2. CASE i = k
    <3>1. i + (q + 1 - k) = q + 1 /\ i + (p + 1 - k) = p + 1
      BY <1>10, <2>2
    <3> QED
      BY <1>9, <1>10, <2>1, <3>1
  <2>3. CASE i # k
    <3>1. PICK j \in 1..q : j = i + (q + 1 - k)
      <4>1. i \in Nat /\ i >= 1 /\ i < k
        BY <1>10, <2>3
      <4>2. i + (q + 1 - k) \in 1..q
        BY <1>10, <4>1
      <4> QED
        BY <4>2
    <3>2. j + (p - q) \in 1..p /\ j + (p - q) = i + (p + 1 - k)
      BY <1>10, <2>3, <3>1
    <3>3. u[j] = l[j] /\ l[j] = s[j + (p - q)] /\ t[j + (p - q)] = s[j + (p - q)]
      BY <1>6, <1>9, <1>10, <3>2
    <3> QED
      BY <2>1, <3>1, <3>2, <3>3
  <2> QED
    BY <2>2, <2>3
<1>12. a = b
  <2>1. Len(a) = Len(b) /\ \A i \in 1..Len(a) : a[i] = b[i]
    BY <1>10, <1>11
  <2>2. a \in Seq(S) /\ b \in Seq(S)
    BY <1>4
  <2> QED
    BY <2>1, <2>2, SameSequence
<1> QED
  BY <1>1, <1>3, <1>4, <1>12

\* A bounded list that gains a member keeps its latest.
LEMMA WindowIs ==
  ASSUME NEW T, NEW s \in Seq(T), NEW n \in Nat \ {0}, Len(s) <= n, NEW v \in T
  PROVE  LET t == Append(s, v)
             w == IF Len(t) > n THEN Tail(t) ELSE t
         IN  w \in Seq(T) /\ Len(w) <= n /\ w = LatestOf(t, n)
<1>1. PICK t : t = Append(s, v)
  OBVIOUS
<1>2. t \in Seq(T) /\ Len(t) = Len(s) + 1 /\ Len(s) \in Nat /\ t # <<>>
  BY <1>1
<1>3. CASE Len(t) > n
  <2>1. Len(t) = n + 1 /\ Tail(t) = SubSeq(t, 2, Len(t)) /\ Tail(t) \in Seq(T) /\ Len(Tail(t)) = n
    BY <1>2, <1>3
  <2>2. LatestOf(t, n) = SubSeq(t, Len(t) - n + 1, Len(t)) /\ Len(t) - n + 1 = 2
    BY <1>3, <2>1 DEF LatestOf
  <2> QED
    BY <1>1, <1>3, <2>1, <2>2
<1>4. CASE ~(Len(t) > n)
  <2>1. LatestOf(t, n) = SubSeq(t, 1, Len(t))
    BY <1>4 DEF LatestOf
  <2>2. SubSeq(t, 1, Len(t)) = t
    BY <1>2, SMTT(40)
  <2> QED
    BY <1>1, <1>2, <1>4, <2>1, <2>2
<1> QED
  BY <1>3, <1>4
-----------------------------------------------------------------------------
\* The value a fraction of the way, f whole steps and g hundredths, from the least of a
\* sequence to the greatest, in hundredths.
Mix(a, b, g) == 100 * a + g * (b - a)
Point(s, f, g) ==
  IF g = 0 THEN 100 * Ranked(s)[f + 1] ELSE Mix(Ranked(s)[f + 1], Ranked(s)[f + 2], g)

\* The two formulas for it, k hundredths of a step from the least of the n ranks r.
Interpolates(r, n, k) ==
  IF k \div 100 + 1 >= n
    THEN 100 * r[n]
    ELSE 100 * r[k \div 100 + 1] + (k % 100) * (r[k \div 100 + 2] - r[k \div 100 + 1])

WeighsAt(r, k, f, c) ==
  IF f = c THEN 100 * r[f + 1] ELSE r[f + 1] * (100 * c - k) + r[c + 1] * (k - 100 * f)

Weighs(r, k) == WeighsAt(r, k, k \div 100, (k + 99) \div 100)

Interpolation(s, p) == Interpolates(Ranked(s), Len(s), p * (Len(s) - 1))
Weighing(s, p)      == Weighs(Ranked(s), p * (Len(s) - 1))

\* How far p per cent of n steps are.
Split(n, p, f, g) ==
  /\ f \in 0..n /\ g \in 0..99 /\ p * n = 100 * f + g /\ (f = n => g = 0)
  /\ (p * n) \div 100 = f /\ (p * n) % 100 = g
  /\ (p * n + 99) \div 100 = IF g = 0 THEN f ELSE f + 1
  /\ ((100 - p) * n) \div 100 = IF g = 0 THEN n - f ELSE n - f - 1

LEMMA Hundredths ==
  ASSUME NEW k \in Nat
  PROVE  \E f \in Nat, g \in 0..99 :
           /\ k = 100 * f + g /\ k \div 100 = f /\ k % 100 = g
           /\ (k + 99) \div 100 = IF g = 0 THEN f ELSE f + 1
<1>1. /\ k \div 100 \in Nat /\ k % 100 \in 0..99 /\ k = 100 * (k \div 100) + (k % 100)
  OBVIOUS
<1>2. PICK f \in Nat, g \in 0..99 : f = k \div 100 /\ g = k % 100 /\ k = 100 * f + g
  BY <1>1
<1>3. (k + 99) \div 100 = IF g = 0 THEN f ELSE f + 1
  BY <1>2
<1> QED
  BY <1>2, <1>3

LEMMA Steps ==
  ASSUME NEW n \in Nat, NEW p \in 0..100
  PROVE  \E f, g : Split(n, p, f, g)
<1>1. PICK k \in Nat : k = p * n
  <2>1. p * n \in Nat
    OBVIOUS
  <2> QED
    BY <2>1
<1>2. PICK f \in Nat, g \in 0..99 :
        /\ k = 100 * f + g /\ k \div 100 = f /\ k % 100 = g
        /\ (k + 99) \div 100 = IF g = 0 THEN f ELSE f + 1
  BY Hundredths
<1>3. k <= 100 * n
  <2>1. PICK d \in Nat : d = 100 - p
    OBVIOUS
  <2>2. d * n \in Nat /\ d * n = 100 * n - p * n
    BY <2>1
  <2> QED
    BY <1>1, <2>2
<1>4. f \in 0..n /\ (f = n => g = 0)
  BY <1>2, <1>3
<1>5. (100 - p) * n = 100 * n - k
  BY <1>1
<1>6. (100 * n - k) \div 100 = IF g = 0 THEN n - f ELSE n - f - 1
  BY <1>2, <1>4
<1>7. Split(n, p, f, g)
  BY <1>1, <1>2, <1>4, <1>5, <1>6 DEF Split
<1> QED
  BY <1>7

LEMMA StepsOrdered ==
  ASSUME NEW n \in Nat, NEW p \in 0..100, NEW q \in 0..100, p <= q,
         NEW f, NEW g, Split(n, p, f, g), NEW h, NEW k, Split(n, q, h, k)
  PROVE  f < h \/ (f = h /\ g <= k)
<1>1. p * n <= q * n
  <2>1. PICK d \in Nat : d = q - p
    OBVIOUS
  <2>2. d * n \in Nat /\ d * n = q * n - p * n
    BY <2>1
  <2>3. p * n \in Nat /\ q * n \in Nat
    OBVIOUS
  <2> QED
    BY <2>2, <2>3
<1>2. PICK x \in Int, y \in Int : x = p * n /\ y = q * n /\ x <= y
  <2>1. p * n \in Int /\ q * n \in Int
    OBVIOUS
  <2> QED
    BY <1>1, <2>1
<1>3. /\ f \in Nat /\ g \in 0..99 /\ x = 100 * f + g
      /\ h \in Nat /\ k \in 0..99 /\ y = 100 * h + k
  BY <1>2 DEF Split
<1>4. x \in Int /\ y \in Int /\ x <= y
  BY <1>2
<1> QED
  BY ONLY <1>3, <1>4

\* Between two numbers, the nearer to the second the more hundredths.
LEMMA Between ==
  ASSUME NEW a \in Int, NEW b \in Int, a <= b, NEW g \in 0..99, NEW k \in 0..99, g <= k
  PROVE  /\ 100 * a <= Mix(a, b, g) /\ Mix(a, b, g) <= Mix(a, b, k)
         /\ Mix(a, b, g) <= 100 * b /\ Mix(a, b, g) \in Int /\ Mix(a, b, 0) = 100 * a
<1>1. PICK d \in Nat, u \in Nat, v \in Nat : d = b - a /\ u = k - g /\ v = 100 - k
  <2>1. b - a \in Nat /\ k - g \in Nat /\ 100 - k \in Nat
    OBVIOUS
  <2> QED
    BY <2>1
<1>2. PICK x \in Nat, y \in Nat, z \in Nat, w \in Nat :
        x = g * d /\ y = u * d /\ z = v * d /\ w = k * d
  <2>1. g * d \in Nat /\ u * d \in Nat /\ v * d \in Nat /\ k * d \in Nat
    OBVIOUS
  <2> QED
    BY <2>1
<1>3. w = x + y /\ 100 * d = w + z
  <2>1. k = g + u /\ 100 = k + v
    BY <1>1
  <2>2. (g + u) * d = g * d + u * d /\ (k + v) * d = k * d + v * d
    OBVIOUS
  <2> QED
    BY <1>2, <2>1, <2>2
<1>4. 100 * d = 100 * b - 100 * a
  BY <1>1
<1>5. Mix(a, b, g) = 100 * a + x /\ Mix(a, b, k) = 100 * a + w
  BY <1>1, <1>2 DEF Mix
<1>6. Mix(a, b, 0) = 100 * a
  <2>1. 0 * (b - a) = 0
    OBVIOUS
  <2> QED
    BY <2>1 DEF Mix
<1> QED
  BY <1>3, <1>4, <1>5, <1>6

LEMMA MixWeighs ==
  ASSUME NEW a \in Int, NEW b \in Int, NEW g \in 0..99
  PROVE  Mix(a, b, g) = a * (100 - g) + b * g
<1>1. PICK u \in Int, v \in Int : u = a * g /\ v = b * g
  <2>1. a * g \in Int /\ b * g \in Int
    OBVIOUS
  <2> QED
    BY <2>1
<1>2. a * (100 - g) = 100 * a - u /\ g * (b - a) = v - u
  BY <1>1
<1> QED
  BY <1>1, <1>2 DEF Mix

LEMMA PointIs ==
  ASSUME NEW s \in Seq(Int), s # <<>>, NEW p \in 0..100,
         NEW f, NEW g, Split(Len(s) - 1, p, f, g)
  PROVE  Interpolation(s, p) = Point(s, f, g) /\ Weighing(s, p) = Point(s, f, g)
<1>1. PICK n \in Nat : n + 1 = Len(s)
  <2>1. Len(s) \in Nat \ {0}
    OBVIOUS
  <2>2. Len(s) - 1 \in Nat /\ (Len(s) - 1) + 1 = Len(s)
    BY <2>1
  <2> QED
    BY <2>2
<1>2. Len(s) - 1 = n
  BY <1>1
<1>3. Split(n, p, f, g)
  BY <1>2
<1>4. PICK k : k = p * n
  OBVIOUS
<1>5. /\ f \in 0..n /\ g \in 0..99 /\ k = 100 * f + g /\ (f = n => g = 0)
      /\ k \div 100 = f /\ k % 100 = g /\ (k + 99) \div 100 = IF g = 0 THEN f ELSE f + 1
  BY <1>3, <1>4 DEF Split
<1>6. \A i \in 1..n + 1 : Ranked(s)[i] \in Int
  BY <1>1, RankedFacts
<1> DEFINE r == Ranked(s)
<1>7. Interpolation(s, p) = IF f + 1 >= n + 1 THEN 100 * r[n + 1] ELSE Mix(r[f + 1], r[f + 2], g)
  <2>1. Interpolation(s, p) = Interpolates(r, n + 1, k)
    BY <1>1, <1>2, <1>4 DEF Interpolation
  <2> HIDE DEF r
  <2> QED
    BY <1>5, <2>1, SMTT(40) DEF Interpolates, Mix
<1>8. Weighing(s, p) = Weighs(r, k)
  BY <1>2, <1>4 DEF Weighing
<1> HIDE DEF r
<1>9. CASE g = 0
  <2>1. Weighing(s, p) = 100 * r[f + 1]
    BY <1>5, <1>8, <1>9 DEF Weighs, WeighsAt
  <2>2. CASE f = n
    BY <1>5, <1>7, <1>9, <2>1, <2>2 DEF Point, r
  <2>3. CASE f # n
    <3>1. f + 1 \in 1..n + 1 /\ f + 2 \in 1..n + 1 /\ ~(f + 1 >= n + 1)
      BY <1>5, <2>3
    <3>2. PICK a \in Int, b \in Int : a = r[f + 1] /\ b = r[f + 2]
      BY <1>6, <3>1 DEF r
    <3>3. Mix(a, b, 0) = 100 * a
      <4>1. 0 * (b - a) = 0 /\ 100 * a \in Int
        OBVIOUS
      <4> QED
        BY <4>1 DEF Mix
    <3>4. Interpolation(s, p) = Mix(a, b, 0)
      BY <1>7, <1>9, <3>1, <3>2
    <3> QED
      BY <1>9, <2>1, <3>2, <3>3, <3>4 DEF Point, r
  <2> QED
    BY <2>2, <2>3
<1>10. CASE g # 0
  <2>1. f + 1 \in 1..n + 1 /\ f + 2 \in 1..n + 1 /\ ~(f + 1 >= n + 1) /\ f # f + 1
    BY <1>5, <1>10
  <2>2. PICK a \in Int, b \in Int : a = r[f + 1] /\ b = r[f + 2]
    BY <1>6, <2>1 DEF r
  <2>3. (k + 99) \div 100 = f + 1 /\ (f + 1) + 1 = f + 2
    BY <1>5, <1>10
  <2>4. 100 * (f + 1) - k = 100 - g /\ k - 100 * f = g
    BY <1>5
  <2>5. Weighing(s, p) = a * (100 - g) + b * g
    <3>1. Weighs(r, k) = WeighsAt(r, k, f, f + 1)
      BY <1>5, <2>3 DEF Weighs
    <3>2. WeighsAt(r, k, f, f + 1) = r[f + 1] * (100 * (f + 1) - k) + r[f + 1 + 1] * (k - 100 * f)
      BY ONLY <2>1, Zenon DEF WeighsAt
    <3> QED
      BY ONLY <1>8, <2>2, <2>3, <2>4, <3>1, <3>2, ZenonT(60)
  <2>6. Mix(a, b, g) = a * (100 - g) + b * g
    <3>1. a \in Int /\ b \in Int /\ g \in 0..99
      BY <1>5, <2>2
    <3> QED
      BY ONLY <3>1, MixWeighs, ZenonT(60)
  <2>7. Interpolation(s, p) = Mix(a, b, g)
    BY <1>7, <2>1, <2>2
  <2>8. Point(s, f, g) = Mix(a, b, g)
    BY <1>10, <2>2 DEF Point, r
  <2> QED
    BY <2>5, <2>6, <2>7, <2>8
<1> QED
  BY <1>9, <1>10, SMTT(40)

\* Where the point lies among the ranks, and that a later one is no less.
LEMMA PointLies ==
  ASSUME NEW s \in Seq(Int), s # <<>>, NEW p \in 0..100,
         NEW f, NEW g, Split(Len(s) - 1, p, f, g)
  PROVE  /\ Point(s, f, g) \in Int
         /\ f + 1 \in 1..Len(s) /\ 100 * Ranked(s)[f + 1] <= Point(s, f, g)
         /\ \A h \in 0..Len(s) - 1 : f < h => Point(s, f, g) <= 100 * Ranked(s)[h + 1]
         /\ g = 0 => Point(s, f, g) = 100 * Ranked(s)[f + 1]
         /\ g # 0 => f + 2 \in 1..Len(s) /\ Point(s, f, g) <= 100 * Ranked(s)[f + 2]
         /\ \A k \in 0..99 : g <= k /\ (f = Len(s) - 1 => k = 0)
                               => Point(s, f, g) <= Point(s, f, k)
<1>1. PICK n \in Nat : n + 1 = Len(s) /\ Len(s) - 1 = n
  <2>1. Len(s) \in Nat \ {0}
    OBVIOUS
  <2>2. Len(s) - 1 \in Nat /\ (Len(s) - 1) + 1 = Len(s)
    BY <2>1
  <2> QED
    BY <2>2
<1>2. f \in 0..n /\ g \in 0..99 /\ (f = n => g = 0)
  BY <1>1 DEF Split
<1>3. /\ \A i \in 1..n + 1 : Ranked(s)[i] \in Int
      /\ \A i, j \in 1..n + 1 : i <= j => Ranked(s)[i] <= Ranked(s)[j]
  BY <1>1, RankedFacts
<1>4. CASE f = n
  <2>1. g = 0 /\ Point(s, f, g) = 100 * Ranked(s)[n + 1] /\ Ranked(s)[n + 1] \in Int
    BY <1>2, <1>3, <1>4 DEF Point
  <2>2. 100 * Ranked(s)[n + 1] \in Int
    BY <2>1
  <2>3. \A h \in 0..n : ~(f < h)
    BY <1>4
  <2> QED
    BY <1>1, <1>2, <1>4, <2>1, <2>2, <2>3
<1>5. CASE f # n
  <2>1. f + 1 \in 1..n + 1 /\ f + 2 \in 1..n + 1
    BY <1>2, <1>5
  <2>2. PICK a \in Int, b \in Int : a = Ranked(s)[f + 1] /\ b = Ranked(s)[f + 2] /\ a <= b
    BY <1>2, <1>3, <2>1
  <2>3. ASSUME NEW k \in 0..99, g <= k
        PROVE  /\ 100 * a <= Mix(a, b, g) /\ Mix(a, b, g) <= Mix(a, b, k)
               /\ Mix(a, b, g) <= 100 * b /\ Mix(a, b, g) \in Int /\ Mix(a, b, 0) = 100 * a
    <3>1. a \in Int /\ b \in Int /\ a <= b /\ g \in 0..99 /\ k \in 0..99 /\ g <= k
      BY <1>2, <2>2, <2>3
    <3> QED
      BY ONLY <3>1, Between, ZenonT(60)
  <2>8. g <= g /\ g \in 0..99
    BY <1>2
  <2>9. \A k \in 0..99 : Point(s, f, k) = Mix(a, b, k)
    BY <2>2, <2>3, <2>8 DEF Point
  <2>4. /\ 100 * a <= Point(s, f, g) /\ Point(s, f, g) <= 100 * b /\ Point(s, f, g) \in Int
    BY <2>3, <2>8, <2>9
  <2>5. ASSUME NEW k \in 0..99, g <= k PROVE Point(s, f, g) <= Point(s, f, k)
    BY <2>3, <2>5, <2>8, <2>9
  <2>6. ASSUME NEW h \in 0..n, f < h PROVE Point(s, f, g) <= 100 * Ranked(s)[h + 1]
    <3>1. h + 1 \in 1..n + 1 /\ f + 2 <= h + 1
      BY <1>2, <2>6
    <3>2. b <= Ranked(s)[h + 1] /\ Ranked(s)[h + 1] \in Int
      BY <1>3, <2>1, <2>2, <3>1
    <3> QED
      BY <2>4, <3>2
  <2>7. g = 0 => Point(s, f, g) = 100 * a
    BY <2>2 DEF Point
  <2> QED
    BY <1>1, <2>1, <2>2, <2>4, <2>5, <2>6, <2>7
<1> QED
  BY <1>4, <1>5

LEMMA InterpolationGrows ==
  ASSUME NEW s \in Seq(Int), s # <<>>, NEW p \in 0..100, NEW q \in 0..100, p <= q
  PROVE  Interpolation(s, p) <= Interpolation(s, q)
<1>1. Len(s) - 1 \in Nat
  <2>1. Len(s) \in Nat \ {0}
    OBVIOUS
  <2> QED
    BY <2>1
<1>2. PICK f, g : Split(Len(s) - 1, p, f, g)
  BY <1>1, Steps
<1>3. PICK h, k : Split(Len(s) - 1, q, h, k)
  BY <1>1, Steps
<1>4. Interpolation(s, p) = Point(s, f, g)
  BY <1>2, PointIs, ZenonT(90)
<1>5. Interpolation(s, q) = Point(s, h, k)
  BY <1>3, PointIs, ZenonT(90)
<1>6. f < h \/ (f = h /\ g <= k)
  BY <1>1, <1>2, <1>3, StepsOrdered
<1>7. f \in Nat /\ h \in 0..Len(s) - 1 /\ k \in 0..99 /\ (h = Len(s) - 1 => k = 0)
  BY <1>2, <1>3 DEF Split
<1>8. CASE f < h
  <2>1. Point(s, f, g) <= 100 * Ranked(s)[h + 1] /\ Point(s, f, g) \in Int
    BY <1>2, <1>7, <1>8, PointLies, ZenonT(60)
  <2>2. 100 * Ranked(s)[h + 1] <= Point(s, h, k) /\ Point(s, h, k) \in Int /\ h + 1 \in 1..Len(s)
    BY <1>3, PointLies, ZenonT(60)
  <2>3. Ranked(s)[h + 1] \in Int
    BY <2>2, RankedFacts
  <2> QED
    BY <1>4, <1>5, <2>1, <2>2, <2>3, SMTT(40)
<1>9. CASE f = h /\ g <= k
  <2>1. \A j \in 0..99 : g <= j /\ (f = Len(s) - 1 => j = 0) => Point(s, f, g) <= Point(s, f, j)
    BY <1>2, PointLies
  <2> QED
    BY <1>4, <1>5, <1>7, <1>9, <2>1
<1> QED
  BY <1>6, <1>8, <1>9

\* A percentile splits the numbers, and a larger percentage never gives a smaller one.
LEMMA PercentileFacts ==
  ASSUME NEW s \in Seq(Int), s # <<>>, NEW p \in 0..100
  PROVE  /\ Interpolation(s, p) \in Int /\ Weighing(s, p) = Interpolation(s, p)
         /\ Cardinality({i \in DOMAIN s : 100 * s[i] <= Interpolation(s, p)})
              > (p * (Len(s) - 1)) \div 100
         /\ Cardinality({i \in DOMAIN s : 100 * s[i] >= Interpolation(s, p)})
              > ((100 - p) * (Len(s) - 1)) \div 100
         /\ \A q \in 0..100 : p <= q => Interpolation(s, p) <= Interpolation(s, q)
<1>1. PICK n \in Nat : n + 1 = Len(s) /\ Len(s) - 1 = n
  <2>1. Len(s) \in Nat \ {0}
    OBVIOUS
  <2>2. Len(s) - 1 \in Nat /\ (Len(s) - 1) + 1 = Len(s)
    BY <2>1
  <2> QED
    BY <2>2
<1>2. PICK f, g : Split(Len(s) - 1, p, f, g)
  BY <1>1, Steps
<1>3. PICK x : x = Point(s, f, g)
  OBVIOUS
<1>4. Interpolation(s, p) = x /\ Weighing(s, p) = x
  BY <1>2, <1>3, PointIs
<1>5. /\ x \in Int /\ f + 1 \in 1..Len(s) /\ 100 * Ranked(s)[f + 1] <= x
      /\ \A h \in 0..Len(s) - 1 : f < h => x <= 100 * Ranked(s)[h + 1]
      /\ g = 0 => x = 100 * Ranked(s)[f + 1]
      /\ g # 0 => f + 2 \in 1..Len(s) /\ x <= 100 * Ranked(s)[f + 2]
  <2>1. x \in Int /\ f + 1 \in 1..Len(s) /\ 100 * Ranked(s)[f + 1] <= x
    BY <1>2, <1>3, PointLies, ZenonT(60)
  <2>2. \A h \in 0..Len(s) - 1 : f < h => x <= 100 * Ranked(s)[h + 1]
    BY <1>2, <1>3, PointLies, ZenonT(60)
  <2>3. g = 0 => x = 100 * Ranked(s)[f + 1]
    BY <1>2, <1>3, PointLies, ZenonT(60)
  <2>4. g # 0 => f + 2 \in 1..Len(s) /\ x <= 100 * Ranked(s)[f + 2]
    <3>1. g # 0 => f + 2 \in 1..Len(s) /\ Point(s, f, g) <= 100 * Ranked(s)[f + 2]
      BY <1>2, PointLies, ZenonT(60)
    <3> QED
      BY <1>3, <3>1
  <2> QED
    BY <2>1, <2>2, <2>3, <2>4
<1>6. /\ f \in 0..n /\ g \in 0..99 /\ (p * n) \div 100 = f
      /\ ((100 - p) * n) \div 100 = IF g = 0 THEN n - f ELSE n - f - 1
  BY <1>1, <1>2, ZenonT(60) DEF Split
<1>7. /\ \A i \in 1..Len(s) : /\ Ranked(s)[i] \in Int
                              /\ Cardinality(Under(s, Ranked(s)[i])) < i
                              /\ i <= Cardinality(UpTo(s, Ranked(s)[i]))
  BY RankedFacts
<1>8. \A i \in DOMAIN s : s[i] \in Int
  BY Numbers
<1>9. Cardinality({i \in DOMAIN s : 100 * s[i] <= x}) > f
  <2> DEFINE S == {i \in DOMAIN s : 100 * s[i] <= x}
             r == Ranked(s)[f + 1]
  <2>1. UpTo(s, r) \subseteq S
    <3>1. r \in Int /\ 100 * r <= x
      BY <1>5, <1>7
    <3> HIDE DEF r
    <3> QED
      BY <1>5, <1>8, <3>1 DEF UpTo
  <2>2. IsFiniteSet(S) /\ Cardinality(S) \in 0..Len(s)
    BY PlacesFinite
  <2>3. Cardinality(UpTo(s, r)) <= Cardinality(S)
    BY <2>1, <2>2, FS_Subset
  <2>4. f + 1 <= Cardinality(UpTo(s, r)) /\ Cardinality(UpTo(s, r)) \in Int
    <3>1. Cardinality(UpTo(s, r)) \in 0..Len(s)
      BY PlacesFinite DEF UpTo
    <3> QED
      BY <1>5, <1>7, <3>1
  <2> HIDE DEF S, r
  <2>5. Cardinality(S) > f
    BY <1>6, <2>2, <2>3, <2>4
  <2> QED
    BY <2>5 DEF S
<1>10. Cardinality({i \in DOMAIN s : 100 * s[i] >= x}) > IF g = 0 THEN n - f ELSE n - f - 1
  <2> DEFINE S == {i \in DOMAIN s : 100 * s[i] >= x}
  <2>1. PICK h \in 1..Len(s) : x <= 100 * Ranked(s)[h] /\ h = IF g = 0 THEN f + 1 ELSE f + 2
    BY <1>5, <1>7
  <2>2. PICK r \in Int : r = Ranked(s)[h] /\ x <= 100 * r
    BY <1>7, <2>1
  <2>3. {i \in DOMAIN s : s[i] >= r} \subseteq S
    BY <1>5, <1>8, <2>2, SMTT(40)
  <2>4. IsFiniteSet(S) /\ Cardinality(S) \in 0..Len(s)
    BY PlacesFinite
  <2>5. Cardinality({i \in DOMAIN s : s[i] >= r}) <= Cardinality(S)
    BY <2>3, <2>4, FS_Subset
  <2>6. Cardinality({i \in DOMAIN s : s[i] >= r}) = Len(s) - Cardinality(Under(s, r))
    BY NotUnder
  <2>7. Cardinality(Under(s, r)) < h /\ Cardinality(Under(s, r)) \in 0..Len(s)
    <3>1. Cardinality(Under(s, r)) \in 0..Len(s)
      BY PlacesFinite DEF Under
    <3> QED
      BY <1>7, <2>2, <3>1
  <2> HIDE DEF S
  <2>8. Cardinality(S) > Len(s) - h
    BY <1>1, <2>1, <2>4, <2>5, <2>6, <2>7, SMTT(40)
  <2> QED
    BY <1>1, <1>6, <2>1, <2>4, <2>8 DEF S
<1>11. \A q \in 0..100 : p <= q => x <= Interpolation(s, q)
  BY <1>4, InterpolationGrows
<1>12. /\ (p * (Len(s) - 1)) \div 100 = f
       /\ ((100 - p) * (Len(s) - 1)) \div 100 = IF g = 0 THEN n - f ELSE n - f - 1
  <2>1. Len(s) - 1 = n
    BY <1>1
  <2> QED
    BY <1>6, <2>1, Zenon
<1>13. x \in Int
  BY <1>5
<1> QED
  BY <1>4, <1>9, <1>10, <1>11, <1>12, <1>13, ZenonT(60)

\* A percentile is within the numbers, and the hundredth is the greatest.
LEMMA PercentileBounds ==
  ASSUME NEW s \in Seq(Int), s # <<>>, NEW p \in 0..100
  PROVE  /\ (\A i \in DOMAIN s : s[i] >= 0) => Interpolation(s, p) >= 0
         /\ \A i \in DOMAIN s : 100 * s[i] <= Interpolation(s, 100)
<1>1. Len(s) \in Nat \ {0} /\ \A i \in DOMAIN s : s[i] \in Int
  BY Numbers
<1>2. ASSUME \A i \in DOMAIN s : s[i] >= 0 PROVE Interpolation(s, p) >= 0
  <2>1. Len(s) - 1 \in Nat
    BY <1>1
  <2>2. PICK f, g : Split(Len(s) - 1, p, f, g)
    BY <2>1, Steps
  <2>3. Interpolation(s, p) = Point(s, f, g)
    BY <2>2, PointIs
  <2>4. Point(s, f, g) \in Int /\ f + 1 \in 1..Len(s) /\ 100 * Ranked(s)[f + 1] <= Point(s, f, g)
    BY <2>2, PointLies, ZenonT(60)
  <2>5. Ranked(s)[f + 1] \in Members(s)
    BY <2>4, RankedFacts
  <2>6. Ranked(s)[f + 1] \in Int /\ Ranked(s)[f + 1] >= 0
    BY <1>1, <1>2, <2>5 DEF Members
  <2> QED
    BY <2>3, <2>4, <2>6
<1>3. ASSUME NEW i \in DOMAIN s PROVE 100 * s[i] <= Interpolation(s, 100)
  <2> DEFINE x == Interpolation(s, 100)
             S == {j \in DOMAIN s : 100 * s[j] <= x}
  <2>1. 100 \in 0..100
    OBVIOUS
  <2>2. x \in Int /\ Cardinality(S) > (100 * (Len(s) - 1)) \div 100
    BY <2>1, PercentileFacts, ZenonT(60)
  <2>3. (100 * (Len(s) - 1)) \div 100 = Len(s) - 1
    <3>1. \A n \in Nat : (100 * n) \div 100 = n
      OBVIOUS
    <3> QED
      BY <1>1, <3>1
  <2>4. S \in SUBSET DOMAIN s
    OBVIOUS
  <2> HIDE DEF S, x
  <2>5. Cardinality(S) \in 0..Len(s) /\ IsFiniteSet(DOMAIN s) /\ Cardinality(DOMAIN s) = Len(s)
    BY <2>4, PlacesFinite
  <2>6. Cardinality(S) = Len(s)
    BY <1>1, <2>2, <2>3, <2>5
  <2>7. S = DOMAIN s
    BY <2>4, <2>5, <2>6, FS_Subset
  <2> QED
    BY <1>3, <2>7 DEF S, x
<1> QED
  BY <1>2, <1>3
\* How many are no more than x, with one number more.
LEMMA UpToAppend ==
  ASSUME NEW s \in Seq(Int), NEW v \in Int, NEW x \in Int
  PROVE  /\ Cardinality(UpTo(Append(s, v), x))
              = Cardinality(UpTo(s, x)) + IF v <= x THEN 1 ELSE 0
         /\ Cardinality(UpTo(s, x)) \in 0..Len(s)
<1> DEFINE t == Append(s, v)
           n == Len(s) + 1
<1>1. /\ t \in Seq(Int) /\ n \in Nat /\ DOMAIN t = 1..n /\ DOMAIN s = 1..Len(s) /\ t[n] = v
      /\ Len(s) \in Nat /\ \A i \in 1..Len(s) : t[i] = s[i] /\ s[i] \in Int
  OBVIOUS
<1>2. 1..n = 1..Len(s) \cup {n} /\ n \notin 1..Len(s)
  BY <1>1
<1>3. IsFiniteSet(UpTo(s, x)) /\ Cardinality(UpTo(s, x)) \in 0..Len(s)
  BY PlacesFinite DEF UpTo
<1> HIDE DEF t, n
<1>4. CASE v <= x
  <2>1. UpTo(t, x) = UpTo(s, x) \cup {n} /\ n \notin UpTo(s, x)
    BY <1>1, <1>2, <1>4 DEF UpTo
  <2>2. Cardinality(UpTo(t, x)) = Cardinality(UpTo(s, x)) + 1
    BY <1>3, <2>1, OneMore
  <2> QED
    BY <1>3, <1>4, <2>2 DEF t
<1>5. CASE ~(v <= x)
  <2>1. UpTo(t, x) = UpTo(s, x)
    BY <1>1, <1>2, <1>5 DEF UpTo
  <2> QED
    BY <1>3, <1>5, <2>1 DEF t
<1> QED
  BY <1>4, <1>5

-----------------------------------------------------------------------------
\* Those of a set of numbers that do not exceed j, and the numbers they divide.
UpThrough(S, j) == {i \in S : i <= j}

LEMMA UpThroughGrows ==
  ASSUME NEW n \in Nat, NEW S \in SUBSET (1..n)
  PROVE  /\ IsFiniteSet(S) /\ Cardinality(S) \in Nat
         /\ \A j \in 1..n : /\ IsFiniteSet(UpThrough(S, j))
                            /\ Cardinality(UpThrough(S, j)) \in 0..Cardinality(S)
         /\ \A i, j \in 1..n : i <= j =>
              Cardinality(UpThrough(S, i)) <= Cardinality(UpThrough(S, j))
         /\ \A i, j \in 1..n : i < j /\ j \in S =>
              Cardinality(UpThrough(S, i)) < Cardinality(UpThrough(S, j))
         /\ \A i, j \in 1..n : i <= j =>
              (Cardinality(UpThrough(S, i)) = Cardinality(UpThrough(S, j))
                <=> \A k \in i + 1..j : k \notin S)
<1>1. IsFiniteSet(S) /\ Cardinality(S) \in Nat
  <2>1. 1 \in Int /\ n \in Int
    OBVIOUS
  <2>2. IsFiniteSet(1..n)
    BY <2>1, FS_Interval
  <2> QED
    BY <2>2, FS_Subset, FS_CardinalityType
<1>0. \A k \in S : k \in Int
  OBVIOUS
<1>2. ASSUME NEW j \in 1..n
      PROVE  /\ IsFiniteSet(UpThrough(S, j)) /\ Cardinality(UpThrough(S, j)) \in Nat
             /\ Cardinality(UpThrough(S, j)) \in 0..Cardinality(S)
  <2>1. UpThrough(S, j) \subseteq S
    BY DEF UpThrough
  <2> QED
    BY <1>1, <2>1, FS_Subset, FS_CardinalityType
<1>3. ASSUME NEW i \in 1..n, NEW j \in 1..n, i <= j
      PROVE  /\ UpThrough(S, i) \subseteq UpThrough(S, j)
             /\ Cardinality(UpThrough(S, i)) <= Cardinality(UpThrough(S, j))
             /\ Cardinality(UpThrough(S, i)) = Cardinality(UpThrough(S, j))
                  <=> UpThrough(S, i) = UpThrough(S, j)
  <2>1. UpThrough(S, i) \subseteq UpThrough(S, j)
    <3>1. \A k \in S : k <= i => k <= j
      BY <1>0, <1>3
    <3> QED
      BY <3>1 DEF UpThrough
  <2> QED
    BY <1>2, <2>1, FS_Subset
<1>4. ASSUME NEW i \in 1..n, NEW j \in 1..n, i <= j
      PROVE  UpThrough(S, i) = UpThrough(S, j) <=> \A k \in i + 1..j : k \notin S
  <2>1. ASSUME UpThrough(S, i) = UpThrough(S, j), NEW k \in i + 1..j PROVE k \notin S
    <3>1. k \in S => k \in UpThrough(S, j) /\ k \notin UpThrough(S, i)
      BY <2>1 DEF UpThrough
    <3> QED
      BY <2>1, <3>1
  <2>2. ASSUME \A k \in i + 1..j : k \notin S PROVE UpThrough(S, i) = UpThrough(S, j)
    <3>1. ASSUME NEW k \in S, k <= j PROVE k <= i
      BY <2>2, <3>1
    <3>2. \A k \in S : k <= i => k <= j
      BY <1>0, <1>4
    <3> QED
      BY <3>1, <3>2 DEF UpThrough
  <2> QED
    BY <2>1, <2>2
<1>5. ASSUME NEW i \in 1..n, NEW j \in 1..n, i < j, j \in S
      PROVE  Cardinality(UpThrough(S, i)) < Cardinality(UpThrough(S, j))
  <2>1. UpThrough(S, i) # UpThrough(S, j)
    BY <1>5 DEF UpThrough
  <2> QED
    BY <1>2, <1>3, <1>5, <2>1
<1> QED
  BY <1>1, <1>2, <1>3, <1>4, <1>5

\* Each number up to the size of the set is that of one of its members.
LEMMA Numbered ==
  ASSUME NEW n \in Nat, NEW S \in SUBSET (1..n), NEW m \in 1..Cardinality(S)
  PROVE  \E i \in S : Cardinality(UpThrough(S, i)) = m
<1> DEFINE c == Cardinality(S)
           f == [i \in S |-> Cardinality(UpThrough(S, i))]
<1>1. IsFiniteSet(S) /\ c \in Nat
  BY UpThroughGrows
<1>2. ASSUME NEW i \in S PROVE f[i] \in 1..c
  <2>1. f[i] \in 0..c /\ IsFiniteSet(UpThrough(S, i))
    BY UpThroughGrows
  <2>2. i \in UpThrough(S, i)
    BY DEF UpThrough
  <2>3. f[i] # 0
    BY <2>1, <2>2, FS_EmptySet
  <2> QED
    BY <1>1, <2>1, <2>3
<1>3. ASSUME NEW i \in S, NEW j \in S, i # j PROVE f[i] # f[j]
  <2>1. i < j \/ j < i
    BY <1>3
  <2>2. \A a, b \in S : a < b => f[a] < f[b]
    BY UpThroughGrows
  <2>3. f[i] \in Int /\ f[j] \in Int
    BY <1>2
  <2> HIDE DEF f
  <2> QED
    BY <2>1, <2>2, <2>3
<1>4. f \in Injection(S, 1..c)
  <2>1. f \in [S -> 1..c]
    BY <1>2
  <2> QED
    BY <1>3, <2>1 DEF Injection, IsInjective
<1>5. IsFiniteSet(1..c) /\ Cardinality(1..c) = c
  BY <1>1, FS_Interval
<1> HIDE DEF f
<1>6. f \in Surjection(S, 1..c)
  BY <1>1, <1>4, <1>5, FS_Injection
<1>7. PICK i \in S : f[i] = m
  BY <1>6 DEF Surjection
<1> QED
  BY <1>7 DEF f

\* The sizes of the classes of a set add up to its size.
LEMMA ClassesAddUp ==
  ASSUME NEW D, IsFiniteSet(D), NEW c \in Nat, NEW g, \A j \in D : g[j] \in 1..c
  PROVE  /\ \A n \in 1..c : Cardinality({j \in D : g[j] = n}) \in Nat
         /\ SumFunctionOnSet([n \in 1..c |-> Cardinality({j \in D : g[j] = n})], 1..c)
              = Cardinality(D)
<1> DEFINE f == [n \in 1..c |-> Cardinality({j \in D : g[j] = n})]
           P(m) == {j \in D : g[j] <= m}
           C(m) == {j \in D : g[j] = m}
           H == {m \in Nat : m <= c => SumFunctionOnSet(f, 1..m) = Cardinality(P(m))}
<1>1. \A m : IsFiniteSet(P(m)) /\ IsFiniteSet(C(m)) /\ Cardinality(P(m)) \in Nat /\ Cardinality(C(m)) \in Nat
  <2>1. \A m : P(m) \subseteq D /\ C(m) \subseteq D
    OBVIOUS
  <2> HIDE DEF P, C
  <2> QED
    BY <2>1, FS_Subset, FS_CardinalityType
<1>2. \A n \in 1..c : f[n] = Cardinality(C(n)) /\ f[n] \in Int
  <2>1. \A n \in 1..c : f[n] = Cardinality(C(n))
    OBVIOUS
  <2>2. \A n \in 1..c : Cardinality(C(n)) \in Int
    <3> HIDE DEF C
    <3>1. \A n : Cardinality(C(n)) \in Nat
      BY <1>1
    <3> QED
      BY ONLY <3>1
  <2> HIDE DEF f, C
  <2> QED
    BY ONLY <2>1, <2>2
<1>3. 0 \in H
  <2>1. P(0) = {} /\ 1..0 = {}
    OBVIOUS
  <2>2. SumFunctionOnSet(f, {}) = 0
    BY FS_EmptySet, SumFacts
  <2> HIDE DEF P, f
  <2> QED
    BY <2>1, <2>2, FS_EmptySet
<1>4. ASSUME NEW m \in Nat, m \in H PROVE m + 1 \in H
  <2> SUFFICES ASSUME m + 1 <= c PROVE SumFunctionOnSet(f, 1..m + 1) = Cardinality(P(m + 1))
    <3> HIDE DEF f, P
    <3> QED
      BY <1>4
  <2>1. SumFunctionOnSet(f, 1..m) = Cardinality(P(m))
    <3> HIDE DEF f, P
    <3> QED
      BY <1>4
  <2>2. m + 1 \in 1..m + 1 /\ (1..m + 1) \ {m + 1} = 1..m /\ m + 1 \in 1..c
    OBVIOUS
  <2>3. P(m + 1) = P(m) \cup C(m + 1) /\ P(m) \cap C(m + 1) = {}
    OBVIOUS
  <2> HIDE DEF f, P, C
  <2>4. SumFunctionOnSet(f, 1..m + 1) = f[m + 1] + SumFunctionOnSet(f, 1..m)
    <3>1. IsFiniteSet(1..m + 1)
      BY FS_Interval
    <3>2. \A x \in 1..m + 1 : f[x] \in Int
      BY <1>2
    <3> QED
      BY <2>2, <3>1, <3>2, SumFacts
  <2>5. Cardinality(P(m + 1)) = Cardinality(P(m)) + Cardinality(C(m + 1))
    <3>1. Cardinality({}) = 0
      BY FS_EmptySet
    <3>2. /\ IsFiniteSet(P(m)) /\ IsFiniteSet(C(m + 1))
          /\ Cardinality(P(m)) \in Nat /\ Cardinality(C(m + 1)) \in Nat
      BY <1>1
    <3>3. Cardinality(P(m) \cup C(m + 1))
            = Cardinality(P(m)) + Cardinality(C(m + 1)) - Cardinality(P(m) \cap C(m + 1))
      BY <3>2, FS_Union
    <3>4. Cardinality(P(m + 1))
            = Cardinality(P(m)) + Cardinality(C(m + 1)) - 0
      BY ONLY <2>3, <3>1, <3>3
    <3> QED
      BY ONLY <3>2, <3>4
  <2> QED
    BY <1>1, <1>2, <2>1, <2>2, <2>4, <2>5
<1>5. \A m \in Nat : m \in H
  <2> HIDE DEF H
  <2> QED
    BY <1>3, <1>4, NatSet
<1>6. P(c) = D
  OBVIOUS
<1>7. c \in H
  BY <1>5
<1>8. SumFunctionOnSet(f, 1..c) = Cardinality(D)
  <2> HIDE DEF f, P
  <2> QED
    BY <1>6, <1>7
<1>9. \A n \in 1..c : Cardinality({j \in D : g[j] = n}) \in Nat
  BY <1>1
<1> QED
  BY <1>8, <1>9
=============================================================================
