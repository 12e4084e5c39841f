----------------------------- MODULE FoldLemmas -----------------------------
(***************************************************************************)
(* What the folds of the community modules compute, for every finite set   *)
(* and every sequence: MapThenSumSet, SetToSeq and FlattenSeq.             *)
(* The induction is over sets of naturals: Nat is well founded, so a set   *)
(* that holds 0 and the successor of each of its members holds them all.   *)
(***************************************************************************)
EXTENDS Integers, Sequences, FiniteSets, SequencesExt, FiniteSetsExt, TLAPS,
        WellFoundedInduction, FiniteSetTheorems, SequenceTheorems

-----------------------------------------------------------------------------
(* Induction.                                                              *)

\* A set that holds 0 and is closed under successor holds every natural.
LEMMA SetInduction ==
  ASSUME NEW S, 0 \in S, \A n \in Nat : n \in S => n + 1 \in S
  PROVE  \A n \in Nat : n \in S
<1> DEFINE T == Nat \ S
<1> SUFFICES ASSUME T # {} PROVE FALSE
  OBVIOUS
<1>1. \E x \in T : \A y \in T : ~(<<y, x>> \in OpToRel(<, Nat))
  <2> HIDE DEF T
  <2>1. T \subseteq Nat
    BY DEF T
  <2> QED
    BY <2>1, NatLessThanWellFounded, WFMin
<1>2. PICK x \in T : \A y \in T : ~(<<y, x>> \in OpToRel(<, Nat))
  BY <1>1
<1>3. x \in Nat /\ x \notin S /\ x # 0
  OBVIOUS
<1>4. x - 1 \in Nat /\ x = (x - 1) + 1
  BY <1>3
<1>5. x - 1 \in T
  BY <1>3, <1>4
<1>6. <<x - 1, x>> \in OpToRel(<, Nat)
  BY <1>3, <1>4 DEF OpToRel
<1> QED
  BY <1>2, <1>5, <1>6

-----------------------------------------------------------------------------
(* Sums over a finite set.                                                 *)

Sum(v, S) == MapThenSumSet(LAMBDA x : v[x], S)

One(s) == CHOOSE x \in s : TRUE

\* What one level of the recursion of MapThenFoldSet computes.
Level(v, g, s) == IF s = {} THEN 0 ELSE v[One(s)] + g[s \ {One(s)}]

Sums(v, g, S) == g = [s \in SUBSET S |-> Level(v, g, s)]

LEMMA OneOfSet == ASSUME NEW s, s # {} PROVE One(s) \in s
  BY DEF One

LEMMA Smaller ==
  ASSUME NEW S, IsFiniteSet(S), NEW s \in SUBSET S
  PROVE  /\ IsFiniteSet(s)
         /\ Cardinality(s) \in Nat
         /\ Cardinality(s) = 0 <=> s = {}
         /\ \A x \in s : Cardinality(s \ {x}) = Cardinality(s) - 1
<1>1. IsFiniteSet(s)
  BY FS_Subset
<1> QED
  BY <1>1, FS_CardinalityType, FS_EmptySet, FS_RemoveElement

LEMMA SumIsChoice ==
  ASSUME NEW v, NEW S
  PROVE  Sum(v, S) = (CHOOSE g : Sums(v, g, S))[S]
  BY DEF Sum, Sums, Level, One, MapThenSumSet, MapThenFoldSet

\* A function that sums every subset exists.
LEMMA SumsExist ==
  ASSUME NEW S, IsFiniteSet(S), NEW v \in [S -> Int]
  PROVE  \E g \in [SUBSET S -> Int] : Sums(v, g, S)
<1> DEFINE N == {n \in Nat : \E g \in [SUBSET S -> Int] :
                   \A s \in SUBSET S : Cardinality(s) <= n => g[s] = Level(v, g, s)}
<1>1. \A s \in SUBSET S : Cardinality(s) \in Nat
  BY Smaller
<1>2. \A s \in SUBSET S : Cardinality(s) = 0 <=> s = {}
  BY Smaller
<1>3. 0 \in N
  <2>1. [s \in SUBSET S |-> 0] \in [SUBSET S -> Int]
    OBVIOUS
  <2>2. \A s \in SUBSET S : Cardinality(s) <= 0 => s = {}
    BY <1>1, <1>2
  <2> QED
    BY <2>1, <2>2 DEF Level
<1>4. \A n \in Nat : n \in N => n + 1 \in N
  <2> SUFFICES ASSUME NEW n \in Nat, n \in N PROVE n + 1 \in N
    OBVIOUS
  <2>1. PICK g \in [SUBSET S -> Int] :
          \A s \in SUBSET S : Cardinality(s) <= n => g[s] = Level(v, g, s)
    OBVIOUS
  <2> DEFINE h == [s \in SUBSET S |-> IF Cardinality(s) = n + 1 THEN Level(v, g, s) ELSE g[s]]
  <2>2. \A s \in SUBSET S : Level(v, g, s) \in Int
    BY OneOfSet DEF Level
  <2>3. h \in [SUBSET S -> Int]
    BY <2>1, <2>2
  <2>4. ASSUME NEW s \in SUBSET S, s # {}
        PROVE  /\ s \ {One(s)} \in SUBSET S
               /\ Cardinality(s \ {One(s)}) = Cardinality(s) - 1
    BY <2>4, OneOfSet, Smaller
  <2>5. ASSUME NEW s \in SUBSET S, Cardinality(s) <= n + 1
        PROVE  h[s] = Level(v, h, s)
    <3>1. Level(v, h, s) = Level(v, g, s)
      <4>1. CASE s = {}
        BY <4>1 DEF Level
      <4>2. CASE s # {}
        <5>1. h[s \ {One(s)}] = g[s \ {One(s)}]
          BY <4>2, <2>4, <2>5, <1>1
        <5> QED
          BY <4>2, <5>1 DEF Level
      <4> QED
        BY <4>1, <4>2
    <3>2. h[s] = Level(v, g, s)
      BY <2>1, <2>5, <1>1
    <3> QED
      BY <3>1, <3>2
  <2>6. \A s \in SUBSET S : Cardinality(s) <= n + 1 => h[s] = Level(v, h, s)
    BY <2>5
  <2> HIDE DEF h
  <2> QED
    BY <2>3, <2>6
<1>5. PICK g \in [SUBSET S -> Int] :
        \A s \in SUBSET S : Cardinality(s) <= Cardinality(S) => g[s] = Level(v, g, s)
  <2>1. Cardinality(S) \in N
    <3> HIDE DEF N
    <3> QED
      BY <1>3, <1>4, SetInduction, FS_CardinalityType
  <2> QED
    BY <2>1
<1>6. \A s \in SUBSET S : g[s] = Level(v, g, s)
  BY <1>5, FS_Subset
<1> QED
  BY <1>6 DEF Sums

\* Two functions that sum agree on the sets they both sum.
LEMMA SumsAgree ==
  ASSUME NEW S, NEW T, IsFiniteSet(S), NEW v, NEW w, NEW g, NEW h,
         \A x : x \in S /\ x \in T => v[x] = w[x],
         Sums(v, g, S), Sums(w, h, T)
  PROVE  \A s : s \subseteq S /\ s \subseteq T => g[s] = h[s]
<1> DEFINE N == {n \in Nat : \A s \in SUBSET (S \cap T) : Cardinality(s) = n => g[s] = h[s]}
<1>1. \A s \in SUBSET (S \cap T) :
        /\ Cardinality(s) \in Nat
        /\ Cardinality(s) = 0 <=> s = {}
        /\ \A x \in s : Cardinality(s \ {x}) = Cardinality(s) - 1
  <2>1. \A s \in SUBSET (S \cap T) : s \in SUBSET S
    OBVIOUS
  <2> QED
    BY <2>1, Smaller
<1>2. \A s \in SUBSET (S \cap T) : g[s] = Level(v, g, s) /\ h[s] = Level(w, h, s)
  BY DEF Sums
<1>3. 0 \in N
  <2>1. \A s \in SUBSET (S \cap T) : Cardinality(s) = 0 => s = {}
    BY <1>1
  <2> QED
    BY <2>1, <1>2 DEF Level
<1>4. \A n \in Nat : n \in N => n + 1 \in N
  <2> SUFFICES ASSUME NEW n \in Nat, n \in N,
                      NEW s \in SUBSET (S \cap T), Cardinality(s) = n + 1
               PROVE  g[s] = h[s]
    OBVIOUS
  <2>1. s # {}
    BY <1>1
  <2>2. One(s) \in s
    BY <2>1, OneOfSet
  <2>3. Cardinality(s \ {One(s)}) = n /\ s \ {One(s)} \in SUBSET (S \cap T)
    BY <1>1, <2>2
  <2>4. g[s \ {One(s)}] = h[s \ {One(s)}]
    BY <2>3
  <2> QED
    BY <1>2, <2>1, <2>2, <2>4 DEF Level
<1>5. \A n \in Nat : n \in N
  <2> HIDE DEF N
  <2> QED
    BY <1>3, <1>4, SetInduction
<1> QED
  BY <1>1, <1>5

\* The recursion a sum computes.
LEMMA SumRecursion ==
  ASSUME NEW S, IsFiniteSet(S), NEW v \in [S -> Int]
  PROVE  \A s \in SUBSET S :
           /\ Sum(v, s) \in Int
           /\ Sum(v, s) = IF s = {} THEN 0 ELSE v[One(s)] + Sum(v, s \ {One(s)})
<1>1. PICK g \in [SUBSET S -> Int] : Sums(v, g, S)
  BY SumsExist
<1>2. ASSUME NEW s \in SUBSET S
      PROVE  Sum(v, s) = g[s]
  <2>1. IsFiniteSet(s) /\ [x \in s |-> v[x]] \in [s -> Int]
    BY <1>2, Smaller
  <2>2. \E h : Sums([x \in s |-> v[x]], h, s)
    BY <2>1, SumsExist
  <2>3. PICK h : Sums([x \in s |-> v[x]], h, s)
    BY <2>2
  <2>4. Sums(v, h, s)
    <3>1. \A t \in SUBSET s : Level([x \in s |-> v[x]], h, t) = Level(v, h, t)
      BY OneOfSet DEF Level
    <3> QED
      BY <2>3, <3>1 DEF Sums
  <2>5. Sums(v, CHOOSE f : Sums(v, f, s), s)
    BY <2>4
  <2> DEFINE f == CHOOSE f : Sums(v, f, s)
  <2>6. Sum(v, s) = f[s]
    BY SumIsChoice
  <2>7. Sums(v, f, s)
    BY <2>5
  <2> HIDE DEF f
  <2>8. f[s] = g[s]
    BY <2>1, <2>7, <1>1, SumsAgree
  <2> QED
    BY <2>6, <2>8
<1>3. \A s \in SUBSET S : Sum(v, s) = g[s]
  BY <1>2
<1>4. \A s \in SUBSET S : g[s] = Level(v, g, s) /\ g[s] \in Int
  BY <1>1 DEF Sums
<1> QED
  BY <1>3, <1>4 DEF Level

LEMMA SumOfNone == ASSUME NEW v PROVE Sum(v, {}) = 0
<1> DEFINE w == [x \in {} |-> v[x]]
<1>1. w \in [{} -> Int]
  OBVIOUS
<1>2. \E h : Sums(w, h, {})
  BY <1>1, FS_EmptySet, SumsExist
<1>3. \E h : Sums(v, h, {})
  BY <1>2 DEF Sums, Level
<1>4. Sums(v, CHOOSE h : Sums(v, h, {}), {})
  BY <1>3
<1> QED
  BY <1>4, SumIsChoice DEF Sums, Level

\* Any element can be taken out first.
LEMMA SumRemove ==
  ASSUME NEW S, IsFiniteSet(S), NEW v \in [S -> Int], NEW s \in SUBSET S, NEW x \in s
  PROVE  Sum(v, s) = v[x] + Sum(v, s \ {x})
<1> DEFINE N == {n \in Nat : \A t \in SUBSET S : Cardinality(t) = n =>
                   \A y \in t : Sum(v, t) = v[y] + Sum(v, t \ {y})}
<1>1. 0 \in N
  BY Smaller
<1>2. \A n \in Nat : n \in N => n + 1 \in N
  <2> SUFFICES ASSUME NEW n \in Nat, n \in N,
                      NEW t \in SUBSET S, Cardinality(t) = n + 1, NEW y \in t
               PROVE  Sum(v, t) = v[y] + Sum(v, t \ {y})
    OBVIOUS
  <2> DEFINE z == One(t)
  <2>1. z \in t
    BY OneOfSet
  <2> HIDE DEF z
  <2>2. Sum(v, t) = v[z] + Sum(v, t \ {z})
    BY SumRecursion DEF z
  <2>3. CASE y = z
    BY <2>2, <2>3
  <2>4. CASE y # z
    <3> DEFINE a == t \ {z}
               b == t \ {y}
    <3>1. a \in SUBSET S /\ b \in SUBSET S /\ y \in a /\ z \in b
      BY <2>1, <2>4
    <3>2. Cardinality(a) = n /\ Cardinality(b) = n
      BY <2>1, Smaller
    <3>3. Sum(v, a) = v[y] + Sum(v, a \ {y})
      BY <3>1, <3>2
    <3>4. Sum(v, b) = v[z] + Sum(v, b \ {z})
      BY <3>1, <3>2
    <3>5. a \ {y} = b \ {z} /\ a \ {y} \in SUBSET S
      OBVIOUS
    <3>6. Sum(v, a \ {y}) \in Int /\ v[y] \in Int /\ v[z] \in Int
      BY <3>5, <2>1, SumRecursion
    <3>7. Sum(v, t) = v[z] + Sum(v, a)
      BY <2>2
    <3>8. Sum(v, t) = v[y] + Sum(v, b)
      <4> HIDE DEF N, a, b
      <4>1. Sum(v, a \ {y}) = Sum(v, b \ {z})
        BY <3>5
      <4> QED
        BY <3>7, <3>3, <3>4, <4>1, <3>6
    <3> QED
      BY <3>8
  <2> QED
    BY <2>3, <2>4
<1>3. \A n \in Nat : n \in N
  <2> HIDE DEF N
  <2> QED
    BY <1>1, <1>2, SetInduction
<1> QED
  BY <1>3, Smaller

\* Adding an element adds its value.
LEMMA SumAdd ==
  ASSUME NEW S, IsFiniteSet(S), NEW v \in [S -> Int],
         NEW s \in SUBSET S, NEW x \in S, x \notin s
  PROVE  Sum(v, s \cup {x}) = Sum(v, s) + v[x]
<1>1. s \cup {x} \in SUBSET S /\ x \in s \cup {x} /\ (s \cup {x}) \ {x} = s
  OBVIOUS
<1>2. Sum(v, s) \in Int /\ v[x] \in Int
  BY SumRecursion
<1> QED
  BY <1>1, <1>2, SumRemove

\* Functions that agree on a set have the same sum over it.
LEMMA SumExtensional ==
  ASSUME NEW s, IsFiniteSet(s), NEW v, NEW w,
         \A x \in s : v[x] = w[x] /\ v[x] \in Int
  PROVE  Sum(v, s) = Sum(w, s)
<1>1. [x \in s |-> v[x]] \in [s -> Int]
  OBVIOUS
<1>2. \E h : Sums([x \in s |-> v[x]], h, s)
  BY <1>1, SumsExist
<1>3. PICK h : Sums([x \in s |-> v[x]], h, s)
  BY <1>2
<1>4. \A t \in SUBSET s : Level([x \in s |-> v[x]], h, t) = Level(v, h, t)
                          /\ Level([x \in s |-> v[x]], h, t) = Level(w, h, t)
  BY OneOfSet DEF Level
<1>5. Sums(v, h, s) /\ Sums(w, h, s)
  BY <1>3, <1>4 DEF Sums
<1> DEFINE f == CHOOSE g : Sums(v, g, s)
           g == CHOOSE k : Sums(w, k, s)
<1>6. Sums(v, f, s) /\ Sums(w, g, s)
  BY <1>5
<1>7. Sum(v, s) = f[s] /\ Sum(w, s) = g[s]
  BY SumIsChoice
<1> HIDE DEF f, g
<1>8. \A x : x \in s /\ x \in s => v[x] = w[x]
  OBVIOUS
<1>9. ASSUME NEW k, NEW m, Sums(v, k, s), Sums(w, m, s)
      PROVE  \A t : t \subseteq s /\ t \subseteq s => k[t] = m[t]
  BY ONLY IsFiniteSet(s), <1>8, <1>9, SumsAgree
<1>10. f[s] = g[s]
  BY <1>6, <1>9
<1> QED
  BY <1>7, <1>10

\* Elements of value 0 do not count.
LEMMA SumNonzero ==
  ASSUME NEW S, IsFiniteSet(S), NEW v \in [S -> Int],
         NEW s \in SUBSET S, NEW t \in SUBSET s, \A x \in s \ t : v[x] = 0
  PROVE  Sum(v, s) = Sum(v, t)
<1> DEFINE N == {n \in Nat : \A u \in SUBSET s : Cardinality(u) = n => Sum(v, u) = Sum(v, u \cap t)}
<1>1. 0 \in N
  <2>1. \A u \in SUBSET s : Cardinality(u) = 0 => u = {} /\ u \cap t = {}
    BY Smaller
  <2> QED
    BY <2>1
<1>2. \A n \in Nat : n \in N => n + 1 \in N
  <2> SUFFICES ASSUME NEW n \in Nat, n \in N, NEW u \in SUBSET s, Cardinality(u) = n + 1
               PROVE  Sum(v, u) = Sum(v, u \cap t)
    OBVIOUS
  <2>1. u \in SUBSET S
    OBVIOUS
  <2>2. u # {}
    BY <2>1, Smaller
  <2>3. PICK x \in u : TRUE
    BY <2>2
  <2>4. Cardinality(u \ {x}) = n /\ u \ {x} \in SUBSET s /\ u \ {x} \in SUBSET S
    BY <2>1, Smaller
  <2>5. Sum(v, u \ {x}) = Sum(v, (u \ {x}) \cap t)
    BY <2>4
  <2>6. Sum(v, u) = v[x] + Sum(v, u \ {x})
    BY <2>1, SumRemove
  <2>7. Sum(v, (u \ {x}) \cap t) \in Int
    BY <2>4, SumRecursion
  <2>8. CASE x \in t
    <3>1. u \cap t \in SUBSET S /\ x \in u \cap t /\ (u \cap t) \ {x} = (u \ {x}) \cap t
      BY <2>8
    <3>2. Sum(v, u \cap t) = v[x] + Sum(v, (u \ {x}) \cap t)
      BY <3>1, SumRemove
    <3> QED
      BY <2>5, <2>6, <3>2
  <2>9. CASE x \notin t
    <3>1. v[x] = 0 /\ (u \ {x}) \cap t = u \cap t
      BY <2>9
    <3>2. Sum(v, (u \ {x}) \cap t) = Sum(v, u \cap t)
      BY <3>1
    <3> HIDE DEF N
    <3> QED
      BY <2>5, <2>6, <2>7, <3>1, <3>2
  <2> QED
    BY <2>8, <2>9
<1>3. \A n \in Nat : n \in N
  <2> HIDE DEF N
  <2> QED
    BY <1>1, <1>2, SetInduction
<1>4. Cardinality(s) \in Nat /\ s \in SUBSET s /\ s \cap t = t
  BY Smaller
<1> QED
  BY <1>3, <1>4

-----------------------------------------------------------------------------
(* Sequences of the elements of a set, and of sequences.                   *)

\* SetToSeq lists every element once.
LEMMA SetToSeqLists ==
  ASSUME NEW S, IsFiniteSet(S)
  PROVE  /\ Cardinality(S) \in Nat
         /\ SetToSeq(S) \in [1 .. Cardinality(S) -> S]
         /\ \A i, j \in 1 .. Cardinality(S) : SetToSeq(S)[i] = SetToSeq(S)[j] => i = j
         /\ \A x \in S : \E i \in 1 .. Cardinality(S) : SetToSeq(S)[i] = x
<1> DEFINE n == Cardinality(S)
           f == SetToSeq(S)
<1>1. n \in Nat /\ ExistsBijection(1 .. n, S)
  BY FS_CardinalityType
<1>2. \E g \in [1 .. n -> S] : IsInjective(g)
  BY <1>1 DEF ExistsBijection, Bijection, Injection
<1>3. f \in [1 .. n -> S] /\ IsInjective(f)
  BY <1>2 DEF SetToSeq
<1> HIDE DEF f
<1>4. f \in Injection(1 .. n, S)
  BY <1>3 DEF Injection
<1>5. Cardinality(1 .. n) = Cardinality(S)
  BY <1>1, FS_Interval
<1>6. f \in Surjection(1 .. n, S)
  BY <1>4, <1>5, FS_Injection
<1>7. \A x \in S : \E i \in 1 .. n : f[i] = x
  BY <1>6 DEF Surjection
<1>8. \A i, j \in 1 .. n : f[i] = f[j] => i = j
  BY <1>3 DEF IsInjective
<1> QED
  BY <1>1, <1>3, <1>7, <1>8 DEF f

\* f appends the first m sequences of ss one after the other.
Appends(f, ss, n, m) ==
  f[1] = ss[1] /\ \A i \in 2 .. n : i <= m => f[i] = f[i - 1] \o ss[i]

Flattens(f, ss, n) ==
  /\ f[1] = ss[1]
  /\ \A i \in 2 .. n : f[i] = f[i - 1] \o ss[i]
  /\ FlattenSeq(ss) = f[n]

\* FlattenSeq appends the sequences one after the other.
LEMMA FlattenRecursion ==
  ASSUME NEW X, NEW n \in Nat \ {0}, NEW ss \in [1 .. n -> Seq(X)]
  PROVE  \E f \in [1 .. n -> Seq(X)] : Flattens(f, ss, n)
<1> DEFINE Runs(f) == f = [i \in 1 .. n |-> IF i = 1 THEN ss[i] ELSE f[i - 1] \o ss[i]]
           N == {m \in Nat : \E f \in [1 .. n -> Seq(X)] : Appends(f, ss, n, m)}
<1>1. 0 \in N
  <2>0. \A i \in 2 .. n : ~(i <= 0)
    OBVIOUS
  <2>1. ss[1] = ss[1] /\ \A i \in 2 .. n : i <= 0 => ss[i] = ss[i - 1] \o ss[i]
    BY <2>0
  <2> QED
    BY <2>1 DEF Appends
<1>2. \A m \in Nat : m \in N => m + 1 \in N
  <2> SUFFICES ASSUME NEW m \in Nat, m \in N PROVE m + 1 \in N
    OBVIOUS
  <2>1. PICK f \in [1 .. n -> Seq(X)] :
          f[1] = ss[1] /\ \A i \in 2 .. n : i <= m => f[i] = f[i - 1] \o ss[i]
    BY DEF Appends
  <2> DEFINE h == [i \in 1 .. n |-> IF i = m + 1 /\ i # 1 THEN f[i - 1] \o ss[i] ELSE f[i]]
  <2>2. ASSUME NEW i \in 1 .. n, i # 1 PROVE f[i - 1] \o ss[i] \in Seq(X)
    <3>1. i - 1 \in 1 .. n
      BY <2>2
    <3>2. f[i - 1] \in Seq(X) /\ ss[i] \in Seq(X)
      BY <3>1
    <3> QED
      BY <3>2, ConcatProperties
  <2>3. h \in [1 .. n -> Seq(X)]
    BY <2>2
  <2>4. h[1] = ss[1]
    BY <2>1
  <2>5. ASSUME NEW i \in 2 .. n, i <= m + 1 PROVE h[i] = h[i - 1] \o ss[i]
    <3>1. i \in 1 .. n /\ i - 1 \in 1 .. n /\ i # 1 /\ i - 1 # m + 1
      BY <2>5
    <3>2. h[i - 1] = f[i - 1]
      BY <3>1
    <3>3. CASE i = m + 1
      BY <3>1, <3>2, <3>3
    <3>4. CASE i # m + 1
      <4>1. i <= m
        BY <3>4, <2>5
      <4>2. f[i] = f[i - 1] \o ss[i]
        BY <4>1, <2>1
      <4>3. h[i] = f[i]
        BY <3>1, <3>4
      <4> HIDE DEF h
      <4> QED
        BY <3>2, <4>2, <4>3
    <3> QED
      BY <3>3, <3>4
  <2>6. \A i \in 2 .. n : i <= m + 1 => h[i] = h[i - 1] \o ss[i]
    BY <2>5
  <2> HIDE DEF h
  <2>7. Appends(h, ss, n, m + 1)
    BY <2>4, <2>6 DEF Appends
  <2> QED
    BY <2>3, <2>7
<1>3. n \in N
  <2> HIDE DEF N
  <2> QED
    BY <1>1, <1>2, SetInduction
<1>4. PICK f \in [1 .. n -> Seq(X)] :
        f[1] = ss[1] /\ \A i \in 2 .. n : f[i] = f[i - 1] \o ss[i]
  <2>1. PICK f \in [1 .. n -> Seq(X)] :
          f[1] = ss[1] /\ \A i \in 2 .. n : i <= n => f[i] = f[i - 1] \o ss[i]
    BY <1>3 DEF Appends
  <2>2. \A i \in 2 .. n : i <= n
    OBVIOUS
  <2> QED
    BY <2>1, <2>2
<1>5. Runs(f)
  <2>1. \A i \in 1 .. n : i # 1 => i \in 2 .. n
    OBVIOUS
  <2> QED
    BY <1>4, <2>1
<1> DEFINE g == CHOOSE k : Runs(k)
<1>6. Runs(g)
  BY <1>5
<1>7. FlattenSeq(ss) = g[n]
  <2>1. Len(ss) = n
    OBVIOUS
  <2> QED
    BY <2>1 DEF FlattenSeq
<1> HIDE DEF g
<1>8. g[1] = ss[1] /\ \A i \in 2 .. n : g[i] = g[i - 1] \o ss[i]
  <2>1. \A i \in 2 .. n : i \in 1 .. n /\ i # 1
    OBVIOUS
  <2>2. 1 \in 1 .. n
    OBVIOUS
  <2>3. \A i \in 1 .. n : g[i] = IF i = 1 THEN ss[i] ELSE g[i - 1] \o ss[i]
    BY <1>6
  <2> QED
    BY <2>1, <2>2, <2>3
<1>9. g \in [1 .. n -> Seq(X)]
  <2> DEFINE M == {m \in Nat : m \in 1 .. n => g[m] \in Seq(X)}
  <2>1. 0 \in M
    OBVIOUS
  <2>2. \A m \in Nat : m \in M => m + 1 \in M
    <3>0. SUFFICES ASSUME NEW m \in Nat, m \in 1 .. n => g[m] \in Seq(X), m + 1 \in 1 .. n
                   PROVE  g[m + 1] \in Seq(X)
      <4> HIDE DEF M
      <4>1. \A m \in Nat : m \in M <=> (m \in 1 .. n => g[m] \in Seq(X))
        BY DEF M
      <4>2. \A m \in Nat : m + 1 \in Nat
        OBVIOUS
      <4> QED
        BY <4>1, <4>2, Zenon
    <3>1. CASE m = 0
      BY <3>1, <1>8
    <3>2. CASE m # 0
      <4>1. m \in 1 .. n /\ m + 1 \in 2 .. n /\ (m + 1) - 1 = m
        BY <3>0, <3>2
      <4>2. g[m] \in Seq(X) /\ ss[m + 1] \in Seq(X)
        BY <4>1, <3>0
      <4>3. g[m + 1] = g[m] \o ss[m + 1]
        BY <4>1, <1>8
      <4> QED
        BY <4>2, <4>3, ConcatProperties
    <3> QED
      BY <3>1, <3>2
  <2>3. \A m \in Nat : m \in M
    <3> HIDE DEF M
    <3> QED
      BY <2>1, <2>2, SetInduction
  <2>4. DOMAIN g = 1 .. n /\ g = [i \in DOMAIN g |-> g[i]]
    BY <1>6
  <2> QED
    BY <2>3, <2>4
<1> QED
  BY <1>7, <1>8, <1>9 DEF Flattens

LEMMA FlattenNone == ASSUME NEW ss, DOMAIN ss = {}, ss = [k \in {} |-> ss[k]]
                     PROVE  FlattenSeq(ss) = <<>>
<1>1. ss = <<>>
  OBVIOUS
<1> QED
  BY <1>1 DEF FlattenSeq
=============================================================================
