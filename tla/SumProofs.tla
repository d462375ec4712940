----------------------------- MODULE SumProofs -----------------------------
(***************************************************************************)
(* Sums over finite sets, for the proofs about counters: the services count *)
(* credits, events, draws and writes with MapThenSumSet.                    *)
(*                                                                         *)
(* MapThenSumSet is a recursive function, and what it computes takes an     *)
(* induction.  The induction is by a minimal counterexample: of the subsets *)
(* of a finite set for which a claim fails there is one none of whose       *)
(* strict subsets fails it (MinimalSubset).                                *)
(***************************************************************************)
EXTENDS Integers, FiniteSetsExt, FiniteSetTheorems, WellFoundedInduction, TLAPS

\* The element of a set that MapThenSumSet takes first.
Pick(s) == CHOOSE x \in s : TRUE

\* g holds the sums of w over the subsets of S.
Sums(g, S, w) ==
  g = [s \in SUBSET S |-> IF s = {} THEN 0 ELSE w[Pick(s)] + g[s \ {Pick(s)}]]

Sum(w, S) == (CHOOSE g : Sums(g, S, w))[S]

-----------------------------------------------------------------------------
(* Induction.                                                              *)

LEMMA MinimalSubset ==
  ASSUME NEW S, IsFiniteSet(S), NEW F \in SUBSET SUBSET S, F # {}
  PROVE  \E t \in F : \A u \in F : u \subseteq t => u = t
<1>1. IsWellFoundedOn(StrictSubsetOrdering(S), FiniteSubsetsOf(S))
  BY FS_StrictSubsetOrderingWellFounded
<1>2. FiniteSubsetsOf(S) = SUBSET S
  BY FS_FiniteSubsetsOfFinite
<1>3. PICK t \in F : \A u \in F : ~ (<<u, t>> \in StrictSubsetOrdering(S))
  <2>1. IsWellFoundedOn(StrictSubsetOrdering(S), SUBSET S)
    BY <1>1, <1>2
  <2> QED BY <2>1, WFMin
<1>4. ASSUME NEW u \in F, u \subseteq t, u # t PROVE FALSE
  <2>1. <<u, t>> \in (SUBSET S) \X (SUBSET S)
    OBVIOUS
  <2>2. <<u, t>> \in StrictSubsetOrdering(S)
    BY <1>4, <2>1 DEF StrictSubsetOrdering
  <2> QED BY <1>3, <2>2
<1> QED BY <1>4

-----------------------------------------------------------------------------
(* The recursion has one solution.                                         *)

LEMMA PickIn == ASSUME NEW s, s # {} PROVE Pick(s) \in s
  BY DEF Pick

LEMMA SumsUnique ==
  ASSUME NEW S, IsFiniteSet(S), NEW w, NEW g, Sums(g, S, w), NEW h, Sums(h, S, w)
  PROVE  g = h
<1> DEFINE F == {t \in SUBSET S : g[t] # h[t]}
<1>1. g = [s \in SUBSET S |-> g[s]] /\ h = [s \in SUBSET S |-> h[s]]
  BY DEF Sums
<1>2. ASSUME F # {} PROVE FALSE
  <2>1. PICK t \in F : \A u \in F : u \subseteq t => u = t
    <3>1. F \in SUBSET SUBSET S
      OBVIOUS
    <3> HIDE DEF F
    <3> QED BY <1>2, <3>1, MinimalSubset
  <2>2. CASE t = {}
    BY <2>2 DEF Sums
  <2>3. CASE t # {}
    <3>1. Pick(t) \in t
      BY <2>3, PickIn
    <3>2. g[t \ {Pick(t)}] = h[t \ {Pick(t)}]
      BY <2>1, <3>1
    <3>3. g[t] = w[Pick(t)] + g[t \ {Pick(t)}] /\ h[t] = w[Pick(t)] + h[t \ {Pick(t)}]
      BY <2>3 DEF Sums
    <3> QED BY <3>2, <3>3
  <2> QED BY <2>2, <2>3
<1> QED BY <1>1, <1>2

\* A solution, cut down to a subset, is the subset's solution.
LEMMA SumsRestrict ==
  ASSUME NEW S, NEW w, NEW g, Sums(g, S, w), NEW T \in SUBSET S
  PROVE  Sums([t \in SUBSET T |-> g[t]], T, w)
<1> DEFINE h == [t \in SUBSET T |-> g[t]]
<1>1. ASSUME NEW t \in SUBSET T
      PROVE  h[t] = IF t = {} THEN 0 ELSE w[Pick(t)] + h[t \ {Pick(t)}]
  <2>1. t \in SUBSET S /\ t \ {Pick(t)} \in SUBSET T
    OBVIOUS
  <2>2. g[t] = IF t = {} THEN 0 ELSE w[Pick(t)] + g[t \ {Pick(t)}]
    BY <2>1 DEF Sums
  <2> QED BY <2>1, <2>2
<1>2. h = [t \in SUBSET T |-> h[t]]
  OBVIOUS
<1> HIDE DEF h
<1>3. h = [t \in SUBSET T |-> IF t = {} THEN 0 ELSE w[Pick(t)] + h[t \ {Pick(t)}]]
  BY <1>1, <1>2
<1>4. Sums(h, T, w)
  BY <1>3 DEF Sums
<1> QED BY <1>4 DEF h

LEMMA SumsExist ==
  ASSUME NEW S, IsFiniteSet(S), NEW w
  PROVE  \E g : Sums(g, S, w)
<1> DEFINE F == {t \in SUBSET S : ~ \E g : Sums(g, t, w)}
<1>1. ASSUME F # {} PROVE FALSE
  <2>1. PICK t \in F : \A u \in F : u \subseteq t => u = t
    <3>1. F \in SUBSET SUBSET S
      OBVIOUS
    <3> HIDE DEF F
    <3> QED BY <1>1, <3>1, MinimalSubset
  <2> DEFINE G(u) == CHOOSE g : Sums(g, u, w)
             h == [u \in SUBSET t |->
                    IF u = {} THEN 0 ELSE w[Pick(u)] + G(u \ {Pick(u)})[u \ {Pick(u)}]]
  <2>2. ASSUME NEW u \in SUBSET t, u # t PROVE Sums(G(u), u, w)
    <3>1. \E g : Sums(g, u, w)
      BY <2>1, <2>2
    <3> QED BY <3>1
  <2>3. ASSUME NEW u \in SUBSET t, u # t PROVE G(u)[u] = h[u]
    <3>1. Sums(G(u), u, w)
      BY <2>2, <2>3
    <3> HIDE DEF G
    <3>2. G(u)[u] = IF u = {} THEN 0 ELSE w[Pick(u)] + G(u)[u \ {Pick(u)}]
      BY <3>1 DEF Sums
    <3>3. CASE u = {}
      BY <3>2, <3>3
    <3>4. CASE u # {}
      <4> DEFINE v == u \ {Pick(u)}
                 k == [s \in SUBSET v |-> G(u)[s]]
      <4>1. v \in SUBSET t /\ v # t /\ v \in SUBSET u
        BY <3>4, PickIn
      <4>2. Sums(G(v), v, w)
        BY <2>2, <4>1
      <4>3. Sums(k, v, w)
        <5> HIDE DEF v
        <5> QED BY <3>1, <4>1, SumsRestrict
      <4>4. IsFiniteSet(v)
        BY <4>1, FS_Subset
      <4>5. G(v) = k
        <5> HIDE DEF v, k
        <5> QED BY <4>2, <4>3, <4>4, SumsUnique
      <4>6. k[v] = G(u)[v]
        OBVIOUS
      <4>7. h[u] = w[Pick(u)] + G(v)[v]
        BY <3>4
      <4> QED BY <3>2, <3>4, <4>5, <4>6, <4>7
    <3> QED BY <3>3, <3>4
  <2>4. ASSUME NEW u \in SUBSET t
        PROVE  h[u] = IF u = {} THEN 0 ELSE w[Pick(u)] + h[u \ {Pick(u)}]
    <3>1. CASE u = {}
      BY <3>1
    <3>2. CASE u # {}
      <4> DEFINE v == u \ {Pick(u)}
      <4>1. v \in SUBSET t /\ v # t
        BY <3>2, PickIn
      <4>2. h[u] = w[Pick(u)] + G(v)[v]
        BY <3>2
      <4>3. G(v)[v] = h[v]
        BY <2>3, <4>1
      <4> HIDE DEF G, h
      <4> QED BY <3>2, <4>2, <4>3
    <3> QED BY <3>1, <3>2
  <2>5. h = [u \in SUBSET t |-> h[u]]
    OBVIOUS
  <2> HIDE DEF h
  <2>6. h = [u \in SUBSET t |-> IF u = {} THEN 0 ELSE w[Pick(u)] + h[u \ {Pick(u)}]]
    BY <2>4, <2>5
  <2>7. Sums(h, t, w)
    BY <2>6 DEF Sums
  <2> QED BY <2>1, <2>7
<1> QED BY <1>1
-----------------------------------------------------------------------------
(* Sums.                                                                   *)

\* A sum is what the solution says, for every solution.
LEMMA SumIs ==
  ASSUME NEW S, IsFiniteSet(S), NEW w, NEW g, Sums(g, S, w), NEW T \in SUBSET S
  PROVE  Sum(w, T) = g[T]
<1> DEFINE k == [t \in SUBSET T |-> g[t]]
           h == CHOOSE f : Sums(f, T, w)
<1>1. Sums(k, T, w)
  BY SumsRestrict
<1>2. Sums(h, T, w)
  BY <1>1
<1>3. IsFiniteSet(T)
  BY FS_Subset
<1>4. k[T] = g[T]
  OBVIOUS
<1>5. Sum(w, T) = h[T]
  BY DEF Sum
<1> HIDE DEF h, k
<1>6. h = k
  BY <1>1, <1>2, <1>3, SumsUnique
<1> QED BY <1>4, <1>5, <1>6

LEMMA SumEmpty == ASSUME NEW w PROVE Sum(w, {}) = 0
<1> DEFINE S == {}
<1>1. IsFiniteSet(S)
  BY FS_EmptySet
<1>2. PICK g : Sums(g, S, w)
  BY <1>1, SumsExist
<1>3. Sum(w, S) = g[S]
  BY <1>1, <1>2, SumIs
<1>4. g[S] = 0
  BY <1>2 DEF Sums
<1> QED BY <1>3, <1>4

LEMMA SumPick ==
  ASSUME NEW S, IsFiniteSet(S), S # {}, NEW w
  PROVE  Sum(w, S) = w[Pick(S)] + Sum(w, S \ {Pick(S)})
<1>1. PICK g : Sums(g, S, w)
  BY SumsExist
<1>2. Sum(w, S) = g[S]
  BY <1>1, SumIs
<1> DEFINE T == S \ {Pick(S)}
<1>3. T \in SUBSET S
  OBVIOUS
<1> HIDE DEF T
<1>4. Sum(w, T) = g[T]
  BY <1>1, <1>3, SumIs
<1>5. g[S] = w[Pick(S)] + g[S \ {Pick(S)}]
  BY <1>1 DEF Sums
<1> QED BY <1>2, <1>4, <1>5 DEF T

LEMMA SumType ==
  ASSUME NEW S, IsFiniteSet(S), NEW w, \A x \in S : w[x] \in Int
  PROVE  Sum(w, S) \in Int
<1> DEFINE F == {t \in SUBSET S : Sum(w, t) \notin Int}
<1>1. ASSUME F # {} PROVE FALSE
  <2>1. PICK t \in F : \A u \in F : u \subseteq t => u = t
    <3>1. F \in SUBSET SUBSET S
      OBVIOUS
    <3> HIDE DEF F
    <3> QED BY <1>1, <3>1, MinimalSubset
  <2>2. t # {}
    BY SumEmpty
  <2> DEFINE v == t \ {Pick(t)}
  <2>3. Pick(t) \in t
    BY <2>2, PickIn
  <2>4. v \in SUBSET S /\ v # t /\ v \subseteq t
    BY <2>3
  <2>5. Sum(w, v) \in Int
    BY <2>1, <2>4
  <2>6. IsFiniteSet(t)
    BY FS_Subset
  <2>7. Sum(w, t) = w[Pick(t)] + Sum(w, v)
    BY <2>2, <2>6, SumPick
  <2> QED BY <2>3, <2>5, <2>7
<1> QED BY <1>1

\* The order in which the elements are taken does not matter.
LEMMA SumTake ==
  ASSUME NEW S, IsFiniteSet(S), NEW w, \A x \in S : w[x] \in Int, NEW x \in S
  PROVE  Sum(w, S) = w[x] + Sum(w, S \ {x})
<1> DEFINE F == {t \in SUBSET S : \E y \in t : Sum(w, t) # w[y] + Sum(w, t \ {y})}
<1>1. ASSUME F # {} PROVE FALSE
  <2>1. PICK t \in F : \A u \in F : u \subseteq t => u = t
    <3>1. F \in SUBSET SUBSET S
      OBVIOUS
    <3> HIDE DEF F
    <3> QED BY <1>1, <3>1, MinimalSubset
  <2> DEFINE c == Pick(t)
  <2>2. PICK y \in t : Sum(w, t) # w[y] + Sum(w, t \ {y})
    OBVIOUS
  <2> DEFINE v == t \ {c}
             u == t \ {y}
             b == v \ {y}
  <2>3. c \in t
    BY PickIn
  <2>4. IsFiniteSet(t) /\ IsFiniteSet(b)
    BY FS_Subset
  <2>5. Sum(w, t) = w[c] + Sum(w, v)
    BY <2>3, <2>4, SumPick
  <2>6. c # y
    BY <2>2, <2>5
  <2>7. Sum(w, v) = w[y] + Sum(w, b)
    <3>1. v \in SUBSET S /\ v # t /\ v \subseteq t /\ y \in v
      BY <2>3, <2>6
    <3> QED BY <2>1, <3>1
  <2>8. Sum(w, u) = w[c] + Sum(w, b)
    <3>1. u \in SUBSET S /\ u # t /\ u \subseteq t /\ c \in u
      BY <2>3, <2>6
    <3>2. Sum(w, u) = w[c] + Sum(w, u \ {c})
      BY <2>1, <3>1
    <3>3. u \ {c} = b
      OBVIOUS
    <3> QED BY <3>2, <3>3
  <2>9. w[c] \in Int /\ w[y] \in Int /\ Sum(w, b) \in Int
    <3>1. \A z \in b : w[z] \in Int
      OBVIOUS
    <3> HIDE DEF b
    <3> QED BY <2>3, <2>4, <3>1, SumType
  <2> HIDE DEF b, c, u, v
  <2>10. Sum(w, u) = Sum(w, t \ {y})
    BY DEF u
  <2> QED BY <2>2, <2>5, <2>7, <2>8, <2>9, <2>10
<1> QED BY <1>1
\* Sums add up, element by element.
LEMMA SumAdd ==
  ASSUME NEW S, IsFiniteSet(S), NEW add, NEW v, NEW w,
         \A x \in S : v[x] \in Int /\ w[x] \in Int /\ add[x] = v[x] + w[x]
  PROVE  Sum(add, S) = Sum(v, S) + Sum(w, S)
<1> DEFINE F == {t \in SUBSET S : Sum(add, t) # Sum(v, t) + Sum(w, t)}
<1>1. ASSUME F # {} PROVE FALSE
  <2>1. PICK t \in F : \A u \in F : u \subseteq t => u = t
    <3>1. F \in SUBSET SUBSET S
      OBVIOUS
    <3> HIDE DEF F
    <3> QED BY <1>1, <3>1, MinimalSubset
  <2>2. t # {}
    <3>1. Sum(add, {}) = 0 /\ Sum(v, {}) = 0 /\ Sum(w, {}) = 0
      BY SumEmpty
    <3>2. Sum(add, {}) = Sum(v, {}) + Sum(w, {})
      BY <3>1
    <3> QED BY <3>2
  <2> DEFINE c == Pick(t)
             r == t \ {c}
  <2>3. c \in t
    BY <2>2, PickIn
  <2>4. r \in SUBSET S /\ r # t /\ r \subseteq t
    BY <2>3
  <2>5. IsFiniteSet(t) /\ IsFiniteSet(r)
    BY FS_Subset
  <2>6. Sum(add, r) = Sum(v, r) + Sum(w, r)
    BY <2>1, <2>4
  <2>7. /\ Sum(add, t) = add[c] + Sum(add, r)
        /\ Sum(v, t) = v[c] + Sum(v, r)
        /\ Sum(w, t) = w[c] + Sum(w, r)
    BY <2>2, <2>5, SumPick
  <2>8. Sum(v, r) \in Int /\ Sum(w, r) \in Int
    <3>1. \A x \in r : v[x] \in Int /\ w[x] \in Int
      OBVIOUS
    <3> HIDE DEF r
    <3> QED BY <2>5, <3>1, SumType
  <2>9. v[c] \in Int /\ w[c] \in Int /\ add[c] = v[c] + w[c]
    BY <2>3
  <2>10. Sum(add, t) # Sum(v, t) + Sum(w, t)
    OBVIOUS
  <2> HIDE DEF c, r, F
  <2> QED BY <2>6, <2>7, <2>8, <2>9, <2>10
<1> QED BY <1>1

LEMMA SumNat ==
  ASSUME NEW S, IsFiniteSet(S), NEW w, \A x \in S : w[x] \in Nat
  PROVE  Sum(w, S) \in Nat
<1> DEFINE F == {t \in SUBSET S : Sum(w, t) \notin Nat}
<1>1. ASSUME F # {} PROVE FALSE
  <2>1. PICK t \in F : \A u \in F : u \subseteq t => u = t
    <3>1. F \in SUBSET SUBSET S
      OBVIOUS
    <3> HIDE DEF F
    <3> QED BY <1>1, <3>1, MinimalSubset
  <2>2. t # {}
    <3>1. Sum(w, {}) = 0
      BY SumEmpty
    <3> QED BY <3>1
  <2> DEFINE c == Pick(t)
             r == t \ {c}
  <2>3. c \in t
    BY <2>2, PickIn
  <2>4. r \in SUBSET S /\ r # t /\ r \subseteq t
    BY <2>3
  <2>5. IsFiniteSet(t) /\ IsFiniteSet(r)
    BY FS_Subset
  <2>6. Sum(w, r) \in Nat
    BY <2>1, <2>4
  <2>7. Sum(w, t) = w[c] + Sum(w, r)
    BY <2>2, <2>5, SumPick
  <2>8. w[c] \in Nat /\ Sum(w, t) \notin Nat
    BY <2>3
  <2> HIDE DEF c, r, F
  <2> QED BY <2>6, <2>7, <2>8
<1> QED BY <1>1

LEMMA SumZero ==
  ASSUME NEW S, IsFiniteSet(S), NEW w, \A x \in S : w[x] = 0
  PROVE  Sum(w, S) = 0
<1>1. \A x \in S : w[x] \in Int /\ w[x] \in Int /\ w[x] = w[x] + w[x]
  OBVIOUS
<1>2. Sum(w, S) = Sum(w, S) + Sum(w, S)
  BY <1>1, SumAdd
<1>3. Sum(w, S) \in Int
  BY <1>1, SumType
<1> DEFINE n == Sum(w, S)
<1>4. n \in Int /\ n = n + n
  BY <1>2, <1>3
<1> HIDE DEF n
<1>5. n = 0
  BY <1>4
<1> QED BY <1>5 DEF n

LEMMA SumSame ==
  ASSUME NEW S, IsFiniteSet(S), NEW v, NEW w, \A x \in S : w[x] \in Int /\ v[x] = w[x]
  PROVE  Sum(v, S) = Sum(w, S)
<1> DEFINE z == [x \in S |-> 0]
<1>1. /\ \A x \in S : w[x] \in Int /\ z[x] \in Int /\ v[x] = w[x] + z[x]
      /\ \A x \in S : z[x] = 0
  OBVIOUS
<1> HIDE DEF z
<1>2. Sum(v, S) = Sum(w, S) + Sum(z, S) /\ Sum(z, S) = 0
  BY <1>1, SumAdd, SumZero
<1>3. Sum(w, S) \in Int
  BY SumType
<1> QED BY <1>2, <1>3

LEMMA SumMonotone ==
  ASSUME NEW S, IsFiniteSet(S), NEW v, NEW w,
         \A x \in S : v[x] \in Int /\ w[x] \in Int /\ v[x] <= w[x]
  PROVE  Sum(v, S) <= Sum(w, S)
<1> DEFINE d == [x \in S |-> w[x] - v[x]]
<1>1. /\ \A x \in S : v[x] \in Int /\ d[x] \in Int /\ w[x] = v[x] + d[x]
      /\ \A x \in S : d[x] \in Nat
  OBVIOUS
<1> HIDE DEF d
<1>2. Sum(w, S) = Sum(v, S) + Sum(d, S)
  BY <1>1, SumAdd
<1>3. Sum(d, S) \in Nat
  BY <1>1, SumNat
<1>4. Sum(v, S) \in Int
  BY SumType
<1> QED BY <1>2, <1>3, <1>4

\* One summand changes.
LEMMA SumChange ==
  ASSUME NEW S, IsFiniteSet(S), NEW v, NEW w, NEW y \in S,
         \A x \in S : v[x] \in Int /\ w[x] \in Int /\ (x # y => v[x] = w[x])
  PROVE  Sum(v, S) = Sum(w, S) - w[y] + v[y]
<1> DEFINE r == S \ {y}
<1>1. Sum(v, S) = v[y] + Sum(v, r) /\ Sum(w, S) = w[y] + Sum(w, r)
  BY SumTake
<1>2. IsFiniteSet(r)
  BY FS_Subset
<1>3. \A x \in r : w[x] \in Int /\ v[x] = w[x]
  OBVIOUS
<1>4. v[y] \in Int /\ w[y] \in Int
  OBVIOUS
<1> HIDE DEF r
<1>5. Sum(v, r) = Sum(w, r) /\ Sum(w, r) \in Int
  BY <1>2, <1>3, SumSame, SumType
<1> QED BY <1>1, <1>4, <1>5

\* A summand of a sum of natural numbers is no larger than the sum.
LEMMA SumBoundsSummand ==
  ASSUME NEW S, IsFiniteSet(S), NEW w, \A x \in S : w[x] \in Nat, NEW y \in S
  PROVE  w[y] <= Sum(w, S)
<1> DEFINE r == S \ {y}
<1>1. Sum(w, S) = w[y] + Sum(w, r)
  BY SumTake
<1>2. IsFiniteSet(r)
  BY FS_Subset
<1>3. \A x \in r : w[x] \in Nat
  OBVIOUS
<1>4. w[y] \in Nat
  OBVIOUS
<1> HIDE DEF r
<1>5. Sum(w, r) \in Nat
  BY <1>2, <1>3, SumNat
<1> QED BY <1>1, <1>4, <1>5

\* Two disjoint sets.
LEMMA SumUnion ==
  ASSUME NEW S, IsFiniteSet(S), NEW T, IsFiniteSet(T), S \cap T = {},
         NEW w, \A x \in S \cup T : w[x] \in Int
  PROVE  Sum(w, S \cup T) = Sum(w, S) + Sum(w, T)
<1> DEFINE F == {t \in SUBSET S : Sum(w, t \cup T) # Sum(w, t) + Sum(w, T)}
<1>1. ASSUME F # {} PROVE FALSE
  <2>1. PICK t \in F : \A u \in F : u \subseteq t => u = t
    <3>1. F \in SUBSET SUBSET S
      OBVIOUS
    <3> HIDE DEF F
    <3> QED BY <1>1, <3>1, MinimalSubset
  <2>2. t # {}
    <3>1. Sum(w, {}) = 0 /\ {} \cup T = T
      BY SumEmpty
    <3>2. Sum(w, T) \in Int
      BY SumType
    <3> QED BY <3>1, <3>2
  <2> DEFINE c == Pick(t)
             r == t \ {c}
  <2>3. c \in t
    BY <2>2, PickIn
  <2>4. r \in SUBSET S /\ r # t /\ r \subseteq t
    BY <2>3
  <2>5. IsFiniteSet(t) /\ IsFiniteSet(r)
    BY FS_Subset
  <2>6. Sum(w, r \cup T) = Sum(w, r) + Sum(w, T)
    BY <2>1, <2>4
  <2>7. Sum(w, t) = w[c] + Sum(w, r)
    BY <2>2, <2>5, SumPick
  <2>8. Sum(w, t \cup T) = w[c] + Sum(w, r \cup T)
    <3> DEFINE a == t \cup T
    <3>1. c \in a /\ a \ {c} = r \cup T /\ \A x \in a : w[x] \in Int
      BY <2>3
    <3>2. IsFiniteSet(a)
      BY <2>5, FS_Union
    <3> HIDE DEF a, c, r
    <3>3. Sum(w, a) = w[c] + Sum(w, a \ {c})
      BY <3>1, <3>2, SumTake
    <3> QED BY <3>1, <3>3 DEF a
  <2>9. w[c] \in Int /\ Sum(w, t \cup T) # Sum(w, t) + Sum(w, T)
    BY <2>3
  <2>10. Sum(w, r) \in Int /\ Sum(w, T) \in Int
    <3>1. \A x \in r : w[x] \in Int
      OBVIOUS
    <3> HIDE DEF r
    <3> QED BY <2>5, <3>1, SumType
  <2> HIDE DEF c, r, F
  <2> QED BY <2>6, <2>7, <2>8, <2>9, <2>10
<1> QED BY <1>1

\* A subset's sum of natural numbers is no larger.
LEMMA SumSubset ==
  ASSUME NEW S, IsFiniteSet(S), NEW T \in SUBSET S, NEW w, \A x \in S : w[x] \in Nat
  PROVE  Sum(w, T) <= Sum(w, S)
<1> DEFINE r == S \ T
<1>1. S = T \cup r /\ T \cap r = {} /\ \A x \in T \cup r : w[x] \in Nat
  OBVIOUS
<1>2. IsFiniteSet(T) /\ IsFiniteSet(r)
  BY FS_Subset
<1> HIDE DEF r
<1>3. Sum(w, S) = Sum(w, T) + Sum(w, r)
  <2>1. \A x \in T \cup r : w[x] \in Int
    BY <1>1
  <2> QED BY <1>1, <1>2, <2>1, SumUnion
<1>4. Sum(w, T) \in Nat /\ Sum(w, r) \in Nat
  BY <1>1, <1>2, SumNat
<1> QED BY <1>3, <1>4

LEMMA SumSingle ==
  ASSUME NEW x, NEW w, w[x] \in Int
  PROVE  Sum(w, {x}) = w[x]
<1> DEFINE S == {x}
<1>1. IsFiniteSet(S)
  BY FS_Singleton
<1>2. x \in S /\ S \ {x} = {} /\ \A y \in S : w[y] \in Int
  OBVIOUS
<1> HIDE DEF S
<1>3. Sum(w, S) = w[x] + Sum(w, {})
  BY <1>1, <1>2, SumTake
<1>4. Sum(w, S) = w[x]
  BY <1>3, SumEmpty
<1> QED BY <1>4 DEF S
-----------------------------------------------------------------------------
(* MapThenSumSet over a function.                                          *)

LEMMA MapSum ==
  ASSUME NEW S, IsFiniteSet(S), NEW w
  PROVE  MapThenSumSet(LAMBDA x : w[x], S) = Sum(w, S)
<1> DEFINE P(f) == f = [s \in SUBSET S |-> IF s = {} THEN 0
                      ELSE w[CHOOSE x \in s : TRUE] + f[s \ {CHOOSE x \in s : TRUE}]]
           h == CHOOSE f : P(f)
<1>1. PICK g : Sums(g, S, w)
  BY SumsExist
<1>2. P(g)
  BY <1>1 DEF Sums, Pick
<1>3. P(h)
  BY <1>2
<1>4. Sums(h, S, w)
  BY <1>3 DEF Sums, Pick
<1>5. MapThenSumSet(LAMBDA x : w[x], S) = h[S]
  BY DEF MapThenSumSet, MapThenFoldSet
<1> HIDE DEF h
<1> QED BY <1>4, <1>5, SumIs
=============================================================================
