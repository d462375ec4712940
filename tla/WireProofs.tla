---------------------------- MODULE WireProofs ----------------------------
(***************************************************************************)
(* Theorems about the wire format (Wire) in the composition: what is sent   *)
(* upstream passes its rules, and a streamed answer is well-formed at every *)
(* moment as far as the upstream sends nothing after its finish reason, for *)
(* any messages, blocks, calls and chunks and any number of them.           *)
(*                                                                         *)
(* The conversions are folds over the blocks of a message, the fragments of *)
(* a chunk and the open blocks of a stream.  FoldLeft is computed by a      *)
(* recursive function; such a function exists for every length              *)
(* (FoldExists), so a fold is the end of a path that takes one element at   *)
(* a time (ToolPath and its like), and what every step keeps holds at the   *)
(* end (Climb, CountUp).                                                   *)
(*                                                                         *)
(* The inductive invariant of the request is RequestInv, that of the        *)
(* answer is AnswerInv.  The client sees only the events; that they stay    *)
(* well-formed needs what the converter remembers of them: Live (which      *)
(* blocks are open), Bound (which block takes which text, thinking or       *)
(* call) and Named (which call a block has).  That the converter has room   *)
(* for every block, also of an answer nobody reads any more, is Held.  What *)
(* the converter writes after the message has ended is Past: blocks that    *)
(* start and fill, which leave only Once of the message.                    *)
(*                                                                         *)
(* With it the types of all services are proved (TypesCorrect).             *)
(***************************************************************************)
EXTENDS ServiceProofs

-----------------------------------------------------------------------------
(* Induction and folds.                                                    *)

\* The induction is by a least counterexample.
LEMMA LeastOf ==
  ASSUME NEW B \in SUBSET Nat, B # {}
  PROVE  \E m \in B : \A k \in B : m <= k
<1>1. IsWellFoundedOn(OpToRel(<, Nat), Nat)
  BY NatLessThanWellFounded
<1>2. PICK m \in B : \A k \in B : ~ (<<k, m>> \in OpToRel(<, Nat))
  BY <1>1, WFMin
<1>3. ASSUME NEW k \in B PROVE m <= k
  <2>1. ~ (k < m)
    BY <1>2 DEF OpToRel
  <2> QED BY <2>1
<1> QED BY <1>3

LEMMA MaxIs ==
  ASSUME NEW m \in Nat, NEW s \in SUBSET (1 .. m), m \in s
  PROVE  Wi!Max(s) = m
<1>1. \A x \in s : m >= x
  OBVIOUS
<1>2. \A x \in s : (\A y \in s : x >= y) => x = m
  OBVIOUS
<1> QED BY <1>1, <1>2 DEF Wi!Max

\* g is what FoldLeft computes of the subsets of 1 .. n: it takes the largest first.
Folded(g, F, d, n) ==
  g = [t \in SUBSET (1 .. n) |-> IF t = {} THEN d ELSE F[<<Wi!Max(t), g[t \ {Wi!Max(t)}]>>]]

LEMMA FoldExists ==
  ASSUME NEW F, NEW d, NEW n \in Nat
  PROVE  \E g : Folded(g, F, d, n)
<1> DEFINE B == {k \in Nat : ~ \E g : Folded(g, F, d, k)}
<1>1. ASSUME B # {} PROVE FALSE
  <2>1. PICK m \in B : \A k \in B : m <= k
    <3>1. B \in SUBSET Nat
      OBVIOUS
    <3> HIDE DEF B
    <3> QED BY <1>1, <3>1, LeastOf
  <2>2. CASE m = 0
    <3> DEFINE g == [t \in SUBSET (1 .. m) |-> d]
    <3>1. \A t \in SUBSET (1 .. m) : t = {}
      BY <2>2
    <3>2. Folded(g, F, d, m)
      BY <3>1 DEF Folded
    <3> QED BY <2>1, <3>2
  <2>3. CASE m # 0
    <3> DEFINE l == m - 1
    <3>1. l \in Nat /\ l \notin B /\ m \in Nat
      BY <2>1, <2>3
    <3>2. PICK g : Folded(g, F, d, l)
      BY <3>1
    <3> DEFINE h == [t \in SUBSET (1 .. m) |-> IF m \in t THEN F[<<m, g[t \ {m}]>>] ELSE g[t]]
    <3>3. ASSUME NEW t \in SUBSET (1 .. m)
          PROVE  h[t] = IF t = {} THEN d ELSE F[<<Wi!Max(t), h[t \ {Wi!Max(t)}]>>]
      <4>1. CASE m \in t
        <5>1. Wi!Max(t) = m /\ m \notin t \ {m} /\ t \ {m} \in SUBSET (1 .. m)
          BY <3>1, <4>1, MaxIs
        <5>2. h[t] = F[<<m, g[t \ {m}]>>] /\ h[t \ {m}] = g[t \ {m}]
          BY <4>1, <5>1
        <5> HIDE DEF h
        <5> QED BY <4>1, <5>1, <5>2
      <4>2. CASE m \notin t
        <5>1. t \in SUBSET (1 .. l) /\ h[t] = g[t]
          BY <3>1, <4>2
        <5>2. g[t] = IF t = {} THEN d ELSE F[<<Wi!Max(t), g[t \ {Wi!Max(t)}]>>]
          BY <3>2, <5>1 DEF Folded
        <5>3. t \ {Wi!Max(t)} \in SUBSET (1 .. m) /\ m \notin t \ {Wi!Max(t)}
          BY <4>2
        <5>4. h[t \ {Wi!Max(t)}] = g[t \ {Wi!Max(t)}]
          BY <5>3
        <5> HIDE DEF h
        <5> QED BY <5>1, <5>2, <5>4
      <4> QED BY <4>1, <4>2
    <3>4. h = [t \in SUBSET (1 .. m) |-> h[t]]
      OBVIOUS
    <3> HIDE DEF h
    <3>5. Folded(h, F, d, m)
      BY <3>3, <3>4 DEF Folded
    <3> QED BY <2>1, <3>5
  <2> QED BY <2>2, <2>3
<1> QED BY <1>1

LEMMA MaxIn ==
  ASSUME NEW n \in Nat, NEW t \in SUBSET (1 .. n), t # {}
  PROVE  Wi!Max(t) \in t
<1> DEFINE B == {n - x : x \in t}
<1>1. B \in SUBSET Nat /\ B # {}
  <2>1. PICK y \in t : TRUE
    OBVIOUS
  <2>2. n - y \in B
    BY <2>1
  <2>3. \A x \in t : n - x \in Nat
    OBVIOUS
  <2> QED BY <2>2, <2>3
<1> HIDE DEF B
<1>2. PICK m \in B : \A k \in B : m <= k
  BY <1>1, LeastOf
<1>3. PICK x \in t : m = n - x
  BY <1>2 DEF B
<1>4. \A y \in t : n - y \in B
  BY DEF B
<1>5. \A y \in t : x >= y
  BY <1>2, <1>3, <1>4
<1> QED BY <1>5 DEF Wi!Max

LEMMA FoldType ==
  ASSUME NEW F, NEW d, NEW n \in Nat, NEW g, Folded(g, F, d, n), NEW X, d \in X,
         \A k \in 1 .. n : \A x \in X : F[<<k, x>>] \in X
  PROVE  \A t \in SUBSET (1 .. n) : g[t] \in X
<1> DEFINE B == {k \in 0 .. n : \E t \in SUBSET (1 .. k) : g[t] \notin X}
<1>1. \A t \in SUBSET (1 .. n) :
        g[t] = IF t = {} THEN d ELSE F[<<Wi!Max(t), g[t \ {Wi!Max(t)}]>>]
  BY DEF Folded
<1>2. ASSUME B # {} PROVE FALSE
  <2>1. PICK m \in B : \A k \in B : m <= k
    <3>1. B \in SUBSET Nat
      OBVIOUS
    <3> HIDE DEF B
    <3> QED BY <1>2, <3>1, LeastOf
  <2>2. PICK t \in SUBSET (1 .. m) : g[t] \notin X
    BY <2>1
  <2>3. m \in 0 .. n /\ t \in SUBSET (1 .. n)
    BY <2>1
  <2>4. CASE t = {}
    BY <1>1, <2>2, <2>3, <2>4
  <2>5. CASE t # {} /\ m \in t
    <3>1. Wi!Max(t) = m /\ m \in 1 .. n
      BY <2>3, <2>5, MaxIs
    <3>2. t \ {m} \in SUBSET (1 .. m - 1) /\ m - 1 \in 0 .. n /\ m - 1 < m
      BY <2>3, <3>1
    <3>3. m - 1 \notin B
      <4> HIDE DEF B
      <4>1. m \in Nat
        BY <2>3
      <4>2. m - 1 \in B => m <= m - 1
        BY <2>1
      <4> QED BY <4>1, <4>2
    <3>4. g[t \ {m}] \in X
      <4>1. ~ \E u \in SUBSET (1 .. m - 1) : g[u] \notin X
        BY <3>2, <3>3
      <4> QED BY <3>2, <4>1
    <3>5. F[<<m, g[t \ {m}]>>] \in X
      BY <3>1, <3>4
    <3> QED BY <1>1, <2>2, <2>3, <2>5, <3>1, <3>5
  <2>6. CASE t # {} /\ m \notin t
    <3>1. t \in SUBSET (1 .. m - 1) /\ m - 1 \in 0 .. n
      <4>1. PICK x \in t : TRUE
        BY <2>6
      <4>2. x \in 1 .. m /\ m \in Nat /\ m <= n
        BY <2>3
      <4>3. \A y \in t : y \in 1 .. m /\ y # m
        BY <2>6
      <4> QED BY <4>2, <4>3
    <3>2. m - 1 \in B
      BY <2>2, <3>1
    <3>3. m <= m - 1
      <4> HIDE DEF B
      <4> QED BY <2>1, <3>2
    <3>4. m \in Nat
      BY <2>3
    <3> QED BY <3>3, <3>4
  <2> QED BY <2>4, <2>5, <2>6
<1>3. n \in 0 .. n
  OBVIOUS
<1> QED BY <1>2, <1>3

\* Induction along a sequence of states.
LEMMA Climb ==
  ASSUME NEW n \in Nat, NEW X, NEW it, it[0] \in X,
         \A k \in 1 .. n : it[k - 1] \in X => it[k] \in X
  PROVE  \A k \in 0 .. n : it[k] \in X
<1> DEFINE B == {j \in 0 .. n : it[j] \notin X}
<1>1. ASSUME B # {} PROVE FALSE
  <2>1. PICK m \in B : \A j \in B : m <= j
    <3>1. B \in SUBSET Nat
      OBVIOUS
    <3> HIDE DEF B
    <3> QED BY <1>1, <3>1, LeastOf
  <2>2. m # 0 /\ m \in 0 .. n
    BY <2>1
  <2>3. m \in 1 .. n /\ m - 1 \in 0 .. n /\ m - 1 < m
    BY <2>2
  <2>4. it[m - 1] \in X
    BY <2>1, <2>3
  <2> QED BY <2>1, <2>3, <2>4
<1> QED BY <1>1

LEMMA CountUp ==
  ASSUME NEW n \in Nat, NEW P, 0 \in P, \A k \in 1 .. n : k - 1 \in P => k \in P
  PROVE  \A k \in 0 .. n : k \in P
<1> DEFINE id == [k \in 0 .. n |-> k]
<1>1. id[0] \in P /\ \A k \in 1 .. n : id[k - 1] \in P => id[k] \in P
  <2>1. 0 \in 0 .. n /\ \A k \in 1 .. n : k - 1 \in 0 .. n /\ k \in 0 .. n
    OBVIOUS
  <2> QED BY <2>1
<1>2. \A k \in 0 .. n : id[k] \in P
  <2> HIDE DEF id
  <2> QED BY <1>1, Climb
<1> QED BY <1>2

\* Folds by the names of what they do.
Tools(d, s) == Wi!FoldLeft(Wi!Tool, d, s)
Merges(d, s) == Wi!FoldLeft(Wi!Merged, d, s)
Begins(d, s) == Wi!FoldLeft(Wi!Begun, d, s)
Closes(d, s) == Wi!FoldLeft(Wi!Closed, d, s)
AllBlocks(d, s) == Wi!FoldLeft(Wi!AddBlock, d, s)

\* A path it takes from d, by the elements of s, to the fold; it does not leave X.
ToolPath(it, X, d, n, s) ==
  /\ it \in [0 .. n -> X] /\ it[0] = d /\ it[n] = Tools(d, s)
  /\ \A k \in 1 .. n : it[k] = Wi!Tool(it[k - 1], s[k])
ToolKeeps(X, n, s) == \A k \in 1 .. n : \A x \in X : Wi!Tool(x, s[k]) \in X

MergePath(it, X, d, n, s) ==
  /\ it \in [0 .. n -> X] /\ it[0] = d /\ it[n] = Merges(d, s)
  /\ \A k \in 1 .. n : it[k] = Wi!Merged(it[k - 1], s[k])
MergeKeeps(X, n, s) == \A k \in 1 .. n : \A x \in X : Wi!Merged(x, s[k]) \in X

BeginPath(it, X, d, n, s) ==
  /\ it \in [0 .. n -> X] /\ it[0] = d /\ it[n] = Begins(d, s)
  /\ \A k \in 1 .. n : it[k] = Wi!Begun(it[k - 1], s[k])
BeginKeeps(X, n, s) == \A k \in 1 .. n : \A x \in X : Wi!Begun(x, s[k]) \in X

ClosePath(it, X, d, n, s) ==
  /\ it \in [0 .. n -> X] /\ it[0] = d /\ it[n] = Closes(d, s)
  /\ \A k \in 1 .. n : it[k] = Wi!Closed(it[k - 1], s[k])
CloseKeeps(X, n, s) == \A k \in 1 .. n : \A x \in X : Wi!Closed(x, s[k]) \in X

BlockPath(it, X, d, n, s) ==
  /\ it \in [0 .. n -> X] /\ it[0] = d /\ it[n] = AllBlocks(d, s)
  /\ \A k \in 1 .. n : it[k] = Wi!AddBlock(it[k - 1], s[k])
BlockKeeps(X, n, s) == \A k \in 1 .. n : \A x \in X : Wi!AddBlock(x, s[k]) \in X

\* The steps of the five folds.  The lemma is the same for each: an operator cannot be
\* a parameter of it.
LEMMA ToolSteps ==
  ASSUME NEW X, NEW d \in X, NEW n \in Nat, NEW s, DOMAIN s = 1 .. n, ToolKeeps(X, n, s)
  PROVE  \E it : ToolPath(it, X, d, n, s)
<1> DEFINE F == [p \in (1 .. n) \X X |-> Wi!Tool(p[2], s[p[1]])]
           Eq(g) == g = [t \in SUBSET (1 .. n) |->
                          IF t = {} THEN d ELSE Wi!Tool(g[t \ {Wi!Max(t)}], s[Wi!Max(t)])]
           iter == CHOOSE g : Eq(g)
           it == [k \in 0 .. n |-> iter[1 .. k]]
<1>1. PICK g : Folded(g, F, d, n)
  <2> HIDE DEF F
  <2> QED BY FoldExists
<1>2. \A k \in 1 .. n : \A x \in X : F[<<k, x>>] = Wi!Tool(x, s[k])
  OBVIOUS
<1>3. \A t \in SUBSET (1 .. n) : g[t] \in X
  <2>1. \A k \in 1 .. n : \A x \in X : F[<<k, x>>] \in X
    BY <1>2 DEF ToolKeeps
  <2> HIDE DEF F
  <2> QED BY <1>1, <2>1, FoldType
<1> HIDE DEF F
<1>4. ASSUME NEW t \in SUBSET (1 .. n)
      PROVE  g[t] = IF t = {} THEN d ELSE Wi!Tool(g[t \ {Wi!Max(t)}], s[Wi!Max(t)])
  <2>1. g[t] = IF t = {} THEN d ELSE F[<<Wi!Max(t), g[t \ {Wi!Max(t)}]>>]
    BY <1>1 DEF Folded
  <2>2. t # {} => Wi!Max(t) \in 1 .. n /\ t \ {Wi!Max(t)} \in SUBSET (1 .. n)
    BY MaxIn
  <2> QED BY <1>2, <1>3, <2>1, <2>2
<1>5. Eq(g)
  BY <1>1, <1>4 DEF Folded
<1>6. Eq(iter)
  BY <1>5
<1>7. Tools(d, s) = iter[1 .. n]
  BY DEF Tools, Wi!FoldLeft, Wi!MapThenFoldSet
<1>8. \A t \in SUBSET (1 .. n) :
        iter[t] = IF t = {} THEN d ELSE Wi!Tool(iter[t \ {Wi!Max(t)}], s[Wi!Max(t)])
  <2> HIDE DEF iter
  <2> QED BY <1>6
<1> HIDE DEF iter, Eq
<1>9. it[0] = d /\ it[n] = iter[1 .. n]
  <2>1. 1 .. 0 = {} /\ {} \in SUBSET (1 .. n) /\ 0 \in 0 .. n /\ n \in 0 .. n
    OBVIOUS
  <2> QED BY <1>8, <2>1
<1>10. ASSUME NEW k \in 1 .. n PROVE it[k] = Wi!Tool(it[k - 1], s[k])
  <2>1. /\ 1 .. k \in SUBSET (1 .. n) /\ 1 .. k # {} /\ (1 .. k) \ {k} = 1 .. k - 1
        /\ k \in 0 .. n /\ k - 1 \in 0 .. n /\ k \in 1 .. k /\ k \in Nat
    <3>1. k \in Nat /\ 1 <= k /\ k <= n
      OBVIOUS
    <3>2. \A x \in (1 .. k) \ {k} : x \in 1 .. k - 1
      OBVIOUS
    <3>3. \A x \in 1 .. k - 1 : x \in (1 .. k) \ {k}
      OBVIOUS
    <3>4. (1 .. k) \ {k} = 1 .. k - 1
      BY <3>2, <3>3
    <3> QED BY <3>1, <3>4
  <2>2. Wi!Max(1 .. k) = k
    BY <2>1, MaxIs
  <2> QED BY <1>8, <2>1, <2>2
<1>11. ASSUME NEW k \in 0 .. n PROVE it[k] \in X
  <2>1. it[0] \in X /\ \A j \in 1 .. n : it[j - 1] \in X => it[j] \in X
    <3> HIDE DEF it
    <3> QED BY <1>9, <1>10 DEF ToolKeeps
  <2> HIDE DEF it
  <2> QED BY <2>1, Climb
<1>12. it \in [0 .. n -> X]
  BY <1>11
<1> HIDE DEF it
<1> QED BY <1>7, <1>9, <1>10, <1>12 DEF ToolPath

LEMMA MergeSteps ==
  ASSUME NEW X, NEW d \in X, NEW n \in Nat, NEW s, DOMAIN s = 1 .. n, MergeKeeps(X, n, s)
  PROVE  \E it : MergePath(it, X, d, n, s)
<1> DEFINE F == [p \in (1 .. n) \X X |-> Wi!Merged(p[2], s[p[1]])]
           Eq(g) == g = [t \in SUBSET (1 .. n) |->
                          IF t = {} THEN d ELSE Wi!Merged(g[t \ {Wi!Max(t)}], s[Wi!Max(t)])]
           iter == CHOOSE g : Eq(g)
           it == [k \in 0 .. n |-> iter[1 .. k]]
<1>1. PICK g : Folded(g, F, d, n)
  <2> HIDE DEF F
  <2> QED BY FoldExists
<1>2. \A k \in 1 .. n : \A x \in X : F[<<k, x>>] = Wi!Merged(x, s[k])
  OBVIOUS
<1>3. \A t \in SUBSET (1 .. n) : g[t] \in X
  <2>1. \A k \in 1 .. n : \A x \in X : F[<<k, x>>] \in X
    BY <1>2 DEF MergeKeeps
  <2> HIDE DEF F
  <2> QED BY <1>1, <2>1, FoldType
<1> HIDE DEF F
<1>4. ASSUME NEW t \in SUBSET (1 .. n)
      PROVE  g[t] = IF t = {} THEN d ELSE Wi!Merged(g[t \ {Wi!Max(t)}], s[Wi!Max(t)])
  <2>1. g[t] = IF t = {} THEN d ELSE F[<<Wi!Max(t), g[t \ {Wi!Max(t)}]>>]
    BY <1>1 DEF Folded
  <2>2. t # {} => Wi!Max(t) \in 1 .. n /\ t \ {Wi!Max(t)} \in SUBSET (1 .. n)
    BY MaxIn
  <2> QED BY <1>2, <1>3, <2>1, <2>2
<1>5. Eq(g)
  BY <1>1, <1>4 DEF Folded
<1>6. Eq(iter)
  BY <1>5
<1>7. Merges(d, s) = iter[1 .. n]
  BY DEF Merges, Wi!FoldLeft, Wi!MapThenFoldSet
<1>8. \A t \in SUBSET (1 .. n) :
        iter[t] = IF t = {} THEN d ELSE Wi!Merged(iter[t \ {Wi!Max(t)}], s[Wi!Max(t)])
  <2> HIDE DEF iter
  <2> QED BY <1>6
<1> HIDE DEF iter, Eq
<1>9. it[0] = d /\ it[n] = iter[1 .. n]
  <2>1. 1 .. 0 = {} /\ {} \in SUBSET (1 .. n) /\ 0 \in 0 .. n /\ n \in 0 .. n
    OBVIOUS
  <2> QED BY <1>8, <2>1
<1>10. ASSUME NEW k \in 1 .. n PROVE it[k] = Wi!Merged(it[k - 1], s[k])
  <2>1. /\ 1 .. k \in SUBSET (1 .. n) /\ 1 .. k # {} /\ (1 .. k) \ {k} = 1 .. k - 1
        /\ k \in 0 .. n /\ k - 1 \in 0 .. n /\ k \in 1 .. k /\ k \in Nat
    <3>1. k \in Nat /\ 1 <= k /\ k <= n
      OBVIOUS
    <3>2. \A x \in (1 .. k) \ {k} : x \in 1 .. k - 1
      OBVIOUS
    <3>3. \A x \in 1 .. k - 1 : x \in (1 .. k) \ {k}
      OBVIOUS
    <3>4. (1 .. k) \ {k} = 1 .. k - 1
      BY <3>2, <3>3
    <3> QED BY <3>1, <3>4
  <2>2. Wi!Max(1 .. k) = k
    BY <2>1, MaxIs
  <2> QED BY <1>8, <2>1, <2>2
<1>11. ASSUME NEW k \in 0 .. n PROVE it[k] \in X
  <2>1. it[0] \in X /\ \A j \in 1 .. n : it[j - 1] \in X => it[j] \in X
    <3> HIDE DEF it
    <3> QED BY <1>9, <1>10 DEF MergeKeeps
  <2> HIDE DEF it
  <2> QED BY <2>1, Climb
<1>12. it \in [0 .. n -> X]
  BY <1>11
<1> HIDE DEF it
<1> QED BY <1>7, <1>9, <1>10, <1>12 DEF MergePath

LEMMA BeginSteps ==
  ASSUME NEW X, NEW d \in X, NEW n \in Nat, NEW s, DOMAIN s = 1 .. n, BeginKeeps(X, n, s)
  PROVE  \E it : BeginPath(it, X, d, n, s)
<1> DEFINE F == [p \in (1 .. n) \X X |-> Wi!Begun(p[2], s[p[1]])]
           Eq(g) == g = [t \in SUBSET (1 .. n) |->
                          IF t = {} THEN d ELSE Wi!Begun(g[t \ {Wi!Max(t)}], s[Wi!Max(t)])]
           iter == CHOOSE g : Eq(g)
           it == [k \in 0 .. n |-> iter[1 .. k]]
<1>1. PICK g : Folded(g, F, d, n)
  <2> HIDE DEF F
  <2> QED BY FoldExists
<1>2. \A k \in 1 .. n : \A x \in X : F[<<k, x>>] = Wi!Begun(x, s[k])
  OBVIOUS
<1>3. \A t \in SUBSET (1 .. n) : g[t] \in X
  <2>1. \A k \in 1 .. n : \A x \in X : F[<<k, x>>] \in X
    BY <1>2 DEF BeginKeeps
  <2> HIDE DEF F
  <2> QED BY <1>1, <2>1, FoldType
<1> HIDE DEF F
<1>4. ASSUME NEW t \in SUBSET (1 .. n)
      PROVE  g[t] = IF t = {} THEN d ELSE Wi!Begun(g[t \ {Wi!Max(t)}], s[Wi!Max(t)])
  <2>1. g[t] = IF t = {} THEN d ELSE F[<<Wi!Max(t), g[t \ {Wi!Max(t)}]>>]
    BY <1>1 DEF Folded
  <2>2. t # {} => Wi!Max(t) \in 1 .. n /\ t \ {Wi!Max(t)} \in SUBSET (1 .. n)
    BY MaxIn
  <2> QED BY <1>2, <1>3, <2>1, <2>2
<1>5. Eq(g)
  BY <1>1, <1>4 DEF Folded
<1>6. Eq(iter)
  BY <1>5
<1>7. Begins(d, s) = iter[1 .. n]
  BY DEF Begins, Wi!FoldLeft, Wi!MapThenFoldSet
<1>8. \A t \in SUBSET (1 .. n) :
        iter[t] = IF t = {} THEN d ELSE Wi!Begun(iter[t \ {Wi!Max(t)}], s[Wi!Max(t)])
  <2> HIDE DEF iter
  <2> QED BY <1>6
<1> HIDE DEF iter, Eq
<1>9. it[0] = d /\ it[n] = iter[1 .. n]
  <2>1. 1 .. 0 = {} /\ {} \in SUBSET (1 .. n) /\ 0 \in 0 .. n /\ n \in 0 .. n
    OBVIOUS
  <2> QED BY <1>8, <2>1
<1>10. ASSUME NEW k \in 1 .. n PROVE it[k] = Wi!Begun(it[k - 1], s[k])
  <2>1. /\ 1 .. k \in SUBSET (1 .. n) /\ 1 .. k # {} /\ (1 .. k) \ {k} = 1 .. k - 1
        /\ k \in 0 .. n /\ k - 1 \in 0 .. n /\ k \in 1 .. k /\ k \in Nat
    <3>1. k \in Nat /\ 1 <= k /\ k <= n
      OBVIOUS
    <3>2. \A x \in (1 .. k) \ {k} : x \in 1 .. k - 1
      OBVIOUS
    <3>3. \A x \in 1 .. k - 1 : x \in (1 .. k) \ {k}
      OBVIOUS
    <3>4. (1 .. k) \ {k} = 1 .. k - 1
      BY <3>2, <3>3
    <3> QED BY <3>1, <3>4
  <2>2. Wi!Max(1 .. k) = k
    BY <2>1, MaxIs
  <2> QED BY <1>8, <2>1, <2>2
<1>11. ASSUME NEW k \in 0 .. n PROVE it[k] \in X
  <2>1. it[0] \in X /\ \A j \in 1 .. n : it[j - 1] \in X => it[j] \in X
    <3> HIDE DEF it
    <3> QED BY <1>9, <1>10 DEF BeginKeeps
  <2> HIDE DEF it
  <2> QED BY <2>1, Climb
<1>12. it \in [0 .. n -> X]
  BY <1>11
<1> HIDE DEF it
<1> QED BY <1>7, <1>9, <1>10, <1>12 DEF BeginPath

LEMMA CloseSteps ==
  ASSUME NEW X, NEW d \in X, NEW n \in Nat, NEW s, DOMAIN s = 1 .. n, CloseKeeps(X, n, s)
  PROVE  \E it : ClosePath(it, X, d, n, s)
<1> DEFINE F == [p \in (1 .. n) \X X |-> Wi!Closed(p[2], s[p[1]])]
           Eq(g) == g = [t \in SUBSET (1 .. n) |->
                          IF t = {} THEN d ELSE Wi!Closed(g[t \ {Wi!Max(t)}], s[Wi!Max(t)])]
           iter == CHOOSE g : Eq(g)
           it == [k \in 0 .. n |-> iter[1 .. k]]
<1>1. PICK g : Folded(g, F, d, n)
  <2> HIDE DEF F
  <2> QED BY FoldExists
<1>2. \A k \in 1 .. n : \A x \in X : F[<<k, x>>] = Wi!Closed(x, s[k])
  OBVIOUS
<1>3. \A t \in SUBSET (1 .. n) : g[t] \in X
  <2>1. \A k \in 1 .. n : \A x \in X : F[<<k, x>>] \in X
    BY <1>2 DEF CloseKeeps
  <2> HIDE DEF F
  <2> QED BY <1>1, <2>1, FoldType
<1> HIDE DEF F
<1>4. ASSUME NEW t \in SUBSET (1 .. n)
      PROVE  g[t] = IF t = {} THEN d ELSE Wi!Closed(g[t \ {Wi!Max(t)}], s[Wi!Max(t)])
  <2>1. g[t] = IF t = {} THEN d ELSE F[<<Wi!Max(t), g[t \ {Wi!Max(t)}]>>]
    BY <1>1 DEF Folded
  <2>2. t # {} => Wi!Max(t) \in 1 .. n /\ t \ {Wi!Max(t)} \in SUBSET (1 .. n)
    BY MaxIn
  <2> QED BY <1>2, <1>3, <2>1, <2>2
<1>5. Eq(g)
  BY <1>1, <1>4 DEF Folded
<1>6. Eq(iter)
  BY <1>5
<1>7. Closes(d, s) = iter[1 .. n]
  BY DEF Closes, Wi!FoldLeft, Wi!MapThenFoldSet
<1>8. \A t \in SUBSET (1 .. n) :
        iter[t] = IF t = {} THEN d ELSE Wi!Closed(iter[t \ {Wi!Max(t)}], s[Wi!Max(t)])
  <2> HIDE DEF iter
  <2> QED BY <1>6
<1> HIDE DEF iter, Eq
<1>9. it[0] = d /\ it[n] = iter[1 .. n]
  <2>1. 1 .. 0 = {} /\ {} \in SUBSET (1 .. n) /\ 0 \in 0 .. n /\ n \in 0 .. n
    OBVIOUS
  <2> QED BY <1>8, <2>1
<1>10. ASSUME NEW k \in 1 .. n PROVE it[k] = Wi!Closed(it[k - 1], s[k])
  <2>1. /\ 1 .. k \in SUBSET (1 .. n) /\ 1 .. k # {} /\ (1 .. k) \ {k} = 1 .. k - 1
        /\ k \in 0 .. n /\ k - 1 \in 0 .. n /\ k \in 1 .. k /\ k \in Nat
    <3>1. k \in Nat /\ 1 <= k /\ k <= n
      OBVIOUS
    <3>2. \A x \in (1 .. k) \ {k} : x \in 1 .. k - 1
      OBVIOUS
    <3>3. \A x \in 1 .. k - 1 : x \in (1 .. k) \ {k}
      OBVIOUS
    <3>4. (1 .. k) \ {k} = 1 .. k - 1
      BY <3>2, <3>3
    <3> QED BY <3>1, <3>4
  <2>2. Wi!Max(1 .. k) = k
    BY <2>1, MaxIs
  <2> QED BY <1>8, <2>1, <2>2
<1>11. ASSUME NEW k \in 0 .. n PROVE it[k] \in X
  <2>1. it[0] \in X /\ \A j \in 1 .. n : it[j - 1] \in X => it[j] \in X
    <3> HIDE DEF it
    <3> QED BY <1>9, <1>10 DEF CloseKeeps
  <2> HIDE DEF it
  <2> QED BY <2>1, Climb
<1>12. it \in [0 .. n -> X]
  BY <1>11
<1> HIDE DEF it
<1> QED BY <1>7, <1>9, <1>10, <1>12 DEF ClosePath

LEMMA BlockSteps ==
  ASSUME NEW X, NEW d \in X, NEW n \in Nat, NEW s, DOMAIN s = 1 .. n, BlockKeeps(X, n, s)
  PROVE  \E it : BlockPath(it, X, d, n, s)
<1> DEFINE F == [p \in (1 .. n) \X X |-> Wi!AddBlock(p[2], s[p[1]])]
           Eq(g) == g = [t \in SUBSET (1 .. n) |->
                          IF t = {} THEN d ELSE Wi!AddBlock(g[t \ {Wi!Max(t)}], s[Wi!Max(t)])]
           iter == CHOOSE g : Eq(g)
           it == [k \in 0 .. n |-> iter[1 .. k]]
<1>1. PICK g : Folded(g, F, d, n)
  <2> HIDE DEF F
  <2> QED BY FoldExists
<1>2. \A k \in 1 .. n : \A x \in X : F[<<k, x>>] = Wi!AddBlock(x, s[k])
  OBVIOUS
<1>3. \A t \in SUBSET (1 .. n) : g[t] \in X
  <2>1. \A k \in 1 .. n : \A x \in X : F[<<k, x>>] \in X
    BY <1>2 DEF BlockKeeps
  <2> HIDE DEF F
  <2> QED BY <1>1, <2>1, FoldType
<1> HIDE DEF F
<1>4. ASSUME NEW t \in SUBSET (1 .. n)
      PROVE  g[t] = IF t = {} THEN d ELSE Wi!AddBlock(g[t \ {Wi!Max(t)}], s[Wi!Max(t)])
  <2>1. g[t] = IF t = {} THEN d ELSE F[<<Wi!Max(t), g[t \ {Wi!Max(t)}]>>]
    BY <1>1 DEF Folded
  <2>2. t # {} => Wi!Max(t) \in 1 .. n /\ t \ {Wi!Max(t)} \in SUBSET (1 .. n)
    BY MaxIn
  <2> QED BY <1>2, <1>3, <2>1, <2>2
<1>5. Eq(g)
  BY <1>1, <1>4 DEF Folded
<1>6. Eq(iter)
  BY <1>5
<1>7. AllBlocks(d, s) = iter[1 .. n]
  BY DEF AllBlocks, Wi!FoldLeft, Wi!MapThenFoldSet
<1>8. \A t \in SUBSET (1 .. n) :
        iter[t] = IF t = {} THEN d ELSE Wi!AddBlock(iter[t \ {Wi!Max(t)}], s[Wi!Max(t)])
  <2> HIDE DEF iter
  <2> QED BY <1>6
<1> HIDE DEF iter, Eq
<1>9. it[0] = d /\ it[n] = iter[1 .. n]
  <2>1. 1 .. 0 = {} /\ {} \in SUBSET (1 .. n) /\ 0 \in 0 .. n /\ n \in 0 .. n
    OBVIOUS
  <2> QED BY <1>8, <2>1
<1>10. ASSUME NEW k \in 1 .. n PROVE it[k] = Wi!AddBlock(it[k - 1], s[k])
  <2>1. /\ 1 .. k \in SUBSET (1 .. n) /\ 1 .. k # {} /\ (1 .. k) \ {k} = 1 .. k - 1
        /\ k \in 0 .. n /\ k - 1 \in 0 .. n /\ k \in 1 .. k /\ k \in Nat
    <3>1. k \in Nat /\ 1 <= k /\ k <= n
      OBVIOUS
    <3>2. \A x \in (1 .. k) \ {k} : x \in 1 .. k - 1
      OBVIOUS
    <3>3. \A x \in 1 .. k - 1 : x \in (1 .. k) \ {k}
      OBVIOUS
    <3>4. (1 .. k) \ {k} = 1 .. k - 1
      BY <3>2, <3>3
    <3> QED BY <3>1, <3>4
  <2>2. Wi!Max(1 .. k) = k
    BY <2>1, MaxIs
  <2> QED BY <1>8, <2>1, <2>2
<1>11. ASSUME NEW k \in 0 .. n PROVE it[k] \in X
  <2>1. it[0] \in X /\ \A j \in 1 .. n : it[j - 1] \in X => it[j] \in X
    <3> HIDE DEF it
    <3> QED BY <1>9, <1>10 DEF BlockKeeps
  <2> HIDE DEF it
  <2> QED BY <2>1, Climb
<1>12. it \in [0 .. n -> X]
  BY <1>11
<1> HIDE DEF it
<1> QED BY <1>7, <1>9, <1>10, <1>12 DEF BlockPath

-----------------------------------------------------------------------------
(* The request.                                                            *)

LEMMA OtherMessagesAreTurns ==
  ASSUME NEW role \in Wi!Roles, NEW n \in Nat, NEW blocks \in [1 .. n -> Wi!Blocks]
  PROVE  Wi!OtherMessages(role, blocks) \in Seq(Wi!Turns)
<1> DEFINE T == (SUBSET Wi!Marks) \cup {None}
           X == [role : Wi!Roles, out : Seq(Wi!Turns), text : T]
           d == [role |-> role, out |-> <<>>, text |-> None]
<1>1. /\ {} \in SUBSET Wi!Marks
      /\ \A r \in Wi!Roles, m \in SUBSET Wi!Marks : [role |-> r, marks |-> m] \in Wi!Turns
      /\ \A m \in SUBSET Wi!Marks : [role |-> "tool", marks |-> m] \in Wi!Turns
  BY DEF Wi!Turns, Wi!Roles
<1>2. \A k \in 1 .. n : blocks[k].marks \in SUBSET Wi!Marks
  BY DEF Wi!Blocks, Wi!Marks
<1>3. ASSUME NEW x \in X PROVE Wi!Flushed(x) \in Seq(Wi!Turns)
  <2>1. x.role \in Wi!Roles /\ x.out \in Seq(Wi!Turns) /\ x.text \in T
    OBVIOUS
  <2>2. CASE x.text = None
    BY <2>1, <2>2 DEF Wi!Flushed
  <2>3. CASE x.text # None
    <3>1. [role |-> x.role, marks |-> x.text] \in Wi!Turns
      BY <1>1, <2>1, <2>3
    <3> QED BY <2>1, <2>3, <3>1 DEF Wi!Flushed
  <2> QED BY <2>2, <2>3
<1>4. ASSUME NEW k \in 1 .. n, NEW x \in X PROVE Wi!AddBlock(x, blocks[k]) \in X
  <2>1. CASE blocks[k].type = "tool_result"
    <3>1. Append(Wi!Flushed(x), [role |-> "tool", marks |-> blocks[k].marks]) \in Seq(Wi!Turns)
      BY <1>1, <1>2, <1>3
    <3> QED BY <2>1, <3>1 DEF Wi!AddBlock
  <2>2. CASE blocks[k].type # "tool_result"
    <3>1. blocks[k].marks \cup (IF x.text = None THEN {} ELSE x.text) \in T
      BY <1>2
    <3> QED BY <2>2, <3>1 DEF Wi!AddBlock
  <2> QED BY <2>1, <2>2
<1>5. d \in X
  OBVIOUS
<1>6. AllBlocks(d, blocks) \in X
  <2>1. DOMAIN blocks = 1 .. n
    OBVIOUS
  <2> HIDE DEF X, d
  <2>2. BlockKeeps(X, n, blocks)
    BY <1>4 DEF BlockKeeps
  <2>3. PICK it : BlockPath(it, X, d, n, blocks)
    BY <1>5, <2>1, <2>2, BlockSteps
  <2>4. it \in [0 .. n -> X] /\ it[n] = AllBlocks(d, blocks) /\ n \in 0 .. n
    BY <2>3 DEF BlockPath
  <2> QED BY <2>4
<1>7. CASE blocks = <<>>
  BY <1>1, <1>7 DEF Wi!OtherMessages
<1>8. CASE blocks # <<>>
  <2>1. Wi!OtherMessages(role, blocks) = Wi!Flushed(AllBlocks(d, blocks))
    BY <1>8 DEF Wi!OtherMessages, AllBlocks
  <2> HIDE DEF X, d
  <2> QED BY <1>3, <1>6, <2>1
<1> QED BY <1>7, <1>8

LEMMA AssistantMessageIsTurn ==
  ASSUME NEW n \in Nat, NEW blocks \in [1 .. n -> Wi!Blocks]
  PROVE  Wi!AssistantMessage(blocks) \in Seq(Wi!Turns)
<1> DEFINE with(t) == UNION {blocks[i].marks : i \in {j \in DOMAIN blocks : blocks[j].type = t}}
           calls == IF with("tool_use") = {} THEN {} ELSE {"elsewhere"}
<1>1. with("text") \in SUBSET Wi!Marks
  BY DEF Wi!Blocks, Wi!Marks
<1>2. calls \in SUBSET Wi!Marks
  BY DEF Wi!Marks
<1>3. Wi!AssistantMessage(blocks) = <<[role |-> "assistant", marks |-> with("text") \cup calls]>>
  BY DEF Wi!AssistantMessage
<1> HIDE DEF with, calls
<1>4. [role |-> "assistant", marks |-> with("text") \cup calls] \in Wi!Turns
  BY <1>1, <1>2 DEF Wi!Turns, Wi!Roles
<1> QED BY <1>3, <1>4

LEMMA PreparedAccepts ==
  ASSUME NEW p \in Wi!Providers, NEW turns \in Seq(Wi!Turns), turns # <<>>,
         NEW out, out = Wi!Prepared(p, turns)
  PROVE  LET added == Len(out) - Len(turns)
         IN  /\ \A i \in DOMAIN out :
                  /\ out[i].role # "developer" /\ "line" \notin out[i].marks
                  /\ out[i].role = "system" => "fragment" \notin out[i].marks
             /\ IF p = "codebuddy" THEN Len(out) >= 2 ELSE out[1].role = "system"
             /\ added \in {0, 1}
             /\ \A i \in DOMAIN turns :
                  turns[i].role # "developer" => out[i + added].role = turns[i].role
<1> DEFINE scrubbed == [i \in DOMAIN turns |-> Wi!Outbound(turns[i])]
           bare == IF p = "codebuddy" THEN Len(scrubbed) < 2
                   ELSE scrubbed = <<>> \/ scrubbed[1].role # "system"
           lead == [role |-> "system", marks |-> {}]
<1>1. ASSUME NEW t \in Wi!Turns
      PROVE  LET o == Wi!Outbound(t)
             IN  /\ o.role # "developer" /\ "line" \notin o.marks
                 /\ o.role = "system" => "fragment" \notin o.marks
                 /\ t.role # "developer" => o.role = t.role
  BY DEF Wi!Outbound, Wi!Turns
<1>2. /\ Len(turns) \in Nat \ {0} /\ DOMAIN turns = 1 .. Len(turns)
      /\ \A i \in 1 .. Len(turns) : turns[i] \in Wi!Turns
  OBVIOUS
<1>3. /\ DOMAIN scrubbed = 1 .. Len(turns) /\ Len(scrubbed) = Len(turns) /\ scrubbed # <<>>
      /\ scrubbed \in Seq({Wi!Outbound(turns[i]) : i \in DOMAIN turns})
      /\ \A i \in 1 .. Len(turns) : scrubbed[i] = Wi!Outbound(turns[i])
  BY <1>2
<1>4. out = IF bare THEN <<lead>> \o scrubbed ELSE scrubbed
  BY DEF Wi!Prepared
<1> HIDE DEF scrubbed
<1>5. CASE ~ bare
  <2>1. out = scrubbed /\ Len(out) - Len(turns) = 0 /\ \A i \in DOMAIN turns : i + 0 = i
    <3>1. out = scrubbed
      BY <1>4, <1>5
    <3>2. Len(scrubbed) = Len(turns)
      BY <1>3
    <3> QED BY <1>2, <3>1, <3>2
  <2>2. IF p = "codebuddy" THEN Len(out) >= 2 ELSE out[1].role = "system"
    BY <1>2, <1>3, <1>5, <2>1
  <2>3. \A i \in DOMAIN out : i \in DOMAIN turns /\ out[i] = Wi!Outbound(turns[i])
    BY <1>2, <1>3, <2>1
  <2> QED BY <1>1, <1>2, <2>1, <2>2, <2>3
<1>6. CASE bare
  <2>1. /\ Len(out) = Len(turns) + 1 /\ DOMAIN out = 1 .. Len(turns) + 1
        /\ out[1] = lead /\ \A i \in 1 .. Len(turns) : out[i + 1] = scrubbed[i]
    BY <1>2, <1>3, <1>4, <1>6
  <2>2. ASSUME NEW i \in DOMAIN out, i # 1
        PROVE  i - 1 \in 1 .. Len(turns) /\ out[i] = scrubbed[i - 1]
    <3>1. i \in 1 .. Len(turns) + 1 /\ (i - 1) + 1 = i
      BY <1>2, <2>1
    <3>2. i - 1 \in 1 .. Len(turns)
      BY <1>2, <2>2, <3>1
    <3> QED BY <2>1, <3>1, <3>2
  <2> HIDE DEF bare
  <2> QED BY <1>1, <1>2, <1>3, <2>1, <2>2
<1> QED BY <1>5, <1>6

\* What a request in its first stages is about to send, or has sent.
RequestInv ==
  /\ stage \in {"asked", "sent"} => asked \in Seq(Wi!Turns)
  /\ stage = "sent" => sent.provider \in Wi!Providers /\ sent.turns = Wi!Prepared(sent.provider, asked)

LEMMA AskedAreTurns ==
  ASSUME Wi!AskOpenAI \/ Wi!AskAnthropic
  PROVE  asked' \in Seq(Wi!Turns)
<1>1. MaxTurns \in Nat
  BY ServiceAssumption
<1>2. CASE Wi!AskOpenAI
  <2>1. PICK n \in 1 .. MaxTurns : \E turns \in [1 .. n -> Wi!Turns] : asked' = turns
    BY <1>2 DEF Wi!AskOpenAI
  <2> QED BY <1>1, <2>1
<1>3. CASE Wi!AskAnthropic
  <2>1. CASE asked' = <<>>
    BY <2>1
  <2>2. CASE asked' # <<>>
    <3>1. PICK m \in SUBSET {"line"} : asked' = <<[role |-> "system", marks |-> m]>>
      BY <1>3, <2>2 DEF Wi!AskAnthropic
    <3>2. [role |-> "system", marks |-> m] \in Wi!Turns
      BY DEF Wi!Turns, Wi!Roles, Wi!Marks
    <3> QED BY <3>1, <3>2
  <2> QED BY <2>1, <2>2
<1> QED BY <1>2, <1>3

LEMMA ReadAreTurns ==
  ASSUME asked \in Seq(Wi!Turns), Wi!ReadMessage
  PROVE  asked' \in Seq(Wi!Turns)
<1>1. PICK role \in Wi!Roles, n \in 0 .. MaxTurns : \E blocks \in [1 .. n -> Wi!Blocks] :
        asked' = asked \o Wi!AnthropicMessages(role, blocks)
  BY DEF Wi!ReadMessage
<1>2. PICK blocks \in [1 .. n -> Wi!Blocks] : asked' = asked \o Wi!AnthropicMessages(role, blocks)
  BY <1>1
<1>3. n \in Nat
  BY ServiceAssumption
<1>4. Wi!OtherMessages(role, blocks) \in Seq(Wi!Turns)
  BY <1>3, OtherMessagesAreTurns
<1>5. Wi!AssistantMessage(blocks) \in Seq(Wi!Turns)
  BY <1>3, AssistantMessageIsTurn
<1>6. Wi!AnthropicMessages(role, blocks) \in Seq(Wi!Turns)
  BY <1>4, <1>5 DEF Wi!AnthropicMessages
<1> QED BY <1>2, <1>6

LEMMA RequestInit == Wi!Init => RequestInv
  BY DEF Wi!Init, RequestInv

LEMMA RequestNext == RequestInv /\ [Wi!Next]_(Wi!vars) => RequestInv'
<1> SUFFICES ASSUME RequestInv, [Wi!Next]_(Wi!vars) PROVE RequestInv'
  OBVIOUS
<1>1. CASE Wi!AskOpenAI \/ Wi!AskAnthropic
  <2>1. stage' = "asked"
    BY <1>1 DEF Wi!AskOpenAI, Wi!AskAnthropic
  <2> QED BY <1>1, <2>1, AskedAreTurns DEF RequestInv
<1>2. CASE Wi!Send
  <2>1. PICK p \in Wi!Providers : sent' = [provider |-> p, turns |-> Wi!Prepared(p, asked)]
    BY <1>2 DEF Wi!Send
  <2>2. stage = "asked" /\ asked' = asked /\ stage' = "sent"
    BY <1>2 DEF Wi!Send
  <2>3. sent'.provider = p /\ sent'.turns = Wi!Prepared(p, asked)
    BY <2>1
  <2> QED BY <2>2, <2>3 DEF RequestInv
<1>3. CASE UNCHANGED <<stage, asked, sent>>
  BY <1>3 DEF RequestInv
<1>4. CASE stage' \in {"answer", "end"}
  BY <1>4 DEF RequestInv
<1>5. ASSUME Wi!Accepted \/ Wi!Done \/ Wi!Breaks \/ Wi!Aborted PROVE stage' \in {"answer", "end"}
  BY <1>5 DEF Wi!Accepted, Wi!Done, Wi!Breaks, Wi!Aborted, Wi!Ends
<1>6. ASSUME Wi!Chunk \/ Wi!Leaves \/ UNCHANGED Wi!vars PROVE UNCHANGED <<stage, asked, sent>>
  BY <1>6 DEF Wi!Chunk, Wi!Leaves, Wi!vars
<1>7. CASE Wi!ReadMessage
  <2>1. stage = "asked" /\ stage' = "asked"
    BY <1>7 DEF Wi!ReadMessage
  <2> QED BY <1>7, <2>1, ReadAreTurns DEF RequestInv
<1> QED BY <1>1, <1>2, <1>3, <1>4, <1>5, <1>6, <1>7 DEF Wi!Next

LEMMA RequestIsAccepted == ASSUME RequestInv PROVE Wi!UpstreamAccepts
<1> SUFFICES ASSUME stage = "sent", asked # <<>> PROVE Wi!UpstreamAccepts
  BY DEF Wi!UpstreamAccepts
<1>1. asked \in Seq(Wi!Turns) /\ sent.provider \in Wi!Providers
      /\ sent.turns = Wi!Prepared(sent.provider, asked)
  BY DEF RequestInv
<1> QED BY <1>1, PreparedAccepts DEF Wi!UpstreamAccepts

-----------------------------------------------------------------------------
(* The shape of a converted stream.                                        *)

InBlock == {"block_start", "block_delta", "block_stop"}
Kinds == {"thinking", "text", "tool_use"}
Frames ==
  [type : InBlock \cup {"message_start", "message_stop", "error", "chunk", "done"},
   block : Nat \cup {None}, kind : Kinds \cup {None}, call : Calls \cup {None}]

Opens(L, o, b) == o \in DOMAIN L /\ L[o].type = "block_start" /\ L[o].block = b
Shuts(L, o, b) == o \in DOMAIN L /\ L[o].type = "block_stop" /\ L[o].block = b

\* Every event has the block of its type, and message_start, if any, comes first.
Typed(L) ==
  \A i \in DOMAIN L :
    /\ L[i].type \in InBlock \cup {"message_start", "message_stop", "error"}
    /\ L[i].block # None <=> L[i].type \in InBlock
    /\ L[i].type = "message_start" => i = 1
    /\ i = 1 => L[i].type \in {"message_start", "error"}
\* The message is stopped once, and every block is started and stopped once.
Single(L) ==
  \A i, j \in DOMAIN L :
    /\ L[i].type = "message_stop" /\ L[j].type = "message_stop" => i = j
    /\ \A b \in Nat : Opens(L, i, b) /\ Opens(L, j, b) => i = j
    /\ \A b \in Nat : Shuts(L, i, b) /\ Shuts(L, j, b) => i = j
\* A block is started, with the kind of its deltas, before them, and stopped after.
Enclosed(L) ==
  \A i \in DOMAIN L : L[i].type \in {"block_delta", "block_stop"} =>
    /\ \E o \in 1 .. i - 1 :
         Opens(L, o, L[i].block) /\ (L[i].type = "block_delta" => L[o].kind = L[i].kind)
    /\ L[i].type = "block_delta" => \A j \in DOMAIN L : Shuts(L, j, L[i].block) => i < j
\* When the message is stopped every block has been, and no block starts after it.
Ended(L) ==
  \A i, j \in DOMAIN L : L[i].type = "block_start" /\ L[j].type = "message_stop" =>
    i < j /\ \E k \in DOMAIN L : Shuts(L, k, L[i].block)
\* Blocks are numbered from 0 without a gap.
InOrder(L) ==
  \A i \in DOMAIN L : L[i].type = "block_start" /\ L[i].block > 0 =>
    \E k \in 1 .. i : L[k].block = L[i].block - 1

Shaped(L) == Typed(L) /\ Single(L) /\ Enclosed(L) /\ Ended(L) /\ InOrder(L)

\* The least of it, which holds also after the message has ended: nothing precedes its
\* start, and it starts and stops once.
Once(L) ==
  \A i, j \in DOMAIN L :
    /\ i = 1 => L[i].type \in {"message_start", "error"}
    /\ L[i].type = "message_start" => i = 1
    /\ L[i].type \in {"message_start", "message_stop"} => L[i].block = None
    /\ L[i].type = "message_stop" /\ L[j].type = "message_stop" => i = j

LEMMA ShapedIsOnce ==
  ASSUME NEW L, Shaped(L)
  PROVE  Once(L)
BY DEF Shaped, Typed, Single, Once, InBlock

\* What may come next.
Follows(L, e) ==
  /\ e.type \in InBlock \cup {"message_start", "message_stop", "error"}
  /\ e.block # None <=> e.type \in InBlock
  /\ e.type = "message_start" => L = <<>>
  /\ L = <<>> => e.type \in {"message_start", "error"}
  /\ e.type \in {"block_start", "message_stop"} => \A i \in DOMAIN L : L[i].type # "message_stop"
  /\ e.type = "block_start" =>
       /\ \A i \in DOMAIN L : L[i].block # e.block
       /\ e.block > 0 => \E k \in DOMAIN L : L[k].block = e.block - 1
  /\ e.type \in {"block_delta", "block_stop"} =>
       /\ \E o \in DOMAIN L : Opens(L, o, e.block) /\ (e.type = "block_delta" => L[o].kind = e.kind)
       /\ \A i \in DOMAIN L : ~ Shuts(L, i, e.block)
  /\ e.type = "message_stop" =>
       \A i \in DOMAIN L : L[i].type = "block_start" => \E k \in DOMAIN L : Shuts(L, k, L[i].block)

LEMMA AppendIs ==
  ASSUME NEW S, NEW L \in Seq(S), NEW e
  PROVE  LET n == Len(L)
             M == Append(L, e)
         IN  /\ n \in Nat /\ DOMAIN L = 1 .. n /\ DOMAIN M = 1 .. n + 1 /\ M[n + 1] = e
             /\ \A i \in 1 .. n : M[i] = L[i]
OBVIOUS

LEMMA ShapedAppend ==
  ASSUME NEW L \in Seq(Frames), NEW e \in Frames, Shaped(L), Follows(L, e),
         NEW M, M = Append(L, e)
  PROVE  Shaped(M)
<1> DEFINE n == Len(L)
<1>1. /\ n \in Nat /\ DOMAIN L = 1 .. n /\ DOMAIN M = 1 .. n + 1 /\ M[n + 1] = e
      /\ \A i \in 1 .. n : M[i] = L[i]
  BY AppendIs
<1>2. \A i \in 1 .. n + 1 : i \in 1 .. n \/ i = n + 1
  BY <1>1
<1>3. L = <<>> <=> n = 0
  OBVIOUS
<1> HIDE DEF n
<1>4. e.block \in Nat \cup {None}
  BY DEF Frames
<1>5. Typed(M)
  BY <1>1, <1>2, <1>3 DEF Shaped, Typed, Follows
<1>6. /\ \A o \in 1 .. n : \A b : Opens(M, o, b) <=> Opens(L, o, b)
      /\ \A o \in 1 .. n : \A b : Shuts(M, o, b) <=> Shuts(L, o, b)
      /\ \A b : Opens(M, n + 1, b) <=> e.type = "block_start" /\ e.block = b
      /\ \A b : Shuts(M, n + 1, b) <=> e.type = "block_stop" /\ e.block = b
  BY <1>1 DEF Opens, Shuts
<1>7. Single(M)
  <2>1. ASSUME NEW i \in 1 .. n + 1, NEW j \in 1 .. n + 1,
               M[i].type = "message_stop", M[j].type = "message_stop"
        PROVE  i = j
    BY <1>1, <1>2, <2>1 DEF Shaped, Single, Follows
  <2>2. ASSUME NEW i \in 1 .. n + 1, NEW j \in 1 .. n + 1, NEW b \in Nat,
               Opens(M, i, b), Opens(M, j, b)
        PROVE  i = j
    <3>1. \A k \in 1 .. n : ~ (e.type = "block_start" /\ e.block = b /\ Opens(L, k, b))
      BY <1>1 DEF Follows, Opens
    <3> QED BY <1>1, <1>2, <1>6, <2>2, <3>1 DEF Shaped, Single
  <2>3. ASSUME NEW i \in 1 .. n + 1, NEW j \in 1 .. n + 1, NEW b \in Nat,
               Shuts(M, i, b), Shuts(M, j, b)
        PROVE  i = j
    <3>1. \A k \in 1 .. n : ~ (e.type = "block_stop" /\ e.block = b /\ Shuts(L, k, b))
      BY <1>1 DEF Follows
    <3> QED BY <1>1, <1>2, <1>6, <2>3, <3>1 DEF Shaped, Single
  <2> QED BY <1>1, <2>1, <2>2, <2>3 DEF Single
<1>8. Enclosed(M)
  <2>1. ASSUME NEW i \in 1 .. n + 1, M[i].type \in {"block_delta", "block_stop"}
        PROVE  /\ \E o \in 1 .. i - 1 :
                    Opens(M, o, M[i].block) /\ (M[i].type = "block_delta" => M[o].kind = M[i].kind)
               /\ M[i].type = "block_delta" => \A j \in 1 .. n + 1 : Shuts(M, j, M[i].block) => i < j
    <3>1. CASE i \in 1 .. n
      <4>1. PICK o \in 1 .. i - 1 :
              Opens(L, o, L[i].block) /\ (L[i].type = "block_delta" => L[o].kind = L[i].kind)
        BY <1>1, <2>1, <3>1 DEF Shaped, Enclosed
      <4>2. o \in 1 .. n /\ M[i] = L[i] /\ M[o] = L[o]
        BY <1>1, <3>1
      <4>3. ASSUME M[i].type = "block_delta", NEW j \in 1 .. n + 1, Shuts(M, j, M[i].block)
            PROVE  i < j
        <5>1. CASE j \in 1 .. n
          <6>1. Shuts(L, j, L[i].block)
            BY <1>6, <4>2, <4>3, <5>1
          <6> QED BY <1>1, <3>1, <4>2, <4>3, <5>1, <6>1 DEF Shaped, Enclosed
        <5>2. CASE j = n + 1
          BY <1>1, <3>1, <5>2
        <5> QED BY <1>2, <5>1, <5>2
      <4> QED BY <1>6, <4>1, <4>2, <4>3
    <3>2. CASE i = n + 1
      <4>1. M[i] = e /\ e.type \in {"block_delta", "block_stop"} /\ i - 1 = n
        BY <1>1, <2>1, <3>2
      <4>2. PICK o \in 1 .. n : Opens(L, o, e.block) /\ (e.type = "block_delta" => L[o].kind = e.kind)
        BY <1>1, <4>1 DEF Follows
      <4>3. \A j \in 1 .. n : ~ Shuts(L, j, e.block)
        BY <1>1, <4>1 DEF Follows
      <4>4. e.type = "block_delta" => \A j \in 1 .. n + 1 : ~ Shuts(M, j, e.block)
        BY <1>2, <1>6, <4>3
      <4> QED BY <1>1, <1>6, <4>1, <4>2, <4>4
    <3>3. i \in 1 .. n \/ i = n + 1
      BY <1>2
    <3> QED BY <3>1, <3>2, <3>3
  <2> QED BY <1>1, <2>1 DEF Enclosed
<1>9. Ended(M)
  <2> SUFFICES ASSUME NEW i \in 1 .. n + 1, NEW j \in 1 .. n + 1,
                      M[i].type = "block_start", M[j].type = "message_stop"
               PROVE  i < j /\ \E k \in 1 .. n + 1 : Shuts(M, k, M[i].block)
    BY <1>1 DEF Ended
  <2>1. \A k \in 1 .. n : k \in 1 .. n + 1
    BY <1>1
  <2>2. CASE i \in 1 .. n /\ j \in 1 .. n
    <3>1. PICK k \in 1 .. n : i < j /\ Shuts(L, k, L[i].block)
      BY <1>1, <2>2 DEF Shaped, Ended
    <3> QED BY <1>1, <1>6, <2>1, <2>2, <3>1
  <2>3. CASE i \in 1 .. n /\ j = n + 1
    <3>1. PICK k \in 1 .. n : Shuts(L, k, L[i].block)
      BY <1>1, <2>3 DEF Follows
    <3> QED BY <1>1, <1>6, <2>1, <2>3, <3>1
  <2>4. CASE i = n + 1 /\ j \in 1 .. n
    BY <1>1, <2>4 DEF Follows
  <2> QED BY <1>1, <1>2, <2>2, <2>3, <2>4
<1>10. InOrder(M)
  <2> SUFFICES ASSUME NEW i \in 1 .. n + 1, M[i].type = "block_start", M[i].block > 0
               PROVE  \E k \in 1 .. i : M[k].block = M[i].block - 1
    BY <1>1 DEF InOrder
  <2>1. CASE i \in 1 .. n
    <3>1. PICK k \in 1 .. i : L[k].block = L[i].block - 1
      BY <1>1, <2>1 DEF Shaped, InOrder
    <3> QED BY <1>1, <2>1, <3>1
  <2>2. CASE i = n + 1
    <3>1. PICK k \in 1 .. n : L[k].block = e.block - 1
      BY <1>1, <2>2 DEF Follows
    <3> QED BY <1>1, <2>2, <3>1
  <2> QED BY <1>2, <2>1, <2>2
<1> QED BY <1>5, <1>7, <1>8, <1>9, <1>10 DEF Shaped

-----------------------------------------------------------------------------
(* The converter.                                                          *)

ConvType ==
  [started : BOOLEAN, stopped : BOOLEAN, next : Nat, active : Seq(Nat), text : Nat \cup {None},
   think : Nat \cup {None}, tool : [Wi!Indexes -> Nat \cup {None}]]
States == [c : ConvType, out : Seq(Frames)]

Fills(L, b, kind) == \E o \in DOMAIN L : Opens(L, o, b) /\ L[o].kind = kind

\* The converter c that has written L and has not ended the message.
Live(L, c) ==
  /\ c.started <=> L # <<>>
  /\ \A i \in DOMAIN L : L[i].type \in {"message_start", "block_start", "block_delta"}
  /\ \A i \in DOMAIN L : L[i].block \in Nat => L[i].block < c.next
  /\ \A b \in Nat : b < c.next => \E o \in DOMAIN L : Opens(L, o, b)
  /\ Len(c.active) = c.next /\ \A i \in 1 .. c.next : c.active[i] = i - 1
\* The blocks the converter writes to have the kind it writes, each call its own.
Bound(L, c) ==
  /\ c.think # None => Fills(L, c.think, "thinking")
  /\ c.text # None => Fills(L, c.text, "text")
  /\ \A k \in Wi!Indexes : c.tool[k] # None => Fills(L, c.tool[k], "tool_use")
  /\ \A k, l \in Wi!Indexes : c.tool[k] # None /\ c.tool[k] = c.tool[l] => k = l

\* Fragments of the calls m are in the blocks of their calls.
Named(L, c, m) ==
  \A i \in DOMAIN L : L[i].call # None =>
    \E k \in Wi!Indexes : /\ c.tool[k] # None /\ c.tool[k] = L[i].block
                          /\ k + 1 \in DOMAIN m /\ L[i].call = m[k + 1]

Sound(L, c, m, num) ==
  L \in Seq(Frames) /\ Shaped(L) /\ Live(L, c) /\ Bound(L, c) /\ (num => Named(L, c, m))

LEMMA NoneIsNoBlock == None \notin Nat
  BY ServiceAssumption

LEMMA EventIs ==
  ASSUME NEW type, NEW block, NEW kind, NEW call, NEW e, e = Wi!Event(type, block, kind, call)
  PROVE  e.type = type /\ e.block = block /\ e.kind = kind /\ e.call = call
BY DEF Wi!Event

LEMMA EventIsFrame ==
  ASSUME NEW type \in InBlock \cup {"message_start", "message_stop", "error", "chunk", "done"},
         NEW block \in Nat \cup {None}, NEW kind \in Kinds \cup {None}, NEW call \in Calls \cup {None}
  PROVE  Wi!Event(type, block, kind, call) \in Frames
BY DEF Wi!Event, Frames

LEMMA FillsAppend ==
  ASSUME NEW L \in Seq(Frames), NEW e, NEW b, NEW kind, Fills(L, b, kind)
  PROVE  Fills(Append(L, e), b, kind)
<1>1. PICK o \in DOMAIN L : Opens(L, o, b) /\ L[o].kind = kind
  BY DEF Fills
<1>2. o \in DOMAIN Append(L, e) /\ Append(L, e)[o] = L[o]
  BY AppendIs
<1> QED BY <1>1, <1>2 DEF Fills, Opens

LEMMA BoundAppend ==
  ASSUME NEW L \in Seq(Frames), NEW e, NEW c, Bound(L, c)
  PROVE  Bound(Append(L, e), c)
BY FillsAppend DEF Bound

LEMMA NamedAppend ==
  ASSUME NEW L \in Seq(Frames), NEW e, NEW c, NEW m, Named(L, c, m),
         e.call # None => \E k \in Wi!Indexes : /\ c.tool[k] # None /\ c.tool[k] = e.block
                                                /\ k + 1 \in DOMAIN m /\ e.call = m[k + 1]
  PROVE  Named(Append(L, e), c, m)
<1> DEFINE n == Len(L)
           M == Append(L, e)
<1>1. /\ n \in Nat /\ DOMAIN L = 1 .. n /\ DOMAIN M = 1 .. n + 1 /\ M[n + 1] = e
      /\ \A i \in 1 .. n : M[i] = L[i]
  BY AppendIs
<1> HIDE DEF n, M
<1>2. \A i \in 1 .. n + 1 : i \in 1 .. n \/ i = n + 1
  BY <1>1
<1>3. Named(M, c, m)
  BY <1>1, <1>2 DEF Named
<1> QED BY <1>3 DEF M

\* The first event.
LEMMA StartIsSound ==
  ASSUME NEW L, NEW c \in ConvType, NEW k \in ConvType, NEW m, NEW num, Sound(L, c, m, num),
         ~ c.started, k.started, k.next = c.next, k.active = c.active, k.think = c.think,
         k.text = c.text, k.tool = c.tool,
         NEW M, M = Append(L, Wi!Event("message_start", None, None, None))
  PROVE  Sound(M, k, m, num)
<1> DEFINE e == Wi!Event("message_start", None, None, None)
<1>1. L = <<>> /\ L \in Seq(Frames) /\ Shaped(L) /\ Live(L, c) /\ Bound(L, c)
  BY DEF Sound, Live
<1>2. e \in Frames
  BY EventIsFrame
<1>3. e.type = "message_start" /\ e.block = None /\ e.call = None
  BY EventIs
<1> HIDE DEF e
<1>4. Follows(L, e)
  BY <1>1, <1>3 DEF Follows, InBlock
<1>5. M = Append(L, e) /\ M \in Seq(Frames)
  BY <1>1, <1>2 DEF e
<1>6. Shaped(M)
  BY <1>1, <1>2, <1>4, <1>5, ShapedAppend
<1>7. Live(M, k)
  <2>1. DOMAIN M = {1} /\ M[1] = e /\ M # <<>>
    BY <1>1, <1>5
  <2>2. c.next = 0
    <3>1. c.next \in Nat
      BY DEF ConvType
    <3>2. ~ (0 < c.next)
      BY <1>1 DEF Live, Opens
    <3> QED BY <3>1, <3>2
  <2>3. e.block \notin Nat
    BY <1>3, NoneIsNoBlock
  <2>4. Len(c.active) = c.next /\ 1 .. c.next = {} /\ \A b \in Nat : ~ (b < c.next)
    BY <1>1, <2>2 DEF Live
  <2> QED BY <1>3, <2>1, <2>3, <2>4 DEF Live
<1>8. Bound(M, k)
  <2>1. Bound(M, c)
    BY <1>1, <1>5, BoundAppend
  <2> QED BY <2>1 DEF Bound
<1>9. num => Named(M, k, m)
  <2>1. num => Named(M, c, m)
    BY <1>1, <1>3, <1>5, NamedAppend DEF Sound
  <2> QED BY <2>1 DEF Named
<1> QED BY <1>5, <1>6, <1>7, <1>8, <1>9 DEF Sound

\* A block is opened.
LEMMA ReserveIsSound ==
  ASSUME NEW L, NEW c \in ConvType, NEW k \in ConvType, NEW m, NEW num, Sound(L, c, m, num),
         c.started, k.started, k.next = c.next + 1, k.active = Append(c.active, c.next),
         k.think = c.think, k.text = c.text, k.tool = c.tool,
         NEW kind \in Kinds, NEW M, M = Append(L, Wi!Event("block_start", c.next, kind, None))
  PROVE  Sound(M, k, m, num)
<1> DEFINE e == Wi!Event("block_start", c.next, kind, None)
           n == Len(L)
<1>1. L # <<>> /\ L \in Seq(Frames) /\ Shaped(L) /\ Live(L, c) /\ Bound(L, c)
  BY DEF Sound, Live
<1>2. c.next \in Nat /\ c.active \in Seq(Nat)
  BY DEF ConvType
<1>3. e \in Frames
  BY <1>2, EventIsFrame DEF InBlock
<1>4. e.type = "block_start" /\ e.block = c.next /\ e.call = None
  BY EventIs
<1> HIDE DEF e
<1>5. Follows(L, e)
  <2>1. \A i \in DOMAIN L : L[i].type # "message_stop" /\ L[i].block # e.block
    BY <1>1, <1>2, <1>4 DEF Live
  <2>2. e.block > 0 => \E i \in DOMAIN L : L[i].block = e.block - 1
    <3>1. ASSUME e.block > 0 PROVE \E i \in DOMAIN L : L[i].block = e.block - 1
      <4>1. e.block - 1 \in Nat /\ e.block - 1 < c.next
        BY <1>2, <1>4, <3>1
      <4>2. PICK o \in DOMAIN L : Opens(L, o, e.block - 1)
        BY <1>1, <4>1 DEF Live
      <4> QED BY <4>2 DEF Opens
    <3> QED BY <3>1
  <2>3. e.block # None
    BY <1>2, <1>4, NoneIsNoBlock
  <2> QED BY <1>1, <1>4, <2>1, <2>2, <2>3 DEF Follows, InBlock
<1>6. M = Append(L, e) /\ M \in Seq(Frames)
  BY <1>1, <1>3 DEF e
<1>7. Shaped(M)
  BY <1>1, <1>3, <1>5, <1>6, ShapedAppend
<1>8. Live(M, k)
  <2>1. /\ n \in Nat /\ DOMAIN L = 1 .. n /\ DOMAIN M = 1 .. n + 1 /\ M[n + 1] = e
        /\ \A i \in 1 .. n : M[i] = L[i]
    BY <1>1, <1>6, AppendIs
  <2>2. \A i \in 1 .. n + 1 : i \in 1 .. n \/ i = n + 1
    BY <2>1
  <2> HIDE DEF n
  <2>3. M # <<>>
    BY <1>1, <1>6
  <2>4. \A i \in DOMAIN M : M[i].type \in {"message_start", "block_start", "block_delta"}
    BY <1>1, <1>4, <2>1, <2>2 DEF Live
  <2>5. \A i \in DOMAIN M : M[i].block \in Nat => M[i].block < k.next
    BY <1>1, <1>2, <1>4, <2>1, <2>2 DEF Live
  <2>6. ASSUME NEW b \in Nat, b < k.next PROVE \E o \in DOMAIN M : Opens(M, o, b)
    <3>1. CASE b = c.next
      BY <1>4, <2>1, <3>1 DEF Opens
    <3>2. CASE b # c.next
      <4>1. b < c.next
        BY <1>2, <2>6, <3>2
      <4>2. PICK o \in DOMAIN L : Opens(L, o, b)
        BY <1>1, <4>1 DEF Live
      <4>3. o \in DOMAIN M /\ M[o] = L[o]
        BY <2>1
      <4> QED BY <4>2, <4>3 DEF Opens
    <3> QED BY <3>1, <3>2
  <2>7. Len(k.active) = k.next /\ \A i \in 1 .. k.next : k.active[i] = i - 1
    <3>1. Len(c.active) = c.next /\ \A i \in 1 .. c.next : c.active[i] = i - 1
      BY <1>1 DEF Live
    <3>2. \A i \in 1 .. c.next + 1 : i \in 1 .. c.next \/ i = c.next + 1
      BY <1>2
    <3> QED BY <1>2, <3>1, <3>2
  <2> QED BY <2>3, <2>4, <2>5, <2>6, <2>7 DEF Live
<1>9. Bound(M, k)
  <2>1. Bound(M, c)
    BY <1>1, <1>6, BoundAppend
  <2> QED BY <2>1 DEF Bound
<1>10. num => Named(M, k, m)
  <2>1. num => Named(M, c, m)
    BY <1>1, <1>4, <1>6, NamedAppend DEF Sound
  <2> QED BY <2>1 DEF Named
<1> QED BY <1>6, <1>7, <1>8, <1>9, <1>10 DEF Sound

\* A block is continued.
LEMMA DeltaIsSound ==
  ASSUME NEW L, NEW c \in ConvType, NEW m, NEW num, Sound(L, c, m, num), c.started,
         NEW b \in Nat, NEW kind \in Kinds, NEW call \in Calls \cup {None}, Fills(L, b, kind),
         num /\ call # None => \E k \in Wi!Indexes : /\ c.tool[k] # None /\ c.tool[k] = b
                                                     /\ k + 1 \in DOMAIN m /\ call = m[k + 1],
         NEW M, M = Append(L, Wi!Event("block_delta", b, kind, call))
  PROVE  Sound(M, c, m, num)
<1> DEFINE e == Wi!Event("block_delta", b, kind, call)
           n == Len(L)
<1>1. L # <<>> /\ L \in Seq(Frames) /\ Shaped(L) /\ Live(L, c) /\ Bound(L, c)
  BY DEF Sound, Live
<1>2. e \in Frames
  BY EventIsFrame DEF InBlock
<1>3. e.type = "block_delta" /\ e.block = b /\ e.kind = kind /\ e.call = call
  BY EventIs
<1> HIDE DEF e
<1>4. PICK o \in DOMAIN L : Opens(L, o, b) /\ L[o].kind = kind
  BY DEF Fills
<1>5. Follows(L, e)
  <2>1. \A i \in DOMAIN L : ~ Shuts(L, i, e.block)
    BY <1>1 DEF Live, Shuts
  <2>2. e.block # None
    BY <1>3, NoneIsNoBlock
  <2> QED BY <1>1, <1>3, <1>4, <2>1, <2>2 DEF Follows, InBlock
<1>6. M = Append(L, e) /\ M \in Seq(Frames)
  BY <1>1, <1>2 DEF e
<1>7. Shaped(M)
  BY <1>1, <1>2, <1>5, <1>6, ShapedAppend
<1>8. Live(M, c)
  <2>1. /\ n \in Nat /\ DOMAIN L = 1 .. n /\ DOMAIN M = 1 .. n + 1 /\ M[n + 1] = e
        /\ \A i \in 1 .. n : M[i] = L[i]
    BY <1>1, <1>6, AppendIs
  <2>2. \A i \in 1 .. n + 1 : i \in 1 .. n \/ i = n + 1
    BY <2>1
  <2> HIDE DEF n
  <2>3. M # <<>>
    BY <1>1, <1>6
  <2>4. \A i \in DOMAIN M : M[i].type \in {"message_start", "block_start", "block_delta"}
    BY <1>1, <1>3, <2>1, <2>2 DEF Live
  <2>5. b < c.next
    BY <1>1, <1>4 DEF Live, Opens
  <2>6. \A i \in DOMAIN M : M[i].block \in Nat => M[i].block < c.next
    BY <1>1, <1>3, <2>1, <2>2, <2>5 DEF Live
  <2>7. ASSUME NEW d \in Nat, d < c.next PROVE \E i \in DOMAIN M : Opens(M, i, d)
    <3>1. PICK i \in DOMAIN L : Opens(L, i, d)
      BY <1>1, <2>7 DEF Live
    <3>2. i \in DOMAIN M /\ M[i] = L[i]
      BY <2>1
    <3> QED BY <3>1, <3>2 DEF Opens
  <2> QED BY <1>1, <2>3, <2>4, <2>6, <2>7 DEF Live
<1>9. Bound(M, c)
  BY <1>1, <1>6, BoundAppend
<1>10. num => Named(M, c, m)
  BY <1>1, <1>3, <1>6, NamedAppend DEF Sound
<1> QED BY <1>6, <1>7, <1>8, <1>9, <1>10 DEF Sound

\* The converter notes which block is whose.
LEMMA BindIsSound ==
  ASSUME NEW L, NEW c, NEW k, NEW m, NEW num, Sound(L, c, m, num),
         k.started = c.started, k.next = c.next, k.active = c.active, Bound(L, k),
         \A q \in Wi!Indexes : c.tool[q] # None => k.tool[q] = c.tool[q]
  PROVE  Sound(L, k, m, num)
<1>1. Live(L, k)
  BY DEF Sound, Live
<1>2. num => Named(L, k, m)
  BY DEF Sound, Named
<1> QED BY <1>1, <1>2 DEF Sound

-----------------------------------------------------------------------------
(* The steps of the converter, from a state whose events follow a.         *)

Good(a, x, m, num) ==
  x \in States /\ Sound(a \o x.out, x.c, m, num) /\ x.c.started /\ ~ x.c.stopped

LEMMA AppendToLog ==
  ASSUME NEW S, NEW a \in Seq(S), NEW b \in Seq(S), NEW e \in S
  PROVE  a \o Append(b, e) = Append(a \o b, e)
OBVIOUS

LEMMA EmitIs ==
  ASSUME NEW x \in States, NEW e \in Frames, NEW y, y = Wi!Emit(x, e)
  PROVE  y \in States /\ y.c = x.c /\ y.out = Append(x.out, e)
BY DEF Wi!Emit, States

LEMMA StartedIsGood ==
  ASSUME NEW a \in Seq(Frames), NEW x \in States, NEW m, NEW num,
         Sound(a \o x.out, x.c, m, num), ~ x.c.stopped
  PROVE  Good(a, Wi!Started(x), m, num)
<1> DEFINE e == Wi!Event("message_start", None, None, None)
           z == [x EXCEPT !.c.started = TRUE]
           y == Wi!Started(x)
<1>1. x.c \in ConvType /\ x.out \in Seq(Frames)
  BY DEF States
<1>2. CASE x.c.started
  BY <1>2 DEF Wi!Started, Good
<1>3. CASE ~ x.c.started
  <2>1. e \in Frames
    BY EventIsFrame
  <2>2. /\ z \in States /\ z.out = x.out /\ z.c \in ConvType
        /\ z.c.started /\ z.c.stopped = x.c.stopped /\ z.c.next = x.c.next /\ z.c.active = x.c.active
        /\ z.c.think = x.c.think /\ z.c.text = x.c.text /\ z.c.tool = x.c.tool
    BY DEF States, ConvType
  <2>3. y = Wi!Emit(z, e)
    BY <1>3 DEF Wi!Started
  <2> HIDE DEF e, z, y
  <2>4. y \in States /\ y.c = z.c /\ y.out = Append(x.out, e)
    BY <2>1, <2>2, <2>3, EmitIs
  <2>5. a \o y.out = Append(a \o x.out, e)
    BY <1>1, <2>1, <2>4, AppendToLog
  <2>6. Sound(a \o y.out, z.c, m, num)
    BY <1>1, <1>3, <2>2, <2>5, StartIsSound DEF e
  <2>7. Good(a, y, m, num)
    BY <2>2, <2>4, <2>6 DEF Good
  <2> QED BY <2>7 DEF y
<1> QED BY <1>2, <1>3

LEMMA ReservedIsGood ==
  ASSUME NEW a \in Seq(Frames), NEW m, NEW num, NEW x, Good(a, x, m, num), NEW kind \in Kinds,
         NEW y, y = Wi!Reserved(x, kind)
  PROVE  /\ Good(a, y, m, num) /\ Fills(a \o y.out, x.c.next, kind)
         /\ y.c.think = x.c.think /\ y.c.text = x.c.text /\ y.c.tool = x.c.tool
<1> DEFINE e == Wi!Event("block_start", x.c.next, kind, None)
           z == [x EXCEPT !.c.next = @ + 1, !.c.active = Append(@, x.c.next)]
<1>1. /\ x \in States /\ x.c \in ConvType /\ x.out \in Seq(Frames) /\ x.c.next \in Nat
      /\ Sound(a \o x.out, x.c, m, num) /\ x.c.started /\ ~ x.c.stopped
  BY DEF Good, States, ConvType
<1>2. e \in Frames
  BY <1>1, EventIsFrame DEF InBlock
<1>3. /\ z \in States /\ z.out = x.out /\ z.c \in ConvType
      /\ z.c.started = x.c.started /\ z.c.stopped = x.c.stopped
      /\ z.c.next = x.c.next + 1 /\ z.c.active = Append(x.c.active, x.c.next)
      /\ z.c.think = x.c.think /\ z.c.text = x.c.text /\ z.c.tool = x.c.tool
  <2> DEFINE w == [x.c EXCEPT !.next = @ + 1, !.active = Append(@, x.c.next)]
  <2>1. x.c.active \in Seq(Nat) /\ x.c.next + 1 \in Nat
    BY <1>1 DEF ConvType
  <2>2. Append(x.c.active, x.c.next) \in Seq(Nat)
    BY <1>1, <2>1
  <2>3. w \in ConvType
    BY <1>1, <2>1, <2>2 DEF ConvType
  <2>4. /\ w.started = x.c.started /\ w.stopped = x.c.stopped
        /\ w.next = x.c.next + 1 /\ w.active = Append(x.c.active, x.c.next)
        /\ w.think = x.c.think /\ w.text = x.c.text /\ w.tool = x.c.tool
    BY <1>1 DEF ConvType
  <2>5. z = [x EXCEPT !.c = w]
    OBVIOUS
  <2> HIDE DEF w, z
  <2>6. z \in States /\ z.c = w /\ z.out = x.out
    BY <1>1, <2>3, <2>5 DEF States
  <2> QED BY <2>3, <2>4, <2>6
<1>4. y = Wi!Emit(z, e)
  BY DEF Wi!Reserved
<1>5. e.type = "block_start" /\ e.block = x.c.next /\ e.kind = kind
  BY EventIs
<1>6. e = Wi!Event("block_start", x.c.next, kind, None)
  OBVIOUS
<1> HIDE DEF e, z
<1>7. y \in States /\ y.c = z.c /\ y.out = Append(x.out, e)
  BY <1>2, <1>3, <1>4, EmitIs
<1>8. a \o y.out = Append(a \o x.out, e)
  BY <1>1, <1>2, <1>7, AppendToLog
<1>9. Sound(a \o y.out, z.c, m, num)
  BY <1>1, <1>3, <1>6, <1>8, ReserveIsSound
<1>10. Fills(a \o y.out, x.c.next, kind)
  <2> DEFINE L == a \o x.out
  <2>1. L \in Seq(Frames)
    BY <1>1
  <2>2. /\ Len(L) \in Nat /\ DOMAIN Append(L, e) = 1 .. Len(L) + 1 /\ Append(L, e)[Len(L) + 1] = e
    BY <2>1, AppendIs
  <2> HIDE DEF L
  <2>3. Len(L) + 1 \in DOMAIN Append(L, e)
    BY <2>2
  <2>4. Fills(Append(L, e), x.c.next, kind)
    BY <1>5, <2>2, <2>3 DEF Fills, Opens
  <2> QED BY <1>8, <2>4 DEF L
<1>11. Good(a, y, m, num)
  BY <1>1, <1>3, <1>7, <1>9 DEF Good
<1> QED BY <1>3, <1>7, <1>10, <1>11

LEMMA DeltaIsGood ==
  ASSUME NEW a \in Seq(Frames), NEW m, NEW num, NEW x, Good(a, x, m, num),
         NEW b \in Nat, NEW kind \in Kinds, NEW call \in Calls \cup {None},
         Fills(a \o x.out, b, kind),
         num /\ call # None => \E k \in Wi!Indexes : /\ x.c.tool[k] # None /\ x.c.tool[k] = b
                                                     /\ k + 1 \in DOMAIN m /\ call = m[k + 1],
         NEW y, y = Wi!Emit(x, Wi!Event("block_delta", b, kind, call))
  PROVE  Good(a, y, m, num)
<1> DEFINE e == Wi!Event("block_delta", b, kind, call)
<1>1. /\ x \in States /\ x.c \in ConvType /\ x.out \in Seq(Frames)
      /\ Sound(a \o x.out, x.c, m, num) /\ x.c.started /\ ~ x.c.stopped
  BY DEF Good, States
<1>2. e \in Frames
  BY EventIsFrame DEF InBlock
<1>3. y = Wi!Emit(x, e)
  OBVIOUS
<1>4. e = Wi!Event("block_delta", b, kind, call)
  OBVIOUS
<1> HIDE DEF e
<1>5. y \in States /\ y.c = x.c /\ y.out = Append(x.out, e)
  <2>1. x \in States
    BY <1>1
  <2> QED BY <1>2, <1>3, <2>1, EmitIs
<1>6. a \o y.out = Append(a \o x.out, e)
  <2>1. x.out \in Seq(Frames)
    BY <1>1
  <2>2. a \o Append(x.out, e) = Append(a \o x.out, e)
    BY <1>2, <2>1, AppendToLog
  <2> QED BY <1>5, <2>2
<1>7. Sound(a \o y.out, x.c, m, num)
  BY <1>1, <1>4, <1>6, DeltaIsSound
<1> QED BY <1>1, <1>5, <1>7 DEF Good

\* The block of an opened call is not that of another.
LEMMA FreshBlock ==
  ASSUME NEW L \in Seq(Frames), NEW c \in ConvType, NEW m, NEW num, Sound(L, c, m, num),
         NEW b \in Nat, NEW kind, Fills(L, b, kind)
  PROVE  b < c.next
<1>1. PICK o \in DOMAIN L : L[o].block = b
  BY DEF Fills, Opens
<1> QED BY <1>1 DEF Sound, Live

LEMMA ThinkingIsGood ==
  ASSUME NEW a \in Seq(Frames), NEW m, NEW num, NEW x, Good(a, x, m, num)
  PROVE  Good(a, Wi!Thinking(x), m, num)
<1> DEFINE r == Wi!Reserved(x, "thinking")
           y == IF x.c.think = None THEN [r EXCEPT !.c.think = x.c.next] ELSE x
<1>1. x \in States /\ x.c \in ConvType /\ x.c.next \in Nat /\ x.c.think \in Nat \cup {None}
  BY DEF Good, States, ConvType
<1>2. Wi!Thinking(x) = Wi!Emit(y, Wi!Event("block_delta", y.c.think, "thinking", None))
  BY DEF Wi!Thinking
<1>3. CASE x.c.think = None
  <2>1. /\ Good(a, r, m, num) /\ Fills(a \o r.out, x.c.next, "thinking")
        /\ r.c.text = x.c.text /\ r.c.tool = x.c.tool
    <3>1. r = Wi!Reserved(x, "thinking") /\ "thinking" \in Kinds
      BY DEF Kinds
    <3> HIDE DEF r
    <3> QED BY <3>1, ReservedIsGood
  <2>2. y = [r EXCEPT !.c.think = x.c.next]
    BY <1>3
  <2> HIDE DEF r, y
  <2>3. r \in States /\ r.c \in ConvType /\ Sound(a \o r.out, r.c, m, num) /\ r.c.started /\ ~ r.c.stopped
    BY <2>1 DEF Good, States
  <2>4. /\ y \in States /\ y.out = r.out /\ y.c \in ConvType
        /\ y.c.started = r.c.started /\ y.c.stopped = r.c.stopped /\ y.c.next = r.c.next
        /\ y.c.active = r.c.active /\ y.c.think = x.c.next /\ y.c.text = r.c.text /\ y.c.tool = r.c.tool
    BY <1>1, <2>2, <2>3 DEF States, ConvType
  <2>5. Bound(a \o r.out, y.c)
    BY <2>1, <2>3, <2>4 DEF Sound, Bound
  <2>6. Sound(a \o r.out, y.c, m, num)
    BY <2>3, <2>4, <2>5, BindIsSound
  <2>7. Good(a, y, m, num) /\ Fills(a \o y.out, y.c.think, "thinking") /\ y.c.think \in Nat
    BY <1>1, <2>1, <2>3, <2>4, <2>6 DEF Good
  <2> QED BY <1>2, <2>7, DeltaIsGood DEF Kinds
<1>4. CASE x.c.think # None
  <2>1. y = x
    BY <1>4
  <2>2. Fills(a \o x.out, x.c.think, "thinking")
    BY <1>4 DEF Good, Sound, Bound
  <2>3. x.c.think \in Nat
    BY <1>1, <1>4
  <2> HIDE DEF r, y
  <2> QED BY <1>2, <2>1, <2>2, <2>3, DeltaIsGood DEF Kinds
<1> QED BY <1>3, <1>4

LEMMA TextIsGood ==
  ASSUME NEW a \in Seq(Frames), NEW m, NEW num, NEW x, Good(a, x, m, num)
  PROVE  Good(a, Wi!Text(x), m, num)
<1> DEFINE r == Wi!Reserved(x, "text")
           y == IF x.c.text = None THEN [r EXCEPT !.c.text = x.c.next] ELSE x
<1>1. x \in States /\ x.c \in ConvType /\ x.c.next \in Nat /\ x.c.text \in Nat \cup {None}
  BY DEF Good, States, ConvType
<1>2. Wi!Text(x) = Wi!Emit(y, Wi!Event("block_delta", y.c.text, "text", None))
  BY DEF Wi!Text
<1>3. CASE x.c.text = None
  <2>1. /\ Good(a, r, m, num) /\ Fills(a \o r.out, x.c.next, "text")
        /\ r.c.think = x.c.think /\ r.c.tool = x.c.tool
    <3>1. r = Wi!Reserved(x, "text") /\ "text" \in Kinds
      BY DEF Kinds
    <3> HIDE DEF r
    <3> QED BY <3>1, ReservedIsGood
  <2>2. y = [r EXCEPT !.c.text = x.c.next]
    BY <1>3
  <2> HIDE DEF r, y
  <2>3. r \in States /\ r.c \in ConvType /\ Sound(a \o r.out, r.c, m, num) /\ r.c.started /\ ~ r.c.stopped
    BY <2>1 DEF Good, States
  <2>4. /\ y \in States /\ y.out = r.out /\ y.c \in ConvType
        /\ y.c.started = r.c.started /\ y.c.stopped = r.c.stopped /\ y.c.next = r.c.next
        /\ y.c.active = r.c.active /\ y.c.text = x.c.next /\ y.c.think = r.c.think /\ y.c.tool = r.c.tool
    BY <1>1, <2>2, <2>3 DEF States, ConvType
  <2>5. Bound(a \o r.out, y.c)
    BY <2>1, <2>3, <2>4 DEF Sound, Bound
  <2>6. Sound(a \o r.out, y.c, m, num)
    BY <2>3, <2>4, <2>5, BindIsSound
  <2>7. Good(a, y, m, num) /\ Fills(a \o y.out, y.c.text, "text") /\ y.c.text \in Nat
    BY <1>1, <2>1, <2>3, <2>4, <2>6 DEF Good
  <2> QED BY <1>2, <2>7, DeltaIsGood DEF Kinds
<1>4. CASE x.c.text # None
  <2>1. y = x
    BY <1>4
  <2>2. Fills(a \o x.out, x.c.text, "text")
    BY <1>4 DEF Good, Sound, Bound
  <2>3. x.c.text \in Nat
    BY <1>1, <1>4
  <2> HIDE DEF r, y
  <2> QED BY <1>2, <2>1, <2>2, <2>3, DeltaIsGood DEF Kinds
<1> QED BY <1>3, <1>4

\* A fragment of a tool call, by the index it has in the chunk.
Parts == [call : Calls, index : Wi!Indexes]
IsPlaced(d, m) == d.index + 1 \in DOMAIN m /\ d.call = m[d.index + 1]

LEMMA ToolIsGood ==
  ASSUME NEW a \in Seq(Frames), NEW m, NEW num, NEW x, Good(a, x, m, num),
         NEW d \in Parts, num => IsPlaced(d, m)
  PROVE  Good(a, Wi!Tool(x, d), m, num)
<1> DEFINE r == Wi!Reserved(x, "tool_use")
           y == IF x.c.tool[d.index] = None THEN [r EXCEPT !.c.tool[d.index] = x.c.next] ELSE x
<1>1. /\ x \in States /\ x.c \in ConvType /\ x.c.next \in Nat
      /\ x.c.tool \in [Wi!Indexes -> Nat \cup {None}] /\ d.index \in Wi!Indexes /\ d.call \in Calls
  BY DEF Good, States, ConvType, Parts
<1>2. Wi!Tool(x, d) = Wi!Emit(y, Wi!Event("block_delta", y.c.tool[d.index], "tool_use", d.call))
  BY DEF Wi!Tool
<1>3. CASE x.c.tool[d.index] = None
  <2>1. /\ Good(a, r, m, num) /\ Fills(a \o r.out, x.c.next, "tool_use")
        /\ r.c.think = x.c.think /\ r.c.text = x.c.text /\ r.c.tool = x.c.tool
    BY ReservedIsGood DEF Kinds
  <2>2. y = [r EXCEPT !.c.tool[d.index] = x.c.next]
    BY <1>3
  <2> HIDE DEF r, y
  <2>3. r \in States /\ r.c \in ConvType /\ Sound(a \o r.out, r.c, m, num) /\ r.c.started /\ ~ r.c.stopped
    BY <2>1 DEF Good, States
  <2>4. /\ y \in States /\ y.out = r.out /\ y.c \in ConvType
        /\ y.c.started = r.c.started /\ y.c.stopped = r.c.stopped /\ y.c.next = r.c.next
        /\ y.c.active = r.c.active /\ y.c.think = r.c.think /\ y.c.text = r.c.text
        /\ y.c.tool = [x.c.tool EXCEPT ![d.index] = x.c.next]
    <3> DEFINE t == [x.c.tool EXCEPT ![d.index] = x.c.next]
               w == [r.c EXCEPT !.tool = t]
    <3>1. t \in [Wi!Indexes -> Nat \cup {None}]
      BY <1>1
    <3>2. y = [r EXCEPT !.c = w]
      BY <2>1, <2>2
    <3> HIDE DEF t
    <3>3. /\ w \in ConvType /\ w.started = r.c.started /\ w.stopped = r.c.stopped /\ w.next = r.c.next
          /\ w.active = r.c.active /\ w.think = r.c.think /\ w.text = r.c.text /\ w.tool = t
      BY <2>3, <3>1 DEF ConvType
    <3> HIDE DEF w
    <3>4. y \in States /\ y.c = w /\ y.out = r.out
      BY <2>3, <3>2, <3>3 DEF States
    <3> QED BY <3>3, <3>4 DEF t
  <2>5. Bound(a \o r.out, y.c)
    <3> DEFINE L == a \o r.out
               K == a \o x.out
    <3>1. Sound(K, x.c, m, num) /\ K \in Seq(Frames)
      BY <1>1 DEF Good, States
    <3>2. Bound(L, r.c)
      BY <2>3 DEF Sound
    <3>3. Fills(L, x.c.next, "tool_use")
      BY <2>1
    <3> HIDE DEF L, K
    <3>4. ASSUME NEW k \in Wi!Indexes, x.c.tool[k] # None
          PROVE  x.c.tool[k] # x.c.next
      <4>1. x.c.tool[k] \in Nat /\ Fills(K, x.c.tool[k], "tool_use")
        BY <1>1, <3>1, <3>4 DEF Sound, Bound
      <4>2. x.c.tool[k] < x.c.next
        BY <1>1, <3>1, <4>1, FreshBlock
      <4> QED BY <1>1, <4>1, <4>2
    <3>5. \A k \in Wi!Indexes : y.c.tool[k] = IF k = d.index THEN x.c.next ELSE x.c.tool[k]
      BY <1>1, <2>4
    <3>6. \A k \in Wi!Indexes : y.c.tool[k] # None => Fills(L, y.c.tool[k], "tool_use")
      BY <2>1, <3>2, <3>3, <3>5 DEF Bound
    <3>7. \A k, l \in Wi!Indexes : y.c.tool[k] # None /\ y.c.tool[k] = y.c.tool[l] => k = l
      BY <2>1, <3>2, <3>4, <3>5 DEF Bound
    <3>8. Bound(L, y.c)
      BY <2>4, <3>2, <3>6, <3>7 DEF Bound
    <3> QED BY <3>8 DEF L
  <2>6. \A q \in Wi!Indexes : r.c.tool[q] # None => y.c.tool[q] = r.c.tool[q]
    BY <1>1, <1>3, <2>1, <2>4
  <2>7. Sound(a \o r.out, y.c, m, num)
    <3>1. Sound(a \o r.out, r.c, m, num)
      BY <2>3
    <3>2. y.c.started = r.c.started /\ y.c.next = r.c.next /\ y.c.active = r.c.active
      BY <2>4
    <3> QED BY <2>5, <2>6, <3>1, <3>2, BindIsSound
  <2>8. Good(a, y, m, num)
    BY <2>3, <2>4, <2>7 DEF Good
  <2>9. y.c.tool[d.index] = x.c.next /\ x.c.next # None
    BY <1>1, <2>4, NoneIsNoBlock
  <2>10. Fills(a \o y.out, y.c.tool[d.index], "tool_use")
    BY <2>1, <2>4, <2>9
  <2>11. num /\ d.call # None => \E k \in Wi!Indexes :
             /\ y.c.tool[k] # None /\ y.c.tool[k] = y.c.tool[d.index]
             /\ k + 1 \in DOMAIN m /\ d.call = m[k + 1]
    BY <1>1, <2>9 DEF IsPlaced
  <2>12. y.c.tool[d.index] \in Nat
    BY <1>1, <2>9
  <2> QED BY <1>1, <1>2, <2>8, <2>10, <2>11, <2>12, DeltaIsGood DEF Kinds
<1>4. CASE x.c.tool[d.index] # None
  <2>1. y = x
    BY <1>4
  <2>2. Fills(a \o x.out, x.c.tool[d.index], "tool_use")
    BY <1>1, <1>4 DEF Good, Sound, Bound
  <2>3. x.c.tool[d.index] \in Nat
    BY <1>1, <1>4
  <2> HIDE DEF r, y
  <2>4. num /\ d.call # None => \E k \in Wi!Indexes :
             /\ x.c.tool[k] # None /\ x.c.tool[k] = x.c.tool[d.index]
             /\ k + 1 \in DOMAIN m /\ d.call = m[k + 1]
    BY <1>1, <1>4 DEF IsPlaced
  <2> QED BY <1>1, <1>2, <2>1, <2>2, <2>3, <2>4, DeltaIsGood DEF Kinds
<1> QED BY <1>3, <1>4

-----------------------------------------------------------------------------
(* The end of the message.                                                 *)

\* No block holds fragments of two calls.
Apart(L) ==
  \A i, j \in DOMAIN L :
    L[i].call # None /\ L[j].call # None /\ L[i].block = L[j].block => L[i].call = L[j].call

LEMMA SoundIsApart ==
  ASSUME NEW L, NEW c, NEW m, Sound(L, c, m, TRUE)
  PROVE  Apart(L)
BY DEF Sound, Named, Bound, Apart

LEMMA ApartAppend ==
  ASSUME NEW L \in Seq(Frames), NEW e, Apart(L), e.call = None
  PROVE  Apart(Append(L, e))
<1> DEFINE n == Len(L)
           M == Append(L, e)
<1>1. /\ n \in Nat /\ DOMAIN L = 1 .. n /\ DOMAIN M = 1 .. n + 1 /\ M[n + 1] = e
      /\ \A i \in 1 .. n : M[i] = L[i]
  BY AppendIs
<1> HIDE DEF n, M
<1>2. \A i \in 1 .. n + 1 : i \in 1 .. n \/ i = n + 1
  BY <1>1
<1>3. Apart(M)
  BY <1>1, <1>2 DEF Apart
<1> QED BY <1>3 DEF M

\* L, when the blocks below k have been closed and those below n have not ended.
Closing(L, n, k, num) ==
  /\ L # <<>> /\ Shaped(L) /\ (num => Apart(L))
  /\ \A i \in DOMAIN L : L[i].type # "message_stop"
  /\ \A i \in DOMAIN L : L[i].type = "block_start" => L[i].block \in Nat /\ L[i].block < n
  /\ \A b \in Nat : b < n => \E o \in DOMAIN L : Opens(L, o, b)
  /\ \A b \in Nat : b < k <=> \E i \in DOMAIN L : Shuts(L, i, b)

LEMMA GoodIsClosing ==
  ASSUME NEW a \in Seq(Frames), NEW x, NEW m, NEW num \in BOOLEAN, Good(a, x, m, num)
  PROVE  Closing(a \o x.out, x.c.next, 0, num)
<1> DEFINE L == a \o x.out
<1>1. /\ L \in Seq(Frames) /\ Shaped(L) /\ Live(L, x.c) /\ Bound(L, x.c) /\ x.c.started
      /\ Sound(L, x.c, m, num)
  BY DEF Good, Sound
<1>2. num => Apart(L)
  BY <1>1, SoundIsApart
<1> HIDE DEF L
<1>3. \A i \in DOMAIN L : L[i].type # "message_stop" /\ L[i].type # "block_stop"
  BY <1>1 DEF Live
<1>4. \A i \in DOMAIN L : L[i].type = "block_start" => L[i].block \in Nat /\ L[i].block < x.c.next
  <2> SUFFICES ASSUME NEW i \in DOMAIN L, L[i].type = "block_start"
               PROVE  L[i].block \in Nat /\ L[i].block < x.c.next
    OBVIOUS
  <2>1. L[i].block \in Nat \cup {None}
    <3>1. L[i] \in Frames
      BY <1>1
    <3> QED BY <3>1 DEF Frames
  <2>2. L[i].block # None
    BY <1>1 DEF Shaped, Typed, InBlock
  <2> QED BY <1>1, <2>1, <2>2 DEF Live
<1>5. \A b \in Nat : b < 0 <=> \E i \in DOMAIN L : Shuts(L, i, b)
  BY <1>3 DEF Shuts
<1>6. Closing(L, x.c.next, 0, num)
  BY <1>1, <1>2, <1>3, <1>4, <1>5 DEF Closing, Live
<1> QED BY <1>6 DEF L

LEMMA CloseIsClosing ==
  ASSUME NEW L \in Seq(Frames), NEW n \in Nat, NEW k \in Nat, NEW num, Closing(L, n, k, num), k < n,
         NEW M, M = Append(L, Wi!Event("block_stop", k, None, None))
  PROVE  Closing(M, n, k + 1, num) /\ M \in Seq(Frames)
<1> DEFINE e == Wi!Event("block_stop", k, None, None)
           z == Len(L)
<1>1. e \in Frames
  BY EventIsFrame DEF InBlock
<1>2. e.type = "block_stop" /\ e.block = k /\ e.call = None
  BY EventIs
<1>3. M = Append(L, e)
  OBVIOUS
<1> HIDE DEF e
<1>4. M \in Seq(Frames)
  BY <1>1, <1>3
<1>5. Follows(L, e)
  <2>1. PICK o \in DOMAIN L : Opens(L, o, k)
    BY DEF Closing
  <2>2. \A i \in DOMAIN L : ~ Shuts(L, i, k)
    <3>1. ~ (k < k)
      OBVIOUS
    <3> QED BY <3>1 DEF Closing
  <2>3. L # <<>>
    BY DEF Closing
  <2> QED BY <1>2, <2>1, <2>2, <2>3, NoneIsNoBlock DEF Follows, InBlock
<1>6. Shaped(M)
  <2>1. Shaped(L)
    BY DEF Closing
  <2> QED BY <1>1, <1>3, <1>5, <2>1, ShapedAppend
<1>7. num => Apart(M)
  BY <1>2, <1>3, ApartAppend DEF Closing
<1>8. /\ z \in Nat /\ DOMAIN L = 1 .. z /\ DOMAIN M = 1 .. z + 1 /\ M[z + 1] = e
      /\ \A i \in 1 .. z : M[i] = L[i]
  BY <1>3, AppendIs
<1> HIDE DEF z
<1>9. \A i \in 1 .. z + 1 : i \in 1 .. z \/ i = z + 1
  BY <1>8
<1>10. M # <<>>
  BY <1>8
<1>11. \A i \in DOMAIN M : M[i].type # "message_stop"
  BY <1>2, <1>8, <1>9 DEF Closing
<1>12. \A i \in DOMAIN M : M[i].type = "block_start" => M[i].block \in Nat /\ M[i].block < n
  BY <1>2, <1>8, <1>9 DEF Closing
<1>13. ASSUME NEW b \in Nat, b < n PROVE \E o \in DOMAIN M : Opens(M, o, b)
  <2>1. PICK o \in DOMAIN L : Opens(L, o, b)
    BY <1>13 DEF Closing
  <2>2. o \in DOMAIN M /\ M[o] = L[o]
    BY <1>8
  <2> QED BY <2>1, <2>2 DEF Opens
<1>14. ASSUME NEW b \in Nat PROVE b < k + 1 <=> \E i \in DOMAIN M : Shuts(M, i, b)
  <2>1. ASSUME b < k + 1 PROVE \E i \in DOMAIN M : Shuts(M, i, b)
    <3>1. CASE b = k
      <4>1. Shuts(M, z + 1, k) /\ z + 1 \in DOMAIN M
        BY <1>2, <1>8 DEF Shuts
      <4> QED BY <3>1, <4>1
    <3>2. CASE b < k
      <4>1. PICK i \in DOMAIN L : Shuts(L, i, b)
        BY <3>2 DEF Closing
      <4>2. i \in DOMAIN M /\ M[i] = L[i]
        BY <1>8
      <4> QED BY <4>1, <4>2 DEF Shuts
    <3> QED BY <2>1, <3>1, <3>2
  <2>2. ASSUME NEW i \in DOMAIN M, Shuts(M, i, b) PROVE b < k + 1
    <3>1. CASE i = z + 1
      BY <1>2, <1>8, <2>2, <3>1 DEF Shuts
    <3>2. CASE i \in 1 .. z
      <4>1. Shuts(L, i, b)
        BY <1>8, <2>2, <3>2 DEF Shuts
      <4>2. b < k
        BY <1>8, <3>2, <4>1 DEF Closing
      <4> QED BY <4>2
    <3> QED BY <1>8, <1>9, <3>1, <3>2
  <2> QED BY <2>1, <2>2
<1> QED BY <1>4, <1>6, <1>7, <1>10, <1>11, <1>12, <1>13, <1>14 DEF Closing

\* What the closing of the blocks s writes.
CloseRun(it, X, d, n, s) ==
  /\ it \in [0 .. n -> X] /\ it[0] = d /\ it[n] = Closes(d, s)
  /\ \A k \in 1 .. n : it[k].out = Append(it[k - 1].out, Wi!Event("block_stop", s[k], None, None))

LEMMA CloseSome ==
  ASSUME NEW c, NEW n \in Nat, NEW s, DOMAIN s = 1 .. n, \A k \in 1 .. n : s[k] \in Nat,
         NEW X, X = {w \in States : w.c = c}, NEW d \in X
  PROVE  \E it : CloseRun(it, X, d, n, s)
<1>1. ASSUME NEW k \in 1 .. n, NEW w \in X
      PROVE  /\ Wi!Closed(w, s[k]) \in X
             /\ Wi!Closed(w, s[k]).out = Append(w.out, Wi!Event("block_stop", s[k], None, None))
  <2> DEFINE e == Wi!Event("block_stop", s[k], None, None)
             v == Wi!Closed(w, s[k])
  <2>1. e \in Frames
    BY EventIsFrame DEF InBlock
  <2>2. v = Wi!Emit(w, e)
    BY DEF Wi!Closed
  <2>3. w \in States
    OBVIOUS
  <2> HIDE DEF e, v
  <2>4. v \in States /\ v.c = w.c /\ v.out = Append(w.out, e)
    BY <2>1, <2>2, <2>3, EmitIs
  <2> QED BY <2>4 DEF e, v
<1>2. PICK it : ClosePath(it, X, d, n, s)
  <2>1. CloseKeeps(X, n, s)
    BY <1>1 DEF CloseKeeps
  <2> QED BY <2>1, CloseSteps
<1>3. /\ it \in [0 .. n -> X] /\ it[0] = d /\ it[n] = Closes(d, s)
      /\ \A k \in 1 .. n : it[k] = Wi!Closed(it[k - 1], s[k])
  BY <1>2 DEF ClosePath
<1>4. ASSUME NEW k \in 1 .. n
      PROVE  it[k].out = Append(it[k - 1].out, Wi!Event("block_stop", s[k], None, None))
  <2>1. k - 1 \in 0 .. n
    OBVIOUS
  <2>2. it[k - 1] \in X
    BY <1>3, <2>1
  <2> QED BY <1>1, <1>3, <2>2
<1> QED BY <1>3, <1>4 DEF CloseRun

LEMMA CloseAll ==
  ASSUME NEW a \in Seq(Frames), NEW x, NEW m, NEW num \in BOOLEAN, Good(a, x, m, num),
         NEW y, y = Closes(x, x.c.active)
  PROVE  /\ y \in States /\ y.c = x.c /\ a \o y.out \in Seq(Frames)
         /\ Closing(a \o y.out, x.c.next, x.c.next, num)
<1> DEFINE n == x.c.next
           s == x.c.active
           X == {w \in States : w.c = x.c}
<1>1. x \in States /\ x \in X /\ n \in Nat /\ s \in Seq(Nat)
  BY DEF Good, States, ConvType
<1>2. Len(s) = n /\ DOMAIN s = 1 .. n /\ \A i \in 1 .. n : s[i] = i - 1
  BY <1>1 DEF Good, Sound, Live
<1> HIDE DEF n, s
<1>3. PICK it : CloseRun(it, X, x, n, s)
  <2>1. \A k \in 1 .. n : s[k] \in Nat
    BY <1>1, <1>2
  <2>2. DOMAIN s = 1 .. n /\ n \in Nat /\ x \in X
    BY <1>1, <1>2
  <2>3. X = {w \in States : w.c = x.c}
    OBVIOUS
  <2> HIDE DEF X
  <2> QED BY <2>1, <2>2, <2>3, CloseSome
<1>4. /\ it \in [0 .. n -> X] /\ it[0] = x /\ it[n] = Closes(x, s)
      /\ \A k \in 1 .. n : it[k].out = Append(it[k - 1].out, Wi!Event("block_stop", s[k], None, None))
  BY <1>3 DEF CloseRun
<1> DEFINE P == {k \in 0 .. n : a \o it[k].out \in Seq(Frames) /\ Closing(a \o it[k].out, n, k, num)}
<1>5. 0 \in P
  <2>1. Closing(a \o x.out, n, 0, num)
    BY GoodIsClosing DEF n
  <2>2. a \o x.out \in Seq(Frames)
    BY <1>1 DEF States
  <2> QED BY <1>1, <1>4, <2>1, <2>2
<1>6. ASSUME NEW k \in 1 .. n, k - 1 \in P PROVE k \in P
  <2> DEFINE w == it[k - 1]
             L == a \o w.out
             e == Wi!Event("block_stop", k - 1, None, None)
  <2>1. w \in X /\ w \in States /\ w.out \in Seq(Frames)
    BY <1>4, <1>6 DEF States
  <2>2. L \in Seq(Frames) /\ Closing(L, n, k - 1, num)
    BY <1>6
  <2>3. s[k] = k - 1 /\ k - 1 \in Nat /\ k - 1 < n /\ (k - 1) + 1 = k
    BY <1>1, <1>2
  <2>5. e \in Frames
    BY <2>3, EventIsFrame DEF InBlock
  <2>6. it[k].out = Append(w.out, e)
    BY <1>4, <2>3
  <2> HIDE DEF e, w
  <2>7. a \o it[k].out = Append(L, e)
    <3>1. a \o Append(w.out, e) = Append(a \o w.out, e)
      BY <2>1, <2>5, AppendToLog
    <3> QED BY <2>6, <3>1
  <2>8. a \o it[k].out = Append(L, Wi!Event("block_stop", k - 1, None, None))
    BY <2>7 DEF e
  <2> HIDE DEF L
  <2>9. Closing(a \o it[k].out, n, (k - 1) + 1, num) /\ a \o it[k].out \in Seq(Frames)
    BY <1>1, <2>2, <2>3, <2>8, CloseIsClosing
  <2> QED BY <2>3, <2>9
<1>7. n \in P
  <2> HIDE DEF P
  <2>1. \A k \in 0 .. n : k \in P
    BY <1>1, <1>5, <1>6, CountUp
  <2>2. n \in 0 .. n
    BY <1>1
  <2> QED BY <2>1, <2>2
<1>8. y = it[n]
  BY <1>4 DEF s
<1>9. y \in X
  BY <1>1, <1>4, <1>8
<1> QED BY <1>7, <1>8, <1>9 DEF n

\* The message has ended, and what was written of it is well formed.
Final(a, y, num) ==
  /\ y \in States /\ y.c.started /\ y.c.stopped
  /\ a \o y.out \in Seq(Frames) /\ Shaped(a \o y.out) /\ (num => Apart(a \o y.out))

LEMMA StoppedIsOver ==
  ASSUME NEW a \in Seq(Frames), NEW x, NEW m, NEW num \in BOOLEAN, Good(a, x, m, num)
  PROVE  Final(a, Wi!Stopped(x), num) /\ Wi!Stopped(x).out # <<>>
<1> DEFINE z == Closes(x, x.c.active)
           w == [z EXCEPT !.c.active = <<>>, !.c.stopped = TRUE]
           e == Wi!Event("message_stop", None, None, None)
           y == Wi!Stopped(x)
<1>1. x.c.started /\ ~ x.c.stopped /\ x.c \in ConvType /\ x.c.next \in Nat
  BY DEF Good, States, ConvType
<1>2. y = Wi!Emit(w, e)
  BY <1>1 DEF Wi!Stopped, Wi!Started, Closes
<1>3. /\ z \in States /\ z.c = x.c /\ a \o z.out \in Seq(Frames)
      /\ Closing(a \o z.out, x.c.next, x.c.next, num)
  <2> HIDE DEF z
  <2>1. z = Closes(x, x.c.active)
    BY DEF z
  <2> QED BY <2>1, CloseAll
<1> HIDE DEF z
<1>4. w \in States /\ w.out = z.out /\ w.c.started /\ w.c.stopped
  <2> DEFINE v == [z.c EXCEPT !.active = <<>>, !.stopped = TRUE]
  <2>1. v \in ConvType /\ v.started /\ v.stopped
    <3>1. z.c \in ConvType /\ z.c.started
      BY <1>1, <1>3
    <3>2. v \in ConvType
      <4>1. <<>> \in Seq(Nat)
        OBVIOUS
      <4> DEFINE none == <<>>
      <4>2. none \in Seq(Nat) /\ v = [z.c EXCEPT !.active = none, !.stopped = TRUE]
        BY <4>1
      <4> HIDE DEF none, v
      <4> QED BY <3>1, <4>2 DEF ConvType
    <3>3. v.started = z.c.started /\ v.stopped
      BY <3>1 DEF ConvType
    <3> QED BY <3>1, <3>2, <3>3
  <2>2. w = [z EXCEPT !.c = v]
    OBVIOUS
  <2> HIDE DEF v, w
  <2>3. w \in States /\ w.out = z.out /\ w.c = v
    BY <1>3, <2>1, <2>2 DEF States
  <2> QED BY <2>1, <2>3
<1>5. e \in Frames
  BY EventIsFrame
<1>6. e.type = "message_stop" /\ e.block = None /\ e.call = None
  BY EventIs
<1> HIDE DEF w, e, y
<1>7. y \in States /\ y.c = w.c /\ y.out = Append(w.out, e)
  BY <1>2, <1>4, <1>5, EmitIs
<1> DEFINE L == a \o z.out
<1>8. a \o y.out = Append(L, e)
  <2>1. z.out \in Seq(Frames)
    BY <1>3 DEF States
  <2>2. a \o Append(z.out, e) = Append(a \o z.out, e)
    BY <1>5, <2>1, AppendToLog
  <2> QED BY <1>4, <1>7, <2>2
<1>9. L \in Seq(Frames) /\ Closing(L, x.c.next, x.c.next, num)
  BY <1>3
<1> HIDE DEF L
<1>10. Follows(L, e)
  <2>1. L # <<>> /\ \A i \in DOMAIN L : L[i].type # "message_stop"
    BY <1>9 DEF Closing
  <2>2. \A i \in DOMAIN L : L[i].type = "block_start" => \E k \in DOMAIN L : Shuts(L, k, L[i].block)
    BY <1>9 DEF Closing
  <2> QED BY <1>6, <2>1, <2>2 DEF Follows, InBlock
<1>11. Shaped(a \o y.out)
  <2>1. Shaped(L)
    BY <1>9 DEF Closing
  <2> QED BY <1>5, <1>8, <1>9, <1>10, <2>1, ShapedAppend
<1>12. num => Apart(a \o y.out)
  BY <1>6, <1>8, <1>9, ApartAppend DEF Closing
<1>13. a \o y.out \in Seq(Frames)
  BY <1>5, <1>8, <1>9
<1>14. Final(a, y, num)
  BY <1>4, <1>7, <1>11, <1>12, <1>13 DEF Final
<1>15. y.out # <<>>
  <2>1. w.out \in Seq(Frames)
    BY <1>4 DEF States
  <2> QED BY <1>5, <1>7, <2>1
<1> QED BY <1>14, <1>15 DEF y

LEMMA ToolsAreGood ==
  ASSUME NEW a \in Seq(Frames), NEW m, NEW num, NEW x, Good(a, x, m, num),
         NEW n \in Nat, NEW s \in [1 .. n -> Parts], num => \A k \in 1 .. n : IsPlaced(s[k], m)
  PROVE  Good(a, Tools(x, s), m, num)
<1> DEFINE X == {y \in States : Good(a, y, m, num)}
<1>1. ASSUME NEW k \in 1 .. n, NEW y \in X PROVE Wi!Tool(y, s[k]) \in X
  <2>1. Good(a, y, m, num) /\ s[k] \in Parts /\ (num => IsPlaced(s[k], m))
    OBVIOUS
  <2>2. Good(a, Wi!Tool(y, s[k]), m, num)
    BY <2>1, ToolIsGood
  <2> QED BY <2>2 DEF Good
<1>2. x \in X
  BY DEF Good
<1>3. DOMAIN s = 1 .. n
  OBVIOUS
<1>4. ToolKeeps(X, n, s)
  BY <1>1 DEF ToolKeeps
<1>5. PICK it : ToolPath(it, X, x, n, s)
  <2> HIDE DEF X
  <2> QED BY <1>2, <1>3, <1>4, ToolSteps
<1>6. it[n] \in X /\ it[n] = Tools(x, s)
  <2>1. it \in [0 .. n -> X] /\ it[n] = Tools(x, s) /\ n \in 0 .. n
    BY <1>5 DEF ToolPath
  <2> HIDE DEF X
  <2> QED BY <2>1
<1> QED BY <1>6

\* One chunk.
LEMMA ConsumedIs ==
  ASSUME NEW a \in Seq(Frames), NEW c \in ConvType, NEW m, NEW num \in BOOLEAN,
         Sound(a, c, m, num), ~ c.stopped,
         NEW chunk, NEW n \in Nat, chunk.calls \in [1 .. n -> Parts],
         num => \A k \in 1 .. n : IsPlaced(chunk.calls[k], m),
         NEW y, y = Wi!Consumed(c, chunk)
  PROVE  IF chunk.finish = None THEN Good(a, y, m, num) ELSE Final(a, y, num) /\ y.out # <<>>
<1> DEFINE x == [c |-> c, out |-> <<>>]
           p == Wi!Started(x)
           q == IF chunk.think THEN Wi!Thinking(p) ELSE p
           r == IF chunk.text THEN Wi!Text(q) ELSE q
           t == Tools(r, chunk.calls)
<1>1. x \in States /\ x.c = c /\ x.out = <<>> /\ a \o x.out = a
  BY DEF States
<1>2. y = IF chunk.finish = None THEN t ELSE Wi!Stopped(t)
  BY DEF Wi!Consumed, Tools
<1>3. Good(a, p, m, num)
  <2> HIDE DEF x
  <2> QED BY <1>1, StartedIsGood
<1> HIDE DEF p
<1>4. Good(a, q, m, num)
  BY <1>3, ThinkingIsGood
<1> HIDE DEF q
<1>5. Good(a, r, m, num)
  BY <1>4, TextIsGood
<1> HIDE DEF r
<1>6. Good(a, t, m, num)
  BY <1>5, ToolsAreGood
<1> HIDE DEF t
<1>7. Final(a, Wi!Stopped(t), num) /\ Wi!Stopped(t).out # <<>>
  BY <1>6, StoppedIsOver
<1> QED BY <1>2, <1>6, <1>7

\* [DONE], or the end of the body.
LEMMA ConsumedDoneIs ==
  ASSUME NEW a \in Seq(Frames), NEW c \in ConvType, NEW m, NEW num \in BOOLEAN,
         Sound(a, c, m, num), ~ c.stopped,
         NEW y, y = Wi!ConsumedDone(c)
  PROVE  Final(a, y, num)
<1> DEFINE x == [c |-> c, out |-> <<>>]
           p == Wi!Started(x)
<1>1. x \in States /\ x.c = c /\ x.out = <<>> /\ a \o x.out = a
  BY DEF States
<1>2. y = Wi!Stopped(p)
  BY DEF Wi!ConsumedDone
<1>3. Good(a, p, m, num)
  <2> HIDE DEF x
  <2> QED BY <1>1, StartedIsGood
<1> HIDE DEF p
<1> QED BY <1>2, <1>3, StoppedIsOver

-----------------------------------------------------------------------------
(* Content after the message has ended: the converter still writes it.      *)

LEMMA ReservedIs ==
  ASSUME NEW x \in States, NEW kind \in Kinds, NEW y, y = Wi!Reserved(x, kind)
  PROVE  /\ y \in States /\ y.c \in ConvType /\ y.c.next = x.c.next + 1
         /\ y.c.started = x.c.started /\ y.c.stopped = x.c.stopped
         /\ y.out = Append(x.out, Wi!Event("block_start", x.c.next, kind, None))
         /\ y.c.active = Append(x.c.active, x.c.next)
         /\ y.c.think = x.c.think /\ y.c.text = x.c.text /\ y.c.tool = x.c.tool
<1> DEFINE e == Wi!Event("block_start", x.c.next, kind, None)
           z == [x EXCEPT !.c.next = @ + 1, !.c.active = Append(@, x.c.next)]
           w == [x.c EXCEPT !.next = @ + 1, !.active = Append(@, x.c.next)]
<1>1. x.c \in ConvType /\ x.c.next \in Nat /\ x.c.active \in Seq(Nat)
  BY DEF States, ConvType
<1>2. Append(x.c.active, x.c.next) \in Seq(Nat) /\ x.c.next + 1 \in Nat
  BY <1>1
<1>3. /\ w \in ConvType /\ w.next = x.c.next + 1 /\ w.active = Append(x.c.active, x.c.next)
      /\ w.think = x.c.think /\ w.text = x.c.text /\ w.tool = x.c.tool
      /\ w.started = x.c.started /\ w.stopped = x.c.stopped
  BY <1>1, <1>2 DEF ConvType
<1>4. z = [x EXCEPT !.c = w]
  OBVIOUS
<1>5. e \in Frames
  BY <1>1, EventIsFrame DEF InBlock
<1>6. y = Wi!Emit(z, e)
  BY DEF Wi!Reserved
<1> HIDE DEF e, z, w
<1>7. z \in States /\ z.c = w /\ z.out = x.out
  BY <1>3, <1>4 DEF States
<1>8. y \in States /\ y.c = w /\ y.out = Append(x.out, e)
  BY <1>5, <1>6, <1>7, EmitIs
<1> QED BY <1>3, <1>8 DEF e

Content == {"block_start", "block_delta"}
Past ==
  {x \in States : x.c.started /\ x.c.stopped /\ \A i \in DOMAIN x.out : x.out[i].type \in Content}

LEMMA OverEmit ==
  ASSUME NEW x \in Past, NEW e \in Frames, e.type \in Content, NEW y, y = Wi!Emit(x, e)
  PROVE  y \in Past
<1>1. x \in States /\ x.out \in Seq(Frames) /\ x.c.started /\ x.c.stopped
  BY DEF Past, States
<1>2. y \in States /\ y.c = x.c /\ y.out = Append(x.out, e)
  BY <1>1, EmitIs
<1> DEFINE n == Len(x.out)
<1>3. /\ n \in Nat /\ DOMAIN x.out = 1 .. n /\ DOMAIN y.out = 1 .. n + 1 /\ y.out[n + 1] = e
      /\ \A i \in 1 .. n : y.out[i] = x.out[i]
  BY <1>1, <1>2, AppendIs
<1> HIDE DEF n
<1>4. \A i \in 1 .. n + 1 : i \in 1 .. n \/ i = n + 1
  BY <1>3
<1>5. \A i \in DOMAIN y.out : y.out[i].type \in Content
  BY <1>3, <1>4 DEF Past
<1> QED BY <1>1, <1>2, <1>5 DEF Past

LEMMA OverWith ==
  ASSUME NEW r \in Past, NEW c \in ConvType, c.started, c.stopped, NEW y, y = [r EXCEPT !.c = c]
  PROVE  y \in Past /\ y.c = c
<1>1. r \in States
  BY DEF Past
<1>2. y \in States /\ y.c = c /\ y.out = r.out
  BY <1>1 DEF States
<1> QED BY <1>2 DEF Past

LEMMA OverReserved ==
  ASSUME NEW x \in Past, NEW kind \in Kinds, NEW r, r = Wi!Reserved(x, kind)
  PROVE  /\ r \in Past /\ r.c \in ConvType /\ r.c.started /\ r.c.stopped /\ x.c.next \in Nat
         /\ x.c \in ConvType /\ r.c.tool = x.c.tool
<1>1. x \in States /\ x.c \in ConvType /\ x.c.next \in Nat /\ x.c.started /\ x.c.stopped
  BY DEF Past, States, ConvType
<1> DEFINE e == Wi!Event("block_start", x.c.next, kind, None)
<1>2. /\ r \in States /\ r.c \in ConvType /\ r.c.started /\ r.c.stopped
      /\ r.c.tool = x.c.tool /\ r.out = Append(x.out, e)
  BY <1>1, ReservedIs
<1>3. e \in Frames /\ e.type \in Content
  BY <1>1, EventIsFrame, EventIs DEF InBlock, Content
<1> HIDE DEF e
<1> DEFINE n == Len(x.out)
<1>4. /\ n \in Nat /\ DOMAIN x.out = 1 .. n /\ DOMAIN r.out = 1 .. n + 1 /\ r.out[n + 1] = e
      /\ \A i \in 1 .. n : r.out[i] = x.out[i]
  <2>1. x.out \in Seq(Frames)
    BY <1>1 DEF States
  <2> QED BY <1>2, <2>1, AppendIs
<1> HIDE DEF n
<1>5. \A i \in 1 .. n + 1 : i \in 1 .. n \/ i = n + 1
  BY <1>4
<1>6. \A i \in DOMAIN r.out : r.out[i].type \in Content
  BY <1>3, <1>4, <1>5 DEF Past
<1> QED BY <1>1, <1>2, <1>6 DEF Past

LEMMA OverDelta ==
  ASSUME NEW x \in Past, NEW b \in Nat, NEW kind \in Kinds, NEW call \in Calls \cup {None}
  PROVE  Wi!Emit(x, Wi!Event("block_delta", b, kind, call)) \in Past
<1> DEFINE e == Wi!Event("block_delta", b, kind, call)
<1>1. e \in Frames /\ e.type \in Content
  BY EventIsFrame, EventIs DEF InBlock, Content
<1> HIDE DEF e
<1>2. Wi!Emit(x, e) \in Past
  BY <1>1, OverEmit
<1> QED BY <1>2 DEF e

LEMMA ThinkingIsOver ==
  ASSUME NEW x \in Past
  PROVE  Wi!Thinking(x) \in Past
<1> DEFINE r == Wi!Reserved(x, "thinking")
           c == [r.c EXCEPT !.think = x.c.next]
           y == IF x.c.think = None THEN [r EXCEPT !.c.think = x.c.next] ELSE x
<1>1. Wi!Thinking(x) = Wi!Emit(y, Wi!Event("block_delta", y.c.think, "thinking", None))
  BY DEF Wi!Thinking
<1>2. /\ r \in Past /\ r.c \in ConvType /\ r.c.started /\ r.c.stopped /\ x.c.next \in Nat
      /\ x.c \in ConvType
  BY OverReserved DEF Kinds
<1>3. [r EXCEPT !.c.think = x.c.next] = [r EXCEPT !.c = c]
  OBVIOUS
<1> HIDE DEF r
<1>4. c \in ConvType /\ c.started /\ c.stopped /\ c.think = x.c.next
  BY <1>2 DEF ConvType
<1> HIDE DEF c
<1>5. y \in Past /\ y.c.think \in Nat
  <2>1. CASE x.c.think = None
    <3>1. y = [r EXCEPT !.c = c]
      BY <1>3, <2>1
    <3> HIDE DEF y
    <3> QED BY <1>2, <1>4, <3>1, OverWith
  <2>2. CASE x.c.think # None
    BY <1>2, <2>2 DEF ConvType
  <2> QED BY <2>1, <2>2
<1> HIDE DEF y
<1> QED BY <1>1, <1>5, OverDelta DEF Kinds

LEMMA TextIsOver ==
  ASSUME NEW x \in Past
  PROVE  Wi!Text(x) \in Past
<1> DEFINE r == Wi!Reserved(x, "text")
           c == [r.c EXCEPT !.text = x.c.next]
           y == IF x.c.text = None THEN [r EXCEPT !.c.text = x.c.next] ELSE x
<1>1. Wi!Text(x) = Wi!Emit(y, Wi!Event("block_delta", y.c.text, "text", None))
  BY DEF Wi!Text
<1>2. /\ r \in Past /\ r.c \in ConvType /\ r.c.started /\ r.c.stopped /\ x.c.next \in Nat
      /\ x.c \in ConvType
  BY OverReserved DEF Kinds
<1>3. [r EXCEPT !.c.text = x.c.next] = [r EXCEPT !.c = c]
  OBVIOUS
<1> HIDE DEF r
<1>4. c \in ConvType /\ c.started /\ c.stopped /\ c.text = x.c.next
  BY <1>2 DEF ConvType
<1> HIDE DEF c
<1>5. y \in Past /\ y.c.text \in Nat
  <2>1. CASE x.c.text = None
    <3>1. y = [r EXCEPT !.c = c]
      BY <1>3, <2>1
    <3> HIDE DEF y
    <3> QED BY <1>2, <1>4, <3>1, OverWith
  <2>2. CASE x.c.text # None
    BY <1>2, <2>2 DEF ConvType
  <2> QED BY <2>1, <2>2
<1> HIDE DEF y
<1> QED BY <1>1, <1>5, OverDelta DEF Kinds

LEMMA ToolIsOver ==
  ASSUME NEW x \in Past, NEW d \in Parts
  PROVE  Wi!Tool(x, d) \in Past
<1> DEFINE r == Wi!Reserved(x, "tool_use")
           t == [x.c.tool EXCEPT ![d.index] = x.c.next]
           c == [r.c EXCEPT !.tool = t]
           y == IF x.c.tool[d.index] = None THEN [r EXCEPT !.c.tool[d.index] = x.c.next] ELSE x
<1>1. Wi!Tool(x, d) = Wi!Emit(y, Wi!Event("block_delta", y.c.tool[d.index], "tool_use", d.call))
  BY DEF Wi!Tool
<1>2. /\ r \in Past /\ r.c \in ConvType /\ r.c.started /\ r.c.stopped /\ x.c.next \in Nat
      /\ x.c \in ConvType /\ r.c.tool = x.c.tool
  BY OverReserved DEF Kinds
<1>3. x.c.tool \in [Wi!Indexes -> Nat \cup {None}] /\ d.index \in Wi!Indexes /\ d.call \in Calls
  BY <1>2 DEF ConvType, Parts
<1>4. t \in [Wi!Indexes -> Nat \cup {None}] /\ t[d.index] = x.c.next
  BY <1>2, <1>3
<1>5. [r EXCEPT !.c.tool[d.index] = x.c.next] = [r EXCEPT !.c = c]
  BY <1>2
<1> HIDE DEF r, t
<1>6. c \in ConvType /\ c.started /\ c.stopped /\ c.tool = t
  BY <1>2, <1>4 DEF ConvType
<1> HIDE DEF c
<1>7. y \in Past /\ y.c.tool[d.index] \in Nat
  <2>1. CASE x.c.tool[d.index] = None
    <3>1. y = [r EXCEPT !.c = c]
      BY <1>5, <2>1
    <3> HIDE DEF y
    <3> QED BY <1>2, <1>4, <1>6, <3>1, OverWith
  <2>2. CASE x.c.tool[d.index] # None
    BY <1>3, <2>2
  <2> QED BY <2>1, <2>2
<1> HIDE DEF y
<1> QED BY <1>1, <1>3, <1>7, OverDelta DEF Kinds

\* One chunk after the end: blocks start and fill, and nothing else is written.
LEMMA LateIsOver ==
  ASSUME NEW c \in ConvType, c.started, c.stopped,
         NEW chunk, NEW n \in Nat, chunk.calls \in [1 .. n -> Parts],
         NEW y, y = Wi!Consumed(c, chunk)
  PROVE  y \in Past
<1> DEFINE x == [c |-> c, out |-> <<>>]
           q == IF chunk.think THEN Wi!Thinking(x) ELSE x
           r == IF chunk.text THEN Wi!Text(q) ELSE q
           t == Tools(r, chunk.calls)
<1>1. x \in Past /\ Wi!Started(x) = x
  BY DEF States, Past, Wi!Started
<1>2. y = IF chunk.finish = None THEN t ELSE Wi!Stopped(t)
  BY <1>1 DEF Wi!Consumed, Tools
<1> HIDE DEF x
<1>3. q \in Past
  BY <1>1, ThinkingIsOver
<1> HIDE DEF q
<1>4. r \in Past
  BY <1>3, TextIsOver
<1> HIDE DEF r
<1>5. t \in Past
  <2>1. ToolKeeps(Past, n, chunk.calls) /\ DOMAIN chunk.calls = 1 .. n
    BY ToolIsOver DEF ToolKeeps
  <2>2. PICK it : ToolPath(it, Past, r, n, chunk.calls)
    BY <1>4, <2>1, ToolSteps
  <2> QED BY <2>2 DEF ToolPath
<1> HIDE DEF t
<1>6. Wi!Stopped(t) = t
  BY <1>5 DEF Past, Wi!Stopped
<1> QED BY <1>2, <1>5, <1>6

\* A chunk without content, after the end, writes nothing.
LEMMA EmptyIsOver ==
  ASSUME NEW c \in ConvType, c.started, c.stopped,
         NEW chunk, ~ chunk.think, ~ chunk.text, chunk.calls \in [1 .. 0 -> Parts],
         NEW y, y = Wi!Consumed(c, chunk)
  PROVE  y.c = c /\ y.out = <<>>
<1> DEFINE x == [c |-> c, out |-> <<>>]
           t == Tools(x, chunk.calls)
<1>1. Wi!Started(x) = x /\ x.c = c /\ x.out = <<>>
  BY DEF Wi!Started
<1>2. y = IF chunk.finish = None THEN t ELSE Wi!Stopped(t)
  BY <1>1 DEF Wi!Consumed, Tools
<1> HIDE DEF x
<1>3. t = x
  <2>1. ToolKeeps({x}, 0, chunk.calls) /\ DOMAIN chunk.calls = 1 .. 0 /\ x \in {x}
    BY DEF ToolKeeps
  <2>2. PICK it : ToolPath(it, {x}, x, 0, chunk.calls)
    BY <2>1, ToolSteps
  <2> QED BY <2>2 DEF ToolPath
<1> HIDE DEF t
<1>4. Wi!Stopped(t) = t
  BY <1>1, <1>3 DEF Wi!Stopped
<1> QED BY <1>1, <1>2, <1>3, <1>4

\* What is written after the end starts and stops no message.
LEMMA OnceMore ==
  ASSUME NEW L \in Seq(Frames), L # <<>>, Once(L), NEW x \in Past
  PROVE  L \o x.out \in Seq(Frames) /\ L \o x.out # <<>> /\ Once(L \o x.out)
<1> DEFINE K == x.out
           M == L \o K
           n == Len(L)
           z == Len(K)
<1>1. K \in Seq(Frames) /\ \A i \in DOMAIN K : K[i].type \in Content
  BY DEF Past, States
<1>2. /\ n \in Nat \ {0} /\ z \in Nat /\ DOMAIN L = 1 .. n /\ DOMAIN K = 1 .. z
      /\ M \in Seq(Frames) /\ DOMAIN M = 1 .. n + z
      /\ \A i \in 1 .. n + z : M[i] = IF i <= n THEN L[i] ELSE K[i - n]
  <2> HIDE DEF K
  <2> QED BY <1>1
<1> HIDE DEF K, M, n, z
<1>3. \A i \in 1 .. n + z : (i \in 1 .. n /\ i <= n) \/ (i - n \in 1 .. z /\ ~ (i <= n) /\ i # 1)
  BY <1>2
<1>4. \A i \in 1 .. n + z : (i \in 1 .. n /\ M[i] = L[i]) \/ (i # 1 /\ M[i].type \in Content)
  BY <1>1, <1>2, <1>3
<1>5. ASSUME NEW i \in 1 .. n + z, NEW j \in 1 .. n + z
      PROVE  /\ i = 1 => M[i].type \in {"message_start", "error"}
             /\ M[i].type = "message_start" => i = 1
             /\ M[i].type \in {"message_start", "message_stop"} => M[i].block = None
             /\ M[i].type = "message_stop" /\ M[j].type = "message_stop" => i = j
  <2>1. CASE i \in 1 .. n /\ M[i] = L[i]
    <3>1. /\ i = 1 => M[i].type \in {"message_start", "error"}
          /\ M[i].type = "message_start" => i = 1
          /\ M[i].type \in {"message_start", "message_stop"} => M[i].block = None
      BY <1>2, <2>1 DEF Once
    <3>2. M[j].type = "message_stop" => j \in 1 .. n /\ M[j] = L[j]
      BY <1>4 DEF Content
    <3>3. M[i].type = "message_stop" /\ M[j].type = "message_stop" => i = j
      BY <1>2, <2>1, <3>2 DEF Once
    <3> QED BY <3>1, <3>3
  <2>2. CASE i # 1 /\ M[i].type \in Content
    BY <2>2 DEF Content
  <2> QED BY <1>4, <2>1, <2>2
<1>6. Once(M)
  BY <1>2, <1>5 DEF Once
<1>7. M # <<>>
  BY <1>2
<1> QED BY <1>2, <1>6, <1>7 DEF M, K

\* [DONE] after a finish reason writes nothing.
LEMMA DoneIsOver ==
  ASSUME NEW c \in ConvType, c.started, c.stopped
  PROVE  Wi!ConsumedDone(c).c = c /\ Wi!ConsumedDone(c).out = <<>>
<1> DEFINE x == [c |-> c, out |-> <<>>]
<1>1. Wi!Started(x) = x /\ Wi!Stopped(x) = x
  BY DEF Wi!Started, Wi!Stopped
<1> QED BY <1>1 DEF Wi!ConsumedDone

-----------------------------------------------------------------------------
(* The calls that the upstream has begun.                                  *)

\* Lists without a repetition.
Lists == {m \in Seq(Calls) : \A i, j \in DOMAIN m : m[i] = m[j] => i = j}

\* m begins r.
Prefix(m, r) == Len(m) <= Len(r) /\ \A i \in DOMAIN m : m[i] = r[i]
Holds(m, call) == \E i \in DOMAIN m : m[i] = call

LEMMA SameCardinality == ASSUME NEW S PROVE Wi!Cardinality(S) = Cardinality(S)
  BY DEF Wi!Cardinality, Cardinality

LEMMA ListIsShort ==
  ASSUME NEW m \in Lists
  PROVE  Len(m) \in Nat /\ DOMAIN m = 1 .. Len(m) /\ Len(m) <= Cardinality(Calls)
         /\ Cardinality(Calls) \in Nat
<1>1. m \in Seq(Calls) /\ Len(m) \in Nat /\ DOMAIN m = 1 .. Len(m) /\ m \in [1 .. Len(m) -> Calls]
  BY DEF Lists
<1>2. m \in Injection(1 .. Len(m), Calls)
  BY <1>1 DEF Lists, Injection, IsInjective
<1>3. IsFiniteSet(Calls) /\ Cardinality(Calls) \in Nat
  BY ServiceAssumption, FS_CardinalityType
<1>4. Cardinality(1 .. Len(m)) <= Cardinality(Calls)
  BY <1>2, <1>3, FS_Injection
<1>5. Cardinality(1 .. Len(m)) = IF 1 > Len(m) THEN 0 ELSE Len(m) - 1 + 1
  BY <1>1, FS_Interval
<1> QED BY <1>1, <1>3, <1>4, <1>5

LEMMA BegunIs ==
  ASSUME NEW m \in Lists, NEW call \in Calls, NEW r, r = Wi!Begun(m, call)
  PROVE  /\ r \in Lists /\ Prefix(m, r) /\ Holds(r, call)
         /\ Holds(m, call) => r = m
         /\ ~ Holds(m, call) => r = Append(m, call)
<1>1. m \in Seq(Calls) /\ Len(m) \in Nat /\ DOMAIN m = 1 .. Len(m)
  BY DEF Lists
<1>2. call \in Wi!Range(m) <=> Holds(m, call)
  BY DEF Wi!Range, Holds
<1>3. CASE Holds(m, call)
  BY <1>1, <1>2, <1>3 DEF Wi!Begun, Prefix
<1>4. CASE ~ Holds(m, call)
  <2>1. r = Append(m, call)
    BY <1>2, <1>4 DEF Wi!Begun
  <2>2. /\ Len(r) = Len(m) + 1 /\ DOMAIN r = 1 .. Len(m) + 1 /\ r[Len(m) + 1] = call
        /\ \A i \in 1 .. Len(m) : r[i] = m[i]
    BY <1>1, <2>1
  <2>3. r \in Seq(Calls)
    BY <1>1, <2>1
  <2>4. ASSUME NEW i \in DOMAIN r, NEW j \in DOMAIN r, r[i] = r[j] PROVE i = j
    <3>1. \A k \in DOMAIN m : m[k] # call
      BY <1>4 DEF Holds
    <3>2. (i \in 1 .. Len(m) \/ i = Len(m) + 1) /\ (j \in 1 .. Len(m) \/ j = Len(m) + 1)
      BY <1>1, <2>2
    <3> QED BY <1>1, <2>2, <2>4, <3>1, <3>2 DEF Lists
  <2>5. Len(m) + 1 \in DOMAIN r
    BY <1>1, <2>2
  <2>6. Holds(r, call)
    BY <2>2, <2>5 DEF Holds
  <2>7. Prefix(m, r)
    BY <1>1, <2>2 DEF Prefix
  <2>8. r \in Lists
    BY <2>3, <2>4 DEF Lists
  <2> QED BY <1>4, <2>1, <2>6, <2>7, <2>8
<1> QED BY <1>3, <1>4

LEMMA BeginsOn ==
  ASSUME NEW p \in Lists, NEW q \in Lists, NEW r \in Lists, Prefix(p, q), Prefix(q, r)
  PROVE  Prefix(p, r)
<1>1. /\ Len(p) \in Nat /\ Len(q) \in Nat /\ Len(r) \in Nat
      /\ DOMAIN p = 1 .. Len(p) /\ DOMAIN q = 1 .. Len(q)
  BY DEF Lists
<1>2. \A i \in DOMAIN p : i \in DOMAIN q
  BY <1>1 DEF Prefix
<1> QED BY <1>1, <1>2 DEF Prefix

\* What holds in r after the first k of the calls s.
After(m, r, s, k) ==
  /\ r \in Lists /\ Prefix(m, r) /\ \A j \in 1 .. k : Holds(r, s[j])
  /\ m = <<>> => Len(r) = k /\ \A j \in 1 .. k : r[j] = s[j]

LEMMA AfterOne ==
  ASSUME NEW m \in Lists, NEW n \in Nat, NEW s \in [1 .. n -> Calls],
         \A i, j \in 1 .. n : s[i] = s[j] => i = j,
         NEW k \in 1 .. n, NEW q, After(m, q, s, k - 1), NEW r, r = Wi!Begun(q, s[k])
  PROVE  After(m, r, s, k)
<1>1. k \in Nat /\ s[k] \in Calls /\ q \in Lists
  BY DEF After
<1>2. /\ r \in Lists /\ Prefix(q, r) /\ Holds(r, s[k])
      /\ ~ Holds(q, s[k]) => r = Append(q, s[k])
  BY <1>1, BegunIs
<1>3. Prefix(m, r)
  BY <1>1, <1>2, BeginsOn DEF After
<1>4. \A j \in 1 .. k : j \in 1 .. k - 1 \/ j = k
  BY <1>1
<1>5. q \in Seq(Calls) /\ Len(q) \in Nat /\ DOMAIN q = 1 .. Len(q) /\ Len(r) \in Nat /\ DOMAIN r = 1 .. Len(r)
  BY <1>1, <1>2 DEF Lists
<1>6. ASSUME NEW j \in 1 .. k PROVE Holds(r, s[j])
  <2>1. CASE j = k
    BY <1>2, <2>1
  <2>2. CASE j \in 1 .. k - 1
    <3>1. PICK i \in DOMAIN q : q[i] = s[j]
      BY <2>2 DEF After, Holds
    <3>2. r[i] = q[i] /\ Len(q) <= Len(r)
      BY <1>2 DEF Prefix
    <3>3. i \in DOMAIN r /\ r[i] = s[j]
      BY <1>5, <3>1, <3>2
    <3> QED BY <3>3 DEF Holds
  <2> QED BY <1>4, <2>1, <2>2
<1>7. ASSUME m = <<>> PROVE Len(r) = k /\ \A j \in 1 .. k : r[j] = s[j]
  <2>1. Len(q) = k - 1 /\ \A j \in 1 .. k - 1 : q[j] = s[j]
    BY <1>7 DEF After
  <2>2. ~ Holds(q, s[k])
    <3>1. ASSUME NEW i \in DOMAIN q, q[i] = s[k] PROVE FALSE
      <4>1. i \in 1 .. k - 1 /\ s[i] = s[k]
        BY <1>5, <2>1, <3>1
      <4>2. i \in 1 .. n /\ i # k
        BY <1>1, <4>1
      <4> QED BY <4>1, <4>2
    <3> QED BY <3>1 DEF Holds
  <2>3. r = Append(q, s[k])
    BY <1>2, <2>2
  <2> QED BY <1>1, <1>4, <1>5, <2>1, <2>3
<1> QED BY <1>2, <1>3, <1>6, <1>7 DEF After

LEMMA BeginsAre ==
  ASSUME NEW m \in Lists, NEW n \in Nat, NEW s \in [1 .. n -> Calls],
         \A i, j \in 1 .. n : s[i] = s[j] => i = j
  PROVE  \E it : BeginPath(it, Lists, m, n, s) /\ \A k \in 0 .. n : After(m, it[k], s, k)
<1>1. PICK it : BeginPath(it, Lists, m, n, s)
  <2>1. BeginKeeps(Lists, n, s)
    BY BegunIs DEF BeginKeeps
  <2>2. DOMAIN s = 1 .. n
    OBVIOUS
  <2> QED BY <2>1, <2>2, BeginSteps
<1>2. it \in [0 .. n -> Lists] /\ it[0] = m /\ \A k \in 1 .. n : it[k] = Wi!Begun(it[k - 1], s[k])
  BY <1>1 DEF BeginPath
<1> DEFINE P == {k \in 0 .. n : After(m, it[k], s, k)}
<1>3. 0 \in P
  <2>1. Prefix(m, m) /\ (m = <<>> => Len(m) = 0) /\ 1 .. 0 = {} /\ 0 \in 0 .. n
    BY DEF Prefix, Lists
  <2> QED BY <1>2, <2>1 DEF After
<1>4. ASSUME NEW k \in 1 .. n, k - 1 \in P PROVE k \in P
  <2>1. After(m, it[k - 1], s, k - 1) /\ it[k] = Wi!Begun(it[k - 1], s[k])
    BY <1>2, <1>4
  <2>2. After(m, it[k], s, k)
    BY <2>1, AfterOne
  <2> QED BY <2>2
<1>5. \A k \in 0 .. n : k \in P
  <2> HIDE DEF P
  <2> QED BY <1>3, <1>4, CountUp
<1> QED BY <1>1, <1>5

\* The calls of an aggregated answer whose fragments are apart.
Singles(m) == [i \in 1 .. Len(m) |-> {m[i]}]

LEMMA MergedIs ==
  ASSUME NEW m \in Lists, NEW d \in Parts, NEW r, r = Wi!Begun(m, d.call), IsPlaced(d, r)
  PROVE  Wi!Merged(Singles(m), d) = Singles(r)
<1> DEFINE g == Singles(m)
           p == d.index + 1
           size == IF Len(g) > d.index THEN Len(g) ELSE d.index + 1
<1>1. d.call \in Calls /\ p \in DOMAIN r /\ r[p] = d.call
  BY DEF Parts, IsPlaced
<1>2. /\ r \in Lists /\ (Holds(m, d.call) => r = m) /\ (~ Holds(m, d.call) => r = Append(m, d.call))
  BY <1>1, BegunIs
<1>3. /\ m \in Seq(Calls) /\ Len(m) \in Nat /\ DOMAIN m = 1 .. Len(m)
      /\ r \in Seq(Calls) /\ Len(r) \in Nat /\ DOMAIN r = 1 .. Len(r)
  BY <1>2 DEF Lists
<1>4. Len(g) = Len(m) /\ DOMAIN g = 1 .. Len(m) /\ \A i \in 1 .. Len(m) : g[i] = {m[i]}
  BY <1>3 DEF Singles
<1>5. d.index \in Nat /\ p \in 1 .. Len(r) /\ d.index = p - 1
  <2>1. d.index \in Nat
    BY ListIsShort DEF Parts, Wi!Indexes
  <2> QED BY <1>1, <1>3, <2>1
<1>6. Wi!Merged(g, d) = [i \in 1 .. size |->
        (IF i \in DOMAIN g THEN g[i] ELSE {}) \cup (IF i = p THEN {d.call} ELSE {})]
  BY DEF Wi!Merged
<1> HIDE DEF g, p
<1>7. CASE Holds(m, d.call)
  <2>1. r = m /\ size = Len(m)
    <3>1. r = m
      BY <1>2, <1>7
    <3>2. Len(m) > d.index
      BY <1>3, <1>5, <3>1
    <3> QED BY <1>4, <3>1, <3>2
  <2>2. \A i \in 1 .. Len(m) : i = p => m[i] = d.call
    BY <1>1, <2>1
  <2>3. \A i \in 1 .. size :
          (IF i \in DOMAIN g THEN g[i] ELSE {}) \cup (IF i = p THEN {d.call} ELSE {}) = {r[i]}
    BY <1>4, <2>1, <2>2
  <2> QED BY <1>6, <2>1, <2>3 DEF Singles, g
<1>8. CASE ~ Holds(m, d.call)
  <2>1. /\ Len(r) = Len(m) + 1 /\ r[Len(m) + 1] = d.call
        /\ \A i \in 1 .. Len(m) : r[i] = m[i] /\ m[i] # d.call
    BY <1>1, <1>2, <1>3, <1>8 DEF Holds
  <2>2. p = Len(m) + 1
    BY <1>1, <1>3, <1>5, <2>1
  <2>3. size = Len(r)
    BY <1>3, <1>4, <1>5, <2>1, <2>2
  <2>4. \A i \in 1 .. Len(r) : i \in 1 .. Len(m) \/ i = p
    BY <1>3, <2>1, <2>2
  <2>5. p \notin 1 .. Len(m)
    BY <1>3, <2>2
  <2>6. \A i \in 1 .. size :
          (IF i \in DOMAIN g THEN g[i] ELSE {}) \cup (IF i = p THEN {d.call} ELSE {}) = {r[i]}
    BY <1>4, <2>1, <2>2, <2>3, <2>4, <2>5
  <2> QED BY <1>6, <2>3, <2>6 DEF Singles, g
<1> QED BY <1>7, <1>8

LEMMA PathIsPrefix ==
  ASSUME NEW n \in Nat, NEW s \in [1 .. n -> Calls], NEW m, NEW it, BeginPath(it, Lists, m, n, s),
         NEW k \in 0 .. n
  PROVE  Prefix(it[k], it[n])
<1>1. it \in [0 .. n -> Lists] /\ \A j \in 1 .. n : it[j] = Wi!Begun(it[j - 1], s[j])
  BY DEF BeginPath
<1> DEFINE P == {j \in 0 .. n : j >= k => Prefix(it[k], it[j])}
<1>2. Prefix(it[k], it[k])
  <2>1. it[k] \in Lists
    BY <1>1
  <2> QED BY <2>1 DEF Prefix, Lists
<1>3. 0 \in P
  BY <1>2
<1>4. ASSUME NEW j \in 1 .. n, j - 1 \in P PROVE j \in P
  <2>1. j \in 0 .. n /\ j - 1 \in 0 .. n /\ (j > k => j - 1 >= k)
    OBVIOUS
  <2>2. it[j - 1] \in Lists /\ it[j] \in Lists /\ it[k] \in Lists /\ s[j] \in Calls
    BY <1>1, <2>1
  <2>3. Prefix(it[j - 1], it[j])
    BY <1>1, <2>2, BegunIs
  <2>4. CASE j > k
    <3>1. Prefix(it[k], it[j - 1])
      BY <1>4, <2>1, <2>4
    <3>2. Prefix(it[k], it[j])
      BY <2>2, <2>3, <3>1, BeginsOn
    <3> QED BY <2>1, <3>2
  <2>5. CASE j = k
    BY <1>2, <2>1, <2>5
  <2>6. CASE j < k
    BY <2>1, <2>6
  <2> QED BY <2>1, <2>4, <2>5, <2>6
<1>5. \A j \in 0 .. n : j \in P
  <2> HIDE DEF P
  <2> QED BY <1>3, <1>4, CountUp
<1>6. n \in 0 .. n /\ n >= k
  OBVIOUS
<1> QED BY <1>5, <1>6

LEMMA MergesAre ==
  ASSUME NEW m \in Lists, NEW n \in Nat, NEW s \in [1 .. n -> Calls],
         NEW it, BeginPath(it, Lists, m, n, s), \A k \in 0 .. n : After(m, it[k], s, k),
         NEW d \in [1 .. n -> Parts],
         \A k \in 1 .. n : d[k].call = s[k] /\ IsPlaced(d[k], it[n])
  PROVE  Merges(Singles(m), d) = Singles(it[n])
<1> DEFINE X == Seq(SUBSET Calls)
           g == Singles(m)
<1>1. it \in [0 .. n -> Lists] /\ it[0] = m /\ \A j \in 1 .. n : it[j] = Wi!Begun(it[j - 1], s[j])
  BY DEF BeginPath
<1>2. g \in X
  BY DEF Singles, Lists
<1>3. MergeKeeps(X, n, d)
  <2> SUFFICES ASSUME NEW k \in 1 .. n, NEW x \in X PROVE Wi!Merged(x, d[k]) \in X
    BY DEF MergeKeeps
  <2> DEFINE size == IF Len(x) > d[k].index THEN Len(x) ELSE d[k].index + 1
             h == [i \in 1 .. size |-> (IF i \in DOMAIN x THEN x[i] ELSE {})
                                     \cup (IF i = d[k].index + 1 THEN {d[k].call} ELSE {})]
  <2>1. d[k] \in Parts /\ d[k].call \in Calls /\ d[k].index \in Nat
    <3>1. d[k] \in Parts
      OBVIOUS
    <3> QED BY <3>1, ListIsShort DEF Parts, Wi!Indexes
  <2>2. size \in Nat
    BY <2>1
  <2>3. h = Wi!Merged(x, d[k])
    BY DEF Wi!Merged
  <2> HIDE DEF size
  <2>4. h \in [1 .. size -> SUBSET Calls]
    BY <2>1
  <2> HIDE DEF h
  <2>5. h \in X
    BY <2>2, <2>4
  <2> QED BY <2>3, <2>5
<1>4. PICK jt : MergePath(jt, X, g, n, d)
  <2>1. DOMAIN d = 1 .. n
    OBVIOUS
  <2> HIDE DEF X, g
  <2> QED BY <1>2, <1>3, <2>1, MergeSteps
<1>5. jt[0] = g /\ jt[n] = Merges(g, d) /\ \A k \in 1 .. n : jt[k] = Wi!Merged(jt[k - 1], d[k])
  BY <1>4 DEF MergePath
<1> DEFINE P == {k \in 0 .. n : jt[k] = Singles(it[k])}
<1>6. 0 \in P
  BY <1>1, <1>5
<1>7. ASSUME NEW k \in 1 .. n, k - 1 \in P PROVE k \in P
  <2>1. k - 1 \in 0 .. n /\ k \in 0 .. n /\ n \in 0 .. n
    OBVIOUS
  <2>2. it[k - 1] \in Lists /\ it[k] \in Lists /\ it[n] \in Lists /\ d[k] \in Parts
    BY <1>1, <2>1
  <2>3. it[k] = Wi!Begun(it[k - 1], d[k].call)
    BY <1>1
  <2>4. IsPlaced(d[k], it[k])
    <3> DEFINE w == it[k]
               z == it[n]
    <3>1. Prefix(w, z)
      BY <2>1, PathIsPrefix
    <3>2. Holds(w, d[k].call)
      <4>1. \A j \in 1 .. k : Holds(it[k], s[j])
        BY <2>1 DEF After
      <4>2. k \in 1 .. k
        OBVIOUS
      <4> QED BY <4>1, <4>2
    <3>3. IsPlaced(d[k], z)
      OBVIOUS
    <3> HIDE DEF w, z
    <3>4. w \in Lists /\ z \in Lists
      BY <2>2 DEF w, z
    <3>5. PICK i \in DOMAIN w : w[i] = d[k].call
      BY <3>2 DEF Holds
    <3>6. z[i] = d[k].call /\ i \in DOMAIN z
      <4>1. Len(w) \in Nat /\ Len(z) \in Nat /\ DOMAIN w = 1 .. Len(w) /\ DOMAIN z = 1 .. Len(z)
        BY <3>4 DEF Lists
      <4> QED BY <3>1, <3>5, <4>1 DEF Prefix
    <3>7. i = d[k].index + 1
      BY <3>3, <3>4, <3>6 DEF IsPlaced, Lists
    <3>8. IsPlaced(d[k], w)
      BY <3>5, <3>7 DEF IsPlaced
    <3> QED BY <3>8 DEF w
  <2>5. Wi!Merged(Singles(it[k - 1]), d[k]) = Singles(it[k])
    BY <2>2, <2>3, <2>4, MergedIs
  <2> QED BY <1>5, <1>7, <2>1, <2>5
<1>8. \A k \in 0 .. n : k \in P
  <2> HIDE DEF P
  <2> QED BY <1>6, <1>7, CountUp
<1>9. n \in P
  BY <1>8
<1> QED BY <1>5, <1>9

\* The calls r are those of one chunk.
AreAll(one, r, s, n) == one => Len(r) = n /\ \A k \in 1 .. n : r[k] = s[k]
ArePlaced(d, s, r, n, num) ==
  /\ d \in [1 .. n -> Parts]
  /\ \A k \in 1 .. n : d[k].call = s[k] /\ (num => IsPlaced(d[k], r))

\* The fragments of a chunk, in place among the calls begun.
LEMMA PartsAre ==
  ASSUME NEW n \in 0 .. 2, NEW s \in [1 .. n -> Calls], NEW r \in Lists,
         \A k \in 1 .. n : Holds(r, s[k]), NEW num \in BOOLEAN, upstream.indexes \in BOOLEAN,
         AreAll(num /\ ~ upstream.indexes, r, s, n), NEW d, d = Wi!Normalized(Wi!Deltas(s, r))
  PROVE  ArePlaced(d, s, r, n, num)
<1> DEFINE at == [k \in 1 .. n |-> CHOOSE i \in DOMAIN r : r[i] = s[k]]
           f == [k \in 1 .. n |-> [call |-> s[k], index |-> IF upstream.indexes THEN at[k] - 1 ELSE None]]
           w == [k \in 1 .. n |-> [call |-> s[k], index |-> IF upstream.indexes THEN at[k] - 1 ELSE k - 1]]
<1>1. /\ Len(r) \in Nat /\ DOMAIN r = 1 .. Len(r) /\ Len(r) <= Cardinality(Calls)
      /\ Cardinality(Calls) \in Nat
  BY ListIsShort
<1>2. ASSUME NEW k \in 1 .. n PROVE at[k] \in 1 .. Len(r) /\ r[at[k]] = s[k]
  BY <1>1 DEF Holds
<1>3. Wi!Deltas(s, r) = f
  BY DEF Wi!Deltas
<1> HIDE DEF at
<1>4. d = w
  <2>1. d = [k \in 1 .. n |-> IF f[k].index = None THEN [f[k] EXCEPT !.index = k - 1] ELSE f[k]]
    BY <1>3 DEF Wi!Normalized
  <2>2. ASSUME NEW k \in 1 .. n
        PROVE  (IF f[k].index = None THEN [f[k] EXCEPT !.index = k - 1] ELSE f[k]) = w[k]
    <3>1. CASE upstream.indexes
      <4>1. f[k] = [call |-> s[k], index |-> at[k] - 1] /\ w[k] = f[k]
        BY <3>1
      <4>2. at[k] - 1 \in Nat
        <5>1. at[k] \in 1 .. Len(r)
          BY <1>2
        <5> QED BY ONLY <1>1, <5>1
      <4> HIDE DEF f, w
      <4> QED BY <4>1, <4>2, NoneIsNoBlock
    <3>2. CASE ~ upstream.indexes
      <4>1. f[k] = [call |-> s[k], index |-> None] /\ w[k] = [call |-> s[k], index |-> k - 1]
        BY <3>2
      <4> HIDE DEF f, w
      <4> QED BY <4>1
    <3> QED BY <3>1, <3>2
  <2>3. w = [k \in 1 .. n |-> w[k]]
    OBVIOUS
  <2> HIDE DEF f, w
  <2> QED BY <2>1, <2>2, <2>3
<1>5. ASSUME NEW k \in 1 .. n
      PROVE  w[k] \in Parts /\ w[k].call = s[k] /\ (num => IsPlaced(w[k], r))
  <2> DEFINE q == IF upstream.indexes THEN at[k] - 1 ELSE k - 1
  <2>1. w[k] = [call |-> s[k], index |-> q]
    OBVIOUS
  <2>2. q \in Wi!Indexes
    <3> DEFINE z == Cardinality(Calls)
    <3>1. at[k] \in 1 .. Len(r) /\ Len(r) \in Nat /\ Len(r) <= z /\ z \in Nat
      BY <1>1, <1>2
    <3> HIDE DEF z
    <3>2. at[k] - 1 \in 0 .. 2 + z /\ k - 1 \in 0 .. 2 + z
      BY <3>1
    <3>3. q \in 0 .. 2 + z
      BY ONLY <3>2 DEF q
    <3> HIDE DEF q
    <3>4. Wi!Indexes = 0 .. 2 + z
      BY SameCardinality DEF Wi!Indexes, z
    <3> QED BY ONLY <3>3, <3>4
  <2>3. num => q + 1 \in DOMAIN r /\ s[k] = r[q + 1]
    <3>1. CASE upstream.indexes
      <4>1. q + 1 = at[k]
        BY <1>1, <1>2, <3>1
      <4> HIDE DEF q
      <4> QED BY <1>1, <1>2, <4>1
    <3>2. CASE ~ upstream.indexes
      <4>1. q + 1 = k
        BY <3>2
      <4> HIDE DEF q
      <4> QED BY <1>1, <3>2, <4>1 DEF AreAll
    <3> QED BY <3>1, <3>2
  <2> HIDE DEF q, w
  <2>4. w[k] \in Parts
    BY <2>1, <2>2 DEF Parts
  <2> QED BY <2>1, <2>3, <2>4 DEF IsPlaced
<1>6. w = [k \in 1 .. n |-> w[k]]
  OBVIOUS
<1> HIDE DEF w
<1> QED BY <1>4, <1>5, <1>6 DEF ArePlaced

LEMMA FragmentsAre ==
  ASSUME NEW s \in Wi!Fragments
  PROVE  \E n \in 0 .. 2 : s \in [1 .. n -> Calls] /\ \A i, j \in 1 .. n : s[i] = s[j] => i = j
<1>1. CASE s = <<>>
  <2>1. s \in [1 .. 0 -> Calls] /\ \A i, j \in 1 .. 0 : s[i] = s[j] => i = j
    BY <1>1
  <2> QED BY <2>1
<1>2. CASE \E c \in Calls : s = <<c>>
  <2>1. s \in [1 .. 1 -> Calls] /\ \A i, j \in 1 .. 1 : s[i] = s[j] => i = j
    BY <1>2
  <2> QED BY <2>1
<1>3. CASE s \in {p \in Calls \X Calls : p[1] # p[2]}
  <2>1. PICK b \in Calls, c \in Calls : s = <<b, c>> /\ b # c
    BY <1>3
  <2>2. s \in [1 .. 2 -> Calls] /\ s[1] # s[2]
    BY <2>1
  <2>3. \A i, j \in 1 .. 2 : i # j => (i = 1 /\ j = 2) \/ (i = 2 /\ j = 1)
    OBVIOUS
  <2> QED BY <2>2, <2>3
<1> QED BY <1>1, <1>2, <1>3 DEF Wi!Fragments

-----------------------------------------------------------------------------
(* The answer.                                                             *)

\* The fragments stay apart: the upstream numbers them, or has sent one chunk.
Numbered == upstream.indexes \/ upstream.chunks <= 1
Converted == client.protocol = "anthropic" /\ client.streams
Passed == client.protocol = "openai" /\ client.streams

ClientType == [protocol : Wi!Protocols \cup {None}, streams : BOOLEAN, left : BOOLEAN]
UpstreamType ==
  [indexes : BOOLEAN, made : Lists, chunks : Nat, finished : BOOLEAN, late : BOOLEAN]

\* A stream in the upstream's own format.
PassedOn(L, m, num) ==
  \A i \in DOMAIN L :
    /\ L[i].type \in {"chunk", "done", "error"}
    /\ num /\ L[i].call # None =>
         L[i].block \in Nat /\ L[i].block + 1 \in DOMAIN m /\ L[i].call = m[L[i].block + 1]

TypeInv ==
  /\ client \in ClientType /\ (client.streams => client.protocol \in Wi!Protocols)
  /\ upstream \in UpstreamType /\ (upstream.chunks = 0 => upstream.made = <<>>)
  /\ answer \in Seq(Frames)
EarlyInv ==
  stage \in {"idle", "asked", "sent"} =>
    /\ answer = <<>> /\ conv = Wi!NoConv /\ agg = Wi!NoAgg /\ upstream = Wi!NoUpstream
    /\ ~ client.left
ConvertedInv ==
  Converted =>
    /\ Once(answer) /\ (~ upstream.late => Shaped(answer) /\ (Numbered => Apart(answer)))
    /\ stage = "answer" /\ ~ client.left =>
         /\ conv \in ConvType
         /\ IF conv.stopped THEN conv.started /\ upstream.finished /\ answer # <<>>
            ELSE ~ upstream.finished /\ Sound(answer, conv, upstream.made, Numbered)
    /\ upstream.late => upstream.finished
PassedInv == Passed => PassedOn(answer, upstream.made, Numbered)
AggregatedInv ==
  /\ client.streams => agg.calls = <<>>
  /\ ~ client.streams => answer = <<>> /\ (Numbered => agg.calls = Singles(upstream.made))

AnswerInv == TypeInv /\ EarlyInv /\ ConvertedInv /\ PassedInv /\ AggregatedInv

LEMMA EmptyAnswer ==
  /\ <<>> \in Seq(Frames) /\ Shaped(<<>>) /\ Once(<<>>) /\ Apart(<<>>) /\ <<>> \in Lists
  /\ \A m, num : PassedOn(<<>>, m, num)
  /\ Singles(<<>>) = <<>>
<1>1. <<>> \in Seq(Frames) /\ <<>> \in Lists /\ DOMAIN <<>> = {} /\ Len(<<>>) = 0
  BY DEF Lists
<1>2. Shaped(<<>>)
  BY DEF Shaped, Typed, Single, Enclosed, Ended, InOrder
<1>3. Singles(<<>>) = <<>>
  BY DEF Singles
<1> QED BY <1>1, <1>2, <1>3, ShapedIsOnce DEF Apart, PassedOn

LEMMA NoConvIsSound ==
  /\ Wi!NoConv \in ConvType /\ ~ Wi!NoConv.stopped
  /\ \A m, num : Sound(<<>>, Wi!NoConv, m, num)
<1> DEFINE c == Wi!NoConv
<1>1. /\ c.started = FALSE /\ c.stopped = FALSE /\ c.next = 0 /\ c.active = <<>> /\ c.text = None
      /\ c.think = None /\ \A k \in Wi!Indexes : c.tool[k] = None
  BY DEF Wi!NoConv
<1>2. c \in ConvType
  <2>1. [i \in Wi!Indexes |-> None] \in [Wi!Indexes -> Nat \cup {None}] /\ <<>> \in Seq(Nat)
    OBVIOUS
  <2> QED BY <2>1 DEF Wi!NoConv, ConvType
<1> HIDE DEF c
<1>3. Live(<<>>, c)
  BY <1>1 DEF Live
<1>4. Bound(<<>>, c)
  BY <1>1 DEF Bound
<1>5. \A m : Named(<<>>, c, m)
  BY DEF Named
<1> QED BY <1>1, <1>2, <1>3, <1>4, <1>5, EmptyAnswer DEF Sound, c

LEMMA ErrorIsShaped ==
  ASSUME NEW L \in Seq(Frames), NEW e, e = Wi!Event("error", None, None, None)
  PROVE  /\ e \in Frames /\ Append(L, e) \in Seq(Frames)
         /\ Shaped(L) => Shaped(Append(L, e))
         /\ Once(L) => Once(Append(L, e))
         /\ Apart(L) => Apart(Append(L, e))
<1>1. e \in Frames
  BY EventIsFrame
<1>2. e.type = "error" /\ e.block = None /\ e.call = None
  BY EventIs
<1>3. Follows(L, e)
  BY <1>2 DEF Follows, InBlock
<1>4. Shaped(L) => Shaped(Append(L, e))
  BY <1>1, <1>3, ShapedAppend
<1>5. Apart(L) => Apart(Append(L, e))
  BY <1>2, ApartAppend
<1>6. Append(L, e) \in Seq(Frames)
  BY <1>1
<1>7. ASSUME Once(L) PROVE Once(Append(L, e))
  <2> DEFINE n == Len(L)
             M == Append(L, e)
  <2>1. /\ n \in Nat /\ DOMAIN L = 1 .. n /\ DOMAIN M = 1 .. n + 1 /\ M[n + 1] = e
        /\ \A i \in 1 .. n : M[i] = L[i]
    BY <1>1, AppendIs
  <2> HIDE DEF n, M
  <2>2. \A i \in 1 .. n + 1 : (i \in 1 .. n /\ M[i] = L[i]) \/ M[i].type = "error"
    BY <1>2, <2>1
  <2>3. ASSUME NEW i \in 1 .. n + 1, NEW j \in 1 .. n + 1
        PROVE  /\ i = 1 => M[i].type \in {"message_start", "error"}
               /\ M[i].type = "message_start" => i = 1
               /\ M[i].type \in {"message_start", "message_stop"} => M[i].block = None
               /\ M[i].type = "message_stop" /\ M[j].type = "message_stop" => i = j
    <3>1. CASE i \in 1 .. n /\ M[i] = L[i]
      <4>1. M[j].type = "message_stop" => j \in 1 .. n /\ M[j] = L[j]
        BY <2>2
      <4> QED BY <1>7, <2>1, <3>1, <4>1 DEF Once
    <3>2. CASE M[i].type = "error"
      BY <3>2
    <3> QED BY <2>2, <3>1, <3>2
  <2>4. Once(M)
    BY <2>1, <2>3 DEF Once
  <2> QED BY <2>4 DEF M
<1> QED BY <1>1, <1>4, <1>5, <1>6, <1>7

LEMMA PassedAppend ==
  ASSUME NEW L \in Seq(Frames), NEW m, NEW num, PassedOn(L, m, num),
         NEW e, e.type \in {"chunk", "done", "error"}, e.call = None
  PROVE  PassedOn(Append(L, e), m, num)
<1> DEFINE n == Len(L)
           M == Append(L, e)
<1>1. /\ n \in Nat /\ DOMAIN L = 1 .. n /\ DOMAIN M = 1 .. n + 1 /\ M[n + 1] = e
      /\ \A i \in 1 .. n : M[i] = L[i]
  BY AppendIs
<1> HIDE DEF n, M
<1>2. \A i \in 1 .. n + 1 : i \in 1 .. n \/ i = n + 1
  BY <1>1
<1>3. PassedOn(M, m, num)
  BY <1>1, <1>2 DEF PassedOn
<1> QED BY <1>3 DEF M

\* More calls, and a chunk that gives the calls no numbers, keep what holds.
LEMMA SoundWithMore ==
  ASSUME NEW L, NEW c, NEW m \in Lists, NEW r \in Lists, Prefix(m, r), NEW num, NEW n2, n2 => num,
         Sound(L, c, m, num)
  PROVE  Sound(L, c, r, n2)
<1>1. \A i \in DOMAIN m : i \in DOMAIN r /\ m[i] = r[i]
  BY DEF Prefix, Lists
<1>2. n2 => Named(L, c, r)
  BY <1>1 DEF Sound, Named
<1> QED BY <1>2 DEF Sound

LEMMA PassedWithMore ==
  ASSUME NEW L, NEW m \in Lists, NEW r \in Lists, Prefix(m, r), NEW num, NEW n2, n2 => num,
         PassedOn(L, m, num)
  PROVE  PassedOn(L, r, n2)
<1>1. \A i \in DOMAIN m : i \in DOMAIN r /\ m[i] = r[i]
  BY DEF Prefix, Lists
<1> QED BY <1>1 DEF PassedOn

LEMMA PassedConcat ==
  ASSUME NEW L \in Seq(Frames), NEW m, NEW num, PassedOn(L, m, num),
         NEW n \in Nat, NEW d \in [1 .. n -> Parts], num => \A k \in 1 .. n : IsPlaced(d[k], m),
         NEW K, K = [k \in 1 .. n |-> Wi!Event("chunk", d[k].index, "tool_use", d[k].call)]
  PROVE  L \o K \in Seq(Frames) /\ PassedOn(L \o K, m, num)
<1>1. ASSUME NEW k \in 1 .. n
      PROVE  /\ K[k] \in Frames /\ K[k].type = "chunk" /\ K[k].block = d[k].index
             /\ K[k].call = d[k].call /\ d[k].index \in Nat
  <2>1. d[k] \in Parts
    OBVIOUS
  <2>2. d[k].index \in Nat /\ d[k].call \in Calls
    BY <2>1 DEF Parts, Wi!Indexes
  <2>3. K[k] = Wi!Event("chunk", d[k].index, "tool_use", d[k].call)
    OBVIOUS
  <2>4. K[k] \in Frames
    BY <2>2, <2>3, EventIsFrame DEF Kinds
  <2> QED BY <2>2, <2>3, <2>4, EventIs
<1>2. K \in Seq(Frames) /\ Len(K) = n /\ DOMAIN K = 1 .. n
  BY <1>1
<1>3. L \o K \in Seq(Frames)
  BY <1>2
<1> DEFINE z == Len(L)
           M == L \o K
<1>4. /\ z \in Nat /\ DOMAIN L = 1 .. z /\ DOMAIN M = 1 .. z + n
      /\ \A i \in 1 .. z + n : M[i] = IF i <= z THEN L[i] ELSE K[i - z]
  BY <1>2
<1> HIDE DEF z, M
<1>5. \A i \in 1 .. z + n : (i \in 1 .. z /\ i <= z) \/ (i - z \in 1 .. n /\ ~ (i <= z))
  BY <1>4
<1>6. ASSUME NEW i \in 1 .. z + n
      PROVE  /\ M[i].type \in {"chunk", "done", "error"}
             /\ num /\ M[i].call # None =>
                  M[i].block \in Nat /\ M[i].block + 1 \in DOMAIN m /\ M[i].call = m[M[i].block + 1]
  <2>1. CASE i \in 1 .. z /\ i <= z
    BY <1>4, <2>1 DEF PassedOn
  <2>2. CASE i - z \in 1 .. n /\ ~ (i <= z)
    <3>1. M[i] = K[i - z]
      BY <1>4, <2>2
    <3> QED BY <1>1, <2>2, <3>1 DEF IsPlaced
  <2> QED BY <1>5, <2>1, <2>2
<1> QED BY <1>3, <1>4, <1>6 DEF PassedOn, M

LEMMA AnswerInit == Wi!Init => AnswerInv
<1> SUFFICES ASSUME Wi!Init PROVE AnswerInv
  OBVIOUS
<1>1. /\ client = Wi!NoClient /\ upstream = Wi!NoUpstream /\ answer = <<>> /\ conv = Wi!NoConv
      /\ agg = Wi!NoAgg /\ stage = "idle"
  BY DEF Wi!Init
<1>2. client.protocol = None /\ client.streams = FALSE /\ client.left = FALSE /\ client \in ClientType
  BY <1>1 DEF Wi!NoClient, ClientType
<1>3. upstream.made = <<>> /\ upstream \in UpstreamType /\ agg.calls = <<>>
  BY <1>1, EmptyAnswer DEF Wi!NoUpstream, UpstreamType, Wi!NoAgg
<1>4. TypeInv /\ EarlyInv
  BY <1>1, <1>2, <1>3, EmptyAnswer DEF TypeInv, EarlyInv
<1>5. ConvertedInv /\ PassedInv
  BY <1>2 DEF ConvertedInv, PassedInv, Converted, Passed
<1>6. AggregatedInv
  BY <1>1, <1>2, <1>3, EmptyAnswer DEF AggregatedInv
<1> QED BY <1>4, <1>5, <1>6 DEF AnswerInv

\* The request is made, while nothing is answered.
LEMMA AskKeepsAnswer ==
  ASSUME AnswerInv, Wi!AskOpenAI \/ Wi!AskAnthropic
  PROVE  AnswerInv'
<1>1. /\ stage = "idle" /\ stage' = "asked"
      /\ UNCHANGED <<upstream, answer, conv, agg>>
  BY DEF Wi!AskOpenAI, Wi!AskAnthropic
<1>2. /\ client' \in ClientType /\ client'.protocol \in Wi!Protocols /\ ~ client'.left
  <2>1. PICK p \in Wi!Protocols, b \in BOOLEAN :
          client' = [Wi!NoClient EXCEPT !.protocol = p, !.streams = b]
    BY DEF Wi!AskOpenAI, Wi!AskAnthropic, Wi!Protocols
  <2> QED BY <2>1 DEF Wi!NoClient, ClientType
<1>3. /\ answer = <<>> /\ conv = Wi!NoConv /\ agg = Wi!NoAgg /\ upstream = Wi!NoUpstream
  BY <1>1 DEF AnswerInv, EarlyInv
<1>4. agg.calls = <<>> /\ upstream.made = <<>> /\ ~ upstream.late
  BY <1>3 DEF Wi!NoAgg, Wi!NoUpstream
<1>5. TypeInv'
  BY <1>1, <1>2 DEF AnswerInv, TypeInv
<1>6. EarlyInv'
  BY <1>1, <1>2, <1>3 DEF EarlyInv
<1>7. ConvertedInv' /\ PassedInv'
  BY <1>1, <1>3, <1>4, EmptyAnswer DEF ConvertedInv, PassedInv
<1>8. AggregatedInv'
  BY <1>1, <1>3, <1>4, EmptyAnswer DEF AggregatedInv
<1> QED BY <1>5, <1>6, <1>7, <1>8 DEF AnswerInv

LEMMA ReadKeepsAnswer == ASSUME AnswerInv, Wi!ReadMessage PROVE AnswerInv'
<1>1. UNCHANGED <<stage, client, upstream, answer, conv, agg>>
  BY DEF Wi!ReadMessage
<1>2. TypeInv' /\ EarlyInv' /\ PassedInv' /\ AggregatedInv'
  BY <1>1 DEF AnswerInv, TypeInv, EarlyInv, PassedInv, Passed, AggregatedInv, Numbered
<1>3. ConvertedInv'
  BY <1>1 DEF AnswerInv, ConvertedInv, Converted, Numbered
<1> QED BY <1>2, <1>3 DEF AnswerInv

LEMMA SendKeepsAnswer == ASSUME AnswerInv, Wi!Send PROVE AnswerInv'
<1>1. /\ stage = "asked" /\ stage' = "sent"
      /\ UNCHANGED <<client, upstream, answer, conv, agg>>
  BY DEF Wi!Send
<1>2. TypeInv' /\ EarlyInv' /\ PassedInv' /\ AggregatedInv'
  BY <1>1 DEF AnswerInv, TypeInv, EarlyInv, PassedInv, Passed, AggregatedInv, Numbered
<1>3. ConvertedInv'
  BY <1>1 DEF AnswerInv, ConvertedInv, Converted, Numbered
<1> QED BY <1>2, <1>3 DEF AnswerInv

LEMMA AcceptedKeepsAnswer == ASSUME AnswerInv, Wi!Accepted PROVE AnswerInv'
<1>1. /\ stage = "sent" /\ stage' = "answer" /\ UNCHANGED <<client, answer, conv, agg>>
  BY DEF Wi!Accepted
<1>2. PICK b \in BOOLEAN : upstream' = [Wi!NoUpstream EXCEPT !.indexes = b]
  BY DEF Wi!Accepted
<1>3. /\ answer = <<>> /\ conv = Wi!NoConv /\ agg = Wi!NoAgg
  BY <1>1 DEF AnswerInv, EarlyInv
<1>4. /\ upstream' \in UpstreamType /\ upstream'.made = <<>> /\ agg.calls = <<>>
      /\ ~ upstream'.finished /\ ~ upstream'.late
  BY <1>2, <1>3, EmptyAnswer DEF Wi!NoUpstream, UpstreamType, Wi!NoAgg
<1>5. TypeInv' /\ EarlyInv'
  BY <1>1, <1>4 DEF AnswerInv, TypeInv, EarlyInv
<1>6. ConvertedInv'
  BY <1>1, <1>3, <1>4, NoConvIsSound, EmptyAnswer DEF ConvertedInv
<1>7. PassedInv' /\ AggregatedInv'
  BY <1>1, <1>3, <1>4, EmptyAnswer DEF PassedInv, AggregatedInv
<1> QED BY <1>5, <1>6, <1>7 DEF AnswerInv

LEMMA LeavesKeepsAnswer == ASSUME AnswerInv, Wi!Leaves PROVE AnswerInv'
<1>1. /\ stage = "answer" /\ client' = [client EXCEPT !.left = TRUE]
      /\ UNCHANGED <<stage, upstream, answer, conv, agg>>
  BY DEF Wi!Leaves
<1>2. /\ client' \in ClientType /\ client'.left /\ client'.protocol = client.protocol
      /\ client'.streams = client.streams
  BY <1>1 DEF AnswerInv, TypeInv, ClientType
<1>3. TypeInv' /\ EarlyInv' /\ PassedInv' /\ AggregatedInv'
  BY <1>1, <1>2 DEF AnswerInv, TypeInv, EarlyInv, PassedInv, Passed, AggregatedInv, Numbered
<1>4. ConvertedInv'
  BY <1>1, <1>2 DEF AnswerInv, ConvertedInv, Converted, Numbered
<1> QED BY <1>3, <1>4 DEF AnswerInv

LEMMA AbortedKeepsAnswer == ASSUME AnswerInv, Wi!Aborted PROVE AnswerInv'
<1>1. stage' = "end" /\ UNCHANGED <<client, upstream, answer, conv, agg>>
  BY DEF Wi!Aborted, Wi!Ends
<1>2. TypeInv' /\ EarlyInv' /\ PassedInv' /\ AggregatedInv'
  BY <1>1 DEF AnswerInv, TypeInv, EarlyInv, PassedInv, Passed, AggregatedInv, Numbered
<1>3. ConvertedInv'
  BY <1>1 DEF AnswerInv, ConvertedInv, Converted, Numbered
<1> QED BY <1>2, <1>3 DEF AnswerInv

\* What an answer of one more event, or none, has to keep at its end.
LEMMA EndKeepsAnswer ==
  ASSUME AnswerInv, stage' = "end", UNCHANGED <<client, upstream>>, agg' = agg,
         answer' \in Seq(Frames),
         Converted =>
           Once(answer') /\ (~ upstream.late => Shaped(answer') /\ (Numbered => Apart(answer'))),
         Passed => PassedOn(answer', upstream.made, Numbered),
         ~ client.streams => answer' = answer
  PROVE  AnswerInv'
<1>1. TypeInv' /\ EarlyInv'
  BY DEF AnswerInv, TypeInv, EarlyInv
<1>2. ConvertedInv' /\ PassedInv'
  BY DEF AnswerInv, ConvertedInv, PassedInv, Converted, Passed, Numbered
<1>3. AggregatedInv'
  BY DEF AnswerInv, AggregatedInv, Numbered
<1> QED BY <1>1, <1>2, <1>3 DEF AnswerInv

LEMMA BreaksKeepsAnswer == ASSUME AnswerInv, Wi!Breaks PROVE AnswerInv'
<1> DEFINE e == Wi!Event("error", None, None, None)
           L == answer
<1>1. stage' = "end" /\ UNCHANGED <<client, upstream>> /\ agg' = agg /\ stage \in {"sent", "answer"}
  BY DEF Wi!Breaks, Wi!Ends
<1>2. L \in Seq(Frames)
  BY DEF AnswerInv, TypeInv
<1>3. \/ answer' = L
      \/ client.streams /\ answer' = L \o <<e>>
  BY DEF Wi!Breaks, Wi!Written
<1>4. /\ e \in Frames /\ Append(L, e) \in Seq(Frames)
      /\ (Shaped(L) => Shaped(Append(L, e))) /\ (Once(L) => Once(Append(L, e)))
      /\ (Apart(L) => Apart(Append(L, e)))
  BY <1>2, ErrorIsShaped
<1>5. L \o <<e>> = Append(L, e)
  BY <1>2, <1>4
<1>6. PassedOn(L, upstream.made, Numbered) => PassedOn(Append(L, e), upstream.made, Numbered)
  <2>1. e.type = "error" /\ e.call = None
    BY EventIs
  <2> HIDE DEF e
  <2> QED BY <1>2, <2>1, PassedAppend
<1> HIDE DEF e
<1>7. answer' \in Seq(Frames) /\ (~ client.streams => answer' = answer)
  BY <1>2, <1>3, <1>4, <1>5
<1>8. Converted =>
        Once(answer') /\ (~ upstream.late => Shaped(answer') /\ (Numbered => Apart(answer')))
  BY <1>3, <1>4, <1>5 DEF AnswerInv, ConvertedInv
<1>9. Passed => PassedOn(answer', upstream.made, Numbered)
  BY <1>3, <1>5, <1>6 DEF AnswerInv, PassedInv
<1> QED BY <1>1, <1>7, <1>8, <1>9, EndKeepsAnswer

LEMMA DoneKeepsAnswer == ASSUME AnswerInv, Wi!Done PROVE AnswerInv'
<1> DEFINE e == Wi!Event("done", None, None, None)
           L == answer
           y == Wi!ConsumedDone(conv)
<1>1. stage' = "end" /\ UNCHANGED <<client, upstream>> /\ agg' = agg /\ stage = "answer"
  BY DEF Wi!Done, Wi!Ends
<1>2. /\ L \in Seq(Frames)
      /\ client.streams => client.protocol \in {"openai", "anthropic"}
  BY DEF AnswerInv, TypeInv, Wi!Protocols
<1>3. CASE ~ client.streams \/ client.left
  <2>1. answer' = answer
    BY <1>3 DEF Wi!Done, Wi!Written
  <2> QED BY <1>1, <1>2, <2>1, EndKeepsAnswer DEF AnswerInv, ConvertedInv, PassedInv
<1>4. CASE client.streams /\ ~ client.left /\ client.protocol = "openai"
  <2>1. answer' = L \o <<e>>
    BY <1>4 DEF Wi!Done, Wi!Written
  <2>2. e \in Frames
    BY EventIsFrame
  <2>3. e.type = "done" /\ e.call = None
    BY EventIs
  <2> HIDE DEF e
  <2>4. answer' = Append(L, e) /\ answer' \in Seq(Frames)
    BY <1>2, <2>1, <2>2
  <2>5. PassedOn(answer', upstream.made, Numbered)
    BY <1>2, <1>4, <2>3, <2>4, PassedAppend DEF AnswerInv, PassedInv, Passed
  <2>6. ~ Converted
    BY <1>4 DEF Converted
  <2> QED BY <1>1, <1>4, <2>4, <2>5, <2>6, EndKeepsAnswer
<1>5. CASE client.streams /\ ~ client.left /\ client.protocol = "anthropic"
  <2>1. answer' = L \o y.out
    BY <1>5 DEF Wi!Done, Wi!Written
  <2>2. Converted /\ ~ Passed
    BY <1>5 DEF Converted, Passed
  <2>3. /\ conv \in ConvType
        /\ IF conv.stopped THEN conv.started
           ELSE ~ upstream.late /\ Sound(L, conv, upstream.made, Numbered)
    BY <1>1, <1>5, <2>2 DEF AnswerInv, ConvertedInv
  <2>4. Numbered \in BOOLEAN
    BY DEF AnswerInv, TypeInv, UpstreamType, Numbered
  <2> HIDE DEF L
  <2>5. CASE conv.stopped
    <3>1. y.out = <<>>
      BY <2>3, <2>5, DoneIsOver
    <3> HIDE DEF y
    <3>2. answer' = answer
      BY <1>2, <2>1, <3>1 DEF L
    <3> QED BY <1>1, <1>2, <2>2, <3>2, EndKeepsAnswer DEF AnswerInv, ConvertedInv, L
  <2>6. CASE ~ conv.stopped
    <3>1. Final(L, y, Numbered)
      BY <1>2, <2>3, <2>4, <2>6, ConsumedDoneIs
    <3> HIDE DEF y
    <3>2. answer' \in Seq(Frames) /\ Shaped(answer') /\ (Numbered => Apart(answer'))
      BY <2>1, <3>1 DEF Final
    <3>3. Once(answer')
      BY <3>2, ShapedIsOnce
    <3> QED BY <1>1, <1>5, <2>2, <3>2, <3>3, EndKeepsAnswer
  <2> QED BY <2>5, <2>6
<1> QED BY <1>2, <1>3, <1>4, <1>5

\* What a chunk with the calls s does, in the terms of the lemmas above.
ChunkOf(think, text, finish, d) == [think |-> think, text |-> text, finish |-> finish, calls |-> d]

Received(made, finish, content) ==
  [upstream EXCEPT !.made = made, !.chunks = @ + 1, !.finished = @ \/ finish # None,
                   !.late = @ \/ (upstream.finished /\ content)]

Chunked(think, text, finish, s, made, d) ==
  LET chunk == ChunkOf(think, text, finish, d)
      y == Wi!Consumed(conv, chunk)
  IN /\ think \in BOOLEAN /\ text \in BOOLEAN /\ finish \in Wi!Finishes \cup {None} /\ s \in Wi!Fragments
     /\ made = Begins(upstream.made, s) /\ d = Wi!Normalized(Wi!Deltas(s, made))
     /\ upstream' = Received(made, finish, think \/ text \/ s # <<>>)
     /\ ~ client.streams => agg' = Wi!Processed(chunk) /\ UNCHANGED <<answer, conv>>
     /\ client.streams => agg' = agg
     /\ Passed => answer' = IF client.left THEN answer ELSE answer \o
          [k \in DOMAIN d |-> Wi!Event("chunk", d[k].index, "tool_use", d[k].call)]
     /\ Converted => answer' = (IF client.left THEN answer ELSE answer \o y.out) /\ conv' = y.c

LEMMA ChunkIs ==
  ASSUME AnswerInv, Wi!Chunk
  PROVE  \E think, text, finish, s, made, d : Chunked(think, text, finish, s, made, d)
<1>1. client.streams => Passed \/ (Converted /\ client.protocol # "openai")
  BY DEF AnswerInv, TypeInv, Passed, Converted, Wi!Protocols
<1>2. PICK think \in BOOLEAN, text \in BOOLEAN, finish \in Wi!Finishes \cup {None}, s \in Wi!Fragments :
        Wi!Receives(think, text, finish, s)
  BY DEF Wi!Chunk
<1> DEFINE made == Begins(upstream.made, s)
           d == Wi!Normalized(Wi!Deltas(s, made))
           chunk == ChunkOf(think, text, finish, d)
<1>3. chunk.calls = d
  BY DEF ChunkOf
<1>4. client.protocol = "openai" => ~ Converted
  BY DEF Converted
<1> HIDE DEF made, d, chunk
<1>5. upstream' = Received(made, finish, think \/ text \/ s # <<>>)
  BY <1>2 DEF Wi!Receives, Begins, Received, made
<1>6. ~ client.streams => agg' = Wi!Processed(chunk) /\ UNCHANGED <<answer, conv>>
  BY <1>2 DEF Wi!Receives, Begins, ChunkOf, chunk, d, made
<1>7. client.streams => agg' = agg
  BY <1>2 DEF Wi!Receives, Begins, ChunkOf, chunk, d, made
<1>8. Passed => Wi!Written([i \in DOMAIN chunk.calls |->
                  Wi!Event("chunk", chunk.calls[i].index, "tool_use", chunk.calls[i].call)])
  BY <1>2 DEF Wi!Receives, Begins, ChunkOf, chunk, d, made, Passed
<1>9. Converted => Wi!Written(Wi!Consumed(conv, chunk).out) /\ conv' = Wi!Consumed(conv, chunk).c
  BY <1>2, <1>4 DEF Wi!Receives, Begins, ChunkOf, chunk, d, made, Converted
<1>10. Passed => answer' = IF client.left THEN answer ELSE answer \o
          [k \in DOMAIN d |-> Wi!Event("chunk", d[k].index, "tool_use", d[k].call)]
  BY <1>3, <1>8 DEF Wi!Written
<1>11. Converted => answer' = IF client.left THEN answer ELSE answer \o Wi!Consumed(conv, chunk).out
  BY <1>9 DEF Wi!Written
<1>12. made = Begins(upstream.made, s) /\ d = Wi!Normalized(Wi!Deltas(s, made))
  BY DEF made, d
<1>13. Chunked(think, text, finish, s, made, d)
  BY <1>5, <1>6, <1>7, <1>9, <1>10, <1>11, <1>12 DEF Chunked, chunk
<1> QED BY <1>13

\* What the chunk's calls are, and what its fragments say.
LEMMA ChunkCalls ==
  ASSUME AnswerInv, NEW think, NEW text, NEW finish, NEW s, NEW made, NEW d,
         Chunked(think, text, finish, s, made, d), NEW num \in BOOLEAN, num = Numbered'
  PROVE  \E n \in 0 .. 2 :
           /\ made \in Lists /\ Prefix(upstream.made, made) /\ d \in [1 .. n -> Parts]
           /\ num => \A k \in 1 .. n : IsPlaced(d[k], made)
           /\ num => Merges(Singles(upstream.made), d) = Singles(made)
<1> DEFINE m == upstream.made
<1>1. /\ upstream \in UpstreamType /\ m \in Lists /\ upstream.chunks \in Nat
      /\ upstream.indexes \in BOOLEAN /\ (upstream.chunks = 0 => m = <<>>)
  BY DEF AnswerInv, TypeInv, UpstreamType
<1>2. /\ s \in Wi!Fragments /\ made = Begins(m, s) /\ d = Wi!Normalized(Wi!Deltas(s, made))
      /\ upstream' = Received(made, finish, think \/ text \/ s # <<>>)
  BY DEF Chunked
<1>3. PICK n \in 0 .. 2 : s \in [1 .. n -> Calls] /\ \A i, j \in 1 .. n : s[i] = s[j] => i = j
  BY <1>2, FragmentsAre
<1>4. num /\ ~ upstream.indexes => m = <<>>
  <2>1. upstream'.indexes = upstream.indexes /\ upstream'.chunks = upstream.chunks + 1
    BY <1>1, <1>2 DEF UpstreamType, Received
  <2> QED BY <1>1, <2>1 DEF Numbered
<1> HIDE DEF m
<1>5. n \in Nat
  BY <1>3
<1>6. PICK it : BeginPath(it, Lists, m, n, s) /\ \A k \in 0 .. n : After(m, it[k], s, k)
  BY <1>1, <1>3, <1>5, BeginsAre
<1>7. it[n] = made /\ n \in 0 .. n
  BY <1>2, <1>5, <1>6 DEF BeginPath
<1>8. After(m, made, s, n)
  BY <1>6, <1>7
<1>9. made \in Lists /\ Prefix(m, made) /\ \A k \in 1 .. n : Holds(made, s[k])
  BY <1>8 DEF After
<1>10. num /\ ~ upstream.indexes => Len(made) = n /\ \A k \in 1 .. n : made[k] = s[k]
  BY <1>4, <1>8 DEF After
<1>11. d \in [1 .. n -> Parts] /\ \A k \in 1 .. n : d[k].call = s[k] /\ (num => IsPlaced(d[k], made))
  <2>1. d = Wi!Normalized(Wi!Deltas(s, made))
    BY <1>2
  <2>2. upstream.indexes \in BOOLEAN
    BY <1>1
  <2>3. made \in Lists /\ \A k \in 1 .. n : Holds(made, s[k])
    BY <1>9
  <2>4. s \in [1 .. n -> Calls]
    BY <1>3
  <2>5. AreAll(num /\ ~ upstream.indexes, made, s, n)
    BY <1>10 DEF AreAll
  <2>6. ArePlaced(d, s, made, n, num)
    BY <2>1, <2>2, <2>3, <2>4, <2>5, PartsAre
  <2> QED BY <2>6 DEF ArePlaced
<1>12. num => Merges(Singles(m), d) = Singles(made)
  <2>1. ASSUME num PROVE Merges(Singles(m), d) = Singles(it[n])
    <3>1. \A k \in 1 .. n : d[k].call = s[k] /\ IsPlaced(d[k], it[n])
      BY <1>7, <1>11, <2>1
    <3>2. BeginPath(it, Lists, m, n, s)
      BY <1>6
    <3>3. \A k \in 0 .. n : After(m, it[k], s, k)
      BY <1>6
    <3> QED BY <1>1, <1>3, <1>5, <1>11, <3>1, <3>2, <3>3, MergesAre
  <2> QED BY <1>7, <2>1
<1> QED BY <1>9, <1>11, <1>12 DEF m

LEMMA ChunkKeepsAnswer == ASSUME AnswerInv, Wi!Chunk PROVE AnswerInv'
<1>1. PICK think, text, finish, s, made, d : Chunked(think, text, finish, s, made, d)
  BY ChunkIs
<1> DEFINE num == Numbered'
           m == upstream.made
           chunk == ChunkOf(think, text, finish, d)
           y == Wi!Consumed(conv, chunk)
           ends == finish # None
           content == think \/ text \/ s # <<>>
<1>2. stage = "answer" /\ stage' = "answer" /\ client' = client
  BY DEF Wi!Chunk
<1>3. /\ upstream \in UpstreamType /\ m \in Lists /\ upstream.chunks \in Nat
      /\ client \in ClientType /\ (client.streams => client.protocol \in Wi!Protocols)
      /\ answer \in Seq(Frames)
  BY DEF AnswerInv, TypeInv, UpstreamType
<1>4. /\ upstream' = Received(made, finish, content) /\ think \in BOOLEAN /\ text \in BOOLEAN
      /\ d = Wi!Normalized(Wi!Deltas(s, made))
  BY <1>1 DEF Chunked
<1>5. ends \in BOOLEAN /\ num \in BOOLEAN
  <2>1. upstream'.indexes = upstream.indexes /\ upstream.indexes \in BOOLEAN
    BY <1>3, <1>4 DEF UpstreamType, Received
  <2> QED BY <2>1 DEF Numbered
<1>6. PICK n \in 0 .. 2 :
        /\ made \in Lists /\ Prefix(m, made) /\ d \in [1 .. n -> Parts]
        /\ num => \A k \in 1 .. n : IsPlaced(d[k], made)
        /\ num => Merges(Singles(m), d) = Singles(made)
  <2> HIDE DEF num
  <2>1. num = Numbered'
    BY DEF num
  <2> QED BY <1>1, <1>5, <2>1, ChunkCalls
<1>7. /\ upstream' \in UpstreamType /\ upstream'.made = made /\ upstream'.chunks = upstream.chunks + 1
      /\ upstream'.indexes = upstream.indexes /\ upstream'.finished = (upstream.finished \/ ends)
      /\ upstream'.late = (upstream.late \/ (upstream.finished /\ content))
  <2>1. made \in Lists /\ content \in BOOLEAN
    BY <1>4, <1>6
  <2>2. upstream.chunks + 1 \in Nat /\ ends \in BOOLEAN
    BY <1>3, <1>5
  <2> HIDE DEF content
  <2>3. upstream' = [upstream EXCEPT !.made = made, !.chunks = @ + 1, !.finished = @ \/ ends,
                                     !.late = @ \/ (upstream.finished /\ content)]
    BY <1>4 DEF Received
  <2> HIDE DEF ends
  <2>4. upstream' \in UpstreamType
    BY <1>3, <2>1, <2>2, <2>3 DEF UpstreamType
  <2> QED BY <1>3, <2>3, <2>4 DEF UpstreamType
<1> HIDE DEF ends
<1>8. num => Numbered
  BY <1>3, <1>7 DEF Numbered
<1>12. d # <<>> => s # <<>>
  BY <1>4 DEF Wi!Normalized, Wi!Deltas
<1> HIDE DEF num, m, chunk, y, content
<1>9. n \in Nat /\ DOMAIN d = 1 .. n /\ chunk.calls = d /\ chunk.finish = finish
  BY <1>6 DEF chunk, ChunkOf
<1>10. CASE ~ client.streams
  <2>1. agg' = Wi!Processed(chunk) /\ UNCHANGED <<answer, conv>> /\ ~ Converted /\ ~ Passed /\ answer = <<>>
    BY <1>1, <1>10 DEF Chunked, chunk, Converted, Passed, AnswerInv, AggregatedInv
  <2>2. num => agg'.calls = Singles(made)
    <3>1. agg'.calls = Merges(agg.calls, d)
      BY <1>9, <2>1 DEF Wi!Processed, Merges
    <3>2. num => agg.calls = Singles(m)
      BY <1>8, <1>10 DEF AnswerInv, AggregatedInv, m
    <3> QED BY <1>6, <3>1, <3>2
  <2>3. TypeInv' /\ EarlyInv'
    BY <1>2, <1>3, <1>7, <2>1 DEF TypeInv, EarlyInv
  <2>4. ConvertedInv' /\ PassedInv' /\ AggregatedInv'
    BY <1>2, <1>7, <1>10, <2>1, <2>2 DEF ConvertedInv, PassedInv, AggregatedInv, Converted, Passed, num
  <2> QED BY <2>3, <2>4 DEF AnswerInv
<1>11. CASE client.streams
  <2>1. agg' = agg /\ agg.calls = <<>>
    BY <1>1, <1>11 DEF Chunked, AnswerInv, AggregatedInv
  <2>2. AggregatedInv' /\ EarlyInv'
    BY <1>2, <1>11, <2>1 DEF AggregatedInv, EarlyInv
  <2>3. client.protocol = "openai" \/ client.protocol = "anthropic"
    BY <1>3, <1>11 DEF Wi!Protocols
  <2>4. CASE client.protocol = "openai"
    <3>1. Passed /\ Passed' /\ ~ Converted'
      BY <1>2, <1>11, <2>4 DEF Passed, Converted
    <3>2. PassedOn(answer, made, num)
      <4>1. PassedOn(answer, m, Numbered)
        BY <3>1 DEF AnswerInv, PassedInv, m
      <4>2. m \in Lists
        BY <1>3 DEF m
      <4> QED BY <1>6, <1>8, <4>1, <4>2, PassedWithMore
    <3> DEFINE K == [k \in 1 .. n |-> Wi!Event("chunk", d[k].index, "tool_use", d[k].call)]
    <3>3. answer \o K \in Seq(Frames) /\ PassedOn(answer \o K, made, num)
      <4>1. K = [k \in 1 .. n |-> Wi!Event("chunk", d[k].index, "tool_use", d[k].call)]
        OBVIOUS
      <4> HIDE DEF K
      <4> QED BY <1>3, <1>6, <1>9, <3>2, <4>1, PassedConcat
    <3>4. answer' = IF client.left THEN answer ELSE answer \o K
      BY <1>1, <1>9, <3>1 DEF Chunked
    <3> HIDE DEF K
    <3>5. answer' \in Seq(Frames) /\ PassedOn(answer', made, num)
      BY <1>3, <3>2, <3>3, <3>4
    <3>6. TypeInv'
      BY <1>2, <1>3, <1>7, <3>5 DEF TypeInv
    <3>7. ConvertedInv' /\ PassedInv'
      BY <1>7, <3>1, <3>5 DEF ConvertedInv, PassedInv, num
    <3> QED BY <2>2, <3>6, <3>7 DEF AnswerInv
  <2>5. CASE client.protocol = "anthropic"
    <3>1. Converted /\ Converted' /\ ~ Passed'
      BY <1>2, <1>11, <2>5 DEF Passed, Converted
    <3>2. answer' = (IF client.left THEN answer ELSE answer \o y.out) /\ conv' = y.c
      BY <1>1, <3>1 DEF Chunked, y, chunk
    <3>3. /\ Once(answer) /\ (~ upstream.late => Shaped(answer) /\ (Numbered => Apart(answer)))
          /\ upstream.late => upstream.finished
      BY <3>1 DEF AnswerInv, ConvertedInv
    <3>4. upstream'.late => upstream.finished /\ upstream'.finished
      BY <1>7, <3>3
    <3>5. CASE client.left
      <4>1. answer' = answer /\ client'.left
        BY <1>2, <3>2, <3>5
      <4>2. TypeInv'
        BY <1>2, <1>3, <1>7, <4>1 DEF TypeInv
      <4>3. ConvertedInv' /\ PassedInv'
        BY <1>7, <1>8, <3>1, <3>3, <3>4, <4>1 DEF ConvertedInv, PassedInv, num
      <4> QED BY <2>2, <4>2, <4>3 DEF AnswerInv
    <3>6. CASE ~ client.left /\ ~ conv.stopped
      <4>1. conv \in ConvType /\ ~ upstream.finished /\ Sound(answer, conv, m, Numbered)
        BY <1>2, <3>1, <3>6 DEF AnswerInv, ConvertedInv, m
      <4>2. Sound(answer, conv, made, num)
        <5>1. m \in Lists
          BY <1>3 DEF m
        <5> QED BY <1>6, <1>8, <4>1, <5>1, SoundWithMore
      <4>3. IF finish = None THEN Good(answer, y, made, num) ELSE Final(answer, y, num) /\ y.out # <<>>
        <5>1. y = Wi!Consumed(conv, chunk)
          BY DEF y
        <5>2. chunk.calls \in [1 .. n -> Parts] /\ (num => \A k \in 1 .. n : IsPlaced(chunk.calls[k], made))
          BY <1>6, <1>9
        <5>3. IF chunk.finish = None THEN Good(answer, y, made, num)
              ELSE Final(answer, y, num) /\ y.out # <<>>
          BY <1>3, <1>5, <1>9, <3>6, <4>2, <5>1, <5>2, <4>1, ConsumedIs
        <5> QED BY <1>9, <5>3
      <4>4. answer' = answer \o y.out /\ ~ upstream'.late
        BY <3>2, <3>4, <3>6, <4>1
      <4>5. CASE finish = None
        <5>1. Good(answer, y, made, num) /\ ~ upstream'.finished
          BY <1>7, <4>1, <4>3, <4>5 DEF ends
        <5>2. /\ Sound(answer', conv', made, num) /\ conv' \in ConvType /\ ~ conv'.stopped
          BY <3>2, <4>4, <5>1 DEF Good, States
        <5>3. answer' \in Seq(Frames) /\ Shaped(answer') /\ Once(answer')
          BY <5>2, ShapedIsOnce DEF Sound
        <5>4. num => Apart(answer')
          BY <1>5, <5>2, SoundIsApart
        <5>5. TypeInv'
          BY <1>2, <1>3, <1>7, <5>3 DEF TypeInv
        <5>6. ConvertedInv' /\ PassedInv'
          BY <1>7, <3>1, <4>4, <5>1, <5>2, <5>3, <5>4 DEF ConvertedInv, PassedInv, num
        <5> QED BY <2>2, <5>5, <5>6 DEF AnswerInv
      <4>6. CASE finish # None
        <5>1. Final(answer, y, num) /\ y.out # <<>> /\ upstream'.finished
          BY <1>7, <4>3, <4>6 DEF ends
        <5>2. /\ conv' \in ConvType /\ conv'.stopped /\ conv'.started
              /\ answer' \in Seq(Frames) /\ Shaped(answer') /\ (num => Apart(answer'))
              /\ y.out \in Seq(Frames)
          BY <3>2, <4>4, <5>1 DEF Final, States
        <5>3. answer' # <<>>
          BY <1>3, <4>4, <5>1, <5>2
        <5>4. Once(answer')
          BY <5>2, ShapedIsOnce
        <5>5. TypeInv'
          BY <1>2, <1>3, <1>7, <5>2 DEF TypeInv
        <5>6. ConvertedInv' /\ PassedInv'
          BY <3>1, <4>4, <5>1, <5>2, <5>3, <5>4 DEF ConvertedInv, PassedInv, num
        <5> QED BY <2>2, <5>5, <5>6 DEF AnswerInv
      <4> QED BY <4>5, <4>6
    <3>7. CASE ~ client.left /\ conv.stopped
      <4>1. conv \in ConvType /\ conv.started /\ upstream.finished /\ answer # <<>>
        BY <1>2, <3>1, <3>7 DEF AnswerInv, ConvertedInv
      <4>2. y = Wi!Consumed(conv, chunk) /\ chunk.calls \in [1 .. n -> Parts]
        BY <1>6, <1>9 DEF y
      <4>3. y \in Past
        BY <1>9, <3>7, <4>1, <4>2, LateIsOver
      <4>4. answer' = answer \o y.out /\ upstream'.finished
        BY <1>7, <3>2, <3>7, <4>1
      <4>5. answer' \in Seq(Frames) /\ answer' # <<>> /\ Once(answer')
        BY <1>3, <3>3, <4>1, <4>3, <4>4, OnceMore
      <4>6. conv' \in ConvType /\ conv'.started /\ conv'.stopped
        BY <3>2, <4>3 DEF Past, States
      <4>7. ~ upstream'.late => Shaped(answer') /\ (num => Apart(answer'))
        <5> SUFFICES ASSUME ~ upstream'.late PROVE Shaped(answer') /\ (num => Apart(answer'))
          OBVIOUS
        <5>1. ~ upstream.late /\ ~ think /\ ~ text /\ s = <<>>
          BY <1>7, <4>1 DEF content
        <5>2. d = <<>> /\ chunk.calls \in [1 .. 0 -> Parts] /\ ~ chunk.think /\ ~ chunk.text
          <6>1. chunk.think = think /\ chunk.text = text
            BY DEF chunk, ChunkOf
          <6>2. d = <<>>
            BY <1>12, <5>1
          <6>3. <<>> \in [1 .. 0 -> Parts]
            OBVIOUS
          <6> QED BY <1>9, <5>1, <6>1, <6>2, <6>3
        <5>3. y.out = <<>>
          BY <3>7, <4>1, <4>2, <5>2, EmptyIsOver
        <5>4. answer' = answer
          BY <1>3, <4>4, <5>3
        <5> QED BY <1>8, <3>3, <5>1, <5>4
      <4>8. TypeInv'
        BY <1>2, <1>3, <1>7, <4>5 DEF TypeInv
      <4>9. ConvertedInv' /\ PassedInv'
        BY <3>1, <4>4, <4>5, <4>6, <4>7 DEF ConvertedInv, PassedInv, num
      <4> QED BY <2>2, <4>8, <4>9 DEF AnswerInv
    <3> QED BY <3>5, <3>6, <3>7
  <2> QED BY <2>3, <2>4, <2>5
<1> QED
  <2>1. client.streams \in BOOLEAN
    BY <1>3 DEF ClientType
  <2> QED BY <1>10, <1>11, <2>1

LEMMA AnswerNext == AnswerInv /\ [Wi!Next]_(Wi!vars) => AnswerInv'
<1> SUFFICES ASSUME AnswerInv, [Wi!Next]_(Wi!vars) PROVE AnswerInv'
  OBVIOUS
<1>1. CASE UNCHANGED Wi!vars
  <2>1. UNCHANGED <<stage, client, upstream, answer, conv, agg>>
    BY <1>1 DEF Wi!vars
  <2>2. TypeInv' /\ EarlyInv' /\ PassedInv' /\ AggregatedInv'
    BY <2>1 DEF AnswerInv, TypeInv, EarlyInv, PassedInv, Passed, AggregatedInv, Numbered
  <2>3. ConvertedInv'
    BY <2>1 DEF AnswerInv, ConvertedInv, Converted, Numbered
  <2> QED BY <2>2, <2>3 DEF AnswerInv
<1>2. CASE Wi!Next
  BY <1>2, AskKeepsAnswer, ReadKeepsAnswer, SendKeepsAnswer, AcceptedKeepsAnswer, ChunkKeepsAnswer, DoneKeepsAnswer,
     BreaksKeepsAnswer, LeavesKeepsAnswer, AbortedKeepsAnswer DEF Wi!Next
<1> QED BY <1>1, <1>2

-----------------------------------------------------------------------------
(* What the client sees.                                                   *)

At(L, type, b) == {i \in DOMAIN L : L[i].type = type /\ L[i].block = b}

LEMMA AtMostOne ==
  ASSUME NEW S, \A i, j \in S : i = j
  PROVE  Wi!Cardinality(S) <= 1
<1>1. Wi!Cardinality(S) = Cardinality(S)
  BY SameCardinality
<1>2. CASE S = {}
  BY <1>1, <1>2, FS_EmptySet
<1>3. CASE S # {}
  <2>1. PICK x \in S : TRUE
    BY <1>3
  <2>2. S = {x}
    BY <2>1
  <2>3. Cardinality({x}) = 1
    BY FS_Singleton
  <2> QED BY <1>1, <2>2, <2>3
<1> QED BY <1>2, <1>3

\* A block of a well-formed stream.
IsBlock(L, b, open) ==
  /\ At(L, "block_start", b) = {open} /\ Wi!Cardinality(At(L, "block_stop", b)) <= 1
  /\ \A i \in At(L, "block_delta", b) :
       /\ open < i /\ L[i].kind = L[open].kind
       /\ \A j \in At(L, "block_stop", b) : i < j
  /\ \A i \in At(L, "message_stop", None) : At(L, "block_stop", b) # {} /\ open < i
  /\ b > 0 => \E i \in 1 .. open : L[i].block = b - 1

LEMMA BlockOfShape ==
  ASSUME NEW L \in Seq(Frames), Shaped(L), NEW b \in Nat, NEW q \in DOMAIN L, L[q].block = b
  PROVE  \E open \in DOMAIN L : IsBlock(L, b, open)
<1> DEFINE n == Len(L)
<1>1. n \in Nat /\ DOMAIN L = 1 .. n
  OBVIOUS
<1> HIDE DEF n
<1>2. PICK open \in 1 .. n : Opens(L, open, b)
  <2>1. L[q].type \in InBlock
    BY NoneIsNoBlock DEF Shaped, Typed
  <2>2. CASE L[q].type = "block_start"
    BY <1>1, <2>2 DEF Opens
  <2>3. CASE L[q].type \in {"block_delta", "block_stop"}
    <3>1. PICK o \in 1 .. q - 1 : Opens(L, o, b)
      BY <2>3 DEF Shaped, Enclosed
    <3> QED BY <1>1, <3>1
  <2> QED BY <2>1, <2>2, <2>3 DEF InBlock
<1>3. L[open].type = "block_start" /\ L[open].block = b
  BY <1>2 DEF Opens
<1>4. At(L, "block_start", b) = {open}
  <2>1. \A i \in At(L, "block_start", b) : i \in DOMAIN L /\ Opens(L, i, b)
    BY DEF At, Opens
  <2>2. \A i \in At(L, "block_start", b) : i = open
    BY <1>1, <1>2, <2>1 DEF Shaped, Single
  <2>3. open \in At(L, "block_start", b)
    BY <1>1, <1>3 DEF At
  <2> QED BY <2>2, <2>3
<1>5. Wi!Cardinality(At(L, "block_stop", b)) <= 1
  <2>1. \A i \in At(L, "block_stop", b) : i \in DOMAIN L /\ Shuts(L, i, b)
    BY DEF At, Shuts
  <2>2. \A i, j \in At(L, "block_stop", b) : i = j
    BY <2>1 DEF Shaped, Single
  <2> QED BY <2>2, AtMostOne
<1>6. ASSUME NEW i \in At(L, "block_delta", b)
      PROVE  /\ open < i /\ L[i].kind = L[open].kind
             /\ \A j \in At(L, "block_stop", b) : i < j
  <2>1. i \in 1 .. n /\ L[i].type = "block_delta" /\ L[i].block = b
    BY <1>1 DEF At
  <2>2. PICK o \in 1 .. i - 1 : Opens(L, o, b) /\ L[o].kind = L[i].kind
    BY <1>1, <2>1 DEF Shaped, Enclosed
  <2>3. o \in 1 .. n /\ o < i
    BY <1>1, <2>1
  <2>4. o = open
    BY <1>1, <1>2, <2>2, <2>3 DEF Shaped, Single
  <2>5. ASSUME NEW j \in At(L, "block_stop", b) PROVE i < j
    <3>1. j \in DOMAIN L /\ Shuts(L, j, L[i].block)
      BY <2>1 DEF At, Shuts
    <3> QED BY <1>1, <2>1, <3>1 DEF Shaped, Enclosed
  <2> QED BY <2>2, <2>3, <2>4, <2>5
<1>7. ASSUME NEW i \in At(L, "message_stop", None) PROVE At(L, "block_stop", b) # {} /\ open < i
  <2>1. i \in DOMAIN L /\ L[i].type = "message_stop"
    BY DEF At
  <2>2. open < i /\ \E k \in DOMAIN L : Shuts(L, k, L[open].block)
    BY <1>1, <1>3, <2>1 DEF Shaped, Ended
  <2>3. PICK k \in DOMAIN L : Shuts(L, k, b)
    BY <1>3, <2>2
  <2>4. k \in At(L, "block_stop", b)
    BY <2>3 DEF At, Shuts
  <2> QED BY <2>2, <2>4
<1>8. b > 0 => \E i \in 1 .. open : L[i].block = b - 1
  BY <1>1, <1>3 DEF Shaped, InOrder
<1>9. IsBlock(L, b, open)
  BY <1>4, <1>5, <1>6, <1>7, <1>8 DEF IsBlock
<1> QED BY <1>1, <1>9

LEMMA PlacesAre == \A type, b : Wi!Places(type, b) = At(answer, type, b)
  BY DEF Wi!Places, At

LEMMA AnswerIsFormed == ASSUME AnswerInv PROVE Wi!AnswerIsWellFormed
<1> DEFINE L == answer
<1>1. /\ L \in Seq(Frames) /\ client \in ClientType /\ (client.streams => client.protocol \in Wi!Protocols)
      /\ upstream \in UpstreamType
  BY DEF AnswerInv, TypeInv
<1>2. client.streams => Converted \/ Passed
  BY <1>1 DEF Wi!Protocols, Converted, Passed
<1>3. Converted => Once(L) /\ (~ upstream.late => Shaped(L))
  BY DEF AnswerInv, ConvertedInv
<1>4. Passed => \A i \in DOMAIN L : L[i].type # "message_stop"
  BY DEF AnswerInv, PassedInv, PassedOn
<1>5. ~ client.streams => L = <<>>
  BY DEF AnswerInv, AggregatedInv
<1>6. ASSUME Converted, L # <<>>, L[1].type # "error"
      PROVE  At(L, "message_start", None) = {1}
  <2>1. Once(L)
    BY <1>3, <1>6
  <2>2. 1 \in DOMAIN L
    BY <1>1, <1>6
  <2> HIDE DEF L
  <2>3. L[1].type = "message_start" /\ L[1].block = None
    BY <1>6, <2>1, <2>2 DEF Once
  <2>4. \A i \in At(L, "message_start", None) : i = 1
    BY <2>1 DEF Once, At
  <2>5. 1 \in At(L, "message_start", None)
    BY <2>2, <2>3 DEF At
  <2> QED BY <2>4, <2>5
<1>7. Wi!Cardinality(At(L, "message_stop", None)) <= 1
  <2>1. \A i, j \in At(L, "message_stop", None) : i = j
    <3>1. CASE Converted
      BY <1>3, <3>1 DEF At, Once
    <3>2. CASE Passed
      BY <1>4, <3>2 DEF At
    <3>3. CASE ~ client.streams
      BY <1>5, <3>3 DEF At
    <3> QED BY <1>2, <3>1, <3>2, <3>3
  <2> QED BY <2>1, AtMostOne
<1>8. ASSUME Converted, ~ upstream.late, NEW b \in {L[i].block : i \in DOMAIN L} \ {None}
      PROVE  \E open \in DOMAIN L : IsBlock(L, b, open)
  <2>1. PICK q \in DOMAIN L : L[q].block = b
    BY <1>8
  <2>2. b \in Nat
    <3>1. L[q] \in Frames
      BY <1>1
    <3> QED BY <1>8, <2>1, <3>1 DEF Frames
  <2> HIDE DEF L
  <2> QED BY <1>1, <1>3, <1>8, <2>1, <2>2, BlockOfShape
<1>9. ASSUME upstream.indexes \/ upstream.chunks = 1
      PROVE  (~ (Converted /\ upstream.late) => Apart(L)) /\ \A i \in DOMAIN agg.calls : Wi!Cardinality(agg.calls[i]) = 1
  <2>1. Numbered
    BY <1>9 DEF Numbered
  <2>2. ASSUME ~ (Converted /\ upstream.late) PROVE Apart(L)
    <3>1. CASE Converted
      BY <2>1, <2>2, <3>1 DEF AnswerInv, ConvertedInv
    <3>2. CASE Passed
      <4>1. PassedOn(L, upstream.made, TRUE)
        BY <2>1, <3>2 DEF AnswerInv, PassedInv, PassedOn
      <4> QED BY <4>1 DEF PassedOn, Apart
    <3>3. CASE ~ client.streams
      BY <1>5, <3>3 DEF Apart
    <3> QED BY <1>2, <3>1, <3>2, <3>3
  <2>3. ASSUME NEW i \in DOMAIN agg.calls PROVE Wi!Cardinality(agg.calls[i]) = 1
    <3>1. CASE client.streams
      BY <2>3, <3>1 DEF AnswerInv, AggregatedInv
    <3>2. CASE ~ client.streams
      <4>1. agg.calls = Singles(upstream.made)
        BY <2>1, <3>2 DEF AnswerInv, AggregatedInv
      <4>2. agg.calls[i] = {upstream.made[i]}
        BY <2>3, <4>1 DEF Singles
      <4>3. Cardinality({upstream.made[i]}) = 1
        BY FS_Singleton
      <4> QED BY <4>2, <4>3, SameCardinality
    <3> QED BY <3>1, <3>2
  <2> QED BY <2>2, <2>3
<1>10. \A b \in {L[i].block : i \in DOMAIN L} \ {None} :
         Converted /\ ~ upstream.late => \E open \in DOMAIN L : IsBlock(L, b, open)
  BY <1>8
<1> QED BY <1>6, <1>7, <1>9, <1>10, PlacesAre DEF Wi!AnswerIsWellFormed, Converted, IsBlock, Apart

-----------------------------------------------------------------------------
(* How many blocks there are: one of thinking, one of text and one of each  *)
(* call, also when the client has left and sees none of them.              *)

Small == 0 .. Cardinality(Calls) - 1

\* Every block that was reserved has its place in the converter.
Held ==
  {c \in ConvType :
     /\ \A i \in DOMAIN c.active : c.active[i] < c.next
     /\ c.think # None => c.think < c.next
     /\ c.text # None => c.text < c.next
     /\ \A k \in Wi!Indexes : c.tool[k] # None => c.tool[k] < c.next
     /\ \A b \in Nat : b < c.next =>
          b = c.think \/ b = c.text \/ \E k \in Small : b = c.tool[k]}
HeldStates == [c : Held, out : Seq(Frames)]

LEMMA HeldIsState ==
  ASSUME NEW x \in HeldStates
  PROVE  /\ x \in States /\ x.c \in Held /\ x.c \in ConvType /\ x.out \in Seq(Frames)
         /\ x.c.next \in Nat /\ x.c.think \in Nat \cup {None} /\ x.c.text \in Nat \cup {None}
         /\ x.c.tool \in [Wi!Indexes -> Nat \cup {None}] /\ x.c.active \in Seq(Nat)
BY DEF HeldStates, Held, States, ConvType

LEMMA StateIsHeld ==
  ASSUME NEW x \in States, x.c \in Held
  PROVE  x \in HeldStates
BY DEF HeldStates, States

LEMMA SmallIndexes == Cardinality(Calls) \in Nat /\ Small \subseteq Wi!Indexes
<1>1. Cardinality(Calls) \in Nat
  BY ServiceAssumption, FS_CardinalityType
<1>2. Wi!Indexes = 0 .. 2 + Cardinality(Calls)
  BY SameCardinality DEF Wi!Indexes
<1> QED BY <1>1, <1>2 DEF Small

LEMMA StartedIsHeld ==
  ASSUME NEW x \in HeldStates
  PROVE  Wi!Started(x) \in HeldStates
<1> DEFINE e == Wi!Event("message_start", None, None, None)
           k == [x.c EXCEPT !.started = TRUE]
           z == [x EXCEPT !.c.started = TRUE]
           y == Wi!Started(x)
<1>1. x \in States /\ x.c \in Held /\ x.c \in ConvType
  BY HeldIsState
<1>2. CASE x.c.started
  BY <1>2 DEF Wi!Started
<1>3. CASE ~ x.c.started
  <2>1. /\ k \in ConvType /\ k.next = x.c.next /\ k.active = x.c.active
        /\ k.think = x.c.think /\ k.text = x.c.text /\ k.tool = x.c.tool
    BY <1>1 DEF ConvType
  <2>2. z = [x EXCEPT !.c = k]
    OBVIOUS
  <2>3. y = Wi!Emit(z, e)
    BY <1>3 DEF Wi!Started
  <2> HIDE DEF k, z, y
  <2>4. k \in Held
    BY <1>1, <2>1 DEF Held
  <2>5. z \in States /\ z.c = k
    BY <1>1, <2>1, <2>2 DEF States
  <2>6. e \in Frames
    BY EventIsFrame
  <2> HIDE DEF e
  <2>7. y \in States /\ y.c = k
    BY <2>3, <2>5, <2>6, EmitIs
  <2>8. y \in HeldStates
    BY <2>4, <2>7, StateIsHeld
  <2> QED BY <2>8 DEF y
<1> QED BY <1>2, <1>3

\* A block is reserved, and c takes its place.
LEMMA BindIsHeld ==
  ASSUME NEW x \in HeldStates, NEW r, r \in States, r.c.next = x.c.next + 1,
         r.c.active = Append(x.c.active, x.c.next), NEW c \in ConvType,
         c.next = r.c.next, c.active = r.c.active,
         \/ /\ x.c.think = None /\ c.think = x.c.next /\ c.text = x.c.text /\ c.tool = x.c.tool
         \/ /\ x.c.text = None /\ c.text = x.c.next /\ c.think = x.c.think /\ c.tool = x.c.tool
         \/ \E k \in Small : /\ x.c.tool[k] = None /\ c.tool = [x.c.tool EXCEPT ![k] = x.c.next]
                             /\ c.think = x.c.think /\ c.text = x.c.text
  PROVE  c \in Held
<1> DEFINE n == x.c.next
<1>1. /\ n \in Nat /\ n # None /\ c.next = n + 1 /\ x.c.active \in Seq(Nat)
      /\ x.c.tool \in [Wi!Indexes -> Nat \cup {None}] /\ Small \subseteq Wi!Indexes
      /\ x.c.think \in Nat \cup {None} /\ x.c.text \in Nat \cup {None}
  BY HeldIsState, SmallIndexes, NoneIsNoBlock
<1>2. /\ \A i \in DOMAIN x.c.active : x.c.active[i] < n
      /\ x.c.think # None => x.c.think < n
      /\ x.c.text # None => x.c.text < n
      /\ \A k \in Wi!Indexes : x.c.tool[k] # None => x.c.tool[k] < n
      /\ \A b \in Nat : b < n => b = x.c.think \/ b = x.c.text \/ \E k \in Small : b = x.c.tool[k]
  BY HeldIsState DEF Held
<1> HIDE DEF n
<1>3. \A i \in DOMAIN c.active : c.active[i] < c.next
  <2> DEFINE a == x.c.active
  <2>1. c.active = Append(a, n) /\ a \in Seq(Nat)
    BY <1>1 DEF n
  <2>2. \A i \in DOMAIN a : a[i] \in Nat /\ a[i] < n
    BY <1>1, <1>2
  <2> HIDE DEF a
  <2>3. /\ Len(a) \in Nat /\ DOMAIN a = 1 .. Len(a) /\ DOMAIN Append(a, n) = 1 .. Len(a) + 1
        /\ Append(a, n)[Len(a) + 1] = n /\ \A i \in 1 .. Len(a) : Append(a, n)[i] = a[i]
    BY <2>1, AppendIs
  <2> QED BY <1>1, <2>1, <2>2, <2>3
<1>4. /\ c.think # None => c.think < c.next
      /\ c.text # None => c.text < c.next
  <2>1. c.think = n \/ c.think = x.c.think
    BY DEF n
  <2>2. c.text = n \/ c.text = x.c.text
    BY DEF n
  <2> QED BY <1>1, <1>2, <2>1, <2>2
<1>5. ASSUME NEW k \in Wi!Indexes, c.tool[k] # None PROVE c.tool[k] < c.next
  <2>1. c.tool[k] = n \/ c.tool[k] = x.c.tool[k]
    BY <1>1 DEF n
  <2>2. x.c.tool[k] # None => x.c.tool[k] \in Nat /\ x.c.tool[k] < n
    BY <1>1, <1>2
  <2> QED BY <1>1, <1>5, <2>1, <2>2
<1>6. ASSUME NEW b \in Nat, b < c.next
      PROVE  b = c.think \/ b = c.text \/ \E k \in Small : b = c.tool[k]
  <2>1. CASE b = n
    BY <1>1, <2>1 DEF n
  <2>2. CASE b # n
    <3>1. b < n
      BY <1>1, <1>6, <2>2
    <3>2. b # None
      BY NoneIsNoBlock
    <3>3. CASE b = x.c.think \/ b = x.c.text
      BY <3>2, <3>3
    <3>4. CASE \E k \in Small : b = x.c.tool[k]
      <4>1. PICK k \in Small : b = x.c.tool[k]
        BY <3>4
      <4>2. c.tool[k] = x.c.tool[k]
        BY <1>1, <3>2, <4>1
      <4> QED BY <4>1, <4>2
    <3> QED BY <1>2, <3>1, <3>3, <3>4
  <2> QED BY <2>1, <2>2
<1> QED BY <1>3, <1>4, <1>5, <1>6 DEF Held

\* A delta into a block that is there.
LEMMA EmitIsHeld ==
  ASSUME NEW x \in HeldStates, NEW b \in Nat, NEW kind \in Kinds, NEW call \in Calls \cup {None}
  PROVE  Wi!Emit(x, Wi!Event("block_delta", b, kind, call)) \in HeldStates
<1> DEFINE e == Wi!Event("block_delta", b, kind, call)
           y == Wi!Emit(x, e)
<1>1. e \in Frames
  BY EventIsFrame DEF InBlock
<1>2. x \in States /\ x.c \in Held
  BY HeldIsState
<1>3. y = Wi!Emit(x, e)
  OBVIOUS
<1> HIDE DEF e, y
<1>4. y \in States /\ y.c = x.c
  BY <1>1, <1>2, <1>3, EmitIs
<1>5. y \in HeldStates
  BY <1>2, <1>4, StateIsHeld
<1> QED BY <1>5 DEF e, y


LEMMA ThinkingIsHeld ==
  ASSUME NEW x \in HeldStates
  PROVE  Wi!Thinking(x) \in HeldStates
<1> DEFINE r == Wi!Reserved(x, "thinking")
           y == IF x.c.think = None THEN [r EXCEPT !.c.think = x.c.next] ELSE x
<1>1. x \in States /\ x.c.next \in Nat /\ x.c.think \in Nat \cup {None}
  BY HeldIsState
<1>2. Wi!Thinking(x) = Wi!Emit(y, Wi!Event("block_delta", y.c.think, "thinking", None))
  BY DEF Wi!Thinking
<1>3. y \in HeldStates /\ y.c.think \in Nat
  <2>1. CASE x.c.think = None
    <3> DEFINE c == [r.c EXCEPT !.think = x.c.next]
    <3>1. /\ r \in States /\ r.c \in ConvType /\ r.c.next = x.c.next + 1
          /\ r.c.active = Append(x.c.active, x.c.next)
          /\ r.c.text = x.c.text /\ r.c.tool = x.c.tool
      BY <1>1, ReservedIs DEF Kinds
    <3>2. y = [r EXCEPT !.c = c]
      BY <2>1
    <3> HIDE DEF r, y
    <3>3. /\ c \in ConvType /\ c.next = r.c.next /\ c.active = r.c.active
          /\ c.think = x.c.next /\ c.text = x.c.text /\ c.tool = x.c.tool
      BY <1>1, <3>1 DEF ConvType
    <3> HIDE DEF c
    <3>4. c \in Held
      BY <2>1, <3>1, <3>3, BindIsHeld
    <3>5. y \in States /\ y.c = c
      BY <3>1, <3>2, <3>3 DEF States
    <3> QED BY <1>1, <3>3, <3>4, <3>5, StateIsHeld
  <2>2. CASE x.c.think # None
    BY <1>1, <2>2
  <2> QED BY <2>1, <2>2
<1> HIDE DEF y
<1> QED BY <1>2, <1>3, EmitIsHeld DEF Kinds

LEMMA TextIsHeld ==
  ASSUME NEW x \in HeldStates
  PROVE  Wi!Text(x) \in HeldStates
<1> DEFINE r == Wi!Reserved(x, "text")
           y == IF x.c.text = None THEN [r EXCEPT !.c.text = x.c.next] ELSE x
<1>1. x \in States /\ x.c.next \in Nat /\ x.c.text \in Nat \cup {None}
  BY HeldIsState
<1>2. Wi!Text(x) = Wi!Emit(y, Wi!Event("block_delta", y.c.text, "text", None))
  BY DEF Wi!Text
<1>3. y \in HeldStates /\ y.c.text \in Nat
  <2>1. CASE x.c.text = None
    <3> DEFINE c == [r.c EXCEPT !.text = x.c.next]
    <3>1. /\ r \in States /\ r.c \in ConvType /\ r.c.next = x.c.next + 1
          /\ r.c.active = Append(x.c.active, x.c.next)
          /\ r.c.think = x.c.think /\ r.c.tool = x.c.tool
      BY <1>1, ReservedIs DEF Kinds
    <3>2. y = [r EXCEPT !.c = c]
      BY <2>1
    <3> HIDE DEF r, y
    <3>3. /\ c \in ConvType /\ c.next = r.c.next /\ c.active = r.c.active
          /\ c.text = x.c.next /\ c.think = x.c.think /\ c.tool = x.c.tool
      BY <1>1, <3>1 DEF ConvType
    <3> HIDE DEF c
    <3>4. c \in Held
      BY <2>1, <3>1, <3>3, BindIsHeld
    <3>5. y \in States /\ y.c = c
      BY <3>1, <3>2, <3>3 DEF States
    <3> QED BY <1>1, <3>3, <3>4, <3>5, StateIsHeld
  <2>2. CASE x.c.text # None
    BY <1>1, <2>2
  <2> QED BY <2>1, <2>2
<1> HIDE DEF y
<1> QED BY <1>2, <1>3, EmitIsHeld DEF Kinds

LEMMA ToolIsHeld ==
  ASSUME NEW x \in HeldStates, NEW d \in Parts, d.index \in Small
  PROVE  Wi!Tool(x, d) \in HeldStates
<1> DEFINE r == Wi!Reserved(x, "tool_use")
           t == [x.c.tool EXCEPT ![d.index] = x.c.next]
           y == IF x.c.tool[d.index] = None THEN [r EXCEPT !.c.tool[d.index] = x.c.next] ELSE x
<1>1. /\ x \in States /\ x.c.next \in Nat /\ x.c.tool \in [Wi!Indexes -> Nat \cup {None}]
      /\ d.index \in Wi!Indexes /\ d.call \in Calls
  BY HeldIsState DEF Parts
<1>2. Wi!Tool(x, d) = Wi!Emit(y, Wi!Event("block_delta", y.c.tool[d.index], "tool_use", d.call))
  BY DEF Wi!Tool
<1>3. y \in HeldStates /\ y.c.tool[d.index] \in Nat
  <2>1. CASE x.c.tool[d.index] = None
    <3> DEFINE c == [r.c EXCEPT !.tool = t]
    <3>1. /\ r \in States /\ r.c \in ConvType /\ r.c.next = x.c.next + 1
          /\ r.c.active = Append(x.c.active, x.c.next)
          /\ r.c.think = x.c.think /\ r.c.text = x.c.text /\ r.c.tool = x.c.tool
      BY <1>1, ReservedIs DEF Kinds
    <3>2. t \in [Wi!Indexes -> Nat \cup {None}] /\ t[d.index] = x.c.next
      BY <1>1
    <3>3. y = [r EXCEPT !.c = c]
      BY <2>1, <3>1
    <3> HIDE DEF r, t, y
    <3>4. /\ c \in ConvType /\ c.next = r.c.next /\ c.active = r.c.active
          /\ c.tool = t /\ c.think = x.c.think /\ c.text = x.c.text
      BY <3>1, <3>2 DEF ConvType
    <3> HIDE DEF c
    <3>5. c \in Held
      BY <2>1, <3>1, <3>4, BindIsHeld DEF t
    <3>6. y \in States /\ y.c = c
      BY <3>1, <3>3, <3>4 DEF States
    <3> QED BY <1>1, <3>2, <3>4, <3>5, <3>6, StateIsHeld
  <2>2. CASE x.c.tool[d.index] # None
    BY <1>1, <2>2
  <2> QED BY <2>1, <2>2
<1> HIDE DEF y
<1> QED BY <1>1, <1>2, <1>3, EmitIsHeld DEF Kinds

LEMMA ToolsAreHeld ==
  ASSUME NEW x \in HeldStates, NEW n \in Nat, NEW s \in [1 .. n -> Parts],
         \A k \in 1 .. n : s[k].index \in Small
  PROVE  Tools(x, s) \in HeldStates
<1>1. ToolKeeps(HeldStates, n, s) /\ DOMAIN s = 1 .. n
  BY ToolIsHeld DEF ToolKeeps
<1>2. PICK it : ToolPath(it, HeldStates, x, n, s)
  BY <1>1, ToolSteps
<1> QED BY <1>2 DEF ToolPath

LEMMA StoppedIsHeld ==
  ASSUME NEW x \in HeldStates
  PROVE  Wi!Stopped(x) \in HeldStates
<1> DEFINE p == Wi!Started(x)
           s == x.c.active
           z == Closes(p, s)
           w == [z EXCEPT !.c.active = <<>>, !.c.stopped = TRUE]
           e == Wi!Event("message_stop", None, None, None)
           y == Wi!Stopped(x)
<1>1. CASE x.c.stopped
  BY <1>1 DEF Wi!Stopped
<1>2. CASE ~ x.c.stopped
  <2>1. y = Wi!Emit(w, e)
    BY <1>2 DEF Wi!Stopped, Closes
  <2>2. p \in HeldStates /\ s \in Seq(Nat) /\ Len(s) \in Nat /\ DOMAIN s = 1 .. Len(s)
    BY StartedIsHeld, HeldIsState
  <2> HIDE DEF p, s
  <2>3. ASSUME NEW v \in HeldStates, NEW k \in 1 .. Len(s) PROVE Wi!Closed(v, s[k]) \in HeldStates
    <3> DEFINE f == Wi!Event("block_stop", s[k], None, None)
               u == Wi!Closed(v, s[k])
    <3>1. s[k] \in Nat
      BY <2>2
    <3>2. f \in Frames
      BY <3>1, EventIsFrame DEF InBlock
    <3>3. u = Wi!Emit(v, f)
      BY DEF Wi!Closed
    <3>4. v \in States /\ v.c \in Held
      BY HeldIsState
    <3> HIDE DEF f, u
    <3>5. u \in States /\ u.c = v.c
      BY <3>2, <3>3, <3>4, EmitIs
    <3>6. u \in HeldStates
      BY <3>4, <3>5, StateIsHeld
    <3> QED BY <3>6 DEF u
  <2>4. z \in HeldStates
    <3>1. CloseKeeps(HeldStates, Len(s), s)
      BY <2>3 DEF CloseKeeps
    <3>2. PICK it : ClosePath(it, HeldStates, p, Len(s), s)
      BY <2>2, <3>1, CloseSteps
    <3> QED BY <2>2, <3>2 DEF ClosePath
  <2> DEFINE none == <<>>
             c == [z.c EXCEPT !.active = none, !.stopped = TRUE]
  <2>5. w = [z EXCEPT !.c = c]
    OBVIOUS
  <2>6. none \in Seq(Nat) /\ DOMAIN none = {}
    OBVIOUS
  <2> HIDE DEF none, z, w
  <2>7. z \in States /\ z.c \in Held /\ z.c \in ConvType
    BY <2>4, HeldIsState
  <2>8. /\ c \in ConvType /\ c.next = z.c.next /\ c.active = none
        /\ c.think = z.c.think /\ c.text = z.c.text /\ c.tool = z.c.tool
    BY <2>6, <2>7 DEF ConvType
  <2> HIDE DEF c
  <2>9. c \in Held
    BY <2>6, <2>7, <2>8 DEF Held
  <2>10. w \in States /\ w.c = c
    BY <2>5, <2>7, <2>8 DEF States
  <2>11. e \in Frames
    BY EventIsFrame
  <2> HIDE DEF e, y
  <2>12. y \in States /\ y.c = c
    BY <2>1, <2>10, <2>11, EmitIs
  <2>13. y \in HeldStates
    BY <2>9, <2>12, StateIsHeld
  <2> QED BY <2>13 DEF y
<1> QED BY <1>1, <1>2

LEMMA ConsumedIsHeld ==
  ASSUME NEW c \in Held
  PROVE  /\ Wi!ConsumedDone(c).c \in Held
         /\ \A chunk : \A n \in Nat :
              chunk.calls \in [1 .. n -> Parts] /\ (\A k \in 1 .. n : chunk.calls[k].index \in Small)
                => Wi!Consumed(c, chunk).c \in Held
<1> DEFINE x == [c |-> c, out |-> <<>>]
           p == Wi!Started(x)
<1>1. p \in HeldStates
  <2>1. x \in HeldStates
    <3>1. <<>> \in Seq(Frames)
      OBVIOUS
    <3> QED BY <3>1 DEF HeldStates
  <2> HIDE DEF x
  <2> QED BY <2>1, StartedIsHeld
<1>2. Wi!ConsumedDone(c) \in HeldStates
  <2>1. Wi!ConsumedDone(c) = Wi!Stopped(p)
    BY DEF Wi!ConsumedDone
  <2> HIDE DEF p
  <2> QED BY <1>1, <2>1, StoppedIsHeld
<1>3. ASSUME NEW chunk, NEW n \in Nat, chunk.calls \in [1 .. n -> Parts],
             \A k \in 1 .. n : chunk.calls[k].index \in Small
      PROVE  Wi!Consumed(c, chunk).c \in Held
  <2> DEFINE q == IF chunk.think THEN Wi!Thinking(p) ELSE p
             r == IF chunk.text THEN Wi!Text(q) ELSE q
             t == Tools(r, chunk.calls)
  <2>1. Wi!Consumed(c, chunk) = IF chunk.finish = None THEN t ELSE Wi!Stopped(t)
    BY DEF Wi!Consumed, Tools
  <2> HIDE DEF p
  <2>2. q \in HeldStates
    BY <1>1, ThinkingIsHeld
  <2> HIDE DEF q
  <2>3. r \in HeldStates
    BY <2>2, TextIsHeld
  <2> HIDE DEF r
  <2>4. t \in HeldStates
    BY <1>3, <2>3, ToolsAreHeld
  <2> HIDE DEF t
  <2>5. Wi!Consumed(c, chunk) \in HeldStates
    BY <2>1, <2>4, StoppedIsHeld
  <2> QED BY <2>5, HeldIsState
<1> QED BY <1>2, <1>3, HeldIsState


\* One block of thinking, one of text and one of each call.
LEMMA BlocksAreFew ==
  ASSUME NEW c \in Held
  PROVE  /\ c.next \in Wi!Indexes /\ c.active \in Seq(Wi!Indexes)
         /\ \A x \in {c.text, c.think} \cup {c.tool[i] : i \in Wi!Indexes} :
              x \in Wi!Indexes \cup {None}
<1> DEFINE n == c.next
           z == Cardinality(Calls)
           g == [b \in 0 .. n - 1 |-> IF b = c.think THEN z ELSE IF b = c.text THEN z + 1
                                     ELSE CHOOSE k \in Small : b = c.tool[k]]
<1>1. /\ n \in Nat /\ z \in Nat /\ Small = 0 .. z - 1 /\ Small \subseteq Wi!Indexes
      /\ Wi!Indexes = 0 .. 2 + z
      /\ c.tool \in [Wi!Indexes -> Nat \cup {None}] /\ c.active \in Seq(Nat)
      /\ c.think \in Nat \cup {None} /\ c.text \in Nat \cup {None}
  BY SmallIndexes, SameCardinality DEF Held, ConvType, Small, Wi!Indexes
<1>2. /\ \A i \in DOMAIN c.active : c.active[i] < n
      /\ c.think # None => c.think < n
      /\ c.text # None => c.text < n
      /\ \A k \in Wi!Indexes : c.tool[k] # None => c.tool[k] < n
      /\ \A b \in Nat : b < n => b = c.think \/ b = c.text \/ \E k \in Small : b = c.tool[k]
  BY DEF Held
<1> HIDE DEF n, z
<1>3. ASSUME NEW b \in 0 .. n - 1
      PROVE  /\ g[b] \in 0 .. z + 1
             /\ g[b] = z => b = c.think
             /\ g[b] = z + 1 => b = c.text
             /\ g[b] < z => b = c.tool[g[b]]
  <2>1. b \in Nat /\ b < n
    BY <1>1
  <2>2. CASE b = c.think
    BY <1>1, <2>2
  <2>3. CASE b # c.think /\ b = c.text
    BY <1>1, <2>3
  <2>4. CASE b # c.think /\ b # c.text
    <3>1. \E k \in Small : b = c.tool[k]
      BY <1>2, <2>1, <2>4
    <3>2. g[b] = CHOOSE k \in Small : b = c.tool[k]
      BY <2>4
    <3> HIDE DEF g
    <3>3. g[b] \in Small /\ b = c.tool[g[b]]
      BY <3>1, <3>2
    <3>4. g[b] \in 0 .. z + 1 /\ g[b] < z
      BY <1>1, <3>3
    <3> QED BY <1>1, <3>3, <3>4
  <2> QED BY <2>2, <2>3, <2>4
<1>4. g \in Injection(0 .. n - 1, 0 .. z + 1)
  <2>1. g \in [0 .. n - 1 -> 0 .. z + 1]
    BY <1>3
  <2> HIDE DEF g
  <2>2. \A a, b \in 0 .. n - 1 : g[a] = g[b] => a = b
    <3> SUFFICES ASSUME NEW a \in 0 .. n - 1, NEW b \in 0 .. n - 1, g[a] = g[b] PROVE a = b
      OBVIOUS
    <3>1. g[a] = z \/ g[a] = z + 1 \/ g[a] < z
      BY <1>1, <1>3
    <3> QED BY <1>3, <3>1
  <2> QED BY <2>1, <2>2 DEF Injection, IsInjective
<1>5. n <= z + 2
  <2>1. /\ IsFiniteSet(0 .. z + 1) /\ Cardinality(0 .. z + 1) = z + 2
    <3>1. 0 \in Int /\ z + 1 \in Int /\ ~ (0 > z + 1) /\ (z + 1) - 0 + 1 = z + 2
      BY <1>1
    <3> QED BY <3>1, FS_Interval
  <2>2. Cardinality(0 .. n - 1) = n
    <3>1. 0 \in Int /\ n - 1 \in Int /\ (0 > n - 1 <=> n = 0) /\ (n - 1) - 0 + 1 = n
      BY <1>1
    <3> QED BY <3>1, FS_Interval
  <2> HIDE DEF g
  <2>3. Cardinality(0 .. n - 1) <= Cardinality(0 .. z + 1)
    BY <1>4, <2>1, FS_Injection
  <2> QED BY <2>1, <2>2, <2>3
<1>6. \A x \in Nat : x < n => x \in Wi!Indexes
  BY <1>1, <1>5
<1>7. n \in Wi!Indexes
  BY <1>1, <1>5
<1>8. c.active \in Seq(Wi!Indexes)
  <2> DEFINE a == c.active
  <2>1. a \in Seq(Nat) /\ \A i \in DOMAIN a : a[i] < n
    BY <1>1, <1>2
  <2> HIDE DEF a
  <2>2. \A i \in 1 .. Len(a) : a[i] \in Wi!Indexes
    BY <1>6, <2>1
  <2>3. a \in Seq(Wi!Indexes)
    BY <2>1, <2>2
  <2> QED BY <2>3 DEF a
<1>9. ASSUME NEW x \in {c.text, c.think} \cup {c.tool[i] : i \in Wi!Indexes}
      PROVE  x \in Wi!Indexes \cup {None}
  <2>1. x \in Nat \cup {None} /\ (x # None => x < n)
    BY <1>1, <1>2
  <2> QED BY <1>6, <2>1
<1> QED BY <1>7, <1>8, <1>9 DEF n

\* normalizeToolCalls: a fragment's index is that of a call or of a place in its chunk.
LEMMA IndexesAreSmall ==
  ASSUME upstream \in UpstreamType, NEW s \in Wi!Fragments,
         NEW made, made = Begins(upstream.made, s), NEW d, d = Wi!Normalized(Wi!Deltas(s, made))
  PROVE  \E n \in 0 .. 2 : d \in [1 .. n -> Parts] /\ \A k \in 1 .. n : d[k].index \in Small
<1> DEFINE m == upstream.made
<1>1. m \in Lists /\ upstream.indexes \in BOOLEAN
  BY DEF UpstreamType
<1>2. PICK n \in 0 .. 2 : s \in [1 .. n -> Calls] /\ \A i, j \in 1 .. n : s[i] = s[j] => i = j
  BY FragmentsAre
<1>3. n \in Nat
  OBVIOUS
<1> HIDE DEF m
<1>4. PICK it : BeginPath(it, Lists, m, n, s) /\ \A k \in 0 .. n : After(m, it[k], s, k)
  BY <1>1, <1>2, <1>3, BeginsAre
<1>5. it[n] = made /\ n \in 0 .. n
  BY <1>3, <1>4 DEF BeginPath, m
<1>6. After(m, made, s, n)
  BY <1>4, <1>5
<1>7. made \in Lists /\ \A k \in 1 .. n : Holds(made, s[k])
  BY <1>6 DEF After
<1>8. ASSUME NEW r \in Lists, NEW p \in Parts, IsPlaced(p, r) PROVE p.index \in Small
  <2>1. p.index \in Wi!Indexes /\ Wi!Indexes = 0 .. 2 + Cardinality(Calls)
    BY SameCardinality DEF Parts, Wi!Indexes
  <2>2. p.index + 1 \in 1 .. Len(r) /\ Len(r) <= Cardinality(Calls) /\ Len(r) \in Nat
        /\ Cardinality(Calls) \in Nat
    BY <1>8, ListIsShort DEF IsPlaced
  <2> QED BY <2>1, <2>2 DEF Small
<1>9. CASE upstream.indexes
  <2>1. AreAll(TRUE /\ ~ upstream.indexes, made, s, n)
    BY <1>9 DEF AreAll
  <2>2. ArePlaced(d, s, made, n, TRUE)
    BY <1>1, <1>2, <1>7, <2>1, PartsAre
  <2>3. d \in [1 .. n -> Parts] /\ \A k \in 1 .. n : IsPlaced(d[k], made)
    BY <2>2 DEF ArePlaced
  <2> QED BY <1>7, <1>8, <2>3
<1>10. CASE ~ upstream.indexes
  <2>1. s \in Lists /\ Len(s) = n
    BY <1>2, <1>3 DEF Lists
  <2>2. \A k \in 1 .. n : Holds(s, s[k])
    BY <1>2 DEF Holds
  <2>3. AreAll(TRUE /\ ~ upstream.indexes, s, s, n)
    BY <2>1 DEF AreAll
  <2>4. Wi!Deltas(s, made) = Wi!Deltas(s, s)
    BY <1>10 DEF Wi!Deltas
  <2>5. d = Wi!Normalized(Wi!Deltas(s, s))
    BY <2>4
  <2>6. ArePlaced(d, s, s, n, TRUE)
    BY <1>1, <1>2, <2>1, <2>2, <2>3, <2>5, PartsAre
  <2>7. d \in [1 .. n -> Parts] /\ \A k \in 1 .. n : IsPlaced(d[k], s)
    BY <2>6 DEF ArePlaced
  <2> QED BY <1>8, <2>1, <2>7
<1> QED BY <1>1, <1>9, <1>10

LEMMA PreparedAreTurns ==
  ASSUME NEW p, NEW turns \in Seq(Wi!Turns)
  PROVE  Wi!Prepared(p, turns) \in Seq(Wi!Turns)
<1> DEFINE out == [i \in DOMAIN turns |-> Wi!Outbound(turns[i])]
           lead == [role |-> "system", marks |-> {}]
<1>1. \A t \in Wi!Turns : Wi!Outbound(t) \in Wi!Turns
  BY DEF Wi!Outbound, Wi!Turns, Wi!Roles
<1>2. lead \in Wi!Turns
  BY DEF Wi!Turns, Wi!Roles
<1>3. out \in Seq(Wi!Turns)
  BY <1>1
<1>4. Wi!Prepared(p, turns) \in {out, <<lead>> \o out}
  BY DEF Wi!Prepared
<1> HIDE DEF out, lead
<1> QED BY <1>2, <1>3, <1>4

LEMMA MergesAreSets ==
  ASSUME NEW a \in Seq(SUBSET Calls), NEW n \in Nat, NEW d \in [1 .. n -> Parts]
  PROVE  Merges(a, d) \in Seq(SUBSET Calls)
<1> DEFINE X == Seq(SUBSET Calls)
<1>1. ASSUME NEW x \in X, NEW k \in 1 .. n PROVE Wi!Merged(x, d[k]) \in X
  <2> DEFINE size == IF Len(x) > d[k].index THEN Len(x) ELSE d[k].index + 1
             at(i) == (IF i \in DOMAIN x THEN x[i] ELSE {})
                        \cup (IF i = d[k].index + 1 THEN {d[k].call} ELSE {})
  <2>1. d[k].call \in Calls /\ d[k].index \in Nat /\ Len(x) \in Nat
    BY DEF Parts, Wi!Indexes
  <2>2. size \in Nat
    BY <2>1
  <2>3. \A i \in 1 .. size : at(i) \in SUBSET Calls
    BY <2>1
  <2>4. Wi!Merged(x, d[k]) = [i \in 1 .. size |-> at(i)]
    BY DEF Wi!Merged
  <2> HIDE DEF size, at
  <2> QED BY <2>2, <2>3, <2>4
<1>2. MergeKeeps(X, n, d) /\ DOMAIN d = 1 .. n /\ a \in X
  BY <1>1 DEF MergeKeeps
<1> HIDE DEF X
<1>3. PICK it : MergePath(it, X, a, n, d)
  BY <1>2, MergeSteps
<1>4. Merges(a, d) \in X
  BY <1>3 DEF MergePath
<1> QED BY <1>4 DEF X


\* What the fields of a request hold, besides what its answer shows of them.
WireTypes ==
  /\ stage \in {"idle", "asked", "sent", "answer", "end"}
  /\ asked \in Seq(Wi!Turns)
  /\ sent \in [provider : Wi!Providers \cup {None}, turns : Seq(Wi!Turns)]
  /\ upstream.chunks <= MaxChunks
  /\ conv \in Held
  /\ agg.calls \in Seq(SUBSET Calls) /\ agg.finish \in Wi!Finishes
  /\ event \in [status : {None, "succeeded", "failed", "cancelled"},
                by : {None, "caller", "upstream"}]

LEMMA NoTurns == <<>> \in Seq(Wi!Turns) /\ <<>> \in Seq(SUBSET Calls) /\ <<>> \in Seq(Nat)
OBVIOUS

LEMMA WireTypesInit == Wi!Init => WireTypes
<1> SUFFICES ASSUME Wi!Init PROVE WireTypes
  OBVIOUS
<1>1. stage = "idle" /\ asked = <<>> /\ sent = [provider |-> None, turns |-> <<>>]
      /\ upstream = Wi!NoUpstream /\ conv = Wi!NoConv /\ agg = Wi!NoAgg
      /\ event = [status |-> None, by |-> None]
  BY DEF Wi!Init
<1>2. upstream.chunks <= MaxChunks
  BY <1>1, ServiceAssumption DEF Wi!NoUpstream
<1>3. conv \in Held
  <2>1. conv \in ConvType
    BY <1>1, NoConvIsSound
  <2>2. /\ conv.next = 0 /\ conv.active = <<>> /\ conv.text = None
        /\ conv.think = None /\ \A k \in Wi!Indexes : conv.tool[k] = None
    BY <1>1 DEF Wi!NoConv
  <2>3. DOMAIN conv.active = {}
    BY <2>2
  <2> QED BY <2>1, <2>2, <2>3 DEF Held
<1>4. agg.calls = <<>> /\ agg.finish = "stop"
  BY <1>1 DEF Wi!NoAgg
<1> QED BY <1>1, <1>2, <1>3, <1>4, NoTurns DEF WireTypes, Wi!Finishes

LEMMA ChunkKeepsTypes ==
  ASSUME AnswerInv, WireTypes, Wi!Chunk
  PROVE  WireTypes'
<1>1. PICK think, text, finish, s, made, d : Chunked(think, text, finish, s, made, d)
  BY ChunkIs
<1> DEFINE chunk == ChunkOf(think, text, finish, d)
<1>2. /\ UNCHANGED <<stage, asked, sent, event>> /\ upstream.chunks < MaxChunks
      /\ upstream \in UpstreamType /\ upstream.chunks \in Nat /\ MaxChunks \in Nat
      /\ client.streams \in BOOLEAN /\ (client.streams => Passed \/ Converted)
  BY ServiceAssumption DEF Wi!Chunk, AnswerInv, TypeInv, UpstreamType, ClientType, Passed, Converted,
     Wi!Protocols
<1>3. /\ finish \in Wi!Finishes \cup {None} /\ s \in Wi!Fragments
      /\ made = Begins(upstream.made, s) /\ d = Wi!Normalized(Wi!Deltas(s, made))
      /\ upstream' = Received(made, finish, think \/ text \/ s # <<>>)
  BY <1>1 DEF Chunked
<1>4. upstream'.chunks <= MaxChunks
  BY <1>2, <1>3 DEF UpstreamType, Received
<1>5. PICK n \in 0 .. 2 : d \in [1 .. n -> Parts] /\ \A k \in 1 .. n : d[k].index \in Small
  BY <1>2, <1>3, IndexesAreSmall
<1>6. n \in Nat /\ chunk.calls = d /\ chunk.finish = finish
  BY DEF ChunkOf
<1> HIDE DEF chunk
<1>7. Wi!Consumed(conv, chunk).c \in Held
  BY <1>5, <1>6, ConsumedIsHeld DEF WireTypes
<1>8. CASE ~ client.streams
  <2>1. agg' = Wi!Processed(chunk) /\ conv' = conv
    BY <1>1, <1>8 DEF Chunked, chunk
  <2>2. agg'.calls = Merges(agg.calls, d)
    BY <1>6, <2>1 DEF Wi!Processed, Merges
  <2>3. agg'.finish = IF finish = None THEN agg.finish ELSE finish
    BY <1>6, <2>1 DEF Wi!Processed
  <2>4. agg'.calls \in Seq(SUBSET Calls)
    BY <1>5, <1>6, <2>2, MergesAreSets DEF WireTypes
  <2>5. agg'.finish \in Wi!Finishes
    BY <1>3, <2>3 DEF WireTypes
  <2> QED BY <1>2, <1>4, <2>1, <2>4, <2>5 DEF WireTypes
<1>9. CASE client.streams
  <2>1. agg' = agg
    BY <1>1, <1>9 DEF Chunked
  <2>2. CASE Converted
    <3>1. conv' = Wi!Consumed(conv, chunk).c
      BY <1>1, <2>2 DEF Chunked, chunk
    <3> QED BY <1>2, <1>4, <1>7, <2>1, <3>1 DEF WireTypes
  <2>3. CASE Passed
    <3>1. client.protocol = "openai"
      BY <2>3 DEF Passed
    <3>2. conv' = conv
      BY <1>9, <3>1 DEF Wi!Chunk, Wi!Receives
    <3> QED BY <1>2, <1>4, <2>1, <3>2 DEF WireTypes
  <2> QED BY <1>2, <1>9, <2>2, <2>3
<1> QED BY <1>2, <1>8, <1>9

LEMMA WireTypesNext == AnswerInv /\ WireTypes /\ [Wi!Next]_(Wi!vars) => WireTypes'
<1> SUFFICES ASSUME AnswerInv, WireTypes, [Wi!Next]_(Wi!vars) PROVE WireTypes'
  OBVIOUS
<1>1. CASE Wi!AskOpenAI \/ Wi!AskAnthropic
  <2>1. asked' \in Seq(Wi!Turns) /\ stage' = "asked" /\ UNCHANGED <<sent, upstream, conv, agg, event>>
    BY <1>1, AskedAreTurns DEF Wi!AskOpenAI, Wi!AskAnthropic
  <2> QED BY <2>1 DEF WireTypes
<1>10. CASE Wi!ReadMessage
  <2>1. asked' \in Seq(Wi!Turns) /\ UNCHANGED <<stage, sent, upstream, conv, agg, event>>
    BY <1>10, ReadAreTurns DEF Wi!ReadMessage, WireTypes
  <2> QED BY <2>1 DEF WireTypes
<1>2. CASE Wi!Send
  <2>1. PICK p \in Wi!Providers : sent' = [provider |-> p, turns |-> Wi!Prepared(p, asked)]
    BY <1>2 DEF Wi!Send
  <2>2. stage' = "sent" /\ UNCHANGED <<asked, upstream, conv, agg, event>>
    BY <1>2 DEF Wi!Send
  <2>3. Wi!Prepared(p, asked) \in Seq(Wi!Turns)
    BY PreparedAreTurns DEF WireTypes
  <2> QED BY <2>1, <2>2, <2>3 DEF WireTypes
<1>3. CASE Wi!Accepted
  <2>1. PICK i \in BOOLEAN : upstream' = [Wi!NoUpstream EXCEPT !.indexes = i]
    BY <1>3 DEF Wi!Accepted
  <2>2. asked' = <<>> /\ sent' = [provider |-> None, turns |-> <<>>] /\ stage' = "answer"
        /\ UNCHANGED <<conv, agg, event>>
    BY <1>3 DEF Wi!Accepted
  <2>3. upstream'.chunks <= MaxChunks
    BY <2>1, ServiceAssumption DEF Wi!NoUpstream
  <2> QED BY <2>2, <2>3, NoTurns DEF WireTypes
<1>4. CASE Wi!Chunk
  BY <1>4, ChunkKeepsTypes
<1>5. ASSUME NEW why \in {"done", "caller", "error", "reset"}, NEW by \in {None, "caller", "upstream"},
             Wi!Ends(why, by)
      PROVE  stage' = "end" /\ event' \in [status : {None, "succeeded", "failed", "cancelled"},
                                           by : {None, "caller", "upstream"}]
  BY <1>5 DEF Wi!Ends
<1>6. CASE Wi!Done
  <2>1. UNCHANGED <<asked, sent, upstream, agg>>
    BY <1>6 DEF Wi!Done
  <2>2. conv' = conv \/ conv' = Wi!ConsumedDone(conv).c
    BY <1>6 DEF Wi!Done
  <2>3. conv' \in Held
    BY <2>2, ConsumedIsHeld DEF WireTypes
  <2>4. Wi!Ends("caller", "caller") \/ Wi!Ends("done", None)
    BY <1>6 DEF Wi!Done
  <2> QED BY <1>5, <2>1, <2>3, <2>4 DEF WireTypes
<1>7. CASE Wi!Breaks
  <2>1. UNCHANGED <<asked, sent, upstream, conv, agg>>
        /\ \E why \in {"error", "reset"} : Wi!Ends(why, "upstream")
    BY <1>7 DEF Wi!Breaks
  <2> QED BY <1>5, <2>1 DEF WireTypes
<1>8. CASE Wi!Aborted
  <2>1. UNCHANGED <<asked, sent, upstream, conv, agg>> /\ Wi!Ends("caller", "caller")
    BY <1>8 DEF Wi!Aborted
  <2> QED BY <1>5, <2>1 DEF WireTypes
<1>9. CASE Wi!Leaves \/ UNCHANGED Wi!vars
  <2>1. UNCHANGED <<stage, asked, sent, upstream, conv, agg, event>>
    BY <1>9 DEF Wi!Leaves, Wi!vars
  <2> QED BY <2>1 DEF WireTypes
<1> QED BY <1>1, <1>2, <1>3, <1>4, <1>6, <1>7, <1>8, <1>9, <1>10 DEF Wi!Next

LEMMA WireTypesAre == AnswerInv /\ WireTypes => Wi!TypeOK
<1> SUFFICES ASSUME AnswerInv, WireTypes PROVE Wi!TypeOK
  OBVIOUS
<1>1. client \in ClientType /\ upstream \in UpstreamType
  BY DEF AnswerInv, TypeInv
<1>2. upstream.made \in Lists /\ upstream.chunks \in 0 .. MaxChunks
  BY <1>1, ServiceAssumption DEF UpstreamType, WireTypes
<1>3. upstream.made \in Seq(Calls) /\ Wi!IsInjective(upstream.made)
  <2> DEFINE m == upstream.made
  <2>1. m \in Seq(Calls) /\ \A i, j \in DOMAIN m : m[i] = m[j] => i = j
    BY <1>2 DEF Lists
  <2> HIDE DEF m
  <2>2. m \in Seq(Calls) /\ Wi!IsInjective(m)
    BY <2>1 DEF Wi!IsInjective
  <2> QED BY <2>2 DEF m
<1>4. /\ conv.next \in Wi!Indexes /\ conv.active \in Seq(Wi!Indexes)
      /\ \A x \in {conv.text, conv.think} \cup {conv.tool[i] : i \in Wi!Indexes} :
           x \in Wi!Indexes \cup {None}
  BY BlocksAreFew DEF WireTypes
<1> QED BY <1>1, <1>2, <1>3, <1>4 DEF Wi!TypeOK, WireTypes, ClientType

-----------------------------------------------------------------------------
(* The theorems.                                                           *)

LEMMA WireIsIndependent == Spec => Wi!Spec
<1>1. Init => Wi!Init
  BY DEF Init
<1>2. [Next]_serviceVars => [Wi!Next]_(Wi!vars)
  BY DEF Next, serviceVars, wireVars, Wi!vars
<1> QED BY <1>1, <1>2, PTL DEF Spec, Wi!Spec

\* outboundMessage, preparedMessages and intlMessages: whatever messages a client
\* brings, in either protocol and of any number and order of roles and marks, what is
\* sent upstream has no identity phrase in a text that its filter looks at, has the
\* messages it asks for, and keeps the client's messages in their order.
THEOREM UpstreamIsSatisfied == Spec => []UpstreamAccepts
<1>1. Wi!Init => RequestInv
  BY RequestInit
<1>2. RequestInv /\ [Wi!Next]_(Wi!vars) => RequestInv'
  BY RequestNext
<1>3. RequestInv => UpstreamAccepts
  BY RequestIsAccepted DEF UpstreamAccepts
<1> QED BY <1>1, <1>2, <1>3, WireIsIndependent, PTL DEF Wi!Spec

\* processChunk, reserveBlock, stop, normalizeToolCalls and mergeToolCalls: whatever
\* chunks the upstream sends, however many and in whatever order, and whenever the
\* caller leaves or the upstream breaks off, a streamed answer starts its message once
\* and ends it at most once at every moment; as long as no content follows a finish
\* reason its blocks are well-formed and the fragments of two tool calls never mix.
THEOREM AnswersAreWellFormed == Spec => []AnswerIsWellFormed
<1>1. Wi!Init => AnswerInv
  BY AnswerInit
<1>2. AnswerInv /\ [Wi!Next]_(Wi!vars) => AnswerInv'
  BY AnswerNext
<1>3. AnswerInv => AnswerIsWellFormed
  BY AnswerIsFormed DEF AnswerIsWellFormed
<1> QED BY <1>1, <1>2, <1>3, WireIsIndependent, PTL DEF Wi!Spec

\* anthropicStreamConverter and mergeToolCalls: however many fragments the upstream
\* sends, a converter opens one block of thinking, one of text and one of each call,
\* and no index goes beyond them.
LEMMA WireTyped == Spec => []Wi!TypeOK
<1>1. Wi!Init => AnswerInv /\ WireTypes
  BY AnswerInit, WireTypesInit
<1>2. AnswerInv /\ WireTypes /\ [Wi!Next]_(Wi!vars) => (AnswerInv /\ WireTypes)'
  BY AnswerNext, WireTypesNext
<1> QED BY <1>1, <1>2, WireTypesAre, WireIsIndependent, PTL DEF Wi!Spec

-----------------------------------------------------------------------------
(* Types of the composition.                                               *)

\* Every row, snapshot, counter, order and place of every service stays one that the
\* code can hold, for any number of handlers, providers, calls, messages and chunks:
\* no counter passes its bound, no flow is imported more often than it was polled and
\* no converter needs a block beyond those of its calls, its text and its thinking.
THEOREM TypesCorrect == Spec => []TypesOK
<1>1. Spec => [](service \in Services)
  <2>1. Init => service \in Services
    BY DEF Init
  <2>2. service \in Services /\ [Next]_serviceVars => (service \in Services)'
    BY DEF Next, serviceVars
  <2> QED BY <2>1, <2>2, PTL DEF Spec
<1>2. ASSUME service \in Services, Ro!TypeOK, Se!TypeOK, Ru!TypeOK, Pl!TypeOK, Fl!TypeOK,
             Sy!TypeOK, Wi!TypeOK
      PROVE  TypesOK
  BY <1>2 DEF TypesOK, Services
<1>3. CatalogInv => Sy!TypeOK
  BY CatalogTypesAre
<1> QED BY <1>1, <1>2, <1>3, RouterTyped, SettingsTyped, RollupTyped, PlaneTyped, FlowTyped,
           CatalogAlways, WireTyped, PTL

=============================================================================
