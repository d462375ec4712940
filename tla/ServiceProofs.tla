--------------------------- MODULE ServiceProofs ---------------------------
(***************************************************************************)
(* Theorems about the services that Services puts side by side: edits of   *)
(* the settings (Settings), what a change makes live (Plane), accounts      *)
(* of browser sign-ins (OAuthFlow), rows of discovered models (ModelSync),  *)
(* shares of the providers (Router) and buckets of usage (Rollup), for any  *)
(* number of handlers, calls, users, models, requests and rounds.  The      *)
(* services are independent of each other, so what holds of one alone       *)
(* holds of it in the composition.  WireProofs has the theorems about Wire  *)
(* and, from the lemmas of this module on each service (RouterTyped and     *)
(* its like), the types of the composition.                                *)
(***************************************************************************)
EXTENDS Services, SumProofs, Sequences, SequenceTheorems, TLAPS

\* A behaviour of the composition is one of each service.
LEMMA ServicesAreIndependent ==
  Spec => Ro!Spec /\ Se!Spec /\ Ru!Spec /\ Pl!Spec /\ Fl!Spec /\ Sy!Spec
<1>1. Init => Ro!Init /\ Se!Init /\ Ru!Init /\ Pl!Init /\ Fl!Init /\ Sy!Init
  BY DEF Init
<1>2. ASSUME [Next]_serviceVars PROVE [Se!Next]_(Se!vars) /\ [Pl!Next]_(Pl!vars)
  BY <1>2 DEF Next, serviceVars, settingVars, planeVars,
              Se!vars, Pl!vars, Pl!planeData, Pl!routingData
<1>3. ASSUME [Next]_serviceVars PROVE [Fl!Next]_(Fl!vars) /\ [Sy!Next]_(Sy!vars)
  BY <1>3 DEF Next, serviceVars, flowVars, syncVars,
              Fl!vars, Fl!flowData, Fl!rows, Fl!history, Sy!vars
<1>4. ASSUME [Next]_serviceVars PROVE [Ro!Next]_(Ro!vars) /\ [Ru!Next]_(Ru!vars)
  BY <1>4 DEF Next, serviceVars, routerVars, rollupVars, Ro!vars, Ru!vars
<1> QED BY <1>1, <1>2, <1>3, <1>4, PTL
        DEF Spec, Ro!Spec, Se!Spec, Ru!Spec, Pl!Spec, Fl!Spec, Sy!Spec

-----------------------------------------------------------------------------
(* The router.                                                             *)

\* Draws n and counters c of a tier S of weights a: what a provider is owed at any
\* time is what it has gained less what its wins have cost, nobody is in debt by a
\* whole turn, and the debts of a tier cancel.
Even(c, a, n, S) ==
  /\ \A p \in S : c[p] = Sum(n, S) * a[p] - Sum(a, S) * n[p]
  /\ Sum(c, S) = 0
  /\ \A p \in S : c[p] + Sum(a, S) > 0

LEMMA HasMaximum ==
  ASSUME NEW S, IsFiniteSet(S), S # {}, NEW w, \A x \in S : w[x] \in Int
  PROVE  \E x \in S : \A y \in S : w[y] <= w[x]
<1> DEFINE F == {t \in SUBSET S : t # {} /\ ~ \E x \in t : \A y \in t : w[y] <= w[x]}
<1>1. ASSUME F # {} PROVE FALSE
  <2>1. PICK t \in F : \A u \in F : u \subseteq t => u = t
    <3>1. F \in SUBSET SUBSET S
      OBVIOUS
    <3> HIDE DEF F
    <3> QED BY <1>1, <3>1, MinimalSubset
  <2>2. PICK z \in t : TRUE
    OBVIOUS
  <2> DEFINE r == t \ {z}
  <2>3. r \in SUBSET S /\ r # t /\ r \subseteq t
    OBVIOUS
  <2>4. r # {}
    OBVIOUS
  <2>5. PICK x \in r : \A y \in r : w[y] <= w[x]
    BY <2>1, <2>3, <2>4
  <2>6. w[x] \in Int /\ w[z] \in Int
    OBVIOUS
  <2>7. CASE w[z] <= w[x]
    <3>1. \A y \in t : w[y] <= w[x]
      BY <2>5, <2>7
    <3> QED BY <3>1
  <2>8. CASE w[x] <= w[z]
    <3>1. \A y \in t : w[y] <= w[z]
      <4> TAKE y \in t
      <4>1. w[y] \in Int
        OBVIOUS
      <4> QED BY <2>5, <2>6, <2>8, <4>1
    <3> QED BY <3>1
  <2> QED BY <2>6, <2>7, <2>8
<1> QED BY <1>1

\* A draw keeps a tier even: everybody gains its weight and the richest pays.
LEMMA DrawKeepsEven ==
  ASSUME NEW S, IsFiniteSet(S), NEW x \in S,
         NEW a, \A p \in S : a[p] \in Nat \ {0},
         NEW c, \A p \in S : c[p] \in Int,
         NEW n, \A p \in S : n[p] \in Nat,
         Even(c, a, n, S),
         \A p \in S : c[p] + a[p] <= c[x] + a[x],
         NEW d, \A p \in S : d[p] = IF p = x THEN c[p] + a[p] - Sum(a, S) ELSE c[p] + a[p],
         NEW m, \A p \in S : m[p] = IF p = x THEN n[p] + 1 ELSE n[p]
  PROVE  Even(d, a, m, S)
<1> DEFINE W == Sum(a, S)
           N == Sum(n, S)
           e == [p \in S |-> c[p] + a[p]]
<1>1. W \in Nat /\ N \in Nat
  BY SumNat
<1>2. W > 0
  <2>1. a[x] <= W
    <3>1. \A p \in S : a[p] \in Nat
      OBVIOUS
    <3> QED BY <3>1, SumBoundsSummand
  <2>2. a[x] \in Nat \ {0}
    OBVIOUS
  <2> HIDE DEF W
  <2> QED BY <1>1, <2>1, <2>2
<1>3. /\ \A p \in S : e[p] = c[p] + a[p]
      /\ \A p \in S : c[p] \in Int /\ a[p] \in Int /\ e[p] = c[p] + a[p]
      /\ \A p \in S : e[p] \in Int
  OBVIOUS
<1>4. \A p \in S : d[p] \in Int /\ e[p] \in Int /\ (p # x => d[p] = e[p])
  BY <1>1
<1>5. \A p \in S : m[p] \in Int /\ n[p] \in Int /\ (p # x => m[p] = n[p])
  OBVIOUS
<1>6. \A p \in S : c[p] = N * a[p] - W * n[p] /\ c[p] + W > 0
  BY DEF Even
<1>7. Sum(c, S) = 0
  BY DEF Even
<1>8. d[x] = e[x] - W /\ m[x] = n[x] + 1
  <2>1. d[x] = c[x] + a[x] - W /\ m[x] = n[x] + 1
    OBVIOUS
  <2>2. e[x] = c[x] + a[x]
    BY <1>3
  <2>3. d[x] = e[x] - W
    <3>1. c[x] \in Int /\ a[x] \in Int
      OBVIOUS
    <3> HIDE DEF e, W
    <3> QED BY <2>1, <2>2, <3>1, <1>1
  <2> QED BY <2>1, <2>3
<1> HIDE DEF e
<1>9. Sum(e, S) = Sum(c, S) + Sum(a, S)
  BY <1>3, SumAdd
<1>10. Sum(d, S) = Sum(e, S) - e[x] + d[x]
  BY <1>4, SumChange
<1>11. Sum(m, S) = Sum(n, S) - n[x] + m[x]
  BY <1>5, SumChange
<1>12. Sum(m, S) = N + 1
  <2>1. n[x] \in Nat
    OBVIOUS
  <2> HIDE DEF N
  <2>2. Sum(m, S) = N - n[x] + m[x]
    BY <1>11 DEF N
  <2> QED BY <1>1, <1>8, <2>1, <2>2
<1>13. Sum(e, S) = W
  <2> HIDE DEF W
  <2>1. Sum(e, S) = 0 + W
    BY <1>7, <1>9 DEF W
  <2> QED BY <1>1, <2>1
<1>14. Sum(d, S) = 0
  <2>1. e[x] \in Int
    BY <1>4
  <2> HIDE DEF W
  <2> QED BY <1>1, <1>8, <1>10, <1>13, <2>1
<1>15. e[x] > 0
  <2> SUFFICES ASSUME ~ (e[x] > 0) PROVE FALSE
    OBVIOUS
  <2> DEFINE z == [p \in S |-> 0]
  <2>1. \A p \in S : e[p] \in Int /\ z[p] \in Int /\ e[p] <= z[p]
    <3>1. \A p \in S : e[p] <= e[x]
      BY <1>3
    <3>2. e[x] \in Int
      BY <1>3
    <3> QED BY <1>3, <3>1, <3>2
  <2>2. \A p \in S : z[p] = 0
    OBVIOUS
  <2> HIDE DEF z
  <2>3. Sum(e, S) <= Sum(z, S) /\ Sum(z, S) = 0
    BY <2>1, <2>2, SumMonotone, SumZero
  <2> HIDE DEF W
  <2> QED BY <1>1, <1>2, <1>13, <2>3
<1>16. \A p \in S : d[p] + W > 0
  <2> TAKE p \in S
  <2>1. /\ c[p] \in Int /\ a[p] \in Nat /\ c[p] + W > 0 /\ e[p] = c[p] + a[p]
        /\ p = x => d[p] = e[p] - W
        /\ p # x => d[p] = e[p]
    BY <1>3, <1>4, <1>6, <1>8
  <2> HIDE DEF W
  <2> QED BY <1>1, <1>2, <1>15, <2>1
<1>17. \A p \in S : d[p] = (N + 1) * a[p] - W * m[p]
  <2> TAKE p \in S
  <2> DEFINE q == a[p]
             k == n[p]
             y == c[p]
  <2>1. q \in Nat /\ k \in Nat /\ y \in Int /\ y = N * q - W * k
    BY <1>6
  <2>2. d[p] = IF p = x THEN y + q - W ELSE y + q
    OBVIOUS
  <2>3. m[p] = IF p = x THEN k + 1 ELSE k
    OBVIOUS
  <2> HIDE DEF W, N, q, k, y
  <2>4. (N + 1) * q = N * q + q
    BY <1>1, <2>1
  <2>5. W * (k + 1) = W * k + W
    BY <1>1, <2>1
  <2>6. N * q \in Int /\ W * k \in Int
    BY <1>1, <2>1
  <2>7. CASE p = x
    <3>1. W * m[p] = W * k + W /\ d[p] = y + q - W
      BY <2>2, <2>3, <2>5, <2>7
    <3> QED BY <1>1, <2>1, <2>4, <2>6, <3>1 DEF q
  <2>8. CASE p # x
    <3>1. W * m[p] = W * k /\ d[p] = y + q
      BY <2>2, <2>3, <2>8
    <3> QED BY <1>1, <2>1, <2>4, <2>6, <3>1 DEF q
  <2> QED BY <2>7, <2>8
<1> HIDE DEF W, N
<1>18. \A p \in S : d[p] = Sum(m, S) * a[p] - W * m[p]
  BY <1>12, <1>17
<1> QED BY <1>14, <1>16, <1>18 DEF Even, W

\* After whole turns everybody has won its weight per turn.
LEMMA EvenSharesExactly ==
  ASSUME NEW S, IsFiniteSet(S), NEW x \in S,
         NEW a, \A p \in S : a[p] \in Nat \ {0},
         NEW c, \A p \in S : c[p] \in Int,
         NEW n, \A p \in S : n[p] \in Nat,
         Even(c, a, n, S),
         Sum(n, S) % Sum(a, S) = 0
  PROVE  n[x] = a[x] * (Sum(n, S) \div Sum(a, S))
<1> DEFINE W == Sum(a, S)
           N == Sum(n, S)
           k == N \div W
<1>1. W \in Nat /\ N \in Nat
  BY SumNat
<1>2. W > 0
  <2>1. a[x] <= W
    <3>1. \A p \in S : a[p] \in Nat
      OBVIOUS
    <3> QED BY <3>1, SumBoundsSummand
  <2>2. a[x] \in Nat \ {0}
    OBVIOUS
  <2> HIDE DEF W
  <2> QED BY <1>1, <2>1, <2>2
<1>3. N = W * k /\ k \in Nat
  <2>1. N % W = 0
    OBVIOUS
  <2> HIDE DEF W, N
  <2> QED BY <1>1, <1>2, <2>1
<1>4. \A p \in S : c[p] = N * a[p] - W * n[p] /\ c[p] + W > 0
  BY DEF Even
<1>5. Sum(c, S) = 0
  BY DEF Even
<1> HIDE DEF W, N, k
<1>6. ASSUME NEW p \in S PROVE c[p] = W * (k * a[p] - n[p]) /\ k * a[p] - n[p] \in Int
  <2> DEFINE q == a[p]
             l == n[p]
  <2>1. q \in Nat /\ l \in Nat /\ c[p] = N * q - W * l
    BY <1>4
  <2> HIDE DEF q, l
  <2>2. N * q = W * (k * q)
    BY <1>1, <1>3, <2>1
  <2>3. W * (k * q - l) = W * (k * q) - W * l
    BY <1>1, <1>3, <2>1
  <2> QED BY <1>3, <2>1, <2>2, <2>3 DEF q, l
<1>7. ASSUME NEW p \in S PROVE c[p] \in Nat
  <2> DEFINE b == k * a[p] - n[p]
  <2>1. c[p] = W * b /\ b \in Int /\ W * b + W > 0
    BY <1>4, <1>6
  <2> HIDE DEF b
  <2>2. b >= 0
    <3> SUFFICES ASSUME b <= -1 PROVE FALSE
      BY <2>1
    <3>1. W * b <= W * (-1)
      BY <1>1, <2>1
    <3>2. W * b \in Int /\ W * (-1) = -W
      BY <1>1, <2>1
    <3> QED BY <1>1, <2>1, <3>1, <3>2
  <2> QED BY <1>1, <2>1, <2>2
<1>8. c[x] <= Sum(c, S)
  BY <1>7, SumBoundsSummand
<1>9. c[x] = 0
  <2>1. c[x] \in Nat
    BY <1>7
  <2> QED BY <1>5, <1>8, <2>1
<1>10. k * a[x] - n[x] = 0
  <2> DEFINE b == k * a[x] - n[x]
  <2>1. W * b = 0 /\ b \in Int
    BY <1>6, <1>9
  <2> HIDE DEF b
  <2>2. b = 0
    BY <1>1, <1>2, <2>1
  <2> QED BY <2>2 DEF b
<1>11. n[x] = a[x] * k
  <2>1. a[x] \in Nat /\ n[x] \in Nat
    OBVIOUS
  <2> QED BY <1>3, <1>10, <2>1
<1> QED BY <1>11 DEF W, N, k

\* What a tier of a router is, as functions of its policies.
Shares(q) == [p \in Ro!Providers |-> IF q[p].enabled THEN q[p].weight ELSE 0]
Rank(q, t) == {p \in Ro!Providers : Shares(q)[p] > 0 /\ q[p].priority = t}

\* Every tier is even.
Fair(q, c, n) == \A t \in Nat : Rank(q, t) # {} => Even(c, Shares(q), n, Rank(q, t))

LEMMA ProvidersFinite == IsFiniteSet(Ro!Providers)
<1> DEFINE D == 1 .. Len(RouteList)
           f == [i \in D |-> RouteList[i]]
<1>1. Len(RouteList) \in Nat /\ DOMAIN RouteList = D
  BY ServiceAssumption
<1>2. IsFiniteSet(D)
  BY <1>1, FS_Interval
<1>3. Ro!Providers = {RouteList[i] : i \in D}
  BY <1>1 DEF Ro!Providers, Ro!ToSet
<1>4. f \in Surjection(D, Ro!Providers)
  BY <1>3 DEF Surjection
<1> QED BY <1>2, <1>4, FS_Surjection

LEMMA RankFacts ==
  ASSUME NEW q \in Policies, NEW t
  PROVE  /\ IsFiniteSet(Rank(q, t)) /\ Rank(q, t) \in SUBSET Ro!Providers
         /\ \A p \in Ro!Providers : Shares(q)[p] \in Nat
         /\ \A p \in Rank(q, t) : Shares(q)[p] \in Nat \ {0} /\ q[p].priority = t
<1>1. Rank(q, t) \in SUBSET Ro!Providers
  BY DEF Rank
<1>2. IsFiniteSet(Rank(q, t))
  BY <1>1, ProvidersFinite, FS_Subset
<1>3. q \in [Ro!Providers -> [priority : Nat, weight : Nat, enabled : BOOLEAN]]
  BY ServiceAssumption
<1>4. \A p \in Ro!Providers : Shares(q)[p] \in Nat
  BY <1>3 DEF Shares
<1>5. \A p \in Rank(q, t) : Shares(q)[p] > 0 /\ q[p].priority = t
  BY DEF Rank
<1> QED BY <1>1, <1>2, <1>4, <1>5

RouterTypes ==
  /\ router \in Ro!Routers /\ policy \in [Ro!Routers -> Policies]
  /\ counter \in [Ro!Routers -> [Ro!Providers -> Int]]
  /\ wins \in [Ro!Routers -> [Ro!Providers -> Nat]]

LEMMA TierIsRank ==
  ASSUME NEW g, NEW t
  PROVE  /\ Ro!Tier(g, t) = Rank(policy[g], t)
         /\ \A p \in Ro!Providers : Ro!Weight(g, p) = Shares(policy[g])[p]
BY DEF Ro!Tier, Ro!Weight, Rank, Shares

LEMMA TotalIs ==
  ASSUME NEW g, policy[g] \in Policies, NEW t
  PROVE  Ro!Total(g, t) = Sum(Shares(policy[g]), Rank(policy[g], t))
<1> DEFINE S == Ro!Tier(g, t)
           w == Shares(policy[g])
           P(f) == f = [s \in SUBSET S |-> IF s = {} THEN 0
                      ELSE Ro!Weight(g, CHOOSE x \in s : TRUE) + f[s \ {CHOOSE x \in s : TRUE}]]
           h == CHOOSE f : P(f)
<1>1. S = Rank(policy[g], t) /\ \A p \in S : Ro!Weight(g, p) = w[p]
  BY TierIsRank, RankFacts
<1>2. IsFiniteSet(S)
  BY <1>1, RankFacts
<1>3. \A s \in SUBSET S : s # {} => Ro!Weight(g, CHOOSE x \in s : TRUE) = w[Pick(s)]
  <2> HIDE DEF S, w
  <2> QED BY <1>1, PickIn DEF Pick
<1>4. PICK k : Sums(k, S, w)
  <2> HIDE DEF S, w
  <2> QED BY <1>2, SumsExist
<1>5. P(k)
  <2> HIDE DEF S, w
  <2> QED BY <1>3, <1>4 DEF Sums, Pick
<1>6. P(h)
  <2> HIDE DEF S
  <2> QED BY <1>5
<1>7. Ro!Total(g, t) = h[S]
  BY DEF Ro!Total, Ro!MapThenSumSet, Ro!MapThenFoldSet
<1>8. Sums(h, S, w)
  <2> HIDE DEF S, w, h
  <2> QED BY <1>3, <1>6 DEF Sums, Pick
<1>9. Sum(w, S) = h[S]
  <2> HIDE DEF S, w, h
  <2> QED BY <1>2, <1>8, SumIs
<1> QED BY <1>1, <1>7, <1>9

LEMMA DrawnIs ==
  ASSUME NEW g, NEW S, IsFiniteSet(S)
  PROVE  Ro!MapThenSumSet(LAMBDA p : wins[g][p], S) = Sum(wins[g], S)
<1> DEFINE P(f) == f = [s \in SUBSET S |-> IF s = {} THEN 0
                     ELSE wins[g][CHOOSE x \in s : TRUE] + f[s \ {CHOOSE x \in s : TRUE}]]
           h == CHOOSE f : P(f)
<1>1. PICK k : Sums(k, S, wins[g])
  BY SumsExist
<1>2. P(k)
  BY <1>1 DEF Sums, Pick
<1>3. P(h)
  BY <1>2
<1>4. Sums(h, S, wins[g])
  BY <1>3 DEF Sums, Pick
<1>5. Ro!MapThenSumSet(LAMBDA p : wins[g][p], S) = h[S]
  BY DEF Ro!MapThenSumSet, Ro!MapThenFoldSet
<1> HIDE DEF h
<1> QED BY <1>4, <1>5, SumIs

\* The winner of a tier that has providers is one of them and the richest.
LEMMA WinnerIsRichest ==
  ASSUME RouterTypes, NEW g \in Ro!Routers, NEW t, Rank(policy[g], t) # {}
  PROVE  /\ Ro!Winner(g, t) \in Rank(policy[g], t)
         /\ \A q \in Rank(policy[g], t) :
              counter[g][q] + Shares(policy[g])[q]
                <= counter[g][Ro!Winner(g, t)] + Shares(policy[g])[Ro!Winner(g, t)]
<1> DEFINE S == Rank(policy[g], t)
           raised == [p \in S |-> counter[g][p] + Shares(policy[g])[p]]
           at(p) == CHOOSE i \in DOMAIN RouteList : RouteList[i] = p
<1>1. /\ IsFiniteSet(S) /\ S \in SUBSET Ro!Providers
      /\ \A p \in S : counter[g][p] \in Int /\ Shares(policy[g])[p] \in Int
  BY RankFacts DEF RouterTypes
<1>2. \A p \in S : raised[p] \in Int /\ raised[p] = Ro!Raised(g, p)
  <2> TAKE p \in S
  <2>1. Ro!Weight(g, p) = Shares(policy[g])[p]
    BY <1>1, TierIsRank
  <2>2. counter[g][p] \in Int /\ Shares(policy[g])[p] \in Int
    BY <1>1
  <2>3. raised[p] = counter[g][p] + Shares(policy[g])[p]
    OBVIOUS
  <2>4. Ro!Raised(g, p) = counter[g][p] + Shares(policy[g])[p]
    BY <2>1 DEF Ro!Raised
  <2> HIDE DEF raised
  <2> QED BY <2>2, <2>3, <2>4
<1>3. \A p \in S : at(p) \in Nat /\ at(p) \in DOMAIN RouteList /\ RouteList[at(p)] = p
  BY <1>1, ServiceAssumption DEF Ro!Providers, Ro!ToSet
<1>4. Ro!Tier(g, t) = S
  BY TierIsRank
<1>5. S # {}
  OBVIOUS
<1> HIDE DEF S, raised, at
<1>6. PICK x \in S : \A p \in S : raised[p] <= raised[x]
  BY <1>1, <1>2, <1>5, HasMaximum
<1> DEFINE M == {p \in S : raised[p] = raised[x]}
           low == [p \in M |-> 0 - at(p)]
<1>7. /\ IsFiniteSet(M) /\ M # {} /\ M \in SUBSET S
  BY <1>1, <1>6, FS_Subset
<1>8. \A p \in M : low[p] \in Int /\ low[p] = 0 - at(p)
  BY <1>3
<1>9. \A p \in M : raised[p] = raised[x]
  OBVIOUS
<1>10. \A p \in S \ M : raised[p] # raised[x]
  OBVIOUS
<1> HIDE DEF M, low
<1>11. PICK y \in M : \A p \in M : low[p] <= low[y]
  BY <1>7, <1>8, HasMaximum
<1> DEFINE Richest(p) == \A q \in S \ {p} :
             Ro!Raised(g, p) > Ro!Raised(g, q)
               \/ (Ro!Raised(g, p) = Ro!Raised(g, q) /\ Ro!Ahead(p, q))
<1>12. Richest(y)
  <2> SUFFICES ASSUME NEW q \in S \ {y}
               PROVE  Ro!Raised(g, y) > Ro!Raised(g, q)
                        \/ (Ro!Raised(g, y) = Ro!Raised(g, q) /\ Ro!Ahead(y, q))
    OBVIOUS
  <2>1. /\ y \in S /\ raised[y] = raised[x] /\ raised[q] <= raised[x]
        /\ raised[y] \in Int /\ raised[q] \in Int
        /\ raised[y] = Ro!Raised(g, y) /\ raised[q] = Ro!Raised(g, q)
    BY <1>2, <1>6, <1>7, <1>9
  <2>2. CASE raised[q] # raised[x]
    BY <2>1, <2>2
  <2>3. CASE raised[q] = raised[x]
    <3>1. q \in M
      BY <1>10, <2>3
    <3>2. low[q] <= low[y] /\ low[q] = 0 - at(q) /\ low[y] = 0 - at(y)
      BY <1>8, <1>11, <3>1
    <3>3. at(q) \in Nat /\ at(y) \in Nat
      BY <1>3, <2>1
    <3>4. at(y) <= at(q)
      BY <3>2, <3>3
    <3>5. at(y) # at(q)
      BY <1>3, <2>1
    <3>6. at(y) < at(q)
      BY <3>3, <3>4, <3>5
    <3>7. Ro!Ahead(y, q)
      BY <1>3, <2>1, <3>6 DEF Ro!Ahead
    <3> QED BY <2>1, <2>3, <3>7
  <2> QED BY <2>2, <2>3
<1>13. y \in S
  BY <1>7
<1>14. Ro!Winner(g, t) \in S /\ Richest(Ro!Winner(g, t))
  <2>1. Ro!Winner(g, t) = CHOOSE p \in S : Richest(p)
    BY <1>4 DEF Ro!Winner
  <2> HIDE DEF Richest
  <2> QED BY <1>12, <1>13, <2>1
<1>15. \A q \in S : raised[q] <= raised[Ro!Winner(g, t)]
  <2> DEFINE z == Ro!Winner(g, t)
  <2> TAKE q \in S
  <2>1. z \in S /\ (q # z => Ro!Raised(g, z) > Ro!Raised(g, q) \/ Ro!Raised(g, z) = Ro!Raised(g, q))
    BY <1>14
  <2> HIDE DEF z
  <2>2. raised[q] <= raised[z]
    BY <1>2, <2>1
  <2> QED BY <2>2 DEF z
<1> QED BY <1>14, <1>15 DEF S, raised

LEMMA FreshIsFair ==
  ASSUME NEW q \in Policies, NEW c, NEW n,
         \A p \in Ro!Providers : c[p] = 0 /\ n[p] = 0
  PROVE  Fair(q, c, n)
<1> SUFFICES ASSUME NEW t \in Nat, Rank(q, t) # {}
             PROVE  Even(c, Shares(q), n, Rank(q, t))
  BY DEF Fair
<1> DEFINE S == Rank(q, t)
           a == Shares(q)
           W == Sum(a, S)
<1>1. IsFiniteSet(S) /\ \A p \in S : c[p] = 0 /\ n[p] = 0 /\ a[p] \in Nat \ {0}
  BY RankFacts
<1>2. PICK x \in S : TRUE
  OBVIOUS
<1> HIDE DEF S, a
<1>3. \A p \in S : a[p] \in Nat
  BY <1>1
<1>4. W \in Nat /\ a[x] <= W
  BY <1>1, <1>3, SumNat, SumBoundsSummand
<1>5. W > 0
  <2>1. a[x] \in Nat \ {0}
    BY <1>1
  <2> HIDE DEF W
  <2> QED BY <1>4, <2>1
<1>6. Sum(c, S) = 0 /\ Sum(n, S) = 0
  BY <1>1, SumZero
<1>7. \A p \in S : c[p] = 0 * a[p] - W * n[p] /\ c[p] + W > 0
  <2> TAKE p \in S
  <2>1. c[p] = 0 /\ n[p] = 0 /\ a[p] \in Nat
    BY <1>1
  <2> HIDE DEF W
  <2> QED BY <1>4, <1>5, <2>1
<1> QED BY <1>6, <1>7 DEF Even, S, a

\* A draw keeps every tier even.
LEMMA DrawIsFair ==
  ASSUME RouterTypes, NEW g \in Ro!Routers,
         Fair(policy[g], counter[g], wins[g]),
         NEW m, \A p \in Ro!Providers :
           m[p] = IF p \in Ro!Winners(g) THEN wins[g][p] + 1 ELSE wins[g][p]
  PROVE  Fair(policy[g], Ro!Paid(g), m)
<1> SUFFICES ASSUME NEW t \in Nat, Rank(policy[g], t) # {}
             PROVE  Even(Ro!Paid(g), Shares(policy[g]), m, Rank(policy[g], t))
  BY DEF Fair
<1> DEFINE S == Rank(policy[g], t)
           a == Shares(policy[g])
           c == counter[g]
           n == wins[g]
           d == Ro!Paid(g)
           x == Ro!Winner(g, t)
<1>1. policy[g] \in Policies
  BY DEF RouterTypes
<1>2. IsFiniteSet(S) /\ S \in SUBSET Ro!Providers
  BY <1>1, RankFacts
<1>3. \A p \in S : a[p] \in Nat \ {0} /\ policy[g][p].priority = t
  BY <1>1, RankFacts
<1>4. \A p \in S : c[p] \in Int /\ n[p] \in Nat
  BY <1>2 DEF RouterTypes
<1>5. x \in S /\ \A p \in S : c[p] + a[p] <= c[x] + a[x]
  BY WinnerIsRichest
<1>6. t \in Ro!Tiers(g)
  <2>1. x \in Ro!Providers /\ Ro!Weight(g, x) > 0 /\ policy[g][x].priority = t
    BY <1>2, <1>5, TierIsRank DEF Rank
  <2> QED BY <2>1 DEF Ro!Tiers
<1>7. \A p \in S : p \in Ro!Winners(g) <=> p = x
  <2>1. x \in Ro!Winners(g)
    BY <1>6 DEF Ro!Winners
  <2>2. ASSUME NEW p \in S, p \in Ro!Winners(g) PROVE p = x
    <3>1. PICK k \in Ro!Tiers(g) : p = Ro!Winner(g, k)
      BY <2>2 DEF Ro!Winners
    <3>2. Rank(policy[g], k) # {}
      BY <3>1, TierIsRank DEF Ro!Tiers, Ro!Tier
    <3>3. p \in Rank(policy[g], k)
      BY <3>1, <3>2, WinnerIsRichest
    <3>4. policy[g][p].priority = k
      BY <3>3 DEF Rank
    <3> QED BY <1>3, <3>1, <3>4
  <2> QED BY <2>1, <2>2
<1>8. \A p \in S : d[p] = IF p = x THEN c[p] + a[p] - Sum(a, S) ELSE c[p] + a[p]
  <2> TAKE p \in S
  <2>1. Ro!Weight(g, p) = a[p] /\ a[p] \in Nat \ {0} /\ p \in Ro!Providers
        /\ policy[g][p].priority = t /\ c[p] \in Int
    BY <1>2, <1>3, <1>4, TierIsRank
  <2>2. Ro!Total(g, t) = Sum(a, S)
    BY <1>1, TotalIs
  <2>3. Ro!Raised(g, p) = c[p] + a[p]
    BY <2>1 DEF Ro!Raised
  <2>4. d[p] = Ro!Raised(g, p) - (IF p \in Ro!Winners(g) THEN Ro!Total(g, t) ELSE 0)
    BY <2>1 DEF Ro!Paid
  <2>5. p \in Ro!Winners(g) <=> p = x
    BY <1>7
  <2> HIDE DEF S, a, c, d, x
  <2>6. CASE p = x
    <3>1. d[p] = Ro!Raised(g, p) - Ro!Total(g, t)
      BY <2>4, <2>5, <2>6
    <3>2. d[p] = (c[p] + a[p]) - Sum(a, S)
      BY <2>2, <2>3, <3>1
    <3>3. \A o \in S : a[o] \in Nat
      BY <1>3
    <3>4. Sum(a, S) \in Nat
      BY <1>2, <3>3, SumNat
    <3> QED BY <2>1, <2>6, <3>2, <3>4
  <2>7. CASE p # x
    <3>1. Ro!Raised(g, p) \in Int
      BY <2>1, <2>3
    <3>2. d[p] = Ro!Raised(g, p) - 0
      BY <2>4, <2>5, <2>7
    <3>3. d[p] = Ro!Raised(g, p)
      BY <3>1, <3>2
    <3> QED BY <2>3, <2>7, <3>3
  <2> QED BY <2>6, <2>7
<1>9. \A p \in S : m[p] = IF p = x THEN n[p] + 1 ELSE n[p]
  BY <1>2, <1>7
<1>10. Even(c, a, n, S)
  BY DEF Fair
<1>11. /\ \A p \in S : a[p] \in Nat \ {0}
       /\ \A p \in S : c[p] \in Int
       /\ \A p \in S : n[p] \in Nat
  BY <1>3, <1>4
<1> HIDE DEF S, a, c, n, d, x
<1>12. Even(d, a, m, S)
  BY <1>2, <1>5, <1>8, <1>9, <1>10, <1>11, DrawKeepsEven
<1> QED BY <1>12 DEF S, a, d

\* The tiers of every router stay even, and one that is still to come has none.
RouterInv ==
  /\ RouterTypes
  /\ \A g \in Ro!Routers :
       /\ Fair(policy[g], counter[g], wins[g])
       /\ g > router => \A p \in Ro!Providers : counter[g][p] = 0 /\ wins[g][p] = 0

LEMMA RouterInit == Ro!Init => RouterInv
<1> SUFFICES ASSUME Ro!Init PROVE RouterInv
  OBVIOUS
<1>1. PICK q \in Policies : policy = [g \in Ro!Routers |-> q]
  BY DEF Ro!Init
<1>2. /\ router = 0 /\ counter = [g \in Ro!Routers |-> [p \in Ro!Providers |-> 0]]
      /\ wins = [g \in Ro!Routers |-> [p \in Ro!Providers |-> 0]]
  BY DEF Ro!Init
<1>3. 0 \in Ro!Routers
  BY ServiceAssumption DEF Ro!Routers
<1>4. RouterTypes
  BY <1>1, <1>2, <1>3 DEF RouterTypes
<1>5. \A g \in Ro!Routers : \A p \in Ro!Providers : counter[g][p] = 0 /\ wins[g][p] = 0
  BY <1>2
<1>6. \A g \in Ro!Routers : policy[g] \in Policies
  BY <1>4 DEF RouterTypes
<1>7. \A g \in Ro!Routers : Fair(policy[g], counter[g], wins[g])
  BY <1>5, <1>6, FreshIsFair
<1> QED BY <1>4, <1>5, <1>7 DEF RouterInv

LEMMA RouterNext ==
  ASSUME RouterInv, Ro!Next
  PROVE  RouterInv'
<1>1. RouterTypes /\ router \in Ro!Routers
  BY DEF RouterInv, RouterTypes
<1>2. ASSUME NEW r \in Requests, Ro!Begin(r) PROVE RouterInv'
  <2> DEFINE m == [p \in Ro!Providers |->
                    IF p \in Ro!Winners(router) THEN wins[router][p] + 1 ELSE wins[router][p]]
  <2>1. /\ router' = router /\ policy' = policy
        /\ counter' = [counter EXCEPT ![router] = Ro!Paid(router)]
        /\ wins' = [wins EXCEPT ![router] = m]
    BY <1>2 DEF Ro!Begin
  <2>2. \A p \in Ro!Providers :
          m[p] = IF p \in Ro!Winners(router) THEN wins[router][p] + 1 ELSE wins[router][p]
    OBVIOUS
  <2>3. m \in [Ro!Providers -> Nat]
    BY <1>1 DEF RouterTypes
  <2> HIDE DEF m
  <2>4. Fair(policy[router], counter[router], wins[router])
    BY <1>1 DEF RouterInv
  <2>5. Fair(policy[router], Ro!Paid(router), m)
    BY <1>1, <2>2, <2>4, DrawIsFair
  <2>6. Ro!Paid(router) \in [Ro!Providers -> Int]
    <3>1. policy[router] \in Policies
      BY <1>1 DEF RouterTypes
    <3>2. ASSUME NEW p \in Ro!Providers
          PROVE  /\ Ro!Weight(router, p) \in Nat /\ counter[router][p] \in Int
                 /\ Ro!Total(router, policy[router][p].priority) \in Nat
      <4> DEFINE S == Rank(policy[router], policy[router][p].priority)
      <4>1. IsFiniteSet(S) /\ S \in SUBSET Ro!Providers
        BY <3>1, RankFacts
      <4>2. \A o \in Ro!Providers : Shares(policy[router])[o] \in Nat
        BY <3>1, RankFacts
      <4>3. \A o \in S : Shares(policy[router])[o] \in Nat
        BY <4>1, <4>2
      <4>4. Ro!Total(router, policy[router][p].priority) = Sum(Shares(policy[router]), S)
        BY <3>1, TotalIs
      <4>5. Sum(Shares(policy[router]), S) \in Nat
        BY <4>1, <4>3, SumNat
      <4>6. Ro!Weight(router, p) = Shares(policy[router])[p]
        BY TierIsRank
      <4>7. counter[router][p] \in Int
        BY <1>1 DEF RouterTypes
      <4> QED BY <4>2, <4>4, <4>5, <4>6, <4>7
    <3> QED BY <3>2 DEF Ro!Paid, Ro!Raised
  <2>7. RouterTypes'
    BY <1>1, <2>1, <2>3, <2>6 DEF RouterTypes
  <2>8. ASSUME NEW g \in Ro!Routers
        PROVE  /\ Fair(policy'[g], counter'[g], wins'[g])
               /\ g > router' =>
                    \A p \in Ro!Providers : counter'[g][p] = 0 /\ wins'[g][p] = 0
    <3>1. /\ counter \in [Ro!Routers -> [Ro!Providers -> Int]]
          /\ wins \in [Ro!Routers -> [Ro!Providers -> Nat]]
      BY <1>1 DEF RouterTypes
    <3>2. CASE g = router
      <4>1. counter'[g] = Ro!Paid(router) /\ wins'[g] = m /\ policy'[g] = policy[router]
        BY <2>1, <3>1, <3>2
      <4>2. ~ (g > router')
        BY <2>1, <3>2 DEF Ro!Routers
      <4> QED BY <2>5, <4>1, <4>2
    <3>3. CASE g # router
      <4>1. counter'[g] = counter[g] /\ wins'[g] = wins[g] /\ policy'[g] = policy[g]
        BY <2>1, <3>1, <3>3
      <4> QED BY <2>1, <4>1 DEF RouterInv
    <3> QED BY <3>2, <3>3
  <2> QED BY <2>7, <2>8 DEF RouterInv
<1>3. CASE Ro!Reload
  <2>1. PICK q \in Policies : policy' = [policy EXCEPT ![router + 1] = q]
    BY <1>3 DEF Ro!Reload
  <2>2. /\ router < MaxReload /\ router' = router + 1
        /\ counter' = counter /\ wins' = wins
    BY <1>3 DEF Ro!Reload
  <2>3. router' \in Ro!Routers /\ router \in Int
    BY <1>1, <2>2, ServiceAssumption DEF Ro!Routers
  <2>4. RouterTypes'
    BY <1>1, <2>1, <2>2, <2>3 DEF RouterTypes
  <2>5. ASSUME NEW g \in Ro!Routers
        PROVE  /\ Fair(policy'[g], counter'[g], wins'[g])
               /\ g > router' =>
                    \A p \in Ro!Providers : counter'[g][p] = 0 /\ wins'[g][p] = 0
    <3>1. policy \in [Ro!Routers -> Policies]
      BY <1>1 DEF RouterTypes
    <3>2. g \in Int
      BY DEF Ro!Routers
    <3>3. CASE g = router + 1
      <4>1. g > router
        BY <2>3, <3>2, <3>3
      <4>2. \A p \in Ro!Providers : counter[g][p] = 0 /\ wins[g][p] = 0
        BY <4>1 DEF RouterInv
      <4>3. policy'[g] = q
        BY <2>1, <3>1, <3>3
      <4>4. Fair(q, counter[g], wins[g])
        BY <4>2, FreshIsFair
      <4> QED BY <2>2, <4>2, <4>3, <4>4
    <3>4. CASE g # router + 1
      <4>1. policy'[g] = policy[g]
        BY <2>1, <3>1, <3>4
      <4>2. g > router' => g > router
        BY <2>2, <2>3, <3>2
      <4> QED BY <2>2, <4>1, <4>2 DEF RouterInv
    <3> QED BY <3>3, <3>4
  <2> QED BY <2>4, <2>5 DEF RouterInv
<1>4. ASSUME UNCHANGED <<router, policy, counter, wins>> PROVE RouterInv'
  BY <1>4 DEF RouterInv, RouterTypes
<1> QED BY <1>2, <1>3, <1>4
        DEF Ro!Next, Ro!RequestStep, Ro!Lookup, Ro!Try, Ro!CallReturns, Ro!CallFails,
            Ro!Peek, Ro!Forget, Ro!StreamEnds, Ro!StreamFails, Ro!CooldownEnds, Ro!PinEnds

LEMMA RouterAlways == Spec => []RouterInv
<1>1. ASSUME RouterInv, [Ro!Next]_(Ro!vars) PROVE RouterInv'
  <2>1. CASE Ro!Next
    BY <1>1, <2>1, RouterNext
  <2>2. CASE UNCHANGED Ro!vars
    BY <1>1, <2>2 DEF Ro!vars, RouterInv, RouterTypes
  <2> QED BY <1>1, <2>1, <2>2
<1> QED BY <1>1, RouterInit, ServicesAreIndependent, PTL DEF Ro!Spec

\* RouteScheduler.draw: after any number of whole turns of a tier each provider has won
\* exactly its weight per turn, for any catalog, policies, requests and reloads.
THEOREM TiersServeByWeight == Spec => []SharesAreExact
<1>1. ASSUME RouterInv PROVE Ro!SharesAreExact
  <2> SUFFICES ASSUME NEW g \in Ro!Routers, NEW t \in Ro!Tiers(g),
                      Ro!MapThenSumSet(LAMBDA p : wins[g][p], Ro!Tier(g, t)) % Ro!Total(g, t) = 0,
                      NEW x \in Ro!Tier(g, t)
               PROVE  wins[g][x] = Ro!Weight(g, x)
                 * (Ro!MapThenSumSet(LAMBDA p : wins[g][p], Ro!Tier(g, t)) \div Ro!Total(g, t))
    BY DEF Ro!SharesAreExact
  <2> DEFINE S == Rank(policy[g], t)
             a == Shares(policy[g])
  <2>1. policy[g] \in Policies
    BY <1>1 DEF RouterInv, RouterTypes
  <2>2. Ro!Tier(g, t) = S /\ x \in S /\ IsFiniteSet(S) /\ S \in SUBSET Ro!Providers
    BY <2>1, TierIsRank, RankFacts
  <2>3. /\ \A p \in S : a[p] \in Nat \ {0}
        /\ \A p \in S : counter[g][p] \in Int
        /\ \A p \in S : wins[g][p] \in Nat
    BY <1>1, <2>1, <2>2, RankFacts DEF RouterInv, RouterTypes
  <2>4. Ro!Weight(g, x) = a[x]
    BY <2>2, TierIsRank
  <2>5. t \in Nat
    BY <2>1, ServiceAssumption DEF Ro!Tiers
  <2>6. Even(counter[g], a, wins[g], S)
    BY <1>1, <2>2, <2>5 DEF RouterInv, Fair
  <2>7. Ro!Total(g, t) = Sum(a, S)
    BY <2>1, TotalIs
  <2>8. Ro!MapThenSumSet(LAMBDA p : wins[g][p], S) = Sum(wins[g], S)
    BY <2>2, DrawnIs
  <2>9. Ro!MapThenSumSet(LAMBDA p : wins[g][p], Ro!Tier(g, t)) = Sum(wins[g], S)
    BY <2>2, <2>8
  <2>10. Sum(wins[g], S) % Sum(a, S) = 0
    BY <2>7, <2>9
  <2> HIDE DEF S, a
  <2>11. wins[g][x] = a[x] * (Sum(wins[g], S) \div Sum(a, S))
    BY <2>2, <2>3, <2>6, <2>10, EvenSharesExactly
  <2> QED BY <2>4, <2>7, <2>9, <2>11 DEF S, a
<1>2. Ro!SharesAreExact => SharesAreExact
  BY DEF SharesAreExact
<1> QED BY <1>1, <1>2, RouterAlways, PTL

-----------------------------------------------------------------------------
(* The router: orders.                                                     *)

\* A strict order of finitely many elements has an element in every place: below says
\* which elements come before one.
LEMMA EveryPlaceIsTaken ==
  ASSUME NEW S, IsFiniteSet(S), NEW below \in [S -> SUBSET S],
         \A p \in S : p \notin below[p],
         \A p, q \in S : p \in below[q] => below[p] \subseteq below[q],
         \A p, q \in S : p = q \/ p \in below[q] \/ q \in below[p],
         NEW n \in 0 .. Cardinality(S) - 1
  PROVE  \E p \in S : Cardinality(below[p]) = n
<1> DEFINE N == Cardinality(S)
           T == 0 .. N - 1
           f == [p \in S |-> Cardinality(below[p])]
<1>1. N \in Nat /\ N > 0
  BY FS_CardinalityType
<1>2. ASSUME NEW p \in S PROVE /\ IsFiniteSet(below[p]) /\ Cardinality(below[p]) \in T
  <2>1. below[p] \in SUBSET (S \ {p})
    OBVIOUS
  <2>2. IsFiniteSet(S \ {p}) /\ Cardinality(S \ {p}) = N - 1
    BY FS_RemoveElement
  <2>3. IsFiniteSet(below[p]) /\ Cardinality(below[p]) <= N - 1 /\ Cardinality(below[p]) \in Nat
    BY <2>1, <2>2, FS_Subset, FS_CardinalityType
  <2> HIDE DEF N
  <2> QED BY <1>1, <2>3
<1>3. ASSUME NEW p \in S, NEW q \in S, p \in below[q] PROVE Cardinality(below[p]) # Cardinality(below[q])
  <2>1. below[p] \in SUBSET below[q] /\ below[p] # below[q]
    BY <1>3
  <2> QED BY <1>2, <2>1, FS_Subset
<1>4. f \in Injection(S, T)
  <2>1. f \in [S -> T]
    BY <1>2
  <2>2. \A p, q \in S : f[p] = f[q] => p = q
    BY <1>3
  <2> QED BY <2>1, <2>2 DEF Injection, IsInjective
<1>5. IsFiniteSet(T) /\ Cardinality(T) = N
  <2> HIDE DEF N
  <2>1. N - 1 \in Int /\ 0 \in Int /\ ~ (0 > N - 1) /\ N - 1 - 0 + 1 = N
    BY <1>1
  <2> QED BY <2>1, FS_Interval
<1>6. f \in Surjection(S, T)
  <2> HIDE DEF f, T
  <2> QED BY <1>4, <1>5, FS_Injection
<1>7. PICK p \in S : f[p] = n
  BY <1>6 DEF Surjection
<1> QED BY <1>7

\* The place of a provider in the catalog.
Place(p) == CHOOSE i \in DOMAIN RouteList : RouteList[i] = p

LEMMA PlacesOfTheCatalog ==
  /\ Len(RouteList) \in Nat /\ DOMAIN RouteList = 1 .. Len(RouteList)
  /\ \A p \in Ro!Providers : Place(p) \in DOMAIN RouteList /\ RouteList[Place(p)] = p
  /\ \A p, q \in Ro!Providers : Ro!Ahead(p, q) <=> Place(p) < Place(q)
  /\ \A p, q \in Ro!Providers : Place(p) = Place(q) => p = q
  /\ Cardinality(Ro!Providers) = Len(RouteList)
<1>1. /\ Len(RouteList) \in Nat /\ DOMAIN RouteList = 1 .. Len(RouteList)
      /\ RouteList \in Seq(Ro!Providers)
  BY ServiceAssumption
<1>2. ASSUME NEW i \in DOMAIN RouteList, NEW j \in DOMAIN RouteList, RouteList[i] = RouteList[j]
      PROVE  i = j
  BY <1>2, ServiceAssumption DEF Ro!IsInjective
<1>3. \A p \in Ro!Providers : Place(p) \in DOMAIN RouteList /\ RouteList[Place(p)] = p
  BY DEF Ro!Providers, Ro!ToSet, Place
<1>4. \A p, q \in Ro!Providers : Ro!Ahead(p, q) <=> Place(p) < Place(q)
  BY <1>2, <1>3 DEF Ro!Ahead
<1>5. \A p, q \in Ro!Providers : Place(p) = Place(q) => p = q
  BY <1>3
<1>6. Cardinality(Ro!Providers) = Len(RouteList)
  <2> DEFINE f == [p \in Ro!Providers |-> Place(p)]
  <2>1. f \in Injection(Ro!Providers, 1 .. Len(RouteList))
    BY <1>1, <1>3, <1>5 DEF Injection, IsInjective
  <2>2. f \in Surjection(Ro!Providers, 1 .. Len(RouteList))
    <3>1. \A i \in 1 .. Len(RouteList) : RouteList[i] \in Ro!Providers
      BY <1>1
    <3>2. \A i \in 1 .. Len(RouteList) : f[RouteList[i]] = i
      BY <1>1, <1>2, <1>3, <3>1
    <3>3. f \in [Ro!Providers -> 1 .. Len(RouteList)]
      BY <1>1, <1>3
    <3> HIDE DEF f
    <3> QED BY <3>1, <3>2, <3>3 DEF Surjection
  <2>3. IsFiniteSet(1 .. Len(RouteList)) /\ Cardinality(1 .. Len(RouteList)) = Len(RouteList)
    BY <1>1, FS_Interval
  <2> HIDE DEF f
  <2> QED BY <2>1, <2>2, <2>3, FS_Injection
<1> QED BY <1>1, <1>3, <1>4, <1>5, <1>6

\* Before compares four numbers, one after another.
Keys == [last : 0 .. 1, tier : Nat, loser : 0 .. 1, place : Nat]
Key(g, p) ==
  [last |-> IF Ro!Weight(g, p) = 0 THEN 1 ELSE 0,
   tier |-> IF Ro!Weight(g, p) = 0 THEN 0 ELSE policy[g][p].priority,
   loser |-> IF p \in Ro!Winners(g) THEN 0 ELSE 1,
   place |-> Place(p)]
Less(k, l) ==
  \/ k.last < l.last
  \/ k.last = l.last /\ k.tier < l.tier
  \/ k.last = l.last /\ k.tier = l.tier /\ k.loser < l.loser
  \/ k.last = l.last /\ k.tier = l.tier /\ k.loser = l.loser /\ k.place < l.place

LEMMA LessIsAnOrder ==
  /\ \A k \in Keys : ~ Less(k, k)
  /\ \A k, l, m \in Keys : Less(k, l) /\ Less(l, m) => Less(k, m)
  /\ \A k, l \in Keys : k.place = l.place \/ Less(k, l) \/ Less(l, k)
<1>1. \A k \in Keys : k.last \in Int /\ k.tier \in Int /\ k.loser \in Int /\ k.place \in Int
  BY DEF Keys
<1> QED BY <1>1 DEF Less

LEMMA BeforeIsLess ==
  ASSUME NEW g, policy[g] \in Policies, NEW p \in Ro!Providers, NEW q \in Ro!Providers
  PROVE  /\ Key(g, p) \in Keys
         /\ Ro!Before(g, p, q) <=> Less(Key(g, p), Key(g, q))
<1>1. ASSUME NEW x \in Ro!Providers PROVE Key(g, x) \in Keys
  <2>1. policy[g][x].priority \in Nat
    BY ServiceAssumption
  <2>2. Place(x) \in Nat
    BY PlacesOfTheCatalog
  <2> QED BY <2>1, <2>2 DEF Key, Keys
<1>2. Ro!Ahead(p, q) <=> Place(p) < Place(q)
  BY PlacesOfTheCatalog
<1>3. policy[g][p].priority \in Nat /\ policy[g][q].priority \in Nat
  BY ServiceAssumption
<1>4. Ro!Before(g, p, q) <=> Less(Key(g, p), Key(g, q))
  BY <1>2, <1>3 DEF Ro!Before, Less, Key
<1> QED BY <1>1, <1>4

\* Each provider once, or some of them.
Orders ==
  {s \in Seq(Ro!Providers) : /\ Len(s) <= Len(RouteList)
                             /\ \A i, j \in 1 .. Len(s) : s[i] = s[j] => i = j}

\* RouteScheduler.Order: every route of the catalog, once.
LEMMA OrderIsAnOrder ==
  ASSUME NEW g, policy[g] \in Policies
  PROVE  Ro!Order(g) \in Orders
<1> DEFINE S == Ro!Providers
           below == [p \in S |-> {q \in S : Ro!Before(g, q, p)}]
<1>1. /\ IsFiniteSet(S) /\ Cardinality(S) = Len(RouteList)
      /\ Len(RouteList) \in Nat /\ DOMAIN RouteList = 1 .. Len(RouteList)
  BY ProvidersFinite, PlacesOfTheCatalog
<1>2. \A p \in S : Key(g, p) \in Keys
  BY BeforeIsLess
<1>3. \A p, q \in S : q \in below[p] <=> Less(Key(g, q), Key(g, p))
  BY BeforeIsLess
<1>4. \A p, q \in S : Key(g, p).place = Key(g, q).place => p = q
  BY PlacesOfTheCatalog DEF Key
<1>5. below \in [S -> SUBSET S]
  OBVIOUS
<1>6. ASSUME NEW i \in 1 .. Len(RouteList)
      PROVE  \E p \in S : Cardinality(below[p]) = i - 1
  <2> HIDE DEF below, S
  <2>1. \A p \in S : p \notin below[p]
    BY <1>2, <1>3, LessIsAnOrder
  <2>2. \A p, q \in S : p \in below[q] => below[p] \subseteq below[q]
    <3> SUFFICES ASSUME NEW p \in S, NEW q \in S, p \in below[q], NEW o \in below[p]
                 PROVE  o \in below[q]
      OBVIOUS
    <3>1. o \in S
      BY <1>5
    <3> QED BY <1>2, <1>3, <3>1, LessIsAnOrder
  <2>3. \A p, q \in S : p = q \/ p \in below[q] \/ q \in below[p]
    BY <1>2, <1>3, <1>4, LessIsAnOrder
  <2>4. i - 1 \in 0 .. Cardinality(S) - 1
    BY <1>1
  <2> QED BY <1>1, <1>5, <2>1, <2>2, <2>3, <2>4, EveryPlaceIsTaken
<1> DEFINE o == Ro!Order(g)
<1>7. \A T : Ro!Cardinality(T) = Cardinality(T)
  BY DEF Ro!Cardinality, Cardinality
<1>8. ASSUME NEW i \in 1 .. Len(RouteList)
      PROVE  o[i] \in S /\ Cardinality(below[o[i]]) = i - 1
  <2>1. o[i] = CHOOSE p \in S : Ro!Cardinality({q \in S : Ro!Before(g, q, p)}) = i - 1
    BY <1>1 DEF Ro!Order
  <2>2. o[i] = CHOOSE p \in S : Cardinality({q \in S : Ro!Before(g, q, p)}) = i - 1
    BY <1>7, <2>1
  <2>3. \E p \in S : Cardinality({q \in S : Ro!Before(g, q, p)}) = i - 1
    BY <1>6
  <2>4. o[i] \in S /\ Cardinality({q \in S : Ro!Before(g, q, o[i])}) = i - 1
    BY <2>2, <2>3
  <2> QED BY <2>4
<1> DEFINE at(i) == CHOOSE p \in S : Ro!Cardinality({q \in S : Ro!Before(g, q, p)}) = i - 1
           h == [i \in 1 .. Len(RouteList) |-> at(i)]
<1>9. o = [i \in 1 .. Len(RouteList) |-> o[i]]
  <2>1. o = h
    BY <1>1 DEF Ro!Order
  <2> HIDE DEF at
  <2>2. h = [i \in 1 .. Len(RouteList) |-> h[i]]
    OBVIOUS
  <2> HIDE DEF o, h
  <2> QED BY <2>1, <2>2
<1> HIDE DEF o, below
<1>10. o \in [1 .. Len(RouteList) -> S]
  BY <1>8, <1>9
<1>11. o \in Seq(S) /\ Len(o) = Len(RouteList)
  BY <1>1, <1>10
<1>12. \A i, j \in 1 .. Len(o) : o[i] = o[j] => i = j
  BY <1>1, <1>8, <1>11
<1>13. o \in Orders
  BY <1>1, <1>11, <1>12 DEF Orders
<1> QED BY <1>13 DEF o


LEMMA TailIsAnOrder ==
  ASSUME NEW s \in Orders, s # <<>>
  PROVE  /\ Tail(s) \in Orders /\ Head(s) = s[1] /\ s[1] \in Ro!Providers
         /\ Len(s) \in Nat \ {0} /\ Len(Tail(s)) = Len(s) - 1
         /\ \A i \in 1 .. Len(Tail(s)) : i + 1 \in 2 .. Len(s) /\ Tail(s)[i] = s[i + 1]
         /\ \A i \in 1 .. Len(Tail(s)) : Tail(s)[i] # s[1]
<1>1. s \in Seq(Ro!Providers) /\ Len(s) <= Len(RouteList) /\ Len(RouteList) \in Nat
  BY PlacesOfTheCatalog DEF Orders
<1>2. Len(s) \in Nat \ {0} /\ Head(s) = s[1] /\ s[1] \in Ro!Providers
  BY <1>1, EmptySeq
<1>3. /\ Tail(s) \in Seq(Ro!Providers) /\ Len(Tail(s)) = Len(s) - 1
      /\ \A i \in 1 .. Len(Tail(s)) : Tail(s)[i] = s[i + 1]
  BY <1>1, HeadTailProperties
<1>4. \A i, j \in 1 .. Len(s) : s[i] = s[j] => i = j
  BY DEF Orders
<1>5. \A i \in 1 .. Len(Tail(s)) : i + 1 \in 2 .. Len(s) /\ i + 1 \in 1 .. Len(s)
  BY <1>2, <1>3
<1>6. \A i, j \in 1 .. Len(Tail(s)) : Tail(s)[i] = Tail(s)[j] => i = j
  BY <1>3, <1>4, <1>5
<1>7. \A i \in 1 .. Len(Tail(s)) : Tail(s)[i] # s[1]
  <2>1. 1 \in 1 .. Len(s)
    BY <1>2
  <2>2. \A i \in 1 .. Len(Tail(s)) : i + 1 # 1
    BY <1>5
  <2> QED BY <1>3, <1>4, <1>5, <2>1, <2>2
<1> DEFINE t == Tail(s)
<1>8. t \in Orders
  <2>1. t \in Seq(Ro!Providers) /\ Len(t) <= Len(RouteList)
    BY <1>1, <1>2, <1>3
  <2>2. \A i, j \in 1 .. Len(t) : t[i] = t[j] => i = j
    BY <1>6
  <2> HIDE DEF t
  <2> QED BY <2>1, <2>2 DEF Orders
<1> QED BY <1>2, <1>3, <1>5, <1>7, <1>8

\* lookupPinned: the pin's provider leaves its place for the first.
LEMMA PinnedFirstIsAnOrder ==
  ASSUME NEW s \in Orders
  PROVE  Ro!PinnedFirst(s) \in Orders
<1> DEFINE places == {i \in DOMAIN s : s[i] = pinnedTo}
<1>1. /\ s \in Seq(Ro!Providers) /\ Len(s) <= Len(RouteList) /\ Len(RouteList) \in Nat
      /\ Len(s) \in Nat /\ DOMAIN s = 1 .. Len(s)
      /\ \A i, j \in 1 .. Len(s) : s[i] = s[j] => i = j
  BY PlacesOfTheCatalog DEF Orders
<1>2. CASE places = {}
  BY <1>2 DEF Ro!PinnedFirst
<1>3. CASE places # {}
  <2>1. PICK n \in 1 .. Len(s) : s[n] = pinnedTo
    BY <1>1, <1>3
  <2>2. places = {n}
    BY <1>1, <2>1
  <2>3. Ro!Min(places) = n
    <3> HIDE DEF places
    <3>1. \A x \in places : x = n
      BY <2>2
    <3>2. n \in places /\ \A y \in places : n <= y
      BY <2>1, <2>2
    <3> QED BY <3>1, <3>2 DEF Ro!Min
  <2> DEFINE a == SubSeq(s, 1, n - 1)
             b == SubSeq(s, n + 1, Len(s))
             c == a \o b
             d == <<pinnedTo>>
  <2>4. Ro!PinnedFirst(s) = d \o c
    BY <1>3, <2>3 DEF Ro!PinnedFirst, Ro!RemoveAt
  <2>5. \A i \in 1 .. Len(s) : s[i] \in Ro!Providers
    BY <1>1
  <2>6. /\ a \in Seq(Ro!Providers) /\ Len(a) = n - 1
        /\ \A i \in 1 .. n - 1 : a[i] = s[i]
    <3>1. 1 \in Int /\ n - 1 \in Int /\ \A i \in 1 .. n - 1 : s[i] \in Ro!Providers
      BY <1>1, <2>5
    <3>2. /\ a \in Seq(Ro!Providers)
          /\ Len(a) = IF 1 <= n - 1 THEN (n - 1) - 1 + 1 ELSE 0
          /\ \A i \in 1 .. (n - 1) - 1 + 1 : a[i] = s[1 + i - 1]
      BY <3>1, SubSeqProperties
    <3> HIDE DEF a
    <3> QED BY <1>1, <3>2
  <2>7. /\ b \in Seq(Ro!Providers) /\ Len(b) = Len(s) - n
        /\ \A i \in 1 .. Len(s) - n : b[i] = s[n + i]
    <3>1. n + 1 \in Int /\ Len(s) \in Int /\ \A i \in n + 1 .. Len(s) : s[i] \in Ro!Providers
      BY <1>1, <2>5
    <3>2. /\ b \in Seq(Ro!Providers)
          /\ Len(b) = IF n + 1 <= Len(s) THEN Len(s) - (n + 1) + 1 ELSE 0
          /\ \A i \in 1 .. Len(s) - (n + 1) + 1 : b[i] = s[(n + 1) + i - 1]
      BY <3>1, SubSeqProperties
    <3> DEFINE l == Len(s)
    <3>3. l \in Nat /\ n \in Nat /\ n <= l
      BY <1>1
    <3>4. /\ Len(b) = IF n + 1 <= l THEN l - (n + 1) + 1 ELSE 0
          /\ \A i \in 1 .. l - (n + 1) + 1 : b[i] = s[(n + 1) + i - 1]
      BY <3>2
    <3> HIDE DEF b, l
    <3>5. Len(b) = l - n
      BY <3>3, <3>4
    <3>6. l - (n + 1) + 1 = l - n
      BY <3>3
    <3>7. ASSUME NEW i \in 1 .. l - n PROVE b[i] = s[n + i]
      <4>1. (n + 1) + i - 1 = n + i
        BY <3>3
      <4> QED BY <3>4, <3>6, <4>1
    <3> QED BY <3>2, <3>5, <3>7 DEF l
  <2> HIDE DEF a, b
  <2>8. /\ c \in Seq(Ro!Providers) /\ Len(c) = Len(s) - 1
        /\ \A i \in 1 .. Len(s) - 1 : c[i] = IF i <= n - 1 THEN s[i] ELSE s[i + 1]
    <3>1. /\ c \in Seq(Ro!Providers) /\ Len(c) = Len(a) + Len(b)
          /\ \A i \in 1 .. Len(a) + Len(b) : c[i] = IF i <= Len(a) THEN a[i] ELSE b[i - Len(a)]
      BY <2>6, <2>7, ConcatProperties
    <3> HIDE DEF c
    <3>2. Len(a) + Len(b) = Len(s) - 1
      BY <1>1, <2>6, <2>7
    <3>3. ASSUME NEW i \in 1 .. Len(s) - 1
          PROVE  c[i] = IF i <= n - 1 THEN s[i] ELSE s[i + 1]
      <4>1. CASE i <= n - 1
        BY <1>1, <2>6, <3>1, <3>2, <4>1
      <4>2. CASE ~ (i <= n - 1)
        <5>1. i - (n - 1) \in 1 .. Len(s) - n /\ n + (i - (n - 1)) = i + 1
          BY <1>1, <4>2
        <5>2. c[i] = b[i - (n - 1)]
          BY <2>6, <3>1, <3>2, <4>2
        <5> QED BY <2>7, <4>2, <5>1, <5>2
      <4> QED BY <4>1, <4>2
    <3> QED BY <3>1, <3>2, <3>3
  <2> HIDE DEF c
  <2>9. d \in Seq(Ro!Providers) /\ Len(d) = 1 /\ d[1] = s[n]
    BY <2>1, <2>5
  <2> DEFINE e == d \o c
  <2> HIDE DEF d
  <2>10. /\ e \in Seq(Ro!Providers) /\ Len(e) = Len(s)
         /\ \A i \in 1 .. Len(s) :
              e[i] = IF i = 1 THEN s[n] ELSE IF i <= n THEN s[i - 1] ELSE s[i]
    <3>1. /\ e \in Seq(Ro!Providers) /\ Len(e) = Len(d) + Len(c)
          /\ \A i \in 1 .. Len(d) + Len(c) : e[i] = IF i <= Len(d) THEN d[i] ELSE c[i - Len(d)]
      BY <2>8, <2>9, ConcatProperties
    <3> HIDE DEF e
    <3>2. Len(d) + Len(c) = Len(s)
      BY <1>1, <2>8, <2>9
    <3>3. ASSUME NEW i \in 1 .. Len(s)
          PROVE  e[i] = IF i = 1 THEN s[n] ELSE IF i <= n THEN s[i - 1] ELSE s[i]
      <4>1. CASE i = 1
        BY <2>9, <3>1, <3>2, <4>1
      <4>2. CASE i # 1
        <5>1. i - 1 \in 1 .. Len(s) - 1 /\ ~ (i <= 1) /\ (i - 1) + 1 = i
          BY <1>1, <4>2
        <5>2. e[i] = c[i - 1]
          BY <2>9, <3>1, <3>2, <5>1
        <5>3. c[i - 1] = IF i - 1 <= n - 1 THEN s[i - 1] ELSE s[(i - 1) + 1]
          BY <2>8, <5>1
        <5>4. i - 1 <= n - 1 <=> i <= n
          BY <1>1
        <5> QED BY <4>2, <5>1, <5>2, <5>3, <5>4
      <4> QED BY <4>1, <4>2
    <3> QED BY <3>1, <3>2, <3>3
  <2> HIDE DEF e
  <2>11. \A i, j \in 1 .. Len(e) : e[i] = e[j] => i = j
    <3> DEFINE at(i) == IF i = 1 THEN n ELSE IF i <= n THEN i - 1 ELSE i
    <3>1. \A i \in 1 .. Len(s) : at(i) \in 1 .. Len(s) /\ e[i] = s[at(i)]
      BY <1>1, <2>10
    <3>2. \A i, j \in 1 .. Len(s) : at(i) = at(j) => i = j
      BY <1>1
    <3> HIDE DEF at
    <3> QED BY <1>1, <2>10, <3>1, <3>2
  <2>12. e \in Orders
    BY <1>1, <2>10, <2>11 DEF Orders
  <2> QED BY <2>4, <2>12 DEF e
<1> QED BY <1>2, <1>3


AttemptType ==
  [at : {"idle", "pin", "try", "call", "forget", "drop", "stream"}, on : Ro!Routers,
   order : Orders, tried : SUBSET Ro!Providers, talk : BOOLEAN]

\* No route of the order has failed the request yet; the one that is about to be
\* skipped is still in front while its pin is forgotten.
Untried(s, t) == \A i \in 1 .. Len(s) : s[i] \notin t
OnPath(c) ==
  /\ c.at = "pin" => c.tried = {}
  /\ c.at \in {"try", "call"} => Untried(c.order, c.tried)
  /\ c.at \in {"call", "forget", "drop", "stream"} => c.order # <<>>
  /\ c.at \in {"forget", "drop"} => Untried(Tail(c.order), c.tried)

PathInv ==
  /\ attempt \in [Requests -> AttemptType]
  /\ pinnedTo \in Ro!Providers \cup {None}
  /\ resting \in [Ro!Routers -> SUBSET Ro!Providers]
  /\ wins \in [Ro!Routers -> [Ro!Providers -> 0 .. MaxDraws]]
  /\ \A r \in Requests : OnPath(attempt[r])

LEMMA NoRequestOnPath == Ro!NoRequest \in AttemptType /\ OnPath(Ro!NoRequest)
<1>1. <<>> \in Orders
  <2>1. <<>> \in Seq(Ro!Providers) /\ Len(<<>>) = 0
    BY EmptySeq
  <2> QED BY <2>1, PlacesOfTheCatalog DEF Orders
<1>2. 0 \in Ro!Routers
  BY ServiceAssumption DEF Ro!Routers
<1> QED BY <1>1, <1>2 DEF AttemptType, OnPath, Ro!NoRequest

LEMMA PathInit == Ro!Init => PathInv
<1> SUFFICES ASSUME Ro!Init PROVE PathInv
  OBVIOUS
<1>1. /\ attempt = [r \in Requests |-> Ro!NoRequest] /\ pinnedTo = None
      /\ resting = [g \in Ro!Routers |-> {}]
      /\ wins = [g \in Ro!Routers |-> [p \in Ro!Providers |-> 0]]
  BY DEF Ro!Init
<1>2. 0 \in 0 .. MaxDraws
  BY ServiceAssumption
<1> QED BY <1>1, <1>2, NoRequestOnPath DEF PathInv

\* A request of the router moves on: to what, for each of its steps.
LEMMA RequestMoves ==
  ASSUME RouterInv, PathInv, NEW r \in Requests, Ro!RequestStep(r)
  PROVE  \E c \in AttemptType : OnPath(c) /\ attempt' = [attempt EXCEPT ![r] = c]
<1> DEFINE a == attempt[r]
<1>1. a \in AttemptType /\ OnPath(a) /\ attempt \in [Requests -> AttemptType]
  BY DEF PathInv
<1>2. /\ a.on \in Ro!Routers /\ a.order \in Orders /\ a.tried \in SUBSET Ro!Providers
      /\ a.talk \in BOOLEAN
  BY <1>1 DEF AttemptType
<1>3. ASSUME a.order # <<>>
      PROVE  /\ Tail(a.order) \in Orders /\ Ro!Called(r) = a.order[1]
             /\ Ro!Called(r) \in Ro!Providers
             /\ Untried(a.order, a.tried) => Untried(Tail(a.order), a.tried)
             /\ Untried(a.order, a.tried) =>
                  Untried(Tail(a.order), a.tried \cup {Ro!Called(r)})
  <2>1. /\ Tail(a.order) \in Orders /\ Head(a.order) = a.order[1]
        /\ a.order[1] \in Ro!Providers /\ Len(a.order) \in Nat \ {0}
        /\ \A i \in 1 .. Len(Tail(a.order)) :
             /\ i + 1 \in 2 .. Len(a.order) /\ Tail(a.order)[i] = a.order[i + 1]
             /\ Tail(a.order)[i] # a.order[1]
    BY <1>2, <1>3, TailIsAnOrder
  <2>2. Untried(a.order, a.tried) =>
          \A i \in 1 .. Len(Tail(a.order)) : Tail(a.order)[i] \notin a.tried
    <3> SUFFICES ASSUME Untried(a.order, a.tried), NEW i \in 1 .. Len(Tail(a.order))
                 PROVE  Tail(a.order)[i] \notin a.tried
      OBVIOUS
    <3>1. i + 1 \in 1 .. Len(a.order) /\ Tail(a.order)[i] = a.order[i + 1]
      BY <2>1
    <3> QED BY <3>1 DEF Untried
  <2> QED BY <2>1, <2>2 DEF Untried, Ro!Called
<1>4. CASE Ro!Begin(r)
  <2>1. PICK talk \in BOOLEAN :
          attempt' = [attempt EXCEPT ![r] =
            [at |-> IF talk THEN "pin" ELSE "try", on |-> router,
             order |-> Ro!Order(router), tried |-> {}, talk |-> talk]]
    BY <1>4 DEF Ro!Begin
  <2> DEFINE c == [at |-> IF talk THEN "pin" ELSE "try", on |-> router,
                   order |-> Ro!Order(router), tried |-> {}, talk |-> talk]
  <2>2. attempt' = [attempt EXCEPT ![r] = c]
    BY <2>1
  <2>3. router \in Ro!Routers /\ policy[router] \in Policies
    BY DEF RouterInv, RouterTypes
  <2>4. Ro!Order(router) \in Orders
    BY <2>3, OrderIsAnOrder
  <2>5. c \in AttemptType /\ OnPath(c)
    BY <2>3, <2>4 DEF AttemptType, OnPath, Untried
  <2> HIDE DEF c
  <2> QED BY <2>2, <2>5
<1>5. CASE Ro!Lookup(r)
  <2> DEFINE c == [a EXCEPT !.at = "try", !.order = Ro!PinnedFirst(a.order)]
  <2>1. attempt' = [attempt EXCEPT ![r] = c] /\ a.tried = {}
    BY <1>1, <1>5 DEF Ro!Lookup, OnPath
  <2>2. Ro!PinnedFirst(a.order) \in Orders
    BY <1>2, PinnedFirstIsAnOrder
  <2>3. c \in AttemptType /\ c.at = "try" /\ c.tried = {}
    BY <1>1, <2>1, <2>2 DEF AttemptType
  <2>4. OnPath(c)
    <3> HIDE DEF c
    <3> QED BY <2>3 DEF OnPath, Untried
  <2> QED BY <2>1, <2>3, <2>4
<1>6. CASE Ro!Try(r)
  <2>1. a.at = "try" /\ Untried(a.order, a.tried)
    BY <1>1, <1>6 DEF Ro!Try, OnPath
  <2>2. CASE a.order # <<>> /\ attempt' = [attempt EXCEPT ![r].at = "call"]
    <3> DEFINE c == [a EXCEPT !.at = "call"]
    <3>1. /\ c \in AttemptType /\ c.at = "call" /\ c.order = a.order /\ c.tried = a.tried
          /\ attempt' = [attempt EXCEPT ![r] = c]
      BY <1>1, <2>2 DEF AttemptType
    <3>2. OnPath(c)
      <4> HIDE DEF c
      <4> QED BY <2>1, <2>2, <3>1 DEF OnPath
    <3> QED BY <3>1, <3>2
  <2>3. CASE a.order = <<>> /\ attempt' = [attempt EXCEPT ![r] = Ro!NoRequest]
    BY <2>3, NoRequestOnPath
  <2>4. CASE a.order # <<>> /\ attempt' = [attempt EXCEPT ![r].order = Tail(@)]
    <3> DEFINE c == [a EXCEPT !.order = Tail(a.order)]
    <3>1. /\ c \in AttemptType /\ c.at = "try" /\ c.order = Tail(a.order)
          /\ c.tried = a.tried /\ attempt' = [attempt EXCEPT ![r] = c]
      BY <1>1, <1>3, <2>1, <2>4 DEF AttemptType
    <3>2. Untried(c.order, c.tried)
      BY <1>3, <2>1, <2>4, <3>1
    <3>3. OnPath(c)
      <4> HIDE DEF c
      <4> QED BY <3>1, <3>2 DEF OnPath
    <3> QED BY <3>1, <3>3
  <2> QED BY <1>6, <2>2, <2>3, <2>4 DEF Ro!Try
<1>7. CASE Ro!CallReturns(r)
  <2>1. a.order # <<>>
    BY <1>1, <1>7 DEF Ro!CallReturns, OnPath
  <2>2. CASE attempt' = [attempt EXCEPT ![r].at = "stream"]
    <3> DEFINE c == [a EXCEPT !.at = "stream"]
    <3>1. /\ c \in AttemptType /\ c.at = "stream" /\ c.order = a.order
          /\ attempt' = [attempt EXCEPT ![r] = c]
      BY <1>1, <2>2 DEF AttemptType
    <3>2. OnPath(c)
      <4> HIDE DEF c
      <4> QED BY <2>1, <3>1 DEF OnPath
    <3> QED BY <3>1, <3>2
  <2>3. CASE attempt' = [attempt EXCEPT ![r] = Ro!NoRequest]
    BY <2>3, NoRequestOnPath
  <2> QED BY <1>7, <2>2, <2>3 DEF Ro!CallReturns
<1>8. CASE Ro!CallFails(r)
  <2>1. a.order # <<>> /\ Untried(a.order, a.tried)
    BY <1>1, <1>8 DEF Ro!CallFails, OnPath
  <2>2. CASE attempt' = [attempt EXCEPT ![r].at = IF a.talk THEN "forget" ELSE "try",
                             ![r].order = IF a.talk THEN @ ELSE Tail(@),
                             ![r].tried = @ \cup {Ro!Called(r)}]
    <3> DEFINE c == [a EXCEPT !.at = IF a.talk THEN "forget" ELSE "try",
                              !.order = IF a.talk THEN a.order ELSE Tail(a.order),
                              !.tried = a.tried \cup {Ro!Called(r)}]
    <3>1. /\ c \in AttemptType /\ c.at = IF a.talk THEN "forget" ELSE "try"
          /\ c.order = IF a.talk THEN a.order ELSE Tail(a.order)
          /\ c.tried = a.tried \cup {Ro!Called(r)}
          /\ attempt' = [attempt EXCEPT ![r] = c]
      BY <1>1, <1>3, <2>1, <2>2 DEF AttemptType
    <3>2. Untried(Tail(a.order), c.tried)
      BY <1>3, <2>1, <3>1
    <3>3. OnPath(c)
      <4> HIDE DEF c
      <4> QED BY <2>1, <3>1, <3>2 DEF OnPath
    <3> QED BY <3>1, <3>3
  <2>3. CASE attempt' = [attempt EXCEPT ![r] = Ro!NoRequest]
    BY <2>3, NoRequestOnPath
  <2> QED BY <1>8, <2>2, <2>3 DEF Ro!CallFails
<1>9. CASE Ro!Peek(r)
  <2>1. a.order # <<>> /\ Untried(Tail(a.order), a.tried)
    BY <1>1, <1>9 DEF Ro!Peek, OnPath
  <2> DEFINE c == [a EXCEPT !.at = IF pinnedTo = Ro!Called(r) THEN "drop" ELSE "try",
                    !.order = IF pinnedTo = Ro!Called(r) THEN a.order ELSE Tail(a.order)]
  <2>2. /\ c \in AttemptType /\ c.at = IF pinnedTo = Ro!Called(r) THEN "drop" ELSE "try"
        /\ c.order = IF pinnedTo = Ro!Called(r) THEN a.order ELSE Tail(a.order)
        /\ c.tried = a.tried
        /\ attempt' = [attempt EXCEPT ![r] = c]
    BY <1>1, <1>3, <1>9, <2>1 DEF AttemptType, Ro!Peek
  <2>3. OnPath(c)
    <3> HIDE DEF c
    <3> QED BY <2>1, <2>2 DEF OnPath
  <2> QED BY <2>2, <2>3
<1>10. CASE Ro!Forget(r)
  <2>1. a.order # <<>> /\ Untried(Tail(a.order), a.tried)
    BY <1>1, <1>10 DEF Ro!Forget, OnPath
  <2> DEFINE c == [a EXCEPT !.at = "try", !.order = Tail(a.order)]
  <2>2. /\ c \in AttemptType /\ c.at = "try" /\ c.order = Tail(a.order)
        /\ c.tried = a.tried /\ attempt' = [attempt EXCEPT ![r] = c]
    BY <1>1, <1>3, <1>10, <2>1 DEF AttemptType, Ro!Forget
  <2>3. OnPath(c)
    <3> HIDE DEF c
    <3> QED BY <2>1, <2>2 DEF OnPath
  <2> QED BY <2>2, <2>3
<1>11. CASE Ro!StreamEnds(r) \/ Ro!StreamFails(r)
  BY <1>11, NoRequestOnPath DEF Ro!StreamEnds, Ro!StreamFails
<1> QED BY <1>4, <1>5, <1>6, <1>7, <1>8, <1>9, <1>10, <1>11 DEF Ro!RequestStep


\* Begin's bound: a router that can draw once more has room for one more win each.
LEMMA RoomToDraw ==
  ASSUME RouterInv, NEW g \in Ro!Routers, NEW p \in Ro!Providers,
         Ro!MapThenSumSet(LAMBDA o : Ro!MapThenSumSet(LAMBDA q : wins[o][q], Ro!Providers),
                          Ro!Routers) < MaxDraws
  PROVE  wins[g][p] \in Nat /\ wins[g][p] + 1 \in 0 .. MaxDraws
<1> DEFINE S == Ro!Routers
           w == [o \in S |-> Sum(wins[o], Ro!Providers)]
           in(o) == Ro!MapThenSumSet(LAMBDA q : wins[o][q], Ro!Providers)
           P(f) == f = [s \in SUBSET S |-> IF s = {} THEN 0
                      ELSE in(CHOOSE x \in s : TRUE) + f[s \ {CHOOSE x \in s : TRUE}]]
           h == CHOOSE f : P(f)
<1>1. IsFiniteSet(S) /\ MaxDraws \in Nat
  <2>1. 0 \in Int /\ MaxReload \in Int /\ MaxDraws \in Nat
    BY ServiceAssumption
  <2>2. IsFiniteSet(0 .. MaxReload)
    BY <2>1, FS_Interval
  <2> QED BY <2>1, <2>2 DEF Ro!Routers
<1>2. ASSUME NEW o \in S
      PROVE  /\ in(o) = w[o] /\ w[o] \in Nat
             /\ \A q \in Ro!Providers : wins[o][q] \in Nat /\ wins[o][q] <= w[o]
  <2>1. \A q \in Ro!Providers : wins[o][q] \in Nat
    BY DEF RouterInv, RouterTypes
  <2>2. in(o) = Sum(wins[o], Ro!Providers)
    BY ProvidersFinite, DrawnIs
  <2>3. Sum(wins[o], Ro!Providers) \in Nat
    BY <2>1, ProvidersFinite, SumNat
  <2>4. \A q \in Ro!Providers : wins[o][q] <= Sum(wins[o], Ro!Providers)
    BY <2>1, ProvidersFinite, SumBoundsSummand
  <2> QED BY <2>1, <2>2, <2>3, <2>4
<1> HIDE DEF in
<1>3. PICK k : Sums(k, S, w)
  BY <1>1, SumsExist
<1>4. \A s \in SUBSET S : s # {} => in(CHOOSE x \in s : TRUE) = w[Pick(s)]
  <2> HIDE DEF S, w
  <2> QED BY <1>2, PickIn DEF Pick
<1>5. P(k)
  <2> HIDE DEF S, w
  <2> QED BY <1>3, <1>4 DEF Sums, Pick
<1>6. P(h)
  <2> HIDE DEF S
  <2> QED BY <1>5
<1>7. Sums(h, S, w)
  <2> HIDE DEF S, w, h
  <2> QED BY <1>4, <1>6 DEF Sums, Pick
<1>8. Ro!MapThenSumSet(LAMBDA o : Ro!MapThenSumSet(LAMBDA q : wins[o][q], Ro!Providers),
                       Ro!Routers) = h[S]
  BY DEF Ro!MapThenSumSet, Ro!MapThenFoldSet, in
<1>9. Sum(w, S) = h[S]
  <2> HIDE DEF S, w, h
  <2> QED BY <1>1, <1>7, SumIs
<1>10. Sum(w, S) < MaxDraws
  BY <1>8, <1>9
<1>11. w[g] <= Sum(w, S) /\ Sum(w, S) \in Nat
  <2>1. \A o \in S : w[o] \in Nat
    BY <1>2
  <2> HIDE DEF S, w
  <2>2. g \in S
    BY DEF S
  <2> QED BY <1>1, <2>1, <2>2, SumNat, SumBoundsSummand
<1>12. wins[g][p] \in Nat /\ wins[g][p] <= w[g] /\ w[g] \in Nat
  BY <1>2
<1> HIDE DEF w, S, h
<1> QED BY <1>1, <1>10, <1>11, <1>12

LEMMA PathNext ==
  ASSUME RouterInv, PathInv, Ro!Next
  PROVE  PathInv'
<1>0. /\ attempt \in [Requests -> AttemptType] /\ pinnedTo \in Ro!Providers \cup {None}
      /\ resting \in [Ro!Routers -> SUBSET Ro!Providers]
      /\ wins \in [Ro!Routers -> [Ro!Providers -> 0 .. MaxDraws]]
      /\ \A r \in Requests : OnPath(attempt[r])
  BY DEF PathInv
<1>1. ASSUME NEW r \in Requests, Ro!RequestStep(r) PROVE PathInv'
  <2>1. PICK c \in AttemptType : OnPath(c) /\ attempt' = [attempt EXCEPT ![r] = c]
    BY <1>1, RequestMoves
  <2>2. /\ attempt' \in [Requests -> AttemptType]
        /\ \A o \in Requests : OnPath(attempt'[o])
    BY <1>0, <2>1
  <2>3. ASSUME attempt[r].at = "call" \/ attempt[r].at = "stream"
        PROVE  Ro!Called(r) \in Ro!Providers /\ attempt[r].on \in Ro!Routers
    <3>1. attempt[r].order \in Orders /\ attempt[r].order # <<>> /\ attempt[r].on \in Ro!Routers
      BY <1>0, <2>3 DEF AttemptType, OnPath
    <3> QED BY <3>1, TailIsAnOrder DEF Ro!Called
  <2>4. pinnedTo' \in Ro!Providers \cup {None}
    BY <1>0, <1>1, <2>3
    DEF Ro!RequestStep, Ro!Begin, Ro!Lookup, Ro!Try, Ro!CallReturns, Ro!CallFails, Ro!Peek,
        Ro!Forget, Ro!StreamEnds, Ro!StreamFails
  <2>5. resting' \in [Ro!Routers -> SUBSET Ro!Providers]
    <3>1. CASE Ro!MarkFailed(r) /\ (attempt[r].at = "call" \/ attempt[r].at = "stream")
      BY <1>0, <2>3, <3>1 DEF Ro!MarkFailed
    <3>2. CASE resting' = resting
      BY <1>0, <3>2
    <3> QED BY <1>1, <3>1, <3>2
        DEF Ro!RequestStep, Ro!Begin, Ro!Lookup, Ro!Try, Ro!CallReturns, Ro!CallFails, Ro!Peek,
            Ro!Forget, Ro!StreamEnds, Ro!StreamFails
  <2>6. wins' \in [Ro!Routers -> [Ro!Providers -> 0 .. MaxDraws]]
    <3>1. CASE Ro!Begin(r)
      <4>1. router \in Ro!Routers
        BY DEF RouterInv, RouterTypes
      <4>2. \A p \in Ro!Providers : wins[router][p] + 1 \in 0 .. MaxDraws
        BY <3>1, <4>1, RoomToDraw DEF Ro!Begin
      <4>3. wins' = [wins EXCEPT ![router] =
              [p \in Ro!Providers |-> IF p \in Ro!Winners(router) THEN @[p] + 1 ELSE @[p]]]
        BY <3>1 DEF Ro!Begin
      <4> QED BY <1>0, <4>1, <4>2, <4>3
    <3>2. CASE wins' = wins
      BY <1>0, <3>2
    <3> QED BY <1>1, <3>1, <3>2
        DEF Ro!RequestStep, Ro!Lookup, Ro!Try, Ro!CallReturns, Ro!CallFails, Ro!Peek,
            Ro!Forget, Ro!StreamEnds, Ro!StreamFails
  <2> QED BY <2>2, <2>4, <2>5, <2>6 DEF PathInv
<1>2. CASE Ro!Reload
  BY <1>0, <1>2 DEF Ro!Reload, PathInv
<1>3. CASE Ro!CooldownEnds
  BY <1>0, <1>3 DEF Ro!CooldownEnds, PathInv
<1>4. CASE Ro!PinEnds
  BY <1>0, <1>4 DEF Ro!PinEnds, PathInv
<1> QED BY <1>1, <1>2, <1>3, <1>4 DEF Ro!Next

LEMMA PathAlways == Spec => []PathInv
<1>1. ASSUME RouterInv, PathInv, [Ro!Next]_(Ro!vars) PROVE PathInv'
  <2>1. CASE Ro!Next
    BY <1>1, <2>1, PathNext
  <2>2. CASE UNCHANGED Ro!vars
    BY <1>1, <2>2 DEF Ro!vars, PathInv
  <2> QED BY <1>1, <2>1, <2>2
<1> QED BY <1>1, PathInit, RouterAlways, ServicesAreIndependent, PTL DEF Ro!Spec

\* Router.Complete and Stream: a request calls no route a second time that failed it, for
\* any catalog and policies and wherever the pin has put the routes.
THEOREM RoutesAreTriedOnce == Spec => []NoRouteTwice
<1>1. ASSUME PathInv PROVE NoRouteTwice
  <2> SUFFICES ASSUME NEW r \in Requests, attempt[r].at = "call"
               PROVE  Ro!Called(r) \notin attempt[r].tried
    BY DEF NoRouteTwice, Ro!NoRouteTwice
  <2>1. /\ attempt[r].order \in Orders /\ attempt[r].order # <<>>
        /\ Untried(attempt[r].order, attempt[r].tried)
    BY <1>1 DEF PathInv, AttemptType, OnPath
  <2>2. Ro!Called(r) = attempt[r].order[1] /\ 1 \in 1 .. Len(attempt[r].order)
    BY <2>1, TailIsAnOrder DEF Ro!Called
  <2> QED BY <2>1, <2>2 DEF Untried
<1> QED BY <1>1, PathAlways, PTL

LEMMA RouterTyped == Spec => []Ro!TypeOK
<1>1. ASSUME RouterInv, PathInv PROVE Ro!TypeOK
  <2>1. Orders \subseteq Ro!BoundedSeq(Ro!Providers, Len(RouteList))
    <3> SUFFICES ASSUME NEW s \in Orders
                 PROVE  s \in UNION {[1 .. m -> Ro!Providers] : m \in 0 .. Len(RouteList)}
      BY DEF Ro!BoundedSeq, Ro!SeqOf
    <3>1. s \in Seq(Ro!Providers) /\ Len(s) <= Len(RouteList) /\ Len(RouteList) \in Nat
      BY PlacesOfTheCatalog DEF Orders
    <3>2. s \in [1 .. Len(s) -> Ro!Providers] /\ Len(s) \in 0 .. Len(RouteList)
      BY <3>1, LenProperties
    <3> QED BY <3>2
  <2>2. attempt \in [Requests ->
          [at : {"idle", "pin", "try", "call", "forget", "drop", "stream"}, on : Ro!Routers,
           order : Ro!BoundedSeq(Ro!Providers, Len(RouteList)), tried : SUBSET Ro!Providers,
           talk : BOOLEAN]]
    BY <1>1, <2>1 DEF PathInv, AttemptType
  <2> QED BY <1>1, <2>2 DEF PathInv, RouterInv, RouterTypes, Ro!TypeOK
<1> QED BY <1>1, PathAlways, RouterAlways, PTL

-----------------------------------------------------------------------------
(* Settings.                                                               *)

EditorType == [at : {"idle", "edit", "put"}, seen : Se!Shown, checked : BOOLEAN]
ReaderType == [at : {"idle", "load", "keep"}, held : Se!Snapshot, got : Se!Snapshot]

SettingsTypes ==
  /\ override \in Se!Shown /\ snap \in Se!Snapshot /\ recent \in BOOLEAN
  /\ editor \in [Editors -> EditorType] /\ reader \in [Readers -> ReaderType]
  /\ overwrote \in BOOLEAN /\ raced \in BOOLEAN

LEMMA SettingsInit == ASSUME Se!Init PROVE SettingsTypes
<1>1. 0 \in Se!Shown /\ Unset \in Se!Snapshot /\ Empty \in Se!Snapshot
  BY ServiceAssumption DEF Se!Shown, Se!Snapshot
<1>2. Se!NoReader \in ReaderType
  BY <1>1 DEF Se!NoReader, ReaderType
<1>3. editor \in [Editors -> EditorType]
  BY <1>1 DEF Se!Init, EditorType
<1>4. reader \in [Readers -> ReaderType]
  BY <1>2 DEF Se!Init
<1>5. override = 0 /\ snap = Unset /\ recent = FALSE /\ overwrote = FALSE /\ raced = FALSE
  BY DEF Se!Init
<1> QED BY <1>1, <1>3, <1>4, <1>5 DEF SettingsTypes

LEMMA EditorSteps ==
  ASSUME SettingsTypes, NEW e \in Editors, Se!Show(e) \/ Se!Check(e) \/ Se!Put(e) \/ Se!PutFails(e)
  PROVE  SettingsTypes'
<1>0. /\ override \in Se!Shown /\ overwrote \in BOOLEAN /\ raced \in BOOLEAN
      /\ editor \in [Editors -> EditorType] /\ editor[e] \in EditorType
  BY DEF SettingsTypes
<1>1. ASSUME NEW c, editor' = [editor EXCEPT ![e] = c], c \in EditorType
      PROVE  editor' \in [Editors -> EditorType]
  BY <1>0, <1>1
<1>2. CASE Se!Show(e)
  <2> DEFINE c == [editor[e] EXCEPT !.at = "edit", !.seen = override]
  <2>1. c \in EditorType
    BY <1>0 DEF EditorType
  <2>2. editor' = [editor EXCEPT ![e] = c]
    BY <1>0, <1>2 DEF Se!Show
  <2> QED BY <1>1, <1>2, <2>1, <2>2 DEF Se!Show, SettingsTypes
<1>3. CASE Se!Check(e)
  <2>1. PICK b \in BOOLEAN : editor' = [editor EXCEPT
          ![e].at = IF b /\ editor[e].seen # override THEN "idle" ELSE "put",
          ![e].checked = b]
    BY <1>3 DEF Se!Check
  <2>2. PICK place \in {"idle", "put"} :
          editor' = [editor EXCEPT ![e].at = place, ![e].checked = b]
    BY <2>1
  <2> DEFINE c == [editor[e] EXCEPT !.at = place, !.checked = b]
  <2>3. c \in EditorType
    BY <1>0 DEF EditorType
  <2>4. editor' = [editor EXCEPT ![e] = c]
    BY <1>0, <2>2
  <2> QED BY <1>1, <1>3, <2>3, <2>4 DEF Se!Check, SettingsTypes
<1>4. CASE Se!Put(e) \/ Se!PutFails(e)
  <2> DEFINE c == [editor[e] EXCEPT !.at = "idle", !.checked = FALSE]
  <2>1. c \in EditorType
    BY <1>0 DEF EditorType
  <2>2. editor' = [editor EXCEPT ![e] = c]
    BY <1>0, <1>4 DEF Se!Put, Se!PutFails
  <2>3. override' \in Se!Shown /\ overwrote' \in BOOLEAN /\ raced' \in BOOLEAN
    <3>1. CASE Se!Put(e)
      <4>1. override' = override + 1 /\ override < MaxVersion /\ raced' \in BOOLEAN
        BY <3>1 DEF Se!Put
      <4>2. overwrote' = (overwrote \/ (editor[e].checked /\ editor[e].seen # override))
        BY <3>1 DEF Se!Put
      <4>3. overwrote' \in BOOLEAN
        BY <4>2
      <4> QED BY <1>0, <4>1, <4>3, ServiceAssumption DEF Se!Shown
    <3>2. CASE Se!PutFails(e)
      BY <1>0, <3>2 DEF Se!PutFails
    <3> QED BY <1>4, <3>1, <3>2
  <2>4. snap' = snap /\ recent' = recent /\ reader' = reader
    BY <1>4 DEF Se!Put, Se!PutFails
  <2> QED BY <1>1, <2>1, <2>2, <2>3, <2>4 DEF SettingsTypes
<1> QED BY <1>2, <1>3, <1>4

LEMMA ReaderSteps ==
  ASSUME SettingsTypes, NEW r \in Readers, Se!Look(r) \/ Se!Load(r) \/ Se!LoadFails(r) \/ Se!Keep(r)
  PROVE  SettingsTypes'
<1>0. /\ override \in Se!Shown /\ snap \in Se!Snapshot
      /\ reader \in [Readers -> ReaderType] /\ reader[r] \in ReaderType
  BY DEF SettingsTypes
<1>1. Unset \in Se!Snapshot /\ Empty \in Se!Snapshot /\ Se!Stored \in Se!Snapshot
  BY <1>0, ServiceAssumption DEF Se!Snapshot, Se!Stored, Se!Shown
<1>2. Se!NoReader \in ReaderType
  BY <1>1 DEF Se!NoReader, ReaderType
<1>3. PICK c \in ReaderType : reader' = [reader EXCEPT ![r] = c]
  <2>1. CASE Se!Look(r)
    <3>1. [Se!NoReader EXCEPT !.at = "load", !.held = snap] \in ReaderType
      BY <1>0, <1>2 DEF ReaderType
    <3> QED BY <2>1, <3>1 DEF Se!Look
  <2>2. CASE Se!Load(r)
    <3>1. [reader[r] EXCEPT !.at = "keep", !.got = Se!Stored] \in ReaderType
      BY <1>0, <1>1 DEF ReaderType
    <3>2. reader' = [reader EXCEPT ![r] = [reader[r] EXCEPT !.at = "keep", !.got = Se!Stored]]
      BY <1>0, <2>2 DEF Se!Load
    <3> QED BY <3>1, <3>2
  <2>3. CASE Se!LoadFails(r)
    <3>1. [reader[r] EXCEPT !.at = "keep", !.got = Empty] \in ReaderType
      BY <1>0, <1>1 DEF ReaderType
    <3>2. \/ reader' = [reader EXCEPT ![r] = [reader[r] EXCEPT !.at = "keep", !.got = Empty]]
          \/ reader' = [reader EXCEPT ![r] = Se!NoReader]
      BY <1>0, <2>3 DEF Se!LoadFails
    <3> QED BY <1>2, <3>1, <3>2
  <2>4. CASE Se!Keep(r)
    BY <1>2, <2>4 DEF Se!Keep
  <2> QED BY <2>1, <2>2, <2>3, <2>4
<1>4. reader' \in [Readers -> ReaderType]
  BY <1>0, <1>3
<1>5. snap' \in Se!Snapshot /\ recent' \in BOOLEAN
  <2>1. reader[r].got \in Se!Snapshot
    BY <1>0 DEF ReaderType
  <2>2. recent \in BOOLEAN
    BY DEF SettingsTypes
  <2> QED BY <1>0, <2>1, <2>2 DEF Se!Look, Se!Load, Se!LoadFails, Se!Keep
<1>6. override' = override /\ overwrote' = overwrote /\ raced' = raced /\ editor' = editor
  BY DEF Se!Look, Se!Load, Se!LoadFails, Se!Keep
<1> QED BY <1>4, <1>5, <1>6 DEF SettingsTypes

LEMMA SettingsAlways == Spec => []SettingsTypes
<1>1. SettingsTypes /\ [Se!Next]_(Se!vars) => SettingsTypes'
  <2> SUFFICES ASSUME SettingsTypes, [Se!Next]_(Se!vars) PROVE SettingsTypes'
    OBVIOUS
  <2>1. CASE Se!Age
    BY <2>1 DEF Se!Age, SettingsTypes
  <2>2. CASE UNCHANGED Se!vars
    BY <2>2 DEF Se!vars, SettingsTypes
  <2> QED BY <2>1, <2>2, EditorSteps, ReaderSteps DEF Se!Next
<1> QED BY <1>1, SettingsInit, ServicesAreIndependent, PTL DEF Se!Spec

LEMMA SettingsTyped == Spec => []Se!TypeOK
<1>1. SettingsTypes => Se!TypeOK
  BY DEF SettingsTypes, Se!TypeOK, EditorType, ReaderType
<1> QED BY <1>1, SettingsAlways, PTL

\* A save that waits for its write holds the version that is stored, unless another
\* one was stored since it was checked.
EditInv ==
  /\ overwrote => raced
  /\ \A e \in Editors :
       editor[e].at = "put" /\ editor[e].checked => editor[e].seen = override \/ raced

\* handlePatchSettings: whichever administrators show, check and save, an edit is lost
\* only if another save came between a check and its write.
THEOREM EditsAreLostInRaces == Spec => []LossNeedsARace
<1>1. Se!Init => EditInv
  BY DEF Se!Init, EditInv
<1>2. SettingsTypes /\ EditInv /\ [Se!Next]_(Se!vars) => EditInv'
  <2> SUFFICES ASSUME SettingsTypes, EditInv, [Se!Next]_(Se!vars) PROVE EditInv'
    OBVIOUS
  <2>0. editor \in [Editors -> EditorType]
    BY DEF SettingsTypes
  <2>1. ASSUME NEW e \in Editors, Se!Put(e) PROVE EditInv'
    <3>1. overwrote' => raced'
      BY <2>1 DEF Se!Put, EditInv
    <3>2. editor'[e].at = "idle" /\ \A o \in Editors \ {e} : editor'[o] = editor[o]
      BY <2>0, <2>1 DEF Se!Put, EditorType
    <3>3. ASSUME NEW o \in Editors, editor'[o].at = "put" PROVE raced'
      BY <2>1, <3>2, <3>3 DEF Se!Put
    <3> QED BY <3>1, <3>3 DEF EditInv
  <2>2. ASSUME NEW e \in Editors, Se!Check(e) PROVE EditInv'
    <3>1. PICK c \in BOOLEAN :
            editor' = [editor EXCEPT
              ![e].at = IF c /\ editor[e].seen # override THEN "idle" ELSE "put",
              ![e].checked = c]
      BY <2>2 DEF Se!Check
    <3>2. /\ editor'[e].seen = editor[e].seen /\ editor'[e].checked = c
          /\ editor'[e].at = IF c /\ editor[e].seen # override THEN "idle" ELSE "put"
          /\ \A o \in Editors \ {e} : editor'[o] = editor[o]
      BY <2>0, <3>1 DEF EditorType
    <3>3. UNCHANGED <<override, overwrote, raced>>
      BY <2>2 DEF Se!Check
    <3> QED BY <3>2, <3>3 DEF EditInv
  <2>3. ASSUME NEW e \in Editors, Se!Show(e) \/ Se!PutFails(e) PROVE EditInv'
    <3>1. editor'[e].at # "put" /\ \A o \in Editors \ {e} : editor'[o] = editor[o]
      BY <2>0, <2>3 DEF Se!Show, Se!PutFails, EditorType
    <3>2. UNCHANGED <<override, overwrote, raced>>
      BY <2>3 DEF Se!Show, Se!PutFails
    <3> QED BY <3>1, <3>2 DEF EditInv
  <2>4. CASE UNCHANGED <<override, editor, overwrote, raced>>
    BY <2>4 DEF EditInv
  <2> QED BY <2>1, <2>2, <2>3, <2>4 DEF Se!Next, Se!vars, Se!Look, Se!Load, Se!LoadFails,
             Se!Keep, Se!Age
<1>3. EditInv => LossNeedsARace
  BY DEF EditInv, LossNeedsARace, Se!LossNeedsARace
<1> QED BY <1>1, <1>2, <1>3, SettingsAlways, ServicesAreIndependent, PTL DEF Se!Spec

-----------------------------------------------------------------------------
(* The rollups.                                                            *)

\* What is left of a division is unique.
LEMMA RestIs ==
  ASSUME NEW d \in Nat \ {0}, NEW q \in Int, NEW r \in 0 .. d - 1, NEW n \in Int,
         n = d * q + r
  PROVE  n % d = r
<1> DEFINE k == n \div d
           s == n % d
<1>1. k \in Int /\ s \in 0 .. d - 1 /\ n = d * k + s
  OBVIOUS
<1> HIDE DEF k, s
<1>2. CASE k = q
  <2>1. d * k = d * q /\ d * q \in Int
    BY <1>2
  <2> QED BY <1>1, <2>1 DEF s
<1>3. CASE k < q
  <2>1. d * (q - k) >= d
    <3> DEFINE j == q - k - 1
    <3>1. j \in Nat /\ q - k = j + 1
      BY <1>1, <1>3
    <3> HIDE DEF j
    <3>2. d * (j + 1) = d * j + d /\ d * j \in Nat
      BY <3>1
    <3> QED BY <3>1, <3>2
  <2>2. d * (q - k) = d * q - d * k /\ d * q \in Int /\ d * k \in Int
    BY <1>1
  <2> QED BY <1>1, <2>1, <2>2
<1>4. CASE q < k
  <2>1. d * (k - q) >= d
    <3> DEFINE j == k - q - 1
    <3>1. j \in Nat /\ k - q = j + 1
      BY <1>1, <1>4
    <3> HIDE DEF j
    <3>2. d * (j + 1) = d * j + d /\ d * j \in Nat
      BY <3>1
    <3> QED BY <3>1, <3>2
  <2>2. d * (k - q) = d * k - d * q /\ d * q \in Int /\ d * k \in Int
    BY <1>1
  <2> QED BY <1>1, <2>1, <2>2
<1> QED BY <1>1, <1>2, <1>3, <1>4

DayStart(t) == Ru!Start("day", t)
MonthStart(t) == Ru!Start("month", t)

\* The start of the window of length d that t is in.
LEMMA StartOf ==
  ASSUME NEW d \in Nat \ {0}, NEW t \in Nat
  PROVE  /\ t - (t % d) \in Nat /\ t - (t % d) <= t
         /\ t - (t % d) = d * (t \div d) /\ t \div d \in Nat
         /\ (t - (t % d)) - ((t - (t % d)) % d) = t - (t % d)
<1> DEFINE k == t \div d
           s == t % d
<1>1. k \in Nat /\ s \in 0 .. d - 1 /\ t = d * k + s
  OBVIOUS
<1> HIDE DEF k, s
<1>2. d * k \in Nat
  BY <1>1
<1>3. t - s = d * k
  BY <1>1, <1>2
<1>4. (d * k) % d = 0
  BY <1>1, <1>2, RestIs
<1> QED BY <1>1, <1>2, <1>3, <1>4 DEF k, s

LEMMA StartsGrow ==
  ASSUME NEW d \in Nat \ {0}, NEW t \in Nat, NEW u \in Nat, t <= u
  PROVE  t - (t % d) <= u - (u % d)
<1> DEFINE j == t \div d
           k == u \div d
<1>1. /\ j \in Nat /\ t - (t % d) = d * j /\ d * j <= t
      /\ k \in Nat /\ u - (u % d) = d * k /\ d * k <= u
      /\ u < d * k + d
  <2>1. j \in Nat /\ t - (t % d) = d * j /\ t - (t % d) <= t
    BY StartOf
  <2>2. k \in Nat /\ u - (u % d) = d * k /\ u - (u % d) <= u
    BY StartOf
  <2>3. u % d \in 0 .. d - 1
    OBVIOUS
  <2> HIDE DEF j, k
  <2> QED BY <2>1, <2>2, <2>3
<1> HIDE DEF j, k
<1>2. j <= k
  <2> SUFFICES ASSUME k < j PROVE FALSE
    BY <1>1
  <2> DEFINE i == j - k - 1
  <2>1. i \in Nat /\ j = k + 1 + i
    BY <1>1
  <2> HIDE DEF i
  <2>2. d * j = d * k + d + d * i /\ d * i \in Nat /\ d * k \in Nat
    BY <1>1, <2>1
  <2> QED BY <1>1, <2>2
<1>3. d * j <= d * k
  <2> DEFINE i == k - j
  <2>1. i \in Nat /\ k = j + i
    BY <1>1, <1>2
  <2> HIDE DEF i
  <2>2. d * k = d * j + d * i /\ d * i \in Nat /\ d * j \in Nat
    BY <1>1, <2>1
  <2> QED BY <2>2
<1> QED BY <1>1, <1>3

\* A day lies in the month of its start.
LEMMA DayInMonth ==
  ASSUME NEW d \in Nat \ {0}, NEW m \in Nat \ {0}, m % d = 0, NEW t \in Nat
  PROVE  (t - (t % d)) - ((t - (t % d)) % m) = t - (t % m)
<1> DEFINE a == t \div m
           b == t % m
           c == m \div d
           e == b \div d
           f == b % d
<1>1. a \in Nat /\ b \in 0 .. m - 1 /\ t = m * a + b
  OBVIOUS
<1>2. c \in Nat /\ m = d * c
  OBVIOUS
<1>3. e \in Nat /\ f \in 0 .. d - 1 /\ b = d * e + f
  <2> HIDE DEF b
  <2> QED BY <1>1
<1> HIDE DEF a, b, c, e, f
<1>4. t = d * (c * a + e) + f
  <2>1. m * a = d * (c * a)
    BY <1>1, <1>2
  <2>2. d * (c * a + e) = d * (c * a) + d * e
    BY <1>1, <1>2, <1>3
  <2>3. d * (c * a) \in Int /\ d * e \in Int
    BY <1>1, <1>2, <1>3
  <2> QED BY <1>1, <1>3, <2>1, <2>2, <2>3
<1>5. t % d = f
  <2> DEFINE q == c * a + e
  <2>1. q \in Int /\ t \in Int /\ t = d * q + f
    BY <1>1, <1>2, <1>3, <1>4
  <2> HIDE DEF q
  <2> QED BY <1>3, <2>1, RestIs
<1>6. t - f = m * a + (b - f) /\ b - f \in 0 .. m - 1 /\ m * a \in Int
  <2>1. m * a \in Int /\ d * e \in Nat
    BY <1>1, <1>3
  <2> QED BY <1>1, <1>3, <2>1
<1>7. (t - f) % m = b - f
  <2> DEFINE n == t - f
             r == b - f
  <2>1. n \in Int /\ r \in 0 .. m - 1 /\ n = m * a + r
    BY <1>1, <1>3, <1>6
  <2> HIDE DEF n, r
  <2>2. n % m = r
    BY <1>1, <2>1, RestIs
  <2> QED BY <2>2 DEF n, r
<1>8. (t - f) - (b - f) = t - b
  BY <1>1, <1>3
<1> QED BY <1>5, <1>7, <1>8 DEF b

LEMMA Starts ==
  /\ \A t \in Ru!Ticks : /\ DayStart(t) \in Ru!Ticks /\ DayStart(t) <= t
                         /\ MonthStart(t) \in Ru!Ticks /\ MonthStart(t) <= t
  /\ \A t \in Ru!Ticks : DayStart(DayStart(t)) = DayStart(t)
  /\ \A t \in Ru!Ticks : MonthStart(MonthStart(t)) = MonthStart(t)
  /\ \A t \in Ru!Ticks : MonthStart(DayStart(t)) = MonthStart(t)
  /\ \A t, u \in Ru!Ticks : t <= u => MonthStart(t) <= MonthStart(u)
<1>1. /\ Day \in Nat \ {0} /\ Month \in Nat \ {0} /\ Month % Day = 0 /\ LastTick \in Nat
  BY ServiceAssumption
<1>2. \A t : DayStart(t) = t - (t % Day) /\ MonthStart(t) = t - (t % Month)
  BY DEF DayStart, MonthStart, Ru!Start
<1>3. \A t \in Ru!Ticks : t \in Nat /\ t <= LastTick
  BY <1>1 DEF Ru!Ticks
<1>4. \A t \in Nat : t <= LastTick => t \in Ru!Ticks
  BY <1>1 DEF Ru!Ticks
<1>5. ASSUME NEW t \in Ru!Ticks
      PROVE  /\ DayStart(t) \in Nat /\ DayStart(t) <= t /\ DayStart(DayStart(t)) = DayStart(t)
             /\ MonthStart(t) \in Nat /\ MonthStart(t) <= t
             /\ MonthStart(MonthStart(t)) = MonthStart(t)
  <2>1. t \in Nat
    BY <1>3
  <2>2. /\ t - (t % Day) \in Nat /\ t - (t % Day) <= t
        /\ (t - (t % Day)) - ((t - (t % Day)) % Day) = t - (t % Day)
    BY <1>1, <2>1, StartOf
  <2>3. /\ t - (t % Month) \in Nat /\ t - (t % Month) <= t
        /\ (t - (t % Month)) - ((t - (t % Month)) % Month) = t - (t % Month)
    BY <1>1, <2>1, StartOf
  <2> QED BY <1>2, <2>2, <2>3
<1>6. \A t \in Ru!Ticks : DayStart(t) \in Ru!Ticks /\ MonthStart(t) \in Ru!Ticks
  <2> TAKE t \in Ru!Ticks
  <2>1. DayStart(t) \in Nat /\ DayStart(t) <= t /\ MonthStart(t) \in Nat /\ MonthStart(t) <= t
    BY <1>5
  <2>2. t \in Nat /\ t <= LastTick
    BY <1>3
  <2> QED BY <1>1, <1>4, <2>1, <2>2
<1>7. \A t \in Ru!Ticks : MonthStart(DayStart(t)) = MonthStart(t)
  <2> TAKE t \in Ru!Ticks
  <2>1. t \in Nat
    BY <1>3
  <2>2. (t - (t % Day)) - ((t - (t % Day)) % Month) = t - (t % Month)
    BY <1>1, <2>1, DayInMonth
  <2> QED BY <1>2, <2>2
<1>8. \A t, u \in Ru!Ticks : t <= u => MonthStart(t) <= MonthStart(u)
  <2> TAKE t, u \in Ru!Ticks
  <2>1. t \in Nat /\ u \in Nat
    BY <1>3
  <2>2. t <= u => t - (t % Month) <= u - (u % Month)
    BY <1>1, <2>1, StartsGrow
  <2> QED BY <1>2, <2>2
<1> QED BY <1>5, <1>6, <1>7, <1>8

LEMMA CountIs ==
  ASSUME NEW S, IsFiniteSet(S), NEW w
  PROVE  Ru!Count(w, S) = Sum(w, S)
<1> DEFINE P(f) == f = [s \in SUBSET S |-> IF s = {} THEN 0
                     ELSE w[CHOOSE x \in s : TRUE] + f[s \ {CHOOSE x \in s : TRUE}]]
           h == CHOOSE f : P(f)
<1>1. PICK k : Sums(k, S, w)
  BY SumsExist
<1>2. P(k)
  BY <1>1 DEF Sums, Pick
<1>3. P(h)
  BY <1>2
<1>4. Sums(h, S, w)
  BY <1>3 DEF Sums, Pick
<1>5. Ru!Count(w, S) = h[S]
  BY DEF Ru!Count, Ru!MapThenSumSet, Ru!MapThenFoldSet
<1> HIDE DEF h
<1> QED BY <1>4, <1>5, SumIs

\* Parts of a set: when no summand of v exceeds what w has in its part, then v has no
\* more in all than w.
LEMMA SumOfParts ==
  ASSUME NEW S, IsFiniteSet(S), NEW f,
         NEW w, \A x \in S : w[x] \in Nat,
         NEW v, \A x \in S : v[x] \in Nat,
         \A x \in S : v[x] <= Sum(w, {u \in S : f[u] = x})
  PROVE  Sum(v, S) <= Sum(w, S)
<1> DEFINE Part(t) == {u \in S : f[u] \in t}
           One(x) == {u \in S : f[u] = x}
           F == {t \in SUBSET S : ~ (Sum(v, t) <= Sum(w, Part(t)))}
<1>1. ASSUME F # {} PROVE FALSE
  <2>1. PICK t \in F : \A u \in F : u \subseteq t => u = t
    <3>1. F \in SUBSET SUBSET S
      OBVIOUS
    <3> HIDE DEF F
    <3> QED BY <1>1, <3>1, MinimalSubset
  <2>2. t \in SUBSET S /\ ~ (Sum(v, t) <= Sum(w, Part(t)))
    OBVIOUS
  <2>3. CASE t = {}
    <3>1. Part(t) = {}
      BY <2>3
    <3> HIDE DEF Part
    <3>2. Sum(v, t) = 0 /\ Sum(w, Part(t)) = 0
      BY <2>3, <3>1, SumEmpty
    <3> QED BY <2>2, <3>2
  <2>4. CASE t # {}
    <3> DEFINE c == Pick(t)
               r == t \ {c}
    <3>1. c \in t
      BY <2>4, PickIn
    <3>2. r \in SUBSET S /\ r # t /\ r \subseteq t /\ c \in S
      BY <2>2, <3>1
    <3>3. IsFiniteSet(t) /\ IsFiniteSet(Part(t)) /\ IsFiniteSet(Part(r)) /\ IsFiniteSet(One(c))
      BY <2>2, FS_Subset
    <3>4. Sum(v, r) <= Sum(w, Part(r))
      BY <2>1, <3>2
    <3>5. Sum(v, t) = v[c] + Sum(v, r)
      BY <2>4, <3>3, SumPick
    <3>6. /\ One(c) \cup Part(r) = Part(t) /\ One(c) \cap Part(r) = {}
          /\ One(c) \in SUBSET S /\ Part(r) \in SUBSET S
      BY <3>1
    <3>7. v[c] <= Sum(w, One(c))
      BY <3>2
    <3> HIDE DEF Part, One, c
    <3>8. /\ \A x \in One(c) \cup Part(r) : w[x] \in Int
          /\ \A x \in One(c) : w[x] \in Nat
          /\ \A x \in Part(r) : w[x] \in Nat
          /\ \A x \in r : v[x] \in Nat
      BY <3>2, <3>6
    <3>9. Sum(w, One(c) \cup Part(r)) = Sum(w, One(c)) + Sum(w, Part(r))
      BY <3>3, <3>6, <3>8, SumUnion
    <3>10. IsFiniteSet(r)
      BY <3>2, FS_Subset
    <3>11. /\ Sum(w, One(c)) \in Nat /\ Sum(w, Part(r)) \in Nat /\ Sum(v, r) \in Nat
      BY <3>3, <3>8, <3>10, SumNat
    <3>12. v[c] \in Nat
      BY <3>2
    <3> HIDE DEF r
    <3> QED BY <2>2, <3>4, <3>5, <3>6, <3>7, <3>9, <3>11, <3>12
  <2> QED BY <2>3, <2>4
<1>2. Sum(v, S) <= Sum(w, Part(S))
  BY <1>1
<1>3. Part(S) \in SUBSET S
  OBVIOUS
<1> HIDE DEF Part
<1>4. Sum(w, Part(S)) <= Sum(w, S)
  BY <1>3, SumSubset
<1>5. IsFiniteSet(Part(S)) /\ \A x \in Part(S) : w[x] \in Nat
  BY <1>3, FS_Subset
<1>6. Sum(v, S) \in Nat /\ Sum(w, S) \in Nat /\ Sum(w, Part(S)) \in Nat
  BY <1>5, SumNat
<1> QED BY <1>2, <1>4, <1>6

DayOf(t) == Ru!Window("day", t)
MonthOf(t) == Ru!Window("month", t)

LEMMA WindowsAre ==
  ASSUME NEW t \in Ru!Ticks
  PROVE  /\ Ru!Window("minute", t) = {t} /\ Ru!Start("minute", t) = t
         /\ IsFiniteSet(DayOf(t)) /\ DayOf(t) \in SUBSET Ru!Ticks
         /\ IsFiniteSet(MonthOf(t)) /\ MonthOf(t) \in SUBSET Ru!Ticks
         /\ \A u \in Ru!Ticks : u \in DayOf(t) <=> DayStart(u) = DayStart(t)
         /\ \A u \in Ru!Ticks : u \in MonthOf(t) <=> MonthStart(u) = MonthStart(t)
<1>1. IsFiniteSet(Ru!Ticks)
  BY ServiceAssumption, FS_Interval DEF Ru!Ticks
<1>2. \A u : Ru!Start("minute", u) = u
  BY DEF Ru!Start
<1>3. Ru!Window("minute", t) = {t}
  BY <1>2 DEF Ru!Window
<1>4. DayOf(t) \in SUBSET Ru!Ticks /\ MonthOf(t) \in SUBSET Ru!Ticks
  BY DEF DayOf, MonthOf, Ru!Window
<1>5. IsFiniteSet(DayOf(t)) /\ IsFiniteSet(MonthOf(t))
  BY <1>1, <1>4, FS_Subset
<1>6. /\ \A u \in Ru!Ticks : u \in DayOf(t) <=> DayStart(u) = DayStart(t)
      /\ \A u \in Ru!Ticks : u \in MonthOf(t) <=> MonthStart(u) = MonthStart(t)
  BY DEF DayOf, MonthOf, DayStart, MonthStart, Ru!Window
<1> QED BY <1>2, <1>3, <1>4, <1>5, <1>6

\* Minutes and days claim no more of a tick than the details of an instant show.
Within(minute, day, details, t) ==
  /\ minute[t] <= details[t]
  /\ DayStart(t) = t => day[t] <= Sum(details, DayOf(t))

Nested(minute, day, month) ==
  \A t \in Ru!Ticks : /\ Sum(minute, DayOf(t)) <= day[DayStart(t)]
                      /\ Sum(day, MonthOf(t)) <= month[MonthStart(t)]

LEMMA WithinGrows ==
  ASSUME NEW minute \in [Ru!Ticks -> Nat], NEW day \in [Ru!Ticks -> Nat],
         NEW s \in [Ru!Ticks -> Nat], NEW d \in [Ru!Ticks -> Nat], NEW t \in Ru!Ticks,
         \A u \in DayOf(t) : s[u] <= d[u],
         Within(minute, day, s, t)
  PROVE  Within(minute, day, d, t)
<1>1. t \in DayOf(t) /\ IsFiniteSet(DayOf(t)) /\ DayOf(t) \in SUBSET Ru!Ticks
  BY WindowsAre
<1>2. minute[t] <= d[t]
  BY <1>1 DEF Within
<1>3. \A u \in DayOf(t) : s[u] \in Int /\ d[u] \in Int /\ s[u] <= d[u]
  BY <1>1
<1>4. Sum(s, DayOf(t)) <= Sum(d, DayOf(t))
  BY <1>1, <1>3, SumMonotone
<1>5. /\ \A u \in DayOf(t) : s[u] \in Nat
      /\ \A u \in DayOf(t) : d[u] \in Nat
  BY <1>1
<1>6. Sum(s, DayOf(t)) \in Nat /\ Sum(d, DayOf(t)) \in Nat
  BY <1>1, <1>5, SumNat
<1>7. DayStart(t) = t => day[t] <= Sum(d, DayOf(t))
  <2>1. day[t] \in Nat
    OBVIOUS
  <2>2. DayStart(t) = t => day[t] <= Sum(s, DayOf(t))
    BY DEF Within
  <2> QED BY <1>4, <1>6, <2>1, <2>2
<1> QED BY <1>2, <1>7 DEF Within

\* What a round writes: the counts of the details that it has read.
Counts(old, start, n, new) ==
  \A t \in Ru!Ticks : new[t] = IF t = start /\ n # 0 THEN n ELSE old[t]

\* A round that writes what it has read keeps the windows nested.
LEMMA RecountNests ==
  ASSUME NEW n \in Ru!Ticks, NEW s \in [Ru!Ticks -> Nat],
         NEW minute \in [Ru!Ticks -> Nat], NEW day \in [Ru!Ticks -> Nat],
         NEW month \in [Ru!Ticks -> Nat],
         \A t \in Ru!Ticks : day[t] # 0 => DayStart(t) = t,
         \A t \in MonthOf(n) : Within(minute, day, s, t),
         Nested(minute, day, month),
         NEW m \in [Ru!Ticks -> Nat], Counts(minute, n, s[n], m),
         NEW d \in [Ru!Ticks -> Nat], Counts(day, DayStart(n), Sum(s, DayOf(n)), d),
         NEW h \in [Ru!Ticks -> Nat], Counts(month, MonthStart(n), Sum(s, MonthOf(n)), h)
  PROVE  /\ \A t \in MonthOf(n) : Within(m, d, s, t)
         /\ \A t \in Ru!Ticks : d[t] # 0 => DayStart(t) = t
         /\ Nested(m, d, h)
<1> DEFINE c == DayStart(n)
           e == MonthStart(n)
<1>1. /\ c \in Ru!Ticks /\ DayStart(c) = c /\ MonthStart(c) = MonthStart(n)
      /\ e \in Ru!Ticks /\ n \in DayOf(n) /\ n \in MonthOf(n) /\ c \in MonthOf(n)
      /\ DayOf(n) \in SUBSET Ru!Ticks /\ MonthOf(n) \in SUBSET Ru!Ticks
      /\ IsFiniteSet(DayOf(n)) /\ IsFiniteSet(MonthOf(n))
  BY Starts, WindowsAre
<1>2. DayOf(c) = DayOf(n) /\ MonthOf(e) = MonthOf(n)
  BY <1>1, Starts DEF DayOf, MonthOf, Ru!Window, DayStart, MonthStart
<1>3. /\ Sum(s, DayOf(n)) \in Nat /\ Sum(s, MonthOf(n)) \in Nat
  <2>1. /\ \A u \in DayOf(n) : s[u] \in Nat
        /\ \A u \in MonthOf(n) : s[u] \in Nat
    BY <1>1
  <2> QED BY <1>1, <2>1, SumNat
<1>4. \A t \in Ru!Ticks : d[t] # 0 => DayStart(t) = t
  BY <1>1 DEF Counts
<1>5. \A t \in MonthOf(n) : m[t] <= s[t]
  <2> TAKE t \in MonthOf(n)
  <2>1. t \in Ru!Ticks /\ minute[t] <= s[t] /\ s[t] \in Nat /\ m[t] \in Nat
    BY <1>1 DEF Within
  <2>2. m[t] = s[t] \/ m[t] = minute[t]
    BY <2>1 DEF Counts
  <2> QED BY <2>1, <2>2
<1>6. \A t \in MonthOf(n) : DayStart(t) = t => d[t] <= Sum(s, DayOf(t))
  <2> TAKE t \in MonthOf(n)
  <2>1. t \in Ru!Ticks /\ (DayStart(t) = t => day[t] <= Sum(s, DayOf(t)))
    BY <1>1 DEF Within
  <2>2. d[t] = day[t] \/ (t = c /\ d[t] = Sum(s, DayOf(n)))
    BY <2>1 DEF Counts
  <2>3. CASE d[t] = day[t]
    BY <2>1, <2>3
  <2>4. CASE t = c /\ d[t] = Sum(s, DayOf(n))
    <3>1. d[t] = Sum(s, DayOf(t))
      BY <1>2, <2>4
    <3>2. d[t] \in Nat
      BY <2>1
    <3> QED BY <3>1, <3>2
  <2> QED BY <2>2, <2>3, <2>4
<1>7. \A t \in MonthOf(n) : Within(m, d, s, t)
  BY <1>5, <1>6 DEF Within
<1>8. ASSUME NEW t \in Ru!Ticks PROVE Sum(m, DayOf(t)) <= d[DayStart(t)]
  <2>0. /\ IsFiniteSet(DayOf(t)) /\ DayOf(t) \in SUBSET Ru!Ticks
        /\ DayStart(t) \in Ru!Ticks
    BY Starts, WindowsAre
  <2>1. CASE DayStart(t) = c
    <3>1. DayOf(t) = DayOf(n)
      BY <2>1 DEF DayOf, Ru!Window, DayStart
    <3>2. \A u \in DayOf(n) : u \in MonthOf(n)
      BY <1>1, Starts, WindowsAre
    <3>3. \A u \in DayOf(n) : m[u] \in Int /\ s[u] \in Int /\ m[u] <= s[u]
      BY <1>1, <1>5, <3>2
    <3>4. Sum(m, DayOf(n)) <= Sum(s, DayOf(n))
      BY <1>1, <3>3, SumMonotone
    <3>5. \A u \in DayOf(n) : m[u] \in Nat
      BY <1>1
    <3>6. Sum(m, DayOf(n)) \in Nat
      BY <1>1, <3>5, SumNat
    <3>7. d[c] = IF Sum(s, DayOf(n)) # 0 THEN Sum(s, DayOf(n)) ELSE day[c]
      BY <1>1 DEF Counts
    <3>8. day[c] \in Nat
      BY <1>1
    <3>9. Sum(m, DayOf(n)) <= d[c]
      BY <1>3, <3>4, <3>6, <3>7, <3>8
    <3> QED BY <2>1, <3>1, <3>9
  <2>2. CASE DayStart(t) # c
    <3>1. d[DayStart(t)] = day[DayStart(t)]
      BY <2>0, <2>2 DEF Counts
    <3>2. n \notin DayOf(t)
      BY <2>2, WindowsAre
    <3>3. \A u \in DayOf(t) : minute[u] \in Int /\ m[u] = minute[u]
      BY <2>0, <3>2 DEF Counts
    <3>4. Sum(m, DayOf(t)) = Sum(minute, DayOf(t))
      BY <2>0, <3>3, SumSame
    <3> QED BY <3>1, <3>4 DEF Nested
  <2> QED BY <2>1, <2>2
<1>9. ASSUME NEW t \in Ru!Ticks PROVE Sum(d, MonthOf(t)) <= h[MonthStart(t)]
  <2>0. /\ IsFiniteSet(MonthOf(t)) /\ MonthOf(t) \in SUBSET Ru!Ticks
        /\ MonthStart(t) \in Ru!Ticks
    BY Starts, WindowsAre
  <2>1. CASE MonthStart(t) = e
    <3>1. MonthOf(t) = MonthOf(n)
      BY <2>1 DEF MonthOf, Ru!Window, MonthStart
    <3> DEFINE S == MonthOf(n)
               f == [u \in Ru!Ticks |-> DayStart(u)]
    <3>2. \A x \in S : d[x] <= Sum(s, {u \in S : f[u] = x})
      <4> TAKE x \in S
      <4> DEFINE T == {u \in S : f[u] = x}
      <4>1. x \in Ru!Ticks /\ d[x] \in Nat
        BY <1>1
      <4>2. IsFiniteSet(T) /\ \A u \in T : s[u] \in Nat
        BY <1>1, FS_Subset
      <4>3. Sum(s, T) \in Nat
        <5> HIDE DEF T
        <5> QED BY <4>2, SumNat
      <4>4. CASE DayStart(x) = x
        <5>1. MonthStart(x) = MonthStart(n)
          BY <4>1, WindowsAre
        <5>2. \A u \in Ru!Ticks : DayStart(u) = x => u \in S
          <6> TAKE u \in Ru!Ticks
          <6>1. MonthStart(DayStart(u)) = MonthStart(u)
            BY Starts
          <6>2. u \in S <=> MonthStart(u) = MonthStart(n)
            BY WindowsAre
          <6> QED BY <5>1, <6>1, <6>2
        <5>3. \A u \in Ru!Ticks : u \in DayOf(x) <=> DayStart(u) = x
          BY <4>1, <4>4, WindowsAre
        <5>4. DayOf(x) \in SUBSET Ru!Ticks /\ S \in SUBSET Ru!Ticks
          BY <1>1, <4>1, WindowsAre
        <5>5. T = DayOf(x)
          BY <5>2, <5>3, <5>4
        <5> QED BY <1>6, <4>4, <5>5
      <4>5. CASE DayStart(x) # x
        <5>1. d[x] = 0
          BY <1>4, <4>1, <4>5
        <5> HIDE DEF T
        <5>2. d[x] <= Sum(s, T)
          BY <4>3, <5>1
        <5> QED BY <5>2 DEF T
      <4> QED BY <4>4, <4>5
    <3>3. /\ \A u \in S : s[u] \in Nat
          /\ \A u \in S : d[u] \in Nat
      BY <1>1
    <3>4. IsFiniteSet(S)
      BY <1>1
    <3>7. h[e] = IF Sum(s, S) # 0 THEN Sum(s, S) ELSE month[e]
      BY <1>1 DEF Counts
    <3>8. month[e] \in Nat /\ Sum(s, S) \in Nat
      BY <1>1, <1>3
    <3> HIDE DEF S, f
    <3>5. Sum(d, S) <= Sum(s, S)
      BY <3>2, <3>3, <3>4, SumOfParts
    <3>6. Sum(d, S) \in Nat
      BY <3>3, <3>4, SumNat
    <3>9. Sum(d, S) <= h[e]
      BY <3>5, <3>6, <3>7, <3>8
    <3> QED BY <2>1, <3>1, <3>9 DEF S
  <2>2. CASE MonthStart(t) # e
    <3>1. h[MonthStart(t)] = month[MonthStart(t)]
      BY <2>0, <2>2 DEF Counts
    <3>2. c \notin MonthOf(t)
      BY <1>1, <2>2, WindowsAre
    <3>3. \A u \in MonthOf(t) : day[u] \in Int /\ d[u] = day[u]
      BY <2>0, <3>2 DEF Counts
    <3>4. Sum(d, MonthOf(t)) = Sum(day, MonthOf(t))
      BY <2>0, <3>3, SumSame
    <3> QED BY <3>1, <3>4 DEF Nested
  <2> QED BY <2>1, <2>2
<1>10. Nested(m, d, h)
  BY <1>8, <1>9 DEF Nested
<1> QED BY <1>4, <1>7, <1>10

Active(r) == round[r].at # "idle"

\* Minutes that no pruning has reached yet: those from the month on in which it is, or
\* in which the round that is under way began.
Open(t) ==
  \/ t >= MonthStart(clock)
  \/ \E r \in Rounds : Active(r) /\ t >= MonthStart(round[r].now)

RollupTypes ==
  /\ clock \in Ru!Ticks /\ stored \in [Ru!Ticks -> Nat]
  /\ bucket \in [Ru!Kinds -> [Ru!Ticks -> Nat]]
  /\ round \in [Rounds -> [at : {"idle", "read", "write", "prune"}, now : Ru!Ticks,
                           read : [Ru!Ticks -> Nat]]]
  /\ \A r \in Rounds : round[r].now <= clock
  /\ disturbed \in BOOLEAN

RollupInv ==
  /\ RollupTypes
  /\ ~ disturbed =>
       /\ \A r, o \in Rounds : Active(r) /\ Active(o) => r = o
       /\ \A t \in Ru!Ticks : bucket["day"][t] # 0 => DayStart(t) = t
       /\ \A t \in Ru!Ticks : Open(t) => Within(bucket["minute"], bucket["day"], stored, t)
       /\ \A r \in Rounds : round[r].at = "write" => \A t \in MonthOf(round[r].now) :
            /\ round[r].read[t] <= stored[t]
            /\ Within(bucket["minute"], bucket["day"], round[r].read, t)
       /\ Nested(bucket["minute"], bucket["day"], bucket["month"])

LEMMA RollupInit == Ru!Init => RollupInv
<1> SUFFICES ASSUME Ru!Init PROVE RollupInv
  OBVIOUS
<1> DEFINE z == [t \in Ru!Ticks |-> 0]
<1>1. /\ clock = 0 /\ stored = z /\ bucket = [k \in Ru!Kinds |-> z]
      /\ round = [r \in Rounds |-> Ru!NoRound] /\ disturbed = FALSE
  BY DEF Ru!Init
<1>2. 0 \in Ru!Ticks
  BY ServiceAssumption DEF Ru!Ticks
<1>3. \A t \in Ru!Ticks : z[t] = 0
  OBVIOUS
<1>4. z \in [Ru!Ticks -> Nat]
  OBVIOUS
<1>5. Ru!NoRound.at = "idle" /\ Ru!NoRound.now = 0 /\ Ru!NoRound.read = z
  BY DEF Ru!NoRound
<1>6. Ru!NoRound \in [at : {"idle", "read", "write", "prune"}, now : Ru!Ticks,
                     read : [Ru!Ticks -> Nat]]
  BY <1>2, <1>4 DEF Ru!NoRound
<1> HIDE DEF z
<1>7. RollupTypes
  <2>1. \A r \in Rounds : round[r].now <= clock
    BY <1>1, <1>5
  <2> QED BY <1>1, <1>2, <1>4, <1>6, <2>1 DEF RollupTypes
<1>8. bucket["minute"] = z /\ bucket["day"] = z /\ bucket["month"] = z
  BY <1>1 DEF Ru!Kinds
<1>9. \A t \in Ru!Ticks : Sum(z, DayOf(t)) = 0 /\ Sum(z, MonthOf(t)) = 0
  <2> TAKE t \in Ru!Ticks
  <2>1. /\ IsFiniteSet(DayOf(t)) /\ IsFiniteSet(MonthOf(t))
        /\ \A u \in DayOf(t) : z[u] = 0
        /\ \A u \in MonthOf(t) : z[u] = 0
    BY <1>3, WindowsAre
  <2> QED BY <2>1, SumZero
<1>10. \A t \in Ru!Ticks : Within(z, z, z, t)
  BY <1>3, <1>9 DEF Within
<1>11. Nested(z, z, z)
  BY <1>3, <1>9, Starts DEF Nested
<1>12. \A r \in Rounds : round[r].at = "idle"
  BY <1>1, <1>5
<1> QED BY <1>1, <1>3, <1>7, <1>8, <1>10, <1>11, <1>12 DEF RollupInv, Active

\* The ticks of a window that begins in the open are open.
LEMMA OpenWindows ==
  ASSUME NEW n \in Ru!Ticks
  PROVE  /\ \A t \in MonthOf(n) : t \in Ru!Ticks /\ t >= MonthStart(n)
         /\ \A t \in Ru!Ticks : \A u \in DayOf(t) : DayStart(t) = t => u >= t
         /\ \A t \in MonthOf(n) : \A u \in DayOf(t) : u \in MonthOf(n)
<1>1. \A t \in Ru!Ticks : t \in Int
  BY DEF Ru!Ticks
<1>2. ASSUME NEW t \in MonthOf(n) PROVE t \in Ru!Ticks /\ t >= MonthStart(n)
  <2>1. t \in Ru!Ticks
    BY WindowsAre
  <2>2. MonthStart(t) = MonthStart(n) /\ MonthStart(t) <= t /\ MonthStart(t) \in Ru!Ticks
    BY <2>1, Starts, WindowsAre
  <2> QED BY <1>1, <2>1, <2>2
<1>3. ASSUME NEW t \in Ru!Ticks, NEW u \in DayOf(t), DayStart(t) = t PROVE u >= t
  <2>1. u \in Ru!Ticks
    BY WindowsAre
  <2>2. DayStart(u) = t /\ DayStart(u) <= u
    BY <1>3, <2>1, Starts, WindowsAre
  <2> QED BY <1>1, <2>1, <2>2
<1>4. ASSUME NEW t \in MonthOf(n), NEW u \in DayOf(t) PROVE u \in MonthOf(n)
  <2>1. t \in Ru!Ticks /\ MonthStart(t) = MonthStart(n)
    BY <1>2, WindowsAre
  <2>2. u \in Ru!Ticks /\ DayStart(u) = DayStart(t)
    BY <2>1, WindowsAre
  <2>3. MonthStart(u) = MonthStart(DayStart(u)) /\ MonthStart(t) = MonthStart(DayStart(t))
    BY <2>1, <2>2, Starts
  <2> QED BY <2>1, <2>2, <2>3, WindowsAre
<1> QED BY <1>2, <1>3, <1>4

LEMMA RollupTypesNext ==
  ASSUME RollupTypes, Ru!Next
  PROVE  RollupTypes'
<1> DEFINE RoundType == [at : {"idle", "read", "write", "prune"}, now : Ru!Ticks,
                         read : [Ru!Ticks -> Nat]]
           z == [t \in Ru!Ticks |-> 0]
<1>1. /\ clock \in Ru!Ticks /\ stored \in [Ru!Ticks -> Nat]
      /\ bucket \in [Ru!Kinds -> [Ru!Ticks -> Nat]]
      /\ round \in [Rounds -> RoundType]
      /\ \A r \in Rounds : round[r].now <= clock
      /\ disturbed \in BOOLEAN
      /\ \A t \in Ru!Ticks : t \in Nat
  <2>1. \A t \in Ru!Ticks : t \in Nat
    BY DEF Ru!Ticks
  <2> QED BY <2>1 DEF RollupTypes
<1>2. /\ 0 \in Ru!Ticks /\ z \in [Ru!Ticks -> Nat]
      /\ Ru!NoRound = [at |-> "idle", now |-> 0, read |-> z]
  BY ServiceAssumption DEF Ru!Ticks, Ru!NoRound
<1>3. ASSUME NEW r \in Rounds, NEW c \in RoundType, c.now <= clock,
             round' = [round EXCEPT ![r] = c], clock' = clock,
             stored' \in [Ru!Ticks -> Nat], bucket' \in [Ru!Kinds -> [Ru!Ticks -> Nat]],
             disturbed' \in BOOLEAN
      PROVE  RollupTypes'
  <2>1. round' \in [Rounds -> RoundType] /\ \A o \in Rounds : round'[o].now <= clock'
    <3> HIDE DEF RoundType
    <3> QED BY <1>1, <1>3
  <2> QED BY <1>1, <1>3, <2>1 DEF RollupTypes
<1>4. ASSUME NEW t \in Ru!Ticks, Ru!Land(t) PROVE RollupTypes'
  BY <1>1, <1>4 DEF Ru!Land, RollupTypes
<1>5. CASE Ru!Tick
  <2>1. /\ clock < LastTick /\ clock' = clock + 1 /\ stored' = stored /\ bucket' = bucket
        /\ round' = round /\ disturbed' = disturbed
    BY <1>5 DEF Ru!Tick
  <2>2. clock' \in Ru!Ticks
    BY <1>1, <2>1, ServiceAssumption DEF Ru!Ticks
  <2>3. \A r \in Rounds : round[r].now <= clock'
    <3> TAKE r \in Rounds
    <3>1. round[r].now \in Nat /\ round[r].now <= clock /\ clock \in Nat
      BY <1>1
    <3> QED BY <2>1, <3>1
  <2> QED BY <1>1, <2>1, <2>2, <2>3 DEF RollupTypes
<1>6. ASSUME NEW r \in Rounds, Ru!Begin(r) PROVE RollupTypes'
  <2> DEFINE c == [Ru!NoRound EXCEPT !.at = "read", !.now = clock]
  <2>1. /\ round' = [round EXCEPT ![r] = c] /\ clock' = clock /\ stored' = stored
        /\ bucket' = bucket
    BY <1>6 DEF Ru!Begin
  <2>3. disturbed' \in BOOLEAN
    <3> DEFINE busy == \E o \in Rounds : round[o].at # "idle"
    <3>1. disturbed' = (disturbed \/ busy)
      BY <1>6 DEF Ru!Begin
    <3> HIDE DEF busy
    <3>2. disturbed' = TRUE \/ disturbed' = FALSE
      BY <3>1, Zenon
    <3> QED BY <3>2
  <2>2. c \in RoundType /\ c.now <= clock
    <3>1. Ru!NoRound \in RoundType
      BY <1>2
    <3>2. c \in RoundType /\ c.now = clock
      BY <1>1, <3>1
    <3> QED BY <1>1, <3>2
  <2> HIDE DEF c, RoundType
  <2> QED BY <1>1, <1>3, <2>1, <2>2, <2>3
<1>7. ASSUME NEW r \in Rounds, Ru!Read(r) PROVE RollupTypes'
  <2> DEFINE s == [t \in Ru!Ticks |-> IF t \in MonthOf(round[r].now) THEN stored[t] ELSE 0]
             c == [round[r] EXCEPT !.at = "write", !.read = s]
  <2>1. /\ round' = [round EXCEPT ![r] = c] /\ clock' = clock /\ stored' = stored
        /\ bucket' = bucket /\ disturbed' = disturbed
    BY <1>7 DEF Ru!Read, MonthOf
  <2>2. s \in [Ru!Ticks -> Nat]
    BY <1>1
  <2> HIDE DEF s
  <2>3. c \in RoundType /\ c.now = round[r].now
    BY <1>1, <2>2
  <2>4. c.now <= clock
    BY <1>1, <2>3
  <2> HIDE DEF c, RoundType
  <2> QED BY <1>1, <1>3, <2>1, <2>3, <2>4
<1>8. ASSUME NEW r \in Rounds, Ru!Write(r) PROVE RollupTypes'
  <2> DEFINE c == [round[r] EXCEPT !.at = "prune"]
  <2>1. /\ round' = [round EXCEPT ![r] = c] /\ clock' = clock /\ stored' = stored
        /\ bucket' = [k \in Ru!Kinds |-> Ru!Recounted(k, r)] /\ disturbed' = disturbed
    BY <1>8 DEF Ru!Write
  <2>2. c \in RoundType /\ c.now = round[r].now
    BY <1>1
  <2>3. \A k \in Ru!Kinds : Ru!Recounted(k, r) \in [Ru!Ticks -> Nat]
    <3> TAKE k \in Ru!Kinds
    <3> DEFINE S == Ru!Window(k, round[r].now)
               n == Ru!Count(round[r].read, S)
    <3>0. IsFiniteSet(Ru!Ticks)
      BY ServiceAssumption, FS_Interval DEF Ru!Ticks
    <3>1. IsFiniteSet(S) /\ S \in SUBSET Ru!Ticks
      <4>1. S \in SUBSET Ru!Ticks
        BY DEF Ru!Window
      <4> HIDE DEF S
      <4> QED BY <3>0, <4>1, FS_Subset
    <3>2. \A t \in S : round[r].read[t] \in Nat
      BY <1>1, <3>1
    <3>3. n \in Nat
      <4> HIDE DEF S
      <4> QED BY <3>1, <3>2, CountIs, SumNat
    <3>4. bucket[k] \in [Ru!Ticks -> Nat]
      BY <1>1
    <3> HIDE DEF n
    <3> QED BY <3>3, <3>4 DEF Ru!Recounted, n
  <2>4. bucket' \in [Ru!Kinds -> [Ru!Ticks -> Nat]]
    BY <2>1, <2>3
  <2>5. c.now <= clock
    BY <1>1, <2>2
  <2> HIDE DEF c, RoundType
  <2> QED BY <1>1, <1>3, <2>1, <2>2, <2>4, <2>5
<1>9. ASSUME NEW r \in Rounds, Ru!Prune(r) \/ Ru!Fails(r) PROVE RollupTypes'
  <2>1. /\ round' = [round EXCEPT ![r] = Ru!NoRound] /\ clock' = clock
        /\ bucket' = bucket
    BY <1>9 DEF Ru!Prune, Ru!Fails
  <2>3. disturbed' \in BOOLEAN
    <3>1. CASE Ru!Prune(r)
      BY <3>1, Zenon DEF Ru!Prune
    <3>2. CASE Ru!Fails(r)
      BY <1>1, <3>2 DEF Ru!Fails
    <3> QED BY <1>9, <3>1, <3>2
  <2>4. stored' \in [Ru!Ticks -> Nat]
    <3>1. CASE Ru!Prune(r)
      BY <1>1, <3>1 DEF Ru!Prune
    <3>2. CASE Ru!Fails(r)
      BY <1>1, <3>2 DEF Ru!Fails
    <3> QED BY <1>9, <3>1, <3>2
  <2>2. Ru!NoRound \in RoundType /\ Ru!NoRound.now <= clock
    BY <1>1, <1>2
  <2> HIDE DEF RoundType
  <2> QED BY <1>1, <1>3, <2>1, <2>2, <2>3, <2>4
<1> QED BY <1>4, <1>5, <1>6, <1>7, <1>8, <1>9 DEF Ru!Next

\* What a round writes into the three tables.
LEMMA RecountedIs ==
  ASSUME RollupTypes, NEW r \in Rounds
  PROVE  LET n == round[r].now  s == round[r].read IN
         /\ Counts(bucket["minute"], n, s[n], Ru!Recounted("minute", r))
         /\ Counts(bucket["day"], DayStart(n), Sum(s, DayOf(n)), Ru!Recounted("day", r))
         /\ Counts(bucket["month"], MonthStart(n), Sum(s, MonthOf(n)), Ru!Recounted("month", r))
<1> DEFINE n == round[r].now
           s == round[r].read
<1>1. /\ n \in Ru!Ticks /\ s[n] \in Nat
      /\ bucket["minute"] \in [Ru!Ticks -> Nat] /\ bucket["day"] \in [Ru!Ticks -> Nat]
      /\ bucket["month"] \in [Ru!Ticks -> Nat]
  BY DEF RollupTypes, Ru!Kinds
<1>2. ASSUME NEW k, IsFiniteSet(Ru!Window(k, n)), bucket[k] \in [Ru!Ticks -> Nat]
      PROVE  Counts(bucket[k], Ru!Start(k, n), Sum(s, Ru!Window(k, n)), Ru!Recounted(k, r))
  <2>1. Ru!Count(s, Ru!Window(k, n)) = Sum(s, Ru!Window(k, n))
    BY <1>2, CountIs
  <2> QED BY <1>2, <2>1 DEF Ru!Recounted, Counts
<1>3. /\ IsFiniteSet(DayOf(n)) /\ IsFiniteSet(MonthOf(n))
      /\ Ru!Window("minute", n) = {n} /\ Ru!Start("minute", n) = n
  BY <1>1, WindowsAre
<1>4. Sum(s, Ru!Window("minute", n)) = s[n] /\ IsFiniteSet(Ru!Window("minute", n))
  <2>1. s[n] \in Int
    BY <1>1
  <2> HIDE DEF s, n
  <2> QED BY <1>3, <2>1, SumSingle, FS_Singleton
<1> HIDE DEF s, n
<1>5. Counts(bucket["minute"], n, s[n], Ru!Recounted("minute", r))
  <2>1. Counts(bucket["minute"], Ru!Start("minute", n), Sum(s, Ru!Window("minute", n)),
               Ru!Recounted("minute", r))
    BY <1>1, <1>2, <1>4
  <2> QED BY <1>3, <1>4, <2>1
<1>6. Counts(bucket["day"], DayStart(n), Sum(s, DayOf(n)), Ru!Recounted("day", r))
  BY <1>1, <1>2, <1>3 DEF DayOf, DayStart
<1>7. Counts(bucket["month"], MonthStart(n), Sum(s, MonthOf(n)), Ru!Recounted("month", r))
  BY <1>1, <1>2, <1>3 DEF MonthOf, MonthStart
<1> QED BY <1>5, <1>6, <1>7 DEF s, n

\* What each step does to the invariant: a write counts what the round has read, which
\* shows no less than the tables claim, and a pruning reaches no open month.
LEMMA RollupNext ==
  ASSUME RollupInv, Ru!Next
  PROVE  RollupInv'
<1>1. RollupTypes /\ RollupTypes'
  BY RollupTypesNext DEF RollupInv
<1> DEFINE minute == bucket["minute"]
           day == bucket["day"]
           month == bucket["month"]
<1>2. /\ clock \in Ru!Ticks /\ stored \in [Ru!Ticks -> Nat] /\ stored' \in [Ru!Ticks -> Nat]
      /\ minute \in [Ru!Ticks -> Nat] /\ day \in [Ru!Ticks -> Nat]
      /\ month \in [Ru!Ticks -> Nat]
      /\ \A r \in Rounds : /\ round[r].now \in Ru!Ticks /\ round[r].now <= clock
                           /\ round[r].read \in [Ru!Ticks -> Nat]
      /\ \A t \in Ru!Ticks : t \in Nat
  <2>1. \A t \in Ru!Ticks : t \in Nat
    BY DEF Ru!Ticks
  <2>2. minute \in [Ru!Ticks -> Nat] /\ day \in [Ru!Ticks -> Nat] /\ month \in [Ru!Ticks -> Nat]
    BY <1>1 DEF RollupTypes, Ru!Kinds
  <2>3. \A r \in Rounds : /\ round[r].now \in Ru!Ticks /\ round[r].now <= clock
                         /\ round[r].read \in [Ru!Ticks -> Nat]
    BY <1>1 DEF RollupTypes
  <2>4. /\ clock \in Ru!Ticks /\ stored \in [Ru!Ticks -> Nat]
        /\ stored' \in [Ru!Ticks -> Nat]
    BY <1>1 DEF RollupTypes
  <2> HIDE DEF minute, day, month
  <2> QED BY <2>1, <2>2, <2>3, <2>4
<1>3. disturbed => disturbed'
  BY DEF Ru!Next, Ru!Land, Ru!Tick, Ru!Begin, Ru!Read, Ru!Write, Ru!Prune, Ru!Fails
<1> SUFFICES ASSUME ~ disturbed'
             PROVE  /\ \A r, o \in Rounds : Active(r)' /\ Active(o)' => r = o
                    /\ \A t \in Ru!Ticks : bucket'["day"][t] # 0 => DayStart(t) = t
                    /\ \A t \in Ru!Ticks :
                         Open(t)' => Within(bucket'["minute"], bucket'["day"], stored', t)
                    /\ \A r \in Rounds : round'[r].at = "write" =>
                         \A t \in MonthOf(round'[r].now) :
                           /\ round'[r].read[t] <= stored'[t]
                           /\ Within(bucket'["minute"], bucket'["day"], round'[r].read, t)
                    /\ Nested(bucket'["minute"], bucket'["day"], bucket'["month"])
  BY <1>1 DEF RollupInv
<1>4. /\ \A r, o \in Rounds : Active(r) /\ Active(o) => r = o
      /\ \A t \in Ru!Ticks : day[t] # 0 => DayStart(t) = t
      /\ \A t \in Ru!Ticks : Open(t) => Within(minute, day, stored, t)
      /\ \A r \in Rounds : round[r].at = "write" => \A t \in MonthOf(round[r].now) :
           /\ round[r].read[t] <= stored[t]
           /\ Within(minute, day, round[r].read, t)
      /\ Nested(minute, day, month)
  BY <1>3 DEF RollupInv
<1> HIDE DEF minute, day, month
<1>5. ASSUME UNCHANGED bucket
      PROVE  bucket'["minute"] = minute /\ bucket'["day"] = day /\ bucket'["month"] = month
  BY <1>5 DEF minute, day, month
<1>6. ASSUME NEW t \in Ru!Ticks, Ru!Land(t)
      PROVE  /\ \A u \in Ru!Ticks : stored[u] <= stored'[u]
             /\ UNCHANGED <<clock, bucket, round, disturbed>>
  <2>1. stored' = [stored EXCEPT ![t] = @ + 1] /\ UNCHANGED <<clock, bucket, round, disturbed>>
    BY <1>6 DEF Ru!Land
  <2>2. \A u \in Ru!Ticks : stored[u] <= stored'[u]
    <3> TAKE u \in Ru!Ticks
    <3>1. stored[u] \in Nat
      BY <1>2
    <3>2. stored'[u] = stored[u] \/ stored'[u] = stored[u] + 1
      BY <1>2, <2>1
    <3> QED BY <3>1, <3>2
  <2> QED BY <2>1, <2>2
\* An event lands.
<1>7. CASE \E t \in Ru!Ticks : Ru!Land(t)
  <2>1. /\ \A u \in Ru!Ticks : stored[u] <= stored'[u]
        /\ UNCHANGED <<clock, bucket, round, disturbed>>
    BY <1>6, <1>7
  <2>2. ASSUME NEW t \in Ru!Ticks, Open(t)' PROVE Within(minute, day, stored', t)
    <3>1. Open(t)
      BY <2>1, <2>2 DEF Open, Active
    <3>2. \A u \in DayOf(t) : stored[u] <= stored'[u]
      BY <2>1, WindowsAre
    <3> QED BY <1>2, <1>4, <3>1, <3>2, WithinGrows
  <2>3. ASSUME NEW r \in Rounds, round[r].at = "write", NEW t \in MonthOf(round[r].now)
        PROVE  round[r].read[t] <= stored'[t]
    <3>1. t \in Ru!Ticks
      BY <1>2, WindowsAre
    <3>2. /\ round[r].read[t] \in Nat /\ stored[t] \in Nat /\ stored'[t] \in Nat
          /\ round[r].read[t] <= stored[t] /\ stored[t] <= stored'[t]
      BY <1>2, <1>4, <2>1, <2>3, <3>1
    <3> QED BY <3>2
  <2> QED BY <1>4, <1>5, <2>1, <2>2, <2>3 DEF Active
\* The clock goes on.
<1>8. CASE Ru!Tick
  <2>1. clock' = clock + 1 /\ UNCHANGED <<stored, bucket, round>>
    BY <1>8 DEF Ru!Tick
  <2>2. ASSUME NEW t \in Ru!Ticks, Open(t)' PROVE Open(t)
    <3>1. clock' \in Ru!Ticks
      BY <1>1 DEF RollupTypes
    <3>2. clock <= clock'
      BY <1>2, <2>1
    <3>3. /\ MonthStart(clock) <= MonthStart(clock')
          /\ MonthStart(clock) \in Ru!Ticks /\ MonthStart(clock') \in Ru!Ticks
      BY <1>2, <3>1, <3>2, Starts
    <3>4. t >= MonthStart(clock') => t >= MonthStart(clock)
      <4>1. /\ MonthStart(clock) \in Nat /\ MonthStart(clock') \in Nat /\ t \in Nat
        BY <1>2, <3>3
      <4> QED BY <3>3, <4>1
    <3> QED BY <2>1, <2>2, <3>4 DEF Open, Active
  <2> QED BY <1>4, <1>5, <2>1, <2>2 DEF Active
\* A round begins: its instant is the clock's.
<1>9. ASSUME NEW r \in Rounds, Ru!Begin(r)
      PROVE  /\ \A o \in Rounds : ~ Active(o) /\ (Active(o)' => o = r)
             /\ round'[r].at = "read" /\ round'[r].now = clock
             /\ UNCHANGED <<clock, stored, bucket>>
  <2>1. /\ round[r].at = "idle" /\ UNCHANGED <<clock, stored, bucket>>
        /\ disturbed' = (disturbed \/ \E o \in Rounds : round[o].at # "idle")
        /\ round' = [round EXCEPT ![r] = [Ru!NoRound EXCEPT !.at = "read", !.now = clock]]
    BY <1>9 DEF Ru!Begin
  <2>2. \A o \in Rounds : ~ Active(o)
    BY <2>1 DEF Active
  <2>3. round'[r] = [Ru!NoRound EXCEPT !.at = "read", !.now = clock]
        /\ \A o \in Rounds \ {r} : round'[o] = round[o]
    BY <1>1, <2>1 DEF RollupTypes
  <2>4. round'[r].at = "read" /\ round'[r].now = clock
    BY <2>3 DEF Ru!NoRound
  <2> QED BY <2>1, <2>2, <2>3, <2>4 DEF Active
<1>10. ASSUME NEW r \in Rounds, Ru!Begin(r)
       PROVE  /\ \A a, o \in Rounds : Active(a)' /\ Active(o)' => a = o
              /\ \A t \in Ru!Ticks : Open(t)' => Within(minute, day, stored', t)
              /\ \A o \in Rounds : round'[o].at # "write"
              /\ UNCHANGED bucket
  <2>1. /\ \A o \in Rounds : ~ Active(o) /\ (Active(o)' => o = r)
        /\ round'[r].at = "read" /\ round'[r].now = clock
        /\ UNCHANGED <<clock, stored, bucket>>
    BY <1>9, <1>10
  <2>2. ASSUME NEW t \in Ru!Ticks, Open(t)' PROVE Open(t)
    BY <2>1, <2>2 DEF Open, Active
  <2>3. \A o \in Rounds : round'[o].at # "write"
    BY <2>1 DEF Active
  <2> QED BY <1>4, <2>1, <2>2, <2>3
\* A round ends without a pruning, or fails.
<1>11. ASSUME NEW r \in Rounds, Ru!Fails(r)
       PROVE  /\ \A a, o \in Rounds : Active(a)' /\ Active(o)' => a = o
              /\ \A t \in Ru!Ticks : Open(t)' => Within(minute, day, stored', t)
              /\ \A o \in Rounds : round'[o].at # "idle" => round'[o] = round[o]
              /\ UNCHANGED <<stored, bucket>>
  <2>1. round' = [round EXCEPT ![r] = Ru!NoRound] /\ UNCHANGED <<clock, stored, bucket>>
    BY <1>11 DEF Ru!Fails
  <2>2. \A o \in Rounds : round'[o].at # "idle" => round'[o] = round[o]
    BY <1>1, <2>1 DEF RollupTypes, Ru!NoRound
  <2>3. ASSUME NEW t \in Ru!Ticks, Open(t)' PROVE Open(t)
    BY <2>1, <2>2, <2>3 DEF Open, Active
  <2>4. \A a, o \in Rounds : Active(a)' /\ Active(o)' => a = o
    BY <1>4, <2>2 DEF Active
  <2> QED BY <1>4, <2>1, <2>2, <2>3, <2>4
\* The details of the month are read.
<1>12. ASSUME NEW r \in Rounds, Ru!Read(r)
       PROVE  /\ \A a, o \in Rounds : Active(a)' /\ Active(o)' => a = o
              /\ \A t \in Ru!Ticks : Open(t)' => Within(minute, day, stored', t)
              /\ \A o \in Rounds : round'[o].at = "write" =>
                   \A t \in MonthOf(round'[o].now) :
                     /\ round'[o].read[t] <= stored'[t]
                     /\ Within(minute, day, round'[o].read, t)
              /\ UNCHANGED bucket
  <2> DEFINE n == round[r].now
             s == [t \in Ru!Ticks |-> IF t \in MonthOf(n) THEN stored[t] ELSE 0]
  <2>1. /\ round[r].at = "read" /\ UNCHANGED <<clock, stored, bucket>>
        /\ round' = [round EXCEPT ![r].at = "write", ![r].read = s]
    BY <1>12 DEF Ru!Read, MonthOf
  <2>2. /\ \A o \in Rounds : round'[o].now = round[o].now
        /\ \A o \in Rounds \ {r} : round'[o] = round[o]
        /\ round'[r].read = s
    <3> HIDE DEF s
    <3> QED BY <1>1, <2>1 DEF RollupTypes
  <2>3. Active(r) /\ \A o \in Rounds \ {r} : ~ Active(o)
    BY <1>4, <2>1 DEF Active
  <2>4. \A o \in Rounds : Active(o)' => o = r
    BY <2>2, <2>3 DEF Active
  <2>5. ASSUME NEW t \in Ru!Ticks, Open(t)' PROVE Open(t)
    BY <2>1, <2>2, <2>3, <2>4, <2>5 DEF Open
  <2>6. n \in Ru!Ticks /\ s \in [Ru!Ticks -> Nat]
    BY <1>2
  <2>7. \A t \in MonthOf(n) : t \in Ru!Ticks /\ s[t] = stored[t]
    BY <2>6, WindowsAre
  <2> HIDE DEF s
  <2>8. ASSUME NEW t \in MonthOf(n)
        PROVE  s[t] <= stored[t] /\ Within(minute, day, s, t)
    <3>1. t \in Ru!Ticks /\ t >= MonthStart(n)
      BY <2>6, OpenWindows
    <3>2. Open(t)
      BY <2>3, <3>1 DEF Open
    <3>3. \A u \in DayOf(t) : u \in MonthOf(n)
      BY <2>6, OpenWindows
    <3>4. \A u \in Ru!Ticks : stored[u] \in Nat
      BY <1>2
    <3>5. \A u \in DayOf(t) : stored[u] <= s[u]
      <4> TAKE u \in DayOf(t)
      <4>1. s[u] = stored[u] /\ stored[u] \in Nat
        BY <2>7, <3>3, <3>4
      <4> QED BY <4>1
    <3>6. Within(minute, day, stored, t)
      BY <1>4, <3>1, <3>2
    <3>7. Within(minute, day, s, t)
      BY <1>2, <2>6, <3>1, <3>5, <3>6, WithinGrows
    <3>8. s[t] = stored[t] /\ stored[t] \in Nat
      BY <2>7, <3>1, <3>4
    <3> QED BY <3>7, <3>8
  <2>9. \A o \in Rounds : round'[o].at = "write" => o = r
    BY <2>4 DEF Active
  <2> QED BY <1>4, <2>1, <2>2, <2>4, <2>5, <2>8, <2>9
\* The tables are written.
<1>13. ASSUME NEW r \in Rounds, Ru!Write(r)
       PROVE  /\ \A a, o \in Rounds : Active(a)' /\ Active(o)' => a = o
              /\ \A t \in Ru!Ticks : bucket'["day"][t] # 0 => DayStart(t) = t
              /\ \A t \in Ru!Ticks :
                   Open(t)' => Within(bucket'["minute"], bucket'["day"], stored', t)
              /\ \A o \in Rounds : round'[o].at # "write"
              /\ Nested(bucket'["minute"], bucket'["day"], bucket'["month"])
  <2> DEFINE n == round[r].now
             s == round[r].read
             m == Ru!Recounted("minute", r)
             d == Ru!Recounted("day", r)
             h == Ru!Recounted("month", r)
  <2>1. /\ round[r].at = "write" /\ UNCHANGED <<clock, stored>>
        /\ round' = [round EXCEPT ![r].at = "prune"]
        /\ bucket' = [k \in Ru!Kinds |-> Ru!Recounted(k, r)]
    BY <1>13 DEF Ru!Write
  <2>2. /\ \A o \in Rounds : round'[o].now = round[o].now
        /\ \A o \in Rounds \ {r} : round'[o] = round[o]
        /\ round'[r].at = "prune"
    BY <1>1, <2>1 DEF RollupTypes
  <2>3. Active(r) /\ \A o \in Rounds \ {r} : ~ Active(o)
    BY <1>4, <2>1 DEF Active
  <2>4. \A o \in Rounds : Active(o)' => o = r
    BY <2>2, <2>3 DEF Active
  <2>5. ASSUME NEW t \in Ru!Ticks, Open(t)' PROVE Open(t)
    BY <2>1, <2>2, <2>3, <2>4, <2>5 DEF Open
  <2>6. bucket'["minute"] = m /\ bucket'["day"] = d /\ bucket'["month"] = h
    BY <2>1 DEF Ru!Kinds
  <2>7. /\ m \in [Ru!Ticks -> Nat] /\ d \in [Ru!Ticks -> Nat] /\ h \in [Ru!Ticks -> Nat]
    <3>1. bucket' \in [Ru!Kinds -> [Ru!Ticks -> Nat]]
      BY <1>1 DEF RollupTypes
    <3> HIDE DEF m, d, h
    <3> QED BY <2>6, <3>1 DEF Ru!Kinds
  <2>8. /\ n \in Ru!Ticks /\ s \in [Ru!Ticks -> Nat]
        /\ \A t \in MonthOf(n) : s[t] <= stored[t] /\ Within(minute, day, s, t)
    BY <1>2, <1>4, <2>1
  <2>9. /\ Counts(minute, n, s[n], m)
        /\ Counts(day, DayStart(n), Sum(s, DayOf(n)), d)
        /\ Counts(month, MonthStart(n), Sum(s, MonthOf(n)), h)
    BY <1>1, RecountedIs DEF minute, day, month
  <2> HIDE DEF n, s, m, d, h
  <2>10. \A t \in MonthOf(n) : Within(minute, day, s, t)
    BY <2>8
  <2>11. /\ \A t \in MonthOf(n) : Within(m, d, s, t)
         /\ \A t \in Ru!Ticks : d[t] # 0 => DayStart(t) = t
         /\ Nested(m, d, h)
    BY <1>2, <1>4, <2>7, <2>8, <2>9, <2>10, RecountNests
  <2>12. ASSUME NEW t \in Ru!Ticks, Open(t)' PROVE Within(m, d, stored, t)
    <3>1. CASE t \in MonthOf(n)
      <4>1. \A u \in DayOf(t) : s[u] <= stored[u]
        BY <2>8, <3>1, OpenWindows
      <4> QED BY <1>2, <2>7, <2>8, <2>11, <3>1, <4>1, WithinGrows
    <3>2. CASE t \notin MonthOf(n)
      <4>1. n \in MonthOf(n) /\ DayStart(n) \in MonthOf(n)
        <5>1. DayStart(n) \in Ru!Ticks /\ MonthStart(DayStart(n)) = MonthStart(n)
          BY <2>8, Starts
        <5> QED BY <2>8, <5>1, WindowsAre
      <4>2. m[t] = minute[t] /\ d[t] = day[t]
        BY <2>9, <3>2, <4>1 DEF Counts
      <4>3. Within(minute, day, stored, t)
        BY <1>4, <2>5, <2>12
      <4> QED BY <4>2, <4>3 DEF Within
    <3> QED BY <3>1, <3>2
  <2>13. \A o \in Rounds : round'[o].at # "write"
    BY <2>2, <2>4 DEF Active
  <2> QED BY <2>1, <2>4, <2>6, <2>11, <2>12, <2>13
\* The details are pruned: none of the open month.
<1>14. ASSUME NEW r \in Rounds, Ru!Prune(r)
       PROVE  /\ \A o \in Rounds : ~ Active(o)'
              /\ \A t \in Ru!Ticks : Open(t)' => Within(minute, day, stored', t)
              /\ UNCHANGED bucket
  <2> DEFINE n == round[r].now
  <2>1. PICK days \in Retentions :
          LET old == {t \in Ru!Ticks : t < n - Day * days}
          IN /\ stored' = [t \in Ru!Ticks |-> IF t \in old THEN 0 ELSE stored[t]]
             /\ disturbed' = (disturbed \/ \E t \in old \cap MonthOf(clock) : stored[t] > 0)
    BY <1>14 DEF Ru!Prune, MonthOf
  <2>2. /\ round[r].at = "prune" /\ round' = [round EXCEPT ![r] = Ru!NoRound]
        /\ UNCHANGED <<clock, bucket>>
    BY <1>14 DEF Ru!Prune
  <2>3. \A o \in Rounds : ~ Active(o)'
    <3>1. \A o \in Rounds \ {r} : ~ Active(o)
      BY <1>4, <2>2 DEF Active
    <3> QED BY <1>1, <2>2, <3>1 DEF Active, RollupTypes, Ru!NoRound
  <2>4. ASSUME NEW t \in Ru!Ticks, t >= MonthStart(clock) PROVE stored'[t] = stored[t]
    <3> DEFINE old == {u \in Ru!Ticks : u < n - Day * days}
    <3>1. stored'[t] = IF t \in old THEN 0 ELSE stored[t]
      BY <2>1
    <3>2. CASE t \notin old
      BY <3>1, <3>2
    <3>3. CASE t \in old
      <4>1. /\ t \in Nat /\ n \in Nat /\ n <= clock /\ clock \in Nat /\ stored[t] \in Nat
            /\ Day \in Nat /\ days \in Nat
        BY <1>2, ServiceAssumption
      <4>2. t < n - Day * days
        BY <3>3
      <4>3. t <= clock
        <5> DEFINE p == Day * days
        <5>1. p \in Nat
          BY <4>1
        <5> HIDE DEF p, n
        <5>2. t < n - p
          BY <4>2 DEF p
        <5> QED BY <4>1, <5>1, <5>2
      <4>4. /\ MonthStart(clock) \in Ru!Ticks /\ MonthStart(t) \in Ru!Ticks
            /\ MonthStart(t) <= MonthStart(clock)
            /\ MonthStart(MonthStart(clock)) <= MonthStart(t)
            /\ MonthStart(MonthStart(clock)) = MonthStart(clock)
        <5>1. MonthStart(clock) \in Ru!Ticks /\ MonthStart(clock) \in Nat
          BY <1>2, Starts
        <5>2. MonthStart(clock) <= t
          BY <2>4, <4>1, <5>1
        <5> QED BY <1>2, <4>3, <5>1, <5>2, Starts
      <4>5. MonthStart(t) = MonthStart(clock)
        <5>1. MonthStart(t) \in Nat /\ MonthStart(clock) \in Nat
          BY <1>2, <4>4
        <5> QED BY <4>4, <5>1
      <4>6. t \in MonthOf(clock)
        BY <1>2, <4>5, WindowsAre
      <4>7. ~ (stored[t] > 0)
        BY <2>1, <3>3, <4>6
      <4>8. stored[t] = 0
        BY <4>1, <4>7
      <4> QED BY <3>1, <3>3, <4>8
    <3> QED BY <3>2, <3>3
  <2>5. ASSUME NEW t \in Ru!Ticks, Open(t)' PROVE Within(minute, day, stored', t)
    <3>1. t >= MonthStart(clock)
      BY <2>2, <2>3, <2>5 DEF Open
    <3>2. Within(minute, day, stored, t)
      BY <1>4, <3>1 DEF Open
    <3>3. \A u \in DayOf(t) : stored[u] <= stored'[u]
      <4> TAKE u \in DayOf(t)
      <4>1. u \in Ru!Ticks /\ DayStart(u) = DayStart(t)
        BY WindowsAre
      <4>2. MonthStart(u) = MonthStart(t) /\ MonthStart(u) <= u
        BY <4>1, Starts
      <4>3. /\ MonthStart(clock) \in Ru!Ticks /\ MonthStart(t) \in Ru!Ticks
            /\ MonthStart(MonthStart(clock)) = MonthStart(clock)
        BY <1>2, Starts
      <4>4. /\ MonthStart(clock) \in Nat /\ MonthStart(t) \in Nat /\ t \in Nat /\ u \in Nat
            /\ stored[u] \in Nat
        BY <1>2, <4>1, <4>3
      <4>5. MonthStart(clock) <= MonthStart(t)
        BY <3>1, <4>3, <4>4, Starts
      <4>6. u >= MonthStart(clock)
        BY <4>2, <4>4, <4>5
      <4> QED BY <2>4, <4>1, <4>4, <4>6
    <3> QED BY <1>2, <3>2, <3>3, WithinGrows
  <2> QED BY <2>2, <2>3, <2>5
<1>15. ASSUME NEW r \in Rounds, Ru!Begin(r) \/ Ru!Read(r) \/ Ru!Write(r) \/ Ru!Prune(r)
                                \/ Ru!Fails(r)
       PROVE  /\ \A a, o \in Rounds : Active(a)' /\ Active(o)' => a = o
              /\ \A t \in Ru!Ticks : bucket'["day"][t] # 0 => DayStart(t) = t
              /\ \A t \in Ru!Ticks :
                   Open(t)' => Within(bucket'["minute"], bucket'["day"], stored', t)
              /\ \A o \in Rounds : round'[o].at = "write" =>
                   \A t \in MonthOf(round'[o].now) :
                     /\ round'[o].read[t] <= stored'[t]
                     /\ Within(bucket'["minute"], bucket'["day"], round'[o].read, t)
              /\ Nested(bucket'["minute"], bucket'["day"], bucket'["month"])
  <2>1. CASE Ru!Begin(r)
    BY <1>4, <1>5, <1>10, <2>1
  <2>2. CASE Ru!Read(r)
    BY <1>4, <1>5, <1>12, <2>2
  <2>3. CASE Ru!Write(r)
    BY <1>13, <2>3
  <2>4. CASE Ru!Prune(r)
    <3>1. \A o \in Rounds : round'[o].at # "write"
      BY <1>14, <2>4 DEF Active
    <3> QED BY <1>4, <1>5, <1>14, <2>4, <3>1
  <2>5. CASE Ru!Fails(r)
    <3>1. /\ \A o \in Rounds : round'[o].at = "write" => round'[o] = round[o]
          /\ UNCHANGED <<stored, bucket>>
      BY <1>11, <2>5
    <3>2. \A o \in Rounds : round'[o].at = "write" =>
            \A t \in MonthOf(round'[o].now) :
              /\ round'[o].read[t] <= stored'[t]
              /\ Within(minute, day, round'[o].read, t)
      BY <1>4, <3>1
    <3> QED BY <1>4, <1>5, <1>11, <2>5, <3>2
  <2> QED BY <1>15, <2>1, <2>2, <2>3, <2>4, <2>5
<1> QED BY <1>7, <1>8, <1>15 DEF Ru!Next

LEMMA RollupAlways == Spec => []RollupInv
<1>1. ASSUME RollupInv, [Ru!Next]_(Ru!vars) PROVE RollupInv'
  <2>1. CASE Ru!Next
    BY <1>1, <2>1, RollupNext
  <2>2. CASE UNCHANGED Ru!vars
    <3>1. UNCHANGED <<clock, stored, bucket, round, disturbed>>
      BY <2>2 DEF Ru!vars
    <3> QED BY <1>1, <3>1 DEF RollupInv, RollupTypes, Open, Active
  <2> QED BY <1>1, <2>1, <2>2
<1> QED BY <1>1, RollupInit, ServicesAreIndependent, PTL DEF Ru!Spec

\* RollupOnce, "The windows nest (minute, day, month)": for any number of rounds and
\* events, any retention and windows of any length, the minutes claim no more than
\* their day and the days no more than their month.
THEOREM WindowsStayNested == Spec => []BucketsNest
<1>1. ASSUME RollupInv PROVE BucketsNest
  <2> SUFFICES ASSUME ~ disturbed, NEW t \in Ru!Ticks
               PROVE  /\ Ru!Count(bucket["minute"], DayOf(t)) <= bucket["day"][DayStart(t)]
                      /\ Ru!Count(bucket["day"], MonthOf(t)) <= bucket["month"][MonthStart(t)]
    BY DEF BucketsNest, Ru!BucketsNest, DayOf, MonthOf, DayStart, MonthStart
  <2>1. /\ Ru!Count(bucket["minute"], DayOf(t)) = Sum(bucket["minute"], DayOf(t))
        /\ Ru!Count(bucket["day"], MonthOf(t)) = Sum(bucket["day"], MonthOf(t))
    BY CountIs, WindowsAre
  <2> QED BY <1>1, <2>1 DEF RollupInv, Nested
<1> QED BY <1>1, RollupAlways, PTL

-----------------------------------------------------------------------------
(* The plane: tables.                                                      *)

LEMMA TablesOfThePlane ==
  /\ Pl!Table = {"accounts", "catalog", "policies", "blocks", "keys"}
  /\ Len(Pl!Tables) = 5
  /\ \A i \in 1 .. 5 : Pl!Tables[i] \in Pl!Table
  /\ \A t \in Pl!Table : \E i \in 1 .. 5 : Pl!Tables[i] = t
  /\ "none" \notin Pl!Table
<1>1. DOMAIN Pl!Tables = 1 .. 5 /\ Len(Pl!Tables) = 5
  BY DEF Pl!Tables
<1>2. /\ Pl!Tables[1] = "accounts" /\ Pl!Tables[2] = "catalog" /\ Pl!Tables[3] = "policies"
      /\ Pl!Tables[4] = "blocks" /\ Pl!Tables[5] = "keys"
  BY DEF Pl!Tables
<1>3. Pl!Table = {Pl!Tables[i] : i \in 1 .. 5}
  BY <1>1 DEF Pl!Table, Pl!ToSet
<1>4. \A i \in 1 .. 5 : i \in {1, 2, 3, 4, 5}
  OBVIOUS
<1>5. Pl!Table = {"accounts", "catalog", "policies", "blocks", "keys"}
  BY <1>2, <1>3, <1>4
<1> QED BY <1>1, <1>2, <1>3, <1>5

LEMMA MaxOfTwo ==
  ASSUME NEW a \in Int, NEW b \in Int
  PROVE  Pl!Max({a, b}) \in {a, b} /\ a <= Pl!Max({a, b}) /\ b <= Pl!Max({a, b})
<1>1. \E x \in {a, b} : \A y \in {a, b} : x >= y
  <2>1. CASE a >= b
    BY <2>1
  <2>2. CASE b >= a
    BY <2>2
  <2> QED BY <2>1, <2>2
<1>2. \A y \in {a, b} : Pl!Max({a, b}) >= y
  BY <1>1 DEF Pl!Max
<1>3. Pl!Max({a, b}) \in {a, b}
  BY <1>1 DEF Pl!Max
<1> QED BY <1>2, <1>3

\* The types that the proofs need: how often a table is written is not bounded.
HandlerType ==
  [at : {"idle", "write", "reload", "read", "publish", "put", "load", "set", "pools"},
   on : Pl!Table \cup {"none"}, left : Int, wrote : Int, read : [Pl!Table -> Int],
   next : Int, wants : Strategies, todo : SUBSET Pools]

PlaneTypes ==
  /\ table \in [Pl!Table -> Nat] /\ live \in [Pl!Table -> Int]
  /\ answered \in [Pl!Table -> Int]
  /\ handler \in [Handlers -> HandlerType]
  /\ setting.value \in Strategies
  /\ muddled \in BOOLEAN /\ crossed \in BOOLEAN

Reloading(h) == handler[h].at \in {"read", "publish"}

\* What is answered, what a handler has written and what a reload has read was in
\* the table.
ReadInv ==
  \A t \in Pl!Table : /\ answered[t] <= table[t]
                      /\ \A h \in Handlers : handler[h].read[t] <= table[t]
                      /\ \A h \in Handlers : handler[h].on = t => handler[h].wrote <= table[t]

\* What a reload has read of a table is not older than what was answered, nor than
\* what its own handler has written, unless it has read it in part.
Covers(c, t) ==
  c.read[t] = -1 \/ (answered[t] <= c.read[t] /\ (c.on = t => c.wrote <= c.read[t]))

\* A handler writes one of the tables; a reload is somewhere in their order, and
\* while it is the only one, it covers those it has read.
PassInv ==
  /\ \A h \in Handlers : /\ handler[h].at = "read" => handler[h].next \in 1 .. 5
                         /\ handler[h].at = "write" => handler[h].on \in Pl!Table
  /\ ~ muddled => \A h \in Handlers :
       /\ \A o \in Handlers : Reloading(h) /\ Reloading(o) => h = o
       /\ handler[h].at = "read" => \A i \in 1 .. 5 :
            i < handler[h].next => Covers(handler[h], Pl!Tables[i])
       /\ handler[h].at = "publish" => \A t \in Pl!Table : Covers(handler[h], t)

LiveInv == PlaneTypes /\ ReadInv /\ PassInv /\ Pl!ChangesAreLive

\* What the steps of a handler do to it and to the tables.
Hands(h, c) == c \in HandlerType /\ handler' = [handler EXCEPT ![h] = c]

Carries(h, c) == c.on = handler[h].on /\ c.wrote = handler[h].wrote

\* It is outside of a reload afterwards, and at most one table has a new row.
Aside(h, c) ==
  /\ c.at \notin {"read", "publish"} /\ (c.at = "write" => c.on \in Pl!Table)
  /\ \A t \in Pl!Table : c.read[t] = 0 \/ c.read[t] = handler[h].read[t]
  /\ Carries(h, c) \/ \A t \in Pl!Table : c.on = t => c.wrote = 0 \/ c.wrote <= table'[t]
  /\ table' \in [Pl!Table -> Nat] /\ \A t \in Pl!Table : table[t] <= table'[t]
  /\ UNCHANGED <<live, answered, muddled>>

StartsReload(h, c) ==
  /\ c.at = "read" /\ c.next = 1 /\ c.read = handler[h].read /\ Carries(h, c)
  /\ muddled' = (muddled \/ \E o \in Handlers \ {h} : Reloading(o))
  /\ UNCHANGED <<table, live, answered>>

\* It reads the next table, or a part of it.
ReadsOn(h, c) ==
  /\ handler[h].at = "read" /\ c.next = handler[h].next + 1 /\ Carries(h, c)
  /\ c.at = IF handler[h].next = 5 THEN "publish" ELSE "read"
  /\ LET t == Pl!Tables[handler[h].next] IN
       \E v \in {table[t], -1} : c.read = [handler[h].read EXCEPT ![t] = v]
  /\ UNCHANGED <<table, live, answered, muddled>>

Publishes(h, c) ==
  /\ handler[h].at = "publish" /\ c.at = "idle" /\ c.on = "none"
  /\ \A t \in Pl!Table : c.read[t] = 0
  /\ live' = handler[h].read
  /\ answered' \in [Pl!Table -> Int]
  /\ \A t \in Pl!Table : \/ answered'[t] = answered[t]
                         \/ handler[h].on = t /\ answered'[t] = handler[h].wrote
  /\ UNCHANGED <<table, muddled>>

LEMMA NoHandlerType ==
  /\ Pl!NoHandler \in HandlerType /\ Pl!NoHandler.at = "idle"
  /\ Pl!NoHandler.on = "none" /\ Pl!NoHandler.wrote = 0
  /\ \A t \in Pl!Table : Pl!NoHandler.read[t] = 0
BY ServiceAssumption DEF Pl!NoHandler, HandlerType

\* What a step writes to the record of its handler.
Stations == {"idle", "write", "reload", "read", "publish", "put", "load", "set", "pools"}

LEMMA MovesOn ==
  ASSUME NEW c \in HandlerType, NEW x \in Stations
  PROVE  /\ [c EXCEPT !.at = x] \in HandlerType
         /\ [c EXCEPT !.at = x].at = x /\ [c EXCEPT !.at = x].read = c.read
         /\ [c EXCEPT !.at = x].on = c.on /\ [c EXCEPT !.at = x].wrote = c.wrote
BY DEF HandlerType, Stations

LEMMA StartsAnew ==
  ASSUME NEW c \in HandlerType, NEW n \in Int
  PROVE  /\ [c EXCEPT !.at = "read", !.next = n] \in HandlerType
         /\ [c EXCEPT !.at = "read", !.next = n].at = "read"
         /\ [c EXCEPT !.at = "read", !.next = n].next = n
         /\ [c EXCEPT !.at = "read", !.next = n].read = c.read
         /\ [c EXCEPT !.at = "read", !.next = n].on = c.on
         /\ [c EXCEPT !.at = "read", !.next = n].wrote = c.wrote
BY DEF HandlerType

LEMMA TakesATable ==
  ASSUME NEW c \in HandlerType, NEW t \in Pl!Table, NEW n \in Int
  PROVE  /\ [c EXCEPT !.at = "write", !.on = t, !.left = n] \in HandlerType
         /\ [c EXCEPT !.at = "write", !.on = t, !.left = n].at = "write"
         /\ [c EXCEPT !.at = "write", !.on = t, !.left = n].read = c.read
         /\ [c EXCEPT !.at = "write", !.on = t, !.left = n].wrote = c.wrote
BY DEF HandlerType

Routed == UNCHANGED <<setting, strategy, crossed>>
Routing == {"put", "load", "set", "pools"}

\* A step of a reload leaves the routing alone, but gives all pools the plane's strategy.
ReloadKind(h, c) ==
  /\ Hands(h, c)
  /\ Aside(h, c) \/ StartsReload(h, c) \/ ReadsOn(h, c) \/ Publishes(h, c)
  /\ handler[h].at \notin Routing /\ c.at \notin Routing /\ Routed
  /\ inForce' = inForce \/ inForce' = [p \in Pools |-> strategy]

LEMMA ReloadSteps ==
  ASSUME PlaneTypes, PassInv, NEW h \in Handlers, Pl!ReloadStep(h)
  PROVE  \E c : ReloadKind(h, c)
<1> DEFINE s == handler[h]
<1>0. /\ s \in HandlerType /\ handler \in [Handlers -> HandlerType]
      /\ s.read \in [Pl!Table -> Int] /\ s.on \in Pl!Table \cup {"none"}
      /\ s.next \in Int /\ s.left \in Int /\ s.wrote \in Int /\ s.wants \in Strategies
      /\ table \in [Pl!Table -> Nat] /\ live \in [Pl!Table -> Int] /\ answered \in [Pl!Table -> Int]
  BY DEF PlaneTypes, HandlerType
<1>1. CASE Pl!Begin(h)
  <2>0. PICK t \in Pl!Table : \E n \in Pl!Transactions(t) :
          handler' = [handler EXCEPT ![h] = [Pl!NoHandler EXCEPT !.at = "write", !.on = t, !.left = n]]
    BY <1>1 DEF Pl!Begin
  <2>1. PICK n \in Pl!Transactions(t) :
          handler' = [handler EXCEPT ![h] = [Pl!NoHandler EXCEPT !.at = "write", !.on = t, !.left = n]]
    BY <2>0
  <2>2. n \in Int
    BY DEF Pl!Transactions
  <2> DEFINE c == [Pl!NoHandler EXCEPT !.at = "write", !.on = t, !.left = n]
  <2>3. /\ c \in HandlerType /\ c.at = "write" /\ c.read = Pl!NoHandler.read /\ c.wrote = 0
        /\ c.on = t
    <3>1. Pl!NoHandler \in HandlerType /\ Pl!NoHandler.wrote = 0
      BY NoHandlerType
    <3>2. c \in HandlerType /\ c.at = "write" /\ c.read = Pl!NoHandler.read /\ c.wrote = 0
      BY <2>2, <3>1, TakesATable
    <3>3. c.on = t
      BY <2>2, <3>1 DEF HandlerType
    <3> QED BY <3>2, <3>3
  <2> HIDE DEF c
  <2>4. Hands(h, c)
    BY <2>1, <2>3 DEF Hands, c
  <2>5. Aside(h, c)
    BY <1>0, <1>1, <2>3, NoHandlerType DEF Aside, Pl!Begin, Pl!planeData
  <2> QED BY <1>1, <2>3, <2>4, <2>5
          DEF ReloadKind, Routed, Routing, Pl!Begin, Pl!At, Pl!routingData
<1>2. CASE Pl!BeginReload(h)
  <2> DEFINE c == [Pl!NoHandler EXCEPT !.at = "reload"]
  <2>1. /\ c \in HandlerType /\ c.at = "reload" /\ c.read = Pl!NoHandler.read
        /\ c.wrote = 0
    BY NoHandlerType, MovesOn DEF Stations
  <2>2. handler' = [handler EXCEPT ![h] = c]
    BY <1>2 DEF Pl!BeginReload
  <2> HIDE DEF c
  <2>3. Aside(h, c)
    BY <1>0, <1>2, <2>1, NoHandlerType DEF Aside, Pl!BeginReload, Pl!planeData
  <2> QED BY <1>2, <2>1, <2>2, <2>3
          DEF ReloadKind, Hands, Routed, Routing, Pl!BeginReload, Pl!At, Pl!routingData
<1>3. CASE Pl!Write(h)
  <2> DEFINE x == IF s.left = 1 THEN "reload" ELSE "write"
             n == s.left - 1
             m == table[s.on] + 1
             c == [s EXCEPT !.left = n, !.wrote = m, !.at = x]
  <2>6. s.at = "write" /\ s.on \in Pl!Table
    BY <1>0, <1>3 DEF Pl!Write, Pl!At, PassInv
  <2>3. x \in {"reload", "write"} /\ n \in Int /\ m \in Int
    BY <1>0, <2>6
  <2>2. handler' = [handler EXCEPT ![h] = c]
    BY <1>0, <1>3 DEF Pl!Write
  <2> HIDE DEF x, n, m
  <2>1. c \in HandlerType /\ c.at = x /\ c.read = s.read /\ c.on = s.on /\ c.wrote = m
    BY <1>0, <2>3 DEF HandlerType
  <2> HIDE DEF c
  <2>4. table' \in [Pl!Table -> Nat] /\ \A t \in Pl!Table : table[t] <= table'[t]
    <3>1. table' = [table EXCEPT ![s.on] = table[s.on] + 1]
      BY <1>3 DEF Pl!Write
    <3>2. \A t \in Pl!Table : table[t] \in Nat
      BY <1>0
    <3>3. table[s.on] + 1 \in Nat /\ table[s.on] <= table[s.on] + 1
      BY <2>6, <3>2
    <3> QED BY <1>0, <2>6, <3>1, <3>2, <3>3
  <2>7. table'[s.on] = m
    BY <1>0, <1>3, <2>6 DEF Pl!Write, m
  <2>8. \A t \in Pl!Table : c.on = t => c.wrote <= table'[t]
    BY <2>1, <2>3, <2>7
  <2>5. Aside(h, c)
    BY <1>0, <1>3, <2>1, <2>3, <2>4, <2>6, <2>8 DEF Aside, Pl!Write
  <2> QED BY <1>3, <2>1, <2>2, <2>3, <2>5
          DEF ReloadKind, Hands, Routed, Routing, Pl!Write, Pl!At, Pl!routingData
<1>4. CASE Pl!WriteFails(h) \/ Pl!ReadFails(h)
  <2>1. handler' = [handler EXCEPT ![h] = Pl!NoHandler]
    BY <1>4 DEF Pl!WriteFails, Pl!ReadFails
  <2>2. Aside(h, Pl!NoHandler)
    BY <1>0, <1>4, NoHandlerType DEF Aside, Pl!WriteFails, Pl!ReadFails, Pl!planeData
  <2> QED BY <1>4, <2>1, <2>2, NoHandlerType
          DEF ReloadKind, Hands, Routed, Routing, Pl!WriteFails, Pl!ReadFails, Pl!At, Pl!routingData
<1>5. CASE Pl!ReloadBegins(h)
  <2> DEFINE n == 1
             c == [s EXCEPT !.at = "read", !.next = n]
  <2>4. n \in Int
    OBVIOUS
  <2>2. handler' = [handler EXCEPT ![h] = c]
    BY <1>5 DEF Pl!ReloadBegins
  <2> HIDE DEF n
  <2>5. /\ c \in HandlerType /\ c.at = "read" /\ c.next = n /\ c.read = s.read
        /\ Carries(h, c)
    BY <1>0, <2>4, StartsAnew DEF Carries
  <2> USE DEF n
  <2>1. /\ c \in HandlerType /\ c.at = "read" /\ c.next = 1 /\ c.read = s.read
        /\ Carries(h, c)
    BY <2>5
  <2> HIDE DEF c
  <2>3. StartsReload(h, c)
    BY <1>5, <2>1 DEF StartsReload, Pl!ReloadBegins, Pl!Others, Reloading
  <2> QED BY <1>5, <2>1, <2>2, <2>3
          DEF ReloadKind, Hands, Routed, Routing, Pl!ReloadBegins, Pl!At, Pl!routingData
<1>6. CASE Pl!ReadTable(h)
  <2> DEFINE t == Pl!Tables[s.next]
             x == IF s.next = 5 THEN "publish" ELSE "read"
             r == [s.read EXCEPT ![t] = table[t]]
             n == s.next + 1
             c == [s EXCEPT !.read = r, !.next = n, !.at = x]
  <2>1. s.at = "read" /\ s.next \in 1 .. 5 /\ t \in Pl!Table
    BY <1>6, TablesOfThePlane DEF Pl!ReadTable, Pl!At, PassInv
  <2>2. r \in [Pl!Table -> Int] /\ n \in Int
    BY <1>0, <2>1
  <2>4. handler' = [handler EXCEPT ![h] = c]
    BY <1>0, <1>6, TablesOfThePlane DEF Pl!ReadTable, Pl!Reading
  <2>5. x \in {"publish", "read"}
    OBVIOUS
  <2> HIDE DEF x, r, n
  <2>3. /\ c \in HandlerType /\ c.at = x /\ c.next = n /\ c.read = r
        /\ Carries(h, c)
    BY <1>0, <2>2, <2>5 DEF HandlerType, Carries
  <2> USE DEF x, r, n
  <2> HIDE DEF c
  <2>6. ReadsOn(h, c)
    BY <1>6, <2>1, <2>3 DEF ReadsOn, Pl!ReadTable, Pl!planeData
  <2> HIDE DEF x
  <2> QED BY <1>6, <2>1, <2>3, <2>4, <2>5, <2>6
          DEF ReloadKind, Hands, Routed, Routing, Pl!ReadTable, Pl!routingData
<1>7. CASE Pl!ReadsInPart(h)
  <2> DEFINE t == Pl!Tables[s.next]
             r == [s.read EXCEPT ![t] = -1]
             n == s.next + 1
             c == [s EXCEPT !.read = r, !.next = n]
  <2>1. /\ s.at = "read" /\ s.next \in 1 .. 5 /\ t \in Pl!Table
        /\ s.next # 5
    <3>1. /\ s.at = "read" /\ s.next \in 1 .. 5
          /\ t \in {"accounts", "catalog"}
      BY <1>7 DEF Pl!ReadsInPart, Pl!At, Pl!Reading, PassInv
    <3>2. Pl!Tables[5] = "keys"
      BY DEF Pl!Tables
    <3> QED BY <3>1, <3>2, TablesOfThePlane
  <2>2. r \in [Pl!Table -> Int] /\ n \in Int
    <3>1. -1 \in Int
      OBVIOUS
    <3> QED BY <1>0, <2>1, <3>1
  <2>4. handler' = [handler EXCEPT ![h] = c]
    BY <1>0, <1>7 DEF Pl!ReadsInPart, Pl!Reading, Pl!Unread
  <2> HIDE DEF r, n
  <2>3. /\ c \in HandlerType /\ c.at = "read" /\ c.next = n /\ c.read = r
        /\ Carries(h, c)
    BY <1>0, <2>1, <2>2 DEF HandlerType, Carries
  <2> USE DEF r, n
  <2> HIDE DEF c
  <2>6. ReadsOn(h, c)
    BY <1>7, <2>1, <2>3 DEF ReadsOn, Pl!ReadsInPart, Pl!planeData
  <2> QED BY <1>7, <2>1, <2>3, <2>4, <2>6
          DEF ReloadKind, Hands, Routed, Routing, Pl!ReadsInPart, Pl!routingData
<1>8. CASE Pl!Publish(h)
  <2>1. /\ answered' \in [Pl!Table -> Int]
        /\ \A t \in Pl!Table : \/ answered'[t] = answered[t]
                               \/ s.on = t /\ answered'[t] = s.wrote
    <3>1. CASE s.on = "none"
      BY <1>0, <1>8, <3>1 DEF Pl!Publish, Pl!Answers
    <3>2. CASE s.on # "none"
      <4> DEFINE b == Pl!Max({answered[s.on], s.wrote})
      <4>1. s.on \in Pl!Table
        BY <1>0, <3>2
      <4>2. b \in {answered[s.on], s.wrote} /\ b \in Int
        <5>1. answered[s.on] \in Int /\ s.wrote \in Int
          BY <1>0, <4>1
        <5> HIDE DEF s
        <5> QED BY <5>1, MaxOfTwo
      <4>3. answered' = [answered EXCEPT ![s.on] = b]
        BY <1>8, <3>2 DEF Pl!Publish, Pl!Answers
      <4> HIDE DEF b
      <4> QED BY <1>0, <4>1, <4>2, <4>3
    <3> QED BY <3>1, <3>2
  <2>2. Publishes(h, Pl!NoHandler)
    BY <1>8, <2>1, NoHandlerType DEF Publishes, Pl!Publish, Pl!At
  <2> QED BY <1>8, <2>2, NoHandlerType
          DEF ReloadKind, Hands, Routed, Routing, Pl!Publish, Pl!At
<1> QED BY <1>1, <1>2, <1>3, <1>4, <1>5, <1>6, <1>7, <1>8 DEF Pl!ReloadStep

\* What a step of a routing change does to its handler, the setting and the pools.
RoutingKind(h, c) ==
  /\ Hands(h, c) /\ Aside(h, c)
  /\ \/ /\ handler[h].at = "idle" /\ c.at = "put"
        /\ crossed' = (crossed \/ \E o \in Handlers \ {h} : handler[o].at \in Routing)
        /\ UNCHANGED <<setting, strategy, inForce>>
     \/ /\ handler[h].at = "put" /\ c.at = "load" /\ UNCHANGED <<strategy, inForce, crossed>>
        /\ setting'.value \in Strategies
     \/ /\ handler[h].at = "put" /\ c.at = "idle" /\ Routed /\ inForce' = inForce
     \/ /\ handler[h].at = "load" /\ c.at = "set" /\ c.wants = setting.value
        /\ Routed /\ inForce' = inForce
     \/ /\ c.at = "idle" /\ crossed' = TRUE /\ UNCHANGED <<setting, strategy, inForce>>
     \/ /\ handler[h].at = "set" /\ c.at = "pools" /\ c.todo = Pools
        /\ c.wants = handler[h].wants
        /\ strategy' = handler[h].wants /\ UNCHANGED <<setting, inForce, crossed>>
     \/ /\ handler[h].at = "pools" /\ Routed
        /\ \E p \in handler[h].todo :
             /\ inForce' = [inForce EXCEPT ![p] = handler[h].wants]
             /\ \/ c.at = "idle" /\ handler[h].todo \ {p} = {}
                \/ c.at = "pools" /\ c.todo = handler[h].todo \ {p} /\ c.wants = handler[h].wants

LEMMA RoutingSteps ==
  ASSUME PlaneTypes, NEW h \in Handlers, Pl!RoutingStep(h)
  PROVE  \E c : RoutingKind(h, c)
<1> DEFINE s == handler[h]
<1>0. /\ s \in HandlerType /\ handler \in [Handlers -> HandlerType]
      /\ s.wants \in Strategies /\ s.todo \in SUBSET Pools
      /\ table \in [Pl!Table -> Nat] /\ setting.value \in Strategies
  BY DEF PlaneTypes, HandlerType
<1>1. UNCHANGED <<table, live, answered, muddled>> /\ \A t \in Pl!Table : table[t] <= table[t]
  <2>1. Pl!planeData' = Pl!planeData
    BY DEF Pl!RoutingStep, Pl!BeginRouting, Pl!PutSetting, Pl!PutFails, Pl!LoadSetting,
           Pl!LoadFails, Pl!SetStrategy, Pl!SetPool
  <2>2. \A t \in Pl!Table : table[t] \in Nat
    BY <1>0
  <2> QED BY <2>1, <2>2 DEF Pl!planeData
<1>2. ASSUME NEW c \in HandlerType, c.at \notin {"read", "publish", "write"},
             c.read = Pl!NoHandler.read \/ c.read = s.read,
             c.on = "none" \/ Carries(h, c)
      PROVE  Aside(h, c)
  BY <1>0, <1>1, <1>2, NoHandlerType, TablesOfThePlane DEF Aside
<1>3. Aside(h, Pl!NoHandler)
  BY <1>2, NoHandlerType
<1>4. CASE Pl!BeginRouting(h)
  <2>1. PICK w \in Strategies :
          handler' = [handler EXCEPT ![h] = [Pl!NoHandler EXCEPT !.at = "put", !.wants = w]]
    BY <1>4 DEF Pl!BeginRouting
  <2> DEFINE c == [Pl!NoHandler EXCEPT !.at = "put", !.wants = w]
  <2>2. /\ c \in HandlerType /\ c.at = "put" /\ c.read = Pl!NoHandler.read
        /\ c.on = "none"
    BY NoHandlerType DEF HandlerType
  <2> HIDE DEF c
  <2>3. Hands(h, c) /\ Aside(h, c)
    BY <1>2, <2>1, <2>2 DEF Hands, c
  <2> QED BY <1>4, <2>2, <2>3
          DEF RoutingKind, Routing, Pl!BeginRouting, Pl!At, Pl!Others, Pl!Routing
<1>5. CASE Pl!PutSetting(h)
  <2> DEFINE c == [s EXCEPT !.at = "load"]
  <2>1. c \in HandlerType /\ c.at = "load" /\ c.read = s.read /\ Carries(h, c)
    BY <1>0, MovesOn DEF Stations, Carries
  <2>2. handler' = [handler EXCEPT ![h] = c]
    BY <1>5 DEF Pl!PutSetting
  <2> HIDE DEF c
  <2>3. Hands(h, c) /\ Aside(h, c)
    BY <1>2, <2>1, <2>2 DEF Hands
  <2> QED BY <1>0, <1>5, <2>1, <2>3 DEF RoutingKind, Pl!PutSetting, Pl!At
<1>6. CASE Pl!PutFails(h)
  BY <1>3, <1>6, NoHandlerType DEF RoutingKind, Routed, Hands, Pl!PutFails, Pl!At, Pl!routingData
<1>7. CASE Pl!LoadSetting(h)
  <2> DEFINE v == setting.value
             c == [s EXCEPT !.at = "set", !.wants = v]
  <2>1. /\ c \in HandlerType /\ c.at = "set" /\ c.wants = v /\ c.read = s.read
        /\ Carries(h, c)
    BY <1>0 DEF HandlerType, Carries
  <2>2. handler' = [handler EXCEPT ![h] = c]
    BY <1>7 DEF Pl!LoadSetting
  <2> HIDE DEF c
  <2>3. Hands(h, c) /\ Aside(h, c)
    BY <1>2, <2>1, <2>2 DEF Hands
  <2> QED BY <1>7, <2>1, <2>3 DEF RoutingKind, Routed, Pl!LoadSetting, Pl!At, Pl!routingData
<1>8. CASE Pl!LoadFails(h)
  BY <1>3, <1>8, NoHandlerType DEF RoutingKind, Hands, Pl!LoadFails, Pl!At
<1>9. CASE Pl!SetStrategy(h)
  <2> DEFINE d == Pools
             c == [s EXCEPT !.at = "pools", !.todo = d]
  <2>4. d \in SUBSET Pools
    OBVIOUS
  <2>2. handler' = [handler EXCEPT ![h] = c]
    BY <1>9 DEF Pl!SetStrategy
  <2> HIDE DEF d
  <2>1. /\ c \in HandlerType /\ c.at = "pools" /\ c.todo = d /\ c.wants = s.wants /\ c.read = s.read
        /\ Carries(h, c)
    <3>1. c.at = "pools" /\ c.todo = d
      BY <1>0, <2>4 DEF HandlerType
    <3>2. c.wants = s.wants /\ c.read = s.read /\ Carries(h, c)
      BY <1>0, <2>4 DEF HandlerType, Carries
    <3>3. c \in HandlerType
      BY <1>0, <2>4 DEF HandlerType
    <3> QED BY <3>1, <3>2, <3>3
  <2> USE DEF d
  <2> HIDE DEF c
  <2>3. Hands(h, c) /\ Aside(h, c)
    BY <1>2, <2>1, <2>2 DEF Hands
  <2> QED BY <1>9, <2>1, <2>3 DEF RoutingKind, Pl!SetStrategy, Pl!At
<1>10. CASE Pl!SetPool(h)
  <2>1. PICK p \in s.todo :
          /\ inForce' = [inForce EXCEPT ![p] = s.wants]
          /\ handler' = [handler EXCEPT ![h] =
               IF s.todo \ {p} = {} THEN Pl!NoHandler ELSE [s EXCEPT !.todo = s.todo \ {p}]]
    BY <1>0, <1>10 DEF Pl!SetPool
  <2>2. CASE s.todo \ {p} = {}
    <3>1. Hands(h, Pl!NoHandler)
      BY <2>1, <2>2, NoHandlerType DEF Hands
    <3> QED BY <1>3, <1>10, <2>1, <2>2, <3>1, NoHandlerType DEF RoutingKind, Routed, Pl!SetPool, Pl!At
  <2>3. CASE s.todo \ {p} # {}
    <3> DEFINE d == s.todo \ {p}
               c == [s EXCEPT !.todo = d]
    <3>1. d \in SUBSET Pools
      BY <1>0
    <3>2. /\ c \in HandlerType /\ c.at = s.at /\ c.todo = d /\ c.wants = s.wants /\ c.read = s.read
          /\ Carries(h, c)
      BY <1>0, <3>1 DEF HandlerType, Carries
    <3>3. handler' = [handler EXCEPT ![h] = c]
      BY <2>1, <2>3
    <3> HIDE DEF c
    <3>4. s.at = "pools"
      BY <1>10 DEF Pl!SetPool, Pl!At
    <3>5. Hands(h, c) /\ Aside(h, c)
      BY <1>2, <3>2, <3>3, <3>4 DEF Hands
    <3> QED BY <1>10, <2>1, <3>2, <3>4, <3>5 DEF RoutingKind, Routed, Pl!SetPool
  <2> QED BY <2>2, <2>3
<1> QED BY <1>4, <1>5, <1>6, <1>7, <1>8, <1>9, <1>10 DEF Pl!RoutingStep

LEMMA LiveNext ==
  ASSUME LiveInv, NEW h \in Handlers, NEW c, Hands(h, c),
         Aside(h, c) \/ StartsReload(h, c) \/ ReadsOn(h, c) \/ Publishes(h, c),
         setting'.value \in Strategies, crossed' \in BOOLEAN
  PROVE  LiveInv'
<1> DEFINE s == handler[h]
<1>0. /\ table \in [Pl!Table -> Nat] /\ live \in [Pl!Table -> Int] /\ answered \in [Pl!Table -> Int]
      /\ handler \in [Handlers -> HandlerType] /\ muddled \in BOOLEAN
      /\ \A o \in Handlers : /\ handler[o].read \in [Pl!Table -> Int] /\ handler[o].next \in Int
                             /\ handler[o].wrote \in Int
      /\ ReadInv /\ PassInv /\ Pl!ChangesAreLive
  BY DEF LiveInv, PlaneTypes, HandlerType
<1>1. /\ c \in HandlerType /\ c.read \in [Pl!Table -> Int] /\ c.next \in Int
      /\ c.wrote \in Int
      /\ handler' \in [Handlers -> HandlerType] /\ handler'[h] = c
      /\ \A o \in Handlers \ {h} : handler'[o] = handler[o]
  BY <1>0 DEF Hands, HandlerType
<1>2. \A t \in Pl!Table : /\ table[t] \in Int /\ 0 <= table[t] /\ answered[t] \in Int
                          /\ \A o \in Handlers : handler[o].read[t] \in Int
  BY <1>0
<1>3. CASE Aside(h, c)
  <2>1. /\ table' \in [Pl!Table -> Nat] /\ c.at # "read" /\ c.at # "publish"
        /\ live' = live /\ answered' = answered /\ muddled' = muddled
    BY <1>3 DEF Aside
  <2>2. ReadInv'
    <3>1. ASSUME NEW t \in Pl!Table
          PROVE  /\ answered[t] <= table'[t] /\ \A o \in Handlers : handler'[o].read[t] <= table'[t]
                 /\ \A o \in Handlers : handler'[o].on = t => handler'[o].wrote <= table'[t]
      <4>1. table'[t] \in Int /\ table[t] <= table'[t]
        BY <1>3, <2>1 DEF Aside
      <4>2. answered[t] <= table[t] /\ \A o \in Handlers : handler[o].read[t] <= table[t]
        BY <1>0 DEF ReadInv
      <4>3. c.read[t] <= table[t]
        BY <1>2, <1>3, <4>2 DEF Aside
      <4>4. \A o \in Handlers : handler'[o].read[t] <= table[t] /\ handler'[o].read[t] \in Int
        BY <1>1, <1>2, <4>2, <4>3
      <4>5. \A o \in Handlers : handler[o].on = t => handler[o].wrote <= table'[t]
        BY <1>0, <1>2, <4>1 DEF ReadInv
      <4>6. c.on = t => c.wrote <= table'[t]
        <5>1. CASE Carries(h, c)
          BY <4>5, <5>1 DEF Carries
        <5>2. CASE ~ Carries(h, c)
          BY <1>2, <1>3, <4>1, <5>2 DEF Aside
        <5> QED BY <5>1, <5>2
      <4>7. \A o \in Handlers : handler'[o].on = t => handler'[o].wrote <= table'[t]
        BY <1>1, <4>5, <4>6
      <4> QED BY <1>2, <4>1, <4>2, <4>4, <4>7
    <3> QED BY <2>1, <3>1 DEF ReadInv
  <2>3. PassInv'
    <3>1. \A o \in Handlers : handler'[o].at \in {"read", "publish"} => handler'[o] = handler[o]
      BY <1>1, <2>1
    <3>2. \A o \in Handlers : handler'[o].at = "write" => handler'[o].on \in Pl!Table
      BY <1>0, <1>1, <1>3 DEF PassInv, Aside
    <3>3. \A o \in Handlers : handler'[o].at = "read" => handler'[o].next \in 1 .. 5
      BY <1>0, <3>1 DEF PassInv
    <3>4. ASSUME ~ muddled', NEW o \in Handlers
          PROVE  /\ \A q \in Handlers : Reloading(o)' /\ Reloading(q)' => o = q
                 /\ handler'[o].at = "read" => \A i \in 1 .. 5 :
                      i < handler'[o].next => Covers(handler'[o], Pl!Tables[i])
                 /\ handler'[o].at = "publish" => \A t \in Pl!Table : Covers(handler'[o], t)
      BY <1>0, <2>1, <3>1, <3>4 DEF PassInv, Reloading
    <3> QED BY <2>1, <3>2, <3>3, <3>4 DEF PassInv, Covers
  <2>4. Pl!ChangesAreLive'
    BY <1>0, <2>1 DEF Pl!ChangesAreLive
  <2> QED BY <1>0, <1>1, <2>1, <2>2, <2>3, <2>4 DEF LiveInv, PlaneTypes
<1>4. CASE StartsReload(h, c)
  <2>1. /\ table' = table /\ live' = live /\ answered' = answered
        /\ c.at = "read" /\ c.next = 1 /\ c.read = s.read
    BY <1>4 DEF StartsReload
  <2>2. /\ muddled' \in BOOLEAN
        /\ ~ muddled' => ~ muddled
        /\ ~ muddled' => \A o \in Handlers \ {h} : ~ Reloading(o)
    BY <1>0, <1>4 DEF StartsReload
  <2>3. ReadInv'
    <3>1. \A o \in Handlers : /\ handler'[o].read = handler[o].read
                             /\ handler'[o].on = handler[o].on /\ handler'[o].wrote = handler[o].wrote
      BY <1>1, <1>4, <2>1 DEF StartsReload, Carries
    <3> QED BY <1>0, <2>1, <3>1 DEF ReadInv
  <2>4. \A o \in Handlers : o # h => handler'[o] = handler[o]
    BY <1>1
  <2>5. \A o \in Handlers : handler'[o].at = "read" => handler'[o].next \in 1 .. 5
    BY <1>0, <1>1, <2>1, <2>4 DEF PassInv
  <2>6. ~ muddled' => \A o \in Handlers : handler'[o].at \in {"read", "publish"} => o = h
    BY <2>2, <2>4 DEF Reloading
  <2>7. PassInv'
    <3>1. \A o \in Handlers : handler'[o].at = "write" => handler'[o].on \in Pl!Table
      BY <1>0, <1>1, <2>1 DEF PassInv
    <3> QED BY <1>1, <2>1, <2>5, <2>6, <3>1 DEF PassInv, Reloading
  <2>8. Pl!ChangesAreLive'
    BY <1>0, <2>1, <2>2 DEF Pl!ChangesAreLive
  <2>9. PlaneTypes'
    BY <1>0, <1>1, <2>1, <2>2 DEF PlaneTypes
  <2> QED BY <2>3, <2>7, <2>8, <2>9 DEF LiveInv
<1>5. CASE ReadsOn(h, c)
  <2> DEFINE u == Pl!Tables[s.next]
  <2>1. /\ UNCHANGED <<table, live, answered, muddled>> /\ s.at = "read"
        /\ c.next = s.next + 1 /\ c.on = s.on /\ c.wrote = s.wrote
        /\ c.at = (IF s.next = 5 THEN "publish" ELSE "read")
    BY <1>0, <1>5 DEF ReadsOn, Carries
  <2>2. s.next \in 1 .. 5 /\ u \in Pl!Table
    BY <1>0, <2>1, TablesOfThePlane DEF PassInv
  <2>3. /\ \A t \in Pl!Table \ {u} : c.read[t] = s.read[t]
        /\ c.read[u] = table[u] \/ c.read[u] = -1
    BY <1>0, <1>5, <2>2 DEF ReadsOn
  <2>4. ReadInv'
    <3>1. c.read[u] <= table[u]
      BY <1>2, <2>2, <2>3
    <3>2. \A t \in Pl!Table : c.read[t] <= table[t]
      BY <1>0, <2>3, <3>1 DEF ReadInv
    <3>3. \A t \in Pl!Table : c.on = t => c.wrote <= table[t]
      BY <1>0, <2>1 DEF ReadInv
    <3> QED BY <1>0, <1>1, <2>1, <3>2, <3>3 DEF ReadInv
  <2>5. Pl!ChangesAreLive'
    BY <1>0, <2>1 DEF Pl!ChangesAreLive
  <2>6. ASSUME ~ muddled', NEW i \in 1 .. 5, i < c.next
        PROVE  Covers(c, Pl!Tables[i])
    <3>1. Pl!Tables[i] \in Pl!Table
      BY TablesOfThePlane
    <3>2. CASE Pl!Tables[i] = u
      BY <1>0, <2>1, <2>3, <3>1, <3>2 DEF ReadInv, Covers
    <3>3. CASE Pl!Tables[i] # u
      <4>1. i < s.next
        <5>1. i # s.next
          BY <3>3
        <5> QED BY <2>1, <2>2, <2>6, <5>1
      <4>2. c.read[Pl!Tables[i]] = s.read[Pl!Tables[i]]
        BY <2>3, <3>1, <3>3
      <4>3. Covers(s, Pl!Tables[i])
        BY <1>0, <2>1, <2>6, <4>1 DEF PassInv
      <4> QED BY <2>1, <4>2, <4>3 DEF Covers
    <3> QED BY <3>2, <3>3
  <2>7. PassInv'
    <3>1. c.at = "read" => c.next \in 1 .. 5
      BY <2>1, <2>2
    <3>2. ASSUME ~ muddled', c.at = "publish" PROVE \A t \in Pl!Table : Covers(c, t)
      <4>1. c.next = 6
        BY <2>1, <3>2
      <4> TAKE t \in Pl!Table
      <4>2. PICK i \in 1 .. 5 : Pl!Tables[i] = t
        BY TablesOfThePlane
      <4>3. i < c.next
        BY <4>1
      <4> QED BY <2>6, <3>2, <4>2, <4>3
    <3>3. c.at \in {"read", "publish"} /\ Reloading(h)
      BY <2>1 DEF Reloading
    <3>4. \A o \in Handlers : o # h => (Reloading(o)' <=> Reloading(o))
      BY <1>1 DEF Reloading
    <3>5. ~ muddled' => \A o \in Handlers : Reloading(o)' => o = h
      BY <1>0, <2>1, <3>3, <3>4 DEF PassInv
    <3>6. ~ muddled' => \A o \in Handlers : handler'[o].at \in {"read", "publish"} => o = h
      BY <3>5 DEF Reloading
    <3>7. \A o \in Handlers : handler'[o].at = "read" => handler'[o].next \in 1 .. 5
      BY <1>0, <1>1, <3>1 DEF PassInv
    <3>8. ASSUME ~ muddled', NEW o \in Handlers
          PROVE  /\ \A q \in Handlers : Reloading(o)' /\ Reloading(q)' => o = q
                 /\ handler'[o].at = "read" => \A i \in 1 .. 5 :
                      i < handler'[o].next => Covers(handler'[o], Pl!Tables[i])
                 /\ handler'[o].at = "publish" => \A t \in Pl!Table : Covers(handler'[o], t)
      <4>1. handler'[o].at \in {"read", "publish"} => handler'[o] = c
        BY <1>1, <3>6, <3>8
      <4>2. \A q \in Handlers : Reloading(o)' /\ Reloading(q)' => o = q
        BY <3>5, <3>8
      <4> QED BY <2>6, <3>2, <3>8, <4>1, <4>2
    <3>9. \A o \in Handlers : handler'[o].at = "write" => handler'[o].on \in Pl!Table
      BY <1>0, <1>1, <3>3 DEF PassInv
    <3> QED BY <2>1, <3>7, <3>8, <3>9 DEF PassInv, Covers
  <2> QED BY <1>0, <1>1, <2>1, <2>4, <2>5, <2>7 DEF LiveInv, PlaneTypes
<1>6. CASE Publishes(h, c)
  <2>1. /\ UNCHANGED <<table, muddled>> /\ s.at = "publish" /\ c.at = "idle" /\ live' = s.read
        /\ answered' \in [Pl!Table -> Int] /\ c.on = "none"
        /\ \A t \in Pl!Table : /\ c.read[t] = 0
                               /\ \/ answered'[t] = answered[t]
                                  \/ s.on = t /\ answered'[t] = s.wrote
    BY <1>6 DEF Publishes
  <2>2. ReadInv'
    <3>1. \A t \in Pl!Table : answered'[t] <= table[t]
      BY <1>0, <2>1 DEF ReadInv
    <3>2. \A o \in Handlers, t \in Pl!Table : handler'[o].read[t] <= table[t]
      BY <1>0, <1>1, <1>2, <2>1 DEF ReadInv
    <3>3. \A o \in Handlers, t \in Pl!Table : handler'[o].on = t => handler'[o].wrote <= table[t]
      BY <1>0, <1>1, <2>1, TablesOfThePlane DEF ReadInv
    <3> QED BY <2>1, <3>1, <3>2, <3>3 DEF ReadInv
  <2>3. ~ muddled => \A o \in Handlers \ {h} : ~ Reloading(o)
    BY <1>0, <2>1 DEF PassInv, Reloading
  <2>4. PassInv'
    BY <1>0, <1>1, <2>1, <2>3 DEF PassInv, Reloading
  <2>5. ASSUME ~ muddled, NEW t \in Pl!Table PROVE live'[t] = -1 \/ live'[t] >= answered'[t]
    <3>1. Covers(s, t)
      BY <1>0, <2>1, <2>5 DEF PassInv
    <3> QED BY <1>0, <1>2, <2>1, <3>1 DEF Covers
  <2>6. Pl!ChangesAreLive'
    <3> QED BY <2>1, <2>5 DEF Pl!ChangesAreLive, Pl!Unread
  <2> QED BY <1>0, <1>1, <2>1, <2>2, <2>4, <2>6 DEF LiveInv, PlaneTypes
<1> QED BY <1>3, <1>4, <1>5, <1>6

LEMMA PlaneNext ==
  ASSUME LiveInv, Pl!Next
  PROVE  \E h \in Handlers, c \in HandlerType : ReloadKind(h, c) \/ RoutingKind(h, c)
<1>1. PlaneTypes /\ PassInv
  BY DEF LiveInv
<1>2. PICK h \in Handlers : Pl!ReloadStep(h) \/ Pl!RoutingStep(h)
  BY DEF Pl!Next
<1>3. CASE Pl!ReloadStep(h)
  <2>1. PICK c : ReloadKind(h, c)
    BY <1>1, <1>3, ReloadSteps
  <2>2. c \in HandlerType
    BY <2>1 DEF ReloadKind, Hands
  <2> QED BY <2>1, <2>2
<1>4. CASE Pl!RoutingStep(h)
  <2>1. PICK c : RoutingKind(h, c)
    BY <1>1, <1>4, RoutingSteps
  <2>2. c \in HandlerType
    BY <2>1 DEF RoutingKind, Hands
  <2> QED BY <2>1, <2>2
<1> QED BY <1>2, <1>3, <1>4

LEMMA PlaneKeepsLive ==
  ASSUME LiveInv, Pl!Next
  PROVE  LiveInv'
<1>1. PICK h \in Handlers, c \in HandlerType : ReloadKind(h, c) \/ RoutingKind(h, c)
  BY PlaneNext
<1>2. setting.value \in Strategies /\ crossed \in BOOLEAN
  BY DEF LiveInv, PlaneTypes
<1>3. CASE ReloadKind(h, c)
  <2>1. setting' = setting /\ crossed' = crossed
    BY <1>3 DEF ReloadKind, Routed
  <2>2. Hands(h, c) /\ (Aside(h, c) \/ StartsReload(h, c) \/ ReadsOn(h, c) \/ Publishes(h, c))
    BY <1>3 DEF ReloadKind
  <2> QED BY <1>2, <2>1, <2>2, LiveNext
<1>4. CASE RoutingKind(h, c)
  <2>1. setting' = setting \/ setting'.value \in Strategies
    BY <1>4 DEF RoutingKind, Routed
  <2>2. crossed' \in BOOLEAN
    <3>1. \/ crossed' = (crossed \/ \E o \in Handlers \ {h} : handler[o].at \in Routing)
          \/ crossed' = crossed \/ crossed' = TRUE
      BY <1>4 DEF RoutingKind, Routed
    <3> QED BY <1>2, <3>1
  <2>3. setting'.value \in Strategies
    BY <1>2, <2>1
  <2>4. Hands(h, c) /\ Aside(h, c)
    BY <1>4 DEF RoutingKind
  <2> QED BY <2>2, <2>3, <2>4, LiveNext
<1> QED BY <1>1, <1>3, <1>4

LEMMA LiveInit == Pl!Init => LiveInv
<1> SUFFICES ASSUME Pl!Init PROVE LiveInv
  OBVIOUS
<1>1. /\ table = [t \in Pl!Table |-> 0] /\ live = table /\ answered = table
      /\ handler = [h \in Handlers |-> Pl!NoHandler] /\ setting.value = Default
      /\ muddled = FALSE /\ crossed = FALSE
  BY DEF Pl!Init
<1>2. \A h \in Handlers : handler[h] = Pl!NoHandler
  BY <1>1
<1>3. PlaneTypes
  <2>1. handler \in [Handlers -> HandlerType]
    BY <1>1, NoHandlerType
  <2>2. table \in [Pl!Table -> Nat]
    BY <1>1
  <2>3. table \in [Pl!Table -> Int]
    BY <1>1
  <2>4. setting.value \in Strategies
    BY <1>1, ServiceAssumption
  <2> QED BY <1>1, <2>1, <2>2, <2>3, <2>4 DEF PlaneTypes
<1>4. ReadInv
  BY <1>1, <1>2, NoHandlerType, TablesOfThePlane DEF ReadInv
<1>5. PassInv
  BY <1>2, NoHandlerType DEF PassInv, Reloading
<1>6. Pl!ChangesAreLive
  BY <1>1 DEF Pl!ChangesAreLive
<1> QED BY <1>3, <1>4, <1>5, <1>6 DEF LiveInv

LEMMA LiveAlways == Spec => []LiveInv
<1>1. ASSUME LiveInv, UNCHANGED Pl!vars PROVE LiveInv'
  <2>1. /\ table' = table /\ live' = live /\ answered' = answered /\ muddled' = muddled
        /\ setting' = setting /\ crossed' = crossed /\ handler' = handler
    BY <1>1 DEF Pl!vars, Pl!planeData, Pl!routingData
  <2> QED BY <1>1, <2>1
          DEF LiveInv, PlaneTypes, ReadInv, PassInv, Covers, Reloading, Pl!ChangesAreLive
<1>2. LiveInv /\ [Pl!Next]_(Pl!vars) => LiveInv'
  BY <1>1, PlaneKeepsLive
<1> QED BY <1>2, LiveInit, ServicesAreIndependent, PTL DEF Pl!Spec

\* ProxyPlane.Reload after every write: a change that was answered with success is
\* live, and stays live through the reloads of other handlers, as long as none of
\* them overlap; but for the rows that the last reload could not read.
THEOREM ChangesStayLive == Spec => []ChangesAreLive
<1>1. LiveInv => ChangesAreLive
  BY DEF LiveInv, ChangesAreLive
<1> QED BY <1>1, LiveAlways, PTL

-----------------------------------------------------------------------------
(* The plane: routing.                                                     *)

Agreed == strategy = setting.value /\ \A p \in Pools : inForce[p] = strategy

\* How far a routing change is: before it stores the setting all pools agree; from
\* ConfigureRouting on, those agree that it has passed.  Only one is under way.
RoutingInv ==
  /\ inForce \in [Pools -> Strategies] /\ strategy \in Strategies
  /\ ~ crossed =>
       /\ \A g, h \in Handlers : handler[g].at \in Routing /\ handler[h].at \in Routing => g = h
       /\ (\A h \in Handlers : handler[h].at \notin Routing) => Agreed
       /\ \A h \in Handlers :
            /\ handler[h].at = "put" => Agreed
            /\ handler[h].at = "set" => handler[h].wants = setting.value
            /\ handler[h].at = "pools" =>
                 /\ strategy = setting.value /\ handler[h].wants = strategy
                 /\ \A p \in Pools \ handler[h].todo : inForce[p] = strategy

LEMMA ReloadKeepsRouting ==
  ASSUME LiveInv, RoutingInv, NEW h \in Handlers, NEW c, ReloadKind(h, c)
  PROVE  RoutingInv'
<1>1. handler' = [handler EXCEPT ![h] = c] /\ handler \in [Handlers -> HandlerType]
  BY DEF ReloadKind, Hands, LiveInv, PlaneTypes
<1>2. \A o \in Handlers : o # h => handler'[o] = handler[o]
  BY <1>1
<1>3. handler'[h].at \notin Routing /\ handler[h].at \notin Routing
  BY <1>1 DEF ReloadKind
<1>4. setting' = setting /\ strategy' = strategy /\ crossed' = crossed
  BY DEF ReloadKind, Routed
<1>5. inForce' = inForce \/ inForce' = [p \in Pools |-> strategy]
  BY DEF ReloadKind
<1>6. inForce' \in [Pools -> Strategies] /\ strategy' \in Strategies
  BY <1>4, <1>5 DEF RoutingInv
<1>7. \A p \in Pools : inForce[p] = strategy => inForce'[p] = strategy
  BY <1>5
<1>8. \A o \in Handlers : handler'[o].at \in Routing => o # h /\ handler'[o] = handler[o]
  BY <1>2, <1>3
<1>9. \A o \in Handlers : handler[o].at \in Routing => handler'[o] = handler[o]
  BY <1>2, <1>3
<1>10. Agreed => Agreed'
  BY <1>4, <1>7 DEF Agreed
<1>11. ASSUME ~ crossed PROVE \A f, g \in Handlers :
         handler'[f].at \in Routing /\ handler'[g].at \in Routing => f = g
  BY <1>8, <1>11 DEF RoutingInv
<1>12. ASSUME ~ crossed, \A o \in Handlers : handler'[o].at \notin Routing PROVE Agreed'
  <2>1. \A o \in Handlers : handler[o].at \notin Routing
    BY <1>9, <1>12
  <2> QED BY <1>10, <1>12, <2>1 DEF RoutingInv
<1>13. ASSUME ~ crossed, NEW o \in Handlers
       PROVE  /\ handler'[o].at = "put" => Agreed'
              /\ handler'[o].at = "set" => handler'[o].wants = setting'.value
              /\ handler'[o].at = "pools" =>
                   /\ strategy' = setting'.value /\ handler'[o].wants = strategy'
                   /\ \A p \in Pools \ handler'[o].todo : inForce'[p] = strategy'
  <2>1. handler'[o].at \in Routing => handler'[o] = handler[o]
    BY <1>8
  <2>2. handler'[o].at = "put" => Agreed'
    BY <1>10, <1>13, <2>1 DEF RoutingInv, Routing
  <2>3. handler'[o].at = "set" => handler'[o].wants = setting'.value
    BY <1>4, <1>13, <2>1 DEF RoutingInv, Routing
  <2>4. ASSUME handler'[o].at = "pools"
        PROVE  /\ strategy' = setting'.value /\ handler'[o].wants = strategy'
               /\ \A p \in Pools \ handler'[o].todo : inForce'[p] = strategy'
    BY <1>4, <1>7, <1>13, <2>1, <2>4 DEF RoutingInv, Routing
  <2> QED BY <2>2, <2>3, <2>4
<1> QED BY <1>4, <1>6, <1>11, <1>12, <1>13 DEF RoutingInv

\* Nobody else is changing the routing when this handler is.
LEMMA RoutingKeepsRouting ==
  ASSUME LiveInv, RoutingInv, NEW h \in Handlers, NEW c, RoutingKind(h, c)
  PROVE  RoutingInv'
<1> DEFINE s == handler[h]
<1>1. /\ handler \in [Handlers -> HandlerType] /\ s \in HandlerType /\ s.wants \in Strategies
      /\ s.todo \in SUBSET Pools /\ setting.value \in Strategies
  BY DEF LiveInv, PlaneTypes, HandlerType
<1>2. handler'[h] = c /\ \A o \in Handlers : o # h => handler'[o] = handler[o]
  BY <1>1 DEF RoutingKind, Hands
<1>3. inForce \in [Pools -> Strategies] /\ strategy \in Strategies
  BY DEF RoutingInv
<1>4. ASSUME ~ crossed, s.at \in Routing
      PROVE  \A o \in Handlers : handler'[o].at \in Routing => o = h
  BY <1>2, <1>4 DEF RoutingInv
\* What is left to show of a step that only this handler is in.
<1>5. ASSUME inForce' \in [Pools -> Strategies] /\ strategy' \in Strategies,
             crossed' = crossed, s.at \in Routing,
             ~ crossed =>
               /\ c.at \notin Routing => Agreed'
               /\ c.at = "put" => Agreed'
               /\ c.at = "set" => c.wants = setting'.value
               /\ c.at = "pools" =>
                    /\ strategy' = setting'.value /\ c.wants = strategy'
                    /\ \A p \in Pools \ c.todo : inForce'[p] = strategy'
      PROVE  RoutingInv'
  <2>1. CASE crossed
    BY <1>5, <2>1 DEF RoutingInv
  <2>2. CASE ~ crossed
    <3>1. \A o \in Handlers : handler'[o].at \in Routing => handler'[o] = c /\ o = h
      BY <1>2, <1>4, <1>5, <2>2
    <3>2. \A f, g \in Handlers : handler'[f].at \in Routing /\ handler'[g].at \in Routing => f = g
      BY <3>1
    <3>3. (\A o \in Handlers : handler'[o].at \notin Routing) => Agreed'
      BY <1>2, <1>5, <2>2
    <3>4. ASSUME NEW o \in Handlers
          PROVE  /\ handler'[o].at = "put" => Agreed'
                 /\ handler'[o].at = "set" => handler'[o].wants = setting'.value
                 /\ handler'[o].at = "pools" =>
                      /\ strategy' = setting'.value /\ handler'[o].wants = strategy'
                      /\ \A p \in Pools \ handler'[o].todo : inForce'[p] = strategy'
      BY <1>5, <2>2, <3>1, <3>4 DEF Routing
    <3> QED BY <1>5, <3>2, <3>3, <3>4 DEF RoutingInv
  <2> QED BY <2>1, <2>2
<1>6. CASE /\ s.at = "idle" /\ c.at = "put"
           /\ crossed' = (crossed \/ \E o \in Handlers \ {h} : handler[o].at \in Routing)
           /\ UNCHANGED <<setting, strategy, inForce>>
  <2>1. CASE crossed'
    BY <1>3, <1>6, <2>1 DEF RoutingInv
  <2>2. CASE ~ crossed'
    <3>1. ~ crossed /\ \A o \in Handlers : handler[o].at \notin Routing
      BY <1>6, <2>2 DEF Routing
    <3>2. Agreed'
      BY <1>6, <3>1 DEF RoutingInv, Agreed
    <3>3. \A o \in Handlers : handler'[o].at \in Routing => o = h /\ handler'[o].at = "put"
      BY <1>2, <1>6, <3>1
    <3>4. inForce' \in [Pools -> Strategies] /\ strategy' \in Strategies
      BY <1>3, <1>6
    <3> QED BY <3>2, <3>3, <3>4 DEF RoutingInv, Routing
  <2> QED BY <2>1, <2>2
<1>7. CASE /\ s.at = "put" /\ c.at = "load" /\ UNCHANGED <<strategy, inForce, crossed>>
           /\ setting'.value \in Strategies
  BY <1>3, <1>5, <1>7 DEF Routing
<1>8. CASE s.at = "put" /\ c.at = "idle" /\ Routed /\ inForce' = inForce
  <2>1. ~ crossed => Agreed
    BY <1>8 DEF RoutingInv
  <2>2. ~ crossed => Agreed'
    BY <1>8, <2>1 DEF Agreed, Routed
  <2>3. inForce' \in [Pools -> Strategies] /\ strategy' \in Strategies /\ crossed' = crossed
    BY <1>3, <1>8 DEF Routed
  <2> QED BY <1>5, <1>8, <2>2, <2>3 DEF Routing
<1>9. CASE /\ s.at = "load" /\ c.at = "set" /\ c.wants = setting.value
           /\ Routed /\ inForce' = inForce
  <2>1. /\ inForce' \in [Pools -> Strategies] /\ strategy' \in Strategies
        /\ crossed' = crossed /\ setting' = setting
    BY <1>3, <1>9 DEF Routed
  <2> QED BY <1>5, <1>9, <2>1 DEF Routing
<1>10. CASE c.at = "idle" /\ crossed' = TRUE /\ UNCHANGED <<setting, strategy, inForce>>
  BY <1>3, <1>10 DEF RoutingInv
<1>11. CASE /\ s.at = "set" /\ c.at = "pools" /\ c.todo = Pools /\ c.wants = s.wants
            /\ strategy' = s.wants /\ UNCHANGED <<setting, inForce, crossed>>
  <2>1. ~ crossed => s.wants = setting.value
    BY <1>11 DEF RoutingInv
  <2>2. inForce' \in [Pools -> Strategies] /\ strategy' \in Strategies
    BY <1>1, <1>3, <1>11
  <2>3. Pools \ c.todo = {}
    BY <1>11
  <2> QED BY <1>5, <1>11, <2>1, <2>2, <2>3 DEF Routing
<1>12. CASE /\ s.at = "pools" /\ Routed
            /\ \E p \in s.todo :
                 /\ inForce' = [inForce EXCEPT ![p] = s.wants]
                 /\ \/ c.at = "idle" /\ s.todo \ {p} = {}
                    \/ c.at = "pools" /\ c.todo = s.todo \ {p} /\ c.wants = s.wants
  <2>1. PICK p \in s.todo :
          /\ inForce' = [inForce EXCEPT ![p] = s.wants]
          /\ \/ c.at = "idle" /\ s.todo \ {p} = {}
             \/ c.at = "pools" /\ c.todo = s.todo \ {p} /\ c.wants = s.wants
    BY <1>12
  <2>2. setting' = setting /\ strategy' = strategy /\ crossed' = crossed
    BY <1>12 DEF Routed
  <2>3. p \in Pools /\ inForce' \in [Pools -> Strategies]
    BY <1>1, <1>3, <2>1
  <2>4. ASSUME ~ crossed
        PROVE  /\ strategy = setting.value /\ s.wants = strategy
               /\ \A q \in Pools \ (s.todo \ {p}) : inForce'[q] = strategy
    <3>1. /\ strategy = setting.value /\ s.wants = strategy
          /\ \A q \in Pools \ s.todo : inForce[q] = strategy
      BY <1>12, <2>4 DEF RoutingInv
    <3> QED BY <1>3, <2>1, <2>3, <3>1
  <2>5. CASE c.at = "idle" /\ s.todo \ {p} = {}
    <3>1. ~ crossed => Agreed'
      BY <2>2, <2>4, <2>5 DEF Agreed
    <3> QED BY <1>3, <1>5, <1>12, <2>2, <2>3, <2>5, <3>1 DEF Routing
  <2>6. CASE c.at = "pools" /\ c.todo = s.todo \ {p} /\ c.wants = s.wants
    <3>1. ~ crossed => /\ strategy' = setting'.value /\ c.wants = strategy'
                       /\ \A q \in Pools \ c.todo : inForce'[q] = strategy'
      BY <2>2, <2>4, <2>6
    <3> QED BY <1>3, <1>5, <1>12, <2>2, <2>3, <2>6, <3>1 DEF Routing
  <2> QED BY <2>1, <2>5, <2>6
<1> QED BY <1>6, <1>7, <1>8, <1>9, <1>10, <1>11, <1>12 DEF RoutingKind

\* ProxyPlane.Reload and ConfigureRouting: all pools draw by the stored strategy
\* whenever no routing change is under way, however reloads interleave with it.
THEOREM StrategyStaysInForce == Spec => []StrategyInForce
<1>1. Pl!Init => RoutingInv
  <2> SUFFICES ASSUME Pl!Init PROVE RoutingInv
    OBVIOUS
  <2>1. /\ setting.value = Default /\ strategy = Default /\ inForce = [p \in Pools |-> Default]
        /\ \A h \in Handlers : handler[h] = Pl!NoHandler
    BY DEF Pl!Init
  <2>2. inForce \in [Pools -> Strategies] /\ strategy \in Strategies
    BY <2>1, ServiceAssumption
  <2>3. \A h \in Handlers : handler[h].at = "idle"
    BY <2>1, NoHandlerType
  <2>4. Agreed
    BY <2>1 DEF Agreed
  <2> QED BY <2>2, <2>3, <2>4 DEF RoutingInv, Routing
<1>2. ASSUME LiveInv, RoutingInv, [Pl!Next]_(Pl!vars) PROVE RoutingInv'
  <2>1. CASE Pl!Next
    <3>1. PICK h \in Handlers, c \in HandlerType : ReloadKind(h, c) \/ RoutingKind(h, c)
      BY <1>2, <2>1, PlaneNext
    <3>2. CASE ReloadKind(h, c)
      BY <1>2, <3>2, ReloadKeepsRouting
    <3>3. CASE RoutingKind(h, c)
      BY <1>2, <3>3, RoutingKeepsRouting
    <3> QED BY <3>1, <3>2, <3>3
  <2>2. CASE UNCHANGED Pl!vars
    <3>1. /\ setting' = setting /\ strategy' = strategy /\ inForce' = inForce
          /\ crossed' = crossed /\ handler' = handler
      BY <2>2 DEF Pl!vars, Pl!routingData
    <3> QED BY <1>2, <3>1 DEF RoutingInv, Agreed
  <2> QED BY <1>2, <2>1, <2>2
<1>3. RoutingInv => StrategyInForce
  BY DEF RoutingInv, StrategyInForce, Pl!StrategyInForce, Pl!Routing, Routing, Agreed
<1> QED BY <1>1, <1>2, <1>3, LiveAlways, ServicesAreIndependent, PTL DEF Pl!Spec

-----------------------------------------------------------------------------
(* The model catalog.                                                      *)

SyncType ==
  [at : {"idle", "list", "write", "reload"}, provider : Discoverable \cup {None},
   found : SUBSET Models, reasoned : SUBSET Models, listed : [Models -> Sy!Rows \cup {None}],
   todo : SUBSET Models, stale : SUBSET Models]

EditType ==
  [at : {"idle", "flip", "define", "reload"}, model : Models \cup {None}, enable : BOOLEAN,
   routes : SUBSET Sy!Routes, todo : SUBSET Sy!Routes]

CatalogTypes ==
  /\ row \in [Sy!Routes -> Sy!Rows \cup {None}] /\ served \subseteq Sy!Routes
  /\ sync \in [Syncs -> SyncType] /\ edit \in [Operators -> EditType]

\* A synchronization that is writing has listed every row it has yet to write as it
\* is, but for the rows that somebody wrote meanwhile.
Aimed(c) == c.at \in {"list", "write"} => c.provider \in Discoverable
Current(c, rows) ==
  c.at = "write" => \A m \in c.todo \ c.stale : c.listed[m] = rows[<<c.provider, m>>]

CatalogInv == CatalogTypes /\ \A s \in Syncs : Aimed(sync[s]) /\ Current(sync[s], row)

LEMMA RoutesOfThePlane ==
  /\ \A p \in Discoverable : \A m \in Models : <<p, m>> \in Sy!Routes
  /\ \A r \in Sy!Routes : r[1] \in Discoverable /\ r[2] \in Models /\ r = <<r[1], r[2]>>
BY DEF Sy!Routes

LEMMA RowTypes ==
  ASSUME NEW x \in Sy!Rows
  PROVE  /\ x # None /\ x.source \in {"definition", "discovery"}
         /\ x.enabled \in BOOLEAN /\ x.reasons \in BOOLEAN
BY ServiceAssumption DEF Sy!Rows

\* Whoever writes a row takes it from those that go by an earlier listing.
LEMMA Overtakes ==
  ASSUME CatalogInv, NEW r \in Sy!Routes, NEW x, row' = [row EXCEPT ![r] = x],
         NEW s \in Syncs
  PROVE  LET d == Sy!Overtaken(r[1], r[2])[s]
         IN  /\ d \in SyncType /\ d.at = sync[s].at /\ d.todo = sync[s].todo
             /\ d.provider = sync[s].provider /\ Aimed(d) /\ Current(d, row')
<1> DEFINE d == Sy!Overtaken(r[1], r[2])[s]
           a == sync[s].stale \cup {r[2]}
           c == [sync[s] EXCEPT !.stale = a]
<1>1. /\ sync[s] \in SyncType /\ r[2] \in Models /\ r = <<r[1], r[2]>>
      /\ row \in [Sy!Routes -> Sy!Rows \cup {None}]
      /\ Aimed(sync[s]) /\ Current(sync[s], row) /\ r[1] \in Discoverable
  BY RoutesOfThePlane DEF CatalogInv, CatalogTypes
<1>2. a \in SUBSET Models
  BY <1>1 DEF SyncType
<1>3. d = IF sync[s].at = "write" /\ sync[s].provider = r[1] THEN c ELSE sync[s]
  BY DEF Sy!Overtaken
<1>4. \A p \in Discoverable : \A m \in Models :
        p # r[1] \/ m # r[2] => row'[<<p, m>>] = row[<<p, m>>]
  <2> SUFFICES ASSUME NEW p \in Discoverable, NEW m \in Models, p # r[1] \/ m # r[2]
               PROVE  row'[<<p, m>>] = row[<<p, m>>]
    OBVIOUS
  <2>1. <<p, m>> # r /\ <<p, m>> \in Sy!Routes
    BY <1>1, RoutesOfThePlane
  <2> QED BY <1>1, <2>1
<1>5. CASE sync[s].at = "write" /\ sync[s].provider = r[1]
  <2>1. d = c
    BY <1>3, <1>5
  <2> HIDE DEF d, a
  <2>2. c \in SyncType /\ c.at = sync[s].at /\ c.todo = sync[s].todo /\ c.stale = a
        /\ c.provider = sync[s].provider /\ c.listed = sync[s].listed
    BY <1>1, <1>2 DEF SyncType
  <2> HIDE DEF c
  <2>3. Aimed(c)
    BY <1>1, <2>2 DEF Aimed
  <2>4. Current(c, row')
    <3>1. \A m \in c.todo \ c.stale : m \in Models \ {r[2]} /\ m \in sync[s].todo \ sync[s].stale
      BY <1>1, <2>2 DEF a, SyncType
    <3>2. \A m \in c.todo \ c.stale : c.listed[m] = row[<<r[1], m>>]
      BY <1>1, <1>5, <2>2, <3>1 DEF Current
    <3> QED BY <1>1, <1>4, <1>5, <2>2, <3>1, <3>2 DEF Current
  <2> QED BY <2>1, <2>2, <2>3, <2>4 DEF d
<1>6. CASE ~ (sync[s].at = "write" /\ sync[s].provider = r[1])
  <2>1. d = sync[s]
    BY <1>3, <1>6
  <2>2. Current(sync[s], row')
    <3>1. sync[s].at = "write" => sync[s].provider \in Discoverable /\ sync[s].provider # r[1]
      BY <1>1, <1>6 DEF Aimed
    <3>2. sync[s].todo \subseteq Models
      BY <1>1 DEF SyncType
    <3> QED BY <1>1, <1>4, <3>1, <3>2 DEF Current
  <2> HIDE DEF d
  <2> QED BY <1>1, <2>1, <2>2 DEF d
<1> QED BY <1>5, <1>6

LEMMA Reconciles ==
  ASSUME NEW prior \in Sy!Rows \cup {None}, NEW q \in BOOLEAN
  PROVE  LET x == Sy!Reconciled(prior, q)
         IN  /\ x \in Sy!Rows
             /\ prior # None =>
                  /\ prior.source = "definition" => x = prior
                  /\ prior.reasons => x.reasons
                  /\ ~ prior.enabled => ~ x.enabled
<1> DEFINE x == Sy!Reconciled(prior, q)
<1>1. CASE prior = None
  BY <1>1 DEF Sy!Reconciled, Sy!Rows
<1>2. CASE prior # None
  <2>1. prior \in Sy!Rows /\ prior.reasons \in BOOLEAN
    BY <1>2 DEF Sy!Rows
  <2>2. CASE prior.source = "definition"
    BY <1>2, <2>1, <2>2 DEF Sy!Reconciled
  <2>3. CASE prior.source # "definition"
    <3> DEFINE b == prior.reasons \/ q
    <3>1. b \in BOOLEAN /\ (prior.reasons => b)
      BY <2>1
    <3>2. x = [prior EXCEPT !.reasons = b]
      BY <1>2, <2>3 DEF Sy!Reconciled
    <3> HIDE DEF b
    <3>3. x \in Sy!Rows /\ x.reasons = b /\ x.enabled = prior.enabled
      BY <2>1, <3>1, <3>2 DEF Sy!Rows
    <3> QED BY <2>3, <3>1, <3>3
  <2> QED BY <2>2, <2>3
<1> QED BY <1>1, <1>2

\* What a synchronization may do to the row of a model it has just reconciled.
Kept(was, is) ==
  was # None => /\ is # None
                /\ was.source = "definition" => is = was
                /\ was.reasons => is.reasons
                /\ ~ was.enabled => ~ is.enabled

LEMMA SyncSteps ==
  ASSUME CatalogInv, NEW s \in Syncs, Sy!SyncStep(s)
  PROVE  /\ CatalogInv'
         /\ \A o \in Syncs \ {s} : sync'[o].todo = sync[o].todo
         /\ sync[s].at = "write" /\ sync'[s].at # "idle" =>
              \A m \in sync[s].todo \ (sync'[s].todo \cup sync[s].stale) :
                Kept(row[<<sync[s].provider, m>>], row'[<<sync[s].provider, m>>])
<1>1. /\ row \in [Sy!Routes -> Sy!Rows \cup {None}] /\ served \subseteq Sy!Routes
      /\ sync \in [Syncs -> SyncType] /\ edit \in [Operators -> EditType]
      /\ \A o \in Syncs : Aimed(sync[o]) /\ Current(sync[o], row)
  BY DEF CatalogInv, CatalogTypes
<1>2. /\ Sy!NoSync \in SyncType /\ Sy!NoSync.at = "idle"
  BY DEF Sy!NoSync, SyncType
\* A step that leaves the rows alone.
<1>3. ASSUME NEW c \in SyncType, Aimed(c), Current(c, row), row' = row,
             served' \subseteq Sy!Routes, edit' = edit, sync' = [sync EXCEPT ![s] = c]
      PROVE  CatalogInv' /\ \A o \in Syncs \ {s} : sync'[o].todo = sync[o].todo
  <2>1. sync' \in [Syncs -> SyncType] /\ sync'[s] = c
        /\ \A o \in Syncs \ {s} : sync'[o] = sync[o]
    BY <1>1, <1>3
  <2>2. \A o \in Syncs : Aimed(sync'[o]) /\ Current(sync'[o], row)
    BY <1>1, <1>3, <2>1
  <2>3. \A o \in Syncs : Aimed(sync[o])' /\ Current(sync[o], row)'
    BY <1>3, <2>2 DEF Aimed, Current
  <2>4. CatalogTypes'
    BY <1>1, <1>3, <2>1 DEF CatalogTypes
  <2> QED BY <2>1, <2>3, <2>4 DEF CatalogInv
<1>4. CASE Sy!Probe(s)
  <2>p. PICK p \in Discoverable : \E found \in SUBSET Models : \E reasoned \in SUBSET found :
          sync' = [sync EXCEPT ![s] = [Sy!NoSync EXCEPT !.at = "list", !.provider = p,
                                         !.found = found, !.reasoned = reasoned]]
    BY <1>4 DEF Sy!Probe
  <2>0. PICK found \in SUBSET Models : \E reasoned \in SUBSET found :
          sync' = [sync EXCEPT ![s] = [Sy!NoSync EXCEPT !.at = "list", !.provider = p,
                                         !.found = found, !.reasoned = reasoned]]
    BY <2>p
  <2>1. PICK reasoned \in SUBSET found :
          sync' = [sync EXCEPT ![s] = [Sy!NoSync EXCEPT !.at = "list", !.provider = p,
                                         !.found = found, !.reasoned = reasoned]]
    BY <2>0
  <2> DEFINE c == [Sy!NoSync EXCEPT !.at = "list", !.provider = p,
                                   !.found = found, !.reasoned = reasoned]
  <2>2. c \in SyncType /\ c.at = "list" /\ c.provider = p
    <3>1. reasoned \in SUBSET Models
      OBVIOUS
    <3> QED BY <1>2, <3>1 DEF SyncType
  <2> HIDE DEF c
  <2>3. Aimed(c) /\ Current(c, row) /\ sync' = [sync EXCEPT ![s] = c]
    BY <2>1, <2>2 DEF Aimed, Current, c
  <2>4. sync[s].at # "write" /\ row' = row /\ served' = served /\ edit' = edit
    BY <1>4 DEF Sy!Probe
  <2> QED BY <1>1, <1>3, <2>2, <2>3, <2>4
<1>5. CASE Sy!List(s)
  <2> DEFINE p == sync[s].provider
             x == IF sync[s].found = {} THEN "reload" ELSE "write"
             l == [m \in Models |-> row[p, m]]
             t == sync[s].found
             c == [sync[s] EXCEPT !.at = x, !.listed = l, !.todo = t]
  <2>1. /\ sync[s].at = "list" /\ p \in Discoverable /\ x \in {"reload", "write"}
        /\ row' = row /\ served' = served /\ edit' = edit
    BY <1>1, <1>5 DEF Sy!List, Aimed
  <2>2. l \in [Models -> Sy!Rows \cup {None}] /\ \A m \in Models : l[m] = row[<<p, m>>]
    BY <1>1, <2>1, RoutesOfThePlane
  <2>3. t \in SUBSET Models /\ sync[s] \in SyncType
    BY <1>1 DEF SyncType
  <2>4. sync' = [sync EXCEPT ![s] = c]
    BY <1>5 DEF Sy!List
  <2> HIDE DEF x, l, t, p
  <2>5. c \in SyncType /\ c.at = x /\ c.listed = l /\ c.todo = t /\ c.provider = p
    BY <2>1, <2>2, <2>3 DEF SyncType, p
  <2> HIDE DEF c
  <2>6. Aimed(c) /\ Current(c, row)
    BY <2>1, <2>2, <2>3, <2>5 DEF Aimed, Current
  <2> QED BY <1>1, <1>3, <2>1, <2>4, <2>5, <2>6
<1>6. CASE Sy!SyncFails(s) \/ Sy!SyncEnds(s)
  <2>1. row' = row /\ edit' = edit
    BY <1>6 DEF Sy!SyncFails, Sy!SyncEnds
  <2>2. PICK next \in {"idle", "reload"} : sync' = [sync EXCEPT ![s] = [Sy!NoSync EXCEPT !.at = next]]
    <3>1. Sy!NoSync = [Sy!NoSync EXCEPT !.at = "idle"]
      BY DEF Sy!NoSync
    <3> QED BY <1>6, <3>1 DEF Sy!SyncFails, Sy!SyncEnds
  <2> DEFINE c == [Sy!NoSync EXCEPT !.at = next]
  <2>3. served' \subseteq Sy!Routes
    BY <1>1, <1>6 DEF Sy!SyncFails, Sy!SyncEnds, Sy!Publish, Sy!Catalog
  <2>4. c \in SyncType /\ c.at \notin {"list", "write"}
    BY <1>2 DEF SyncType
  <2>5. Aimed(c) /\ Current(c, row)
    BY <2>4 DEF Aimed, Current
  <2>6. sync' = [sync EXCEPT ![s] = c]
    BY <2>2
  <2> HIDE DEF c
  <2>7. CatalogInv' /\ \A o \in Syncs \ {s} : sync'[o].todo = sync[o].todo
    BY <1>3, <2>1, <2>3, <2>4, <2>5, <2>6
  <2>8. \A k : Kept(row[<<sync[s].provider, k>>], row'[<<sync[s].provider, k>>])
    BY <2>1 DEF Kept
  <2> QED BY <2>7, <2>8
<1>7. ASSUME NEW m \in Models, Sy!Reconcile(s, m)
      PROVE  /\ CatalogInv'
             /\ \A o \in Syncs \ {s} : sync'[o].todo = sync[o].todo
             /\ \A k \in sync[s].todo \ (sync'[s].todo \cup sync[s].stale) :
                  Kept(row[<<sync[s].provider, k>>], row'[<<sync[s].provider, k>>])
  <2> DEFINE prior == sync[s].listed[m]
             next == Sy!Reconciled(prior, m \in sync[s].reasoned)
             p == sync[s].provider
             r == <<p, m>>
             x == IF sync[s].todo = {m} THEN "reload" ELSE "write"
             d == sync[s].todo \ {m}
             c == [sync[s] EXCEPT !.todo = d, !.at = x]
  <2>1. /\ sync[s] \in SyncType /\ sync[s].at = "write" /\ m \in sync[s].todo
        /\ p \in Discoverable /\ served' = served /\ edit' = edit
        /\ sync[s].todo \subseteq Models /\ prior \in Sy!Rows \cup {None}
    BY <1>1, <1>7 DEF Sy!Reconcile, Aimed, SyncType
  <2>2. \/ row' = row /\ sync' = [sync EXCEPT ![s] = c]
        \/ /\ row' = [row EXCEPT ![r] = next]
           /\ sync' = [Sy!Overtaken(sync[s].provider, m) EXCEPT ![s] = c]
    BY <1>7 DEF Sy!Reconcile
  <2>3. /\ next \in Sy!Rows
        /\ prior # None => /\ prior.source = "definition" => next = prior
                           /\ prior.reasons => next.reasons
                           /\ ~ prior.enabled => ~ next.enabled
    <3> DEFINE q == m \in sync[s].reasoned
    <3>1. q \in BOOLEAN
      OBVIOUS
    <3> HIDE DEF q
    <3> QED BY <2>1, <3>1, Reconciles DEF q
  <2>4. d \in SUBSET Models /\ x \in {"reload", "write"}
    BY <2>1
  <2> HIDE DEF prior, next, d, x, p
  <2>5. /\ c \in SyncType /\ c.at = x /\ c.todo = d /\ c.provider = p
        /\ c.listed = sync[s].listed /\ c.stale = sync[s].stale
    BY <2>1, <2>4 DEF SyncType, p
  <2> HIDE DEF c
  <2>6. Aimed(c) /\ r \in Sy!Routes /\ r[1] = p /\ r[2] = m
    BY <2>1, <2>5, RoutesOfThePlane DEF Aimed
  <2>7. \A k \in Models \ {m} : <<p, k>> # r
    OBVIOUS
  <2>8. \A k \in sync[s].todo \ (d \cup sync[s].stale) : k = m
    BY DEF d
  <2>9. m \notin sync[s].stale => prior = row[r]
    BY <1>1, <2>1, <2>6 DEF Current, prior, p
  <2>10. \A k \in c.todo \ c.stale : k \in Models \ {m} /\ c.listed[k] = row[<<p, k>>]
    BY <1>1, <2>1, <2>5 DEF Current, d, p
  <2>11. CASE row' = row /\ sync' = [sync EXCEPT ![s] = c]
    <3>1. Current(c, row)
      BY <2>1, <2>5, <2>10 DEF Current
    <3>2. \A k \in Models : Kept(row[<<p, k>>], row'[<<p, k>>])
      BY <2>11 DEF Kept
    <3>3. \A k \in sync[s].todo : Kept(row[<<sync[s].provider, k>>], row'[<<sync[s].provider, k>>])
      BY <2>1, <3>2 DEF p
    <3> QED BY <1>1, <1>3, <2>1, <2>5, <2>6, <2>11, <3>1, <3>3
  <2>12. CASE /\ row' = [row EXCEPT ![r] = next]
              /\ sync' = [Sy!Overtaken(sync[s].provider, m) EXCEPT ![s] = c]
    <3>1. row' \in [Sy!Routes -> Sy!Rows \cup {None}] /\ row'[r] = next
          /\ \A k \in Models \ {m} : row'[<<p, k>>] = row[<<p, k>>]
      BY <1>1, <2>3, <2>6, <2>7, <2>12, RoutesOfThePlane
    <3>2. Current(c, row')
      BY <2>1, <2>5, <2>10, <3>1 DEF Current
    <3>3. sync' = [Sy!Overtaken(r[1], r[2]) EXCEPT ![s] = c]
      BY <2>1, <2>6, <2>12 DEF p
    <3>4. DOMAIN Sy!Overtaken(r[1], r[2]) = Syncs
          /\ Sy!Overtaken(r[1], r[2]) = [o \in Syncs |-> Sy!Overtaken(r[1], r[2])[o]]
      BY DEF Sy!Overtaken
    <3> HIDE DEF r
    <3>5. \A o \in Syncs : LET e == Sy!Overtaken(r[1], r[2])[o]
            IN  /\ e \in SyncType /\ e.todo = sync[o].todo /\ Aimed(e) /\ Current(e, row')
      BY <2>6, <2>12, Overtakes
    <3>6. /\ sync' \in [Syncs -> SyncType] /\ sync'[s] = c
          /\ \A o \in Syncs \ {s} : sync'[o] = Sy!Overtaken(r[1], r[2])[o]
      BY <2>5, <3>3, <3>4, <3>5
    <3>7. \A o \in Syncs : Aimed(sync'[o]) /\ Current(sync'[o], row')
      BY <2>6, <3>2, <3>5, <3>6
    <3>8. \A o \in Syncs : Aimed(sync[o])' /\ Current(sync[o], row)'
      BY <3>7 DEF Aimed, Current
    <3>9. CatalogTypes'
      BY <1>1, <2>1, <3>1, <3>6 DEF CatalogTypes
    <3>10. \A o \in Syncs \ {s} : sync'[o].todo = sync[o].todo
      BY <3>5, <3>6
    <3>11. m \notin sync[s].stale => Kept(row[r], row'[r])
      <4>1. row[r] \in Sy!Rows \cup {None} /\ next # None
        BY <1>1, <2>3, <2>6, RowTypes
      <4> QED BY <2>3, <2>9, <3>1, <4>1 DEF Kept
    <3>12. \A k \in sync[s].todo \ (sync'[s].todo \cup sync[s].stale) :
             <<sync[s].provider, k>> = r /\ m \notin sync[s].stale
      BY <2>1, <2>5, <2>6, <2>8, <3>6 DEF p, r
    <3> QED BY <3>8, <3>9, <3>10, <3>11, <3>12 DEF CatalogInv
  <2> QED BY <2>2, <2>11, <2>12
<1>8. CASE \E m \in Models : Sy!Reconcile(s, m)
  <2>1. PICK m \in Models : Sy!Reconcile(s, m)
    BY <1>8
  <2> QED BY <1>7, <2>1
<1> QED BY <1>4, <1>5, <1>6, <1>8 DEF Sy!SyncStep

LEMMA EditSteps ==
  ASSUME CatalogInv, NEW o \in Operators, Sy!EditStep(o)
  PROVE  CatalogInv' /\ \A s \in Syncs : sync'[s].todo = sync[s].todo
<1>1. /\ row \in [Sy!Routes -> Sy!Rows \cup {None}] /\ served \subseteq Sy!Routes
      /\ sync \in [Syncs -> SyncType] /\ edit \in [Operators -> EditType]
      /\ \A s \in Syncs : Aimed(sync[s]) /\ Current(sync[s], row)
      /\ edit[o] \in EditType
  BY DEF CatalogInv, CatalogTypes
<1>2. Sy!NoEdit \in EditType
  BY DEF Sy!NoEdit, EditType
<1>3. ASSUME row' = row, sync' = sync, edit' \in [Operators -> EditType], served' \subseteq Sy!Routes
      PROVE  CatalogInv' /\ \A s \in Syncs : sync'[s].todo = sync[s].todo
  <2>1. CatalogTypes'
    BY <1>1, <1>3 DEF CatalogTypes
  <2>2. \A s \in Syncs : Aimed(sync[s])' /\ Current(sync[s], row)'
    BY <1>1, <1>3 DEF Aimed, Current
  <2> QED BY <1>3, <2>1, <2>2 DEF CatalogInv
<1>4. ASSUME NEW r \in Sy!Routes, NEW x \in Sy!Rows, row' = [row EXCEPT ![r] = x],
             sync' = Sy!Overtaken(r[1], r[2]),
             edit' \in [Operators -> EditType], served' = served
      PROVE  CatalogInv' /\ \A s \in Syncs : sync'[s].todo = sync[s].todo
  <2>1. \A s \in Syncs : LET e == Sy!Overtaken(r[1], r[2])[s]
          IN  /\ e \in SyncType /\ e.todo = sync[s].todo /\ Aimed(e) /\ Current(e, row')
    BY <1>4, Overtakes
  <2>2. Sy!Overtaken(r[1], r[2]) = [s \in Syncs |-> Sy!Overtaken(r[1], r[2])[s]]
    BY DEF Sy!Overtaken
  <2>3. sync' \in [Syncs -> SyncType]
    BY <1>4, <2>1, <2>2
  <2>4. \A s \in Syncs : Aimed(sync'[s]) /\ Current(sync'[s], row')
    BY <1>4, <2>1
  <2>5. \A s \in Syncs : Aimed(sync[s])' /\ Current(sync[s], row)'
    BY <2>4 DEF Aimed, Current
  <2>6. row' \in [Sy!Routes -> Sy!Rows \cup {None}]
    BY <1>1, <1>4
  <2>7. CatalogTypes'
    BY <1>1, <1>4, <2>3, <2>6 DEF CatalogTypes
  <2> QED BY <1>4, <2>1, <2>5, <2>7 DEF CatalogInv
\* The request goes on with the next route, or to the reload.
<1>5. ASSUME NEW r \in Sy!Routes, Sy!Flip(o, r) \/ Sy!Define(o, r)
      PROVE  edit' \in [Operators -> EditType]
  <2> DEFINE x == edit'[o].at
             d == edit[o].todo \ {r}
  <2>1. PICK y \in {"flip", "define", "reload"} :
          edit' = [edit EXCEPT ![o] = [edit[o] EXCEPT !.todo = d, !.at = y]]
    <3>1. CASE Sy!Flip(o, r)
      <4> DEFINE y == IF edit[o].todo = {r} THEN "reload" ELSE "flip"
      <4>1. edit' = [edit EXCEPT ![o] = [edit[o] EXCEPT !.todo = d, !.at = y]]
        BY <1>1, <3>1 DEF Sy!Flip
      <4> QED BY <4>1
    <3>2. CASE Sy!Define(o, r)
      <4> DEFINE y == IF edit[o].todo = {r} THEN "reload" ELSE "define"
      <4>1. edit' = [edit EXCEPT ![o] = [edit[o] EXCEPT !.todo = d, !.at = y]]
        BY <1>1, <3>2 DEF Sy!Define
      <4> QED BY <4>1
    <3> QED BY <1>5, <3>1, <3>2
  <2>2. d \in SUBSET Sy!Routes
    BY <1>1 DEF EditType
  <2> DEFINE e == [edit[o] EXCEPT !.todo = d, !.at = y]
  <2> HIDE DEF d
  <2>3. e \in EditType
    BY <1>1, <2>2 DEF EditType
  <2> HIDE DEF e
  <2>4. edit' = [edit EXCEPT ![o] = e]
    BY <2>1 DEF e
  <2> QED BY <1>1, <2>3, <2>4
<1>6. ASSUME NEW m \in Models, Sy!Patch(o, m)
      PROVE  edit' \in [Operators -> EditType]
  <2> DEFINE t == {r \in served : r[2] = m}
  <2>1. PICK b \in BOOLEAN :
          edit' = [edit EXCEPT ![o] = [at |-> "flip", model |-> m, enable |-> b,
                                         routes |-> t, todo |-> t]]
    BY <1>6 DEF Sy!Patch
  <2>2. t \in SUBSET Sy!Routes
    BY <1>1
  <2> HIDE DEF t
  <2>3. [at |-> "flip", model |-> m, enable |-> b, routes |-> t, todo |-> t] \in EditType
    BY <2>2 DEF EditType
  <2> QED BY <1>1, <2>1, <2>3
<1>7. CASE Sy!Refresh(o)
  <2>1. Configured \in SUBSET Sy!Routes
    BY ServiceAssumption
  <2>2. [Sy!NoEdit EXCEPT !.at = "define", !.routes = Configured, !.todo = Configured] \in EditType
    BY <1>2, <2>1 DEF EditType
  <2>3. edit' \in [Operators -> EditType]
    BY <1>1, <1>7, <2>2 DEF Sy!Refresh
  <2> QED BY <1>1, <1>3, <1>7, <2>3 DEF Sy!Refresh
<1>8. CASE Sy!EditFails(o) \/ Sy!EditEnds(o)
  <2>1. edit' \in [Operators -> EditType]
    BY <1>1, <1>2, <1>8 DEF Sy!EditFails, Sy!EditEnds
  <2>2. served' \subseteq Sy!Routes
    BY <1>1, <1>8 DEF Sy!EditFails, Sy!EditEnds, Sy!Publish, Sy!Catalog
  <2> QED BY <1>3, <1>8, <2>1, <2>2 DEF Sy!EditFails, Sy!EditEnds
<1>9. CASE \E m \in Models : Sy!Patch(o, m)
  <2>1. PICK m \in Models : Sy!Patch(o, m)
    BY <1>9
  <2>2. row' = row /\ sync' = sync /\ served' = served
    BY <2>1 DEF Sy!Patch
  <2> QED BY <1>1, <1>3, <1>6, <2>1, <2>2
<1>10. CASE \E r \in Sy!Routes : Sy!Flip(o, r) \/ Sy!Define(o, r)
  <2>1. PICK r \in Sy!Routes : Sy!Flip(o, r) \/ Sy!Define(o, r)
    BY <1>10
  <2>2. edit' \in [Operators -> EditType] /\ served' = served
    BY <1>5, <2>1 DEF Sy!Flip, Sy!Define
  <2>3. CASE Sy!Define(o, r)
    <3> DEFINE b == r \in Reasons
               x == [source |-> "definition", enabled |-> TRUE, reasons |-> b]
    <3>1. x \in Sy!Rows
      BY DEF Sy!Rows
    <3>2. row' = [row EXCEPT ![r] = x] /\ sync' = Sy!Overtaken(r[1], r[2])
      BY <2>3 DEF Sy!Define
    <3> HIDE DEF x
    <3> QED BY <1>4, <2>2, <3>1, <3>2
  <2>4. CASE Sy!Flip(o, r)
    <3>1. CASE row[r] = None
      <4>1. row' = row /\ sync' = sync
        BY <2>4, <3>1 DEF Sy!Flip
      <4> QED BY <1>1, <1>3, <2>2, <4>1
    <3>2. CASE row[r] # None
      <4> DEFINE b == edit[o].enable
                 x == [row[r] EXCEPT !.enabled = b]
      <4>1. row[r] \in Sy!Rows /\ b \in BOOLEAN
        BY <1>1, <3>2 DEF EditType
      <4>2. row' = [row EXCEPT ![r] = x] /\ sync' = Sy!Overtaken(r[1], r[2])
        BY <2>4, <3>2 DEF Sy!Flip
      <4> HIDE DEF b
      <4>3. x \in Sy!Rows
        BY <4>1 DEF Sy!Rows
      <4> HIDE DEF x
      <4> QED BY <1>4, <2>2, <4>2, <4>3
    <3> QED BY <3>1, <3>2
  <2> QED BY <2>1, <2>3, <2>4
<1> QED BY <1>7, <1>8, <1>9, <1>10 DEF Sy!EditStep

LEMMA CatalogAlways == Spec => []CatalogInv
<1>1. Sy!Init => CatalogInv
  <2> SUFFICES ASSUME Sy!Init PROVE CatalogInv
    OBVIOUS
  <2>1. Sy!NoSync \in SyncType /\ Sy!NoSync.at = "idle" /\ Sy!NoEdit \in EditType
    BY DEF Sy!NoSync, SyncType, Sy!NoEdit, EditType
  <2>2. /\ row = [r \in Sy!Routes |-> None] /\ served = Configured
        /\ sync = [s \in Syncs |-> Sy!NoSync] /\ edit = [o \in Operators |-> Sy!NoEdit]
    BY DEF Sy!Init
  <2>3. Configured \in SUBSET Sy!Routes
    BY ServiceAssumption
  <2>4. CatalogTypes
    BY <2>1, <2>2, <2>3 DEF CatalogTypes
  <2>5. \A s \in Syncs : Aimed(sync[s]) /\ Current(sync[s], row)
    BY <2>1, <2>2 DEF Aimed, Current
  <2> QED BY <2>4, <2>5 DEF CatalogInv
<1>2. ASSUME CatalogInv, [Sy!Next]_(Sy!vars) PROVE CatalogInv'
  <2>1. CASE \E s \in Syncs : Sy!SyncStep(s)
    BY <1>2, <2>1, SyncSteps
  <2>2. CASE \E o \in Operators : Sy!EditStep(o)
    BY <1>2, <2>2, EditSteps
  <2>3. CASE UNCHANGED Sy!vars
    <3>1. row' = row /\ served' = served /\ sync' = sync /\ edit' = edit
      BY <2>3 DEF Sy!vars
    <3> QED BY <1>2, <3>1 DEF CatalogInv, CatalogTypes, Aimed, Current
  <2> QED BY <1>2, <2>1, <2>2, <2>3 DEF Sy!Next
<1> QED BY <1>1, <1>2, ServicesAreIndependent, PTL DEF Sy!Spec

\* reconcileModels: what it does to the rows it finds, for any number of
\* synchronizations and operators at the same time.
THEOREM SyncKeepsRows == Spec => SyncRespectsRows
<1>1. ASSUME CatalogInv, Sy!Next, NEW s \in Syncs, sync[s].at = "write", sync'[s].at # "idle",
             NEW m \in sync[s].todo \ (sync'[s].todo \cup sync[s].stale)
      PROVE  Kept(row[<<sync[s].provider, m>>], row'[<<sync[s].provider, m>>])
  <2>1. PICK o \in Syncs : Sy!SyncStep(o)
    BY <1>1, EditSteps DEF Sy!Next
  <2>2. o = s
    BY <1>1, <2>1, SyncSteps
  <2> QED BY <1>1, <2>1, <2>2, SyncSteps
<1>2. ASSUME CatalogInv, [Sy!Next]_(Sy!vars)
      PROVE  [\A s \in Syncs : \A m \in sync[s].todo \ (sync'[s].todo \cup sync[s].stale) :
               LET was == row[sync[s].provider, m]
                   is == row'[sync[s].provider, m]
               IN sync[s].at = "write" /\ sync'[s].at # "idle" /\ was # None =>
                    /\ is # None
                    /\ was.source = "definition" => is = was
                    /\ was.reasons => is.reasons
                    /\ ~ was.enabled => ~ is.enabled]_(Sy!vars)
  <2> SUFFICES ASSUME Sy!Next, NEW s \in Syncs, sync[s].at = "write", sync'[s].at # "idle",
                      NEW m \in sync[s].todo \ (sync'[s].todo \cup sync[s].stale)
               PROVE  LET was == row[sync[s].provider, m]
                          is == row'[sync[s].provider, m]
                      IN was # None =>
                           /\ is # None
                           /\ was.source = "definition" => is = was
                           /\ was.reasons => is.reasons
                           /\ ~ was.enabled => ~ is.enabled
    BY <1>2
  <2> QED BY <1>1, <1>2 DEF Kept
<1> QED BY <1>2, CatalogAlways, ServicesAreIndependent, PTL
        DEF SyncRespectsRows, Sy!SyncRespectsRows, Sy!Spec

-----------------------------------------------------------------------------
(* Browser sign-in.                                                        *)

CallType ==
  [at : {"idle", "ask", "find", "write", "look", "row", "complete", "verify"},
   for : Flows \cup {None}, who : Fl!Identity, asked : Fl!Accounts \cup {Fl!New},
   to : Fl!Accounts \cup {Fl!New}, as : Fl!Identity, late : BOOLEAN]

FlowType ==
  [status : {"absent", "pending", "success", "failed", "dropped"},
   requested : Fl!Accounts \cup {Fl!New}]

\* Types, and where a call stands: it asks for a flow, writes to an account, and is
\* for no flow before and after.
FlowTypes ==
  /\ flow \in [Flows -> FlowType] /\ signedIn \in [Flows -> Fl!Identity \cup {None}]
  /\ account \in [Fl!Accounts -> Fl!Identity \cup {None}]
  /\ console \in [Polls -> CallType] /\ imports \in [Flows -> Nat]
  /\ \A c \in Polls : /\ console[c].at = "ask" => console[c].for \in Flows
                      /\ console[c].at = "write" => console[c].to \in Fl!Accounts
                      /\ console[c].at \in {"idle", "verify"} => console[c].for = None

\* Whoever is not excepted has at most one account, at most one import is writing it,
\* and that import writes the account that there is.
WritesAs(c, u) == console[c].at = "write" /\ console[c].as = u

OneAccount(u) ==
  /\ \A a, b \in Fl!Accounts : account[a] = u /\ account[b] = u => a = b
  /\ \A c, d \in Polls : WritesAs(c, u) /\ WritesAs(d, u) => c = d
  /\ \A c \in Polls, a \in Fl!Accounts :
       WritesAs(c, u) /\ account[a] = u => console[c].to = a

IdentityInv == \A u \in Users \ Fl!Excepted : OneAccount(u)

\* A flow with one poll at a time: what asks and what writes is the first to import,
\* and what has imported is under way until the flow is over.
Over == {"success", "failed", "dropped"}
Imported(c, f) == console[c].for = f /\ console[c].at \in {"look", "row", "complete"}

OneImport ==
  \A f \in Flows \ doubled :
    /\ imports[f] <= 1
    /\ \A c, d \in Polls : console[c].for = f /\ console[d].for = f => c = d
    /\ \A c \in Polls : console[c].for = f /\ console[c].at \in {"ask", "find", "write"}
                          => imports[f] = 0
    /\ imports[f] >= 1 => flow[f].status \in Over \/ \E c \in Polls : Imported(c, f)

FlowInv == FlowTypes /\ IdentityInv /\ OneImport

\* What a step does to the flows, and to a call.
Onward ==
  /\ flow' \in [Flows -> FlowType]
  /\ \A f \in Flows : flow[f].status \in Over => flow'[f].status \in Over

Alike(o) ==
  /\ console'[o].at = console[o].at /\ console'[o].for = console[o].for
  /\ console'[o].to = console[o].to /\ console'[o].as = console[o].as

Rests ==
  /\ \A o \in Polls : Alike(o)
  /\ UNCHANGED <<account, imports, doubled, Fl!Excepted>>

Turns(c, e) ==
  e \in CallType /\ console'[c] = e /\ \A o \in Polls \ {c} : Alike(o)

Asks(c, e) ==
  /\ console[c].at = "idle" /\ e.at = "ask"
  /\ \E f \in Flows :
       /\ flow[f].status = "pending" /\ e.for = f
       /\ doubled \subseteq doubled'
       /\ f \notin doubled' => \A d \in Polls : console[d].for # f
  /\ UNCHANGED <<account, imports, Fl!Excepted>>

Moves(c, e) ==
  /\ e.for = console[c].for
  /\ \/ console[c].at = "ask" /\ e.at = "find"
     \/ console[c].at \in {"look", "row"} /\ e.at \in {"row", "complete"}
  /\ UNCHANGED <<account, imports, doubled, Fl!Excepted>>

Finds(c, e) ==
  /\ console[c].at = "find" /\ e.at = "write" /\ e.for = console[c].for
  /\ e.to \in Fl!Accounts /\ Fl!Excepted \subseteq Fl!Excepted'
  /\ \A u \in Users \ Fl!Excepted' : e.as = u =>
       /\ \A d \in Polls \ {c} : ~ (console[d].at = "write" /\ console[d].as = u)
       /\ \A a \in Fl!Accounts : account[a] = u => account[e.to] = u
  /\ UNCHANGED <<account, imports, doubled>>

Writes(c, e) ==
  /\ console[c].at = "write" /\ e.at = "look" /\ e.for = console[c].for
  /\ account' = [account EXCEPT ![console[c].to] = console[c].as]
  /\ imports' \in [Flows -> Nat]
  /\ \A f \in Flows : imports'[f] = imports[f] + (IF console[c].for = f THEN 1 ELSE 0)
  /\ UNCHANGED <<doubled, Fl!Excepted>>

Ends(c, e) ==
  /\ e.for = None /\ e.at \in {"idle", "verify", "find"}
  /\ \A f \in Flows : console[c].for = f => flow'[f].status \in Over \/ console[c].at = "ask"
  /\ UNCHANGED <<account, imports, doubled, Fl!Excepted>>

FlowStep ==
  /\ Onward /\ signedIn' \in [Flows -> Fl!Identity \cup {None}]
  /\ console' \in [Polls -> CallType]
  /\ \/ Rests
     \/ \E c \in Polls : \E e \in CallType :
          Turns(c, e) /\ (Asks(c, e) \/ Moves(c, e) \/ Finds(c, e) \/ Writes(c, e) \/ Ends(c, e))

LEMMA NamesOfFlows ==
  /\ Fl!New \notin Fl!Accounts /\ None \notin Flows
  /\ Opaque \in Fl!Identity /\ Users \subseteq Fl!Identity
  /\ None \notin Users /\ Opaque \notin Users
BY ServiceAssumption DEF Fl!New, Fl!Accounts, Fl!Identity

LEMMA NoCallType ==
  Fl!NoCall \in CallType /\ Fl!NoCall.at = "idle" /\ Fl!NoCall.for = None
BY NamesOfFlows DEF Fl!NoCall, CallType

LEMMA StillOnward ==
  ASSUME FlowTypes, flow' = flow
  PROVE  Onward
BY DEF FlowTypes, Onward

LEMMA CompletesOnward ==
  ASSUME FlowTypes, NEW f \in Flows \cup {None}, NEW result \in {"success", "failed"},
         Fl!Completed(f, result)
  PROVE  Onward /\ (f \in Flows => flow'[f].status \in Over)
<1>1. flow \in [Flows -> FlowType] /\ None \notin Flows
  BY NamesOfFlows DEF FlowTypes
<1>2. CASE f = None
  BY <1>1, <1>2 DEF Fl!Completed, Onward
<1>3. CASE f \in Flows /\ flow[f].status = "dropped"
  BY <1>1, <1>3 DEF Fl!Completed, Onward, Over
<1>4. CASE f \in Flows /\ flow[f].status # "dropped"
  <2> DEFINE e == [flow[f] EXCEPT !.status = result]
  <2>1. e \in FlowType /\ e.status = result
    BY <1>1, <1>4 DEF FlowType
  <2>2. flow' = [flow EXCEPT ![f] = e]
    BY <1>1, <1>4 DEF Fl!Completed
  <2> HIDE DEF e
  <2> QED BY <1>1, <1>4, <2>1, <2>2 DEF Onward, Over
<1> QED BY <1>2, <1>3, <1>4

\* A step that turns one call and no other.
LEMMA OneTurns ==
  ASSUME FlowTypes, NEW c \in Polls, NEW e \in CallType, console' = [console EXCEPT ![c] = e]
  PROVE  Turns(c, e) /\ console' \in [Polls -> CallType]
BY DEF FlowTypes, Turns, Alike

LEMMA VerifiedIsAlike ==
  ASSUME FlowTypes, NEW a, NEW d \in Polls
  PROVE  LET v == Fl!Verified(a)[d]
         IN  /\ v \in CallType /\ v.at = console[d].at /\ v.for = console[d].for
             /\ v.to = console[d].to /\ v.as = console[d].as
<1> DEFINE b == console[d]
           v == [b EXCEPT !.late = TRUE]
<1>1. b \in CallType
  BY DEF FlowTypes
<1>2. /\ v \in CallType /\ v.at = b.at /\ v.for = b.for /\ v.to = b.to /\ v.as = b.as
  <2> HIDE DEF b
  <2> QED BY <1>1 DEF CallType
<1>3. Fl!Verified(a)[d] = v \/ Fl!Verified(a)[d] = b
  BY DEF Fl!Verified
<1> HIDE DEF v
<1> QED BY <1>1, <1>2, <1>3

\* UpsertImportedAccount: the account that a call finds is the only one that its
\* user has, or may become it.
LEMMA FindsItsAccount ==
  ASSUME FlowTypes, NEW c \in Polls, Fl!Find(c)
  PROVE  \E e \in CallType : Turns(c, e) /\ Finds(c, e) /\ console' \in [Polls -> CallType]
<1> DEFINE b == console[c]
           u == Fl!IdentityFor(c)
<1>1. /\ b \in CallType /\ b.asked \in Fl!Accounts \cup {Fl!New} /\ b.who \in Fl!Identity
      /\ b.for \in Flows \cup {None}
      /\ account \in [Fl!Accounts -> Fl!Identity \cup {None}]
  BY DEF FlowTypes, CallType
<1>2. u \in Fl!Identity /\ (b.asked = Fl!New => u = b.who)
  BY <1>1 DEF Fl!IdentityFor
<1>3. PICK a \in Fl!Targets(c) :
        console' = [console EXCEPT ![c] =
          [Fl!NoCall EXCEPT !.at = "write", !.for = b.for, !.to = a, !.as = u]]
  BY DEF Fl!Find, Fl!Writing
<1>4. Fl!Unused(c) # {} => Fl!Fresh(c) \in Fl!Accounts
  BY DEF Fl!Fresh, Fl!Unused
<1>5. a \in Fl!Accounts
  BY <1>1, <1>4 DEF Fl!Targets, Fl!Anew
<1>6. /\ excused' = IF u # Opaque /\ (b.asked # Fl!New \/ Fl!Importing(u, c))
                    THEN excused \cup {u} ELSE excused
      /\ b.at = "find" /\ UNCHANGED <<account, imports, doubled, unfound>>
  BY DEF Fl!Find, Fl!Excuses, Fl!At, Fl!rows
<1> HIDE DEF u
<1> DEFINE f == b.for
           e == [Fl!NoCall EXCEPT !.at = "write", !.for = f, !.to = a, !.as = u]
<1>7. e \in CallType /\ e.at = "write" /\ e.for = b.for /\ e.to = a /\ e.as = u
  <2>1. f \in Flows \cup {None}
    BY <1>1
  <2> HIDE DEF f
  <2>2. e \in CallType /\ e.at = "write" /\ e.for = f /\ e.to = a /\ e.as = u
    BY <1>2, <1>5, <2>1, NoCallType DEF CallType
  <2> QED BY <2>2 DEF f
<1>8. console' = [console EXCEPT ![c] = e]
  BY <1>3
<1> HIDE DEF e
<1>9. ASSUME NEW w \in Users \ Fl!Excepted', e.as = w
      PROVE  /\ \A d \in Polls \ {c} : ~ (console[d].at = "write" /\ console[d].as = w)
             /\ \A k \in Fl!Accounts : account[k] = w => account[e.to] = w
  <2>1. w = u /\ u # Opaque
    BY <1>7, <1>9, NamesOfFlows
  <2>2. b.asked = Fl!New /\ ~ Fl!Importing(u, c)
    BY <1>6, <1>9, <2>1 DEF Fl!Excepted
  <2>3. \A d \in Polls : console[d].at = "write" => console[d].to # Fl!New
    BY NamesOfFlows DEF FlowTypes
  <2>4. \A d \in Polls \ {c} : ~ (console[d].at = "write" /\ console[d].as = w)
    BY <2>1, <2>2, <2>3 DEF Fl!Importing
  <2>5. ASSUME NEW k \in Fl!Accounts, account[k] = w PROVE account[a] = w
    <3>1. b.who = w
      BY <1>2, <2>1, <2>2
    <3>2. Fl!Targets(c) = {i \in Fl!Accounts : w # Opaque /\ account[i] = w}
      BY <2>1, <2>2, <2>5, <3>1 DEF Fl!Targets
    <3> QED BY <3>2
  <2> QED BY <1>7, <2>4, <2>5
<1>10. Finds(c, e)
  <2>1. Fl!Excepted \subseteq Fl!Excepted'
    BY <1>6 DEF Fl!Excepted
  <2> QED BY <1>5, <1>6, <1>7, <1>9, <2>1 DEF Finds
<1> QED BY <1>7, <1>8, <1>10, OneTurns

\* The identity of an import that could not look at the accounts is excepted.
LEMMA FindsAnew ==
  ASSUME FlowTypes, NEW c \in Polls, Fl!FindsNothing(c)
  PROVE  \E e \in CallType : Turns(c, e) /\ Finds(c, e) /\ console' \in [Polls -> CallType]
<1> DEFINE b == console[c]
           u == b.who
           f == b.for
<1>1. /\ b.asked \in Fl!Accounts \cup {Fl!New} /\ u \in Fl!Identity /\ f \in Flows \cup {None}
  BY DEF FlowTypes, CallType
<1>2. PICK a \in Fl!Anew(c) :
        console' = [console EXCEPT ![c] =
          [Fl!NoCall EXCEPT !.at = "write", !.for = f, !.to = a, !.as = u]]
  BY DEF Fl!FindsNothing, Fl!Writing
<1>3. a \in Fl!Accounts
  <2>1. Fl!Unused(c) # {} => Fl!Fresh(c) \in Fl!Accounts
    BY DEF Fl!Fresh, Fl!Unused
  <2> QED BY <1>1, <2>1 DEF Fl!Anew
<1>4. /\ excused \subseteq excused' /\ b.at = "find" /\ UNCHANGED <<account, imports, doubled>>
      /\ unfound' = IF u # Opaque THEN unfound \cup {u} ELSE unfound
  BY DEF Fl!FindsNothing, Fl!Excuses, Fl!At, Fl!rows
<1>5. Fl!Excepted \subseteq Fl!Excepted' /\ (u # Opaque => u \in Fl!Excepted')
  BY <1>4 DEF Fl!Excepted
<1> DEFINE e == [Fl!NoCall EXCEPT !.at = "write", !.for = f, !.to = a, !.as = u]
<1>6. console' = [console EXCEPT ![c] = e]
  BY <1>2
<1> HIDE DEF b, u, f
<1>7. e \in CallType /\ e.at = "write" /\ e.for = f /\ e.to = a /\ e.as = u
  BY <1>1, <1>3, NoCallType DEF CallType
<1> HIDE DEF e
<1>8. \A w \in Users \ Fl!Excepted' : e.as # w
  BY <1>5, <1>7, NamesOfFlows
<1>9. Finds(c, e)
  BY <1>3, <1>4, <1>5, <1>7, <1>8 DEF Finds, b, f
<1> QED BY <1>6, <1>7, <1>9, OneTurns

LEMMA CallSteps ==
  ASSUME FlowTypes, NEW c \in Polls, Fl!CallStep(c)
  PROVE  FlowStep
<1> DEFINE b == console[c]
<1>1. /\ b \in CallType /\ b.for \in Flows \cup {None} /\ console \in [Polls -> CallType]
      /\ account \in [Fl!Accounts -> Fl!Identity \cup {None}]
      /\ signedIn \in [Flows -> Fl!Identity \cup {None}]
      /\ flow \in [Flows -> FlowType] /\ imports \in [Flows -> Nat]
      /\ b.at = "ask" => b.for \in Flows
      /\ b.at = "write" => b.to \in Fl!Accounts
      /\ b.at \in {"idle", "verify"} => b.for = None
  BY DEF FlowTypes, CallType
\* What is left to show of a step that turns this call.
<1>2. ASSUME Onward, signedIn' = signedIn, NEW e \in CallType, console' = [console EXCEPT ![c] = e],
             Asks(c, e) \/ Moves(c, e) \/ Writes(c, e) \/ Ends(c, e)
      PROVE  FlowStep
  <2>1. Turns(c, e) /\ console' \in [Polls -> CallType]
    BY <1>2, OneTurns
  <2> QED BY <1>1, <1>2, <2>1 DEF FlowStep
<1>3. ASSUME NEW f \in Flows, Fl!Poll(c, f) PROVE FlowStep
  <2>1. CASE f \in overdue
    <3> DEFINE e == [flow[f] EXCEPT !.status = "dropped"]
    <3>1. e \in FlowType /\ e.status = "dropped"
      BY <1>1 DEF FlowType
    <3>2. flow' = [flow EXCEPT ![f] = e]
      BY <1>1, <1>3, <2>1 DEF Fl!Poll
    <3> HIDE DEF e
    <3>3. Onward
      BY <1>1, <3>1, <3>2 DEF Onward, Over
    <3>4. UNCHANGED <<signedIn, account, imports, doubled, Fl!Excepted, console>>
      BY <1>3, <2>1 DEF Fl!Poll, Fl!rows, Fl!Excepted
    <3>5. Rests
      BY <3>4 DEF Rests, Alike
    <3> QED BY <1>1, <3>3, <3>4, <3>5 DEF FlowStep
  <2>2. CASE f \notin overdue
    <3> DEFINE a == flow[f].requested
               e == [Fl!NoCall EXCEPT !.at = "ask", !.for = f, !.asked = a]
    <3>1. a \in Fl!Accounts \cup {Fl!New}
      BY <1>1 DEF FlowType
    <3>2. console' = [console EXCEPT ![c] = e]
      BY <1>3, <2>2 DEF Fl!Poll
    <3> HIDE DEF a
    <3>3. e \in CallType /\ e.at = "ask" /\ e.for = f
      BY <3>1, NoCallType DEF CallType
    <3> HIDE DEF e
    <3>4. /\ flow[f].status = "pending" /\ b.at = "idle" /\ flow' = flow
          /\ UNCHANGED <<signedIn, account, imports, Fl!Excepted>>
      BY <1>3, <2>2 DEF Fl!Poll, Fl!At, Fl!rows, Fl!Excepted
    <3>5. doubled' = IF \E d \in Polls : console[d].for = f THEN doubled \cup {f} ELSE doubled
      BY <1>3, <2>2 DEF Fl!Poll
    <3>6. doubled \subseteq doubled' /\ (f \notin doubled' => \A d \in Polls : console[d].for # f)
      BY <3>5
    <3>7. Asks(c, e)
      BY <3>3, <3>4, <3>6 DEF Asks
    <3> QED BY <1>2, <3>2, <3>3, <3>4, <3>7, StillOnward
  <2> QED BY <2>1, <2>2
<1>4. CASE Fl!StillPending(c)
  <2>1. /\ b.at = "ask" /\ console' = [console EXCEPT ![c] = Fl!NoCall] /\ flow' = flow
        /\ UNCHANGED <<signedIn, account, imports, doubled, Fl!Excepted>>
    BY <1>4 DEF Fl!StillPending, Fl!At, Fl!flowData, Fl!rows, Fl!history, Fl!Excepted
  <2>2. Ends(c, Fl!NoCall)
    BY <2>1, NoCallType DEF Ends
  <2> QED BY <1>2, <2>1, <2>2, NoCallType, StillOnward
<1>5. CASE Fl!AskFails(c) \/ Fl!ImportFails(c)
  <2>1. /\ console' = [console EXCEPT ![c] = Fl!NoCall] /\ Fl!Completed(b.for, "failed")
        /\ UNCHANGED <<signedIn, account, imports, doubled, Fl!Excepted>>
    BY <1>5 DEF Fl!AskFails, Fl!ImportFails, Fl!rows, Fl!history, Fl!Excepted
  <2>2. Onward /\ (b.for \in Flows => flow'[b.for].status \in Over)
    BY <1>1, <2>1, CompletesOnward
  <2>3. Ends(c, Fl!NoCall)
    BY <2>1, <2>2, NoCallType DEF Ends
  <2> QED BY <1>2, <2>1, <2>2, <2>3, NoCallType
<1>6. CASE Fl!SignedIn(c)
  <2> DEFINE w == signedIn[b.for]
             e == [b EXCEPT !.at = "find", !.who = w]
  <2>1. /\ b.at = "ask" /\ w # None /\ console' = [console EXCEPT ![c] = e] /\ flow' = flow
        /\ UNCHANGED <<signedIn, account, imports, doubled, Fl!Excepted>>
    BY <1>6 DEF Fl!SignedIn, Fl!At, Fl!flowData, Fl!rows, Fl!history, Fl!Excepted
  <2>2. w \in Fl!Identity
    BY <1>1, <2>1
  <2> HIDE DEF w, b
  <2>3. e \in CallType /\ e.at = "find" /\ e.for = b.for
    BY <1>1, <2>2 DEF CallType
  <2> HIDE DEF e
  <2>4. Moves(c, e)
    BY <2>1, <2>3 DEF Moves, b
  <2> QED BY <1>2, <2>1, <2>3, <2>4, StillOnward
<1>7. CASE Fl!Manual(c)
  <2>0. PICK u \in Fl!Identity : \E a \in Fl!Existing \cup {Fl!New} :
          console' = [console EXCEPT ![c] = [Fl!NoCall EXCEPT !.at = "find", !.who = u, !.asked = a]]
    BY <1>7 DEF Fl!Manual
  <2>1. PICK a \in Fl!Existing \cup {Fl!New} :
          console' = [console EXCEPT ![c] = [Fl!NoCall EXCEPT !.at = "find", !.who = u, !.asked = a]]
    BY <2>0
  <2>2. a \in Fl!Accounts \cup {Fl!New}
    BY DEF Fl!Existing
  <2> DEFINE e == [Fl!NoCall EXCEPT !.at = "find", !.who = u, !.asked = a]
  <2>3. e \in CallType /\ e.at = "find" /\ e.for = None
    BY <2>2, NoCallType DEF CallType
  <2>4. console' = [console EXCEPT ![c] = e]
    BY <2>1
  <2> HIDE DEF e
  <2>5. b.at = "idle" /\ flow' = flow /\ UNCHANGED <<signedIn, account, imports, doubled, Fl!Excepted>>
    BY <1>7 DEF Fl!Manual, Fl!At, Fl!flowData, Fl!rows, Fl!Excepted
  <2>6. Ends(c, e)
    BY <1>1, <2>3, <2>5, NamesOfFlows DEF Ends
  <2> QED BY <1>2, <2>3, <2>4, <2>5, <2>6, StillOnward
<1>8. CASE Fl!Find(c) \/ Fl!FindsNothing(c)
  <2>1. PICK e \in CallType : Turns(c, e) /\ Finds(c, e) /\ console' \in [Polls -> CallType]
    BY <1>8, FindsItsAccount, FindsAnew
  <2>2. flow' = flow /\ signedIn' = signedIn
    BY <1>8 DEF Fl!Find, Fl!FindsNothing, Fl!flowData
  <2> QED BY <1>1, <2>1, <2>2, StillOnward DEF FlowStep
<1>9. CASE Fl!WriteAccount(c)
  <2> DEFINE e == [b EXCEPT !.at = "look", !.as = Opaque]
  <2>1. /\ b.at = "write" /\ console' = [console EXCEPT ![c] = e] /\ flow' = flow
        /\ account' = [account EXCEPT ![b.to] = b.as]
        /\ UNCHANGED <<signedIn, doubled, Fl!Excepted>>
    BY <1>1, <1>9 DEF Fl!WriteAccount, Fl!At, Fl!flowData, Fl!Excepted
  <2>2. imports' = IF b.for = None THEN imports ELSE [imports EXCEPT ![b.for] = @ + 1]
    BY <1>9 DEF Fl!WriteAccount
  <2> HIDE DEF b
  <2>3. e \in CallType /\ e.at = "look" /\ e.for = b.for
    BY <1>1, NamesOfFlows DEF CallType
  <2> HIDE DEF e
  <2>4. /\ imports' \in [Flows -> Nat]
        /\ \A f \in Flows : imports'[f] = imports[f] + (IF b.for = f THEN 1 ELSE 0)
    <3>1. CASE b.for = None
      BY <1>1, <2>2, <3>1, NamesOfFlows
    <3>2. CASE b.for \in Flows
      BY <1>1, <2>2, <3>2, NamesOfFlows
    <3> QED BY <1>1, <3>1, <3>2
  <2>5. Writes(c, e)
    BY <2>1, <2>3, <2>4 DEF Writes, b
  <2> QED BY <1>2, <2>1, <2>3, <2>5, StillOnward
<1>10. CASE Fl!Look(c) \/ Fl!AddRow(c)
  <2>1. PICK x \in {"row", "complete"}, v \in BOOLEAN :
          console' = [console EXCEPT ![c] = [b EXCEPT !.at = x, !.late = v]]
    <3>1. CASE Fl!Look(c)
      <4> DEFINE x == IF checkin[b.to] = "absent" THEN "row" ELSE "complete"
                 v == b.late
      <4>1. console' = [console EXCEPT ![c] = [b EXCEPT !.at = x]]
        BY <1>1, <3>1 DEF Fl!Look, Fl!Goto
      <4>2. x \in {"row", "complete"} /\ v \in BOOLEAN
        BY <1>1 DEF CallType
      <4> HIDE DEF x
      <4>3. [b EXCEPT !.at = x] = [b EXCEPT !.at = x, !.late = v]
        BY <1>1 DEF CallType
      <4> QED BY <4>1, <4>2, <4>3
    <3>2. CASE Fl!AddRow(c)
      BY <1>1, <3>2 DEF Fl!AddRow
    <3> QED BY <1>10, <3>1, <3>2
  <2>2. /\ b.at \in {"look", "row"} /\ flow' = flow
        /\ UNCHANGED <<signedIn, account, imports, doubled, Fl!Excepted>>
    BY <1>10 DEF Fl!Look, Fl!AddRow, Fl!At, Fl!flowData, Fl!rows, Fl!history, Fl!Excepted
  <2> DEFINE e == [b EXCEPT !.at = x, !.late = v]
  <2> HIDE DEF b
  <2>3. e \in CallType /\ e.at = x /\ e.for = b.for
    BY <1>1 DEF CallType
  <2>4. console' = [console EXCEPT ![c] = e]
    BY <2>1
  <2> HIDE DEF e
  <2>5. Moves(c, e)
    BY <2>2, <2>3 DEF Moves, b
  <2> QED BY <1>2, <2>2, <2>3, <2>4, <2>5, StillOnward
<1>11. CASE Fl!Complete(c)
  <2> DEFINE e == [b EXCEPT !.at = "verify", !.for = None]
  <2>1. /\ console' = [console EXCEPT ![c] = e] /\ Fl!Completed(b.for, "success")
        /\ UNCHANGED <<signedIn, account, imports, doubled, Fl!Excepted>>
    BY <1>1, <1>11 DEF Fl!Complete, Fl!rows, Fl!history, Fl!Excepted
  <2>2. Onward /\ (b.for \in Flows => flow'[b.for].status \in Over)
    BY <1>1, <2>1, CompletesOnward
  <2> HIDE DEF b
  <2>3. e \in CallType /\ e.at = "verify" /\ e.for = None
    BY <1>1 DEF CallType
  <2> HIDE DEF e
  <2>4. Ends(c, e)
    BY <2>1, <2>2, <2>3 DEF Ends, b
  <2> QED BY <1>2, <2>1, <2>2, <2>3, <2>4
<1>12. CASE Fl!AutoVerify(c)
  <2> DEFINE v == Fl!Verified(b.to)
  <2>1. /\ b.at = "verify" /\ flow' = flow
        /\ UNCHANGED <<signedIn, account, imports, doubled, Fl!Excepted>>
    BY <1>12 DEF Fl!AutoVerify, Fl!At, Fl!flowData, Fl!history, Fl!Excepted
  <2>2. Ends(c, Fl!NoCall)
    BY <1>1, <2>1, NoCallType, NamesOfFlows DEF Ends
  <2>3. CASE console' = [console EXCEPT ![c] = Fl!NoCall]
    BY <1>2, <2>1, <2>2, <2>3, NoCallType, StillOnward
  <2>4. CASE console' = [v EXCEPT ![c] = Fl!NoCall]
    <3>1. v = [d \in Polls |-> v[d]]
      BY DEF Fl!Verified
    <3> HIDE DEF v
    <3>2. \A d \in Polls : /\ v[d] \in CallType /\ v[d].at = console[d].at
                           /\ v[d].for = console[d].for /\ v[d].to = console[d].to
                           /\ v[d].as = console[d].as
      BY VerifiedIsAlike DEF v
    <3>3. console' \in [Polls -> CallType]
      BY <2>4, <3>1, <3>2, NoCallType
    <3>4. console'[c] = Fl!NoCall /\ \A d \in Polls \ {c} : console'[d] = v[d]
      BY <2>4, <3>1
    <3>5. Turns(c, Fl!NoCall)
      BY <3>2, <3>4, NoCallType DEF Turns, Alike
    <3> QED BY <1>1, <2>1, <2>2, <3>3, <3>5, NoCallType, StillOnward DEF FlowStep
  <2> QED BY <1>12, <2>3, <2>4 DEF Fl!AutoVerify
<1>13. CASE \E f \in Flows : Fl!Poll(c, f)
  BY <1>3, <1>13
<1> QED BY <1>4, <1>5, <1>6, <1>7, <1>8, <1>9, <1>10, <1>11, <1>12, <1>13 DEF Fl!CallStep

LEMMA FlowSteps ==
  ASSUME FlowTypes, Fl!Next
  PROVE  FlowStep
<1>1. /\ console \in [Polls -> CallType]
      /\ account \in [Fl!Accounts -> Fl!Identity \cup {None}]
      /\ signedIn \in [Flows -> Fl!Identity \cup {None}] /\ flow \in [Flows -> FlowType]
  BY DEF FlowTypes
<1>2. CASE \E c \in Polls : Fl!CallStep(c)
  BY <1>2, CallSteps
<1>3. ASSUME NEW f \in Flows, Fl!Start(f) PROVE FlowStep
  <2>1. PICK a \in Fl!Existing \cup {Fl!New} :
          flow' = [g \in Flows |->
            IF g = f THEN [status |-> "pending", requested |-> a]
            ELSE IF g \in overdue THEN [flow[g] EXCEPT !.status = "dropped"] ELSE flow[g]]
    BY <1>3 DEF Fl!Start
  <2>2. a \in Fl!Accounts \cup {Fl!New}
    BY DEF Fl!Existing
  <2>3. flow[f].status = "absent"
    BY <1>3 DEF Fl!Start
  <2>4. \A g \in Flows : /\ [flow[g] EXCEPT !.status = "dropped"] \in FlowType
                         /\ [flow[g] EXCEPT !.status = "dropped"].status = "dropped"
    BY <1>1 DEF FlowType
  <2>5. [status |-> "pending", requested |-> a] \in FlowType
    BY <2>2 DEF FlowType
  <2>6. flow' \in [Flows -> FlowType]
    BY <1>1, <2>1, <2>4, <2>5
  <2>7. \A g \in Flows : flow[g].status \in Over => flow'[g].status \in Over
    BY <2>1, <2>3, <2>4 DEF Over
  <2>8. UNCHANGED <<signedIn, account, imports, doubled, Fl!Excepted, console>>
    BY <1>3 DEF Fl!Start, Fl!rows, Fl!history, Fl!Excepted
  <2> QED BY <1>1, <2>6, <2>7, <2>8 DEF FlowStep, Onward, Rests, Alike
<1>4. ASSUME NEW f \in Flows, Fl!SignIn(f) \/ Fl!Deadline(f) PROVE FlowStep
  <2>1. flow' = flow /\ UNCHANGED <<account, imports, doubled, Fl!Excepted, console>>
    BY <1>4 DEF Fl!SignIn, Fl!Deadline, Fl!rows, Fl!history, Fl!Excepted
  <2>2. signedIn' \in [Flows -> Fl!Identity \cup {None}]
    BY <1>1, <1>4 DEF Fl!SignIn, Fl!Deadline
  <2> QED BY <1>1, <2>1, <2>2, StillOnward DEF FlowStep, Rests, Alike
<1>5. ASSUME NEW a \in Fl!Accounts, Fl!ManualCheckin(a) PROVE FlowStep
  <2>1. flow' = flow /\ UNCHANGED <<signedIn, account, imports, doubled, Fl!Excepted>>
    BY <1>5 DEF Fl!ManualCheckin, Fl!flowData, Fl!history, Fl!Excepted
  <2>2. console' = [d \in Polls |-> Fl!Verified(a)[d]]
    BY <1>5 DEF Fl!ManualCheckin, Fl!Verified
  <2>3. \A d \in Polls : LET v == Fl!Verified(a)[d]
          IN  /\ v \in CallType /\ v.at = console[d].at /\ v.for = console[d].for
              /\ v.to = console[d].to /\ v.as = console[d].as
    BY VerifiedIsAlike
  <2>4. console' \in [Polls -> CallType] /\ \A d \in Polls : Alike(d)
    BY <2>2, <2>3 DEF Alike
  <2> QED BY <1>1, <2>1, <2>4, StillOnward DEF FlowStep, Rests
<1> QED BY <1>2, <1>3, <1>4, <1>5 DEF Fl!Next

LEMMA TypesNext ==
  ASSUME FlowTypes, FlowStep
  PROVE  FlowTypes'
<1>1. /\ flow' \in [Flows -> FlowType] /\ signedIn' \in [Flows -> Fl!Identity \cup {None}]
      /\ console' \in [Polls -> CallType]
  BY DEF FlowStep, Onward
<1>2. /\ account \in [Fl!Accounts -> Fl!Identity \cup {None}] /\ imports \in [Flows -> Nat]
      /\ \A c \in Polls : /\ console[c].at = "ask" => console[c].for \in Flows
                          /\ console[c].at = "write" =>
                               console[c].to \in Fl!Accounts /\ console[c].as \in Fl!Identity
                          /\ console[c].at \in {"idle", "verify"} => console[c].for = None
  BY DEF FlowTypes, CallType
<1>3. ASSUME NEW o \in Polls, Alike(o)
      PROVE  /\ console'[o].at = "ask" => console'[o].for \in Flows
             /\ console'[o].at = "write" => console'[o].to \in Fl!Accounts
             /\ console'[o].at \in {"idle", "verify"} => console'[o].for = None
  BY <1>2, <1>3 DEF Alike
<1>4. CASE Rests
  <2>1. account' = account /\ imports' = imports /\ \A o \in Polls : Alike(o)
    BY <1>4 DEF Rests
  <2> QED BY <1>1, <1>2, <1>3, <2>1 DEF FlowTypes
<1>5. ASSUME NEW c \in Polls, NEW e \in CallType, Turns(c, e),
             Asks(c, e) \/ Moves(c, e) \/ Finds(c, e) \/ Writes(c, e) \/ Ends(c, e)
      PROVE  FlowTypes'
  <2>1. account' \in [Fl!Accounts -> Fl!Identity \cup {None}] /\ imports' \in [Flows -> Nat]
    <3>1. CASE Writes(c, e)
      BY <1>2, <3>1 DEF Writes
    <3>2. CASE Asks(c, e) \/ Moves(c, e) \/ Finds(c, e) \/ Ends(c, e)
      BY <1>2, <3>2 DEF Asks, Moves, Finds, Ends
    <3> QED BY <1>5, <3>1, <3>2
  <2>2. /\ e.at = "ask" => e.for \in Flows
        /\ e.at = "write" => e.to \in Fl!Accounts
        /\ e.at \in {"idle", "verify"} => e.for = None
    BY <1>5 DEF Asks, Moves, Finds, Writes, Ends
  <2>3. console'[c] = e /\ \A o \in Polls \ {c} : Alike(o)
    BY <1>5 DEF Turns
  <2>4. \A o \in Polls : /\ console'[o].at = "ask" => console'[o].for \in Flows
                         /\ console'[o].at = "write" => console'[o].to \in Fl!Accounts
                         /\ console'[o].at \in {"idle", "verify"} => console'[o].for = None
    BY <1>3, <2>2, <2>3
  <2> QED BY <1>1, <2>1, <2>4 DEF FlowTypes
<1> QED BY <1>4, <1>5 DEF FlowStep

LEMMA IdentityNext ==
  ASSUME FlowTypes, IdentityInv, FlowStep
  PROVE  IdentityInv'
<1> DEFINE Writing(c, u) == console[c].at = "write" /\ console[c].as = u
           Wrote(c, u) == console'[c].at = "write" /\ console'[c].as = u
<1>1. ASSUME NEW u \in Users \ Fl!Excepted
      PROVE  /\ \A a, b \in Fl!Accounts : account[a] = u /\ account[b] = u => a = b
             /\ \A c, d \in Polls : Writing(c, u) /\ Writing(d, u) => c = d
             /\ \A c \in Polls, a \in Fl!Accounts :
                  Writing(c, u) /\ account[a] = u => console[c].to = a
  BY DEF IdentityInv, OneAccount, WritesAs
\* What is left to show of one user.
<1>2. ASSUME \A u \in Users \ Fl!Excepted' :
               /\ \A a, b \in Fl!Accounts : account'[a] = u /\ account'[b] = u => a = b
               /\ \A c, d \in Polls : Wrote(c, u) /\ Wrote(d, u) => c = d
               /\ \A c \in Polls, a \in Fl!Accounts :
                    Wrote(c, u) /\ account'[a] = u => console'[c].to = a
      PROVE  IdentityInv'
  BY <1>2 DEF IdentityInv, OneAccount, WritesAs
<1>3. CASE Rests
  <2>1. account' = account /\ Fl!Excepted' = Fl!Excepted /\ \A o \in Polls : Alike(o)
    BY <1>3 DEF Rests
  <2>2. \A o \in Polls : console'[o].to = console[o].to /\ \A u : Wrote(o, u) <=> Writing(o, u)
    BY <2>1 DEF Alike
  <2> HIDE DEF Writing, Wrote
  <2> QED BY <1>1, <1>2, <2>1, <2>2
<1>4. ASSUME NEW c \in Polls, NEW e \in CallType, Turns(c, e),
             Asks(c, e) \/ Moves(c, e) \/ Finds(c, e) \/ Writes(c, e) \/ Ends(c, e)
      PROVE  IdentityInv'
  <2>1. console'[c] = e
        /\ \A o \in Polls \ {c} : console'[o].to = console[o].to
                                  /\ \A u : Wrote(o, u) <=> Writing(o, u)
    BY <1>4 DEF Turns, Alike
  <2>2. CASE Asks(c, e) \/ Moves(c, e) \/ Ends(c, e)
    <3>1. e.at # "write" /\ account' = account /\ Fl!Excepted' = Fl!Excepted
      BY <2>2 DEF Asks, Moves, Ends
    <3>2. \A u : ~ Wrote(c, u)
      BY <2>1, <3>1
    <3> HIDE DEF Writing, Wrote
    <3>3. \A o \in Polls, u \in Users :
            Wrote(o, u) => o # c /\ Writing(o, u) /\ console'[o].to = console[o].to
      BY <2>1, <3>2
    <3> QED BY <1>1, <1>2, <3>1, <3>3
  <2>3. CASE Finds(c, e)
    <3>1. /\ account' = account /\ Fl!Excepted \subseteq Fl!Excepted' /\ e.to \in Fl!Accounts
          /\ \A u \in Users \ Fl!Excepted' : e.as = u =>
               /\ \A d \in Polls \ {c} : ~ Writing(d, u)
               /\ \A a \in Fl!Accounts : account[a] = u => account[e.to] = u
      BY <2>3 DEF Finds
    <3>2. \A u : Wrote(c, u) => e.as = u
      BY <2>1
    <3>3. console'[c].to = e.to
      BY <2>1
    <3> HIDE DEF Writing, Wrote
    <3> SUFFICES ASSUME NEW u \in Users \ Fl!Excepted'
                 PROVE  /\ \A a, b \in Fl!Accounts : account'[a] = u /\ account'[b] = u => a = b
                        /\ \A d, o \in Polls : Wrote(d, u) /\ Wrote(o, u) => d = o
                        /\ \A d \in Polls, a \in Fl!Accounts :
                             Wrote(d, u) /\ account'[a] = u => console'[d].to = a
      BY <1>2
    <3>4. u \in Users \ Fl!Excepted
      BY <3>1
    <3>5. CASE Wrote(c, u)
      <4>1. \A d \in Polls \ {c} : ~ Wrote(d, u)
        BY <2>1, <3>1, <3>2, <3>5
      <4>2. \A a \in Fl!Accounts : account[a] = u => e.to = a
        BY <1>1, <3>1, <3>2, <3>4, <3>5
      <4> QED BY <1>1, <3>1, <3>3, <3>4, <4>1, <4>2
    <3>6. CASE ~ Wrote(c, u)
      <4>1. \A d \in Polls : Wrote(d, u) => Writing(d, u) /\ console'[d].to = console[d].to
        BY <2>1, <3>6
      <4> QED BY <1>1, <3>1, <3>4, <4>1
    <3> QED BY <3>5, <3>6
  <2>4. CASE Writes(c, e)
    <3> DEFINE w == console[c].as
               k == console[c].to
    <3>1. /\ Writing(c, w) /\ e.at = "look" /\ account' = [account EXCEPT ![k] = w]
          /\ Fl!Excepted' = Fl!Excepted
      BY <2>4 DEF Writes
    <3>2. \A u : ~ Wrote(c, u)
      BY <2>1, <3>1
    <3>3. \A d \in Polls : \A u : Wrote(d, u) =>
            d # c /\ Writing(d, u) /\ console'[d].to = console[d].to
      BY <2>1, <3>2
    <3>4. k \in Fl!Accounts /\ account \in [Fl!Accounts -> Fl!Identity \cup {None}]
      BY <3>1 DEF FlowTypes
    <3>5. account'[k] = w /\ \A a \in Fl!Accounts \ {k} : account'[a] = account[a]
      BY <3>1, <3>4
    <3>8. \A a \in Fl!Accounts, u \in Users \ Fl!Excepted :
            Writing(c, u) => (account[a] = u => k = a)
      BY <1>1
    <3> HIDE DEF Writing, Wrote, w, k
    <3> SUFFICES ASSUME NEW u \in Users \ Fl!Excepted
                 PROVE  /\ \A a, b \in Fl!Accounts : account'[a] = u /\ account'[b] = u => a = b
                        /\ \A d, o \in Polls : Wrote(d, u) /\ Wrote(o, u) => d = o
                        /\ \A d \in Polls, a \in Fl!Accounts :
                             Wrote(d, u) /\ account'[a] = u => console'[d].to = a
      BY <1>2, <3>1
    <3>6. CASE u = w
      <4>1. \A a \in Fl!Accounts : account'[a] = u => a = k
        BY <3>1, <3>5, <3>6, <3>8
      <4>2. \A d \in Polls : ~ Wrote(d, u)
        BY <1>1, <3>1, <3>3, <3>6
      <4> QED BY <4>1, <4>2
    <3>7. CASE u # w
      <4>1. \A a \in Fl!Accounts : account'[a] = u => account[a] = u
        BY <3>5, <3>7
      <4> QED BY <1>1, <3>3, <4>1
    <3> QED BY <3>6, <3>7
  <2> QED BY <1>4, <2>2, <2>3, <2>4
<1> QED BY <1>3, <1>4 DEF FlowStep

LEMMA OneImportNext ==
  ASSUME FlowTypes, OneImport, FlowStep
  PROVE  OneImport'
<1> DEFINE First3 == {"ask", "find", "write"}
           Last3 == {"look", "row", "complete"}
<1>1. /\ imports \in [Flows -> Nat] /\ None \notin Flows
      /\ \A f \in Flows : flow[f].status \in Over => flow'[f].status \in Over
      /\ \A c \in Polls : console[c].at = "idle" => console[c].for = None
  BY NamesOfFlows DEF FlowTypes, FlowStep, Onward
<1>2. ASSUME NEW f \in Flows \ doubled
      PROVE  /\ imports[f] <= 1
             /\ \A c, d \in Polls : console[c].for = f /\ console[d].for = f => c = d
             /\ \A c \in Polls : console[c].for = f /\ console[c].at \in First3 => imports[f] = 0
             /\ imports[f] >= 1 => flow[f].status \in Over
                  \/ \E c \in Polls : console[c].for = f /\ console[c].at \in Last3
  BY DEF OneImport, Imported
\* What is left to show of one flow.
<1>3. ASSUME \A f \in Flows \ doubled' :
               /\ imports'[f] <= 1
               /\ \A c, d \in Polls : console'[c].for = f /\ console'[d].for = f => c = d
               /\ \A c \in Polls : console'[c].for = f /\ console'[c].at \in First3
                                     => imports'[f] = 0
               /\ imports'[f] >= 1 => flow'[f].status \in Over
                    \/ \E c \in Polls : console'[c].for = f /\ console'[c].at \in Last3
      PROVE  OneImport'
  BY <1>3 DEF OneImport, Imported
<1>4. CASE Rests
  <2>1. /\ imports' = imports /\ doubled' = doubled
        /\ \A o \in Polls : console'[o].at = console[o].at /\ console'[o].for = console[o].for
    BY <1>4 DEF Rests, Alike
  <2> QED BY <1>1, <1>2, <1>3, <2>1
<1>5. ASSUME NEW c \in Polls, NEW e \in CallType, Turns(c, e),
             Asks(c, e) \/ Moves(c, e) \/ Finds(c, e) \/ Writes(c, e) \/ Ends(c, e)
      PROVE  OneImport'
  <2>1. /\ console'[c] = e
        /\ \A o \in Polls \ {c} : console'[o].at = console[o].at /\ console'[o].for = console[o].for
    BY <1>5 DEF Turns, Alike
  <2> SUFFICES ASSUME NEW f \in Flows \ doubled'
               PROVE  /\ imports'[f] <= 1
                      /\ \A o, d \in Polls : console'[o].for = f /\ console'[d].for = f => o = d
                      /\ \A o \in Polls : console'[o].for = f /\ console'[o].at \in First3
                                            => imports'[f] = 0
                      /\ imports'[f] >= 1 => flow'[f].status \in Over
                           \/ \E o \in Polls : console'[o].for = f /\ console'[o].at \in Last3
    BY <1>3
  <2>0. f # None /\ imports[f] \in Nat
    BY <1>1
  <2>2. CASE Asks(c, e)
    <3>1. PICK g \in Flows : /\ flow[g].status = "pending" /\ e.for = g
                             /\ doubled \subseteq doubled'
                             /\ g \notin doubled' => \A d \in Polls : console[d].for # g
      BY <2>2 DEF Asks
    <3>2. imports' = imports /\ f \in Flows \ doubled /\ e.at = "ask" /\ console[c].for # f
      BY <1>1, <2>0, <2>2, <3>1 DEF Asks
    <3>3. CASE f = g
      <4>1. \A d \in Polls : console[d].for # f
        BY <3>1, <3>3
      <4>2. imports[f] = 0
        BY <1>2, <2>0, <3>1, <3>2, <3>3, <4>1 DEF Over
      <4>3. \A d \in Polls : console'[d].for = f => d = c
        BY <2>1, <4>1
      <4> QED BY <3>2, <4>2, <4>3
    <3>4. CASE f # g
      <4>1. e.for # f
        BY <3>1, <3>4
      <4>2. \A d \in Polls : console'[d].for = f <=> console[d].for = f
        BY <2>1, <3>2, <4>1
      <4>3. \A d \in Polls : console'[d].for = f => console'[d].at = console[d].at
        BY <2>1, <4>1
      <4> QED BY <1>1, <1>2, <3>2, <4>2, <4>3
    <3> QED BY <3>3, <3>4
  <2>3. CASE Moves(c, e) \/ Finds(c, e)
    <3>1. /\ imports' = imports /\ doubled' = doubled /\ e.for = console[c].for
          /\ e.at \in First3 => console[c].at \in First3
          /\ console[c].at \in Last3 => e.at \in Last3
      BY <2>3 DEF Moves, Finds
    <3>2. \A o \in Polls : /\ console'[o].for = console[o].for
                           /\ console'[o].at \in First3 => console[o].at \in First3
                           /\ console[o].at \in Last3 => console'[o].at \in Last3
      BY <2>1, <3>1
    <3> HIDE DEF First3, Last3
    <3> QED BY <1>1, <1>2, <3>1, <3>2
  <2>4. CASE Writes(c, e)
    <3>1. /\ imports'[f] = imports[f] + (IF console[c].for = f THEN 1 ELSE 0)
          /\ doubled' = doubled /\ e.for = console[c].for
          /\ console[c].at = "write" /\ e.at = "look"
      BY <2>4 DEF Writes
    <3>2. \A o \in Polls : console'[o].for = console[o].for
      BY <2>1, <3>1
    <3>3. CASE console[c].for = f
      <4>1. imports[f] = 0 /\ imports'[f] = 1
        BY <1>2, <2>0, <3>1, <3>3
      <4>2. \A o \in Polls : console'[o].for = f => o = c
        BY <1>2, <3>1, <3>2, <3>3
      <4>3. console'[c].at \in Last3 /\ console'[c].at \notin First3 /\ console'[c].for = f
        BY <2>1, <3>1, <3>3
      <4> HIDE DEF First3, Last3
      <4> QED BY <4>1, <4>2, <4>3
    <3>4. CASE console[c].for # f
      <4>1. imports'[f] = imports[f]
        BY <2>0, <3>1, <3>4
      <4>2. \A o \in Polls : console[o].for = f => console'[o].at = console[o].at
        BY <2>1, <3>4
      <4> HIDE DEF First3, Last3
      <4> QED BY <1>1, <1>2, <3>1, <3>2, <4>1, <4>2
    <3> QED BY <3>3, <3>4
  <2>5. CASE Ends(c, e)
    <3>1. /\ imports' = imports /\ doubled' = doubled /\ e.for = None
          /\ console[c].for = f => flow'[f].status \in Over \/ console[c].at = "ask"
      BY <2>5 DEF Ends
    <3>2. \A o \in Polls : console'[o].for = f =>
            console[o].for = f /\ console'[o].at = console[o].at
      BY <2>0, <2>1, <3>1
    <3>3. \A o \in Polls : console[o].for = f /\ o # c =>
            console'[o].for = f /\ console'[o].at = console[o].at
      BY <2>1
    <3>4. imports[f] >= 1 => flow'[f].status \in Over
            \/ \E o \in Polls : console'[o].for = f /\ console'[o].at \in Last3
      <4>1. CASE console[c].for = f /\ console[c].at \in Last3
        BY <3>1, <4>1
      <4>2. CASE ~ (console[c].for = f /\ console[c].at \in Last3)
        <5>1. \A o \in Polls : console[o].for = f /\ console[o].at \in Last3 =>
                console'[o].for = f /\ console'[o].at \in Last3
          BY <3>3, <4>2
        <5> HIDE DEF First3, Last3
        <5> QED BY <1>1, <1>2, <3>1, <5>1
      <4> QED BY <4>1, <4>2
    <3> QED BY <1>2, <3>1, <3>2, <3>4
  <2> QED BY <1>5, <2>2, <2>3, <2>4, <2>5
<1> QED BY <1>4, <1>5 DEF FlowStep

LEMMA FlowInit == Fl!Init => FlowInv
<1> SUFFICES ASSUME Fl!Init PROVE FlowInv
  OBVIOUS
<1>1. /\ flow = [f \in Flows |-> [status |-> "absent", requested |-> Fl!New]]
      /\ signedIn = [f \in Flows |-> None] /\ account = [a \in Fl!Accounts |-> None]
      /\ console = [c \in Polls |-> Fl!NoCall] /\ imports = [f \in Flows |-> 0]
  BY DEF Fl!Init
<1>2. [status |-> "absent", requested |-> Fl!New] \in FlowType
  BY DEF FlowType
<1>3. \A c \in Polls : console[c] = Fl!NoCall
  BY <1>1
<1>4. FlowTypes
  <2>1. flow \in [Flows -> FlowType] /\ console \in [Polls -> CallType]
    BY <1>1, <1>2, NoCallType
  <2>2. imports \in [Flows -> Nat]
    BY <1>1
  <2> QED BY <1>1, <1>3, <2>1, <2>2, NoCallType DEF FlowTypes
<1>5. IdentityInv
  <2>1. \A a \in Fl!Accounts : account[a] = None
    BY <1>1
  <2> QED BY <1>3, <2>1, NoCallType, NamesOfFlows DEF IdentityInv, OneAccount, WritesAs
<1>6. OneImport
  BY <1>1, <1>3, NoCallType, NamesOfFlows DEF OneImport
<1> QED BY <1>4, <1>5, <1>6 DEF FlowInv

LEMMA FlowAlways == Spec => []FlowInv
<1>1. ASSUME FlowInv, [Fl!Next]_(Fl!vars) PROVE FlowInv'
  <2>1. CASE Fl!Next
    BY <1>1, <2>1, FlowSteps, TypesNext, IdentityNext, OneImportNext DEF FlowInv
  <2>2. CASE UNCHANGED Fl!vars
    <3>1. /\ flow' = flow /\ signedIn' = signedIn /\ account' = account /\ console' = console
          /\ imports' = imports /\ doubled' = doubled /\ Fl!Excepted' = Fl!Excepted
      BY <2>2 DEF Fl!vars, Fl!flowData, Fl!rows, Fl!history, Fl!Excepted
    <3> QED BY <1>1, <3>1
            DEF FlowInv, FlowTypes, IdentityInv, OneAccount, WritesAs, OneImport, Imported
  <2> QED BY <1>1, <2>1, <2>2
<1> QED BY <1>1, FlowInit, ServicesAreIndependent, PTL DEF Fl!Spec

\* Poll and UpsertImportedAccount: one import for each flow and one account for each
\* identity, however the polls, pasted credentials, failures and deadlines of any
\* number of calls interleave.
THEOREM ImportsStayUnique == Spec => []ImportsAddUp
<1>1. ASSUME FlowInv PROVE ImportsAddUp
  <2>1. \A f \in Flows \ doubled : imports[f] <= 1
    BY <1>1 DEF FlowInv, OneImport
  <2>2. \A u \in Users \ Fl!Excepted : \A a, b \in Fl!Accounts :
          account[a] = u /\ account[b] = u => a = b
    BY <1>1 DEF FlowInv, IdentityInv, OneAccount
  <2> QED BY <2>1, <2>2 DEF ImportsAddUp, Fl!ImportsAddUp
<1> QED BY <1>1, FlowAlways, PTL

-----------------------------------------------------------------------------
(* Types of the catalog.                                                   *)

LEMMA CatalogTypesAre == CatalogInv => Sy!TypeOK
  BY DEF CatalogInv, CatalogTypes, SyncType, EditType, Sy!TypeOK


-----------------------------------------------------------------------------
(* Types of the rollups: no table counts more than has landed.             *)

RollupBounds ==
  /\ landed \in 0 .. MaxEvents /\ Sum(stored, Ru!Ticks) <= landed
  /\ \A r \in Rounds : Sum(round[r].read, Ru!Ticks) <= MaxEvents
  /\ \A k \in Ru!Kinds : \A t \in Ru!Ticks : bucket[k][t] <= MaxEvents

LEMMA TicksFinite == IsFiniteSet(Ru!Ticks)
  BY ServiceAssumption, FS_Interval DEF Ru!Ticks

\* Fewer details of every tick are fewer details.
LEMMA FewerInAll ==
  ASSUME NEW v \in [Ru!Ticks -> Nat], NEW w \in [Ru!Ticks -> Nat],
         \A t \in Ru!Ticks : v[t] <= w[t]
  PROVE  Sum(v, Ru!Ticks) <= Sum(w, Ru!Ticks)
<1>1. \A t \in Ru!Ticks : v[t] \in Int /\ w[t] \in Int /\ v[t] <= w[t]
  OBVIOUS
<1> QED BY <1>1, TicksFinite, SumMonotone

LEMMA NothingInAll ==
  ASSUME NEW v, \A t \in Ru!Ticks : v[t] = 0
  PROVE  Sum(v, Ru!Ticks) = 0
  BY TicksFinite, SumZero

LEMMA BoundsInit == ASSUME Ru!Init PROVE RollupBounds
<1>1. stored = [t \in Ru!Ticks |-> 0] /\ landed = 0
  BY DEF Ru!Init
<1>2. Sum(stored, Ru!Ticks) = 0
  BY <1>1, NothingInAll
<1>3. ASSUME NEW r \in Rounds PROVE Sum(round[r].read, Ru!Ticks) = 0
  <2>1. round[r].read = [t \in Ru!Ticks |-> 0]
    BY DEF Ru!Init, Ru!NoRound
  <2> QED BY <2>1, NothingInAll
<1>4. \A k \in Ru!Kinds : \A t \in Ru!Ticks : bucket[k][t] = 0
  BY DEF Ru!Init
<1> QED BY <1>1, <1>2, <1>3, <1>4, ServiceAssumption DEF RollupBounds

LEMMA BoundsNext ==
  ASSUME RollupTypes, RollupTypes', RollupBounds, Ru!Next
  PROVE  RollupBounds'
<1>1. /\ stored \in [Ru!Ticks -> Nat] /\ stored' \in [Ru!Ticks -> Nat]
      /\ landed \in Nat /\ landed <= MaxEvents /\ MaxEvents \in Nat
      /\ Sum(stored, Ru!Ticks) <= landed
  BY ServiceAssumption DEF RollupTypes, RollupBounds
<1>2. /\ Sum(stored, Ru!Ticks) \in Nat /\ Sum(stored', Ru!Ticks) \in Nat
  <2>1. \A t \in Ru!Ticks : stored[t] \in Nat /\ stored'[t] \in Nat
    BY <1>1
  <2> QED BY <2>1, TicksFinite, SumNat
<1>3. \A r \in Rounds : Sum(round[r].read, Ru!Ticks) <= MaxEvents
  BY DEF RollupBounds
<1>4. \A k \in Ru!Kinds : \A t \in Ru!Ticks : bucket[k][t] <= MaxEvents
  BY DEF RollupBounds
<1>5. ASSUME NEW r \in Rounds, NEW c, round' = [round EXCEPT ![r] = c],
             Sum(c.read, Ru!Ticks) <= MaxEvents
      PROVE  \A o \in Rounds : Sum(round'[o].read, Ru!Ticks) <= MaxEvents
  <2> TAKE o \in Rounds
  <2>1. round'[o] = IF o = r THEN c ELSE round[o]
    BY <1>5 DEF RollupTypes
  <2> QED BY <1>3, <1>5, <2>1
<1>6. Sum(Ru!NoRound.read, Ru!Ticks) <= MaxEvents
  <2>1. Sum(Ru!NoRound.read, Ru!Ticks) = 0
    BY NothingInAll DEF Ru!NoRound
  <2> QED BY <1>1, <2>1
<1>7. ASSUME NEW t \in Ru!Ticks, Ru!Land(t) PROVE RollupBounds'
  <2>1. stored' = [stored EXCEPT ![t] = @ + 1] /\ landed' = landed + 1 /\ landed < MaxEvents
    BY <1>7 DEF Ru!Land
  <2>2. Sum(stored', Ru!Ticks) = Sum(stored, Ru!Ticks) - stored[t] + stored'[t]
    <3>1. \A u \in Ru!Ticks : /\ stored'[u] \in Int /\ stored[u] \in Int
                              /\ u # t => stored'[u] = stored[u]
      BY <1>1, <2>1
    <3> QED BY <3>1, TicksFinite, SumChange
  <2>3. stored'[t] = stored[t] + 1 /\ stored[t] \in Nat
    BY <1>1, <2>1
  <2>4. Sum(stored', Ru!Ticks) <= landed' /\ landed' \in 0 .. MaxEvents
    BY <1>1, <1>2, <2>1, <2>2, <2>3
  <2>5. UNCHANGED <<bucket, round>>
    BY <1>7 DEF Ru!Land
  <2> QED BY <1>3, <1>4, <2>4, <2>5 DEF RollupBounds
<1>8. CASE Ru!Tick
  <2>1. UNCHANGED <<stored, landed, bucket, round>>
    BY <1>8 DEF Ru!Tick
  <2> QED BY <2>1 DEF RollupBounds
<1>9. ASSUME NEW r \in Rounds, Ru!Begin(r) PROVE RollupBounds'
  <2> DEFINE c == [Ru!NoRound EXCEPT !.at = "read", !.now = clock]
  <2>1. round' = [round EXCEPT ![r] = c] /\ UNCHANGED <<stored, landed, bucket>>
    BY <1>9 DEF Ru!Begin
  <2>2. c.read = Ru!NoRound.read
    BY DEF Ru!NoRound
  <2> HIDE DEF c
  <2>3. \A o \in Rounds : Sum(round'[o].read, Ru!Ticks) <= MaxEvents
    BY <1>5, <1>6, <2>1, <2>2
  <2> QED BY <1>1, <1>4, <2>1, <2>3 DEF RollupBounds
<1>10. ASSUME NEW r \in Rounds, Ru!Read(r) PROVE RollupBounds'
  <2> DEFINE s == [t \in Ru!Ticks |-> IF t \in MonthOf(round[r].now) THEN stored[t] ELSE 0]
             c == [round[r] EXCEPT !.at = "write", !.read = s]
  <2>1. round' = [round EXCEPT ![r] = c] /\ UNCHANGED <<stored, landed, bucket>>
    BY <1>10 DEF Ru!Read, MonthOf
  <2>2. s \in [Ru!Ticks -> Nat] /\ \A t \in Ru!Ticks : s[t] <= stored[t]
    BY <1>1
  <2>3. c.read = s
    BY DEF RollupTypes
  <2> HIDE DEF s, c
  <2>4. Sum(s, Ru!Ticks) <= Sum(stored, Ru!Ticks)
    BY <1>1, <2>2, FewerInAll
  <2>5. Sum(s, Ru!Ticks) \in Nat
    <3>1. \A t \in Ru!Ticks : s[t] \in Nat
      BY <2>2
    <3> QED BY <3>1, TicksFinite, SumNat
  <2>6. Sum(c.read, Ru!Ticks) <= MaxEvents
    BY <1>1, <1>2, <2>3, <2>4, <2>5
  <2>7. \A o \in Rounds : Sum(round'[o].read, Ru!Ticks) <= MaxEvents
    BY <1>5, <2>1, <2>6
  <2> QED BY <1>1, <1>4, <2>1, <2>7 DEF RollupBounds
<1>11. ASSUME NEW r \in Rounds, Ru!Write(r) PROVE RollupBounds'
  <2> DEFINE c == [round[r] EXCEPT !.at = "prune"]
  <2>1. /\ round' = [round EXCEPT ![r] = c] /\ UNCHANGED <<stored, landed>>
        /\ bucket' = [k \in Ru!Kinds |-> Ru!Recounted(k, r)]
    BY <1>11 DEF Ru!Write
  <2>2. c.read = round[r].read /\ round[r].read \in [Ru!Ticks -> Nat]
    BY DEF RollupTypes
  <2> HIDE DEF c
  <2>3. \A o \in Rounds : Sum(round'[o].read, Ru!Ticks) <= MaxEvents
    BY <1>3, <1>5, <2>1, <2>2
  <2>4. ASSUME NEW k \in Ru!Kinds, NEW t \in Ru!Ticks PROVE bucket'[k][t] <= MaxEvents
    <3> DEFINE S == Ru!Window(k, round[r].now)
               n == Ru!Count(round[r].read, S)
               at == Ru!Start(k, round[r].now)
    <3>1. S \in SUBSET Ru!Ticks
      BY DEF Ru!Window
    <3>2. IsFiniteSet(S)
      <4> HIDE DEF S
      <4> QED BY <3>1, TicksFinite, FS_Subset
    <3>3. \A u \in Ru!Ticks : round[r].read[u] \in Nat
      BY <2>2
    <3>4. n <= Sum(round[r].read, Ru!Ticks) /\ n \in Nat
      <4> HIDE DEF S
      <4>1. Sum(round[r].read, S) <= Sum(round[r].read, Ru!Ticks)
        BY <3>1, <3>3, TicksFinite, SumSubset
      <4>2. \A u \in S : round[r].read[u] \in Nat
        BY <3>1, <3>3
      <4> QED BY <3>2, <4>1, <4>2, CountIs, SumNat
    <3>5. Sum(round[r].read, Ru!Ticks) \in Nat /\ Sum(round[r].read, Ru!Ticks) <= MaxEvents
      BY <1>3, <3>3, TicksFinite, SumNat
    <3>6. bucket'[k] = IF n = 0 THEN bucket[k] ELSE [bucket[k] EXCEPT ![at] = n]
      BY <2>1 DEF Ru!Recounted
    <3>7. bucket[k] \in [Ru!Ticks -> Nat] /\ bucket[k][t] <= MaxEvents
      BY <1>4 DEF RollupTypes
    <3> HIDE DEF n, at
    <3> QED BY <1>1, <3>4, <3>5, <3>6, <3>7
  <2> QED BY <1>1, <2>1, <2>3, <2>4 DEF RollupBounds
<1>12. ASSUME NEW r \in Rounds, Ru!Prune(r) \/ Ru!Fails(r) PROVE RollupBounds'
  <2>1. round' = [round EXCEPT ![r] = Ru!NoRound] /\ UNCHANGED <<landed, bucket>>
    BY <1>12 DEF Ru!Prune, Ru!Fails
  <2>2. \A t \in Ru!Ticks : stored'[t] <= stored[t]
    <3>1. CASE Ru!Prune(r)
      BY <1>1, <3>1 DEF Ru!Prune
    <3>2. CASE Ru!Fails(r)
      BY <1>1, <3>2 DEF Ru!Fails
    <3> QED BY <1>12, <3>1, <3>2
  <2>3. Sum(stored', Ru!Ticks) <= Sum(stored, Ru!Ticks)
    BY <1>1, <2>2, FewerInAll
  <2>4. Sum(stored', Ru!Ticks) <= landed' /\ landed' \in 0 .. MaxEvents
    BY <1>1, <1>2, <2>1, <2>3
  <2>5. \A o \in Rounds : Sum(round'[o].read, Ru!Ticks) <= MaxEvents
    BY <1>5, <1>6, <2>1
  <2> QED BY <1>4, <2>1, <2>4, <2>5 DEF RollupBounds
<1> QED BY <1>7, <1>8, <1>9, <1>10, <1>11, <1>12 DEF Ru!Next

LEMMA BoundsAreTypes == ASSUME RollupTypes, RollupBounds PROVE Ru!TypeOK
<1>1. ASSUME NEW v \in [Ru!Ticks -> Nat], Sum(v, Ru!Ticks) <= MaxEvents
      PROVE  v \in [Ru!Ticks -> 0 .. MaxEvents]
  <2>1. ASSUME NEW t \in Ru!Ticks PROVE v[t] \in 0 .. MaxEvents
    <3>1. \A u \in Ru!Ticks : v[u] \in Nat
      OBVIOUS
    <3>2. v[t] <= Sum(v, Ru!Ticks) /\ Sum(v, Ru!Ticks) \in Nat
      BY <3>1, TicksFinite, SumBoundsSummand, SumNat
    <3> QED BY <1>1, <3>1, <3>2, ServiceAssumption
  <2> QED BY <2>1
<1>2. stored \in [Ru!Ticks -> 0 .. MaxEvents]
  <2>1. stored \in [Ru!Ticks -> Nat] /\ landed \in 0 .. MaxEvents /\ Sum(stored, Ru!Ticks) <= landed
    BY DEF RollupTypes, RollupBounds
  <2>2. Sum(stored, Ru!Ticks) \in Nat
    <3>1. \A u \in Ru!Ticks : stored[u] \in Nat
      BY <2>1
    <3> QED BY <3>1, TicksFinite, SumNat
  <2> QED BY <1>1, <2>1, <2>2, ServiceAssumption
<1>3. ASSUME NEW r \in Rounds PROVE round[r].read \in [Ru!Ticks -> 0 .. MaxEvents]
  <2>1. round[r].read \in [Ru!Ticks -> Nat] /\ Sum(round[r].read, Ru!Ticks) <= MaxEvents
    BY DEF RollupTypes, RollupBounds
  <2> QED BY <1>1, <2>1
<1>4. ASSUME NEW k \in Ru!Kinds PROVE bucket[k] \in [Ru!Ticks -> 0 .. MaxEvents]
  <2>1. bucket[k] \in [Ru!Ticks -> Nat] /\ \A t \in Ru!Ticks : bucket[k][t] <= MaxEvents
    BY DEF RollupTypes, RollupBounds
  <2> QED BY <2>1, ServiceAssumption
<1>5. bucket \in [Ru!Kinds -> [Ru!Ticks -> 0 .. MaxEvents]]
  <2>1. bucket = [k \in Ru!Kinds |-> bucket[k]]
    BY DEF RollupTypes
  <2> QED BY <1>4, <2>1
<1>6. round \in [Rounds -> [at : {"idle", "read", "write", "prune"}, now : Ru!Ticks,
                            read : [Ru!Ticks -> 0 .. MaxEvents]]]
  <2>1. round = [r \in Rounds |-> round[r]]
    BY DEF RollupTypes
  <2>2. ASSUME NEW r \in Rounds
        PROVE  round[r] \in [at : {"idle", "read", "write", "prune"}, now : Ru!Ticks,
                             read : [Ru!Ticks -> 0 .. MaxEvents]]
    <3>1. round[r] \in [at : {"idle", "read", "write", "prune"}, now : Ru!Ticks,
                        read : [Ru!Ticks -> Nat]]
      BY DEF RollupTypes
    <3> QED BY <1>3, <3>1
  <2> QED BY <2>1, <2>2
<1> QED BY <1>2, <1>5, <1>6 DEF RollupTypes, RollupBounds, Ru!TypeOK

LEMMA RollupTyped == Spec => []Ru!TypeOK
<1>1. RollupTypes /\ RollupTypes' /\ RollupBounds /\ [Ru!Next]_(Ru!vars) => RollupBounds'
  BY BoundsNext DEF Ru!vars, RollupBounds
<1>2. RollupInv => RollupTypes
  BY DEF RollupInv
<1> QED BY <1>1, <1>2, BoundsInit, BoundsAreTypes, RollupAlways, ServicesAreIndependent, PTL
        DEF Ru!Spec


-----------------------------------------------------------------------------
(* Types of the plane.  A handler that writes has its table and transactions *)
(* left, and one that reads has a table to read.                           *)

Versions == Pl!Version \cup {Pl!Unread}

HandlerBounds ==
  [at : Stations, on : Pl!Table \cup {"none"}, left : 0 .. 2, wrote : Pl!Version,
   read : [Pl!Table -> Versions], next : 1 .. 6, wants : Strategies, todo : SUBSET Pools]

Placed(c) ==
  /\ c.at = "write" => c.left \in 1 .. 2 /\ c.on \in Pl!Table
  /\ c.at = "read" => c.next \in 1 .. 5

PlaneBounds ==
  /\ table \in [Pl!Table -> Pl!Version] /\ live \in [Pl!Table -> Versions]
  /\ answered \in [Pl!Table -> Pl!Version]
  /\ setting \in [value : Strategies, writes : Pl!Version]
  /\ strategy \in Strategies /\ inForce \in [Pools -> Strategies]
  /\ handler \in [Handlers -> HandlerBounds] /\ \A h \in Handlers : Placed(handler[h])
  /\ muddled \in BOOLEAN /\ crossed \in BOOLEAN

\* A handler takes a step, to a record of its type.
Steps(h) ==
  \E c \in HandlerBounds : Placed(c) /\ handler' = [handler EXCEPT ![h] = c]

LEMMA VersionsAre ==
  /\ Pl!Version = 0 .. MaxWrites /\ MaxWrites \in Nat
  /\ Versions = Pl!Version \cup {-1} /\ 0 \in Pl!Version
  BY ServiceAssumption DEF Versions, Pl!Version, Pl!Unread

LEMMA NoHandlerBounds == Pl!NoHandler \in HandlerBounds /\ Placed(Pl!NoHandler)
<1>1. 0 \in Versions /\ 0 \in Pl!Version
  BY VersionsAre
<1> QED BY <1>1, ServiceAssumption DEF Pl!NoHandler, HandlerBounds, Placed, Stations

LEMMA PlaneBoundsInit == ASSUME Pl!Init PROVE PlaneBounds
<1>1. 0 \in Pl!Version /\ 0 \in Versions
  BY VersionsAre
<1>2. /\ table = [t \in Pl!Table |-> 0] /\ live = table /\ answered = table
      /\ setting = [value |-> Default, writes |-> 0] /\ strategy = Default
      /\ inForce = [p \in Pools |-> Default] /\ muddled = FALSE /\ crossed = FALSE
  BY DEF Pl!Init
<1>3. handler = [h \in Handlers |-> Pl!NoHandler]
  BY DEF Pl!Init
<1>4. handler \in [Handlers -> HandlerBounds] /\ \A h \in Handlers : Placed(handler[h])
  BY <1>3, NoHandlerBounds
<1>5. /\ table \in [Pl!Table -> Pl!Version] /\ live \in [Pl!Table -> Versions]
      /\ answered \in [Pl!Table -> Pl!Version]
  BY <1>1, <1>2
<1> QED BY <1>1, <1>2, <1>4, <1>5, ServiceAssumption DEF PlaneBounds

LEMMA TablesFinite == IsFiniteSet(Pl!Table)
<1>1. Pl!Table = {} \cup {"accounts"} \cup {"catalog"} \cup {"policies"} \cup {"blocks"} \cup {"keys"}
  BY TablesOfThePlane
<1>2. IsFiniteSet({} \cup {"accounts"} \cup {"catalog"})
  BY FS_EmptySet, FS_AddElement
<1> QED BY <1>1, <1>2, FS_AddElement

LEMMA WritesAre == Pl!Writes = setting.writes + Sum(table, Pl!Table)
<1> DEFINE S == Pl!Table
           P(f) == f = [s \in SUBSET S |-> IF s = {} THEN 0
                      ELSE table[CHOOSE x \in s : TRUE] + f[s \ {CHOOSE x \in s : TRUE}]]
           h == CHOOSE f : P(f)
<1>1. PICK k : Sums(k, S, table)
  BY TablesFinite, SumsExist
<1>2. P(h)
  <2>1. P(k)
    BY <1>1 DEF Sums, Pick
  <2> QED BY <2>1
<1>3. Sums(h, S, table)
  BY <1>2 DEF Sums, Pick
<1>4. Pl!Writes = setting.writes + h[S]
  BY DEF Pl!Writes, Pl!MapThenSumSet, Pl!MapThenFoldSet
<1> HIDE DEF h
<1> QED BY <1>3, <1>4, TablesFinite, SumIs

\* While writes are left every table and the setting can take one.
LEMMA RoomToWrite ==
  ASSUME PlaneBounds, Pl!Writes < MaxWrites
  PROVE  /\ \A t \in Pl!Table : table[t] + 1 \in Pl!Version
         /\ setting.writes + 1 \in Pl!Version
<1>1. /\ \A t \in Pl!Table : table[t] \in Nat
      /\ setting.writes \in Nat
  BY VersionsAre DEF PlaneBounds
<1>2. Sum(table, Pl!Table) \in Nat
  BY <1>1, TablesFinite, SumNat
<1>3. ASSUME NEW t \in Pl!Table PROVE table[t] <= Sum(table, Pl!Table)
  BY <1>1, TablesFinite, SumBoundsSummand
<1> QED BY <1>1, <1>2, <1>3, VersionsAre, WritesAre

LEMMA StepsAreTyped ==
  ASSUME PlaneBounds, NEW h \in Handlers, Steps(h)
  PROVE  handler' \in [Handlers -> HandlerBounds] /\ \A o \in Handlers : Placed(handler'[o])
BY DEF PlaneBounds, Steps

LEMMA ReloadTypes ==
  ASSUME PlaneBounds, NEW h \in Handlers, Pl!ReloadStep(h)
  PROVE  /\ Steps(h)
         /\ table' \in [Pl!Table -> Pl!Version] /\ live' \in [Pl!Table -> Versions]
         /\ answered' \in [Pl!Table -> Pl!Version] /\ muddled' \in BOOLEAN
         /\ UNCHANGED <<setting, strategy, crossed>> /\ inForce' \in [Pools -> Strategies]
<1> DEFINE s == handler[h]
<1>0. /\ s \in HandlerBounds /\ Placed(s) /\ handler \in [Handlers -> HandlerBounds]
      /\ table \in [Pl!Table -> Pl!Version] /\ live \in [Pl!Table -> Versions]
      /\ answered \in [Pl!Table -> Pl!Version] /\ muddled \in BOOLEAN
      /\ strategy \in Strategies /\ inForce \in [Pools -> Strategies]
  BY DEF PlaneBounds
<1>1. CASE Pl!Begin(h)
  <2>1. PICK t \in Pl!Table, n \in 1 .. 2 :
          handler' = [handler EXCEPT ![h] =
                        [Pl!NoHandler EXCEPT !.at = "write", !.on = t, !.left = n]]
    <3>1. \A t \in Pl!Table : Pl!Transactions(t) \subseteq 1 .. 2
      BY DEF Pl!Transactions
    <3> QED BY <1>1, <3>1 DEF Pl!Begin
  <2> DEFINE c == [Pl!NoHandler EXCEPT !.at = "write", !.on = t, !.left = n]
  <2>2. c \in HandlerBounds /\ Placed(c)
    <3>1. "write" \in Stations /\ t \in Pl!Table \cup {"none"} /\ n \in 0 .. 2
      BY DEF Stations
    <3> QED BY <3>1, NoHandlerBounds DEF HandlerBounds, Placed
  <2>3. Steps(h)
    <3> HIDE DEF c
    <3> QED BY <2>1, <2>2 DEF Steps, c
  <2>4. UNCHANGED <<table, live, answered, muddled, setting, strategy, inForce, crossed>>
    BY <1>1 DEF Pl!Begin, Pl!planeData, Pl!routingData
  <2> QED BY <1>0, <2>3, <2>4
<1>2. CASE Pl!BeginReload(h)
  <2> DEFINE c == [Pl!NoHandler EXCEPT !.at = "reload"]
  <2>1. handler' = [handler EXCEPT ![h] = c]
    BY <1>2 DEF Pl!BeginReload
  <2>2. c \in HandlerBounds /\ Placed(c)
    BY NoHandlerBounds DEF HandlerBounds, Placed, Stations
  <2>3. Steps(h)
    <3> HIDE DEF c
    <3> QED BY <2>1, <2>2 DEF Steps
  <2>4. UNCHANGED <<table, live, answered, muddled, setting, strategy, inForce, crossed>>
    BY <1>2 DEF Pl!BeginReload, Pl!planeData, Pl!routingData
  <2> QED BY <1>0, <2>3, <2>4
<1>3. CASE Pl!Write(h)
  <2>1. /\ s.at = "write" /\ Pl!Writes < MaxWrites
        /\ table' = [table EXCEPT ![s.on] = @ + 1]
        /\ UNCHANGED <<live, answered, muddled, setting, strategy, inForce, crossed>>
    BY <1>3 DEF Pl!Write, Pl!At, Pl!routingData
  <2>2. s.left \in 1 .. 2 /\ s.on \in Pl!Table
    BY <1>0, <2>1 DEF Placed
  <2> DEFINE place == IF s.left = 1 THEN "reload" ELSE "write"
             m == table[s.on] + 1
             c == [s EXCEPT !.left = s.left - 1, !.wrote = m, !.at = place]
  <2>7. m \in Pl!Version
    BY <2>1, <2>2, RoomToWrite
  <2>3. c \in HandlerBounds /\ Placed(c)
    <3>1. s.left - 1 \in 0 .. 2 /\ (s.left # 1 => s.left - 1 \in 1 .. 2)
      BY <2>2
    <3>2. place \in Stations /\ place # "read" /\ (place = "write" => s.left # 1)
      BY DEF Stations
    <3> HIDE DEF place, m
    <3> QED BY <1>0, <2>2, <2>7, <3>1, <3>2 DEF HandlerBounds, Placed
  <2>4. handler' = [handler EXCEPT ![h] = c]
    BY <1>0, <1>3 DEF Pl!Write
  <2>5. Steps(h)
    <3> HIDE DEF c
    <3> QED BY <2>3, <2>4 DEF Steps
  <2>6. table' \in [Pl!Table -> Pl!Version]
    <3>1. table[s.on] + 1 \in Pl!Version
      BY <2>1, <2>2, RoomToWrite
    <3> QED BY <1>0, <2>1, <2>2, <3>1
  <2> QED BY <1>0, <2>1, <2>5, <2>6
<1>4. CASE Pl!WriteFails(h) \/ Pl!ReadFails(h)
  <2>1. handler' = [handler EXCEPT ![h] = Pl!NoHandler]
    BY <1>4 DEF Pl!WriteFails, Pl!ReadFails
  <2>2. Steps(h)
    BY <2>1, NoHandlerBounds DEF Steps
  <2>3. UNCHANGED <<table, live, answered, muddled, setting, strategy, inForce, crossed>>
    BY <1>4 DEF Pl!WriteFails, Pl!ReadFails, Pl!planeData, Pl!routingData
  <2> QED BY <1>0, <2>2, <2>3
<1>5. CASE Pl!ReloadBegins(h)
  <2> DEFINE c == [s EXCEPT !.at = "read", !.next = 1]
  <2>1. handler' = [handler EXCEPT ![h] = c]
    BY <1>0, <1>5 DEF Pl!ReloadBegins
  <2>2. c \in HandlerBounds /\ Placed(c)
    <3>1. "read" \in Stations /\ 1 \in 1 .. 5 /\ 1 \in 1 .. 6
      BY DEF Stations
    <3> QED BY <1>0, <3>1 DEF HandlerBounds, Placed
  <2>3. Steps(h)
    <3> HIDE DEF c
    <3> QED BY <2>1, <2>2 DEF Steps
  <2>4. UNCHANGED <<table, live, answered, setting, strategy, inForce, crossed>>
    BY <1>5 DEF Pl!ReloadBegins, Pl!routingData
  <2>5. muddled' \in BOOLEAN
    <3>1. muddled' = (muddled \/ Pl!Others(h, {"read", "publish"}))
      BY <1>5 DEF Pl!ReloadBegins
    <3>2. Pl!Others(h, {"read", "publish"}) \in BOOLEAN
      BY DEF Pl!Others
    <3> QED BY <1>0, <3>1, <3>2
  <2> QED BY <1>0, <2>3, <2>4, <2>5
<1>6. CASE Pl!ReadTable(h)
  <2>1. s.at = "read" /\ s.next \in 1 .. 5
    BY <1>0, <1>6 DEF Pl!ReadTable, Pl!At, Placed
  <2> DEFINE t == Pl!Tables[s.next]
             r == [s.read EXCEPT ![t] = table[t]]
             place == IF s.next = 5 THEN "publish" ELSE "read"
             c == [s EXCEPT !.read = r, !.next = s.next + 1, !.at = place]
  <2>2. handler' = [handler EXCEPT ![h] = c]
    BY <1>0, <1>6, TablesOfThePlane DEF Pl!ReadTable, Pl!Reading, HandlerBounds
  <2>3. r \in [Pl!Table -> Versions]
    <3>1. t \in Pl!Table /\ table[t] \in Versions
      BY <1>0, <2>1, TablesOfThePlane, VersionsAre
    <3> HIDE DEF t
    <3> QED BY <1>0, <3>1 DEF HandlerBounds
  <2>4. c \in HandlerBounds /\ Placed(c)
    <3>1. s.next + 1 \in 1 .. 6 /\ (place = "read" => s.next + 1 \in 1 .. 5)
      BY <2>1
    <3>2. place \in Stations /\ place # "write"
      BY DEF Stations
    <3> HIDE DEF place, r
    <3> QED BY <1>0, <2>3, <3>1, <3>2 DEF HandlerBounds, Placed
  <2>5. Steps(h)
    <3> HIDE DEF c
    <3> QED BY <2>2, <2>4 DEF Steps
  <2>6. UNCHANGED <<table, live, answered, muddled, setting, strategy, inForce, crossed>>
    BY <1>6 DEF Pl!ReadTable, Pl!planeData, Pl!routingData
  <2> QED BY <1>0, <2>5, <2>6
<1>7. CASE Pl!ReadsInPart(h)
  <2> DEFINE t == Pl!Tables[s.next]
             r == [s.read EXCEPT ![t] = Pl!Unread]
             c == [s EXCEPT !.read = r, !.next = s.next + 1]
  <2>1. s.at = "read" /\ s.next \in 1 .. 5 /\ t \in Pl!Table /\ s.next # 5
    <3>1. s.at = "read" /\ t \in {"accounts", "catalog"}
      BY <1>7 DEF Pl!ReadsInPart, Pl!At, Pl!Reading
    <3>2. s.next \in 1 .. 5
      BY <1>0, <3>1 DEF Placed
    <3>3. Pl!Tables[5] = "keys"
      BY DEF Pl!Tables
    <3> QED BY <3>1, <3>2, <3>3, TablesOfThePlane
  <2>2. handler' = [handler EXCEPT ![h] = c]
    BY <1>0, <1>7 DEF Pl!ReadsInPart, Pl!Reading, HandlerBounds
  <2>3. r \in [Pl!Table -> Versions]
    <3> HIDE DEF t
    <3> QED BY <1>0, <2>1 DEF HandlerBounds, Versions
  <2>4. c \in HandlerBounds /\ Placed(c)
    <3>1. s.next + 1 \in 1 .. 6 /\ s.next + 1 \in 1 .. 5
      BY <2>1
    <3> HIDE DEF r
    <3> QED BY <1>0, <2>1, <2>3, <3>1 DEF HandlerBounds, Placed
  <2>5. Steps(h)
    <3> HIDE DEF c
    <3> QED BY <2>2, <2>4 DEF Steps
  <2>6. UNCHANGED <<table, live, answered, muddled, setting, strategy, inForce, crossed>>
    BY <1>7 DEF Pl!ReadsInPart, Pl!planeData, Pl!routingData
  <2> QED BY <1>0, <2>5, <2>6
<1>8. CASE Pl!Publish(h)
  <2>1. /\ handler' = [handler EXCEPT ![h] = Pl!NoHandler] /\ live' = s.read
        /\ inForce' = [p \in Pools |-> strategy]
        /\ UNCHANGED <<table, muddled, setting, strategy, crossed>>
        /\ answered' = IF s.on = "none" THEN answered
                       ELSE [answered EXCEPT ![s.on] = Pl!Max({@, s.wrote})]
    BY <1>8 DEF Pl!Publish, Pl!Answers
  <2>2. Steps(h)
    BY <2>1, NoHandlerBounds DEF Steps
  <2>3. /\ s.read \in [Pl!Table -> Versions] /\ s.on \in Pl!Table \cup {"none"}
        /\ s.wrote \in Pl!Version
    BY <1>0 DEF HandlerBounds
  <2>4. answered' \in [Pl!Table -> Pl!Version]
    <3>1. CASE s.on = "none"
      BY <1>0, <2>1, <3>1
    <3>2. CASE s.on # "none"
      <4> DEFINE a == answered[s.on]
                 b == s.wrote
      <4>1. s.on \in Pl!Table
        BY <2>3, <3>2
      <4>2. a \in Pl!Version /\ b \in Pl!Version
        BY <1>0, <2>3, <4>1
      <4>3. Pl!Max({a, b}) \in {a, b} /\ a <= Pl!Max({a, b})
        <5>1. a \in Int /\ b \in Int
          BY <4>2, VersionsAre
        <5> QED BY <5>1, MaxOfTwo
      <4>4. Pl!Max({a, b}) \in Pl!Version
        <5> HIDE DEF a, b
        <5> QED BY <4>2, <4>3, VersionsAre
      <4>5. answered' = [answered EXCEPT ![s.on] = Pl!Max({a, b})]
        BY <2>1, <3>2
      <4> HIDE DEF a, b
      <4> QED BY <1>0, <4>1, <4>4, <4>5
    <3> QED BY <3>1, <3>2
  <2> QED BY <1>0, <2>1, <2>2, <2>3, <2>4
<1> QED BY <1>1, <1>2, <1>3, <1>4, <1>5, <1>6, <1>7, <1>8 DEF Pl!ReloadStep

LEMMA RoutingTypes ==
  ASSUME PlaneBounds, NEW h \in Handlers, Pl!RoutingStep(h)
  PROVE  /\ Steps(h) /\ UNCHANGED <<table, live, answered, muddled>>
         /\ setting' \in [value : Strategies, writes : Pl!Version] /\ strategy' \in Strategies
         /\ inForce' \in [Pools -> Strategies] /\ crossed' \in BOOLEAN
<1> DEFINE s == handler[h]
<1>0. /\ s \in HandlerBounds /\ Placed(s) /\ handler \in [Handlers -> HandlerBounds]
      /\ setting \in [value : Strategies, writes : Pl!Version] /\ crossed \in BOOLEAN
      /\ strategy \in Strategies /\ inForce \in [Pools -> Strategies]
      /\ s.wants \in Strategies /\ s.todo \in SUBSET Pools
  BY DEF PlaneBounds, HandlerBounds
<1>1. UNCHANGED <<table, live, answered, muddled>>
  BY DEF Pl!RoutingStep, Pl!BeginRouting, Pl!PutSetting, Pl!PutFails, Pl!LoadSetting,
         Pl!LoadFails, Pl!SetStrategy, Pl!SetPool, Pl!planeData
<1>2. CASE Pl!BeginRouting(h)
  <2>1. PICK w \in Strategies :
          handler' = [handler EXCEPT ![h] = [Pl!NoHandler EXCEPT !.at = "put", !.wants = w]]
    BY <1>2 DEF Pl!BeginRouting
  <2>2. LET c == [Pl!NoHandler EXCEPT !.at = "put", !.wants = w]
        IN  c \in HandlerBounds /\ Placed(c)
    BY NoHandlerBounds DEF HandlerBounds, Placed, Stations
  <2>3. Steps(h)
    BY <2>1, <2>2 DEF Steps
  <2>4. UNCHANGED <<setting, strategy, inForce>> /\ crossed' \in BOOLEAN
    <3>1. /\ UNCHANGED <<setting, strategy, inForce>>
          /\ crossed' = (crossed \/ Pl!Others(h, Pl!Routing))
      BY <1>2 DEF Pl!BeginRouting
    <3>2. Pl!Others(h, Pl!Routing) \in BOOLEAN
      BY DEF Pl!Others
    <3> QED BY <1>0, <3>1, <3>2
  <2> QED BY <1>0, <1>1, <2>3, <2>4
<1>3. CASE Pl!PutSetting(h)
  <2>1. /\ setting' = [value |-> s.wants, writes |-> setting.writes + 1]
        /\ UNCHANGED <<strategy, inForce, crossed>> /\ Pl!Writes < MaxWrites
    BY <1>3 DEF Pl!PutSetting
  <2>2. handler' = [handler EXCEPT ![h] = [s EXCEPT !.at = "load"]]
    BY <1>0, <1>3 DEF Pl!PutSetting
  <2>3. Steps(h)
    <3>1. [s EXCEPT !.at = "load"] \in HandlerBounds /\ Placed([s EXCEPT !.at = "load"])
      BY <1>0 DEF HandlerBounds, Placed, Stations
    <3> QED BY <2>2, <3>1 DEF Steps
  <2>4. setting.writes + 1 \in Pl!Version
    BY <2>1, RoomToWrite
  <2> QED BY <1>0, <1>1, <2>1, <2>3, <2>4
<1>4. CASE Pl!PutFails(h)
  <2>1. /\ handler' = [handler EXCEPT ![h] = Pl!NoHandler]
        /\ UNCHANGED <<setting, strategy, inForce, crossed>>
    BY <1>4 DEF Pl!PutFails, Pl!routingData
  <2>2. Steps(h)
    BY <2>1, NoHandlerBounds DEF Steps
  <2> QED BY <1>0, <1>1, <2>1, <2>2
<1>5. CASE Pl!LoadSetting(h)
  <2> DEFINE c == [s EXCEPT !.at = "set", !.wants = setting.value]
  <2>1. /\ handler' = [handler EXCEPT ![h] = c]
        /\ UNCHANGED <<setting, strategy, inForce, crossed>>
    BY <1>0, <1>5 DEF Pl!LoadSetting, Pl!routingData
  <2>2. c \in HandlerBounds /\ Placed(c)
    BY <1>0 DEF HandlerBounds, Placed, Stations
  <2>3. Steps(h)
    <3> HIDE DEF c
    <3> QED BY <2>1, <2>2 DEF Steps
  <2> QED BY <1>0, <1>1, <2>1, <2>3
<1>6. CASE Pl!LoadFails(h)
  <2>1. /\ handler' = [handler EXCEPT ![h] = Pl!NoHandler] /\ crossed' = TRUE
        /\ UNCHANGED <<setting, strategy, inForce>>
    BY <1>6 DEF Pl!LoadFails
  <2>2. Steps(h)
    BY <2>1, NoHandlerBounds DEF Steps
  <2> QED BY <1>0, <1>1, <2>1, <2>2
<1>7. CASE Pl!SetStrategy(h)
  <2> DEFINE c == [s EXCEPT !.at = "pools", !.todo = Pools]
  <2>1. /\ handler' = [handler EXCEPT ![h] = c] /\ strategy' = s.wants
        /\ UNCHANGED <<setting, inForce, crossed>>
    BY <1>0, <1>7 DEF Pl!SetStrategy
  <2>2. c \in HandlerBounds /\ Placed(c)
    BY <1>0 DEF HandlerBounds, Placed, Stations
  <2>3. Steps(h)
    <3> HIDE DEF c
    <3> QED BY <2>1, <2>2 DEF Steps
  <2> QED BY <1>0, <1>1, <2>1, <2>3
<1>8. CASE Pl!SetPool(h)
  <2>1. PICK p \in s.todo :
          /\ inForce' = [inForce EXCEPT ![p] = s.wants]
          /\ handler' = [handler EXCEPT ![h] =
               IF s.todo \ {p} = {} THEN Pl!NoHandler ELSE [s EXCEPT !.todo = s.todo \ {p}]]
    BY <1>8 DEF Pl!SetPool
  <2> DEFINE c == [s EXCEPT !.todo = s.todo \ {p}]
  <2>2. c \in HandlerBounds /\ Placed(c)
    BY <1>0 DEF HandlerBounds, Placed, Stations
  <2>3. Steps(h)
    <3> HIDE DEF c
    <3> QED BY <2>1, <2>2, NoHandlerBounds DEF Steps, c
  <2>4. UNCHANGED <<setting, strategy, crossed>>
    BY <1>8 DEF Pl!SetPool
  <2> QED BY <1>0, <1>1, <2>1, <2>3, <2>4
<1> QED BY <1>2, <1>3, <1>4, <1>5, <1>6, <1>7, <1>8 DEF Pl!RoutingStep

LEMMA PlaneTyped == Spec => []Pl!TypeOK
<1>1. ASSUME PlaneBounds, [Pl!Next]_(Pl!vars) PROVE PlaneBounds'
  <2>1. ASSUME NEW h \in Handlers, Pl!ReloadStep(h) PROVE PlaneBounds'
    BY <1>1, <2>1, ReloadTypes, StepsAreTyped DEF PlaneBounds
  <2>2. ASSUME NEW h \in Handlers, Pl!RoutingStep(h) PROVE PlaneBounds'
    BY <1>1, <2>2, RoutingTypes, StepsAreTyped DEF PlaneBounds
  <2>3. CASE UNCHANGED Pl!vars
    BY <1>1, <2>3 DEF Pl!vars, Pl!planeData, Pl!routingData, PlaneBounds
  <2> QED BY <1>1, <2>1, <2>2, <2>3 DEF Pl!Next
<1>2. PlaneBounds => Pl!TypeOK
  BY TablesOfThePlane DEF PlaneBounds, Pl!TypeOK, HandlerBounds, Stations, Versions
<1> QED BY <1>1, <1>2, PlaneBoundsInit, ServicesAreIndependent, PTL DEF Pl!Spec


-----------------------------------------------------------------------------
(* Types of the browser sign-in.  A flow is imported no more often than it   *)
(* was polled: each poll that has not imported yet may still do so.         *)

Due(f) == {c \in Polls : console[c].for = f /\ console[c].at \in {"ask", "find", "write"}}

FlowBounds ==
  /\ begun \in 0 .. MaxCalls
  /\ \A f \in Flows : imports[f] + Cardinality(Due(f)) <= begun
  /\ overdue \subseteq Flows /\ doubled \subseteq Flows
  /\ excused \subseteq Users /\ unfound \subseteq Users
  /\ checkin \in [Fl!Accounts -> {"absent", "unverified", "verified"}]

\* The calls that may begin with a step are counted.
Counted ==
  /\ begun' \in {begun, begun + 1} /\ (begun' # begun => begun < MaxCalls)
  /\ (\E c \in Polls : console[c].at = "idle" /\ console'[c].at = "ask") => begun' = begun + 1

LEMMA BegunCounts ==
  ASSUME FlowTypes, Fl!Next
  PROVE  Counted
<1>1. console \in [Polls -> CallType]
  BY DEF FlowTypes
<1>2. ASSUME begun' = begun, \A c \in Polls : console[c].at = "idle" => console'[c].at # "ask"
      PROVE  Counted
  BY <1>2 DEF Counted
<1>3. ASSUME begun' = begun, NEW c \in Polls, console[c].at # "idle",
             \A d \in Polls \ {c} : console'[d].at = console[d].at
      PROVE  Counted
  BY <1>2, <1>3
<1>4. ASSUME begun' = begun, console' = console PROVE Counted
  BY <1>2, <1>4
<1>5. ASSUME NEW f \in Flows, Fl!Start(f) \/ Fl!SignIn(f) \/ Fl!Deadline(f) PROVE Counted
  <2>1. begun' = begun /\ console' = console
    BY <1>5 DEF Fl!Start, Fl!SignIn, Fl!Deadline, Fl!history
  <2> QED BY <1>4, <2>1
<1>6. ASSUME NEW a \in Fl!Accounts, Fl!ManualCheckin(a) PROVE Counted
  <2>1. begun' = begun /\ console' = [d \in Polls |-> Fl!Verified(a)[d]]
    BY <1>6 DEF Fl!ManualCheckin, Fl!Verified, Fl!history
  <2>2. \A d \in Polls : Fl!Verified(a)[d].at = console[d].at
    BY VerifiedIsAlike
  <2>3. \A c \in Polls : console[c].at = "idle" => console'[c].at # "ask"
    BY <2>1, <2>2
  <2> QED BY <1>2, <2>1, <2>3
<1>7. ASSUME NEW c \in Polls, Fl!CallStep(c) PROVE Counted
  <2>1. CASE (\E f \in Flows : Fl!Poll(c, f)) \/ Fl!Manual(c)
    <3>1. begun < MaxCalls /\ begun' = begun + 1
      BY <2>1 DEF Fl!Poll, Fl!Manual
    <3> QED BY <3>1 DEF Counted
  <2>2. CASE Fl!AutoVerify(c)
    <3>1. begun' = begun /\ console[c].at = "verify"
      BY <2>2 DEF Fl!AutoVerify, Fl!At, Fl!history
    <3>2. \A d \in Polls \ {c} : console'[d].at = console[d].at
      <4>1. \/ console' = [Fl!Verified(console[c].to) EXCEPT ![c] = Fl!NoCall]
            \/ console' = [console EXCEPT ![c] = Fl!NoCall]
        BY <2>2 DEF Fl!AutoVerify
      <4>2. \A d \in Polls : Fl!Verified(console[c].to)[d].at = console[d].at
        BY VerifiedIsAlike
      <4>3. \A d \in Polls \ {c} : \/ console'[d] = Fl!Verified(console[c].to)[d]
                                   \/ console'[d] = console[d]
        BY <1>1, <4>1 DEF Fl!Verified
      <4> QED BY <4>2, <4>3
    <3> QED BY <1>3, <3>1, <3>2
  <2>3. CASE \/ Fl!StillPending(c) \/ Fl!AskFails(c) \/ Fl!SignedIn(c) \/ Fl!Find(c)
             \/ Fl!FindsNothing(c) \/ Fl!WriteAccount(c) \/ Fl!ImportFails(c) \/ Fl!Look(c) \/ Fl!AddRow(c)
             \/ Fl!Complete(c)
    <3>1. begun' = begun
      BY <2>3 DEF Fl!StillPending, Fl!AskFails, Fl!SignedIn, Fl!Find, Fl!FindsNothing, Fl!Writing, Fl!WriteAccount,
                  Fl!ImportFails, Fl!Look, Fl!AddRow, Fl!Complete, Fl!history
    <3>2. console[c].at # "idle"
      BY <2>3 DEF Fl!StillPending, Fl!AskFails, Fl!SignedIn, Fl!Find, Fl!FindsNothing, Fl!Writing, Fl!WriteAccount,
                  Fl!ImportFails, Fl!Look, Fl!AddRow, Fl!Complete, Fl!At
    <3>3. \A d \in Polls \ {c} : console'[d].at = console[d].at
      BY <1>1, <2>3 DEF Fl!StillPending, Fl!AskFails, Fl!SignedIn, Fl!Find, Fl!FindsNothing, Fl!Writing, Fl!WriteAccount,
                        Fl!ImportFails, Fl!Look, Fl!AddRow, Fl!Complete, Fl!Goto
    <3> QED BY <1>3, <3>1, <3>2, <3>3
  <2> QED BY <1>7, <2>1, <2>2, <2>3 DEF Fl!CallStep
<1> QED BY <1>5, <1>6, <1>7 DEF Fl!Next

LEMMA DueFinite ==
  ASSUME NEW f
  PROVE  IsFiniteSet(Due(f)) /\ Cardinality(Due(f)) \in Nat
<1>1. Due(f) \in SUBSET Polls
  BY DEF Due
<1> QED BY <1>1, ServiceAssumption, FS_Subset, FS_CardinalityType

LEMMA ImportsBounded ==
  ASSUME FlowTypes, FlowBounds, Fl!Next, NEW f \in Flows
  PROVE  imports'[f] + Cardinality(Due(f)') <= begun'
<1> DEFINE D == Due(f)
           E == Due(f)'
<1>1. /\ imports[f] + Cardinality(D) <= begun /\ begun \in Nat /\ imports[f] \in Nat
      /\ IsFiniteSet(D) /\ Cardinality(D) \in Nat
  BY DueFinite, ServiceAssumption DEF FlowBounds, FlowTypes
<1>2. Counted /\ FlowStep
  BY BegunCounts, FlowSteps
<1>3. begun' \in Nat /\ begun <= begun'
  BY <1>1, <1>2 DEF Counted
<1>4. E = {c \in Polls : console'[c].for = f /\ console'[c].at \in {"ask", "find", "write"}}
  BY DEF Due
<1>5. D = {c \in Polls : console[c].for = f /\ console[c].at \in {"ask", "find", "write"}}
  BY DEF Due
<1> HIDE DEF D, E
<1>6. ASSUME E \subseteq D, imports'[f] = imports[f]
      PROVE  imports'[f] + Cardinality(E) <= begun'
  <2>1. Cardinality(E) <= Cardinality(D) /\ Cardinality(E) \in Nat
    BY <1>1, <1>6, FS_Subset, FS_CardinalityType
  <2> QED BY <1>1, <1>3, <1>6, <2>1
<1>7. ASSUME Rests
      PROVE  imports'[f] + Cardinality(E) <= begun'
  <2>1. E \subseteq D /\ imports' = imports
    BY <1>4, <1>5, <1>7 DEF Rests, Alike
  <2> QED BY <1>6, <2>1
<1>8. ASSUME NEW c \in Polls, NEW e \in CallType, Turns(c, e),
             Asks(c, e) \/ Moves(c, e) \/ Finds(c, e) \/ Writes(c, e) \/ Ends(c, e)
      PROVE  imports'[f] + Cardinality(E) <= begun'
  <2>1. console'[c] = e /\ \A o \in Polls \ {c} : o \in E <=> o \in D
    BY <1>4, <1>5, <1>8 DEF Turns, Alike
  <2>2. CASE Asks(c, e)
    <3>1. begun' = begun + 1 /\ imports' = imports
      BY <1>2, <2>1, <2>2 DEF Asks, Counted
    <3>2. E \subseteq D \cup {c}
      BY <1>4, <2>1
    <3>3. IsFiniteSet(D \cup {c}) /\ Cardinality(D \cup {c}) <= Cardinality(D) + 1
          /\ Cardinality(D \cup {c}) \in Nat
      BY <1>1, FS_AddElement
    <3>4. Cardinality(E) <= Cardinality(D \cup {c}) /\ Cardinality(E) \in Nat
      BY <3>2, <3>3, FS_Subset, FS_CardinalityType
    <3> QED BY <1>1, <3>1, <3>3, <3>4
  <2>3. CASE Moves(c, e) \/ Finds(c, e) \/ Ends(c, e)
    <3>1. imports' = imports
      BY <2>3 DEF Moves, Finds, Ends
    <3>2. c \in E => c \in D
      BY <1>4, <1>5, <2>1, <2>3, NamesOfFlows DEF Moves, Finds, Ends
    <3>3. E \subseteq D
      <4>1. E \subseteq Polls
        BY <1>4
      <4> QED BY <2>1, <3>2, <4>1
    <3> QED BY <1>6, <3>1, <3>3
  <2>4. CASE Writes(c, e)
    <3>1. c \notin E
      BY <1>4, <2>1, <2>4 DEF Writes
    <3>2. E \subseteq D \ {c}
      <4>1. E \subseteq Polls
        BY <1>4
      <4> QED BY <2>1, <3>1, <4>1
    <3>3. imports'[f] = imports[f] + (IF console[c].for = f THEN 1 ELSE 0)
      BY <2>4 DEF Writes
    <3>4. CASE console[c].for = f
      <4>1. c \in D
        BY <1>5, <2>4, <3>4 DEF Writes
      <4>2. IsFiniteSet(D \ {c}) /\ Cardinality(D \ {c}) = Cardinality(D) - 1
        BY <1>1, <4>1, FS_RemoveElement
      <4>3. Cardinality(E) <= Cardinality(D \ {c}) /\ Cardinality(E) \in Nat
        BY <3>2, <4>2, FS_Subset, FS_CardinalityType
      <4> QED BY <1>1, <1>3, <3>3, <3>4, <4>2, <4>3
    <3>5. CASE console[c].for # f
      <4>1. imports'[f] = imports[f] /\ E \subseteq D
        BY <1>1, <3>2, <3>3, <3>5
      <4> QED BY <1>6, <4>1
    <3> QED BY <3>4, <3>5
  <2> QED BY <1>8, <2>2, <2>3, <2>4
<1>9. imports'[f] + Cardinality(E) <= begun'
  BY <1>2, <1>7, <1>8 DEF FlowStep
<1> QED BY <1>9 DEF E

LEMMA HistoryTypes ==
  ASSUME FlowTypes, FlowBounds, Fl!Next
  PROVE  /\ overdue' \subseteq Flows /\ doubled' \subseteq Flows
         /\ excused' \subseteq Users /\ unfound' \subseteq Users
         /\ checkin' \in [Fl!Accounts -> {"absent", "unverified", "verified"}]
<1>1. /\ overdue \subseteq Flows /\ doubled \subseteq Flows
      /\ excused \subseteq Users /\ unfound \subseteq Users
      /\ checkin \in [Fl!Accounts -> {"absent", "unverified", "verified"}]
  BY DEF FlowBounds
<1>2. CASE \E f \in Flows : Fl!Start(f) \/ Fl!SignIn(f) \/ Fl!Deadline(f)
  BY <1>1, <1>2 DEF Fl!Start, Fl!SignIn, Fl!Deadline, Fl!rows, Fl!history
<1>3. CASE \E a \in Fl!Accounts : Fl!ManualCheckin(a)
  BY <1>1, <1>3 DEF Fl!ManualCheckin, Fl!flowData, Fl!history
<1>4. ASSUME NEW c \in Polls, Fl!CallStep(c)
      PROVE  /\ overdue' \subseteq Flows /\ doubled' \subseteq Flows
         /\ excused' \subseteq Users /\ unfound' \subseteq Users
             /\ checkin' \in [Fl!Accounts -> {"absent", "unverified", "verified"}]
  <2>1. CASE \E f \in Flows : Fl!Poll(c, f)
    BY <1>1, <2>1 DEF Fl!Poll, Fl!rows
  <2>2. CASE Fl!Find(c) \/ Fl!FindsNothing(c)
    <3>1. overdue' = overdue /\ doubled' = doubled /\ checkin' = checkin
      BY <2>2 DEF Fl!Find, Fl!FindsNothing, Fl!flowData, Fl!rows
    <3>2. /\ console[c].who \in Fl!Identity /\ console[c].asked \in Fl!Accounts \cup {Fl!New}
          /\ account \in [Fl!Accounts -> Fl!Identity \cup {None}]
      BY DEF FlowTypes, CallType
    <3>3. Fl!IdentityFor(c) \in Fl!Identity
      BY <3>2 DEF Fl!IdentityFor
    <3>4. \A u \in Fl!Identity : u # Opaque => u \in Users
      BY DEF Fl!Identity
    <3>5. ASSUME NEW u \in Fl!Identity, Fl!Excuses(c, u) PROVE excused' \subseteq Users
      BY <1>1, <3>4, <3>5 DEF Fl!Excuses
    <3>6. excused' \subseteq Users
      BY <2>2, <3>2, <3>3, <3>5 DEF Fl!Find, Fl!FindsNothing
    <3>7. unfound' \subseteq Users
      BY <1>1, <2>2, <3>2, <3>4 DEF Fl!Find, Fl!FindsNothing
    <3> QED BY <1>1, <3>1, <3>6, <3>7
  <2>3. CASE Fl!AddRow(c) \/ Fl!AutoVerify(c)
    <3>1. overdue' = overdue /\ doubled' = doubled /\ excused' = excused /\ unfound' = unfound
      BY <2>3 DEF Fl!AddRow, Fl!AutoVerify, Fl!flowData, Fl!history
    <3>2. checkin' \in [Fl!Accounts -> {"absent", "unverified", "verified"}]
      BY <1>1, <2>3 DEF Fl!AddRow, Fl!AutoVerify
    <3> QED BY <1>1, <3>1, <3>2
  <2>4. CASE \/ Fl!StillPending(c) \/ Fl!AskFails(c) \/ Fl!SignedIn(c) \/ Fl!Manual(c)
             \/ Fl!WriteAccount(c) \/ Fl!ImportFails(c) \/ Fl!Look(c) \/ Fl!Complete(c)
    <3>1. UNCHANGED <<overdue, doubled, excused, unfound, checkin>>
      BY <2>4 DEF Fl!StillPending, Fl!AskFails, Fl!SignedIn, Fl!Manual, Fl!WriteAccount,
                  Fl!ImportFails, Fl!Look, Fl!Complete, Fl!flowData, Fl!rows, Fl!history
    <3> QED BY <1>1, <3>1
  <2> QED BY <1>4, <2>1, <2>2, <2>3, <2>4 DEF Fl!CallStep
<1> QED BY <1>2, <1>3, <1>4 DEF Fl!Next

LEMMA FlowBoundsInit == ASSUME Fl!Init PROVE FlowBounds
<1>1. /\ begun = 0 /\ imports = [f \in Flows |-> 0] /\ overdue = {} /\ doubled = {}
      /\ excused = {} /\ unfound = {} /\ checkin = [a \in Fl!Accounts |-> "absent"]
      /\ console = [c \in Polls |-> Fl!NoCall]
  BY DEF Fl!Init
<1>2. ASSUME NEW f \in Flows PROVE Due(f) = {}
  BY <1>1, NoCallType DEF Due
<1>3. \A f \in Flows : imports[f] + Cardinality(Due(f)) <= begun
  BY <1>1, <1>2, FS_EmptySet
<1>4. 0 \in 0 .. MaxCalls
  BY ServiceAssumption
<1>5. checkin \in [Fl!Accounts -> {"absent", "unverified", "verified"}]
  BY <1>1
<1> QED BY <1>1, <1>3, <1>4, <1>5 DEF FlowBounds

LEMMA FlowTyped == Spec => []Fl!TypeOK
<1>1. ASSUME FlowInv, FlowBounds, [Fl!Next]_(Fl!vars) PROVE FlowBounds'
  <2>1. CASE Fl!Next
    <3>1. begun' \in 0 .. MaxCalls
      BY <1>1, <2>1, BegunCounts, ServiceAssumption DEF FlowInv, FlowBounds, Counted
    <3>2. \A f \in Flows : (imports[f] + Cardinality(Due(f)) <= begun)'
      BY <1>1, <2>1, ImportsBounded DEF FlowInv
    <3> QED BY <1>1, <2>1, <3>1, <3>2, HistoryTypes DEF FlowInv, FlowBounds
  <2>2. CASE UNCHANGED Fl!vars
    BY <1>1, <2>2 DEF Fl!vars, Fl!flowData, Fl!rows, Fl!history, FlowBounds, Due
  <2> QED BY <1>1, <2>1, <2>2
<1>2. ASSUME FlowInv, FlowBounds PROVE Fl!TypeOK
  <2>1. ASSUME NEW f \in Flows PROVE imports[f] \in 0 .. MaxCalls
    <3>1. imports[f] \in Nat /\ imports[f] + Cardinality(Due(f)) <= begun /\ begun \in 0 .. MaxCalls
      BY <1>2 DEF FlowInv, FlowTypes, FlowBounds
    <3> QED BY <3>1, DueFinite, ServiceAssumption
  <2>2. imports \in [Flows -> 0 .. MaxCalls]
    BY <1>2, <2>1 DEF FlowInv, FlowTypes
  <2> QED BY <1>2, <2>2 DEF FlowInv, FlowTypes, FlowBounds, Fl!TypeOK, CallType, FlowType
<1> QED BY <1>1, <1>2, FlowBoundsInit, FlowAlways, ServicesAreIndependent, PTL DEF Fl!Spec

=============================================================================
