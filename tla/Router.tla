------------------------------- MODULE Router -------------------------------
(***************************************************************************)
(* The order in which one model's requests try the providers                *)
(* (internal/providers/router.go): smooth weighted round robin inside the   *)
(* priority tiers, the provider of a pinned conversation first, cooldowns   *)
(* of failed routes, and a new router with every reload while requests of   *)
(* the old one go on.  What a pool does with a request is the environment.  *)
(***************************************************************************)
EXTENDS Integers, Sequences, FiniteSets, FiniteSetsExt, SequencesExt

CONSTANTS
  Routes,     \* the model's providers in the order of the catalog, each once
  Policies,   \* the policies that may be stored: provider -> priority, weight, enabled
  Requests,   \* concurrent callers of Complete and Stream
  Unpinned,   \* no provider
  MaxReload,  \* bound: reloads
  MaxDraws    \* bound: draws in all

Providers == ToSet(Routes)
Routers == 0 .. MaxReload

VARIABLES
  router,     \* the router that new requests get
  policy,     \* the policies of each router
  counter,    \* RouteScheduler.counters
  resting,    \* Router.cooldown: the routes inside their cooldown, for each router
  pinnedTo,   \* the provider of the conversation's pin
  asked,      \* each request
  wins        \* history: draws that each provider won

vars == <<router, policy, counter, resting, pinnedTo, asked, wins>>

NoRequest == [at |-> "idle", on |-> 0, order |-> <<>>, tried |-> {}, talk |-> FALSE]

TypeOK ==
  /\ router \in Routers
  /\ policy \in [Routers -> Policies]
  /\ counter \in [Routers -> [Providers -> Int]]
  /\ resting \in [Routers -> SUBSET Providers]
  /\ pinnedTo \in Providers \cup {Unpinned}
  /\ asked \in [Requests ->
       [at : {"idle", "pin", "try", "call", "forget", "drop", "stream"}, on : Routers,
        order : BoundedSeq(Providers, Len(Routes)), tried : SUBSET Providers, talk : BOOLEAN]]
  /\ wins \in [Routers -> [Providers -> 0 .. MaxDraws]]

Init ==
  /\ router = 0
  /\ \E p \in Policies : policy = [g \in Routers |-> p]
  /\ counter = [g \in Routers |-> [p \in Providers |-> 0]]
  /\ resting = [g \in Routers |-> {}]
  /\ pinnedTo = Unpinned
  /\ asked = [r \in Requests |-> NoRequest]
  /\ wins = [g \in Routers |-> [p \in Providers |-> 0]]

-----------------------------------------------------------------------------
(* RouteScheduler.                                                         *)

Weight(g, p) == IF policy[g][p].enabled THEN policy[g][p].weight ELSE 0
Tier(g, n) == {p \in Providers : Weight(g, p) > 0 /\ policy[g][p].priority = n}
Tiers(g) == {policy[g][p].priority : p \in {q \in Providers : Weight(g, q) > 0}}
Total(g, n) == MapThenSumSet(LAMBDA p : Weight(g, p), Tier(g, n))
Ahead(p, q) == \E i, j \in DOMAIN Routes : i < j /\ Routes[i] = p /\ Routes[j] = q

\* draw: everybody gains its weight, the first of the richest wins the tier.
Raised(g, p) == counter[g][p] + Weight(g, p)
Winner(g, n) ==
  CHOOSE p \in Tier(g, n) : \A q \in Tier(g, n) \ {p} :
    Raised(g, p) > Raised(g, q) \/ (Raised(g, p) = Raised(g, q) /\ Ahead(p, q))
Winners(g) == {Winner(g, n) : n \in Tiers(g)}

\* Mutation: a draw does not cost the winner anything.
PaidNothing(g) ==
  [p \in Providers |-> IF Weight(g, p) > 0 THEN Raised(g, p) ELSE counter[g][p]]

\* A draw costs the winner what the whole tier gained.
Paid(g) ==
  [p \in Providers |->
    IF Weight(g, p) = 0 THEN counter[g][p]
    ELSE Raised(g, p) - (IF p \in Winners(g) THEN Total(g, policy[g][p].priority) ELSE 0)]

\* Which of two providers goes first: those without a usable policy are last, the
\* tiers go by their priority, and a tier by its winner and then the catalog.
Before(g, p, q) ==
  LET last(x) == Weight(g, x) = 0
      tier(x) == IF last(x) THEN 0 ELSE policy[g][x].priority
      beside == (last(p) <=> last(q)) /\ tier(p) = tier(q)
  IN \/ ~ last(p) /\ last(q)
     \/ (last(p) <=> last(q)) /\ tier(p) < tier(q)
     \/ beside /\ p \in Winners(g) /\ q \notin Winners(g)
     \/ beside /\ (p \in Winners(g) <=> q \in Winners(g)) /\ Ahead(p, q)

\* Order: each provider in the place that those before it leave.
Order(g) ==
  [i \in DOMAIN Routes |->
    CHOOSE p \in Providers : Cardinality({q \in Providers : Before(g, q, p)}) = i - 1]

-----------------------------------------------------------------------------
(* Router.Complete and Stream.                                             *)

\* policyOrder, in one critical section of the scheduler's mutex.
Begin(r) ==
  /\ asked[r].at = "idle"
  /\ MapThenSumSet(LAMBDA g : MapThenSumSet(LAMBDA p : wins[g][p], Providers), Routers)
       < MaxDraws
  /\ \E talk \in BOOLEAN :
       asked' = [asked EXCEPT ![r] =
         [at |-> IF talk THEN "pin" ELSE "try", on |-> router, order |-> Order(router),
          tried |-> {}, talk |-> talk]]
  /\ counter' = [counter EXCEPT ![router] = Paid(router)]
  /\ wins' = [wins EXCEPT ![router] =
       [p \in Providers |-> IF p \in Winners(router) THEN @[p] + 1 ELSE @[p]]]
  /\ UNCHANGED <<router, policy, resting, pinnedTo>>

\* Mutation: the pinned provider is put first and stays in its place too.
PinnedFirstKept(order) ==
  IF pinnedTo \in ToSet(order) THEN <<pinnedTo>> \o order ELSE order

\* The provider of the pin outranks the tiers.
PinnedFirst(order) ==
  LET places == {i \in DOMAIN order : order[i] = pinnedTo}
  IN IF places = {} THEN order ELSE <<pinnedTo>> \o RemoveAt(order, Min(places))

Lookup(r) ==
  /\ asked[r].at = "pin"
  /\ asked' = [asked EXCEPT ![r].at = "try", ![r].order = PinnedFirst(@)]
  /\ UNCHANGED <<router, policy, counter, resting, pinnedTo, wins>>

Called(r) == Head(asked[r].order)

\* The next route of the order is called if it does not rest and its pool has an
\* account to offer, which may be so or not at any time.
Try(r) ==
  /\ asked[r].at = "try"
  /\ \/ /\ asked[r].order # <<>> /\ Called(r) \notin resting[asked[r].on]
        /\ asked' = [asked EXCEPT ![r].at = "call"]
     \/ asked[r].order # <<>> /\ asked' = [asked EXCEPT ![r].order = Tail(@)]
     \/ asked[r].order = <<>> /\ asked' = [asked EXCEPT ![r] = NoRequest]
  /\ UNCHANGED <<router, policy, counter, resting, pinnedTo, wins>>

\* The pool served it and pinned the conversation; a stream is still to be read.
\* An abort of the caller and a request that the upstream rejects end it, too.
CallReturns(r) ==
  /\ asked[r].at = "call"
  /\ \/ /\ pinnedTo' = IF asked[r].talk THEN Called(r) ELSE pinnedTo
        /\ \/ asked' = [asked EXCEPT ![r] = NoRequest]
           \/ asked' = [asked EXCEPT ![r].at = "stream"]
     \/ asked' = [asked EXCEPT ![r] = NoRequest] /\ UNCHANGED pinnedTo
  /\ UNCHANGED <<router, policy, counter, resting, wins>>

\* markFailed, on the router that the request began with.
MarkFailed(r) == resting' = [resting EXCEPT ![asked[r].on] = @ \cup {Called(r)}]

\* Any other failure cools the route and goes on behind it, unless the caller has
\* left by now.
CallFails(r) ==
  /\ asked[r].at = "call"
  /\ MarkFailed(r)
  /\ \/ asked' = [asked EXCEPT ![r].at = IF asked[r].talk THEN "forget" ELSE "try",
                               ![r].order = IF asked[r].talk THEN @ ELSE Tail(@),
                               ![r].tried = @ \cup {Called(r)}]
     \/ asked' = [asked EXCEPT ![r] = NoRequest]
  /\ UNCHANGED <<router, policy, counter, pinnedTo, wins>>

\* forgetPinnedProvider: Pinned, and then Forget of whatever the pin is by then.
Peek(r) ==
  /\ asked[r].at = "forget"
  /\ asked' = [asked EXCEPT ![r].at = IF pinnedTo = Called(r) THEN "drop" ELSE "try",
                            ![r].order = IF pinnedTo = Called(r) THEN @ ELSE Tail(@)]
  /\ UNCHANGED <<router, policy, counter, resting, pinnedTo, wins>>

Forget(r) ==
  /\ asked[r].at = "drop"
  /\ pinnedTo' = Unpinned
  /\ asked' = [asked EXCEPT ![r].at = "try", ![r].order = Tail(@)]
  /\ UNCHANGED <<router, policy, counter, resting, wins>>

\* The stream is read to its end, is left by its reader, or fails after a frame.
StreamEnds(r) ==
  /\ asked[r].at = "stream"
  /\ asked' = [asked EXCEPT ![r] = NoRequest]
  /\ UNCHANGED <<router, policy, counter, resting, pinnedTo, wins>>

\* It fails before the first frame: its own router's route is cooled.
StreamFails(r) ==
  /\ asked[r].at = "stream"
  /\ MarkFailed(r)
  /\ asked' = [asked EXCEPT ![r] = NoRequest]
  /\ UNCHANGED <<router, policy, counter, pinnedTo, wins>>

-----------------------------------------------------------------------------
(* Environment.                                                            *)

\* Reload: a router of the stored policies, without cooldowns and counters.
Reload ==
  /\ router < MaxReload
  /\ router' = router + 1
  /\ \E p \in Policies : policy' = [policy EXCEPT ![router + 1] = p]
  /\ UNCHANGED <<counter, resting, pinnedTo, asked, wins>>

\* The cooldown of a route is over.
CooldownEnds ==
  /\ \E g \in Routers : \E p \in resting[g] : resting' = [resting EXCEPT ![g] = @ \ {p}]
  /\ UNCHANGED <<router, policy, counter, pinnedTo, asked, wins>>

\* The pin expires, or the account it names fails in its pool.
PinEnds == /\ pinnedTo # Unpinned /\ pinnedTo' = Unpinned
           /\ UNCHANGED <<router, policy, counter, resting, asked, wins>>

RequestStep(r) ==
  \/ Begin(r) \/ Lookup(r) \/ Try(r) \/ CallReturns(r) \/ CallFails(r)
  \/ Peek(r) \/ Forget(r) \/ StreamEnds(r) \/ StreamFails(r)

Next == (\E r \in Requests : RequestStep(r)) \/ Reload \/ CooldownEnds \/ PinEnds

Spec == Init /\ [][Next]_vars

-----------------------------------------------------------------------------
(* Properties.                                                             *)

\* draw: after any number of whole turns of a tier each of its providers has won
\* exactly its weight per turn, although concurrent requests drew them and
\* whichever routes were skipped, pinned or failed afterwards.
SharesAreExact ==
  \A g \in Routers : \A n \in Tiers(g) :
    LET drawn == MapThenSumSet(LAMBDA p : wins[g][p], Tier(g, n))
    IN drawn % Total(g, n) = 0 =>
         \A p \in Tier(g, n) : wins[g][p] = Weight(g, p) * (drawn \div Total(g, n))

\* A request calls no route a second time that failed it before, in whatever
\* place the pin and the tiers have put it.
NoRouteTwice == \A r \in Requests : asked[r].at = "call" => Called(r) \notin asked[r].tried
=============================================================================
