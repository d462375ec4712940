-------------------------------- MODULE Pool --------------------------------
(***************************************************************************)
(* One provider's account pool (internal/providers/pool.go) under          *)
(* concurrent requests, snapshot reloads and administrator changes.        *)
(*                                                                         *)
(* A step of this module is one critical section of Pool.mu or Affinity.mu *)
(* together with the local code around it, so every interleaving of the    *)
(* goroutines that share a pool is a behaviour.  A request is one call of  *)
(* Pool.Complete or Pool.Stream; a stream keeps its lease until the        *)
(* poolStream is finished.                                                 *)
(*                                                                         *)
(* A slot object (the Go pointer *slot) is the pair <<key, generation>>:   *)
(* replacing the credential of a key makes a new object, and a request may *)
(* hold the old one.  Deadlines are absolute instants and 0 is "no entry", *)
(* which the code cannot tell from an entry that expired.  The choice      *)
(* among healthy accounts (round robin, weighted, fill first) is left open *)
(* here: the properties hold for every strategy.                           *)
(***************************************************************************)
EXTENDS Integers, FiniteSets

CONSTANTS
  Keys,         \* slot keys, "provider:account"
  Models,       \* model ids a request can name
  Sessions,     \* conversation keys (ChatRequest.SessionKey)
  Requests,     \* concurrent callers of Complete and Stream
  Profiles,     \* the requests a caller may send: [model, session, stream]
  Outcomes,     \* how an upstream attempt may end
  HardSets,     \* the exclusion sets the administrator switches between
  AffinityModes, \* the affinity settings the operator switches between
  ResetDelays,  \* how far ahead a quota error announces its reset
  Cooldown,     \* cooldownSeconds, also modelBlockDefault
  BlockMax,     \* modelBlockMax
  MaxGen,       \* bound: replacements of one key's credential
  MaxTime,      \* bound: clock ticks
  NoSession,    \* the empty session key
  NoKey,        \* no pin, no account
  OtherKey      \* a pin written by the other provider's pool

ASSUME PoolAssumption ==
  /\ IsFiniteSet(Requests)
  /\ Profiles # {}
  /\ Profiles \subseteq [model : Models, session : Sessions \cup {NoSession},
                         stream : BOOLEAN]
  /\ NoSession \notin Sessions
  /\ NoKey \notin Keys /\ OtherKey \notin Keys /\ NoKey # OtherKey
  /\ Outcomes \subseteq {"ok", "abort", "reject", "quota", "auth", "error"}
  /\ HardSets \subseteq SUBSET (Keys \X Models)
  /\ AffinityModes \subseteq BOOLEAN
  /\ ResetDelays \subseteq Int
  /\ Cooldown \in Nat \ {0} /\ BlockMax \in Nat /\ Cooldown <= BlockMax
  /\ MaxGen \in Nat /\ MaxTime \in Nat

VARIABLES
  live,      \* keys of p.slots
  gen,       \* per key, the generation of its latest slot object
  inFlight,  \* slot.inFlight of every slot object ever made
  closed,    \* slot objects whose provider was handed to Close
  failed,    \* p.failed: end of a key's generic cooldown
  blocked,   \* p.modelBlocked: end of a (key, model) quota block
  hard,      \* p.hardBlocks: administrator exclusions
  rescues,   \* accounts reported to the authRejected hook, not yet repaired
  affinity,  \* Affinity.enabled
  pin,       \* Affinity.entries, unexpired
  now,       \* nowMonotonic
  req        \* the local variables of every request

slotVars == <<live, gen, inFlight, closed>>
healthVars == <<failed, blocked, hard, rescues>>
pinVars == <<affinity, pin>>
vars == <<slotVars, healthVars, pinVars, now, req>>

Slots == Keys \X (0 .. MaxGen)
Blocks == Keys \X Models
PinTargets == Keys \cup {NoKey, OtherKey}

\* The slot object p.slots holds for a live key.
Current(k) == <<k, gen[k]>>

\* A request that is not running holds nothing.
NoSlot == <<NoKey, 0>>
Idle == [pc |-> "idle", want |-> CHOOSE p \in Profiles : TRUE,
         handle |-> NoSlot, tried |-> {}, outcome |-> "ok", resetAt |-> 0]

Request ==
  [pc : {"idle", "acquire", "calling", "mark", "peek", "forget",
         "open", "committed", "ended"},
   want : Profiles,
   handle : Slots \cup {NoSlot},
   tried : SUBSET Keys,
   outcome : {"ok", "quota", "auth", "error"},
   resetAt : Int]

Model(r) == req[r].want.model
Session(r) == req[r].want.session
Served(r) == req[r].handle[1]

\* The states in which a request owns a lease on its handle: the provider call
\* is running, or the stream it opened is not finished.
Leasing == {"calling", "open", "committed"}
Lessees(h) == {r \in Requests : req[r].pc \in Leasing /\ req[r].handle = h}

TypeOK ==
  /\ live \subseteq Keys
  /\ gen \in [Keys -> 0 .. MaxGen]
  /\ inFlight \in [Slots -> Nat]
  /\ closed \subseteq Slots
  /\ failed \in [Keys -> Nat]
  /\ blocked \in [Blocks -> Int]
  /\ hard \subseteq Blocks
  /\ rescues \subseteq Keys
  /\ affinity \in BOOLEAN
  /\ pin \in [Sessions -> PinTargets]
  /\ now \in Nat
  /\ req \in [Requests -> Request]

\* NewPool: an empty pool; NewAffinity: disabled, no pins.
Init ==
  /\ live = {}
  /\ gen = [k \in Keys |-> 0]
  /\ inFlight = [h \in Slots |-> 0]
  /\ closed = {}
  /\ failed = [k \in Keys |-> 0]
  /\ blocked = [b \in Blocks |-> 0]
  /\ hard = {}
  /\ rescues = {}
  /\ affinity = FALSE
  /\ pin = [s \in Sessions |-> NoKey]
  /\ now = 0
  /\ req = [r \in Requests |-> Idle]

-----------------------------------------------------------------------------
(* Selection.                                                              *)

\* A key that is neither cooling nor quota-blocked for the model.
Healthy(k, m) == failed[k] <= now /\ blocked[<<k, m>>] <= now

\* Live keys the administrator allows for the model and this request did not
\* try yet.
Eligible(r) ==
  {k \in live : <<k, Model(r)>> \notin hard /\ k \notin req[r].tried}
HealthyFor(r) == {k \in Eligible(r) : Healthy(k, Model(r))}

\* pinUsable: the conversation's account may serve this request.
PinHit(r) ==
  /\ affinity
  /\ Session(r) # NoSession
  /\ pin[Session(r)] \in HealthyFor(r)

\* sortByReset: by quota deadline, ties by cooldown deadline.
SortsBefore(j, k, m) ==
  \/ blocked[<<j, m>>] < blocked[<<k, m>>]
  \/ blocked[<<j, m>>] = blocked[<<k, m>>] /\ failed[j] <= failed[k]

Canaries(r) ==
  {k \in Eligible(r) : \A j \in Eligible(r) : SortsBefore(k, j, Model(r))}

\* A healthy account under any strategy, otherwise the first canary.
Candidates(r) == IF HealthyFor(r) # {} THEN HealthyFor(r) ELSE Canaries(r)

\* Affinity.Pin: a no-op while affinity is off or the request has no session.
PinTo(s, k) ==
  pin' = IF affinity /\ s # NoSession THEN [pin EXCEPT ![s] = k] ELSE pin

-----------------------------------------------------------------------------
(* A request.                                                              *)

\* Complete or Stream is called: the loop starts with an empty tried set.
Arrive(r) ==
  /\ req[r].pc = "idle"
  /\ \E p \in Profiles :
       req' = [req EXCEPT ![r] = [Idle EXCEPT !.pc = "acquire", !.want = p]]
  /\ UNCHANGED <<slotVars, healthVars, pinVars, now>>

\* The call returns to its caller; its local variables are gone.
Return(r) == req' = [req EXCEPT ![r] = Idle]

\* acquire hands the request the current slot object of k.
Lease(r, k) ==
  /\ req' = [req EXCEPT ![r].pc = "calling", ![r].handle = Current(k)]
  /\ inFlight' = [inFlight EXCEPT ![Current(k)] = @ + 1]

\* acquire, affinity branch: the pin stays as it is.
AcquirePinned(r) ==
  /\ req[r].pc = "acquire"
  /\ PinHit(r)
  /\ Lease(r, pin[Session(r)])
  /\ UNCHANGED <<live, gen, closed, healthVars, pinVars, now>>

\* acquire, draw branch: the conversation is pinned to the account drawn.
AcquireDrawn(r) ==
  /\ req[r].pc = "acquire"
  /\ ~ PinHit(r)
  /\ \E k \in Candidates(r) : Lease(r, k) /\ PinTo(Session(r), k)
  /\ UNCHANGED <<live, gen, closed, healthVars, affinity, now>>

\* acquire returns nil: the last error, or UnavailableError, goes to the caller.
AcquireNone(r) ==
  /\ req[r].pc = "acquire"
  /\ Eligible(r) = {}
  /\ Return(r)
  /\ UNCHANGED <<slotVars, healthVars, pinVars, now>>

\* The context check that follows a failed attempt.
GiveUp(r) ==
  /\ req[r].pc = "acquire" /\ req[r].tried # {}
  /\ Return(r)
  /\ UNCHANGED <<slotVars, healthVars, pinVars, now>>

\* release: one lease less, never below zero.
Release(h) ==
  inFlight' = [inFlight EXCEPT ![h] = IF @ > 0 THEN @ - 1 ELSE @]

\* The stream opened; its lease goes on.
CallOpens(r) ==
  /\ req[r].pc = "calling" /\ req[r].want.stream /\ "ok" \in Outcomes
  /\ req' = [req EXCEPT ![r].pc = "open"]
  /\ UNCHANGED <<slotVars, healthVars, pinVars, now>>

\* The provider call answered, the caller went away, or upstream refused the
\* request itself: the lease is released and nothing else is recorded.
CallEnds(r, o) ==
  /\ req[r].pc = "calling"
  /\ o \in {"abort", "reject"} \/ (o = "ok" /\ ~ req[r].want.stream)
  /\ Release(req[r].handle)
  /\ Return(r)
  /\ UNCHANGED <<live, gen, closed, healthVars, pinVars, now>>

\* Mutation: the failed key is not remembered in tried.
CallFailsUntried(r, o) ==
  /\ req[r].pc = "calling"
  /\ o \in {"quota", "auth", "error"}
  /\ Release(req[r].handle)
  /\ \E d \in ResetDelays :
       req' = [req EXCEPT ![r].pc = "mark",
                          ![r].outcome = o,
                          ![r].resetAt = IF o = "quota" THEN now + d ELSE 0]
  /\ UNCHANGED <<live, gen, closed, healthVars, pinVars, now>>

\* Mutation: the failed slot object is remembered in tried, not its key.
CallFailsTriesSlots(r, o) ==
  /\ req[r].pc = "calling"
  /\ o \in {"quota", "auth", "error"}
  /\ Release(req[r].handle)
  /\ \E d \in ResetDelays :
       req' = [req EXCEPT ![r].pc = "mark",
                          ![r].tried = @ \cup {req[r].handle},
                          ![r].outcome = o,
                          ![r].resetAt = IF o = "quota" THEN now + d ELSE 0]
  /\ UNCHANGED <<live, gen, closed, healthVars, pinVars, now>>

\* The attempt failed for a reason that concerns the account: the lease is
\* released, the key is not tried again and the failure is to be recorded.
CallFails(r, o) ==
  /\ req[r].pc = "calling"
  /\ o \in {"quota", "auth", "error"}
  /\ Release(req[r].handle)
  /\ \E d \in ResetDelays :
       req' = [req EXCEPT ![r].pc = "mark",
                          ![r].tried = @ \cup {Served(r)},
                          ![r].outcome = o,
                          ![r].resetAt = IF o = "quota" THEN now + d ELSE 0]
  /\ UNCHANGED <<live, gen, closed, healthVars, pinVars, now>>

\* Mutation: the reset instant upstream announced is not capped.
BlockLengthUncapped(delay) == IF delay < Cooldown THEN Cooldown ELSE delay

\* The length of a quota block: at least the cooldown, at most BlockMax.
BlockLength(delay) ==
  IF delay < Cooldown THEN Cooldown
  ELSE IF delay > BlockMax THEN BlockMax ELSE delay

\* markModelBlocked: expired entries of other pairs are dropped on the way.
MarkModelBlocked(b, reset) ==
  /\ blocked' = [e \in Blocks |->
                   IF e = b THEN now + BlockLength(reset - now)
                   ELSE IF blocked[e] <= now THEN 0 ELSE blocked[e]]
  /\ UNCHANGED failed

\* Mutation: the generation of the failed attempt is not compared.
MarkFailedAnyGeneration(h) ==
  /\ failed' = IF h[1] \in live THEN [failed EXCEPT ![h[1]] = now + Cooldown]
               ELSE failed
  /\ UNCHANGED blocked

\* markFailed: a failure of a credential that was replaced is not recorded.
MarkFailed(h) ==
  /\ failed' = IF h[1] \in live /\ h = Current(h[1])
               THEN [failed EXCEPT ![h[1]] = now + Cooldown]
               ELSE failed
  /\ UNCHANGED blocked

\* markOutcome: a refused token is reported to the hook, a quota error blocks
\* the pair, any other failure cools the account.
MarkOutcome(r) ==
  /\ req[r].pc = "mark"
  /\ rescues' = IF req[r].outcome = "auth" THEN rescues \cup {Served(r)}
                ELSE rescues
  /\ IF req[r].outcome = "quota"
     THEN MarkModelBlocked(<<Served(r), Model(r)>>, req[r].resetAt)
     ELSE MarkFailed(req[r].handle)
  /\ req' = [req EXCEPT ![r].pc = "peek", ![r].outcome = "ok", ![r].resetAt = 0]
  /\ UNCHANGED <<slotVars, hard, pinVars, now>>

\* forgetSession, first half: Affinity.Pinned.
Peek(r) ==
  /\ req[r].pc = "peek"
  /\ req' = [req EXCEPT ![r].pc =
               IF /\ affinity /\ Session(r) # NoSession
                  /\ pin[Session(r)] = Served(r)
               THEN "forget" ELSE "acquire"]
  /\ UNCHANGED <<slotVars, healthVars, pinVars, now>>

\* forgetSession, second half: Affinity.Forget, whatever the pin is by now.
Forget(r) ==
  /\ req[r].pc = "forget"
  /\ pin' = [pin EXCEPT ![Session(r)] = NoKey]
  /\ req' = [req EXCEPT ![r].pc = "acquire"]
  /\ UNCHANGED <<slotVars, healthVars, affinity, now>>

\* poolStream.Next with a frame: the first one commits the stream.
StreamFrame(r) ==
  /\ req[r].pc = "open"
  /\ req' = [req EXCEPT ![r].pc = "committed"]
  /\ UNCHANGED <<slotVars, healthVars, pinVars, now>>

\* poolStream.Next with an error or EOF: the stream is finished.
StreamStops(r) ==
  /\ req[r].pc \in {"open", "committed"}
  /\ Release(req[r].handle)
  /\ req' = [req EXCEPT ![r].pc = "ended"]
  /\ UNCHANGED <<live, gen, closed, healthVars, pinVars, now>>

\* Mutation: Close releases the lease although Next did already.
StreamCloseReleases(r) ==
  /\ req[r].pc \in {"open", "committed", "ended"}
  /\ Release(req[r].handle)
  /\ Return(r)
  /\ UNCHANGED <<live, gen, closed, healthVars, pinVars, now>>

\* poolStream.Close: finishes the stream unless Next already did.
StreamClose(r) ==
  /\ req[r].pc \in {"open", "committed", "ended"}
  /\ IF req[r].pc = "ended" THEN UNCHANGED inFlight ELSE Release(req[r].handle)
  /\ Return(r)
  /\ UNCHANGED <<live, gen, closed, healthVars, pinVars, now>>

-----------------------------------------------------------------------------
(* The plane and the administrator.                                        *)

\* Mutation: a dropped slot object is closed although requests still use it.
UpdateSlotsClosesAll(next, kept) ==
  /\ \A k \in next \ kept : gen[k] < MaxGen
  /\ gen' = [k \in Keys |-> IF k \in next \ kept THEN gen[k] + 1 ELSE gen[k]]
  /\ live' = next
  /\ closed' = closed \cup {Current(k) : k \in live \ kept}
  /\ failed' = [k \in Keys |-> IF k \in next THEN failed[k] ELSE 0]
  /\ blocked' = [b \in Blocks |-> IF b[1] \in next THEN blocked[b] ELSE 0]
  /\ hard' = {b \in hard : b[1] \in next}
  /\ UNCHANGED <<inFlight, rescues, pinVars, now, req>>

\* UpdateSlots: the keys of next become live; those in kept have an unchanged
\* provider and keep their slot object.  The provider of a slot object that is
\* dropped while nobody uses it is closed; bookkeeping of dead keys is pruned.
UpdateSlots(next, kept) ==
  LET retired == {Current(k) : k \in live \ kept}
  IN
  /\ \A k \in next \ kept : gen[k] < MaxGen
  /\ gen' = [k \in Keys |-> IF k \in next \ kept THEN gen[k] + 1 ELSE gen[k]]
  /\ live' = next
  /\ closed' = closed \cup {h \in retired : inFlight[h] = 0}
  /\ failed' = [k \in Keys |-> IF k \in next THEN failed[k] ELSE 0]
  /\ blocked' = [b \in Blocks |-> IF b[1] \in next THEN blocked[b] ELSE 0]
  /\ hard' = {b \in hard : b[1] \in next}
  /\ UNCHANGED <<inFlight, rescues, pinVars, now, req>>

\* SetHardBlocks: the administrator's exclusions are replaced.
SetHardBlocks(blocks) ==
  /\ hard' = blocks
  /\ UNCHANGED <<slotVars, failed, blocked, rescues, pinVars, now, req>>

\* Affinity.Configure: disabling clears the pins.
ConfigureAffinity(on) ==
  /\ affinity' = on
  /\ pin' = IF on THEN pin ELSE [s \in Sessions |-> NoKey]
  /\ UNCHANGED <<slotVars, healthVars, now, req>>

\* A pin goes away: idle past its lifetime, or evicted from a full map.
PinExpires(s) ==
  /\ pin[s] # NoKey
  /\ pin' = [pin EXCEPT ![s] = NoKey]
  /\ UNCHANGED <<slotVars, healthVars, affinity, now, req>>

\* The other provider's pool, which shares the store, pins the conversation.
OtherPoolPins(s) ==
  /\ affinity
  /\ pin' = [pin EXCEPT ![s] = OtherKey]
  /\ UNCHANGED <<slotVars, healthVars, affinity, now, req>>

\* The owner of the hook takes up a reported account.
RescueTaken(k) ==
  /\ k \in rescues
  /\ rescues' = rescues \ {k}
  /\ UNCHANGED <<slotVars, failed, blocked, hard, pinVars, now, req>>

Tick ==
  /\ now < MaxTime
  /\ now' = now + 1
  /\ UNCHANGED <<slotVars, healthVars, pinVars, req>>

-----------------------------------------------------------------------------

Call(r) ==
  \/ CallOpens(r)
  \/ \E o \in Outcomes : CallEnds(r, o)
  \/ \E o \in Outcomes : CallFails(r, o)

Acquire(r) == AcquirePinned(r) \/ AcquireDrawn(r) \/ AcquireNone(r) \/ GiveUp(r)

Administer ==
  \/ \E next \in SUBSET Keys : \E kept \in SUBSET (next \cap live) :
       UpdateSlots(next, kept)
  \/ \E blocks \in HardSets : SetHardBlocks(blocks)
  \/ \E on \in AffinityModes : ConfigureAffinity(on)

Next ==
  \/ \E r \in Requests :
       \/ Arrive(r)
       \/ Acquire(r)
       \/ Call(r)
       \/ MarkOutcome(r)
       \/ Peek(r)
       \/ Forget(r)
       \/ StreamFrame(r)
       \/ StreamStops(r)
       \/ StreamClose(r)
  \/ Administer
  \/ \E s \in Sessions : PinExpires(s) \/ OtherPoolPins(s)
  \/ \E k \in Keys : RescueTaken(k)
  \/ Tick

Spec == Init /\ [][Next]_vars

\* A goroutine that can go on does: upstream calls end (response headers are
\* bounded by a timeout, a stalled body by the caller hanging up), and the
\* handler reads its stream to the end and closes it.
RequestFairness ==
  \A r \in Requests :
    /\ WF_vars(Acquire(r))
    /\ WF_vars(Call(r))
    /\ WF_vars(MarkOutcome(r))
    /\ WF_vars(Peek(r))
    /\ WF_vars(Forget(r))
    /\ WF_vars(StreamClose(r))

FairSpec == Spec /\ RequestFairness
-----------------------------------------------------------------------------
(* Properties.                                                             *)

\* Every slot object's inFlight counter is the number of requests that hold
\* it, through failover, stream endings and credential replacement: the
\* fill-first tie-break and the decision to close a provider read this counter.
LeasesBalance == \A h \in Slots : inFlight[h] = Cardinality(Lessees(h))

\* A provider handed to Close is neither in use by a request nor in the pool:
\* UpdateSlots never closes a connection under a running request.
ClosedProvidersAreUnused ==
  /\ \A r \in Requests : req[r].pc \in Leasing => req[r].handle \notin closed
  /\ \A k \in live : Current(k) \notin closed

\* The inductive invariant behind these: a request past its draw holds a slot
\* object, leased slot objects were made, and the ones not made yet are open.
HandlesAreSlots ==
  \A r \in Requests : req[r].pc \notin {"idle", "acquire"} =>
    req[r].handle \in Slots
TypeInv == TypeOK /\ HandlesAreSlots
LeasedSlotsExist ==
  \A r \in Requests : req[r].pc \in Leasing =>
    req[r].handle[2] <= gen[req[r].handle[1]]
FutureSlotsAreOpen == \A h \in Slots : h[2] > gen[h[1]] => h \notin closed
LeaseInv ==
  /\ TypeInv
  /\ LeasesBalance
  /\ ClosedProvidersAreUnused
  /\ LeasedSlotsExist
  /\ FutureSlotsAreOpen

\* No failure takes an account out for longer than the configured limits,
\* whatever reset instant upstream announced and however late it is recorded.
ExclusionsAreBounded ==
  /\ \A k \in Keys : failed[k] <= now + Cooldown
  /\ \A b \in Blocks : blocked[b] <= now + BlockMax

\* A cooldown is extended only for a live account whose present credential a
\* request saw fail, and a quota block only for the model of a request that met
\* the quota error: aborted, refused and outdated attempts cool nobody.
CooldownHasCause ==
  [][/\ \A k \in Keys : failed'[k] > failed[k] =>
          k \in live /\ \E r \in Requests :
            /\ req[r].outcome \in {"auth", "error"}
            /\ req[r].handle = Current(k)
     /\ \A b \in Blocks : blocked'[b] > blocked[b] =>
          \E r \in Requests :
            req[r].outcome = "quota" /\ b = <<Served(r), Model(r)>>]_vars

\* Every call of Complete and Stream comes to an end: failover visits each
\* account at most once, however often snapshots are reloaded meanwhile.
RequestsEnd ==
  \A r \in Requests : req[r].pc # "idle" ~> req[r].pc = "idle"

\* pool.go:672: forgetSession "drops the session pin when the pinned account
\* just failed", so the pin it drops names that account.
ForgetDropsTheFailedPin ==
  [][\A r \in Requests : req[r].pc = "forget" /\ req'[r].pc = "acquire" =>
       pin[Session(r)] \in {Served(r), NoKey}]_vars
=============================================================================
