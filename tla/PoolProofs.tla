----------------------------- MODULE PoolProofs -----------------------------
(***************************************************************************)
(* The types of Pool, its lease accounting and the health of its accounts,  *)
(* for every set of accounts, models, conversations and callers: every slot *)
(* object's inFlight counter is the number of requests that hold it, no     *)
(* provider is closed under a request or while it is in the pool, and an    *)
(* account is out for a bounded time and for a cause.                      *)
(***************************************************************************)
EXTENDS Pool, FiniteSetTheorems, TLAPS

-----------------------------------------------------------------------------
(* Types.                                                                  *)

\* The state of a request that is not running is a request state.
LEMMA IdleIsRequest == Idle \in Request
  BY PoolAssumption DEF Idle, Request, NoSlot

\* A live key's slot object is a slot object.
LEMMA CurrentIsSlot == ASSUME TypeOK, NEW k \in Keys PROVE Current(k) \in Slots
  BY DEF TypeOK, Current, Slots

\* A drawn account is live, allowed and not yet tried.
LEMMA CandidatesAreEligible ==
  ASSUME NEW r \in Requests PROVE Candidates(r) \subseteq Eligible(r)
  BY DEF Candidates, Canaries, HealthyFor

\* The initial state is well typed.
LEMMA TypeInit == Init => TypeOK
  <1> SUFFICES ASSUME Init PROVE TypeOK
    OBVIOUS
  <1>1. gen \in [Keys -> 0 .. MaxGen]
    BY PoolAssumption DEF Init
  <1>2. inFlight \in [Slots -> Nat] /\ failed \in [Keys -> Nat]
    BY DEF Init
  <1>3. blocked \in [Blocks -> Int] /\ now \in Nat
    BY DEF Init
  <1>4. pin \in [Sessions -> PinTargets]
    BY DEF Init, PinTargets
  <1>5. req \in [Requests -> Request]
    BY IdleIsRequest DEF Init
  <1> QED BY <1>1, <1>2, <1>3, <1>4, <1>5 DEF Init, TypeOK

\* Taking a lease keeps the types of what it changes.
LEMMA LeaseType ==
  ASSUME TypeOK, NEW r \in Requests, NEW k \in Keys, Lease(r, k)
  PROVE  req' \in [Requests -> Request] /\ inFlight' \in [Slots -> Nat]
  <1>1. Current(k) \in Slots
    BY CurrentIsSlot
  <1>2. req' \in [Requests -> Request]
    <2>1. req \in [Requests -> Request] /\ req[r] \in Request
      BY DEF TypeOK
    <2>2. [req[r] EXCEPT !.pc = "calling", !.handle = Current(k)] \in Request
      BY <1>1, <2>1 DEF Request
    <2> QED BY <2>1, <2>2 DEF Lease
  <1>3. inFlight' \in [Slots -> Nat]
    BY <1>1 DEF TypeOK, Lease
  <1> QED BY <1>2, <1>3

\* Releasing a lease keeps the counters natural.
LEMMA ReleaseType ==
  ASSUME TypeOK, NEW h \in Slots \cup {NoSlot}, Release(h)
  PROVE  inFlight' \in [Slots -> Nat]
  <1>1. inFlight \in [Slots -> Nat]
    BY DEF TypeOK
  <1>2. inFlight' = [s \in Slots |-> IF s = h /\ inFlight[s] > 0
                                    THEN inFlight[s] - 1 ELSE inFlight[s]]
    BY <1>1 DEF Release
  <1>3. \A s \in Slots : inFlight[s] \in Nat
    BY <1>1
  <1> QED BY <1>2, <1>3

\* The end of a call keeps the type of the request table.
LEMMA ReturnType ==
  ASSUME TypeOK, NEW r \in Requests, Return(r)
  PROVE  req' \in [Requests -> Request]
  BY IdleIsRequest DEF TypeOK, Return

\* A quota block keeps the deadlines integers.
LEMMA BlockType ==
  ASSUME TypeOK, NEW b \in Blocks, NEW reset \in Int, MarkModelBlocked(b, reset)
  PROVE  blocked' \in [Blocks -> Int] /\ failed' = failed
  <1>1. BlockLength(reset - now) \in Int
    BY PoolAssumption DEF BlockLength, TypeOK
  <1>2. now \in Int /\ \A e \in Blocks : blocked[e] \in Int
    BY DEF TypeOK
  <1> QED BY <1>1, <1>2 DEF MarkModelBlocked

\* Every step keeps the types.
LEMMA TypeStep == TypeInv /\ [Next]_vars => TypeOK'
  <1> SUFFICES ASSUME TypeOK, HandlesAreSlots, [Next]_vars PROVE TypeOK'
    BY DEF TypeInv
  <1> USE DEF slotVars, healthVars, pinVars
  <1>1. ASSUME NEW r \in Requests, Arrive(r) PROVE TypeOK'
    <2>1. PICK p \in Profiles :
            req' = [req EXCEPT ![r] = [Idle EXCEPT !.pc = "acquire", !.want = p]]
      BY <1>1 DEF Arrive
    <2>2. [Idle EXCEPT !.pc = "acquire", !.want = p] \in Request
      BY IdleIsRequest DEF Request
    <2>3. req' \in [Requests -> Request]
      BY <2>1, <2>2 DEF TypeOK
    <2> QED BY <1>1, <2>3 DEF Arrive, TypeOK
  <1>2. ASSUME NEW r \in Requests, AcquirePinned(r) PROVE TypeOK'
    <2>1. pin[Session(r)] \in Keys
      BY <1>2 DEF AcquirePinned, PinHit, HealthyFor, Eligible, TypeOK
    <2>2. req' \in [Requests -> Request] /\ inFlight' \in [Slots -> Nat]
      BY <1>2, <2>1, LeaseType DEF AcquirePinned
    <2> QED BY <1>2, <2>2 DEF AcquirePinned, TypeOK
  <1>3. ASSUME NEW r \in Requests, AcquireDrawn(r) PROVE TypeOK'
    <2>1. PICK k \in Candidates(r) : Lease(r, k) /\ PinTo(Session(r), k)
      BY <1>3 DEF AcquireDrawn
    <2>2. k \in Keys
      BY CandidatesAreEligible DEF Eligible, TypeOK
    <2>3. req' \in [Requests -> Request] /\ inFlight' \in [Slots -> Nat]
      BY <2>1, <2>2, LeaseType
    <2>4. pin' \in [Sessions -> PinTargets]
      BY <2>1, <2>2 DEF PinTo, TypeOK, PinTargets
    <2> QED BY <1>3, <2>3, <2>4 DEF AcquireDrawn, TypeOK
  <1>4. ASSUME NEW r \in Requests, AcquireNone(r) \/ GiveUp(r) PROVE TypeOK'
    BY <1>4, ReturnType DEF AcquireNone, GiveUp, TypeOK
  <1>5. ASSUME NEW r \in Requests, CallOpens(r) PROVE TypeOK'
    <2>1. [req[r] EXCEPT !.pc = "open"] \in Request
      BY DEF TypeOK, Request
    <2>2. req' \in [Requests -> Request]
      BY <1>5, <2>1 DEF CallOpens, TypeOK
    <2> QED BY <1>5, <2>2 DEF CallOpens, TypeOK
  <1>6. ASSUME NEW r \in Requests, NEW o \in Outcomes, CallEnds(r, o)
        PROVE  TypeOK'
    <2>1. req[r].handle \in Slots \cup {NoSlot}
      BY DEF TypeOK, Request
    <2> QED BY <1>6, <2>1, ReleaseType, ReturnType DEF CallEnds, TypeOK
  <1>7. ASSUME NEW r \in Requests, NEW o \in Outcomes, CallFails(r, o)
        PROVE  TypeOK'
    <2>1. req[r] \in Request /\ req[r].handle \in Slots /\ Served(r) \in Keys
      BY <1>7 DEF TypeOK, HandlesAreSlots, CallFails, Slots, Served
    <2>2. PICK d \in ResetDelays :
            req' = [req EXCEPT ![r].pc = "mark",
                               ![r].tried = @ \cup {Served(r)},
                               ![r].outcome = o,
                               ![r].resetAt = IF o = "quota" THEN now + d ELSE 0]
      BY <1>7 DEF CallFails
    <2>3. (IF o = "quota" THEN now + d ELSE 0) \in Int
      BY PoolAssumption DEF TypeOK
    <2>4. [req[r] EXCEPT !.pc = "mark", !.tried = @ \cup {Served(r)},
                         !.outcome = o,
                         !.resetAt = IF o = "quota" THEN now + d ELSE 0]
            \in Request
      BY <1>7, <2>1, <2>3 DEF Request, CallFails
    <2>5. req' \in [Requests -> Request]
      BY <2>2, <2>4 DEF TypeOK
    <2>6. inFlight' \in [Slots -> Nat]
      BY <1>7, <2>1, ReleaseType DEF CallFails
    <2> QED BY <1>7, <2>5, <2>6 DEF CallFails, TypeOK
  <1>8. ASSUME NEW r \in Requests, MarkOutcome(r) PROVE TypeOK'
    <2>1. req[r] \in Request /\ req[r].handle \in Slots /\ Served(r) \in Keys
      BY <1>8 DEF TypeOK, HandlesAreSlots, MarkOutcome, Slots, Served
    <2>2. [req[r] EXCEPT !.pc = "peek", !.outcome = "ok", !.resetAt = 0]
            \in Request
      <3>1. PICK o \in {"ok"}, t \in {0} : TRUE
        OBVIOUS
      <3>2. req[r] \in Request /\ t \in Int
        BY DEF TypeOK
      <3>3. [req[r] EXCEPT !.pc = "peek", !.outcome = o, !.resetAt = t]
              \in Request
        BY <3>2 DEF Request
      <3> QED BY <3>3
    <2>3. req' \in [Requests -> Request]
      BY <1>8, <2>2 DEF MarkOutcome, TypeOK
    <2>4. rescues' \subseteq Keys
      BY <1>8, <2>1 DEF MarkOutcome, TypeOK
    <2>5. CASE req[r].outcome = "quota"
      <3>1. blocked' \in [Blocks -> Int] /\ failed' = failed
        <4>1. <<Served(r), Model(r)>> \in Blocks /\ req[r].resetAt \in Int
          BY <2>1, PoolAssumption DEF Request, Blocks, Model
        <4> QED BY <1>8, <2>5, <4>1, BlockType DEF MarkOutcome
      <3> QED BY <1>8, <2>3, <2>4, <3>1 DEF MarkOutcome, TypeOK
    <2>6. CASE req[r].outcome # "quota"
      <3>1. failed' \in [Keys -> Nat] /\ blocked' = blocked
        BY <1>8, <2>6, PoolAssumption DEF MarkOutcome, MarkFailed, TypeOK
      <3> QED BY <1>8, <2>3, <2>4, <3>1 DEF MarkOutcome, TypeOK
    <2> QED BY <2>5, <2>6
  <1>9. ASSUME NEW r \in Requests, Peek(r) \/ StreamFrame(r) PROVE TypeOK'
    <2>1. PICK pc \in {"forget", "acquire", "committed"} :
            req' = [req EXCEPT ![r].pc = pc]
      BY <1>9 DEF Peek, StreamFrame
    <2>2. [req[r] EXCEPT !.pc = pc] \in Request
      BY DEF TypeOK, Request
    <2>3. req' \in [Requests -> Request]
      BY <2>1, <2>2 DEF TypeOK
    <2> QED BY <1>9, <2>3 DEF Peek, StreamFrame, TypeOK
  <1>10. ASSUME NEW r \in Requests, Forget(r) PROVE TypeOK'
    <2>1. [req[r] EXCEPT !.pc = "acquire"] \in Request
      BY DEF TypeOK, Request
    <2>2. req' \in [Requests -> Request]
      BY <1>10, <2>1 DEF Forget, TypeOK
    <2>3. pin' \in [Sessions -> PinTargets]
      BY <1>10 DEF Forget, TypeOK, PinTargets
    <2> QED BY <1>10, <2>2, <2>3 DEF Forget, TypeOK
  <1>11. ASSUME NEW r \in Requests, StreamStops(r) PROVE TypeOK'
    <2>1. req[r].handle \in Slots
      BY <1>11 DEF StreamStops, HandlesAreSlots
    <2>2. [req[r] EXCEPT !.pc = "ended"] \in Request
      BY DEF TypeOK, Request
    <2>3. req' \in [Requests -> Request]
      BY <1>11, <2>2 DEF StreamStops, TypeOK
    <2> QED BY <1>11, <2>1, <2>3, ReleaseType DEF StreamStops, TypeOK
  <1>12. ASSUME NEW r \in Requests, StreamClose(r) PROVE TypeOK'
    <2>1. req[r].handle \in Slots
      BY <1>12 DEF StreamClose, HandlesAreSlots
    <2>2. inFlight' \in [Slots -> Nat]
      BY <1>12, <2>1, ReleaseType DEF StreamClose, TypeOK
    <2> QED BY <1>12, <2>2, ReturnType DEF StreamClose, TypeOK
  <1>13. ASSUME NEW next \in SUBSET Keys, NEW kept \in SUBSET (next \cap live),
                UpdateSlots(next, kept)
         PROVE  TypeOK'
    <2>1. gen' \in [Keys -> 0 .. MaxGen]
      <3>1. \A k \in Keys : gen[k] \in 0 .. MaxGen
        BY DEF TypeOK
      <3> QED BY <1>13, <3>1, PoolAssumption DEF UpdateSlots
    <2>2. closed' \subseteq Slots
      <3>1. \A k \in live : Current(k) \in Slots
        BY CurrentIsSlot DEF TypeOK
      <3> QED BY <1>13, <3>1 DEF UpdateSlots, TypeOK
    <2>3. failed' \in [Keys -> Nat]
      BY <1>13 DEF UpdateSlots, TypeOK
    <2>4. blocked' \in [Blocks -> Int]
      BY <1>13 DEF UpdateSlots, TypeOK
    <2> QED BY <1>13, <2>1, <2>2, <2>3, <2>4 DEF UpdateSlots, TypeOK
  <1>14. ASSUME NEW blocks \in HardSets, SetHardBlocks(blocks) PROVE TypeOK'
    BY <1>14, PoolAssumption DEF SetHardBlocks, TypeOK, Blocks
  <1>15. ASSUME NEW on \in AffinityModes, ConfigureAffinity(on) PROVE TypeOK'
    BY <1>15, PoolAssumption DEF ConfigureAffinity, TypeOK, PinTargets
  <1>16. ASSUME NEW s \in Sessions, PinExpires(s) \/ OtherPoolPins(s)
         PROVE  TypeOK'
    <2>1. pin' \in [Sessions -> PinTargets]
      BY <1>16 DEF PinExpires, OtherPoolPins, TypeOK, PinTargets
    <2> QED BY <1>16, <2>1 DEF PinExpires, OtherPoolPins, TypeOK
  <1>17. ASSUME NEW k \in Keys, RescueTaken(k) PROVE TypeOK'
    BY <1>17 DEF RescueTaken, TypeOK
  <1>18. CASE Tick
    BY <1>18 DEF Tick, TypeOK
  <1>19. CASE UNCHANGED vars
    BY <1>19 DEF vars, TypeOK
  <1> QED
    BY <1>1, <1>2, <1>3, <1>4, <1>5, <1>6, <1>7, <1>8, <1>9, <1>10, <1>11,
       <1>12, <1>13, <1>14, <1>15, <1>16, <1>17, <1>18, <1>19
    DEF Next, Acquire, Call, Administer

\* A request whose record changes to one that holds a slot object, or that does
\* not have to, keeps the handles legal.
LEMMA HandleKept ==
  ASSUME TypeOK, HandlesAreSlots, NEW r \in Requests, NEW q,
         req' = [req EXCEPT ![r] = q],
         q.pc \in {"idle", "acquire"} \/ q.handle \in Slots
  PROVE  HandlesAreSlots'
  <1> SUFFICES ASSUME NEW x \in Requests, req'[x].pc \notin {"idle", "acquire"}
               PROVE  req'[x].handle \in Slots
    BY DEF HandlesAreSlots
  <1>1. req'[x] = IF x = r THEN q ELSE req[x]
    BY DEF TypeOK
  <1> QED BY <1>1 DEF HandlesAreSlots

\* Every step leaves a request past its draw with a slot object.
LEMMA HandleStep == TypeInv /\ [Next]_vars => HandlesAreSlots'
  <1> SUFFICES ASSUME TypeOK, HandlesAreSlots, [Next]_vars
               PROVE  HandlesAreSlots'
    BY DEF TypeInv
  <1> USE DEF slotVars, healthVars, pinVars
  <1>1. ASSUME NEW r \in Requests, Arrive(r) PROVE HandlesAreSlots'
    <2>1. PICK p \in Profiles :
            req' = [req EXCEPT ![r] = [Idle EXCEPT !.pc = "acquire", !.want = p]]
      BY <1>1 DEF Arrive
    <2>2. [Idle EXCEPT !.pc = "acquire", !.want = p].pc = "acquire"
      BY DEF Idle
    <2> QED BY <2>1, <2>2, HandleKept
  <1>2. ASSUME NEW r \in Requests, NEW k \in Keys, Lease(r, k)
        PROVE  HandlesAreSlots'
    <2>1. Current(k) \in Slots
      BY CurrentIsSlot
    <2>2. [req[r] EXCEPT !.pc = "calling", !.handle = Current(k)].handle
            = Current(k)
      BY DEF TypeOK, Request
    <2>3. req' = [req EXCEPT ![r] = [req[r] EXCEPT !.pc = "calling",
                                                   !.handle = Current(k)]]
      BY <1>2 DEF Lease
    <2> QED BY <2>1, <2>2, <2>3, HandleKept
  <1>3. ASSUME NEW r \in Requests, AcquirePinned(r) \/ AcquireDrawn(r)
        PROVE  HandlesAreSlots'
    <2>1. live \subseteq Keys
      BY DEF TypeOK
    <2>2. PICK k \in Keys : Lease(r, k)
      BY <1>3, <2>1, CandidatesAreEligible
      DEF AcquirePinned, AcquireDrawn, PinHit, HealthyFor, Eligible
    <2> QED BY <1>2, <2>2
  <1>4. ASSUME NEW r \in Requests, Return(r) PROVE HandlesAreSlots'
    <2>1. Idle.pc = "idle"
      BY DEF Idle
    <2> QED BY <1>4, <2>1, HandleKept DEF Return
  <1>5. ASSUME NEW r \in Requests, req[r].pc \notin {"idle", "acquire"},
               NEW q, req' = [req EXCEPT ![r] = q], q.handle = req[r].handle
        PROVE  HandlesAreSlots'
    BY <1>5, HandleKept DEF HandlesAreSlots
  <1>6. ASSUME NEW r \in Requests, CallOpens(r) \/ StreamFrame(r)
                 \/ StreamStops(r) \/ Peek(r) \/ Forget(r)
        PROVE  HandlesAreSlots'
    <2>1. PICK pc : /\ req' = [req EXCEPT ![r].pc = pc]
                    /\ req[r].pc \notin {"idle", "acquire"}
      BY <1>6 DEF CallOpens, StreamFrame, StreamStops, Peek, Forget
    <2>2. [req[r] EXCEPT !.pc = pc].handle = req[r].handle
      BY DEF TypeOK, Request
    <2>3. req' = [req EXCEPT ![r] = [req[r] EXCEPT !.pc = pc]]
      BY <2>1
    <2> QED BY <2>1, <2>2, <2>3, <1>5
  <1>7. ASSUME NEW r \in Requests, NEW o \in Outcomes, CallFails(r, o)
        PROVE  HandlesAreSlots'
    <2>1. PICK d \in ResetDelays :
            req' = [req EXCEPT ![r] =
                     [req[r] EXCEPT !.pc = "mark",
                        !.tried = @ \cup {Served(r)},
                        !.outcome = o,
                        !.resetAt = IF o = "quota" THEN now + d ELSE 0]]
      BY <1>7 DEF CallFails
    <2>2. [req[r] EXCEPT !.pc = "mark", !.tried = @ \cup {Served(r)},
             !.outcome = o,
             !.resetAt = IF o = "quota" THEN now + d ELSE 0].handle
            = req[r].handle
      BY DEF TypeOK, Request
    <2>3. req[r].pc \notin {"idle", "acquire"}
      BY <1>7 DEF CallFails
    <2> QED BY <2>1, <2>2, <2>3, <1>5
  <1>8. ASSUME NEW r \in Requests, MarkOutcome(r) PROVE HandlesAreSlots'
    <2>1. req' = [req EXCEPT ![r] =
                   [req[r] EXCEPT !.pc = "peek", !.outcome = "ok", !.resetAt = 0]]
      BY <1>8 DEF MarkOutcome
    <2>2. [req[r] EXCEPT !.pc = "peek", !.outcome = "ok", !.resetAt = 0].handle
            = req[r].handle
      BY DEF TypeOK, Request
    <2>3. req[r].pc \notin {"idle", "acquire"}
      BY <1>8 DEF MarkOutcome
    <2> QED BY <2>1, <2>2, <2>3, <1>5
  <1>9. ASSUME UNCHANGED req PROVE HandlesAreSlots'
    BY <1>9 DEF HandlesAreSlots
  <1>10. CASE UNCHANGED vars
    BY <1>10, <1>9 DEF vars
  <1>11. CASE Administer \/ Tick \/ (\E k \in Keys : RescueTaken(k))
              \/ \E s \in Sessions : PinExpires(s) \/ OtherPoolPins(s)
    BY <1>11, <1>9 DEF Administer, UpdateSlots, SetHardBlocks,
         ConfigureAffinity, Tick, RescueTaken, PinExpires, OtherPoolPins
  <1>12. ASSUME NEW r \in Requests,
                AcquireNone(r) \/ GiveUp(r) \/ StreamClose(r)
                  \/ \E o \in Outcomes : CallEnds(r, o)
         PROVE  HandlesAreSlots'
    BY <1>12, <1>4 DEF AcquireNone, GiveUp, StreamClose, CallEnds
  <1> QED
    BY <1>1, <1>3, <1>6, <1>7, <1>8, <1>10, <1>11, <1>12
    DEF Next, Acquire, Call

\* Theorem: in every reachable state of the pool its data have their types, and
\* a request past its draw holds a slot object.
THEOREM TypeInvariant == Spec => []TypeInv
  <1>1. Init => TypeInv
    <2>1. Init => HandlesAreSlots
      BY DEF Init, HandlesAreSlots, Idle
    <2> QED BY <2>1, TypeInit DEF TypeInv
  <1>2. TypeInv /\ [Next]_vars => TypeInv'
    BY TypeStep, HandleStep DEF TypeInv
  <1> QED BY <1>1, <1>2, PTL DEF Spec

\* Theorem: the maps of the pool and the locals of its requests stay well typed
\* for any number of accounts, callers and reloads.
THEOREM TypeCorrect == Spec => []TypeOK
  <1>1. TypeInv => TypeOK
    BY DEF TypeInv
  <1> QED BY <1>1, TypeInvariant, PTL

-----------------------------------------------------------------------------
(* Leases.                                                                 *)
(*                                                                         *)
(* As far as leases are concerned a step of the pool is one of four kinds:  *)
(* it takes a lease on a live slot object, returns one, leaves all leases   *)
(* as they are, or replaces slots.  StepKinds shows it; the invariants are  *)
(* then proved over the four kinds.                                         *)

Leased(x) == req[x].pc \in Leasing

Takes(r, k) ==
  /\ ~ Leased(r) /\ k \in live
  /\ Lease(r, k)
  /\ UNCHANGED <<live, gen, closed>>

Returns(r) ==
  /\ Leased(r)
  /\ Release(req[r].handle)
  /\ \E q : req' = [req EXCEPT ![r] = q] /\ q.pc \notin Leasing
  /\ UNCHANGED <<live, gen, closed>>

Keeps ==
  /\ UNCHANGED slotVars
  /\ \A x \in Requests : /\ Leased(x)' <=> Leased(x)
                         /\ Leased(x) => req'[x].handle = req[x].handle

Replaces ==
  \E next \in SUBSET Keys : \E kept \in SUBSET (next \cap live) :
    UpdateSlots(next, kept)

\* Every step is of one of the four kinds.
LEMMA StepKinds ==
  ASSUME TypeInv, [Next]_vars
  PROVE  \/ \E r \in Requests : \E k \in Keys : Takes(r, k)
         \/ \E r \in Requests : Returns(r)
         \/ Keeps
         \/ Replaces
  <1> DEFINE Kinds == \/ \E r \in Requests : \E k \in Keys : Takes(r, k)
                      \/ \E r \in Requests : Returns(r)
                      \/ Keeps
                      \/ Replaces
  <1> SUFFICES Kinds
    OBVIOUS
  <1> USE DEF slotVars
  <1>1. TypeOK /\ HandlesAreSlots
    BY DEF TypeInv
  <1>2. ASSUME NEW r \in Requests, AcquirePinned(r) \/ AcquireDrawn(r)
        PROVE  Kinds
    <2>1. live \subseteq Keys
      BY <1>1 DEF TypeOK
    <2>2. PICK k \in live : Lease(r, k)
      BY <1>2, CandidatesAreEligible
      DEF AcquirePinned, AcquireDrawn, PinHit, HealthyFor, Eligible
    <2>3. ~ Leased(r) /\ UNCHANGED <<live, gen, closed>>
      BY <1>2 DEF AcquirePinned, AcquireDrawn, Leased, Leasing
    <2> QED BY <2>1, <2>2, <2>3 DEF Takes
  <1>3. ASSUME NEW r \in Requests, NEW q, req' = [req EXCEPT ![r] = q],
               q.pc \in Leasing <=> Leased(r),
               Leased(r) => q.handle = req[r].handle,
               UNCHANGED slotVars
        PROVE  Kinds
    <2>1. ASSUME NEW x \in Requests
          PROVE  req'[x] = IF x = r THEN q ELSE req[x]
      BY <1>1, <1>3 DEF TypeOK
    <2>2. Keeps
      BY <1>3, <2>1 DEF Keeps, Leased
    <2> QED BY <2>2
  <1>4. ASSUME UNCHANGED <<slotVars, req>> PROVE Kinds
    BY <1>4 DEF Keeps, Leased
  <1>5. Idle.pc \notin Leasing
    BY DEF Idle, Leasing
  <1>6. ASSUME NEW r \in Requests,
               Arrive(r) \/ AcquireNone(r) \/ GiveUp(r)
        PROVE  Kinds
    <2>1. ~ Leased(r) /\ UNCHANGED slotVars
      BY <1>6 DEF Arrive, AcquireNone, GiveUp, Leased, Leasing
    <2>2. PICK q : req' = [req EXCEPT ![r] = q] /\ q.pc \notin Leasing
      <3>1. \A p \in Profiles :
              [Idle EXCEPT !.pc = "acquire", !.want = p].pc = "acquire"
        BY DEF Idle
      <3>2. CASE Arrive(r)
        BY <3>1, <3>2 DEF Arrive, Leasing
      <3>3. CASE AcquireNone(r) \/ GiveUp(r)
        BY <1>5, <3>3 DEF AcquireNone, GiveUp, Return
      <3> QED BY <1>6, <3>2, <3>3
    <2> QED BY <1>3, <2>1, <2>2
  <1>7. ASSUME NEW r \in Requests,
               CallOpens(r) \/ StreamFrame(r) \/ Peek(r) \/ Forget(r)
        PROVE  Kinds
    <2>1. PICK pc : /\ req' = [req EXCEPT ![r].pc = pc]
                    /\ pc \in Leasing <=> Leased(r)
                    /\ UNCHANGED slotVars
      BY <1>7 DEF CallOpens, StreamFrame, Peek, Forget, Leased, Leasing
    <2>2. /\ [req[r] EXCEPT !.pc = pc].handle = req[r].handle
          /\ [req[r] EXCEPT !.pc = pc].pc = pc
      BY <1>1 DEF TypeOK, Request
    <2>3. req' = [req EXCEPT ![r] = [req[r] EXCEPT !.pc = pc]]
      BY <2>1
    <2> QED BY <1>3, <2>1, <2>2, <2>3
  <1>8. ASSUME NEW r \in Requests, MarkOutcome(r) PROVE Kinds
    <2>1. req' = [req EXCEPT ![r] =
                   [req[r] EXCEPT !.pc = "peek", !.outcome = "ok", !.resetAt = 0]]
      BY <1>8 DEF MarkOutcome
    <2>2. [req[r] EXCEPT !.pc = "peek", !.outcome = "ok", !.resetAt = 0].pc
            = "peek"
      BY <1>1 DEF TypeOK, Request
    <2>3. ~ Leased(r) /\ UNCHANGED slotVars /\ "peek" \notin Leasing
      BY <1>8 DEF MarkOutcome, Leased, Leasing
    <2> QED BY <1>3, <2>1, <2>2, <2>3
  <1>9. ASSUME NEW r \in Requests, NEW o \in Outcomes, CallFails(r, o)
        PROVE  Kinds
    <2>1. PICK q : req' = [req EXCEPT ![r] = q] /\ q.pc \notin Leasing
      <3>1. PICK d \in ResetDelays :
              req' = [req EXCEPT ![r] =
                       [req[r] EXCEPT !.pc = "mark",
                          !.tried = @ \cup {Served(r)},
                          !.outcome = o,
                          !.resetAt = IF o = "quota" THEN now + d ELSE 0]]
        BY <1>9 DEF CallFails
      <3>2. [req[r] EXCEPT !.pc = "mark", !.tried = @ \cup {Served(r)},
               !.outcome = o,
               !.resetAt = IF o = "quota" THEN now + d ELSE 0].pc = "mark"
        BY <1>1 DEF TypeOK, Request
      <3> QED BY <3>1, <3>2 DEF Leasing
    <2> QED BY <1>9, <2>1 DEF CallFails, Returns, Leased, Leasing
  <1>10. ASSUME NEW r \in Requests, StreamStops(r) PROVE Kinds
    <2>1. PICK q : req' = [req EXCEPT ![r] = q] /\ q.pc \notin Leasing
      <3>1. req' = [req EXCEPT ![r] = [req[r] EXCEPT !.pc = "ended"]]
        BY <1>10 DEF StreamStops
      <3>2. [req[r] EXCEPT !.pc = "ended"].pc = "ended"
        BY <1>1 DEF TypeOK, Request
      <3> QED BY <3>1, <3>2 DEF Leasing
    <2> QED BY <1>10, <2>1 DEF StreamStops, Returns, Leased, Leasing
  <1>11. ASSUME NEW r \in Requests, NEW o \in Outcomes, CallEnds(r, o)
         PROVE  Kinds
    BY <1>5, <1>11 DEF CallEnds, Return, Returns, Leased, Leasing
  <1>12. ASSUME NEW r \in Requests, StreamClose(r) PROVE Kinds
    <2>1. CASE req[r].pc = "ended"
      BY <1>3, <1>5, <1>12, <2>1 DEF StreamClose, Return, Leased, Leasing
    <2>2. CASE req[r].pc # "ended"
      BY <1>5, <1>12, <2>2 DEF StreamClose, Return, Returns, Leased, Leasing
    <2> QED BY <2>1, <2>2
  <1>13. ASSUME \/ \E blocks \in HardSets : SetHardBlocks(blocks)
                \/ \E on \in AffinityModes : ConfigureAffinity(on)
                \/ \E s \in Sessions : PinExpires(s) \/ OtherPoolPins(s)
                \/ \E k \in Keys : RescueTaken(k)
                \/ Tick
                \/ UNCHANGED vars
         PROVE  Kinds
    BY <1>4, <1>13 DEF SetHardBlocks, ConfigureAffinity, PinExpires,
         OtherPoolPins, RescueTaken, Tick, vars
  <1> QED
    BY <1>2, <1>6, <1>7, <1>8, <1>9, <1>10, <1>11, <1>12, <1>13
    DEF Next, Acquire, Call, Administer, Replaces

-----------------------------------------------------------------------------
(* The counters.                                                           *)

\* Only finitely many requests hold a slot object.
LEMMA LesseesFinite ==
  ASSUME NEW h PROVE IsFiniteSet(Lessees(h)) /\ Cardinality(Lessees(h)) \in Nat
  <1>1. IsFiniteSet(Lessees(h))
    BY PoolAssumption, FS_Subset DEF Lessees
  <1> QED BY <1>1, FS_CardinalityType

\* A lease adds its request to the lessees of the slot object, and the counter
\* counts it.
LEMMA TakeBalances ==
  ASSUME TypeInv, LeasesBalance, NEW r \in Requests, NEW k \in Keys, Takes(r, k)
  PROVE  LeasesBalance'
  <1> SUFFICES ASSUME NEW h \in Slots
               PROVE  inFlight'[h] = Cardinality(Lessees(h)')
    BY DEF LeasesBalance
  <1>1. TypeOK /\ inFlight \in [Slots -> Nat] /\ req \in [Requests -> Request]
    BY DEF TypeInv, TypeOK
  <1>2. inFlight'[h] = IF h = Current(k) THEN inFlight[h] + 1 ELSE inFlight[h]
    BY <1>1, CurrentIsSlot DEF Takes, Lease
  <1>3. ASSUME NEW x \in Requests, x # r PROVE req'[x] = req[x]
    BY <1>1, <1>3 DEF Takes, Lease
  <1>4. req'[r].pc = "calling" /\ req'[r].handle = Current(k)
    BY <1>1 DEF Takes, Lease, Request
  <1>5. Lessees(h)' = IF h = Current(k) THEN Lessees(h) \cup {r} ELSE Lessees(h)
    BY <1>3, <1>4 DEF Lessees, Takes, Leased, Leasing
  <1>6. r \notin Lessees(h)
    BY DEF Takes, Leased, Lessees
  <1>7. IsFiniteSet(Lessees(h)) /\ inFlight[h] = Cardinality(Lessees(h))
    BY LesseesFinite DEF LeasesBalance
  <1>8. Cardinality(Lessees(h) \cup {r}) = Cardinality(Lessees(h)) + 1
    BY <1>6, <1>7, FS_AddElement
  <1> QED BY <1>2, <1>5, <1>7, <1>8

\* A returned lease removes its request, and the counter was not zero.
LEMMA ReturnBalances ==
  ASSUME TypeInv, LeasesBalance, NEW r \in Requests, Returns(r)
  PROVE  LeasesBalance'
  <1> SUFFICES ASSUME NEW h \in Slots
               PROVE  inFlight'[h] = Cardinality(Lessees(h)')
    BY DEF LeasesBalance
  <1>1. inFlight \in [Slots -> Nat] /\ req \in [Requests -> Request]
    BY DEF TypeInv, TypeOK
  <1>2. PICK q : req' = [req EXCEPT ![r] = q] /\ q.pc \notin Leasing
    BY DEF Returns
  <1>3. Lessees(h)' = Lessees(h) \ {r}
    BY <1>1, <1>2 DEF Lessees
  <1>4. r \in Lessees(h) <=> h = req[r].handle
    BY DEF Returns, Leased, Lessees
  <1>5. IsFiniteSet(Lessees(h)) /\ inFlight[h] = Cardinality(Lessees(h))
    BY LesseesFinite DEF LeasesBalance
  <1>6. Cardinality(Lessees(h)')
          = IF h = req[r].handle THEN inFlight[h] - 1 ELSE inFlight[h]
    BY <1>3, <1>4, <1>5, FS_RemoveElement
  <1>7. h = req[r].handle => inFlight[h] > 0
    BY <1>1, <1>4, <1>5, FS_EmptySet
  <1>8. inFlight'[h] = IF h = req[r].handle THEN inFlight[h] - 1 ELSE inFlight[h]
    BY <1>1, <1>7 DEF Returns, Release
  <1> QED BY <1>6, <1>8

\* The same lessees and the same counters.
LEMMA KeepBalances ==
  ASSUME LeasesBalance, UNCHANGED inFlight,
         \A x \in Requests : /\ Leased(x)' <=> Leased(x)
                             /\ Leased(x) => req'[x].handle = req[x].handle
  PROVE  LeasesBalance'
  <1>1. \A h : Lessees(h)' = Lessees(h)
    BY DEF Lessees, Leased
  <1> QED BY <1>1 DEF LeasesBalance

-----------------------------------------------------------------------------
(* Closing.                                                                *)

CloseInv == ClosedProvidersAreUnused /\ LeasedSlotsExist /\ FutureSlotsAreOpen

\* A new lease is on a live key's slot object, which is open and exists.
LEMMA TakeIsSafe ==
  ASSUME TypeInv, CloseInv, NEW r \in Requests, NEW k \in Keys, Takes(r, k)
  PROVE  CloseInv'
  <1>1. TypeOK /\ req \in [Requests -> Request] /\ gen \in [Keys -> 0 .. MaxGen]
    BY DEF TypeInv, TypeOK
  <1>2. ASSUME NEW x \in Requests, x # r PROVE req'[x] = req[x]
    BY <1>1, <1>2 DEF Takes, Lease
  <1>3. req'[r].handle = Current(k)
    BY <1>1 DEF Takes, Lease, Request
  <1>4. Current(k) \notin closed /\ Current(k)[2] <= gen[Current(k)[1]]
    BY <1>1 DEF CloseInv, ClosedProvidersAreUnused, Takes, Current
  <1>5. ClosedProvidersAreUnused'
    BY <1>2, <1>3, <1>4 DEF CloseInv, ClosedProvidersAreUnused, Takes, Current
  <1>6. LeasedSlotsExist'
    BY <1>2, <1>3, <1>4 DEF CloseInv, LeasedSlotsExist, Takes
  <1>7. FutureSlotsAreOpen'
    BY DEF CloseInv, FutureSlotsAreOpen, Takes
  <1> QED BY <1>5, <1>6, <1>7 DEF CloseInv

\* Without new leases and new slots nothing can go wrong.
LEMMA NoTakeIsSafe ==
  ASSUME CloseInv, UNCHANGED <<live, gen, closed>>,
         \A x \in Requests :
           Leased(x)' => Leased(x) /\ req'[x].handle = req[x].handle
  PROVE  CloseInv'
  BY DEF CloseInv, ClosedProvidersAreUnused, LeasedSlotsExist,
         FutureSlotsAreOpen, Leased, Current

\* UpdateSlots closes only slot objects that nobody holds and that leave the
\* pool for good, and the slot objects it makes were never closed.
LEMMA ReplaceIsSafe ==
  ASSUME TypeInv, LeasesBalance, CloseInv, Replaces
  PROVE  CloseInv'
  <1>0. PICK next \in SUBSET Keys :
          \E kept \in SUBSET (next \cap live) : UpdateSlots(next, kept)
    BY DEF Replaces
  <1>1. PICK kept \in SUBSET (next \cap live) : UpdateSlots(next, kept)
    BY <1>0
  <1>2. gen \in [Keys -> 0 .. MaxGen] /\ live \subseteq Keys /\ closed \subseteq Slots
    BY DEF TypeInv, TypeOK
  <1> DEFINE fresh == next \ kept
             retired == {Current(k) : k \in live \ kept}
             idle == {h \in retired : inFlight[h] = 0}
  <1>3. /\ gen' = [k \in Keys |-> IF k \in fresh THEN gen[k] + 1 ELSE gen[k]]
        /\ live' = next
        /\ closed' = closed \cup idle
        /\ UNCHANGED <<inFlight, req>>
    BY <1>1 DEF UpdateSlots
  <1>4. \A k \in Keys : gen[k] \in Nat /\ gen'[k] \in Nat
    BY <1>2, <1>3
  <1>5. \A k \in Keys : gen[k] <= gen'[k]
    BY <1>3, <1>4
  <1>6. ASSUME NEW k \in fresh PROVE k \in Keys /\ gen'[k] = gen[k] + 1
    BY <1>3, <1>6
  <1>7. ASSUME NEW h \in idle, NEW r \in Requests, Leased(r)
        PROVE  req[r].handle # h
    <2>1. h \in Slots
      BY <1>2, CurrentIsSlot DEF TypeInv
    <2>2. Cardinality(Lessees(h)) = 0
      BY <1>7, <2>1 DEF LeasesBalance
    <2>3. Lessees(h) = {}
      BY <2>2, LesseesFinite, FS_EmptySet
    <2> QED BY <1>7, <2>3 DEF Lessees, Leased
  <1>8. ASSUME NEW k \in next PROVE Current(k)' \notin closed'
    <2>1. k \in Keys /\ Current(k)' = <<k, gen'[k]>>
      BY DEF Current
    <2>2. \A h \in idle : h[1] \in live \ kept /\ h[2] = gen[h[1]]
      BY DEF Current
    <2>3. CASE k \in kept
      <3>1. Current(k)' = Current(k) /\ k \in live
        BY <1>3, <2>1, <2>3 DEF Current
      <3>2. Current(k) \notin closed
        BY <3>1 DEF CloseInv, ClosedProvidersAreUnused
      <3>3. Current(k) \notin idle
        BY <2>2, <2>3 DEF Current
      <3> QED BY <1>3, <3>1, <3>2, <3>3
    <2>4. CASE k \in fresh
      <3>1. gen'[k] = gen[k] + 1 /\ gen[k] \in Nat
        BY <1>4, <1>6, <2>4
      <3>2. <<k, gen'[k]>> \notin idle
        BY <2>2, <3>1
      <3>3. <<k, gen'[k]>> \in Slots => <<k, gen'[k]>> \notin closed
        BY <3>1 DEF CloseInv, FutureSlotsAreOpen
      <3> QED BY <1>2, <1>3, <2>1, <3>2, <3>3
    <2> QED BY <2>3, <2>4
  <1>9. ClosedProvidersAreUnused'
    BY <1>3, <1>7, <1>8
    DEF CloseInv, ClosedProvidersAreUnused, Leased
  <1>10. LeasedSlotsExist'
    <2> SUFFICES ASSUME NEW r \in Requests, Leased(r)
                 PROVE  req[r].handle[2] <= gen'[req[r].handle[1]]
      BY <1>3 DEF LeasedSlotsExist, Leased
    <2>1. req[r].handle \in Slots /\ req[r].handle[2] <= gen[req[r].handle[1]]
      BY DEF TypeInv, HandlesAreSlots, Leased, Leasing, CloseInv, LeasedSlotsExist
    <2>2. req[r].handle[1] \in Keys /\ req[r].handle[2] \in Nat
      BY <2>1 DEF Slots
    <2> QED BY <1>4, <1>5, <2>1, <2>2
  <1>11. FutureSlotsAreOpen'
    <2> SUFFICES ASSUME NEW h \in Slots, h[2] > gen'[h[1]]
                 PROVE  h \notin closed'
      BY DEF FutureSlotsAreOpen
    <2>1. h[1] \in Keys /\ h[2] \in Nat
      BY DEF Slots
    <2>2. h[2] > gen[h[1]]
      BY <1>4, <1>5, <2>1
    <2>3. h \notin closed
      BY <2>2 DEF CloseInv, FutureSlotsAreOpen
    <2>4. h \notin idle
      BY <1>4, <2>1, <2>2 DEF Current
    <2> QED BY <1>3, <2>3, <2>4
  <1> QED BY <1>9, <1>10, <1>11 DEF CloseInv

-----------------------------------------------------------------------------

\* LeaseInv is inductive.
LEMMA LeaseStep == LeaseInv /\ [Next]_vars => LeaseInv'
  <1> SUFFICES ASSUME LeaseInv, [Next]_vars PROVE LeaseInv'
    OBVIOUS
  <1>1. TypeInv /\ LeasesBalance /\ CloseInv
    BY DEF LeaseInv, CloseInv
  <1>2. TypeInv'
    BY <1>1, TypeStep, HandleStep DEF TypeInv
  <1>3. ASSUME NEW r \in Requests, NEW k \in Keys, Takes(r, k)
        PROVE  LeasesBalance' /\ CloseInv'
    BY <1>1, <1>3, TakeBalances, TakeIsSafe
  <1>4. ASSUME NEW r \in Requests, Returns(r)
        PROVE  LeasesBalance' /\ CloseInv'
    <2>1. req \in [Requests -> Request]
      BY <1>1 DEF TypeInv, TypeOK
    <2>2. ASSUME NEW x \in Requests, Leased(x)'
          PROVE  Leased(x) /\ req'[x].handle = req[x].handle
      BY <1>4, <2>1, <2>2 DEF Returns, Leased
    <2> QED BY <1>1, <1>4, <2>2, ReturnBalances, NoTakeIsSafe DEF Returns
  <1>5. ASSUME Keeps PROVE LeasesBalance' /\ CloseInv'
    BY <1>1, <1>5, KeepBalances, NoTakeIsSafe DEF Keeps, slotVars
  <1>6. ASSUME Replaces PROVE LeasesBalance' /\ CloseInv'
    <2>1. UNCHANGED <<inFlight, req>>
      BY <1>6 DEF Replaces, UpdateSlots
    <2> QED BY <1>1, <1>6, <2>1, KeepBalances, ReplaceIsSafe DEF Leased
  <1>7. LeasesBalance' /\ CloseInv'
    BY <1>1, <1>3, <1>4, <1>5, <1>6, StepKinds
  <1> QED BY <1>2, <1>7 DEF LeaseInv, CloseInv

\* Nobody holds a lease at the start.
LEMMA LeaseInit == Init => LeaseInv
  <1> SUFFICES ASSUME Init PROVE LeaseInv
    OBVIOUS
  <1>1. \A x \in Requests : req[x].pc = "idle"
    BY DEF Init, Idle
  <1>2. TypeInv
    BY <1>1, TypeInit DEF TypeInv, HandlesAreSlots
  <1>3. \A h : Lessees(h) = {}
    BY <1>1 DEF Lessees, Leasing
  <1>4. LeasesBalance
    BY <1>3, FS_EmptySet DEF Init, LeasesBalance
  <1>5. ClosedProvidersAreUnused /\ LeasedSlotsExist /\ FutureSlotsAreOpen
    BY <1>1 DEF Init, ClosedProvidersAreUnused, LeasedSlotsExist,
         FutureSlotsAreOpen, Leasing
  <1> QED BY <1>2, <1>4, <1>5 DEF LeaseInv

\* Theorem: the inductive invariant holds in every reachable state.
THEOREM LeaseInvariant == Spec => []LeaseInv
  BY LeaseInit, LeaseStep, PTL DEF Spec

\* Theorem: the inFlight counter of every slot object is the number of requests
\* that hold it, for any number of accounts, callers and reloads.
THEOREM LeasesAlwaysBalance == Spec => []LeasesBalance
  <1>1. LeaseInv => LeasesBalance
    BY DEF LeaseInv
  <1> QED BY <1>1, LeaseInvariant, PTL

\* Theorem: UpdateSlots never closes a provider that a request uses, and never
\* leaves a closed one in the pool.
THEOREM ClosingIsSafe == Spec => []ClosedProvidersAreUnused
  <1>1. LeaseInv => ClosedProvidersAreUnused
    BY DEF LeaseInv
  <1> QED BY <1>1, LeaseInvariant, PTL

-----------------------------------------------------------------------------
(* Health of the accounts: how long one can be out, what can put it out,    *)
(* and which one a request may draw.                                       *)
(*                                                                         *)
(* Deadlines change in markOutcome and when UpdateSlots prunes dead keys;   *)
(* DeadlineSteps shows it.  That a cooldown has a cause needs two facts     *)
(* about reachable states: no deadline is negative, so that clearing an     *)
(* entry never extends it, and a request about to record an outcome met a   *)
(* failure that concerns the account.                                      *)

Failures == {"quota", "auth", "error"}

OutcomesAreFailures == \A r \in Requests : req[r].pc = "mark" => req[r].outcome \in Failures
DeadlinesAreNatural == \A b \in Blocks : blocked[b] >= 0

HealthInv ==
  /\ TypeInv
  /\ ExclusionsAreBounded
  /\ DeadlinesAreNatural
  /\ OutcomesAreFailures

-----------------------------------------------------------------------------
(* Steps.                                                                  *)

\* Only markOutcome and UpdateSlots touch the deadlines, and time moves on.
LEMMA DeadlineSteps ==
  ASSUME TypeInv, [Next]_vars
  PROVE  \/ \E r \in Requests : MarkOutcome(r)
         \/ Replaces
         \/ UNCHANGED <<failed, blocked>> /\ now' >= now
<1> DEFINE Still == UNCHANGED <<failed, blocked>> /\ now' >= now
<1> USE DEF slotVars, healthVars, pinVars
<1>0. ASSUME UNCHANGED <<failed, blocked, now>> PROVE Still
  BY <1>0 DEF TypeInv, TypeOK
<1>1. ASSUME NEW r \in Requests, Arrive(r) \/ Acquire(r) PROVE Still
  <2>1. UNCHANGED <<failed, blocked, now>>
    BY <1>1 DEF Arrive, Acquire, AcquirePinned, AcquireDrawn, AcquireNone, GiveUp
  <2> QED BY <1>0, <2>1
<1>2. ASSUME NEW r \in Requests, Call(r) PROVE Still
  <2>1. UNCHANGED <<failed, blocked, now>>
    BY <1>2 DEF Call, CallOpens, CallEnds, CallFails
  <2> QED BY <1>0, <2>1
<1>3. ASSUME NEW r \in Requests,
             Peek(r) \/ Forget(r) \/ StreamFrame(r) \/ StreamStops(r) \/ StreamClose(r)
      PROVE  Still
  <2>1. UNCHANGED <<failed, blocked, now>>
    BY <1>3 DEF Peek, Forget, StreamFrame, StreamStops, StreamClose
  <2> QED BY <1>0, <2>1
<1>4. CASE Administer
  BY <1>0, <1>4 DEF Administer, Replaces, SetHardBlocks, ConfigureAffinity
<1>5. CASE \/ \E s \in Sessions : PinExpires(s) \/ OtherPoolPins(s)
           \/ \E k \in Keys : RescueTaken(k)
           \/ Tick \/ UNCHANGED vars
  BY <1>0, <1>5 DEF PinExpires, OtherPoolPins, RescueTaken, Tick, vars, TypeInv, TypeOK
<1> QED BY <1>1, <1>2, <1>3, <1>4, <1>5 DEF Next

\* What a request is after a step of its own, or of another.
LEMMA RequestMoves ==
  ASSUME TypeInv, NEW r \in Requests, NEW q, req' = [req EXCEPT ![r] = q]
  PROVE  \A x \in Requests : req'[x] = IF x = r THEN q ELSE req[x]
BY DEF TypeInv, TypeOK

\* A step makes no request record an outcome but one that failed, and only an
\* acquire makes a request that draws one that calls.
LEMMA RequestSteps ==
  ASSUME TypeInv, [Next]_vars, NEW r \in Requests
  PROVE  \/ req'[r] = req[r]
         \/ AcquirePinned(r) \/ AcquireDrawn(r)
         \/ req'[r].pc = "mark" /\ req'[r].outcome \in Failures
         \/ req'[r].pc \notin {"mark", "calling"}
<1> DEFINE Goal == \/ req'[r] = req[r]
                   \/ AcquirePinned(r) \/ AcquireDrawn(r)
                   \/ req'[r].pc = "mark" /\ req'[r].outcome \in Failures
                   \/ req'[r].pc \notin {"mark", "calling"}
<1> SUFFICES Goal
  OBVIOUS
<1>0. \A x \in Requests : req[x] \in Request
  BY DEF TypeInv, TypeOK
<1>1. ASSUME NEW x \in Requests, NEW q, req' = [req EXCEPT ![x] = q],
             q.pc \notin {"mark", "calling"} \/ (q.pc = "mark" /\ q.outcome \in Failures)
      PROVE  Goal
  BY <1>1, RequestMoves
<1>2. ASSUME NEW x \in Requests, NEW p, req' = [req EXCEPT ![x].pc = p],
             p \notin {"mark", "calling"}
      PROVE  Goal
  <2>1. [req[x] EXCEPT !.pc = p].pc = p
    BY <1>0 DEF Request
  <2>2. req' = [req EXCEPT ![x] = [req[x] EXCEPT !.pc = p]]
    BY <1>2
  <2> QED BY <1>1, <1>2, <2>1, <2>2
<1>3. ASSUME NEW x \in Requests, Return(x) PROVE Goal
  <2>1. Idle.pc = "idle"
    BY DEF Idle
  <2> QED BY <1>1, <1>3, <2>1 DEF Return
<1>4. ASSUME NEW x \in Requests, Arrive(x) PROVE Goal
  <2>1. \A p : [Idle EXCEPT !.pc = "acquire", !.want = p].pc = "acquire"
    BY DEF Idle
  <2> QED BY <1>1, <1>4, <2>1 DEF Arrive
<1>5. ASSUME NEW x \in Requests, AcquirePinned(x) \/ AcquireDrawn(x) PROVE Goal
  <2>1. PICK q : req' = [req EXCEPT ![x] = q]
    <3>1. ASSUME NEW k, Lease(x, k)
          PROVE  req' = [req EXCEPT ![x] = [req[x] EXCEPT !.pc = "calling", !.handle = Current(k)]]
      BY <3>1 DEF Lease
    <3> QED BY <1>5, <3>1 DEF AcquirePinned, AcquireDrawn
  <2> QED BY <1>5, <2>1, RequestMoves
<1>6. ASSUME NEW x \in Requests, NEW o \in Outcomes, CallFails(x, o) PROVE Goal
  <2>1. PICK d \in ResetDelays :
          req' = [req EXCEPT ![x] =
                   [req[x] EXCEPT !.pc = "mark",
                      !.tried = @ \cup {Served(x)},
                      !.outcome = o,
                      !.resetAt = IF o = "quota" THEN now + d ELSE 0]]
    BY <1>6 DEF CallFails
  <2>2. /\ [req[x] EXCEPT !.pc = "mark", !.tried = @ \cup {Served(x)}, !.outcome = o,
              !.resetAt = IF o = "quota" THEN now + d ELSE 0].pc = "mark"
        /\ [req[x] EXCEPT !.pc = "mark", !.tried = @ \cup {Served(x)}, !.outcome = o,
              !.resetAt = IF o = "quota" THEN now + d ELSE 0].outcome = o
    BY <1>0 DEF Request
  <2>3. o \in Failures
    BY <1>6 DEF CallFails, Failures
  <2> QED BY <1>1, <2>1, <2>2, <2>3
<1>7. ASSUME NEW x \in Requests, MarkOutcome(x) PROVE Goal
  <2>1. req' = [req EXCEPT ![x] =
                 [req[x] EXCEPT !.pc = "peek", !.outcome = "ok", !.resetAt = 0]]
    BY <1>7 DEF MarkOutcome
  <2>2. [req[x] EXCEPT !.pc = "peek", !.outcome = "ok", !.resetAt = 0].pc = "peek"
    BY <1>0 DEF Request
  <2> QED BY <1>1, <2>1, <2>2
<1>8. ASSUME NEW x \in Requests,
             CallOpens(x) \/ StreamFrame(x) \/ StreamStops(x) \/ Peek(x) \/ Forget(x)
      PROVE  Goal
  <2>1. PICK p : req' = [req EXCEPT ![x].pc = p] /\ p \notin {"mark", "calling"}
    BY <1>8 DEF CallOpens, StreamFrame, StreamStops, Peek, Forget
  <2> QED BY <1>2, <2>1
<1>9. ASSUME NEW x \in Requests,
             AcquireNone(x) \/ GiveUp(x) \/ StreamClose(x) \/ \E o \in Outcomes : CallEnds(x, o)
      PROVE  Goal
  BY <1>3, <1>9 DEF AcquireNone, GiveUp, StreamClose, CallEnds
<1>10. CASE \/ Administer \/ Tick \/ UNCHANGED vars
            \/ \E k \in Keys : RescueTaken(k)
            \/ \E s \in Sessions : PinExpires(s) \/ OtherPoolPins(s)
  BY <1>10 DEF Administer, UpdateSlots, SetHardBlocks, ConfigureAffinity, Tick, RescueTaken,
               PinExpires, OtherPoolPins, vars
<1> QED BY <1>4, <1>5, <1>6, <1>7, <1>8, <1>9, <1>10 DEF Next, Acquire, Call

-----------------------------------------------------------------------------
(* Exclusions.                                                             *)

LEMMA BlockLengthIsBounded ==
  ASSUME NEW delay \in Int PROVE BlockLength(delay) \in 0 .. BlockMax
BY PoolAssumption DEF BlockLength

\* What recording an outcome may do to the deadlines.
LEMMA MarkBounds ==
  ASSUME HealthInv, NEW r \in Requests, MarkOutcome(r)
  PROVE  ExclusionsAreBounded' /\ DeadlinesAreNatural'
<1>0. /\ now \in Nat /\ now' = now /\ req[r].resetAt \in Int
      /\ failed \in [Keys -> Nat] /\ blocked \in [Blocks -> Int]
  BY DEF HealthInv, TypeInv, TypeOK, Request, MarkOutcome
<1>1. CASE req[r].outcome = "quota"
  <2> DEFINE length == BlockLength(req[r].resetAt - now)
  <2>1. /\ failed' = failed
        /\ \A b \in Blocks : \/ blocked'[b] = now + length
                             \/ blocked'[b] = 0
                             \/ blocked'[b] = blocked[b]
    BY <1>1 DEF MarkOutcome, MarkModelBlocked
  <2>2. length \in 0 .. BlockMax
    BY <1>0, BlockLengthIsBounded
  <2>3. \A k \in Keys : failed'[k] <= now' + Cooldown
    BY <1>0, <2>1 DEF HealthInv, ExclusionsAreBounded
  <2>4. \A b \in Blocks : blocked[b] \in 0 .. (now + BlockMax)
    BY <1>0, PoolAssumption DEF HealthInv, ExclusionsAreBounded, DeadlinesAreNatural
  <2> HIDE DEF length
  <2>5. \A b \in Blocks : blocked'[b] \in 0 .. (now' + BlockMax)
    BY <1>0, <2>1, <2>2, <2>4, PoolAssumption
  <2> QED BY <2>3, <2>5 DEF ExclusionsAreBounded, DeadlinesAreNatural
<1>2. CASE req[r].outcome # "quota"
  <2>1. /\ blocked' = blocked
        /\ \A k \in Keys : failed'[k] \in {failed[k], now + Cooldown}
    BY <1>0, <1>2 DEF MarkOutcome, MarkFailed
  <2> QED BY <1>0, <2>1, PoolAssumption DEF HealthInv, ExclusionsAreBounded, DeadlinesAreNatural
<1> QED BY <1>1, <1>2

\* Pruning dead keys only clears deadlines.
LEMMA ReplaceBounds ==
  ASSUME TypeInv, Replaces
  PROVE  /\ now' = now
         /\ \A k \in Keys : failed'[k] \in {failed[k], 0}
         /\ \A b \in Blocks : blocked'[b] \in {blocked[b], 0}
BY DEF Replaces, UpdateSlots

LEMMA HealthInit == Init => HealthInv
<1> SUFFICES ASSUME Init PROVE HealthInv
  OBVIOUS
<1>1. TypeInv
  BY TypeInit DEF Init, TypeInv, HandlesAreSlots, Idle
<1>2. ExclusionsAreBounded /\ DeadlinesAreNatural
  BY PoolAssumption DEF Init, ExclusionsAreBounded, DeadlinesAreNatural
<1>3. OutcomesAreFailures
  BY DEF Init, OutcomesAreFailures, Idle
<1> QED BY <1>1, <1>2, <1>3 DEF HealthInv

LEMMA HealthStep == HealthInv /\ [Next]_vars => HealthInv'
<1> SUFFICES ASSUME HealthInv, [Next]_vars PROVE HealthInv'
  OBVIOUS
<1>1. TypeInv /\ TypeInv'
  BY TypeStep, HandleStep DEF HealthInv, TypeInv
<1>2. ExclusionsAreBounded' /\ DeadlinesAreNatural'
  <2>0. now \in Nat /\ failed \in [Keys -> Nat] /\ blocked \in [Blocks -> Int]
    BY <1>1 DEF TypeInv, TypeOK
  <2>1. CASE \E r \in Requests : MarkOutcome(r)
    BY <2>1, MarkBounds
  <2>2. CASE Replaces
    <3>1. /\ \A k \in Keys : failed'[k] \in {failed[k], 0}
          /\ \A b \in Blocks : blocked'[b] \in {blocked[b], 0}
          /\ now' = now
      BY <1>1, <2>2, ReplaceBounds
    <3> QED BY <2>0, <3>1, PoolAssumption
            DEF HealthInv, ExclusionsAreBounded, DeadlinesAreNatural
  <2>3. CASE UNCHANGED <<failed, blocked>> /\ now' >= now
    <3>1. now' \in Nat
      BY <1>1 DEF TypeInv, TypeOK
    <3> QED BY <2>0, <2>3, <3>1, PoolAssumption
            DEF HealthInv, ExclusionsAreBounded, DeadlinesAreNatural
  <2> QED BY <1>1, <2>1, <2>2, <2>3, DeadlineSteps
<1>3. OutcomesAreFailures'
  <2>1. SUFFICES ASSUME NEW r \in Requests, req'[r].pc = "mark" PROVE req'[r].outcome \in Failures
    BY DEF OutcomesAreFailures
  <2>2. ~ AcquirePinned(r) /\ ~ AcquireDrawn(r)
    <3>1. ASSUME NEW k, Lease(r, k) PROVE req'[r].pc = "calling"
      BY <1>1, <3>1 DEF Lease, TypeInv, TypeOK, Request
    <3> QED BY <2>1, <3>1 DEF AcquirePinned, AcquireDrawn
  <2> QED BY <1>1, <2>1, <2>2, RequestSteps DEF HealthInv, OutcomesAreFailures
<1> QED BY <1>1, <1>2, <1>3 DEF HealthInv

\* pool.go, markModelBlocked and markFailed: whatever reset instant upstream
\* announced, and however many failures are recorded, no account is cooling
\* longer than the cooldown and no model is blocked longer than modelBlockMax.
THEOREM ExclusionsStayBounded == Spec => []ExclusionsAreBounded
<1>1. HealthInv => ExclusionsAreBounded
  BY DEF HealthInv
<1> QED BY <1>1, HealthInit, HealthStep, PTL DEF Spec

\* pool.go, markOutcome: a deadline moves later only where a request met the
\* failure, for a live account and its present credential, or for its model.
THEOREM CooldownsHaveCauses == Spec => CooldownHasCause
<1> DEFINE Cause ==
      /\ \A k \in Keys : failed'[k] > failed[k] =>
          k \in live /\ \E r \in Requests :
            /\ req[r].outcome \in {"auth", "error"}
            /\ req[r].handle = Current(k)
      /\ \A b \in Blocks : blocked'[b] > blocked[b] =>
          \E r \in Requests :
            req[r].outcome = "quota" /\ b = <<Served(r), Model(r)>>
<1>1. HealthInv /\ [Next]_vars => [Cause]_vars
  <2> SUFFICES ASSUME HealthInv, [Next]_vars PROVE Cause
    OBVIOUS
  <2>0. /\ TypeInv /\ failed \in [Keys -> Nat] /\ blocked \in [Blocks -> Int]
        /\ \A b \in Blocks : blocked[b] >= 0
    BY DEF HealthInv, TypeInv, TypeOK, DeadlinesAreNatural
  <2>1. ASSUME NEW r \in Requests, MarkOutcome(r), req[r].outcome = "quota" PROVE Cause
    <3>1. /\ failed' = failed
          /\ \A b \in Blocks \ {<<Served(r), Model(r)>>} : blocked'[b] \in {blocked[b], 0}
      BY <2>1 DEF MarkOutcome, MarkModelBlocked
    <3>2. \A k \in Keys : ~ (failed'[k] > failed[k])
      BY <2>0, <3>1
    <3>3. \A b \in Blocks \ {<<Served(r), Model(r)>>} : ~ (blocked'[b] > blocked[b])
      BY <2>0, <3>1
    <3> QED BY <2>1, <3>2, <3>3
  <2>2. ASSUME NEW r \in Requests, MarkOutcome(r), req[r].outcome # "quota" PROVE Cause
    <3>1. req[r].outcome \in {"auth", "error"}
      BY <2>2 DEF HealthInv, OutcomesAreFailures, MarkOutcome, Failures
    <3>2. /\ blocked' = blocked
          /\ failed' = IF Served(r) \in live /\ req[r].handle = Current(Served(r))
                       THEN [failed EXCEPT ![Served(r)] = now + Cooldown] ELSE failed
      BY <2>2 DEF MarkOutcome, MarkFailed, Served
    <3>3. \A b \in Blocks : ~ (blocked'[b] > blocked[b])
      BY <2>0, <3>2
    <3>4. ASSUME NEW k \in Keys, failed'[k] > failed[k]
          PROVE  k = Served(r) /\ k \in live /\ req[r].handle = Current(k)
      BY <2>0, <3>2, <3>4
    <3> QED BY <3>1, <3>3, <3>4
  <2>3. CASE Replaces \/ UNCHANGED <<failed, blocked>>
    <3>1. /\ \A k \in Keys : failed'[k] \in {failed[k], 0}
          /\ \A b \in Blocks : blocked'[b] \in {blocked[b], 0}
      BY <2>0, <2>3, ReplaceBounds
    <3> QED BY <2>0, <3>1
  <2> QED BY <2>0, <2>1, <2>2, <2>3, DeadlineSteps
<1> QED BY <1>1, HealthInit, HealthStep, PTL DEF Spec, CooldownHasCause

=============================================================================
