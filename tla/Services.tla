------------------------------ MODULE Services ------------------------------
(***************************************************************************)
(* The services around the account pool: the model router, the runtime      *)
(* settings, the usage rollups, the proxy plane, the browser sign-in, the   *)
(* model catalog and one request on the wire.  Each module owns its memory  *)
(* and its tables and takes the others as its environment, so that an       *)
(* interleaving of two of them reaches nothing that each of them does not   *)
(* reach alone: a behaviour chooses one service and runs it.                *)
(***************************************************************************)
EXTENDS Integers, Sequences, FiniteSets

CONSTANTS
  RouteList, Policies, Requests, MaxReload, MaxDraws,
  Editors, Readers, MaxVersion, Empty, Unset,
  Rounds, Retentions, Day, Month, LastTick, MaxEvents,
  Handlers, Pools, Strategies, Default, MaxWrites,
  Flows, Polls, Users, Opaque, MaxAccounts, MaxCalls,
  Discoverable, Models, Configured, Reasons, Syncs, Operators,
  Calls, MaxTurns, MaxChunks,
  None

\* The policies at the start of a service that does not draw by them.
First == CHOOSE p \in Policies : TRUE

VARIABLES
  router, policy, counter, resting, pinnedTo, attempt, wins,
  override, snap, recent, editor, reader, overwrote, raced,
  clock, stored, landed, bucket, round, disturbed,
  table, live, setting, strategy, inForce, handler, answered, muddled, crossed,
  flow, signedIn, overdue, account, checkin, console, begun, imports, doubled, excused, unfound,
  row, served, sync, edit,
  stage, client, asked, sent, upstream, answer, conv, agg, reply, event,
  service   \* the service of this behaviour

routerVars == <<router, policy, counter, resting, pinnedTo, attempt, wins>>
settingVars == <<override, snap, recent, editor, reader, overwrote, raced>>
rollupVars == <<clock, stored, landed, bucket, round, disturbed>>
planeVars == <<table, live, setting, strategy, inForce, handler, answered, muddled, crossed>>
flowVars == <<flow, signedIn, overdue, account, checkin, console, begun, imports, doubled, excused, unfound>>
syncVars == <<row, served, sync, edit>>
wireVars == <<stage, client, asked, sent, upstream, answer, conv, agg, reply, event>>

Ro == INSTANCE Router WITH Routes <- RouteList, Unpinned <- None, asked <- attempt
Se == INSTANCE Settings
Ru == INSTANCE Rollup
Pl == INSTANCE Plane
Fl == INSTANCE OAuthFlow WITH Calls <- Polls
Sy == INSTANCE ModelSync WITH Providers <- Discoverable
Wi == INSTANCE Wire

ASSUME ServiceAssumption ==
  /\ RouteList \in Seq(Ro!Providers) /\ Ro!IsInjective(RouteList)
  /\ MaxReload \in Nat /\ MaxDraws \in Nat /\ None \notin Ro!Providers
  /\ MaxVersion \in Nat /\ MaxEvents \in Nat /\ MaxWrites \in Nat
  /\ \A p \in Policies : p \in [Ro!Providers -> [priority : Nat, weight : Nat, enabled : BOOLEAN]]
  /\ Day \in Nat \ {0} /\ Month \in Nat \ {0} /\ Month % Day = 0
  /\ LastTick \in Nat /\ Retentions \subseteq Nat
  /\ Default \in Strategies
  /\ MaxAccounts \in Nat
  /\ Opaque \notin Users /\ None \notin Users \cup Flows
  /\ IsFiniteSet(Polls) /\ MaxCalls \in Nat
  /\ None \notin Sy!Rows /\ Configured \subseteq Sy!Routes
  /\ IsFiniteSet(Calls) /\ MaxTurns \in Nat /\ MaxChunks \in Nat /\ None \notin Nat

Services == {"router", "settings", "rollup", "plane", "flow", "sync", "wire"}

Init ==
  /\ service \in Services
  /\ Ro!Init /\ (service = "router" \/ \A g \in 0 .. MaxReload : policy[g] = First)
  /\ Se!Init /\ Ru!Init /\ Pl!Init /\ Fl!Init /\ Sy!Init /\ Wi!Init

Next ==
  /\ UNCHANGED service
  /\ \/ /\ service = "router" /\ Ro!Next
        /\ UNCHANGED <<settingVars, rollupVars, planeVars, flowVars, syncVars, wireVars>>
     \/ /\ service = "settings" /\ Se!Next
        /\ UNCHANGED <<routerVars, rollupVars, planeVars, flowVars, syncVars, wireVars>>
     \/ /\ service = "rollup" /\ Ru!Next
        /\ UNCHANGED <<routerVars, settingVars, planeVars, flowVars, syncVars, wireVars>>
     \/ /\ service = "plane" /\ Pl!Next
        /\ UNCHANGED <<routerVars, settingVars, rollupVars, flowVars, syncVars, wireVars>>
     \/ /\ service = "flow" /\ Fl!Next
        /\ UNCHANGED <<routerVars, settingVars, rollupVars, planeVars, syncVars, wireVars>>
     \/ /\ service = "sync" /\ Sy!Next
        /\ UNCHANGED <<routerVars, settingVars, rollupVars, planeVars, flowVars, wireVars>>
     \/ /\ service = "wire" /\ Wi!Next
        /\ UNCHANGED <<routerVars, settingVars, rollupVars, planeVars, flowVars, syncVars>>

serviceVars == <<service, routerVars, settingVars, rollupVars, planeVars, flowVars,
                 syncVars, wireVars>>

Spec == Init /\ [][Next]_serviceVars

\* Types of the services: the rows, snapshots and places that the code can hold.
TypesOK ==
  CASE service = "router" -> Ro!TypeOK
    [] service = "settings" -> Se!TypeOK
    [] service = "rollup" -> Ru!TypeOK
    [] service = "plane" -> Pl!TypeOK
    [] service = "flow" -> Fl!TypeOK
    [] service = "sync" -> Sy!TypeOK
    [] service = "wire" -> Wi!TypeOK

\* internal/providers/router.go: a tier serves its providers by their weights.
SharesAreExact == service = "router" => Ro!SharesAreExact
\* internal/providers/router.go: a request calls no provider a second time.
NoRouteTwice == service = "router" => Ro!NoRouteTwice
\* internal/server/admin_routes.go: an edit is lost in a race of two writes only.
LossNeedsARace == service = "settings" => Se!LossNeedsARace
\* internal/store/telemetry.go: the minutes of a day add up to its bucket.
BucketsNest == service = "rollup" => Ru!BucketsNest
\* internal/server/plane.go: a change that was answered with success is live.
ChangesAreLive == service = "plane" => Pl!ChangesAreLive
\* internal/server/plane.go: the pools draw by the strategy that was set last.
StrategyInForce == service = "plane" => Pl!StrategyInForce
\* internal/importer/importer.go: one account for each identity.
ImportsAddUp == service = "flow" => Fl!ImportsAddUp
\* internal/server/model_sync.go: a synchronization respects the rows it finds.
SyncRespectsRows == Sy!SyncRespectsRows
\* internal/providers/wire.go: what goes upstream passes its rules.
UpstreamAccepts == service = "wire" => Wi!UpstreamAccepts
\* internal/server/anthropic_stream.go: every block is opened and closed once.
AnswerIsWellFormed == service = "wire" => Wi!AnswerIsWellFormed
=============================================================================
