-------------------------------- MODULE Plane --------------------------------
(***************************************************************************)
(* How a change of the console becomes live (server/plane.go,               *)
(* admin_accounts.go): a handler writes its table, Reload reads all tables  *)
(* one after another and publishes them together; routing settings go past  *)
(* Reload, straight to the plane and its pools.  The contents of a table    *)
(* are known by the number of writes to it.                                *)
(***************************************************************************)
EXTENDS Integers, Sequences, FiniteSets, FiniteSetsExt, SequencesExt

CONSTANTS
  Handlers,    \* goroutines: console requests and background reloads
  Pools,       \* the providers
  Strategies,  \* account strategies
  Default,     \* the strategy of a plane nobody has configured
  MaxWrites    \* bound: writes of tables and settings

\* In the order in which Reload reads them.
Tables == <<"accounts", "catalog", "policies", "blocks", "keys">>
Table == ToSet(Tables)
Version == 0 .. MaxWrites
Unread == -1   \* a table that a reload could read in part only

VARIABLES
  table,     \* the database: writes of each table
  live,      \* what the plane has published of each table
  setting,   \* the override of routing.account_strategy, with its writes
  strategy,  \* ProxyPlane.strategy
  inForce,   \* the strategy of each pool
  handler,   \* each goroutine
  answered,  \* history: the latest write of each table that was answered "updated"
  muddled,   \* history: reloads overlapped
  crossed    \* history: routing operations overlapped, or one could not read its setting

planeData == <<table, live, answered, muddled>>
routingData == <<setting, strategy, inForce, crossed>>
vars == <<planeData, routingData, handler>>

NoHandler == [at |-> "idle", on |-> "none", left |-> 0, wrote |-> 0, read |-> [t \in Table |-> 0],
              next |-> 1, wants |-> Default, todo |-> {}]

TypeOK ==
  /\ table \in [Table -> Version] /\ live \in [Table -> Version \cup {Unread}]
  /\ answered \in [Table -> Version]
  /\ setting \in [value : Strategies, writes : Version]
  /\ strategy \in Strategies /\ inForce \in [Pools -> Strategies]
  /\ handler \in [Handlers ->
       [at : {"idle", "write", "reload", "read", "publish", "put", "load", "set", "pools"},
        on : Table \cup {"none"}, left : 0 .. 2, wrote : Version,
        read : [Table -> Version \cup {Unread}], next : 1 .. Len(Tables) + 1, wants : Strategies, todo : SUBSET Pools]]
  /\ muddled \in BOOLEAN /\ crossed \in BOOLEAN

Init ==
  /\ table = [t \in Table |-> 0] /\ live = table /\ answered = table
  /\ setting = [value |-> Default, writes |-> 0]
  /\ strategy = Default /\ inForce = [p \in Pools |-> Default]
  /\ handler = [h \in Handlers |-> NoHandler]
  /\ muddled = FALSE /\ crossed = FALSE

At(h, place) == handler[h].at = place
Writes == setting.writes + MapThenSumSet(LAMBDA t : table[t], Table)
Others(h, places) == \E o \in Handlers \ {h} : handler[o].at \in places

-----------------------------------------------------------------------------
(* Handlers that change a table.                                           *)

\* A model is enabled with one transaction per route, a key is rotated with two.
Transactions(t) == IF t \in {"catalog", "keys"} THEN 1 .. 2 ELSE {1}

Begin(h) ==
  /\ At(h, "idle")
  /\ \E t \in Table : \E n \in Transactions(t) :
       handler' = [handler EXCEPT ![h] = [NoHandler EXCEPT !.at = "write", !.on = t, !.left = n]]
  /\ UNCHANGED <<planeData, routingData>>

\* Credential rotation, an import, the reload of the service page.
BeginReload(h) ==
  /\ At(h, "idle")
  /\ handler' = [handler EXCEPT ![h] = [NoHandler EXCEPT !.at = "reload"]]
  /\ UNCHANGED <<planeData, routingData>>

\* One transaction, and the audit row after the last.
Write(h) ==
  /\ At(h, "write") /\ Writes < MaxWrites
  /\ table' = [table EXCEPT ![handler[h].on] = @ + 1]
  /\ handler' = [handler EXCEPT ![h].left = @ - 1,
                                ![h].wrote = table[handler[h].on] + 1,
                                ![h].at = IF handler[h].left = 1 THEN "reload" ELSE "write"]
  /\ UNCHANGED <<live, answered, muddled, routingData>>

\* A transaction fails: the request fails, and what it committed before is not
\* reloaded.
WriteFails(h) ==
  /\ At(h, "write")
  /\ handler' = [handler EXCEPT ![h] = NoHandler]
  /\ UNCHANGED <<planeData, routingData>>

-----------------------------------------------------------------------------
(* ProxyPlane.Reload.                                                      *)

ReloadBegins(h) ==
  /\ At(h, "reload")
  /\ handler' = [handler EXCEPT ![h].at = "read", ![h].next = 1]
  /\ muddled' = (muddled \/ Others(h, {"read", "publish"}))
  /\ UNCHANGED <<table, live, answered, routingData>>

Reading(h) == Tables[handler[h].next]

ReadTable(h) ==
  /\ At(h, "read")
  /\ handler' = [handler EXCEPT ![h].read[Reading(h)] = table[Reading(h)],
                                ![h].next = @ + 1,
                                ![h].at = IF handler[h].next = Len(Tables) THEN "publish" ELSE "read"]
  /\ UNCHANGED <<planeData, routingData>>

\* An account whose credential cannot be read or decrypted is skipped, and a
\* catalog that cannot be read is replaced by the definitions of the files: the
\* reload goes on without them.
ReadsInPart(h) ==
  /\ At(h, "read") /\ Reading(h) \in {"accounts", "catalog"}
  /\ handler' = [handler EXCEPT ![h].read[Reading(h)] = Unread, ![h].next = @ + 1]
  /\ UNCHANGED <<planeData, routingData>>

\* History: the change of the request that a goroutine serves is answered "updated".
Answers(h) ==
  answered' = IF handler[h].on = "none" THEN answered
              ELSE [answered EXCEPT ![handler[h].on] = Max({@, handler[h].wrote})]

\* Mutation: the error of the reload is ignored.
ReadFailureIsIgnored(h) ==
  /\ At(h, "read") /\ Reading(h) # "catalog"
  /\ handler' = [handler EXCEPT ![h] = NoHandler]
  /\ Answers(h)
  /\ UNCHANGED <<table, live, muddled, routingData>>

\* A list that cannot be read, of accounts too, ends the reload: the change is stored,
\* not live, and the request is answered with a failure.
ReadFails(h) ==
  /\ At(h, "read") /\ Reading(h) # "catalog"
  /\ handler' = [handler EXCEPT ![h] = NoHandler]
  /\ UNCHANGED <<planeData, routingData>>

\* Mutation: a reload gives the pools the default strategy.
PublishDefault(h) ==
  /\ At(h, "publish")
  /\ live' = handler[h].read
  /\ inForce' = [p \in Pools |-> Default]
  /\ Answers(h)
  /\ handler' = [handler EXCEPT ![h] = NoHandler]
  /\ UNCHANGED <<table, muddled, setting, strategy, crossed>>

\* All tables are published under the plane's mutex, every pool is given the
\* plane's strategy, and the request is answered with success.
Publish(h) ==
  /\ At(h, "publish")
  /\ live' = handler[h].read
  /\ inForce' = [p \in Pools |-> strategy]
  /\ Answers(h)
  /\ handler' = [handler EXCEPT ![h] = NoHandler]
  /\ UNCHANGED <<table, muddled, setting, strategy, crossed>>

-----------------------------------------------------------------------------
(* handlePatchSettings of a routing setting.                               *)

Routing == {"put", "load", "set", "pools"}

BeginRouting(h) ==
  /\ At(h, "idle")
  /\ \E s \in Strategies :
       handler' = [handler EXCEPT ![h] = [NoHandler EXCEPT !.at = "put", !.wants = s]]
  /\ crossed' = (crossed \/ Others(h, Routing))
  /\ UNCHANGED <<planeData, setting, strategy, inForce>>

\* PutRuntimeSetting.
PutSetting(h) ==
  /\ At(h, "put") /\ Writes < MaxWrites
  /\ setting' = [value |-> handler[h].wants, writes |-> setting.writes + 1]
  /\ handler' = [handler EXCEPT ![h].at = "load"]
  /\ UNCHANGED <<planeData, strategy, inForce, crossed>>

PutFails(h) ==
  /\ At(h, "put")
  /\ handler' = [handler EXCEPT ![h] = NoHandler]
  /\ UNCHANGED <<planeData, routingData>>

\* applyRoutingSettings reads the settings back.
LoadSetting(h) ==
  /\ At(h, "load")
  /\ handler' = [handler EXCEPT ![h].at = "set", ![h].wants = setting.value]
  /\ UNCHANGED <<planeData, routingData>>

\* It fails and is only logged: the answer is "effective" all the same.
LoadFails(h) ==
  /\ At(h, "load")
  /\ handler' = [handler EXCEPT ![h] = NoHandler]
  /\ crossed' = TRUE
  /\ UNCHANGED <<planeData, setting, strategy, inForce>>

\* ConfigureRouting: the plane under its mutex, and the pools after it.
SetStrategy(h) ==
  /\ At(h, "set")
  /\ strategy' = handler[h].wants
  /\ handler' = [handler EXCEPT ![h].at = "pools", ![h].todo = Pools]
  /\ UNCHANGED <<planeData, setting, inForce, crossed>>

SetPool(h) ==
  /\ At(h, "pools")
  /\ \E p \in handler[h].todo :
       /\ inForce' = [inForce EXCEPT ![p] = handler[h].wants]
       /\ LET rest == handler[h].todo \ {p} IN
            handler' = [handler EXCEPT ![h] =
              IF rest = {} THEN NoHandler ELSE [handler[h] EXCEPT !.todo = rest]]
  /\ UNCHANGED <<planeData, setting, strategy, crossed>>

ReloadStep(h) ==
  \/ Begin(h) \/ BeginReload(h) \/ Write(h) \/ WriteFails(h)
  \/ ReloadBegins(h) \/ ReadTable(h) \/ ReadsInPart(h) \/ ReadFails(h) \/ Publish(h)

RoutingStep(h) ==
  \/ BeginRouting(h) \/ PutSetting(h) \/ PutFails(h)
  \/ LoadSetting(h) \/ LoadFails(h) \/ SetStrategy(h) \/ SetPool(h)

Next == \E h \in Handlers : ReloadStep(h) \/ RoutingStep(h)

Spec == Init /\ [][Next]_vars

-----------------------------------------------------------------------------
(* Properties.                                                             *)

\* refreshPlane: a change that was answered with success is served from then on,
\* whatever other handlers write, fail and reload in between.  Overlapping reloads
\* are excepted, and the tables of which the last reload could read a part only: the
\* rows it skipped are missing, though the answer was "updated", until a reload
\* reads them all.
ChangesAreLive ==
  ~ muddled => \A t \in Table : live[t] = Unread \/ live[t] >= answered[t]

\* plane.go:45: "Reload re-applies it so a credential refresh cannot silently
\* revert the operator's choice".  When no routing operation is under way every
\* pool uses the stored strategy, unless two of them overlapped or one could not
\* read the settings.
StrategyInForce ==
  (~ crossed /\ \A h \in Handlers : handler[h].at \notin Routing) =>
    /\ strategy = setting.value
    /\ \A p \in Pools : inForce[p] = strategy
=============================================================================
