------------------------------ MODULE ModelSync ------------------------------
(***************************************************************************)
(* The model catalog (server/model_sync.go, admin_accounts.go,              *)
(* store/catalog.go, models/models.go): discovery by probes, the refresh    *)
(* from the configuration, the operator's switch of a model, and the        *)
(* catalog that a reload publishes.  A row is a provider and a model; its   *)
(* capabilities are whether it is known to reason.  Reloads are atomic      *)
(* here; Plane.tla takes them apart.                                       *)
(***************************************************************************)
EXTENDS Integers, FiniteSets

CONSTANTS
  Providers,    \* discoverableProviders
  Models,       \* candidate ids and configured ids
  Configured,   \* the <<provider, model>> pairs of config/models.json
  Reasons,      \* those of them that the configuration calls reasoning
  Syncs,        \* requests that synchronize a provider
  Operators,    \* requests that switch a model or refresh the catalog
  None

Routes == Providers \X Models

VARIABLES
  row,     \* model_catalog, None without a row
  served,  \* the routes of the published catalog
  sync,    \* each synchronization
  edit     \* each operator's request

vars == <<row, served, sync, edit>>

Rows == [source : {"definition", "discovery"}, enabled : BOOLEAN, reasons : BOOLEAN]
NoSync == [at |-> "idle", provider |-> None, found |-> {}, reasoned |-> {},
           listed |-> [m \in Models |-> None], todo |-> {}, stale |-> {}]
NoEdit == [at |-> "idle", model |-> None, enable |-> TRUE, routes |-> {}, todo |-> {}]

TypeOK ==
  /\ row \in [Routes -> Rows \cup {None}]
  /\ served \subseteq Routes
  /\ sync \in [Syncs ->
       [at : {"idle", "list", "write", "reload"}, provider : Providers \cup {None},
        found : SUBSET Models, reasoned : SUBSET Models, listed : [Models -> Rows \cup {None}],
        todo : SUBSET Models, stale : SUBSET Models]]
  /\ edit \in [Operators ->
       [at : {"idle", "flip", "define", "reload"}, model : Models \cup {None}, enable : BOOLEAN,
        routes : SUBSET Routes, todo : SUBSET Routes]]

Init ==
  /\ row = [r \in Routes |-> None]
  /\ served = Configured
  /\ sync = [s \in Syncs |-> NoSync]
  /\ edit = [o \in Operators |-> NoEdit]

-----------------------------------------------------------------------------
(* Reload: configuration and discovered rows, without the disabled ones.   *)

Catalog(rows) ==
  {r \in Routes :
     /\ r \in Configured \/ (rows[r] # None /\ rows[r].source = "discovery")
     /\ rows[r] # None => rows[r].enabled}

Publish == served' = Catalog(row) \/ UNCHANGED served

\* A row is written while a synchronization goes by what it listed before.
Overtaken(p, m) ==
  [s \in Syncs |-> IF sync[s].at = "write" /\ sync[s].provider = p
                   THEN [sync[s] EXCEPT !.stale = @ \cup {m}] ELSE sync[s]]

-----------------------------------------------------------------------------
(* syncProviderModels.                                                     *)

\* probeModels: which candidates answer, and which were seen to reason.  A miss
\* says nothing about either.
Probe(s) ==
  /\ sync[s].at = "idle"
  /\ \E p \in Providers : \E found \in SUBSET Models : \E reasoned \in SUBSET found :
       sync' = [sync EXCEPT ![s] = [NoSync EXCEPT !.at = "list", !.provider = p,
                                      !.found = found, !.reasoned = reasoned]]
  /\ UNCHANGED <<row, served, edit>>

\* reconcileModels reads the rows of the provider once.
List(s) ==
  /\ sync[s].at = "list"
  /\ sync' = [sync EXCEPT ![s].at = IF sync[s].found = {} THEN "reload" ELSE "write",
       ![s].listed = [m \in Models |-> row[sync[s].provider, m]],
       ![s].todo = sync[s].found]
  /\ UNCHANGED <<row, served, edit>>

\* Mutation: what the probe saw replaces what was known.
ReconciledByProbe(prior, reasoned) ==
  IF prior = None THEN [source |-> "discovery", enabled |-> TRUE, reasons |-> reasoned]
  ELSE IF prior.source = "definition" THEN prior
  ELSE [prior EXCEPT !.reasons = reasoned]

\* A row of the configuration is left alone, a discovered one gains capabilities
\* and stays disabled if it is, and a new one is enabled.
Reconciled(prior, reasoned) ==
  IF prior = None THEN [source |-> "discovery", enabled |-> TRUE, reasons |-> reasoned]
  ELSE IF prior.source = "definition" THEN prior
  ELSE [prior EXCEPT !.reasons = @ \/ reasoned]

\* One model: its row is written only when it differs from what was listed or was
\* listed as disabled.
Reconcile(s, m) ==
  LET prior == sync[s].listed[m]
      next == Reconciled(prior, m \in sync[s].reasoned)
      route == <<sync[s].provider, m>>
      unwritten == prior # None /\ next = prior /\ (prior.enabled \/ prior.source = "definition")
      done == [sync[s] EXCEPT !.todo = @ \ {m},
                 !.at = IF sync[s].todo = {m} THEN "reload" ELSE "write"]
  IN /\ sync[s].at = "write" /\ m \in sync[s].todo
     /\ IF unwritten
        THEN row' = row /\ sync' = [sync EXCEPT ![s] = done]
        ELSE /\ row' = [row EXCEPT ![route] = next]
             /\ sync' = [Overtaken(sync[s].provider, m) EXCEPT ![s] = done]
  /\ UNCHANGED <<served, edit>>

\* A statement fails: the rows written so far stay.  syncProviderHandler then reloads
\* nothing, handleSyncModels goes on to the next provider or the reload.
SyncFails(s) ==
  /\ sync[s].at \in {"list", "write"}
  /\ \E next \in {"idle", "reload"} : sync' = [sync EXCEPT ![s] = [NoSync EXCEPT !.at = next]]
  /\ UNCHANGED <<row, served, edit>>

\* A failed reload, and the next provider of handleSyncModels, leave the catalog.
SyncEnds(s) ==
  /\ sync[s].at = "reload"
  /\ Publish
  /\ sync' = [sync EXCEPT ![s] = NoSync]
  /\ UNCHANGED <<row, edit>>

-----------------------------------------------------------------------------
(* The operator.                                                           *)

\* handlePatchModel goes by the routes of the published catalog; a model without
\* one is unknown to it.
Patch(o, m) ==
  /\ edit[o].at = "idle"
  /\ LET routes == {r \in served : r[2] = m}
     IN /\ routes # {}
        /\ \E enable \in BOOLEAN :
             edit' = [edit EXCEPT ![o] = [at |-> "flip", model |-> m, enable |-> enable,
                                            routes |-> routes, todo |-> routes]]
  /\ UNCHANGED <<row, served, sync>>

\* SetCatalogModelEnabled updates the row of one route, if there is one.
Flip(o, r) ==
  /\ edit[o].at = "flip" /\ r \in edit[o].todo
  /\ IF row[r] = None THEN row' = row /\ sync' = sync
     ELSE /\ row' = [row EXCEPT ![r].enabled = edit[o].enable]
          /\ sync' = Overtaken(r[1], r[2])
  /\ edit' = [edit EXCEPT ![o].todo = @ \ {r},
                          ![o].at = IF edit[o].todo = {r} THEN "reload" ELSE "flip"]
  /\ UNCHANGED served

\* handleRefreshModels: every model of the configuration gets an enabled row.
Refresh(o) ==
  /\ edit[o].at = "idle"
  /\ edit' = [edit EXCEPT ![o] = [NoEdit EXCEPT !.at = "define", !.routes = Configured,
                                     !.todo = Configured]]
  /\ UNCHANGED <<row, served, sync>>

Define(o, r) ==
  /\ edit[o].at = "define" /\ r \in edit[o].todo
  /\ row' = [row EXCEPT ![r] =
       [source |-> "definition", enabled |-> TRUE, reasons |-> r \in Reasons]]
  /\ sync' = Overtaken(r[1], r[2])
  /\ edit' = [edit EXCEPT ![o].todo = @ \ {r},
                          ![o].at = IF edit[o].todo = {r} THEN "reload" ELSE "define"]
  /\ UNCHANGED served

EditFails(o) ==
  /\ edit[o].at \in {"flip", "define"}
  /\ edit' = [edit EXCEPT ![o] = NoEdit]
  /\ UNCHANGED <<row, served, sync>>

EditEnds(o) ==
  /\ edit[o].at = "reload"
  /\ Publish
  /\ edit' = [edit EXCEPT ![o] = NoEdit]
  /\ UNCHANGED <<row, sync>>

SyncStep(s) ==
  Probe(s) \/ List(s) \/ (\E m \in Models : Reconcile(s, m)) \/ SyncFails(s) \/ SyncEnds(s)

EditStep(o) ==
  \/ \E m \in Models : Patch(o, m)
  \/ Refresh(o)
  \/ \E r \in Routes : Flip(o, r) \/ Define(o, r)
  \/ EditFails(o) \/ EditEnds(o)

Next == (\E s \in Syncs : SyncStep(s)) \/ (\E o \in Operators : EditStep(o))

Spec == Init /\ [][Next]_vars

-----------------------------------------------------------------------------
(* Properties.                                                             *)

\* reconcileModels: a synchronization removes no row, changes none that the
\* configuration owns, takes no capability away and enables nothing that the
\* operator disabled, whatever the probes missed and whoever writes at the same
\* time, except for a row that was written after the synchronization listed it.
SyncRespectsRows ==
  [][\A s \in Syncs : \A m \in sync[s].todo \ (sync'[s].todo \cup sync[s].stale) :
       LET was == row[sync[s].provider, m]
           is == row'[sync[s].provider, m]
       IN sync[s].at = "write" /\ sync'[s].at # "idle" /\ was # None =>
            /\ is # None
            /\ was.source = "definition" => is = was
            /\ was.reasons => is.reasons
            /\ ~ was.enabled => ~ is.enabled]_vars

\* handlePatchModel: "There is one catalog row per provider route; flip every
\* route of the model" (admin_accounts.go:889).
EveryRouteFlips ==
  [][\A o \in Operators :
       edit[o].at = "flip" /\ edit'[o].at = "reload" =>
         \A r \in edit[o].routes : row'[r] # None /\ row'[r].enabled = edit[o].enable]_vars
=============================================================================
