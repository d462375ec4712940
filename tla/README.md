# Formal models of qb2api

`qb2api` is a proxy with an OpenAI- and an Anthropic-compatible front. It spreads
chat requests over pools of upstream accounts, keeps the accounts' credentials
fresh, signs accounts in once a day, and shows everything in an admin console.
This directory holds TLA+ models of its concurrent core, the TLC configurations
that check them and the TLAPS proofs about them.

File names below are relative to `src/internal/` unless they start with `src/`.

## 1. The system

### 1.1 How the parts interact

```
client --> proxy routes --> router --> pool (one per provider) --> upstream
                |              \          ^       |
                |               affinity -+       | 401: authRejected hook
                v                                 v
          telemetry writer --> SQLite <-- rotation loop, rescue
                                 ^  ^            |  Reload
     admin API, importer, OAuth -+  +- metrics,  v
                                       check-in, growth     plane: builds pools
```

Everything runs in one process. State is shared in three ways: Go objects behind
mutexes (`Pool.mu`, `Affinity.mu`, `ProxyPlane.mu`, `EventWriter.mu`, ...), rows of
one SQLite database whose writers queue for `DB.writeMu`, and callbacks (timers,
the pool's `authRejected` hook). No lock is held across an upstream call, so every
component reads, lets go, calls, and then acts on what it read.

### 1.2 Inventory

| Component | State | Operations | What is hard, and what makes it correct |
|---|---|---|---|
| Account pool `providers/pool.go` | slots with `inFlight`, cooldowns, quota blocks, exclusions, counters of the strategy | `acquire`, `release`, `Complete`, `Stream`, `markOutcome`, `UpdateSlots`, `SetHardBlocks` | slots are replaced under running requests; failover across reloads. Leases balance, nothing is closed in use, cooldowns have a cause, requests end |
| Session affinity `providers/affinity.go` | conversation -> account, with expiry and a limit | `Lookup`, `Pin`, `Pinned`, `Forget`, `Configure` | shared by two pools; checked in one critical section and used in the next. A pin is only a preference, and only a failed account loses it |
| Model router `providers/router.go` | provider cooldowns, cursors, weights | `Order`, `Complete`, `Stream` | failover before the first frame; rebuilt by every reload. Each provider tried at most once, weights honoured |
| Proxy plane `server/plane.go` | pools, router, catalog, key hashes | `Reload`, `ConfigureRouting`, `Close` | reloads race each other and the database, and skip what they cannot read. What is served is what was stored |
| Proxy routes `server/proxy_routes.go`, `anthropic*.go` | none | one handler per dialect | the upstream's frames go on after a finish reason. Every stream is closed once, every request leaves one event |
| Upstream adapter `providers/workbuddy.go`, `wire.go`, `provider.go` | HTTP client | `Complete`, `OpenStream` | classifies failures; stateless |
| Telemetry writer `store/telemetry.go` | pending batch, timer, counters | `Enqueue`, `Flush`, `Close` | timer callbacks, handlers and shutdown share the batch. No event stranded, doubled or miscounted |
| Rollups `store/telemetry.go`, `server/subsystems.go` | bucket rows | `RollupOnce` | windows around the present moment; retention. Every event is in its buckets |
| Database `store/db.go` | one connection, `writeMu` | `Write`, `Checkpoint`, `Close` | every writer queues here |
| Account and credential rows `store/accounts.go` | accounts, purposes, credentials with a version | upserts, deletes, marks | optimistic versions; foreign keys |
| Credential rotation `server/rotation.go`, `refresh_classify.go` | `held`, `warned`, rescue attempts | `rotateOnce`, `authRescue` | read, call, write, with everybody else writing too. No credential lost, marks come back |
| Account administration `server/admin_accounts.go` | none | patch, replace, revoke, delete, test, refresh | success is reported only for what the proxy serves |
| Import `importer/importer.go`, `server/admin_imports.go` | none | a lookup, three writes, one reload | a deletion in between; a lookup whose error is taken for an answer. One account per identity |
| Browser sign-in `oauthflow/*` | flows in memory, with expiry | `Start`, `Poll`, `Manual` | overlapping polls. One import per flow, a terminal flow stays |
| Check-in `checkin/*`, `store/checkin.go` | run slot, run rows, day markers, timer | `StartBatch`, `RunBatch`, `loop`, catch-up | restart during a batch; failing statements; markers rederived beside it; day boundaries. One sign-in per account and day, no run is left running |
| Growth `growth/*` | day claims, scheduler | `RunSteps`, `ClaimActiveDay`, `ConfirmActiveDay` | a paid conversation at most once a day, crash between claim and turn |
| Metrics `metrics/*` | backoff table, snapshots | `Collect`, `RefreshOne` | rounds and single refreshes overlap, and their writes may fail. Only a reading is fresh, Stop returns, marks have evidence |
| Models `models/models.go`, `server/model_sync.go`, `store/catalog.go` | catalog rows | discovery, reconciliation | an administrator edits while a probe runs |
| Settings `server/runtime_settings.go`, `settings_schema.go` | override rows with versions | read through, put | the version is checked in one statement and written in another. No edit is lost without a race |
| Sessions, keys, audit `server/admin_auth.go`, `admin_routes.go`, `store/control.go` | rows | single statements | none across components |
| Start and shutdown `src/cmd/qb2api/main.go` | contexts, deferred calls | signal, drain, close | order of the last writes |
| Vault, config, chat wire format, CSV, console, deployment | none that changes | pure functions, files | out of scope |

`PROJECT.json` lists the same components with their status.

### 1.3 Hazards

What is hard to test here is listed in `PROJECT.json` under `hazards`, each at the
line where it bites. They fall in five groups: a slot, pin or row that is replaced
between its read and its use; two reloads, flushes, polls or rounds that overlap;
the end of the process between two steps; a mark that must be taken back by
itself; and windows or limits at their boundary.

## 2. Modules

| Module | What it is |
|---|---|
| `Pool` | one provider's pool with its callers, the plane that reloads it, the pins and the clock |
| `Router` | the order in which one model's requests try the providers |
| `Wire` | one request on the wire: messages in, messages sent, chunks, answer, telemetry row |
| `Plane` | how a change of the console becomes live: tables, reloads, routing settings |
| `Credentials` | the chat credential of one account: rows, rotators, probes, administrators and reloads |
| `OAuthFlow` | browser sign-ins and the account an import chooses |
| `ModelSync` | catalog rows between probes, the configuration and the operator |
| `Settings` | versions of one override and its cached snapshot |
| `EventLedger` | what the telemetry writer promises: each event is refused, or buffered and then stored or lost, once |
| `EventWriter` | the writer with handlers, timer callbacks, the database lock and the shutdown; implements `EventLedger` |
| `Rollup` | the rounds that recount the buckets and prune the details |
| `Checkin` | daily sign-in: scheduler, batch, rows and markers |
| `ActiveDay` | the claim, turn and confirmation of a day |
| `AcpTurn` | one turn over the ACP channel with its event streams |
| `Rewards` | the reward steps of growth passes against what the upstream grants |
| `Metrics` | credit rounds and single refreshes, snapshots and backoff |
| `MCPool`, `MCEventWriter`, `MCCredentials` | the instances of these three |
| `MCJobs` | `Checkin`, `ActiveDay`, `Rewards`, `Metrics`: one per behaviour |
| `Services` | `Router`, `Settings`, `Rollup`, `Plane`, `OAuthFlow`, `ModelSync`, `Wire`: one per behaviour, for any values of their constants |
| `MCService` | its instances, one for `Plane` alone |
| `MCAccounts` | `Pool` and `Credentials`: one per behaviour, with their fairness |
| `MCLiveness` | `EventWriter`, `AcpTurn` and `Metrics`: one per behaviour, with their fairness |
| `PoolProofs`, `EventWriterProofs`, `CredentialProofs`, `CheckinProofs` | theorems about these modules |
| `JobsProofs`, `ServiceProofs`, `WireProofs` | theorems about the components that `MCJobs` and `Services` put side by side |
| `SumProofs` | lemmas about sums over finite sets |

`MCJobs`, `Services`, `MCAccounts` and `MCLiveness` choose one component at the start and
run it. They check
the same behaviours as one instance each would: each module owns its variables and
takes the others as an environment that may do anything they can do to it (a reload
at any time, an account that goes, a failing write), so that interleaving two of them
reaches nothing new. Where two components do share state they are in one module:
`Pool` has the pins, the reloads and the other pool's writes, `Credentials` all
writers of an account's rows, `Plane` all that reloads.

Definitions marked "Mutation" in a module are deliberate faults. None is used by a
specification; each replaces the definition it precedes to confirm that a property
notices the fault.

### 2.1 Pool

A step is one critical section of `Pool.mu` or `Affinity.mu` with the local code
around it. A slot object (the pointer `*slot`) is `<<key, generation>>`:
`UpdateSlots` makes a new generation when the credential of a key changed, and
requests may hold an old one. `req[r]` is the frame of one `Complete` or `Stream`
call: `acquire`, `calling`, then for a failed attempt `mark` (`markOutcome`), `peek`
and `forget` (the two halves of `forgetSession`) and `acquire` again; for a stream
`open`, `committed`, `ended`.

| Code | Actions |
|---|---|
| `acquire` | `AcquirePinned`, `AcquireDrawn`, `AcquireNone` |
| `Complete`, `Stream` | `Arrive`, `CallOpens`, `CallEnds`, `CallFails`, `GiveUp` |
| `markOutcome`, `markFailed`, `markModelBlocked` | `MarkOutcome` |
| `forgetSession` | `Peek`, `Forget` |
| `poolStream` | `StreamFrame`, `StreamStops`, `StreamClose` |
| `UpdateSlots`, `SetHardBlocks` | same names |
| `Affinity` | `PinTo`, `ConfigureAffinity`, `PinExpires`, `OtherPoolPins` |

Abstractions: the strategy among healthy candidates is open, so what holds here
holds for round robin, weighted and fill first; a deadline that has passed is the same
as none; a pin may expire or be evicted at any time; the hook's queue is the set of
reported accounts.

### 2.2 EventWriter

`Flush` is `Take` (under `EventWriter.mu`), `LockDB`, `Commit` or `Rollback` (under
`DB.writeMu`) and `Count` (under `EventWriter.mu` again). It runs in a handler that
filled the batch, in a timer callback, or in main. `timer` names the callback that
`w.timer` points to; a callback that has started cannot be stopped. main goes through
`serving`, `draining`, `closing` (the first `Close` and the checkpoint), `deferred`,
`exiting` (the deferred `Close`) and `exited`; a failed listener skips to `deferred`.
The 20 seconds of grace may be over at any time while main drains or closes, and
then the context of the first `Close` is over as well.

### 2.3 Credentials

The rows of one account are `account`, `token`, `version`, `renewable` and `status`;
`served` says that the pool has a slot of it. Every SQL statement or transaction is
a step, an upstream call separates a read from the use of its answer, and `Reload` is
four steps: accounts, purposes, credential, apply. A token stands for one pair of
access and refresh token; which token upstream issues is immaterial as long as nothing
refers to it. Upstream revokes and restores sessions at will, so any call may be
answered or refused.

| Code | Actions |
|---|---|
| `rotateOnce`, `authRescue`, `rotateCredential` | `RotateRead`, `RefreshOK`, `RefreshTransient`, `RefreshDead`, `Persist`, `PersistFails` |
| `revivePurpose`, `reportDeadSession` | `RevivePurpose`, `ClearRejection`, `ClearFails`, `ReportDeadSession` |
| `Collector.collectPoints`, `noteAuthRejection` | `ProbeRead` ... `ProbeMarks` |
| `UpsertImportedAccount` | `ImportAccount`, `ImportCredential`, `ImportPurpose`, `ImportFails` |
| `handleRotateCredential` | `ReplaceRead`, `ReplaceCredential`, `ReplaceFails` |
| `handlePatchAccount`, `handleDeleteAccount`, `handleRevokeCredential` | `PatchAccount`, `DeleteAccount`, `DeleteCredential` |
| `ProxyPlane.Reload` | `ReloadAccounts` ... `ReloadFails` |

`lost` is a history variable: the rotators whose row was deleted since they read it.

### 2.4 Router

`asked[r]` is the frame of one `Complete` or `Stream`: its order of routes, the ones
tried and the router it began on, which may be an old one after a reload. A router has
its own policies, counters and cooldowns. What a pool answers is open.

| Code | Actions |
|---|---|
| `Complete`, `Stream` | `Begin`, `Try`, `CallReturns`, `CallFails` |
| `policyOrder`, `RouteScheduler.Order`, `draw` | `Order`, `Winner`, `Paid` in `Begin` |
| `ordered` (`Lookup`) | `Lookup`, `PinnedFirst` |
| `markFailed`, `forgetPinnedProvider` | `MarkFailed`, `Peek`, `Forget` |
| `routedStream` | `StreamFails`, `StreamEnds` |
| `NewRouter` in `Reload` | `Reload` |

### 2.5 Wire

A message is its role and the set of marks that the upstream's filter looks for: a
fragment of the identity line or the line in a text, that is a content of one string or
a block of type "text", and the line "elsewhere": in a block of another type, an item of
an array, the object content of a turn or the arguments of a tool call. Only texts are
rewritten. An Anthropic request has any number of messages, of any role
(`ReadMessage`). A chunk carries a piece of thinking, of text, fragments of calls and a
finish reason, each or none, and more chunks may follow one with a finish reason
(`upstream.late`): neither `streamChat` nor `streamAnthropic` stops reading.

| Code | Definitions |
|---|---|
| `handleChatCompletions`; `handleAnthropicMessages`, `anthropicToOpenAI` | `AskOpenAI`; `AskAnthropic`, `ReadMessage` with `AssistantMessage`, `OtherMessages` |
| `outboundMessage`, `preparedMessages`, `intlMessages` | `Outbound`, `Prepared` in `Send` |
| `sseReader`, `normalizeToolCalls`, `aggregator` | `Chunk`, `Normalized`, `Merged`, `Processed` |
| `anthropicStreamConverter` | `Consumed`, `ConsumedDone`, `Started`, `Thinking`, `Text`, `Tool`, `Stopped` |
| `completeChat`, `streamChat`, `streamAnthropic`, `recordEvent` | `Done`, `Breaks`, `Aborted`, `Reply`, `Ends` |

### 2.6 Plane

The contents of a table are known by the number of writes to it, so that "the plane
serves what was stored" compares two numbers. A handler is a console request or a
background reload; `Reload` reads its five tables one by one and publishes all at
once, and a routing setting is published under the mutex and then applied pool by
pool. A handler remembers what it `wrote`, which is `answered` when it reports success.
A table that a reload reads in part (an account whose credential cannot be read or
decrypted, a catalog that cannot be listed) is `Unread` in what it publishes; the reload
succeeds all the same.

| Code | Actions |
|---|---|
| `handlePutRouting`, `handlePutAccountBlock`, key handlers | `Begin`, `Write`, `WriteFails`, `Transactions` |
| `refreshPlane`, `ProxyPlane.Reload` | `ReloadBegins`, `ReadTable`, `ReadsInPart`, `ReadFails`, `Publish`, `Answers` |
| `handleServiceAction` | `BeginReload` |
| `applySetting`, `applyRoutingSettings`, `ConfigureRouting` | `BeginRouting`, `PutSetting`, `LoadSetting`, `LoadFails`, `SetStrategy`, `SetPool` |

### 2.7 OAuthFlow, ModelSync, Settings, Rollup

| Module | Code | Actions |
|---|---|---|
| `OAuthFlow` | `Start`, `Store` | `Start`, `Deadline`, `Completed` |
| | `Poll`, `Manual`, `ManualCheckin` | `Poll`, `StillPending`, `AskFails`, `SignedIn`, `Manual`, `ManualCheckin` |
| | `UpsertImportedAccount`, `ensureCheckinPurpose` | `Find`, `FindsNothing` (the lookup fails and the error is swallowed), `WriteAccount`, `Look`, `AddRow`, `ImportFails` |
| | `persist`, `autoVerifyCheckin` | `Complete`, `AutoVerify` |
| `ModelSync` | `handleSyncModels`, `syncProviderHandler`, `syncProviderModels`, `reconcileModels` | `Probe`, `List`, `Reconcile`, `SyncFails` (to the next provider and the reload, or to the end), `SyncEnds` |
| | `handlePatchModel`, `handleRefreshModels` | `Patch`, `Flip`, `Refresh`, `Define`, `EditFails`, `EditEnds` |
| `Settings` | `handleGetSettings`, `handlePatchSettings` | `Show`, `Check`, `Put`, `PutFails` |
| | `RuntimeSettings.snapshot` | `Look`, `Load`, `LoadFails`, `Keep`, `Age` |
| `Rollup` | `RollupOnce`, `PruneRequestEvents` | `Begin`, `Read`, `Write`, `Prune`, `Fails` |

### 2.8 Checkin

A day has three parts: before the scheduled time, within the catch-up window, past it.
`run[r]` is the goroutine of one batch, `loop[l]` one scheduler goroutine (several exist
while `Reconfigure` stops one and starts another), `bound` counts administrator changes
and crashes. `attempt` has the accounts whose latest attempt was a sign-in, which is
what a rederivation goes by. A batch that called for an account although it could not
read the marker, or before a rederivation wrote one, is `blind`; one whose closing
statement failed is `unclosed`.

| Code | Actions |
|---|---|
| `claimRun`, `StartBatch` | `Claim` in `ManualRun` and `LoopLaunches`, `RunCreates`, `CreateFails`, `RunFinishes`, `RunReleases`, `RunExpires` |
| `execute`, `runOne`, `runWithRetry` | `RunResolves`, `RunTakesAccount`, `CallSucceeds`, `CallRefused`, `CallFails`, `RunStops` |
| `updatePurpose`, `persistAttempt` | `RunLooks`, `RunMirrors`, `RunPersists`, `RunMarks` |
| `alreadyTerminal` | `AlreadyTerminal` in `RunTakesAccount`, with a marker that cannot be read |
| `handleRederiveCheckin`, `LatestCheckinAttempt` | `RederiveReads`, `RederiveMarks` |
| `Scheduler` | `LoopConsiders`, `LoopWaited`, `LoopFires`, `LoopLaunches`, `LoopEnds`, `Reconfigure`, `StopScheduler` |
| end and start of the process | `Restart` |

### 2.9 ActiveDay, AcpTurn, Rewards, Metrics

| Module | Code | Actions |
|---|---|---|
| `ActiveDay` | `runCycle`, `RunSteps`, handlers | `Begin`, `Overview`, `CutOff` |
| | `activeDay`, `forceActiveDay` | `Claim`, `CheckLit`, `TurnReturns`, `ForcedTurn` |
| | `reconcilePreviousDay` | `ReadYesterday`, `CorrectYesterday` |
| | `ConfirmActiveDay` | `Look`, `AskOfficial`, `Verdict` |
| `AcpTurn` | `Run`, `protocol`, `rpc`, `postRPC`, `waitTurn` | `OpenConversation`, `OpenChannel`, `UpstreamGets`, `PostReturns`, `TakeAnswer`, `TakeTurn`, `TimesOut` |
| | `consume`, `dispatch`, `failStream` | `StreamAnswers`, `StreamEndsTurn`, `StreamFails`, `StreamEnds` |
| | `disconnect` | `Cancel`, `Drain`, `Delete` |
| `Rewards` | `stepTasks`, `stepLottery`, `stepTravel`, `stepRedeem`, `stepBuddyOpen` | `ClaimTask`, `TasksDone`, `Draw`, `LotteryDone`, `Travel`, `ReadLadder`, `Redeem`, `LadderDone`, `ReadQuota`, `OpenBuddies` |
| | `RunSteps`, `RecordGrowthRun` | `Begin`, `Record`, `CutOff` |
| `Metrics` | `RefreshAll`, `RefreshOne`, `Collect` | `OperationBegins`, `SingleBegins`, `Lock`, `ReadPrevious`, `Unlock`, `OperationEnds` |
| | `collectAccount`, `write`, `writeFailure`, `writeBackoff` | `Probe`, `Fetch`, `Store`, `ClearBackoff`, `StoreFailure`, `RecordBackoff`, `Skip`, `WindowEnds` |
| | `Scheduler` | `LoopBegins`, `JobEnds`, `StopBegins`, `StopReturns` |

In all of them an upstream call separates a read from the use of its answer, every
statement or transaction is a step, and an answer may be lost after its effect.

In `Rewards` an answer may also make a pass count a credit that the upstream did not
grant (`CountsUnbacked`): a draw that is answered as the replay of an earlier one, whose
credits the code adds again, and a claim that names no amount, for which it takes the
advertised reward. `unbacked` counts these. The steps of a pass follow each other
whatever became of the last one. In `Metrics` a write may fail before or after its
snapshot, and what it leaves out then (the next metric, the backoff) is as in the code:
the errors of `collectPoints` end nothing.

## 3. Checks

| Run | Question | Instance |
|---|---|---|
| `pool_safety` | do leases balance, is anything closed in use? | 2 accounts, 2 callers (a conversation's stream, plain completions), any exclusions, 1 replacement of each credential, 1 tick |
| `pool_health` | are cooldowns and blocks bounded and deserved? | 1 account, 2 models, all outcomes, resets 1 tick ago, in 2 and in 5 ticks with a cap of 3, 2 replacements, 2 ticks |
| `writer_safety` | is any event stranded, doubled, miscounted? does the writer implement the ledger? | 3 events, batches of 2, 3 callbacks, failing disk |
| `writer_close` | does Close flush what was accepted? No | 2 events, 2 callbacks, healthy disk |
| `credential_rows` | do rows outlive their account? does a rotation overwrite a newer credential? | 1 rotator, 2 administrators, 4 tokens, 3 versions, deletions |
| `account_ends` | does every call of a pool end? does a marked purpose come back? | 2 accounts, 2 callers with streams of one conversation, 1 replacement of each credential, reloads at any time; 1 rotator, 1 probe, 1 administrator, 3 tokens, 2 versions that wrap; fairness |
| `credential_dead` | has the pool dropped a dead session when its rotation is over? No | 1 rotator, 1 administrator |
| `credential_reported` | is a state reported as stored the state served? No | 1 rotator, 1 administrator |
| `jobs` | do the background jobs keep their slots, rows, markers, counts and flags true? | see below |
| `service` | do the services around the pools keep their promises? | see below |
| `plane` | is what was answered as updated served, by the strategy that is stored? | 2 handlers, 2 pools, 2 strategies, 2 writes |
| `settles` | does every accepted event settle, does every turn return, does the metrics' Stop return? | 2 events, 2 callbacks, failing disk; one turn with 4 messages and 5 streams; the loop, 1 operation and 1 single refresh, 1 metric, 1 reading; fairness |

`jobs`, one component per behaviour:

| Component | Instance | Properties |
|---|---|---|
| `Checkin` | 1 account, 2 batches, 2 loops, 2 days, 1 retry, 1 change or crash | `OneRunAtATime`, `OpenRowHasReason`, `MarkerFollowsSignIn`, `ScheduleSkipsDone` |
| `ActiveDay` | 2 passes of any kind, 2 days, a budget of 2 confirmations | `OneTurnPerDay`, `LitIsOfficial` |
| `Rewards` | 2 passes, 1 task, 1 chance, 1 tier, 1 buddy, 1 replayed answer | `CreditsWereGranted` |
| `Metrics` | the loop, 1 operation, 1 single refresh, 1 metric, 2 readings | `ProgressIsShown`, `FreshIsRead` |

`service`, one component per behaviour:

| Component | Instance | Properties |
|---|---|---|
| `Router` | 2 providers in one tier with weights 2 and 1 or in two tiers, 2 requests, 1 reload, 3 draws | `SharesAreExact` |
| `Settings` | 2 editors, 1 reader, 3 versions | `LossNeedsARace` |
| `Rollup` | 2 rounds, 5 minutes, days of 2 and months of 4 minutes, 2 events, retentions of 1 and 2 days | `BucketsNest` |
| `Plane` | 1 handler, for its types; its properties are those of the run `plane` | |
| `OAuthFlow` | 1 flow, 2 calls at a time and 3 in all, 1 user and an opaque token, 2 accounts | `ImportsAddUp` |
| `ModelSync` | 1 provider, 2 models of which 1 is configured, 1 synchronization, 1 operator | `SyncRespectsRows` |
| `Wire` | 2 messages of up to 2 blocks and a system prompt, 2 calls, 2 chunks | `UpstreamAccepts`, `AnswerIsWellFormed` |

**Exceptions a property names.** Some promises hold only as long as something rare does
not happen, and the property says so with a history variable. What the code does in the
excepted case is in section 5, where it contradicts a document.

| Property | Excepts |
|---|---|
| `ChangesAreLive` | overlapping reloads (`credential_reported` shows what they do), and tables of which the last reload read a part only |
| `StrategyInForce` | overlapping routing operations, and one that could not read the settings back |
| `ImportsAddUp` | overlapping polls of a flow; identities imported twice at a time, to an account the operator chose, or after a lookup that failed (section 5 on the last) |
| `LossNeedsARace` | a save that came between the check of another and its write |
| `BucketsNest` | overlapping rounds and the pruning of an open month |
| `SyncRespectsRows` | a row written after it was listed |
| `AnswerIsWellFormed` | for the blocks: content after a finish reason; for the calls: an upstream that sends unnumbered calls in several chunks. That a message starts once and ends at most once is not excepted |
| `OpenRowHasReason` | the end of the process, and a failure of the one statement that closes the row |
| `ScheduleSkipsDone` | a marker the batch could not read, or one that a rederivation wrote after it looked |
| `CreditsWereGranted` | what the upstream's own answers make a pass count without a grant |

**Bounds.** Two callers are enough for one to act between two steps of the other,
which is what every property of `Pool` is about; one replacement of a credential
makes an old and a new slot object of one account, two make an outdated failure of a
replaced replacement. In `EventWriter` three events with batches of two leave one
event over after a full batch, so that a timer and a handler compete; three callbacks
let a late one meet its successor's successor. In `Credentials` four tokens are the
stored one, the one a rotator read, the one it got and one of an import; three
versions let a version be read, overtaken and overtaken again (`account_ends`
needs fewer of both: which token is stored does not matter to a mark). In `Checkin` two
batches and two loops are a catch-up against a manual run and a reconfigured scheduler,
and two days put midnight between the check, the call and the marker. In `ActiveDay`
two passes race for one day and two days make the correction of yesterday. Three draws
are one whole turn of weights 2 and 1. Days of 2 and months of 4 minutes let a day end
inside a month and a month end inside the run. Two chunks let every block be opened in
one and continued in another, two calls run together or stay apart, and content follow
a finish reason. One replayed answer makes a pass count once more than was granted,
which is all that the sum tells apart.
The clock of `Pool`, the generations and the versions are bounded by `MaxTime`,
`MaxGen` and `MaxVersion` in the guards; the other bounds are the constants marked
"bound" in each module. Symmetry is used in runs without liveness only.

**Deadlock.** It is checked where the system cannot stop. `jobs`, `service`, `plane` and
`settles` switch the check off: a process that has been stopped, a request that was
answered and a run whose bounded events are used up have nothing left to do.

**Fairness.** `account_ends`, pool: each request's own goroutine goes on. An upstream call
ends because the response headers have a timeout and a stalled body ends with its
caller; a handler reads its stream to the end and closes it by `defer`. Nothing is
assumed of the plane or of other requests. `settles`, writer: a goroutine that can go on
does, a timer runs out, a transaction ends, and a waiter gets `writeMu` in the end
(`sync.Mutex` hands over to a waiter that starves). `settles`, turn: Run goes on, its
timers run out, and a stream that is open ends or fails some time. The last is an
assumption about the upstream that the code does not enforce: `disconnect` cancels the
context of the event channel only, and the streams of posted messages are read without
a timer. Under `AcpTurn!ClientFairSpec`, which leaves it out, `TurnReturns` is
violated: Run waits in `Drain`, and `Scheduler.inCycle` stays set.
`settles`, metrics: a round or refresh goes on, its upstream calls end because the
client has a timeout (`metrics/clients.go:48-62`), and a waiter gets `roundMu` in the end.
Nothing makes the console start anything. Stop itself cancels the round's context, which
the model does not need: each round is finite.
`account_ends`, credentials: the rotation
loop never ends, and what it tries over and over at an upstream and a disk that fail
now and then succeeds at some time (strong fairness of the four steps that can fail).
An upstream that refuses a session for ever is thereby excluded, as the property says;
the other way out is a row without refresh token. The property also takes administrators
that stop overwriting the row: one that replaced it in every single refresh call would
keep every rotation from being stored. Versions start again at the bound in this run
(`Wraps`), since a run that stops writing at the bound would hold nothing to account.

## 4. Proofs

All are checked by TLAPS for every value of the constants that meets the assumption
named in the module: any number of accounts, callers, batches, passes and so on, and
any bound. `JobsProofs` proves over `MCJobs`, and `ServiceProofs` and `WireProofs` over
`Services`; both have constants in the place of the instances' values.

Three kinds of data need an induction, over the set, sequence or number it is built
from: sums over sets, folds over sequences, and the numbering of blocks. No theorem
with an operator parameter can be used, so each induction is one over a minimal
counterexample, from the well-foundedness of the numbers and of the finite subsets.
`SumProofs` has it for sums: `MapThenSumSet` is a recursive function, such a function
exists over the subsets of any finite set, and it is therefore determined by its
equation (`MapSum`); from this follow what a sum does when a summand changes, when two
sums are compared term by term, and when a set is split.

### 4.1 Pool

* `TypeCorrect`: `TypeOK` alone is not inductive: a step past the draw needs
  to know that the request holds a slot object (`HandlesAreSlots`), so `TypeInv` joins
  the two.
* `LeasesAlwaysBalance`, `ClosingIsSafe`: from `LeaseInv`, which adds
  that a leased slot object was made already and that objects not made yet are open.
  Without it a new generation could start with a count or be closed at birth.
  Lemma `StepKinds` reduces the actions to four kinds with respect to leases (one is
  taken, one returned, all are kept, slots are replaced), and the invariant is proved
  over those. Counting uses the cardinality of the set of holders, hence
  `IsFiniteSet(Requests)`.
* `ExclusionsStayBounded`, `CooldownsHaveCauses`: from `HealthInv`. A cooldown or block longer than its limit could come from the clearing
  of an entry only if a deadline were negative (`DeadlinesAreNatural`), and a request
  that is about to record an outcome met a failure (`OutcomesAreFailures`). `MarkBounds`
  needs `Cooldown <= BlockMax`; both are constants of `providers/pool.go`.

### 4.2 EventWriter

`StepKinds` again: as far as events and counters go, a step accepts one event, refuses
one, takes the pending batch, commits, rolls back or counts one, or leaves everything
as it is.

* `TypeCorrect`.
* `EventsHaveOnePlace`: from `EventInv`, which says event by event what `OnePlace` says
  of the sets, and which goroutines can hold a batch that is or is not in the table.
* `ExitLeavesNothingPending`: from `MainInv`, that main is in no other Flush when it calls
  `Close` and that nobody is accepted from then on.
* `NobodyIsStranded`: from `TimerInv`, that the timer `w.timer` points to is armed or its
  callback is about to take the batch. This is what lets a late callback disarm its
  successor: it takes the successor's events along.
* `CountersAddUp`: both counters are compared with cardinalities of `Settled` and
  `Refused`; each kind of step changes these by the events it names.
* `ImplementsTheLedger`: `Spec` implies `EventLedger!Spec` under the mapping `LedgerState`.
  `Count` is the step in which a stored event keeps its state and a failed one is lost;
  acceptance, refusal, commit and the first `Close` are steps of the ledger, the
  others stutter.

### 4.3 Credentials, Checkin

* `CredentialProofs!TypeCorrect`, `NoOrphans`, `RotationIsSafe`: the last needs
  `ReadInv`, that until a row is deleted versions only grow and a version still stored
  is stored with the token read with it: the reason why comparing versions in the
  write protects the token. It assumes `~ Wraps`, since the code's versions do not.
* `CheckinProofs!TypeCorrect`, `OneRun`, `OpenRows`, `MarkersStandForSignIns`,
  `ScheduledBatchesSkip`: `OneRunAtATime` is inductive over `TypeInv`, which knows the
  account of a batch that works on one, and the others rest on it. Open rows need
  `RowInv`: an id that is free has no row yet, and a batch about to give its slot back
  has closed its own unless the closing statement failed. Markers need `DayInv`: a batch with a
  success in hand has a sign-in of today or earlier behind it (`SignInv`), so has what a
  rederivation goes by (`AttemptInv`), and no marker is of a day to come (`MarkInv`),
  which is what makes `SkipInv`, that a scheduled batch which is not blind calls for
  nobody marked today, survive midnight.

### 4.4 The other background jobs

`JobsAreIndependent`: a behaviour of `MCJobs` is a behaviour of each job, so that the
invariants of one job are proved over its own steps and hold of the composition.
`JobsAssumption` says that bounds are numbers, that tasks and tiers are finitely many
and that the goroutines of the metrics are told apart.

* `OneTurnADay`, `LitDaysAreOfficial`: `ClaimInv` is the argument behind the primary key
  of the claimed day: while a pass holds the claim, its row is there, nobody else holds
  it and no turn was sent. `HeatmapInv` says that what a pass has read of the heatmap
  stays true, however late it is written.
* `ProgressIsAlwaysShown`, `FreshMeansRead`: from `MetricInv`. A round holds
  `roundMu` from its first step to its last and shows it (`RoundInv`). Readings are
  numbered; one that waits to be stored is in no snapshot, in no copy of one and in no
  other hand (`ReadingInv`), so that what becomes fresh was nobody's previous value.
* `CreditsAreGranted`: from `CreditsInv`, that what is logged and what all passes count is
  no more than what upstream granted and what its answers made passes count without a
  grant (`unbacked`). A step adds to the count of its own pass no more than it adds to
  these two, moves the count to the log, or drops it; only one summand
  changes.
* `TypesCorrect`: `TypesOK` of all four jobs. For the reward steps it needs `RewardInv`:
  what was granted and what is left (`Worth`) add up to what there was, and no pass
  counts more than was granted; without it the credits of a pass are not bounded.

### 4.5 The services

`ServicesAreIndependent` is the same for `Services`. `ServiceAssumption` says that the
routes are a list of providers with priorities and weights, that days and months are
whole and a month is made of whole days, that the default strategy is one, that bounds
are numbers, that calls are finitely many, and that "none", the opaque token and "no
row" are told apart from users, flows, rows and blocks. The routes name each provider
once, as `BuildCatalog` says ("one route per provider", `models/models.go`); nothing is
said of a configuration in which that fails (section 5).

* `TiersServeByWeight`: from `RouterInv`. Every tier is `Even`: a counter is what its
  weight has earned less what its draws have cost, the counters sum to zero, and none is
  a whole turn below zero. After whole turns a counter is a multiple of a turn, hence
  not negative, hence zero.
* `RoutesAreTriedOnce`: `NoRouteTwice`, from `PathInv`. The drawn order has every provider
  once: `Before` is a strict order, so the sets of providers before each grow one by
  one and every place of the order is taken (`EveryPlaceIsTaken`, `OrderIsAnOrder`);
  putting the pinned provider first keeps that (`PinnedFirstIsAnOrder`). No route that is
  left of an order has failed the request (`Untried`), except the one in front while
  its pin is compared and dropped.
* `WindowsStayNested`: from `RollupInv`. In the months that no pruning has reached, the
  buckets of minutes and days claim no more than the details show (`Within`), and so do
  they of what the round in hand has read, so that the bucket it writes is no smaller
  than what the buckets inside it add up to. That a day splits into its minutes and a
  month into its days is the arithmetic of `WindowsAre`. Rounds that overlapped and
  prunings of an open month are excepted as in the property.

* `EditsAreLostInRaces`: from `EditInv`. A save that waits for its write after a check that
  compared versions holds the version that is stored, unless another save was stored in
  between; so what it replaces was seen.
* `ChangesStayLive`: from `LiveInv`. What is answered, what a handler wrote and what a
  reload has read was in its table (`ReadInv`); unless reloads overlapped there is one
  reload, and each table it has read already it has read in part, or it is not older
  than what was answered and what its own handler wrote (`Covers` in `PassInv`). At
  `Publish` this becomes the property.
* `StrategyStaysInForce`: from `RoutingInv`, how far the one routing change is: until the
  setting is stored all pools agree; from `ConfigureRouting` on, those agree that it has
  passed. Reloads publish the stored strategy in between.
* `SyncKeepsRows`: from `CatalogInv`: a synchronization that writes has listed every row it
  has yet to write as it still is, except those somebody wrote meanwhile (`stale`). The
  property then follows from what `Reconcile` makes of one row.
* `ImportsStayUnique`: from `FlowInv`. While imports of an identity do not overlap and
  none goes to a chosen account or is made after a failed lookup (`Excepted`), one import
  at most is writing it and it writes the account that there is (`IdentityInv`).
  While polls of a flow do not overlap, whoever asks for or writes it is the first, and
  who has imported is under way until the flow is over (`OneImport`).

### 4.6 The wire

`WireProofs` is about any messages, blocks, calls and chunks, and any number of them: an
Anthropic request reads one message after the other (`ReadMessage`) up to any `MaxTurns`.
The converter, the aggregator and the conversion of messages are folds over blocks and
fragments. A fold is the end of a path that takes one element at a time (`ToolPath` and
its like), so that what each element keeps holds at the end (`Climb`, `CountUp`).

* `UpstreamIsSatisfied`: from `RequestInv`, that what is about to be sent are messages
  (`ReadAreTurns`, with `OtherMessagesAreTurns` for the fold over the blocks of one) and
  what was sent is `Prepared` of them. It speaks of texts; what is elsewhere goes out as
  it came.
* `AnswersAreWellFormed`: from `AnswerInv`. The events of a stream have a shape
  (`Shaped`) that an event keeps when it `Follows` what is written. That the converter
  writes only such events needs its memory: the blocks it knows as open are those
  started and not stopped, numbered without a gap (`Live`), each of its text, thinking
  and call blocks was started as one (`Bound`), and the fragments in a block are those
  of the call that has its index (`Named`). A call's index is its place among the calls
  begun, and calls only join at the end (`After`), so a block keeps its call; without
  indexes this is so only within the first chunk, as the property says. There are never
  indexes than calls, since those begun differ (`ListIsShort`). The shape of the blocks
  ends with the first content after a finish reason. What remains of the message then is
  `Once`: it begins with its start, and has no other start and no second stop. It lasts
  because a converter that has stopped writes starts and pieces of blocks only
  (`Over`, `StoppedIsOver`).
* `TypesCorrect`: `TypesOK` of all seven services. Each bounds something that no single
  step does:
  - `Router`: an order is never longer than the routes, a counter of wins never passes
    the draws (`PathInv`, `RoomToDraw`);
  - `Settings`: versions and snapshots (`SettingsTypes`);
  - `Rollup`: no bucket and no round counts more than has landed, although rounds
    recount from what they read and buckets add up buckets (`RollupBounds`);
  - `Plane`: a handler that writes has a table and transactions left, one that reads has
    a table to read, and neither a table nor what a handler wrote passes the last version
    (`PlaneBounds`);
  - `OAuthFlow`: a flow's imports and the polls that may still import are no more than
    the polls begun (`FlowBounds`);
  - `ModelSync`: from `CatalogInv`;
  - `Wire`: every number a converter has given out is that of its thinking, its text or
    a call (`Held`), so an injection from the blocks bounds them (`BlocksAreFew`), also
    after the client has left and no event shows them.

### 4.7 Only model-checked

* `RequestsEnd`, `EventsSettle`, `TurnReturns`, `StopEnds`, `Recovers`: liveness and `ENABLED` are outside
  the prover's reach.
* The claims of section 5 that hold and no run lists, except `NoRouteTwice`.

Every invariant and action property of a passing run, and the refinement of
`EventLedger`, is a theorem.

## 5. Where the code and its documents differ

Three differences are shown by a run that finds the documented property violated:

1. `writer_close` - `Close` does not wait for a batch another goroutine has taken
   (`store/telemetry.go:150`).
2. `credential_dead` - a dead session is recorded and the pool is not reloaded
   (`server/rotation.go:206`).
3. `credential_reported` - a reload that read before a change is applied after the
   reload that reported it (`server/plane.go:477`).

More promises are stated in the modules, at the end of their properties, and refuted by
TLC when they are checked; no run lists them.

| Claim | What it quotes | How it fails |
|---|---|---|
| `Pool!ForgetDropsTheFailedPin` | `providers/pool.go:672` | the pin is compared and dropped in two critical sections, and another request wrote it in between |
| `Credentials!ReloadDropsRejected` | `server/plane.go:348` | a reload serves a rejected account of a chat-only provider |
| `Settings!GoodSnapshotStays` | `server/runtime_settings.go:53` | of the first two readers one fails and stores its empty snapshot last |
| `Settings!NoEditIsLost` | `server/admin_routes.go:328` | the version is compared in one statement and the value written in another that compares nothing: of two administrators who saved, both answered with success, the first loses its edit |
| `Rollup!TotalsStay` | `src/frontend/src/pages/SettingsPage.vue:107` | a shorter retention prunes an open month, which is then recounted |
| `OAuthFlow!RepeatLoginsReuse` | `importer/importer.go:58-60` | any error of the lookup of an identity is taken for "no such account" (62), and a repeat login gets a second account |
| `OAuthFlow!TerminalIsFinal` | `oauthflow/flow.go:286` | a second overlapping poll turns the success into a failure |
| `ModelSync!EveryRouteFlips` | `server/admin_accounts.go:889` | two opposite patches of one model flip its routes in turn, and each answers that it flipped them all |
| `Wire!IdentityIsScrubbed` | `providers/wire.go:559` | only texts are rewritten: tool-call arguments, blocks of other types, items of an array and the object content of a turn that is no system message pass verbatim (`providers/wire.go:470-489`, 522-542) |
| `Wire!BlocksCloseAtTheEnd` | `server/anthropic_stream.go:14-15` | the stream is read on after a finish reason has ended the message (`proxy_routes.go:287-310`), and what follows is written, after `message_stop`, into blocks that are closed or opens blocks that nobody closes (75-112, 143-218) |
| `Wire!AbortsAreTheCallers` | `providers/provider.go:224` | a connection reset by the upstream counts as the caller's |
| `Wire!ToolCallsArrive` | `src/README.md:21` | `anthropic.go:233` asserts `[]any`, `wire.go:317` makes `[]map[string]any`: a non-streaming Anthropic answer loses its calls and still says `tool_use` |
| `Metrics!ValueIsKept` | `metrics/collect.go:311` | a failure republishes the value of the round's start over a first value read meanwhile |
| `Checkin!MarkerIsOfItsDay` | `checkin/service.go:330` | midnight passes between the sign-in and its marker; and a rederivation writes today's marker from an attempt of any earlier day |
| `ActiveDay!NoStaleVerdict` | `store/checkin.go` (`ResetActiveDay`) | a confirmation that was under way when the row was reset stores its old verdict |
| `AcpTurn!TurnReturns` under `ClientFairSpec` | `growth/active_day.go` (`NewActiveDayClient`) | see Fairness |

And five claims hold that no run lists: `Router!NoRouteTwice`, which is proved (4.5) and
which TLC confirms on the instance of `service`, `OAuthFlow!VerifiedStays`,
`Rewards!BuddiesWereOpened`, `AcpTurn!SuccessIsEndOfTurn` and `AcpTurn!DeletedIsDrained`.

Met while modelling, without a formula:

* The order of canaries (`providers/pool.go:772` against 409-411); `Enqueue` waiting for
  the disk (`store/telemetry.go:90` against 68); the first `Close` under an expired
  context (`src/cmd/qb2api/main.go:137` against `docs/design/architecture.md:68-69`);
  versions that restart after a deletion (`store/accounts.go:383` against 361-363); a
  probe that marks without evidence (`metrics/collect.go:303` against
  `docs/implementation-notes.md:228`).
* A backoff whose cap of an hour is never reached (`metrics/collect.go:420-433`: the
  longest wait is 1920 s). `RefreshAll` has a status "cancelled" that its shutdown does
  not produce. A manual rollup uses the environment's retention, not the override.
* A batch whose `FinishCheckinRun` fails alone only logs it (`checkin/service.go:107`):
  its row says "running" for ever, although the slot is free and the next batch runs.
* A day marker that cannot be read counts as not done (`checkin/service.go:279`): a
  scheduled batch signs the account in again.
* `handleRederiveCheckin` (`server/admin_accounts.go:473-494`) writes a day marker from the
  latest attempt, with the date of the moment and without the batch's slot.
* The importer swallows the errors of both its lookups: that of `GetAccount`
  (`importer/importer.go:53`) erases the identity of the account the operator chose if the
  token names nobody, that of `FindAccountByIdentityHash` (62) makes a second account (`OAuthFlow!RepeatLoginsReuse`).
* A reload skips an account whose credential it cannot read or decrypt
  (`server/plane.go:353-364`) and does without a catalog it cannot list (391); what was
  changed is answered as "updated" although the account is not served.
* A lottery draw that is answered as a replay (`idempotent_hit`, `growth/steps.go:87`,
  104-117) is counted and listed again, where `steps.go:65-66` reports "each prize it won";
  a claim that names no amount counts what the task advertises (60, 365).
* `growth.Scheduler.Stop` says that it waits for the cycle and does not.
* Anthropic streams never report their usage to telemetry; a request of that dialect
  without messages goes upstream with one message although `preparedMessages`
  guarantees two.
* `handleImportPoll` and `applyPurposePatches` ignore a failed reload; a routing setting
  is answered "effective" although reading it back failed; the audit row always says
  "succeeded"; an expired proxy key is accepted until the next reload.
* A provider whose model ids differ in their case alone, or that a "unified" override
  lists twice, has two routes of one model (`models/models.go:209-218` and 276-285 against
  206), and `policyOrder` tries the last of them twice.
* A "unified" override enables rows again that an operator disabled, and so does the
  refresh of the catalog; a model all of whose routes are disabled leaves the catalog,
  so that the console's PATCH to enable it answers 404.

## 6. Not modelled, and plan

Not modelled: administrator sessions, login throttling, audit and backups (single
statements or one mutex around a map, on data nobody else changes); configuration and
schema (read or created once at start); the vault (a pure function, cryptography);
the HTTP routing table; the web console and the deployment files. Within the modelled
components: listings, exports, charts and other read-only queries; parsing of
import formats and of upstream bodies; batch operations of the console, which repeat
the single ones; the account strategies and the TTL arithmetic of the affinity table.

The failures of single statements are modelled where the code goes on after them: the
statement that closes a batch, the reads of markers and of credentials, the lookups of
the importer, the writes of the metrics, and the marker of `handleRederiveCheckin` beside
a batch (sections 2.6 to 2.9). Left out are those that only lose a row of the audit or of
the history, or a log line.

Plan for what follows:

1. Theorems: the other claims of section 5 that hold and no run lists.
2. `Affinity` - TTL, limit and eviction, refining the pins of `Pool`; the account
   strategies as functions, each returning a member of `Candidates`.
3. The composition of `Router` with two instances of the pool's interface.
