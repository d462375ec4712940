------------------------------- MODULE Metrics -------------------------------
(***************************************************************************)
(* Credit metrics (internal/metrics): the scheduler's rounds, the rounds    *)
(* that the console asks for and the single refreshes of the check-in and   *)
(* growth pipelines sample balances upstream, store them and back off from  *)
(* a metric that fails.  A balance is known by the number of its reading.   *)
(***************************************************************************)
EXTENDS Integers, FiniteSets

CONSTANTS
  Metrics,      \* metricKey: one credit balance per account
  Loop,         \* the scheduler's goroutine
  Operations,   \* rounds of the console
  Singles,      \* calls of RefreshOne
  MaxReadings   \* bound: readings of a balance

Jobs == {Loop} \cup Operations \cup Singles
Rounds == {Loop} \cup Operations

VARIABLES
  roundMu,     \* the round that holds it
  collecting,  \* RefreshInProgress
  snapshot,    \* account_metric_snapshots
  resting,     \* metrics inside the retry window of a failure: Collector.backoff
  task,        \* each job
  operation,   \* metric_refresh_operations
  scheduler,   \* Scheduler.running, and its Stop
  readings     \* successful reads so far

vars == <<roundMu, collecting, snapshot, resting, task, operation, scheduler, readings>>

NoSnapshot == [value |-> 0, status |-> "absent"]
Idle == [at |-> "idle", previous |-> [m \in Metrics |-> NoSnapshot], todo |-> {}, got |-> 0]
Nobody == "nobody"

Snapshots == [value : 0 .. MaxReadings, status : {"absent", "fresh", "stale", "unavailable"}]
Places == {"idle", "lock", "begin", "account", "fetch", "store", "clear", "fail", "rest",
           "end", "unlock", "report", "done"}
TaskType == [at : Places, previous : [Metrics -> Snapshots],
             todo : SUBSET Metrics, got : 0 .. MaxReadings]

TypeOK ==
  /\ roundMu \in Rounds \cup {Nobody}
  /\ collecting \in BOOLEAN
  /\ snapshot \in [Metrics -> Snapshots]
  /\ resting \subseteq Metrics
  /\ task \in [Jobs -> TaskType]
  /\ operation \in [Operations -> {"absent", "running", "finished"}]
  /\ scheduler \in {"running", "stopping", "stopped"}
  /\ readings \in 0 .. MaxReadings

Init ==
  /\ roundMu = Nobody /\ collecting = FALSE
  /\ snapshot = [m \in Metrics |-> NoSnapshot]
  /\ resting = {}
  /\ task = [j \in Jobs |-> Idle]
  /\ operation = [o \in Operations |-> "absent"]
  /\ scheduler = "running" /\ readings = 0

At(j, place) == task[j].at = place
Goto(j, place) == task' = [task EXCEPT ![j].at = place]
Leaves(j) == task' = [task EXCEPT ![j] = [Idle EXCEPT !.at = IF j \in Rounds THEN "end" ELSE "done"]]

\* The metric that a job is at: one at a time, the first of those left.
Now(j) == CHOOSE m \in task[j].todo : TRUE
NextMetric(j) == task' = [task EXCEPT ![j].at = "account", ![j].todo = @ \ {Now(j)}, ![j].got = 0]

-----------------------------------------------------------------------------
(* Rounds begin and end.                                                   *)

\* loop: a round at once and then one per interval.
LoopBegins ==
  /\ At(Loop, "idle") /\ scheduler = "running"
  /\ Goto(Loop, "lock")
  /\ UNCHANGED <<roundMu, collecting, snapshot, resting, operation, scheduler, readings>>

\* RefreshAll records its operation first; without the row there is no round.
OperationBegins(o) ==
  /\ At(o, "idle")
  /\ \/ operation' = [operation EXCEPT ![o] = "running"] /\ Goto(o, "lock")
     \/ Goto(o, "done") /\ UNCHANGED operation
  /\ UNCHANGED <<roundMu, collecting, snapshot, resting, scheduler, readings>>

SingleBegins(s) ==
  /\ At(s, "idle")
  /\ Goto(s, "begin")
  /\ UNCHANGED <<roundMu, collecting, snapshot, resting, operation, scheduler, readings>>

\* Collect takes roundMu for the whole round.
Lock(r) ==
  /\ At(r, "lock") /\ roundMu = Nobody
  /\ roundMu' = r /\ collecting' = TRUE
  /\ Goto(r, "begin")
  /\ UNCHANGED <<snapshot, resting, operation, scheduler, readings>>

\* previousRows and the metrics to sample, or a storage failure.
ReadPrevious(j) ==
  /\ At(j, "begin")
  /\ \/ \E todo \in IF j \in Rounds THEN {Metrics} ELSE {{m} : m \in Metrics} :
          task' = [task EXCEPT ![j].at = "account", ![j].previous = snapshot, ![j].todo = todo]
     \/ Leaves(j)
  /\ UNCHANGED <<roundMu, collecting, snapshot, resting, operation, scheduler, readings>>

\* All metrics are done; or the context of the round is cancelled or over, or a statement
\* about the account fails that is not about its credits (collectAccount, prune).
JobEnds(j) ==
  /\ At(j, "account")
  /\ Leaves(j)
  /\ UNCHANGED <<roundMu, collecting, snapshot, resting, operation, scheduler, readings>>

\* Mutation: the deferred calls run in the order of the text.
UnlocksFirst(r) ==
  /\ \/ At(r, "end") /\ Goto(r, "unlock") /\ roundMu' = Nobody /\ UNCHANGED collecting
     \/ /\ At(r, "unlock")
        /\ Goto(r, IF r = Loop THEN "idle" ELSE "report")
        /\ collecting' = FALSE /\ UNCHANGED roundMu
  /\ UNCHANGED <<snapshot, resting, operation, scheduler, readings>>

\* Mutation: a round that ends keeps the mutex.
UnlockForgotten(r) ==
  /\ At(r, "end")
  /\ Goto(r, IF r = Loop THEN "idle" ELSE "report")
  /\ collecting' = FALSE
  /\ UNCHANGED <<roundMu, snapshot, resting, operation, scheduler, readings>>

\* The deferred calls of Collect, last in first out.
Unlock(r) ==
  /\ \/ At(r, "end") /\ Goto(r, "unlock") /\ collecting' = FALSE /\ UNCHANGED roundMu
     \/ /\ At(r, "unlock")
        /\ Goto(r, IF r = Loop THEN "idle" ELSE "report")
        /\ roundMu' = Nobody /\ UNCHANGED collecting
  /\ UNCHANGED <<snapshot, resting, operation, scheduler, readings>>

\* RefreshAll records the outcome, if it can.
OperationEnds(o) ==
  /\ At(o, "report")
  /\ \/ operation' = [operation EXCEPT ![o] = "finished"]
     \/ UNCHANGED operation
  /\ Goto(o, "done")
  /\ UNCHANGED <<roundMu, collecting, snapshot, resting, scheduler, readings>>

-----------------------------------------------------------------------------
(* collectPoints.  Its errors, those of the storage too, end nothing but the *)
(* metric: collectAccount reports them as PointsErr, and a round drops them. *)

Republished(m, prior) ==
  /\ prior.value # 0
  /\ snapshot' = [snapshot EXCEPT ![m] = [value |-> prior.value, status |-> "stale"]]

\* writeBackoff: inside the window an earlier balance is published again, if there is
\* one and the write succeeds.
Skip(j) ==
  /\ At(j, "account") /\ task[j].todo # {} /\ Now(j) \in resting
  /\ Republished(Now(j), task[j].previous[Now(j)]) \/ UNCHANGED snapshot
  /\ NextMetric(j)
  /\ UNCHANGED <<roundMu, collecting, resting, operation, scheduler, readings>>

Probe(j) ==
  /\ At(j, "account") /\ task[j].todo # {} /\ Now(j) \notin resting
  /\ Goto(j, "fetch")
  /\ UNCHANGED <<roundMu, collecting, snapshot, resting, operation, scheduler, readings>>

\* FetchCredits answers with a balance, or fails in one of its ways.
Fetch(j) ==
  /\ At(j, "fetch")
  /\ \/ /\ readings < MaxReadings /\ readings' = readings + 1
        /\ task' = [task EXCEPT ![j].at = "store", ![j].got = readings + 1]
     \/ Goto(j, "fail") /\ UNCHANGED readings
  /\ UNCHANGED <<roundMu, collecting, snapshot, resting, operation, scheduler>>

\* write of a fresh sample, the snapshot and its history row in two statements: the
\* window of the metric is cleared only when both are stored.
Store(j) ==
  /\ At(j, "store")
  /\ \/ /\ snapshot' = [snapshot EXCEPT ![Now(j)] = [value |-> task[j].got, status |-> "fresh"]]
        /\ Goto(j, "clear") \/ NextMetric(j)
     \/ NextMetric(j) /\ UNCHANGED snapshot
  /\ UNCHANGED <<roundMu, collecting, resting, operation, scheduler, readings>>

ClearBackoff(j) ==
  /\ At(j, "clear")
  /\ resting' = resting \ {Now(j)}
  /\ NextMetric(j)
  /\ UNCHANGED <<roundMu, collecting, snapshot, operation, scheduler, readings>>

\* Mutation: the sample that failed is stored as a reading.
FailureLooksFresh(j) ==
  /\ At(j, "fail")
  /\ LET prior == task[j].previous[Now(j)] IN
       snapshot' = [snapshot EXCEPT ![Now(j)] = [value |-> prior.value, status |-> "fresh"]]
  /\ Goto(j, "rest")
  /\ UNCHANGED <<roundMu, collecting, resting, operation, scheduler, readings>>

\* writeFailure: the balance that was there when the job began, or nothing.  Only what
\* is stored, with its history row where it has a value, opens a window.
StoreFailure(j) ==
  /\ At(j, "fail")
  /\ LET prior == task[j].previous[Now(j)] IN
       \/ Republished(Now(j), prior) /\ (Goto(j, "rest") \/ NextMetric(j))
       \/ /\ prior.value = 0
          /\ snapshot' = [snapshot EXCEPT ![Now(j)] = [value |-> 0, status |-> "unavailable"]]
          /\ Goto(j, "rest")
       \/ NextMetric(j) /\ UNCHANGED snapshot
  /\ UNCHANGED <<roundMu, collecting, resting, operation, scheduler, readings>>

\* recordBackoff.
RecordBackoff(j) ==
  /\ At(j, "rest")
  /\ resting' = resting \cup {Now(j)}
  /\ NextMetric(j)
  /\ UNCHANGED <<roundMu, collecting, snapshot, operation, scheduler, readings>>

-----------------------------------------------------------------------------
(* Time and shutdown.                                                      *)

\* The window, of 30 s and twice as long for each further failure, is over.
WindowEnds ==
  /\ \E m \in resting : resting' = resting \ {m}
  /\ UNCHANGED <<roundMu, collecting, snapshot, task, operation, scheduler, readings>>

StopBegins ==
  /\ scheduler = "running" /\ scheduler' = "stopping"
  /\ UNCHANGED <<roundMu, collecting, snapshot, resting, task, operation, readings>>

\* Stop waits for done, which the loop closes between two rounds.
StopReturns ==
  /\ scheduler = "stopping" /\ At(Loop, "idle")
  /\ scheduler' = "stopped"
  /\ UNCHANGED <<roundMu, collecting, snapshot, resting, task, operation, readings>>

JobStep(j) ==
  \/ ReadPrevious(j) \/ JobEnds(j) \/ Skip(j) \/ Probe(j) \/ Fetch(j) \/ Store(j)
  \/ ClearBackoff(j) \/ StoreFailure(j) \/ RecordBackoff(j)

Next ==
  \/ \E j \in Jobs : JobStep(j)
  \/ \E r \in Rounds : Lock(r) \/ Unlock(r)
  \/ \E o \in Operations : OperationBegins(o) \/ OperationEnds(o)
  \/ \E s \in Singles : SingleBegins(s)
  \/ LoopBegins \/ WindowEnds \/ StopBegins \/ StopReturns

Spec == Init /\ [][Next]_vars

-----------------------------------------------------------------------------
(* Properties.                                                             *)

\* The console's "refresh in progress" is on through every round: the end of one
\* never switches off the flag of the next.
ProgressIsShown ==
  \A r \in Rounds :
    task[r].at \in {"begin", "account", "fetch", "store", "clear", "fail", "rest", "end"}
      => collecting /\ roundMu = r

\* Scheduler.Stop returns, although it waits for a loop that may itself wait for
\* roundMu behind a round of the console, which no cancellation interrupts.
StopEnds == scheduler = "stopping" ~> scheduler = "stopped"

\* A snapshot that says "fresh" is a reading that nobody has published before: a
\* failure or a backoff never dresses an old balance up, also not when a single
\* refresh and a round overlap.
FreshIsRead ==
  [][\A m \in Metrics :
       snapshot'[m] # snapshot[m] /\ snapshot'[m].status = "fresh"
         => snapshot'[m].value # 0 /\ \A j \in Jobs :
              task[j].previous[m].value # snapshot'[m].value]_vars

\* writeFailure: "A metric that already has a value keeps reporting it as stale"
\* (collect.go:311): it never loses the value.
ValueIsKept ==
  [][\A m \in Metrics : snapshot[m].value # 0 => snapshot'[m].value # 0]_vars
=============================================================================
