----------------------------- MODULE MCLiveness -----------------------------
(***************************************************************************)
(* What must happen in the end, for TLC: an accepted event of the telemetry *)
(* writer settles, a turn over the ACP channel returns, and the metrics'    *)
(* scheduler stops.  The three share no memory: a behaviour chooses one,    *)
(* and the fairness is that of its goroutines.                             *)
(***************************************************************************)
EXTENDS Integers, FiniteSets, TLC

CONSTANTS Events, Callbacks, Main, Other, MaxBatch, DiskMayFail, None,
          Metrics, Loop, Operations, Singles, MaxReadings

VARIABLES
  pending, timer, stopped, written, dropped, writer, rows, pc, batch, stage, expired,
  turn, call, waiter, turnDone, streamErr, open, reached, ended, outcome,
  roundMu, collecting, snapshot, resting, task, operation, scheduler, readings,
  job   \* the part of this behaviour

writerVars == <<pending, timer, stopped, written, dropped, writer, rows, pc, batch, stage, expired>>
turnVars == <<turn, call, waiter, turnDone, streamErr, open, reached, ended, outcome>>

W == INSTANCE EventWriter
metricVars ==
  <<roundMu, collecting, snapshot, resting, task, operation, scheduler, readings>>

T == INSTANCE AcpTurn WITH stage <- turn
M == INSTANCE Metrics

Init == /\ job \in {"writer", "turn", "metrics"}
        /\ W!Init /\ T!Init /\ M!Init

Next ==
  /\ UNCHANGED job
  /\ \/ job = "writer" /\ W!Next /\ UNCHANGED <<turnVars, metricVars>>
     \/ job = "turn" /\ T!Next /\ UNCHANGED <<writerVars, metricVars>>
     \/ job = "metrics" /\ M!Next /\ UNCHANGED <<writerVars, turnVars>>

\* EventWriter!FlushFairness.
WriterFairness ==
  /\ \A p \in Events \cup Callbacks \cup {Main} :
       /\ WF_writerVars(job = "writer" /\ W!GoesOn(p))
       /\ SF_writerVars(job = "writer" /\ W!LockDB(p))
  /\ WF_writerVars(job = "writer" /\ W!OtherUnlocks)

\* AcpTurn!OwnSteps and AcpTurn!UpstreamFinishes: Run is in one place at a time, and
\* where its timer competes with an answer either will do.
TurnFairness ==
  /\ WF_turnVars(job = "turn" /\ T!RunStep)
  /\ \A s \in {0, 1, 2, 3, 4} : WF_turnVars(job = "turn" /\ (T!StreamFails(s) \/ T!StreamEnds(s)))

\* Each round or single refresh goes on, its upstream calls end, and so does the wait
\* for a mutex that is free; nothing makes an operation or a single refresh begin.
MetricFairness ==
  /\ \A j \in M!Jobs : WF_metricVars(job = "metrics" /\ M!JobStep(j))
  /\ \A r \in M!Rounds : WF_metricVars(job = "metrics" /\ (M!Lock(r) \/ M!Unlock(r)))
  /\ WF_metricVars(job = "metrics" /\ M!StopReturns)

Spec ==
  /\ Init /\ [][Next]_<<job, writerVars, turnVars, metricVars>>
  /\ WriterFairness /\ TurnFairness /\ MetricFairness

\* internal/store: every accepted event is written or counted as lost.
EventsSettle == W!EventsSettle
\* internal/growth: a turn over the ACP channel ends.
TurnReturns == job = "turn" => T!TurnReturns
\* internal/metrics: Stop returns.
StopEnds == M!StopEnds
=============================================================================
