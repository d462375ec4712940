------------------------------- MODULE MCJobs -------------------------------
(***************************************************************************)
(* The background jobs for TLC: daily sign-in, the active-day turn, the     *)
(* reward steps and the credit metrics.  They write different tables and    *)
(* share no memory, so that an interleaving of two of them reaches nothing  *)
(* that each of them does not reach alone: a behaviour chooses one job and  *)
(* runs it.                                                                *)
(***************************************************************************)
EXTENDS Checkin, TLC

CONSTANTS
  Passes, FinalDay, ConfirmBudget,
  Tasks, Tiers, Chances, MaxDraws, Energy, MaxOpen, Replays,
  Metrics, Loop, Operations, Singles, MaxReadings

ASSUME JobsAssumption ==
  /\ FinalDay \in Nat /\ ConfirmBudget \in Nat
  /\ IsFiniteSet(Passes) /\ IsFiniteSet(Tasks) /\ IsFiniteSet(Tiers)
  /\ Chances \in Nat /\ Replays \in Nat
  /\ MaxDraws \in Nat /\ Energy \in Nat /\ MaxOpen \in Nat
  /\ MaxReadings \in Nat
  /\ Loop \notin Operations \cup Singles /\ Operations \cap Singles = {}
  /\ "nobody" \notin {Loop} \cup Operations

VARIABLES
  today, lit, dayRow, pass, sent,
  left, granted, unbacked, opened, step, logged,
  roundMu, collecting, snapshot, resting, task, operation, scheduler, readings,
  job   \* the job of this behaviour

activeDayVars == <<today, lit, dayRow, pass, sent>>
rewardVars == <<left, granted, unbacked, opened, step, logged>>
metricVars ==
  <<roundMu, collecting, snapshot, resting, task, operation, scheduler, readings>>

D == INSTANCE ActiveDay
R == INSTANCE Rewards
M == INSTANCE Metrics

JobsInit ==
  /\ job \in {"checkin", "activeday", "rewards", "metrics"}
  /\ Init /\ D!Init /\ R!Init /\ M!Init

JobsNext ==
  /\ UNCHANGED job
  /\ \/ job = "checkin" /\ Next /\ UNCHANGED <<activeDayVars, rewardVars, metricVars>>
     \/ job = "activeday" /\ D!Next /\ UNCHANGED <<vars, rewardVars, metricVars>>
     \/ job = "rewards" /\ R!Next /\ UNCHANGED <<vars, activeDayVars, metricVars>>
     \/ job = "metrics" /\ M!Next /\ UNCHANGED <<vars, activeDayVars, rewardVars>>

jobsVars == <<job, vars, activeDayVars, rewardVars, metricVars>>

JobsSpec == JobsInit /\ [][JobsNext]_jobsVars

Symmetry == Permutations(Passes)

\* Types of the background jobs: the rows, slots and places that the code can hold.
TypesOK ==
  CASE job = "checkin" -> TypeOK
    [] job = "activeday" -> D!TypeOK
    [] job = "rewards" -> R!TypeOK
    [] job = "metrics" -> M!TypeOK

\* internal/growth: one automatic turn per day.
OneTurnPerDay == job = "activeday" => D!OneTurnPerDay
\* internal/growth: "lit" is what the heatmap said.
LitIsOfficial == job = "activeday" => D!LitIsOfficial
\* internal/growth: no credit is counted that no answer stands for, and none twice.
CreditsWereGranted == job = "rewards" => R!CreditsWereGranted
\* internal/metrics: the progress flag covers every round.
ProgressIsShown == job = "metrics" => M!ProgressIsShown
\* internal/metrics: a fresh snapshot is a new reading.
FreshIsRead == M!FreshIsRead
=============================================================================
