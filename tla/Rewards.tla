------------------------------- MODULE Rewards -------------------------------
(***************************************************************************)
(* The reward steps of the growth automation (internal/growth/steps.go): one *)
(* pass claims tasks, draws the lottery, settles the trip, redeems the      *)
(* ladder and opens buddies of one account, one upstream call after the     *)
(* other.  The round and the console may run passes side by side, and any   *)
(* call may fail before or after the upstream has carried it out.            *)
(***************************************************************************)
EXTENDS Integers, FiniteSets, FiniteSetsExt

CONSTANTS
  Passes,   \* passes that can be under way at once
  Tasks,    \* finished tasks with a reward
  Tiers,    \* rungs of the redemption ladder
  Chances,  \* bound: lottery chances the account has
  MaxDraws, \* draws of one pass at most: 10 in the code
  Energy,   \* bound: buddies the account can afford
  MaxOpen,  \* max_open_count of the upstream
  Replays   \* bound: answers that make a pass count what was not granted

VARIABLES
  left,     \* what the upstream still has to give
  granted,  \* credits that the upstream has granted
  unbacked, \* credits that its answers made passes count and that it did not grant
  opened,   \* buddies that the upstream has opened
  step,     \* each pass: where it is, what it read and what it counted
  logged    \* what the passes have logged in total

vars == <<left, granted, unbacked, opened, step, logged>>

Least(a, b) == IF a <= b THEN a ELSE b
NewPass == [at |-> "free", tasks |-> {}, chances |-> 0, drawn |-> 0, tiers |-> {},
            affordable |-> 0, credits |-> 0, opened |-> 0]

MaxCredits == Cardinality(Tasks) + Chances + Cardinality(Tiers) + 1

PassType ==
  [at : {"free", "overview", "tasks", "lottery", "travel", "redeem", "ladder",
         "quota", "buddy", "record"},
   tasks : SUBSET Tasks, chances : 0 .. Chances, drawn : 0 .. MaxDraws,
   tiers : SUBSET Tiers, affordable : 0 .. Energy,
   credits : Nat, opened : 0 .. Energy]

TypeOK ==
  /\ left \in [tasks : SUBSET Tasks, chances : 0 .. Chances, tiers : SUBSET Tiers,
               trip : {"home", "away", "arrived", "spent"}, energy : 0 .. Energy]
  /\ granted \in 0 .. MaxCredits /\ unbacked \in 0 .. Replays /\ opened \in 0 .. Energy
  /\ step \in [Passes -> PassType]
  /\ logged \in [credits : Nat, opened : Nat]

Init ==
  /\ left = [tasks |-> Tasks, chances |-> Chances, tiers |-> Tiers,
             trip |-> "home", energy |-> Energy]
  /\ granted = 0 /\ unbacked = 0 /\ opened = 0
  /\ step = [p \in Passes |-> NewPass]
  /\ logged = [credits |-> 0, opened |-> 0]

At(p, place) == step[p].at = place
Goto(p, place) == step' = [step EXCEPT ![p].at = place]

\* RunSteps, once the overview is there.  Without it no step runs.
Begin(p) ==
  /\ At(p, "free")
  /\ step' = [step EXCEPT ![p] = [NewPass EXCEPT !.at = "tasks", !.tasks = left.tasks,
                                                 !.chances = left.chances]]
  /\ UNCHANGED <<left, granted, unbacked, opened, logged>>

\* extractCredits: what an answer makes a pass count.
Counts(p, next, credits) == step' = [step EXCEPT ![p] = [next EXCEPT !.credits = @ + credits]]

\* A call that may grant a credit, or has nothing left to grant.  The answer names the
\* amount or none, and it may be an error or be lost.
Grants(p, more, rest, next, lost) ==
  \/ /\ more /\ left' = rest /\ granted' = granted + 1 /\ UNCHANGED unbacked
     /\ \/ Counts(p, next, 1) \/ Counts(p, next, 0)
        \/ step' = [step EXCEPT ![p] = lost]
  \/ /\ Counts(p, next, 0) \/ step' = [step EXCEPT ![p] = lost]
     /\ UNCHANGED <<left, granted, unbacked>>

\* An answer that makes a pass count a credit although the upstream grants nothing.
CountsUnbacked(p, next) ==
  /\ unbacked < Replays /\ unbacked' = unbacked + 1
  /\ Counts(p, next, 1)
  /\ UNCHANGED <<left, granted>>

\* claimCompleted: one task after the other, whatever became of the last one.  An
\* answer without an amount counts what the task advertises.
ClaimTask(p) ==
  /\ At(p, "tasks")
  /\ \E t \in step[p].tasks :
       LET next == [step[p] EXCEPT !.tasks = @ \ {t}] IN
         \/ Grants(p, t \in left.tasks, [left EXCEPT !.tasks = @ \ {t}], next, next)
         \/ CountsUnbacked(p, next)
  /\ UNCHANGED <<opened, logged>>

TasksDone(p) ==
  /\ At(p, "tasks") /\ step[p].tasks = {}
  /\ Goto(p, "lottery")
  /\ UNCHANGED <<left, granted, unbacked, opened, logged>>

\* Mutation: the draw that ends the lottery with an error is counted too.
DrawCountsFailures(p) ==
  /\ At(p, "lottery") /\ step[p].drawn < Least(step[p].chances, MaxDraws)
  /\ Grants(p, left.chances > 0, [left EXCEPT !.chances = @ - 1],
            [step[p] EXCEPT !.drawn = @ + 1],
            [step[p] EXCEPT !.at = "travel", !.credits = @ + 1])
  /\ UNCHANGED <<opened, logged>>

\* stepLottery, whatever became of the tasks: up to the chances of the overview, and no
\* further than an error.  A draw that the upstream answers as the replay of an earlier
\* one (idempotent_hit) counts again.
Draw(p) ==
  /\ At(p, "lottery") /\ step[p].drawn < Least(step[p].chances, MaxDraws)
  /\ LET next == [step[p] EXCEPT !.drawn = @ + 1] IN
       \/ Grants(p, left.chances > 0, [left EXCEPT !.chances = @ - 1], next,
                 [step[p] EXCEPT !.at = "travel"])
       \/ left.chances < Chances /\ CountsUnbacked(p, next)
  /\ UNCHANGED <<opened, logged>>

LotteryDone(p) ==
  /\ At(p, "lottery") /\ step[p].drawn = Least(step[p].chances, MaxDraws)
  /\ Goto(p, "travel")
  /\ UNCHANGED <<left, granted, unbacked, opened, logged>>

\* stepTravel: an arrived trip is claimed, a new one departs if none has today.
Travel(p) ==
  /\ At(p, "travel")
  /\ CASE left.trip = "arrived" ->
            LET next == [step[p] EXCEPT !.at = "redeem"] IN
              Grants(p, TRUE, [left EXCEPT !.trip = "spent"], next, next)
       [] left.trip = "home" ->
            /\ \/ left' = [left EXCEPT !.trip = "away"]
               \/ UNCHANGED left
            /\ Goto(p, "redeem") /\ UNCHANGED <<granted, unbacked>>
       [] OTHER -> Goto(p, "redeem") /\ UNCHANGED <<left, granted, unbacked>>
  /\ UNCHANGED <<opened, logged>>

\* stepRedeem reads the ladder.
ReadLadder(p) ==
  /\ At(p, "redeem")
  /\ \/ step' = [step EXCEPT ![p].at = "ladder", ![p].tiers = left.tiers]
     \/ Goto(p, "quota")
  /\ UNCHANGED <<left, granted, unbacked, opened, logged>>

\* Each tier that was available is asked for, also after one has failed.
Redeem(p) ==
  /\ At(p, "ladder")
  /\ \E tier \in step[p].tiers :
       LET next == [step[p] EXCEPT !.tiers = @ \ {tier}] IN
         Grants(p, tier \in left.tiers, [left EXCEPT !.tiers = @ \ {tier}], next, next)
  /\ UNCHANGED <<opened, logged>>

LadderDone(p) ==
  /\ At(p, "ladder") /\ step[p].tiers = {}
  /\ Goto(p, "quota")
  /\ UNCHANGED <<left, granted, unbacked, opened, logged>>

\* stepBuddyOpen reads the quota; without energy there is nothing to open.
ReadQuota(p) ==
  /\ At(p, "quota")
  /\ \/ left.energy > 0 /\ step' = [step EXCEPT ![p].at = "buddy", ![p].affordable = left.energy]
     \/ Goto(p, "record")
  /\ UNCHANGED <<left, granted, unbacked, opened, logged>>

\* It asks for no more than one request may open, and reports what it could afford.
OpenBuddies(p) ==
  /\ At(p, "buddy")
  /\ LET n == Least(step[p].affordable, MaxOpen) IN
       \/ /\ n <= left.energy
          /\ opened' = opened + n
          /\ left' = [left EXCEPT !.energy = @ - n]
          /\ \/ step' = [step EXCEPT ![p].at = "record", ![p].opened = step[p].affordable]
             \/ Goto(p, "record")
       \/ Goto(p, "record") /\ UNCHANGED <<left, opened>>
  /\ UNCHANGED <<granted, unbacked, logged>>

\* RecordRun, whose failure is no failure of the pass.
Record(p) ==
  /\ At(p, "record")
  /\ \/ logged' = [credits |-> logged.credits + step[p].credits,
                   opened |-> logged.opened + step[p].opened]
     \/ UNCHANGED logged
  /\ step' = [step EXCEPT ![p] = NewPass]
  /\ UNCHANGED <<left, granted, unbacked, opened>>

\* The client of a console call leaves, or the process ends.
CutOff(p) ==
  /\ ~ At(p, "free")
  /\ step' = [step EXCEPT ![p] = NewPass]
  /\ UNCHANGED <<left, granted, unbacked, opened, logged>>

\* The trip reaches its goal.
TripArrives ==
  /\ left.trip = "away"
  /\ left' = [left EXCEPT !.trip = "arrived"]
  /\ UNCHANGED <<granted, unbacked, opened, step, logged>>

PassStep(p) ==
  \/ Begin(p) \/ ClaimTask(p) \/ TasksDone(p) \/ Draw(p) \/ LotteryDone(p) \/ Travel(p)
  \/ ReadLadder(p) \/ Redeem(p) \/ LadderDone(p) \/ ReadQuota(p) \/ OpenBuddies(p)
  \/ Record(p) \/ CutOff(p)

Next == (\E p \in Passes : PassStep(p)) \/ TripArrives

Spec == Init /\ [][Next]_vars

-----------------------------------------------------------------------------
(* Properties.                                                             *)

Counted == MapThenSumSet(LAMBDA p : step[p].credits, Passes)

\* The credits that passes have logged and count so far were all granted, each of them
\* counted once: neither a stale overview that two passes share, nor a lost answer, nor
\* a pass cut off makes a pass count what another one got.  Excepted is what the answer
\* itself makes a pass count without a grant: a draw that the upstream replays, and the
\* advertised reward of a task whose claim names no amount.
CreditsWereGranted == logged.credits + Counted <= granted + unbacked

\* stepBuddyOpen: "the displayed number matches what the account actually paid
\* for" (steps.go).
BuddiesWereOpened == logged.opened <= opened
=============================================================================
