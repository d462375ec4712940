------------------------------ MODULE ActiveDay ------------------------------
(***************************************************************************)
(* The paid chat turn that lights an account's active day                   *)
(* (internal/growth/automation.go, scheduler.go) and its row in             *)
(* workbuddy_active_days.  The automation's round, the console's runs, its  *)
(* forced rerun and its confirmation work on the row of one account at the  *)
(* same time.  The upstream books a lit day in its own time.                *)
(***************************************************************************)
EXTENDS Integers, FiniteSets

CONSTANTS
  Passes,         \* calls that can be under way at once
  FinalDay,       \* bound: the last local day
  ConfirmBudget   \* activeDayAttempts

Days == 0 .. FinalDay

VARIABLES
  today,   \* the local date
  lit,     \* the days for which the official heatmap shows a score
  dayRow,  \* workbuddy_active_days by date
  pass,    \* each call
  sent     \* number of turns sent for each date without force

vars == <<today, lit, dayRow, pass, sent>>

NoRow == [status |-> "none", confirmed |-> "", attempts |-> 0]
NoPass == [pc |-> "free", kind |-> "none", date |-> 0, known |-> FALSE,
           cells |-> {}, was |-> NoRow]

Verdicts == {"", "lit", "not_lit"}
RowType == [status : {"none", "running", "succeeded", "failed", "skipped_external"},
            confirmed : Verdicts, attempts : 0 .. ConfirmBudget]
PassType ==
  [pc : {"free", "overview", "claim", "read", "past", "correct", "check", "turn",
         "forced", "look", "official", "verdict"},
   kind : {"none", "round", "account", "step", "force", "confirm"},
   date : Days, known : BOOLEAN, cells : SUBSET Days, was : RowType]

TypeOK ==
  /\ today \in Days /\ lit \subseteq Days
  /\ dayRow \in [Days -> RowType]
  /\ pass \in [Passes -> PassType]
  /\ sent \in [Days -> Nat]

Init ==
  /\ today = 0 /\ lit = {}
  /\ dayRow = [d \in Days |-> NoRow]
  /\ pass = [p \in Passes |-> NoPass]
  /\ sent = [d \in Days |-> 0]

Goto(p, place) == pass' = [pass EXCEPT ![p].pc = place]
Ends(p) == pass' = [pass EXCEPT ![p] = NoPass]

\* A confirmation takes the date anew; the round's follows its steps at once.
Confirms(p) == pass' = [pass EXCEPT ![p] = [NoPass EXCEPT !.pc = "look",
                                              !.kind = pass[p].kind, !.date = today]]

\* The active-day step is over: only the round confirms in the same pass.
StepOver(p) == IF pass[p].kind = "round" THEN Confirms(p) ELSE Ends(p)

DayRow(p) == dayRow[pass[p].date]

-----------------------------------------------------------------------------
(* runCycle, RunAccount, RunStep, RunActiveDay and ConfirmActiveDay begin.  *)

Begin(p) ==
  /\ pass[p].pc = "free"
  /\ \E kind \in {"round", "account", "step", "force", "confirm"} :
       /\ kind = "round" => \A q \in Passes : pass[q].kind # "round"
       /\ pass' = [pass EXCEPT ![p] =
            [NoPass EXCEPT !.kind = kind, !.date = today,
               !.pc = CASE kind \in {"round", "account"} -> "overview"
                        [] kind = "step" -> "claim"
                        [] kind = "force" -> "forced"
                        [] kind = "confirm" -> "look"]]
  /\ UNCHANGED <<today, lit, dayRow, sent>>

\* RunSteps reads the official overview first; without it every step is skipped.
Overview(p) ==
  /\ pass[p].pc = "overview"
  /\ \/ pass' = [pass EXCEPT ![p].pc = "claim", ![p].known = TRUE, ![p].cells = lit]
     \/ StepOver(p)
  /\ UNCHANGED <<today, lit, dayRow, sent>>

-----------------------------------------------------------------------------
(* activeDay.                                                              *)

\* Mutation: an unfinished row may be claimed again.
ClaimUnfinished(p) ==
  /\ pass[p].pc = "claim"
  /\ \/ /\ DayRow(p).status \in {"none", "running"}
        /\ dayRow' = [dayRow EXCEPT ![pass[p].date] = [NoRow EXCEPT !.status = "running"]]
        /\ Goto(p, IF pass[p].kind = "step" THEN "read" ELSE "past")
     \/ DayRow(p).status \notin {"none", "running"} /\ StepOver(p) /\ UNCHANGED dayRow
  /\ UNCHANGED <<today, lit, sent>>

\* ClaimActiveDay: whoever inserts the row sends the turn.
Claim(p) ==
  /\ pass[p].pc = "claim"
  /\ \/ /\ DayRow(p).status = "none"
        /\ dayRow' = [dayRow EXCEPT ![pass[p].date] = [NoRow EXCEPT !.status = "running"]]
        /\ Goto(p, IF pass[p].kind = "step" THEN "read" ELSE "past")
     \/ DayRow(p).status # "none" /\ StepOver(p) /\ UNCHANGED dayRow
  /\ UNCHANGED <<today, lit, sent>>

\* safeFetch of a single step: a failure leaves an empty overview.
ReadOverview(p) ==
  /\ pass[p].pc = "read"
  /\ \/ pass' = [pass EXCEPT ![p].pc = "past", ![p].known = TRUE, ![p].cells = lit]
     \/ Goto(p, "past")
  /\ UNCHANGED <<today, lit, dayRow, sent>>

\* reconcilePreviousDay reads yesterday's row, if the overview shows that day.
ReadYesterday(p) ==
  /\ pass[p].pc = "past"
  /\ IF /\ pass[p].known /\ pass[p].date > 0
        /\ dayRow[pass[p].date - 1].status = "succeeded"
     THEN \/ pass' = [pass EXCEPT ![p].pc = "correct",
                                  ![p].was = dayRow[pass[p].date - 1]]
          \/ pass[p].date - 1 \notin pass[p].cells /\ Goto(p, "check")  \* no score
     ELSE Goto(p, "check")
  /\ UNCHANGED <<today, lit, dayRow, sent>>

\* RecordActiveDayConfirmation writes the verdict and counts one attempt more, in
\* the model up to the budget.
Record(d, verdict) ==
  dayRow' = [dayRow EXCEPT ![d].confirmed = verdict,
                           ![d].attempts = IF @ < ConfirmBudget THEN @ + 1 ELSE @]

\* It then corrects the verdict that it read.
CorrectYesterday(p) ==
  /\ pass[p].pc = "correct"
  /\ LET d == pass[p].date - 1
         truth == IF d \in pass[p].cells THEN "lit" ELSE "not_lit"
     IN IF \/ truth = "lit" /\ pass[p].was.confirmed # "lit"
           \/ truth = "not_lit" /\ pass[p].was.confirmed \in {"", "lit"}
        THEN Record(d, truth)
        ELSE UNCHANGED dayRow
  /\ pass' = [pass EXCEPT ![p].pc = "check", ![p].was = NoRow]
  /\ UNCHANGED <<today, lit, sent>>

\* Mutation: a heatmap that is lit up to the day before counts for today.
TodayLitByToday(p, d) == d \in pass[p].cells \/ d - 1 \in pass[p].cells

\* todayLit, of the exact date.
TodayLit(p, d) == d \in pass[p].cells

\* FinishActiveDay leaves a verdict alone unless it brings one.
Finish(p, status, verdict) ==
  dayRow' = [dayRow EXCEPT ![pass[p].date].status = status,
                           ![pass[p].date].confirmed = IF verdict = "" THEN @ ELSE verdict]

\* A day that is lit already needs no turn.
CheckLit(p) ==
  /\ pass[p].pc = "check"
  /\ IF TodayLit(p, pass[p].date)
     THEN Finish(p, "skipped_external", "lit") /\ StepOver(p) /\ UNCHANGED sent
     ELSE /\ pass' = [pass EXCEPT ![p] = [NoPass EXCEPT !.pc = "turn", !.kind = pass[p].kind,
                                                      !.date = pass[p].date]]
          /\ sent' = [sent EXCEPT ![pass[p].date] = @ + 1]
          /\ UNCHANGED dayRow
  /\ UNCHANGED <<today, lit>>

\* ActiveDayClient.Run returns, and FinishActiveDay records it.
TurnReturns(p) ==
  /\ pass[p].pc = "turn"
  /\ \E status \in {"succeeded", "failed"} : Finish(p, status, "")
  /\ StepOver(p)
  /\ UNCHANGED <<today, lit, sent>>

\* forceActiveDay: a turn without a lock, and ResetActiveDay with its outcome.
ForcedTurn(p) ==
  /\ pass[p].pc = "forced"
  /\ \E status \in {"succeeded", "failed"} :
       dayRow' = [dayRow EXCEPT ![pass[p].date] = [NoRow EXCEPT !.status = status]]
  /\ Ends(p)
  /\ UNCHANGED <<today, lit, sent>>

-----------------------------------------------------------------------------
(* ConfirmActiveDay.                                                       *)

\* Only a turn that succeeded and has no verdict is asked about.
Look(p) ==
  /\ pass[p].pc = "look"
  /\ IF DayRow(p).status = "succeeded" /\ DayRow(p).confirmed = ""
     THEN pass' = [pass EXCEPT ![p].pc = "official", ![p].was = DayRow(p)]
     ELSE Ends(p)
  /\ UNCHANGED <<today, lit, dayRow, sent>>

AskOfficial(p) ==
  /\ pass[p].pc = "official"
  /\ \E cells \in {lit, {}} :
       pass' = [pass EXCEPT ![p].pc = "verdict", ![p].cells = cells]
  /\ UNCHANGED <<today, lit, dayRow, sent>>

\* Mutation: an unanswered question counts as a lit day.
VerdictAssumesLit(p) ==
  /\ pass[p].pc = "verdict"
  /\ Record(pass[p].date,
       IF \/ TodayLit(p, pass[p].date) \/ pass[p].cells = {} THEN "lit"
       ELSE IF pass[p].was.attempts + 1 >= ConfirmBudget THEN "not_lit" ELSE "")
  /\ Ends(p)
  /\ UNCHANGED <<today, lit, sent>>

\* The budget is that of the row which was read before the question.
Verdict(p) ==
  /\ pass[p].pc = "verdict"
  /\ Record(pass[p].date,
       IF TodayLit(p, pass[p].date) THEN "lit"
       ELSE IF pass[p].was.attempts + 1 >= ConfirmBudget THEN "not_lit" ELSE "")
  /\ Ends(p)
  /\ UNCHANGED <<today, lit, sent>>

-----------------------------------------------------------------------------
(* Environment.                                                            *)

\* The client of a console call leaves, or the process ends, which cuts off every
\* call: each later read and write of that call fails or never happens.
CutOff(p) ==
  /\ pass[p].pc # "free"
  /\ Ends(p)
  /\ UNCHANGED <<today, lit, dayRow, sent>>

\* The upstream books a day, by a turn or by the user's own activity.
Book == /\ \E d \in {today, today - 1} \cap Days : lit' = lit \cup {d}
        /\ UNCHANGED <<today, dayRow, pass, sent>>

Midnight == /\ today < FinalDay
            /\ today' = today + 1
            /\ UNCHANGED <<lit, dayRow, pass, sent>>

PassStep(p) ==
  \/ Begin(p) \/ Overview(p) \/ Claim(p) \/ ReadOverview(p)
  \/ ReadYesterday(p) \/ CorrectYesterday(p) \/ CheckLit(p)
  \/ TurnReturns(p) \/ ForcedTurn(p)
  \/ Look(p) \/ AskOfficial(p) \/ Verdict(p) \/ CutOff(p)

Next == (\E p \in Passes : PassStep(p)) \/ Book \/ Midnight

Spec == Init /\ [][Next]_vars

-----------------------------------------------------------------------------
(* Properties.                                                             *)

\* ClaimActiveDay, "one ACP conversation per day": of the round, the console and
\* any restart, one sends the paid turn of a date, and no forced rerun makes room
\* for a second one.
OneTurnPerDay == \A d \in Days : sent[d] <= 1

\* A day is never shown as lit before the official heatmap shows it, whatever
\* reads were lost or late and whichever date they were made for.
LitIsOfficial == \A d \in Days : dayRow[d].confirmed = "lit" => d \in lit

\* ResetActiveDay "clears the confirmation state so the next confirm pass
\* re-evaluates the day instead of short-circuiting on a stale not_lit verdict"
\* (store/checkin.go): while its day lasts, a row says not_lit only once its own
\* confirmations have used up the budget.
NoStaleVerdict ==
  dayRow[today].confirmed = "not_lit" => dayRow[today].attempts >= ConfirmBudget
=============================================================================
