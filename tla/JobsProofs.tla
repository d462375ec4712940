----------------------------- MODULE JobsProofs -----------------------------
(***************************************************************************)
(* Theorems about the background jobs that MCJobs puts side by side: the    *)
(* active-day turn (ActiveDay), the credit metrics (Metrics) and the reward *)
(* steps (Rewards), for any number of passes, days, metrics and rewards.    *)
(* The jobs are independent of each other, so what holds of one alone holds *)
(* of it in the composition.                                               *)
(***************************************************************************)
EXTENDS MCJobs, CheckinProofs, SumProofs, FiniteSetTheorems, TLAPS

\* A behaviour of the composition is one of each job.
LEMMA JobsAreIndependent == JobsSpec => Spec /\ D!Spec /\ R!Spec /\ M!Spec
<1>1. JobsInit => Init /\ D!Init /\ R!Init /\ M!Init
  BY DEF JobsInit
<1>2. [JobsNext]_jobsVars
      => [Next]_vars /\ [D!Next]_(D!vars) /\ [R!Next]_(R!vars) /\ [M!Next]_(M!vars)
  BY DEF JobsNext, jobsVars, activeDayVars, rewardVars, metricVars, D!vars, R!vars, M!vars
<1> QED BY <1>1, <1>2, PTL DEF JobsSpec, Spec, D!Spec, R!Spec, M!Spec

-----------------------------------------------------------------------------
(* The active day: types.                                                  *)

LEMMA Blanks == D!NoRow \in D!RowType /\ D!NoPass \in D!PassType /\ 0 \in D!Days
<1>1. D!NoRow \in D!RowType
  BY JobsAssumption DEF D!NoRow, D!RowType, D!Verdicts
<1>2. 0 \in D!Days
  BY JobsAssumption DEF D!Days
<1> QED BY <1>1, <1>2 DEF D!NoPass, D!PassType

LEMMA ActiveDayInit == D!Init => D!TypeOK
BY Blanks DEF D!Init, D!TypeOK

DayPlaces == {"free", "overview", "claim", "read", "past", "correct", "check", "turn",
           "forced", "look", "official", "verdict"}
Asking == {"round", "account", "step", "force", "confirm"}

\* A call that begins, reads the heatmap or a row, goes on, or starts to confirm.
Begun(k, d) == [D!NoPass EXCEPT !.kind = k, !.date = d,
                  !.pc = CASE k \in {"round", "account"} -> "overview"
                           [] k = "step" -> "claim"
                           [] k = "force" -> "forced"
                           [] k = "confirm" -> "look"]

LEMMA PassFields ==
  ASSUME NEW c \in D!PassType, NEW x \in DayPlaces
  PROVE  /\ [c EXCEPT !.pc = x] \in D!PassType
         /\ \A s \in SUBSET D!Days :
              /\ [c EXCEPT !.pc = x, !.cells = s] \in D!PassType
              /\ [c EXCEPT !.pc = x, !.known = TRUE, !.cells = s] \in D!PassType
         /\ \A w \in D!RowType : [c EXCEPT !.pc = x, !.was = w] \in D!PassType
         /\ \A k \in Asking \cup {"none"}, d \in D!Days :
              [c EXCEPT !.pc = x, !.kind = k, !.date = d] \in D!PassType
BY DEF D!PassType, DayPlaces, Asking

LEMMA BegunFields ==
  ASSUME NEW k \in Asking, NEW d \in D!Days
  PROVE  Begun(k, d) \in D!PassType
BY Blanks DEF Begun, D!PassType, Asking


LEMMA DayTypeNext == D!TypeOK /\ [D!Next]_(D!vars) => D!TypeOK'
<1> SUFFICES ASSUME D!TypeOK, [D!Next]_(D!vars) PROVE D!TypeOK'
  OBVIOUS
<1>0. /\ today \in D!Days /\ lit \subseteq D!Days /\ dayRow \in [D!Days -> D!RowType]
      /\ pass \in [Passes -> D!PassType] /\ sent \in [D!Days -> Nat]
  BY DEF D!TypeOK
<1>1. ASSUME NEW p \in Passes, NEW q \in D!PassType, pass' = [pass EXCEPT ![p] = q]
      PROVE  pass' \in [Passes -> D!PassType]
  BY <1>0, <1>1
\* Going on, the end of a call, and the confirmation after a round.
<1>2. ASSUME NEW p \in Passes, NEW x \in DayPlaces, D!Goto(p, x) PROVE pass' \in [Passes -> D!PassType]
  <2>1. pass' = [pass EXCEPT ![p] = [pass[p] EXCEPT !.pc = x]]
    BY <1>2 DEF D!Goto
  <2> QED BY <1>0, <1>1, <2>1, PassFields
<1>3. ASSUME NEW p \in Passes, D!StepOver(p) \/ D!Ends(p) PROVE pass' \in [Passes -> D!PassType]
  <2>1. pass[p].kind \in Asking \cup {"none"}
    BY <1>0 DEF D!PassType, Asking
  <2>2. [D!NoPass EXCEPT !.pc = "look", !.kind = pass[p].kind, !.date = today] \in D!PassType
    BY <1>0, <2>1, Blanks, PassFields DEF DayPlaces
  <2> QED BY <1>0, <1>1, <1>3, <2>2, Blanks DEF D!StepOver, D!Confirms, D!Ends
<1>4. ASSUME NEW p \in Passes, D!Begin(p) PROVE D!TypeOK'
  <2>1. PICK k \in Asking : pass' = [pass EXCEPT ![p] = Begun(k, today)]
    BY <1>4 DEF D!Begin, Begun, Asking
  <2>2. pass' \in [Passes -> D!PassType]
    BY <1>0, <1>1, <2>1, BegunFields
  <2> QED BY <1>0, <1>4, <2>2 DEF D!Begin, D!TypeOK
<1>5. ASSUME NEW p \in Passes, D!Overview(p) \/ D!ReadOverview(p) PROVE D!TypeOK'
  <2>1. pass' \in [Passes -> D!PassType]
    <3>1. CASE D!StepOver(p) \/ D!Goto(p, "past")
      BY <1>2, <1>3, <3>1 DEF DayPlaces
    <3>2. CASE \E x \in DayPlaces :
                 pass' = [pass EXCEPT ![p] = [pass[p] EXCEPT !.pc = x, !.known = TRUE, !.cells = lit]]
      BY <1>0, <1>1, <3>2, PassFields
    <3>3. {"claim", "past"} \subseteq DayPlaces
      BY DEF DayPlaces
    <3> QED BY <1>5, <3>1, <3>2, <3>3 DEF D!Overview, D!ReadOverview
  <2> QED BY <1>0, <1>5, <2>1 DEF D!Overview, D!ReadOverview, D!TypeOK
<1>6. ASSUME NEW d, NEW r \in D!RowType, dayRow' = [dayRow EXCEPT ![d] = r]
      PROVE  dayRow' \in [D!Days -> D!RowType]
  BY <1>0, <1>6
<1>7. ASSUME NEW p \in Passes, D!Claim(p) PROVE D!TypeOK'
  <2>1. pass' \in [Passes -> D!PassType]
    <3>1. ASSUME D!Goto(p, IF pass[p].kind = "step" THEN "read" ELSE "past")
          PROVE  pass' \in [Passes -> D!PassType]
      BY <1>2, <3>1 DEF DayPlaces
    <3> QED BY <1>3, <1>7, <3>1 DEF D!Claim
  <2>2. [D!NoRow EXCEPT !.status = "running"] \in D!RowType
    BY Blanks DEF D!RowType
  <2>3. dayRow' \in [D!Days -> D!RowType]
    BY <1>0, <1>6, <1>7, <2>2 DEF D!Claim
  <2> QED BY <1>0, <1>7, <2>1, <2>3 DEF D!Claim, D!TypeOK
<1>8. ASSUME NEW p \in Passes, D!ReadYesterday(p) PROVE D!TypeOK'
  <2>1. CASE D!Goto(p, "check")
    <3>1. pass' \in [Passes -> D!PassType]
      BY <1>2, <2>1 DEF DayPlaces
    <3> QED BY <1>0, <1>8, <3>1 DEF D!ReadYesterday, D!TypeOK
  <2>2. CASE /\ pass' = [pass EXCEPT ![p].pc = "correct", ![p].was = dayRow[pass[p].date - 1]]
             /\ pass[p].date > 0
    <3>1. pass[p].date - 1 \in D!Days
      BY <1>0, <2>2, JobsAssumption DEF D!PassType, D!Days
    <3>2. pass' = [pass EXCEPT ![p] =
                    [pass[p] EXCEPT !.pc = "correct", !.was = dayRow[pass[p].date - 1]]]
      BY <2>2
    <3>3. pass' \in [Passes -> D!PassType]
      BY <1>0, <1>1, <3>1, <3>2, PassFields DEF DayPlaces
    <3> QED BY <1>0, <1>8, <3>3 DEF D!ReadYesterday, D!TypeOK
  <2> QED BY <1>8, <2>1, <2>2 DEF D!ReadYesterday
<1>9. ASSUME NEW p \in Passes, D!Look(p) \/ D!AskOfficial(p) \/ D!CutOff(p) PROVE D!TypeOK'
  <2>1. CASE \E w \in D!RowType :
               pass' = [pass EXCEPT ![p] = [pass[p] EXCEPT !.pc = "official", !.was = w]]
    <3>1. pass' \in [Passes -> D!PassType]
      BY <1>0, <1>1, <2>1, PassFields DEF DayPlaces
    <3> QED BY <1>0, <1>9, <3>1 DEF D!Look, D!AskOfficial, D!CutOff, D!TypeOK
  <2>2. CASE \E s \in SUBSET D!Days :
               pass' = [pass EXCEPT ![p] = [pass[p] EXCEPT !.pc = "verdict", !.cells = s]]
    <3>1. pass' \in [Passes -> D!PassType]
      BY <1>0, <1>1, <2>2, PassFields DEF DayPlaces
    <3> QED BY <1>0, <1>9, <3>1 DEF D!Look, D!AskOfficial, D!CutOff, D!TypeOK
  <2>3. CASE D!Ends(p)
    <3>1. pass' \in [Passes -> D!PassType]
      BY <1>3, <2>3
    <3> QED BY <1>0, <1>9, <3>1 DEF D!Look, D!AskOfficial, D!CutOff, D!TypeOK
  <2>4. D!DayRow(p) \in D!RowType /\ lit \in SUBSET D!Days /\ {} \in SUBSET D!Days
    BY <1>0 DEF D!DayRow, D!PassType
  <2>5. CASE D!Look(p)
    <3> DEFINE w == D!DayRow(p)
    <3>1. \/ pass' = [pass EXCEPT ![p] = [pass[p] EXCEPT !.pc = "official", !.was = w]]
          \/ D!Ends(p)
      BY <2>5 DEF D!Look
    <3> HIDE DEF w
    <3>2. w \in D!RowType
      BY <2>4 DEF w
    <3> QED BY <2>1, <2>3, <3>1, <3>2
  <2>6. CASE D!AskOfficial(p)
    <3>1. PICK s \in {lit, {}} :
            pass' = [pass EXCEPT ![p] = [pass[p] EXCEPT !.pc = "verdict", !.cells = s]]
      BY <2>6 DEF D!AskOfficial
    <3>2. s \in SUBSET D!Days
      BY <2>4
    <3> QED BY <2>2, <3>1, <3>2
  <2>7. CASE D!CutOff(p)
    BY <2>3, <2>7 DEF D!CutOff
  <2> QED BY <1>9, <2>5, <2>6, <2>7
\* A row that gets a verdict, and one attempt more.
<1>10. ASSUME NEW d, NEW v \in D!Verdicts, D!Record(d, v) PROVE dayRow' \in [D!Days -> D!RowType]
  <2>1. \A n \in 0 .. ConfirmBudget :
          (IF n < ConfirmBudget THEN n + 1 ELSE n) \in 0 .. ConfirmBudget
    BY JobsAssumption
  <2>2. CASE d \in D!Days
    <3>1. [dayRow[d] EXCEPT !.confirmed = v,
             !.attempts = IF dayRow[d].attempts < ConfirmBudget THEN dayRow[d].attempts + 1
                          ELSE dayRow[d].attempts] \in D!RowType
      BY <1>0, <2>1, <2>2 DEF D!RowType
    <3>2. dayRow' = [dayRow EXCEPT ![d] = [dayRow[d] EXCEPT !.confirmed = v,
             !.attempts = IF dayRow[d].attempts < ConfirmBudget THEN dayRow[d].attempts + 1
                          ELSE dayRow[d].attempts]]
      BY <1>0, <1>10, <2>2 DEF D!Record
    <3> QED BY <1>6, <3>1, <3>2
  <2>3. CASE d \notin D!Days
    BY <1>0, <1>10, <2>3 DEF D!Record
  <2> QED BY <2>2, <2>3
<1>11. ASSUME NEW p \in Passes, D!CorrectYesterday(p) PROVE D!TypeOK'
  <2>1. pass' = [pass EXCEPT ![p] = [pass[p] EXCEPT !.pc = "check", !.was = D!NoRow]]
    BY <1>11 DEF D!CorrectYesterday
  <2>2. pass' \in [Passes -> D!PassType]
    BY <1>0, <1>1, <2>1, Blanks, PassFields DEF DayPlaces
  <2>3. dayRow' \in [D!Days -> D!RowType]
    BY <1>0, <1>10, <1>11 DEF D!CorrectYesterday, D!Verdicts
  <2> QED BY <1>0, <1>11, <2>2, <2>3 DEF D!CorrectYesterday, D!TypeOK
<1>12. ASSUME NEW p \in Passes,
              NEW s \in {"succeeded", "failed", "skipped_external"}, NEW v \in D!Verdicts,
              D!Finish(p, s, v)
       PROVE  dayRow' \in [D!Days -> D!RowType]
  <2>1. pass[p].date \in D!Days
    BY <1>0 DEF D!PassType
  <2>2. dayRow' = [dayRow EXCEPT ![pass[p].date] =
          [dayRow[pass[p].date] EXCEPT !.status = s,
             !.confirmed = IF v = "" THEN dayRow[pass[p].date].confirmed ELSE v]]
    BY <1>0, <1>12, <2>1 DEF D!Finish
  <2>3. \A r \in D!RowType :
          [r EXCEPT !.status = s, !.confirmed = IF v = "" THEN r.confirmed ELSE v] \in D!RowType
    BY DEF D!RowType
  <2> QED BY <1>0, <1>6, <2>1, <2>2, <2>3
<1>13. ASSUME NEW p \in Passes, D!CheckLit(p) PROVE D!TypeOK'
  <2>1. pass[p].kind \in Asking \cup {"none"} /\ pass[p].date \in D!Days
    BY <1>0 DEF D!PassType, Asking
  <2>2. [D!NoPass EXCEPT !.pc = "turn", !.kind = pass[p].kind, !.date = pass[p].date] \in D!PassType
    BY <2>1, Blanks, PassFields DEF DayPlaces
  <2>3. pass' \in [Passes -> D!PassType]
    BY <1>0, <1>1, <1>3, <1>13, <2>2 DEF D!CheckLit
  <2>4. dayRow' \in [D!Days -> D!RowType]
    BY <1>0, <1>12, <1>13 DEF D!CheckLit, D!Verdicts
  <2>5. sent' \in [D!Days -> Nat]
    BY <1>0, <1>13 DEF D!CheckLit
  <2> QED BY <1>0, <1>13, <2>3, <2>4, <2>5 DEF D!CheckLit, D!TypeOK
<1>14. ASSUME NEW p \in Passes, D!TurnReturns(p) PROVE D!TypeOK'
  <2>1. pass' \in [Passes -> D!PassType] /\ dayRow' \in [D!Days -> D!RowType]
    BY <1>3, <1>12, <1>14 DEF D!TurnReturns, D!Verdicts
  <2> QED BY <1>0, <1>14, <2>1 DEF D!TurnReturns, D!TypeOK
<1>15. ASSUME NEW p \in Passes, D!ForcedTurn(p) \/ D!Verdict(p) PROVE D!TypeOK'
  <2>1. pass' \in [Passes -> D!PassType]
    BY <1>3, <1>15 DEF D!ForcedTurn, D!Verdict
  <2>2. \A s \in {"succeeded", "failed"} : [D!NoRow EXCEPT !.status = s] \in D!RowType
    BY Blanks DEF D!RowType
  <2>3. dayRow' \in [D!Days -> D!RowType]
    BY <1>6, <1>10, <1>15, <2>2 DEF D!ForcedTurn, D!Verdict, D!Verdicts
  <2> QED BY <1>0, <1>15, <2>1, <2>3 DEF D!ForcedTurn, D!Verdict, D!TypeOK
<1>16. CASE D!Book
  BY <1>0, <1>16 DEF D!Book, D!TypeOK
<1>17. CASE D!Midnight
  <2>1. today' \in D!Days
    BY <1>0, <1>17, JobsAssumption DEF D!Midnight, D!Days
  <2> QED BY <1>0, <1>17, <2>1 DEF D!Midnight, D!TypeOK
<1>18. CASE UNCHANGED D!vars
  BY <1>0, <1>18 DEF D!vars, D!TypeOK
<1> QED BY <1>4, <1>5, <1>7, <1>8, <1>9, <1>11, <1>13, <1>14, <1>15, <1>16,
           <1>17, <1>18
        DEF D!Next, D!PassStep


-----------------------------------------------------------------------------
(* The active day: one turn, and only official verdicts.                   *)

\* The call has claimed its date and may yet send the turn.
Claimant(p) == pass[p].pc \in {"read", "past", "correct", "check"}

\* A date is claimed once; before that nobody sent, and its claimant did not.
ClaimInv ==
  /\ \A p \in Passes : Claimant(p) => D!DayRow(p).status # "none" /\ sent[pass[p].date] = 0
  /\ \A p, q \in Passes : Claimant(p) /\ Claimant(q) /\ p # q => pass[p].date # pass[q].date
  /\ \A d \in D!Days : dayRow[d].status = "none" => sent[d] = 0
  /\ \A d \in D!Days : sent[d] <= 1

\* What a call has read of the heatmap stays true.
HeatmapInv ==
  /\ \A p \in Passes : pass[p].cells \subseteq lit
  /\ \A d \in D!Days : dayRow[d].confirmed = "lit" => d \in lit

LEMMA ClaimInit == D!Init => ClaimInv /\ HeatmapInv
<1> SUFFICES ASSUME D!Init PROVE ClaimInv /\ HeatmapInv
  OBVIOUS
<1>1. \A p \in Passes : pass[p].pc = "free" /\ pass[p].cells = {}
  BY DEF D!Init, D!NoPass
<1>2. \A d \in D!Days : /\ dayRow[d].status = "none" /\ dayRow[d].confirmed = ""
                        /\ sent[d] = 0
  BY DEF D!Init, D!NoRow
<1>3. \A p \in Passes : ~ Claimant(p)
  BY <1>1 DEF Claimant
<1>4. ClaimInv
  <2>1. ASSUME NEW d \in D!Days PROVE sent[d] <= 1
    <3>1. sent[d] = 0
      BY <1>2
    <3> QED BY <3>1
  <2>2. \A d \in D!Days : dayRow[d].status = "none" => sent[d] = 0
    BY <1>2
  <2> QED BY <1>3, <2>1, <2>2, Zenon DEF ClaimInv
<1> QED BY <1>1, <1>2, <1>4 DEF HeatmapInv

\* What a step of a call does to the turns: nothing, or it claims its date, or it
\* sends the turn of its date.
Quiet(p) ==
  /\ Claimant(p)' => Claimant(p) /\ pass'[p].date = pass[p].date
  /\ sent' = sent
  /\ \A d \in D!Days : dayRow'[d].status = "none" => dayRow[d].status = "none"
Claims(p) ==
  /\ ~ Claimant(p) /\ pass'[p].date = pass[p].date
  /\ D!DayRow(p).status = "none" /\ dayRow'[pass[p].date].status # "none"
  /\ \A d \in D!Days \ {pass[p].date} : dayRow'[d] = dayRow[d]
  /\ sent' = sent
Sends(p) ==
  /\ Claimant(p) /\ ~ Claimant(p)'
  /\ dayRow' = dayRow
  /\ sent' = [sent EXCEPT ![pass[p].date] = @ + 1]

Moves(p) ==
  /\ \A q \in Passes \ {p} : pass'[q] = pass[q]
  /\ lit' = lit /\ pass'[p].cells \subseteq pass[p].cells \cup lit
  /\ \A d \in D!Days : dayRow'[d].confirmed = "lit" =>
       dayRow[d].confirmed = "lit" \/ d \in pass[p].cells
  /\ Quiet(p) \/ Claims(p) \/ Sends(p)

LEMMA DaySteps ==
  ASSUME D!TypeOK, NEW p \in Passes, D!PassStep(p) PROVE Moves(p)
<1>0. /\ dayRow \in [D!Days -> D!RowType] /\ pass \in [Passes -> D!PassType]
      /\ sent \in [D!Days -> Nat]
      /\ pass[p] \in D!PassType /\ pass[p].date \in D!Days
  BY DEF D!TypeOK, D!PassType
<1>1. D!NoPass.pc = "free" /\ D!NoPass.cells = {} /\ D!NoRow.status = "none" /\ D!NoRow.confirmed = ""
  BY DEF D!NoPass, D!NoRow
\* The call goes on with what it has read, and touches no row.
<1>2. ASSUME NEW q, pass' = [pass EXCEPT ![p] = q],
             q.cells \subseteq pass[p].cells \cup lit,
             q.pc \in {"read", "past", "correct", "check"} => Claimant(p) /\ q.date = pass[p].date,
             UNCHANGED <<lit, dayRow, sent>>
      PROVE  Moves(p)
  BY <1>0, <1>2 DEF Moves, Quiet, Claimant
\* The end of a step, with or without a confirmation.
<1>3. ASSUME D!StepOver(p) \/ D!Ends(p)
      PROVE  /\ \A q \in Passes \ {p} : pass'[q] = pass[q]
             /\ pass'[p].cells = {} /\ ~ Claimant(p)'
  <2>1. PICK q : pass' = [pass EXCEPT ![p] = q] /\ q.cells = {} /\ q.pc \in {"free", "look"}
    <3> DEFINE w == [D!NoPass EXCEPT !.pc = "look", !.kind = pass[p].kind, !.date = today]
    <3>1. w.cells = {} /\ w.pc = "look"
      BY DEF D!NoPass
    <3>2. CASE pass' = [pass EXCEPT ![p] = D!NoPass]
      BY <1>1, <3>2
    <3>3. CASE D!Confirms(p)
      <4>1. pass' = [pass EXCEPT ![p] = w]
        BY <3>3 DEF D!Confirms
      <4> HIDE DEF w
      <4> QED BY <3>1, <4>1
    <3> QED BY <1>3, <3>2, <3>3 DEF D!StepOver, D!Ends
  <2> QED BY <1>0, <2>1 DEF Claimant
<1>4. ASSUME D!StepOver(p) \/ D!Ends(p), UNCHANGED <<lit, sent>>,
             \A d \in D!Days : /\ dayRow'[d].status = "none" => dayRow[d].status = "none"
                               /\ dayRow'[d].confirmed = "lit" =>
                                    dayRow[d].confirmed = "lit" \/ d \in pass[p].cells
      PROVE  Moves(p)
  BY <1>3, <1>4 DEF Moves, Quiet
<1>5. CASE D!Begin(p)
  <2>1. PICK k \in Asking : pass' = [pass EXCEPT ![p] = Begun(k, today)]
    BY <1>5 DEF D!Begin, Begun, Asking
  <2>2. /\ Begun(k, today).cells = {}
        /\ Begun(k, today).pc \in {"overview", "claim", "forced", "look"}
    BY DEF Begun, D!NoPass, Asking
  <2> QED BY <1>2, <1>5, <2>1, <2>2 DEF D!Begin
<1>6. CASE D!Overview(p) \/ D!ReadOverview(p)
  <2>0. pass[p].pc \in {"overview", "read"} /\ UNCHANGED <<lit, dayRow, sent>>
    BY <1>6 DEF D!Overview, D!ReadOverview
  <2>1. \A x : /\ [pass[p] EXCEPT !.pc = x].pc = x
               /\ [pass[p] EXCEPT !.pc = x].cells = pass[p].cells
               /\ [pass[p] EXCEPT !.pc = x].date = pass[p].date
               /\ [pass[p] EXCEPT !.pc = x, !.known = TRUE, !.cells = lit].pc = x
               /\ [pass[p] EXCEPT !.pc = x, !.known = TRUE, !.cells = lit].cells = lit
               /\ [pass[p] EXCEPT !.pc = x, !.known = TRUE, !.cells = lit].date = pass[p].date
    BY <1>0 DEF D!PassType
  <2>2. CASE D!StepOver(p)
    BY <1>4, <2>0, <2>2
  <2>3. ASSUME NEW q, pass' = [pass EXCEPT ![p] = q], q.cells \subseteq pass[p].cells \cup lit,
               q.date = pass[p].date, q.pc = "claim" \/ Claimant(p)
        PROVE  Moves(p)
    BY <1>2, <2>0, <2>3
  <2>4. CASE D!Overview(p) /\ ~ D!StepOver(p)
    <3>1. pass' = [pass EXCEPT ![p] = [pass[p] EXCEPT !.pc = "claim", !.known = TRUE, !.cells = lit]]
      BY <2>4 DEF D!Overview
    <3> QED BY <2>1, <2>3, <3>1
  <2>5. CASE D!ReadOverview(p)
    <3>1. Claimant(p)
      BY <2>5 DEF D!ReadOverview, Claimant
    <3>2. CASE D!Goto(p, "past")
      <4>1. pass' = [pass EXCEPT ![p] = [pass[p] EXCEPT !.pc = "past"]]
        BY <3>2 DEF D!Goto
      <4> QED BY <2>1, <2>3, <3>1, <4>1
    <3>3. CASE ~ D!Goto(p, "past")
      <4>1. pass' = [pass EXCEPT ![p] = [pass[p] EXCEPT !.pc = "past", !.known = TRUE, !.cells = lit]]
        BY <2>5, <3>3 DEF D!ReadOverview
      <4> QED BY <2>1, <2>3, <3>1, <4>1
    <3> QED BY <3>2, <3>3
  <2> QED BY <1>6, <2>2, <2>4, <2>5
<1>7. CASE D!Claim(p)
  <2>1. CASE D!StepOver(p) /\ dayRow' = dayRow
    BY <1>4, <1>7, <2>1 DEF D!Claim
  <2>2. CASE /\ D!DayRow(p).status = "none"
             /\ dayRow' = [dayRow EXCEPT ![pass[p].date] = [D!NoRow EXCEPT !.status = "running"]]
             /\ D!Goto(p, IF pass[p].kind = "step" THEN "read" ELSE "past")
    <3>1. /\ \A q \in Passes \ {p} : pass'[q] = pass[q]
          /\ pass'[p].cells = pass[p].cells /\ pass'[p].date = pass[p].date
      BY <1>0, <2>2 DEF D!Goto, D!PassType
    <3>2. /\ [D!NoRow EXCEPT !.status = "running"].status = "running"
          /\ [D!NoRow EXCEPT !.status = "running"].confirmed = ""
      BY DEF D!NoRow
    <3>3. /\ dayRow'[pass[p].date].status = "running" /\ dayRow'[pass[p].date].confirmed = ""
          /\ \A d \in D!Days \ {pass[p].date} : dayRow'[d] = dayRow[d]
      BY <1>0, <2>2, <3>2
    <3>4. ~ Claimant(p) /\ UNCHANGED <<lit, sent>>
      BY <1>7 DEF D!Claim, Claimant
    <3> QED BY <2>2, <3>1, <3>3, <3>4 DEF Moves, Claims
  <2> QED BY <1>7, <2>1, <2>2 DEF D!Claim

\* A verdict, or the outcome of a turn, is written into the row.
<1>8. ASSUME NEW d, NEW v, D!Record(d, v)
      PROVE  \A x \in D!Days : /\ dayRow'[x].status = dayRow[x].status
                               /\ dayRow'[x].confirmed = "lit" =>
                                    dayRow[x].confirmed = "lit" \/ (x = d /\ v = "lit")
  <2>1. PICK n : dayRow' = [dayRow EXCEPT ![d] = [dayRow[d] EXCEPT !.confirmed = v, !.attempts = n]]
    BY <1>0, <1>8 DEF D!Record
  <2>2. \A r \in D!RowType : /\ [r EXCEPT !.confirmed = v, !.attempts = n].status = r.status
                             /\ [r EXCEPT !.confirmed = v, !.attempts = n].confirmed = v
    BY DEF D!RowType
  <2> QED BY <1>0, <2>1, <2>2
<1>9. ASSUME NEW s, s # "none", NEW v, D!Finish(p, s, v)
      PROVE  \A x \in D!Days : /\ dayRow'[x].status = "none" => dayRow[x].status = "none"
                               /\ dayRow'[x].confirmed = "lit" =>
                                    \/ dayRow[x].confirmed = "lit"
                                    \/ x = pass[p].date /\ v = "lit"
  <2>1. PICK w : /\ dayRow' = [dayRow EXCEPT ![pass[p].date] =
                                  [dayRow[pass[p].date] EXCEPT !.status = s, !.confirmed = w]]
                 /\ w = dayRow[pass[p].date].confirmed \/ w = v
    BY <1>0, <1>9 DEF D!Finish
  <2>2. \A r \in D!RowType : /\ [r EXCEPT !.status = s, !.confirmed = w].status = s
                             /\ [r EXCEPT !.status = s, !.confirmed = w].confirmed = w
    BY DEF D!RowType
  <2> QED BY <1>0, <1>9, <2>1, <2>2
<1>10. CASE D!ReadYesterday(p)
  <2>0. Claimant(p) /\ UNCHANGED <<lit, dayRow, sent>>
    BY <1>10 DEF D!ReadYesterday, Claimant
  <2>1. \A x, w : /\ [pass[p] EXCEPT !.pc = x].cells = pass[p].cells
                  /\ [pass[p] EXCEPT !.pc = x].date = pass[p].date
                  /\ [pass[p] EXCEPT !.pc = x, !.was = w].cells = pass[p].cells
                  /\ [pass[p] EXCEPT !.pc = x, !.was = w].date = pass[p].date
    BY <1>0 DEF D!PassType
  <2>2. PICK q : /\ pass' = [pass EXCEPT ![p] = q]
                 /\ q.cells = pass[p].cells /\ q.date = pass[p].date
    <3>1. CASE D!Goto(p, "check")
      BY <2>1, <3>1 DEF D!Goto
    <3>2. CASE pass' = [pass EXCEPT ![p].pc = "correct", ![p].was = dayRow[pass[p].date - 1]]
      <4>1. pass' = [pass EXCEPT ![p] =
                      [pass[p] EXCEPT !.pc = "correct", !.was = dayRow[pass[p].date - 1]]]
        BY <3>2
      <4> DEFINE r == [pass[p] EXCEPT !.pc = "correct", !.was = dayRow[pass[p].date - 1]]
      <4>2. r.cells = pass[p].cells /\ r.date = pass[p].date
        BY <2>1
      <4>3. pass' = [pass EXCEPT ![p] = r]
        BY <4>1
      <4> HIDE DEF r
      <4> QED BY <4>2, <4>3
    <3> QED BY <1>10, <3>1, <3>2 DEF D!ReadYesterday
  <2> QED BY <1>0, <2>0, <2>2 DEF Moves, Quiet, Claimant
<1>11. CASE D!CorrectYesterday(p)
  <2>1. /\ \A q \in Passes \ {p} : pass'[q] = pass[q]
        /\ pass'[p].cells = pass[p].cells /\ pass'[p].date = pass[p].date
    BY <1>0, <1>11 DEF D!CorrectYesterday, D!PassType
  <2>2. /\ \A d \in D!Days : dayRow'[d].status = dayRow[d].status
        /\ \A d \in D!Days : dayRow'[d].confirmed = "lit" =>
             dayRow[d].confirmed = "lit" \/ d \in pass[p].cells
    <3> DEFINE yesterday == pass[p].date - 1
               truth == IF yesterday \in pass[p].cells THEN "lit" ELSE "not_lit"
    <3>1. D!Record(yesterday, truth) \/ dayRow' = dayRow
      BY <1>11 DEF D!CorrectYesterday
    <3>2. truth = "lit" => yesterday \in pass[p].cells
      OBVIOUS
    <3> HIDE DEF truth, yesterday
    <3> QED BY <1>8, <3>1, <3>2
  <2> QED BY <1>11, <2>1, <2>2 DEF D!CorrectYesterday, Moves, Quiet, Claimant
<1>12. CASE D!CheckLit(p)
  <2>1. CASE pass[p].date \in pass[p].cells
    BY <1>4, <1>9, <1>12, <2>1 DEF D!CheckLit, D!TodayLit
  <2>2. CASE pass[p].date \notin pass[p].cells
    <3>1. /\ [D!NoPass EXCEPT !.pc = "turn", !.kind = pass[p].kind, !.date = pass[p].date].cells = {}
          /\ [D!NoPass EXCEPT !.pc = "turn", !.kind = pass[p].kind, !.date = pass[p].date].pc = "turn"
      BY DEF D!NoPass
    <3>2. /\ \A q \in Passes \ {p} : pass'[q] = pass[q]
          /\ pass'[p].cells = {} /\ ~ Claimant(p)'
      BY <1>0, <1>12, <2>2, <3>1 DEF D!CheckLit, D!TodayLit, Claimant
    <3> QED BY <1>12, <2>2, <3>2 DEF D!CheckLit, D!TodayLit, Moves, Sends, Claimant
  <2> QED BY <2>1, <2>2
<1>13. CASE D!TurnReturns(p)
  <2> DEFINE v == ""
  <2>1. PICK s \in {"succeeded", "failed"} : D!Finish(p, s, v)
    BY <1>13 DEF D!TurnReturns
  <2>2. s # "none" /\ v # "lit"
    OBVIOUS
  <2> HIDE DEF v
  <2>3. \A x \in D!Days : /\ dayRow'[x].status = "none" => dayRow[x].status = "none"
                          /\ dayRow'[x].confirmed = "lit" => dayRow[x].confirmed = "lit"
    <3>1. \A x \in D!Days : /\ dayRow'[x].status = "none" => dayRow[x].status = "none"
                            /\ dayRow'[x].confirmed = "lit" =>
                                 \/ dayRow[x].confirmed = "lit"
                                 \/ x = pass[p].date /\ v = "lit"
      BY <1>9, <2>1, <2>2
    <3> QED BY <2>2, <3>1
  <2> QED BY <1>4, <1>13, <2>3 DEF D!TurnReturns
<1>14. CASE D!ForcedTurn(p)
  <2>1. \A s : /\ [D!NoRow EXCEPT !.status = s].status = s
               /\ [D!NoRow EXCEPT !.status = s].confirmed = ""
    BY DEF D!NoRow
  <2>2. \A d \in D!Days : /\ dayRow'[d].status = "none" => dayRow[d].status = "none"
                          /\ dayRow'[d].confirmed = "lit" => dayRow[d].confirmed = "lit"
    BY <1>0, <1>14, <2>1 DEF D!ForcedTurn
  <2> QED BY <1>4, <1>14, <2>2 DEF D!ForcedTurn
<1>15. CASE D!Look(p) \/ D!AskOfficial(p)
  <2>1. CASE D!Ends(p) /\ UNCHANGED <<lit, sent, dayRow>>
    BY <1>4, <2>1
  <2>2. CASE \E q : /\ pass' = [pass EXCEPT ![p] = q]
                    /\ q.cells \subseteq pass[p].cells \cup lit /\ q.pc \in {"official", "verdict"}
    BY <1>0, <1>15, <2>2 DEF D!Look, D!AskOfficial, Moves, Quiet, Claimant
  <2>3. \A w : /\ [pass[p] EXCEPT !.pc = "official", !.was = w].cells = pass[p].cells
               /\ [pass[p] EXCEPT !.pc = "official", !.was = w].pc = "official"
               /\ [pass[p] EXCEPT !.pc = "verdict", !.cells = w].cells = w
               /\ [pass[p] EXCEPT !.pc = "verdict", !.cells = w].pc = "verdict"
    BY <1>0 DEF D!PassType
  <2>4. CASE D!Look(p) /\ ~ D!Ends(p)
    <3>1. pass' = [pass EXCEPT ![p] = [pass[p] EXCEPT !.pc = "official", !.was = D!DayRow(p)]]
      BY <2>4 DEF D!Look
    <3> QED BY <2>2, <2>3, <3>1
  <2>5. CASE D!AskOfficial(p)
    <3>1. PICK w \in {lit, {}} :
            pass' = [pass EXCEPT ![p] = [pass[p] EXCEPT !.pc = "verdict", !.cells = w]]
      BY <2>5 DEF D!AskOfficial
    <3> DEFINE q == [pass[p] EXCEPT !.pc = "verdict", !.cells = w]
    <3>2. q.cells = w /\ q.pc = "verdict" /\ pass' = [pass EXCEPT ![p] = q]
      BY <2>3, <3>1
    <3> HIDE DEF q
    <3>3. q.cells \subseteq pass[p].cells \cup lit
      BY <3>2
    <3> QED BY <2>2, <3>2, <3>3
  <2>6. D!Look(p) => UNCHANGED <<lit, sent, dayRow>>
    BY DEF D!Look
  <2> QED BY <1>15, <2>1, <2>4, <2>5, <2>6
<1>16. CASE D!Verdict(p)
  <2> DEFINE v == IF D!TodayLit(p, pass[p].date) THEN "lit"
                  ELSE IF pass[p].was.attempts + 1 >= ConfirmBudget THEN "not_lit" ELSE ""
  <2>1. D!Record(pass[p].date, v) /\ D!Ends(p) /\ UNCHANGED <<lit, sent>>
    BY <1>16 DEF D!Verdict
  <2>2. v = "lit" => pass[p].date \in pass[p].cells
    BY DEF D!TodayLit
  <2> HIDE DEF v
  <2> QED BY <1>4, <1>8, <2>1, <2>2
<1>17. CASE D!CutOff(p)
  BY <1>4, <1>17 DEF D!CutOff
<1> QED BY <1>5, <1>6, <1>7, <1>10, <1>11, <1>12, <1>13, <1>14, <1>15, <1>16, <1>17
        DEF D!PassStep

LEMMA ClaimNext ==
  ASSUME D!TypeOK, ClaimInv, HeatmapInv, [D!Next]_(D!vars) PROVE ClaimInv' /\ HeatmapInv'
<1>0. /\ sent \in [D!Days -> Nat] /\ \A p \in Passes : pass[p].date \in D!Days
  BY DEF D!TypeOK, D!PassType
<1>1. ASSUME NEW p \in Passes, Moves(p) PROVE ClaimInv'
  <2>1. CASE Quiet(p)
    BY <1>0, <1>1, <2>1 DEF Moves, Quiet, ClaimInv, Claimant, D!DayRow
  <2>2. CASE Claims(p)
    BY <1>0, <1>1, <2>2 DEF Moves, Claims, ClaimInv, Claimant, D!DayRow
  <2>3. CASE Sends(p)
    BY <1>0, <1>1, <2>3 DEF Moves, Sends, ClaimInv, Claimant, D!DayRow
  <2> QED BY <1>1, <2>1, <2>2, <2>3 DEF Moves
<1>2. ASSUME NEW p \in Passes, Moves(p) PROVE HeatmapInv'
  BY <1>2 DEF Moves, HeatmapInv
<1>3. CASE D!Book \/ D!Midnight \/ UNCHANGED D!vars
  <2>1. UNCHANGED <<dayRow, pass, sent>> /\ lit \subseteq lit'
    BY <1>3 DEF D!Book, D!Midnight, D!vars
  <2> QED BY <2>1 DEF ClaimInv, HeatmapInv, Claimant, D!DayRow
<1> QED BY <1>1, <1>2, <1>3, DaySteps DEF D!Next

LEMMA DayInvariant == JobsSpec => [](D!TypeOK /\ ClaimInv /\ HeatmapInv)
<1>1. D!Init => D!TypeOK /\ ClaimInv /\ HeatmapInv
  BY ActiveDayInit, ClaimInit
<1>2. (D!TypeOK /\ ClaimInv /\ HeatmapInv) /\ [D!Next]_(D!vars)
      => (D!TypeOK /\ ClaimInv /\ HeatmapInv)'
  BY DayTypeNext, ClaimNext
<1> QED BY <1>1, <1>2, JobsAreIndependent, PTL DEF D!Spec

\* ClaimActiveDay and ResetActiveDay: rounds, console runs, forced reruns and
\* restarts together send one automatic turn a day at most.
THEOREM OneTurnADay == JobsSpec => []OneTurnPerDay
<1>1. ClaimInv => OneTurnPerDay
  BY DEF ClaimInv, OneTurnPerDay, D!OneTurnPerDay
<1> QED BY <1>1, DayInvariant, PTL

\* RecordActiveDayConfirmation and FinishActiveDay: no row says lit before the
\* official heatmap does, however late and for whichever date it was read.
THEOREM LitDaysAreOfficial == JobsSpec => []LitIsOfficial
<1>1. HeatmapInv => LitIsOfficial
  BY DEF HeatmapInv, LitIsOfficial, D!LitIsOfficial
<1> QED BY <1>1, DayInvariant, PTL

-----------------------------------------------------------------------------
(* The credit metrics.                                                     *)

Busy == {"fetch", "store", "clear", "fail", "rest"}
Held == {"begin", "account", "end"} \cup Busy

\* A job between its probe and its backoff has a metric in hand.
HandInv == \A j \in M!Jobs : task[j].at \in Busy => task[j].todo # {}

\* A round that collects holds roundMu and shows it; one that is about to let go
\* of roundMu has already switched the flag off.
RoundInv ==
  \A r \in M!Rounds : /\ task[r].at \in Held => collecting /\ roundMu = r
                      /\ task[r].at = "unlock" => roundMu = r

\* A reading that waits to be stored is in no snapshot, in no copy of one and in no
\* other hand: readings are numbered, and what is published was read before.
ReadingInv ==
  /\ \A m \in Metrics : snapshot[m].value <= readings
  /\ \A j \in M!Jobs, m \in Metrics : task[j].previous[m].value <= readings
  /\ \A j \in M!Jobs : task[j].at = "store" =>
       /\ task[j].got # 0 /\ task[j].got <= readings
       /\ \A m \in Metrics : snapshot[m].value # task[j].got
       /\ \A k \in M!Jobs, m \in Metrics : task[k].previous[m].value # task[j].got
       /\ \A k \in M!Jobs : task[k].at = "store" /\ k # j => task[k].got # task[j].got

Blank == [m \in Metrics |-> M!NoSnapshot]

LEMMA MetricBlanks ==
  /\ M!NoSnapshot \in M!Snapshots
  /\ Blank \in [Metrics -> M!Snapshots] /\ \A m \in Metrics : Blank[m].value = 0
  /\ M!Idle = [at |-> "idle", previous |-> Blank, todo |-> {}, got |-> 0]
  /\ \A x \in M!Places : [M!Idle EXCEPT !.at = x] \in M!TaskType
<1>1. M!NoSnapshot \in M!Snapshots
  BY JobsAssumption DEF M!NoSnapshot, M!Snapshots
<1>2. Blank \in [Metrics -> M!Snapshots] /\ \A m \in Metrics : Blank[m].value = 0
  BY <1>1 DEF Blank, M!NoSnapshot
<1>3. M!Idle = [at |-> "idle", previous |-> Blank, todo |-> {}, got |-> 0]
  BY DEF M!Idle, Blank
<1>4. ASSUME NEW x \in M!Places PROVE [M!Idle EXCEPT !.at = x] \in M!TaskType
  <2>1. [M!Idle EXCEPT !.at = x] = [at |-> x, previous |-> Blank, todo |-> {}, got |-> 0]
    BY <1>3
  <2> QED BY <1>2, <2>1, JobsAssumption DEF M!TaskType
<1> QED BY <1>1, <1>2, <1>3, <1>4

\* What a step of a job writes to its own record.
LEMMA TaskFields ==
  ASSUME NEW t \in M!TaskType, NEW x \in M!Places
  PROVE  /\ [t EXCEPT !.at = x] \in M!TaskType
         /\ [t EXCEPT !.at = x].at = x
         /\ [t EXCEPT !.at = x].previous = t.previous
         /\ [t EXCEPT !.at = x].todo = t.todo
         /\ [t EXCEPT !.at = x].got = t.got
BY DEF M!TaskType

LEMMA TaskRecords ==
  ASSUME NEW t \in M!TaskType, NEW x \in M!Places,
         NEW a \in SUBSET Metrics, NEW g \in 0 .. MaxReadings, NEW s \in [Metrics -> M!Snapshots]
  PROVE  /\ [t EXCEPT !.at = x, !.got = g] \in M!TaskType
         /\ [t EXCEPT !.at = x, !.got = g].at = x
         /\ [t EXCEPT !.at = x, !.got = g].previous = t.previous
         /\ [t EXCEPT !.at = x, !.got = g].todo = t.todo
         /\ [t EXCEPT !.at = x, !.got = g].got = g
         /\ [t EXCEPT !.at = x, !.todo = a, !.got = g] \in M!TaskType
         /\ [t EXCEPT !.at = x, !.todo = a, !.got = g].at = x
         /\ [t EXCEPT !.at = x, !.todo = a, !.got = g].previous = t.previous
         /\ [t EXCEPT !.at = x, !.previous = s, !.todo = a] \in M!TaskType
         /\ [t EXCEPT !.at = x, !.previous = s, !.todo = a].at = x
         /\ [t EXCEPT !.at = x, !.previous = s, !.todo = a].previous = s
BY DEF M!TaskType

\* A step that leaves readings alone and publishes at most what was there: it goes
\* on, drops what it had in hand, begins with a copy of the snapshots, or ends.
Old(m, s, t) ==
  s[m] = snapshot[m] \/ (s[m].status # "fresh" /\ s[m].value \in {0, t.previous[m].value})

Carries(j) ==
  /\ \E t \in M!TaskType :
       /\ task' = [task EXCEPT ![j] = t]
       /\ t.at \in Held \cup {"done"} /\ t.at # "store"
       /\ j \in M!Rounds => t.at # "done"
       /\ t.at \in Busy => t.todo # {}
       /\ t.previous \in {task[j].previous, snapshot, Blank}
  /\ task[j].at \in Held
  /\ snapshot' \in [Metrics -> M!Snapshots]
  /\ \A m \in Metrics : Old(m, snapshot', task[j])
  /\ readings' = readings

\* A balance is read.
Reads(j) ==
  /\ \E t \in M!TaskType :
       /\ task' = [task EXCEPT ![j] = t]
       /\ t.at = "store" /\ t.todo # {}
       /\ t.got = readings + 1 /\ t.previous = task[j].previous
  /\ task[j].at \in Held
  /\ snapshot' = snapshot
  /\ readings' = readings + 1 /\ readings + 1 \in 0 .. MaxReadings

\* A balance is published.
Publishes(j) ==
  /\ task[j].at = "store"
  /\ \E t \in M!TaskType :
       /\ task' = [task EXCEPT ![j] = t]
       /\ t.at \in {"account", "clear"}
       /\ t.at \in Busy => t.todo # {}
       /\ t.previous = task[j].previous
  /\ \E n \in Metrics :
       snapshot' = [snapshot EXCEPT ![n] = [value |-> task[j].got, status |-> "fresh"]]
  /\ readings' = readings

Works(j) ==
  /\ UNCHANGED <<roundMu, collecting, operation, scheduler>>
  /\ resting' \subseteq Metrics
  /\ Carries(j) \/ Reads(j) \/ Publishes(j)

\* Each step of a job is one of these.
LEMMA JobsWork ==
  ASSUME M!TypeOK, HandInv, NEW j \in M!Jobs, M!JobStep(j)
  PROVE  Works(j)
<1> DEFINE t == task[j]
           n == M!Now(j)
           nxt == [t EXCEPT !.at = "account", !.todo = t.todo \ {n}, !.got = 0]
<1>0. /\ t \in M!TaskType /\ task \in [M!Jobs -> M!TaskType]
      /\ snapshot \in [Metrics -> M!Snapshots] /\ readings \in 0 .. MaxReadings
      /\ t.previous \in [Metrics -> M!Snapshots] /\ t.got \in 0 .. MaxReadings
      /\ t.todo \subseteq Metrics /\ resting \subseteq Metrics
      /\ t.at \in Busy => t.todo # {}
      /\ t = [at |-> t.at, previous |-> t.previous, todo |-> t.todo, got |-> t.got]
  BY DEF M!TypeOK, M!TaskType, HandInv
<1>1. t.todo # {} => n \in t.todo /\ n \in Metrics
  BY <1>0 DEF M!Now
<1>2. ASSUME NEW x \in M!Places, M!Goto(j, x), snapshot' = snapshot, readings' = readings,
             t.at \in Held, x \in Held, x # "store", x \in Busy => t.todo # {}
      PROVE  Carries(j)
  <2>1. task' = [task EXCEPT ![j] = [t EXCEPT !.at = x]]
    BY <1>2 DEF M!Goto
  <2>2. \A m \in Metrics : Old(m, snapshot', task[j])
    BY <1>2 DEF Old
  <2> DEFINE u == [t EXCEPT !.at = x]
  <2>3. u \in M!TaskType /\ u.at = x /\ u.previous = t.previous /\ u.todo = t.todo
    BY <1>0, TaskFields
  <2>4. x # "done"
    BY <1>2 DEF Held, Busy
  <2>5. snapshot' \in [Metrics -> M!Snapshots] /\ readings' = readings
    BY <1>0, <1>2
  <2> HIDE DEF u
  <2> QED BY <1>2, <2>1, <2>2, <2>3, <2>4, <2>5 DEF Carries, u
<1>3. ASSUME M!Leaves(j), snapshot' = snapshot, readings' = readings, t.at \in Held
      PROVE  Carries(j)
  <2> DEFINE x == IF j \in M!Rounds THEN "end" ELSE "done"
             u == [at |-> x, previous |-> Blank, todo |-> {}, got |-> 0]
  <2>1. x \in M!Places /\ x \in {"end", "done"} /\ (j \in M!Rounds => x # "done")
    BY DEF M!Places
  <2>7. u \in M!TaskType
    BY <2>1, MetricBlanks, JobsAssumption DEF M!TaskType
  <2>2. [M!Idle EXCEPT !.at = x] = u /\ u \in M!TaskType
    BY <2>7, MetricBlanks
  <2>3. task' = [task EXCEPT ![j] = u]
    BY <1>3, <2>2 DEF M!Leaves
  <2>4. u.at = x /\ u.previous = Blank
    OBVIOUS
  <2>5. \A m \in Metrics : Old(m, snapshot', task[j])
    BY <1>3 DEF Old
  <2>6. x \in Held \cup {"done"} /\ x # "store" /\ x \notin Busy
    BY <2>1 DEF Held, Busy
  <2> HIDE DEF u, x
  <2> QED BY <1>0, <1>3, <2>1, <2>2, <2>3, <2>4, <2>5, <2>6 DEF Carries
<1>4. ASSUME M!NextMetric(j), t.at \in Held, readings' = readings,
             snapshot' \in [Metrics -> M!Snapshots],
             \A m \in Metrics : Old(m, snapshot', task[j])
      PROVE  Carries(j)
  <2>1. nxt \in M!TaskType /\ nxt.at = "account" /\ nxt.previous = t.previous
    <3>1. t.todo \ {n} \in SUBSET Metrics /\ 0 \in 0 .. MaxReadings /\ "account" \in M!Places
      BY <1>0, JobsAssumption DEF M!Places
    <3> QED BY <1>0, <3>1, TaskRecords
  <2>2. task' = [task EXCEPT ![j] = nxt]
    BY <1>4 DEF M!NextMetric
  <2>3. "account" \in Held /\ "account" \notin Busy
    BY DEF Held, Busy
  <2> HIDE DEF nxt
  <2> QED BY <1>0, <1>4, <2>1, <2>2, <2>3 DEF Carries
\* What a failure or a backoff publishes.
<1>5. ASSUME NEW m \in Metrics, M!Republished(m, t.previous[m]) \/ snapshot' = snapshot
               \/ snapshot' = [snapshot EXCEPT ![m] = [value |-> 0, status |-> "unavailable"]]
      PROVE  /\ snapshot' \in [Metrics -> M!Snapshots]
             /\ \A k \in Metrics : Old(k, snapshot', task[j])
  <2>1. t.previous[m].value \in 0 .. MaxReadings /\ 0 \in 0 .. MaxReadings
    BY <1>0, JobsAssumption DEF M!Snapshots
  <2>2. ASSUME NEW v \in {0, t.previous[m].value}, NEW s \in {"stale", "unavailable"},
               snapshot' = [snapshot EXCEPT ![m] = [value |-> v, status |-> s]]
        PROVE  /\ snapshot' \in [Metrics -> M!Snapshots]
               /\ \A k \in Metrics : Old(k, snapshot', task[j])
    <3>1. [value |-> v, status |-> s] \in M!Snapshots
      BY <2>1 DEF M!Snapshots
    <3>2. \A k \in Metrics : snapshot'[k] = IF k = m THEN [value |-> v, status |-> s] ELSE snapshot[k]
      BY <1>0, <2>2
    <3> QED BY <1>0, <2>2, <3>1, <3>2 DEF Old
  <2>3. CASE snapshot' = snapshot
    BY <1>0, <2>3 DEF Old
  <2> QED BY <1>5, <2>2, <2>3 DEF M!Republished
<1>6. CASE M!ReadPrevious(j)
  <2>1. t.at \in Held
    BY <1>6 DEF M!ReadPrevious, M!At, Held
  <2>2. ASSUME NEW todo \in SUBSET Metrics,
               task' = [task EXCEPT ![j].at = "account", ![j].previous = snapshot, ![j].todo = todo]
        PROVE  Carries(j)
    <3> DEFINE u == [t EXCEPT !.at = "account", !.previous = snapshot, !.todo = todo]
    <3>1. u \in M!TaskType /\ u.at = "account" /\ u.previous = snapshot
      <4>1. "account" \in M!Places /\ t.got \in 0 .. MaxReadings
        BY <1>0 DEF M!Places
      <4> QED BY <1>0, <4>1, TaskRecords
    <3>2. task' = [task EXCEPT ![j] = u]
      BY <1>0, <2>2
    <3>3. "account" \in Held /\ "account" \notin Busy
      BY DEF Held, Busy
    <3>4. \A m \in Metrics : Old(m, snapshot', task[j])
      BY <1>6 DEF M!ReadPrevious, Old
    <3> HIDE DEF u
    <3> QED BY <1>0, <1>6, <2>1, <3>1, <3>2, <3>3, <3>4 DEF Carries, M!ReadPrevious
  <2>3. Carries(j)
    BY <1>3, <1>6, <2>1, <2>2 DEF M!ReadPrevious
  <2> QED BY <1>0, <1>6, <2>3 DEF Works, M!ReadPrevious
<1>7. CASE M!JobEnds(j)
  BY <1>0, <1>3, <1>7 DEF M!JobEnds, M!At, Works, Held
<1>8. CASE M!Skip(j)
  <2>1. Carries(j)
    BY <1>1, <1>4, <1>5, <1>8 DEF M!Skip, M!At, Held
  <2> QED BY <1>0, <1>8, <2>1 DEF Works, M!Skip
<1>9. CASE M!Probe(j)
  <2>1. Carries(j)
    BY <1>2, <1>9 DEF M!Probe, M!At, Held, Busy, M!Places
  <2> QED BY <1>0, <1>9, <2>1 DEF Works, M!Probe
<1>10. CASE M!Fetch(j)
  <2>1. t.at \in Held /\ t.todo # {}
    BY <1>0, <1>10 DEF M!Fetch, M!At, Held, Busy
  <2>2. CASE M!Goto(j, "fail") /\ UNCHANGED readings
    <3>1. Carries(j)
      BY <1>2, <1>10, <2>1, <2>2 DEF M!Fetch, Held, Busy, M!Places
    <3> QED BY <1>0, <1>10, <3>1 DEF Works, M!Fetch
  <2>3. CASE /\ readings < MaxReadings /\ readings' = readings + 1
             /\ task' = [task EXCEPT ![j].at = "store", ![j].got = readings + 1]
    <3> DEFINE u == [t EXCEPT !.at = "store", !.got = readings + 1]
    <3>1. readings + 1 \in 0 .. MaxReadings
      BY <1>0, <2>3, JobsAssumption
    <3>2. /\ u \in M!TaskType /\ u.at = "store" /\ u.todo = t.todo
          /\ u.got = readings + 1 /\ u.previous = t.previous
      <4>1. "store" \in M!Places
        BY DEF M!Places
      <4> QED BY <1>0, <3>1, <4>1, TaskRecords
    <3>3. task' = [task EXCEPT ![j] = u]
      BY <1>0, <2>3
    <3> HIDE DEF u
    <3>5. Reads(j)
      BY <1>10, <2>1, <2>3, <3>1, <3>2, <3>3 DEF Reads, M!Fetch
    <3> QED BY <1>0, <1>10, <3>5 DEF Works, M!Fetch
  <2> QED BY <1>10, <2>2, <2>3 DEF M!Fetch
<1>15. nxt \in M!TaskType /\ nxt.at = "account" /\ nxt.previous = t.previous
  <2>1. t.todo \ {n} \in SUBSET Metrics /\ 0 \in 0 .. MaxReadings /\ "account" \in M!Places
    BY <1>0, JobsAssumption DEF M!Places
  <2> QED BY <1>0, <2>1, TaskRecords
<1>11. CASE M!Store(j)
  <2>1. t.at = "store" /\ t.at \in Held /\ n \in Metrics /\ t.todo # {}
    BY <1>0, <1>1, <1>11 DEF M!Store, M!At, Held, Busy
  <2>2. CASE M!NextMetric(j) /\ UNCHANGED snapshot
    <3>1. \A m \in Metrics : Old(m, snapshot', task[j])
      BY <2>2 DEF Old
    <3>2. Carries(j)
      BY <1>0, <1>4, <1>11, <2>1, <2>2, <3>1 DEF M!Store
    <3> QED BY <1>0, <1>11, <3>2 DEF Works, M!Store
  <2>3. CASE /\ snapshot' = [snapshot EXCEPT ![M!Now(j)] = [value |-> task[j].got, status |-> "fresh"]]
             /\ M!Goto(j, "clear") \/ M!NextMetric(j)
    <3>1. \E u \in M!TaskType :
            /\ task' = [task EXCEPT ![j] = u]
            /\ u.at \in {"account", "clear"} /\ (u.at \in Busy => u.todo # {})
            /\ u.previous = t.previous
      <4>1. CASE M!Goto(j, "clear")
        <5>1. task' = [task EXCEPT ![j] = [t EXCEPT !.at = "clear"]]
          BY <4>1 DEF M!Goto
        <5>2. /\ [t EXCEPT !.at = "clear"] \in M!TaskType
              /\ [t EXCEPT !.at = "clear"].at = "clear"
              /\ [t EXCEPT !.at = "clear"].todo = t.todo
              /\ [t EXCEPT !.at = "clear"].previous = t.previous
          BY <1>0, TaskFields DEF M!Places
        <5> QED BY <2>1, <5>1, <5>2
      <4>2. CASE M!NextMetric(j)
        BY <1>15, <4>2 DEF Busy, M!NextMetric
      <4> QED BY <2>3, <4>1, <4>2
    <3>2. Publishes(j)
      BY <1>11, <2>1, <2>3, <3>1 DEF Publishes, M!Store
    <3> QED BY <1>0, <1>11, <3>2 DEF Works, M!Store
  <2> QED BY <1>11, <2>2, <2>3 DEF M!Store
<1>12. CASE M!ClearBackoff(j)
  <2>1. \A m \in Metrics : Old(m, snapshot', task[j])
    BY <1>12 DEF M!ClearBackoff, Old
  <2>2. Carries(j)
    BY <1>0, <1>4, <1>12, <2>1 DEF M!ClearBackoff, M!At, Held, Busy
  <2> QED BY <1>0, <1>12, <2>2 DEF Works, M!ClearBackoff
<1>13. CASE M!StoreFailure(j)
  <2>1. t.at \in Held /\ t.todo # {} /\ n \in Metrics
    BY <1>0, <1>1, <1>13 DEF M!StoreFailure, M!At, Held, Busy
  <2>2. /\ snapshot' \in [Metrics -> M!Snapshots]
        /\ \A m \in Metrics : Old(m, snapshot', task[j])
    BY <1>5, <1>13, <2>1 DEF M!StoreFailure
  <2>3. CASE M!NextMetric(j)
    <3>1. Carries(j)
      BY <1>4, <1>13, <2>1, <2>2, <2>3 DEF M!StoreFailure
    <3> QED BY <1>0, <1>13, <3>1 DEF Works, M!StoreFailure
  <2>4. /\ [t EXCEPT !.at = "rest"] \in M!TaskType
        /\ [t EXCEPT !.at = "rest"].at = "rest"
        /\ [t EXCEPT !.at = "rest"].todo = t.todo
        /\ [t EXCEPT !.at = "rest"].previous = t.previous
    BY <1>0, TaskFields DEF M!Places
  <2>5. CASE M!Goto(j, "rest")
    <3>1. task' = [task EXCEPT ![j] = [t EXCEPT !.at = "rest"]]
      BY <2>5 DEF M!Goto
    <3>2. Carries(j)
      BY <1>13, <2>1, <2>2, <2>4, <3>1 DEF Carries, M!StoreFailure, Held, Busy
    <3> QED BY <1>0, <1>13, <3>2 DEF Works, M!StoreFailure
  <2> QED BY <1>13, <2>3, <2>5 DEF M!StoreFailure
<1>14. CASE M!RecordBackoff(j)
  <2>1. \A m \in Metrics : Old(m, snapshot', task[j])
    BY <1>14 DEF M!RecordBackoff, Old
  <2>2. t.at \in Held /\ n \in Metrics
    BY <1>0, <1>1, <1>14 DEF M!RecordBackoff, M!At, Held, Busy
  <2>3. Carries(j)
    BY <1>0, <1>4, <1>14, <2>1, <2>2 DEF M!RecordBackoff
  <2> QED BY <1>0, <1>14, <2>2, <2>3 DEF Works, M!RecordBackoff
<1> QED BY <1>6, <1>7, <1>8, <1>9, <1>10, <1>11, <1>12, <1>13, <1>14 DEF M!JobStep

\* A step of the scheduler, of a round's lock or of an operation's row moves a job on.
Goes(j, x) ==
  /\ task' = [task EXCEPT ![j].at = x] /\ x \notin Busy
  /\ UNCHANGED <<snapshot, readings>>

\* What a reading in hand says of the step's record, values being typed.
LEMMA Values ==
  ASSUME M!TypeOK, NEW j \in M!Jobs, NEW m \in Metrics
  PROVE  /\ snapshot[m].value \in 0 .. MaxReadings
         /\ task[j].previous[m].value \in 0 .. MaxReadings
         /\ task[j].got \in 0 .. MaxReadings
         /\ readings \in Int /\ 0 <= readings
<1>1. snapshot[m] \in M!Snapshots /\ task[j] \in M!TaskType
  BY DEF M!TypeOK
<1>2. task[j].previous[m] \in M!Snapshots
  BY <1>1 DEF M!TaskType
<1> QED BY <1>1, <1>2, JobsAssumption DEF M!Snapshots, M!TaskType, M!TypeOK

LEMMA ReadingNext ==
  ASSUME M!TypeOK, HandInv, ReadingInv, NEW j \in M!Jobs,
         Works(j) \/ \E x \in M!Places : Goes(j, x)
  PROVE  /\ task' \in [M!Jobs -> M!TaskType] /\ snapshot' \in [Metrics -> M!Snapshots]
         /\ readings' \in 0 .. MaxReadings
         /\ HandInv' /\ ReadingInv'
<1>0. /\ task \in [M!Jobs -> M!TaskType] /\ snapshot \in [Metrics -> M!Snapshots]
      /\ readings \in 0 .. MaxReadings /\ MaxReadings \in Nat
      /\ Blank \in [Metrics -> M!Snapshots] /\ \A m \in Metrics : Blank[m].value = 0
  BY MetricBlanks, JobsAssumption DEF M!TypeOK
<1>1. ASSUME Carries(j)
      PROVE  /\ task' \in [M!Jobs -> M!TaskType] /\ snapshot' \in [Metrics -> M!Snapshots]
             /\ readings' \in 0 .. MaxReadings
             /\ HandInv' /\ ReadingInv'
  <2>1. PICK t \in M!TaskType :
          /\ task' = [task EXCEPT ![j] = t] /\ t.at # "store"
          /\ t.at \in Busy => t.todo # {}
          /\ t.previous \in {task[j].previous, snapshot, Blank}
    BY <1>1 DEF Carries
  <2>2. /\ task' \in [M!Jobs -> M!TaskType] /\ task'[j] = t
        /\ \A k \in M!Jobs \ {j} : task'[k] = task[k]
    BY <1>0, <2>1
  <2>3. HandInv'
    BY <2>1, <2>2 DEF HandInv
  <2>4. \A m \in Metrics :
          /\ snapshot'[m].value \in {snapshot[m].value, 0, task[j].previous[m].value}
          /\ t.previous[m].value \in {snapshot[m].value, 0, task[j].previous[m].value}
    BY <1>0, <1>1, <2>1 DEF Carries, Old
  <2>5. /\ \A m \in Metrics : snapshot'[m].value <= readings
        /\ \A m \in Metrics : t.previous[m].value <= readings
    BY <2>4, Values DEF ReadingInv
  <2>6. \A m \in Metrics, k \in M!Jobs : task'[k].previous[m].value <= readings
    BY <2>2, <2>5 DEF ReadingInv
  <2>7. ASSUME NEW k \in M!Jobs, task'[k].at = "store"
        PROVE  /\ task'[k].got # 0 /\ task'[k].got <= readings
               /\ \A m \in Metrics : snapshot'[m].value # task'[k].got
               /\ \A i \in M!Jobs, m \in Metrics : task'[i].previous[m].value # task'[k].got
               /\ \A i \in M!Jobs : task'[i].at = "store" /\ i # k => task'[i].got # task'[k].got
    <3>1. k # j /\ task'[k] = task[k]
      BY <2>1, <2>2, <2>7
    <3>2. \A m \in Metrics : /\ snapshot'[m].value # task[k].got
                             /\ t.previous[m].value # task[k].got
      BY <2>4, <2>7, <3>1 DEF ReadingInv
    <3>3. \A i \in M!Jobs, m \in Metrics : task'[i].previous[m].value # task[k].got
      BY <2>2, <2>7, <3>1, <3>2 DEF ReadingInv
    <3>4. \A i \in M!Jobs : task'[i].at = "store" => i # j /\ task'[i] = task[i]
      BY <2>1, <2>2
    <3> QED BY <2>7, <3>1, <3>2, <3>3, <3>4 DEF ReadingInv
  <2>8. readings' = readings /\ snapshot' \in [Metrics -> M!Snapshots]
    BY <1>1 DEF Carries
  <2> QED BY <1>0, <2>2, <2>3, <2>5, <2>6, <2>7, <2>8 DEF ReadingInv
<1>2. ASSUME Reads(j)
      PROVE  /\ task' \in [M!Jobs -> M!TaskType] /\ snapshot' \in [Metrics -> M!Snapshots]
             /\ readings' \in 0 .. MaxReadings
             /\ HandInv' /\ ReadingInv'
  <2>1. PICK t \in M!TaskType :
          /\ task' = [task EXCEPT ![j] = t] /\ t.at = "store" /\ t.todo # {}
          /\ t.got = readings + 1 /\ t.previous = task[j].previous
    BY <1>2 DEF Reads
  <2>2. /\ task' \in [M!Jobs -> M!TaskType] /\ task'[j] = t
        /\ \A k \in M!Jobs \ {j} : task'[k] = task[k]
        /\ \A k \in M!Jobs : task'[k].previous = task[k].previous
    BY <1>0, <2>1
  <2>3. snapshot' = snapshot /\ readings' = readings + 1 /\ readings' \in 0 .. MaxReadings
    BY <1>2 DEF Reads
  <2>4. HandInv'
    BY <2>1, <2>2 DEF HandInv
  <2>5. \A m \in Metrics : snapshot[m].value <= readings' /\ snapshot[m].value # readings'
    <3> TAKE m \in Metrics
    <3>1. snapshot[m].value <= readings /\ snapshot[m].value \in Int /\ readings \in Int
      BY Values DEF ReadingInv
    <3> QED BY <2>3, <3>1
  <2>6. \A m \in Metrics, k \in M!Jobs :
          /\ task'[k].previous[m].value <= readings' /\ task'[k].previous[m].value # readings'
    <3> TAKE m \in Metrics, k \in M!Jobs
    <3>1. task[k].previous[m].value <= readings /\ task[k].previous[m].value \in Int /\ readings \in Int
      BY Values DEF ReadingInv
    <3> QED BY <2>2, <2>3, <3>1
  <2>7. ASSUME NEW k \in M!Jobs, k # j, task[k].at = "store"
        PROVE  task[k].got # 0 /\ task[k].got <= readings' /\ task[k].got # readings'
    <3>1. task[k].got # 0 /\ task[k].got <= readings
      BY <2>7 DEF ReadingInv
    <3>2. task[k].got \in Int /\ readings \in Int
      BY <1>0 DEF M!TaskType
    <3> QED BY <2>3, <3>1, <3>2
  <2>8. readings' # 0 /\ readings' <= readings' /\ t.got = readings'
    BY <1>0, <2>1, <2>3
  <2>9. ASSUME NEW k \in M!Jobs, task'[k].at = "store"
        PROVE  /\ task'[k].got # 0 /\ task'[k].got <= readings'
               /\ \A m \in Metrics : snapshot'[m].value # task'[k].got
               /\ \A i \in M!Jobs, m \in Metrics : task'[i].previous[m].value # task'[k].got
               /\ \A i \in M!Jobs : task'[i].at = "store" /\ i # k => task'[i].got # task'[k].got
    <3>1. CASE k = j
      BY <2>2, <2>3, <2>5, <2>6, <2>7, <2>8, <2>9, <3>1
    <3>2. CASE k # j
      <4>1. task'[k] = task[k] /\ task[k].at = "store"
        BY <2>2, <2>9, <3>2
      <4>2. \A i \in M!Jobs : task'[i].at = "store" /\ i # k => task'[i].got # task[k].got
        BY <2>2, <2>7, <2>8, <3>2, <4>1 DEF ReadingInv
      <4>3. \A i \in M!Jobs, m \in Metrics : task'[i].previous[m].value # task[k].got
        BY <2>2, <4>1 DEF ReadingInv
      <4> QED BY <2>3, <2>7, <3>2, <4>1, <4>2, <4>3 DEF ReadingInv
    <3> QED BY <3>1, <3>2
  <2> QED BY <1>0, <2>2, <2>3, <2>4, <2>5, <2>6, <2>9 DEF ReadingInv
<1>3. ASSUME Publishes(j)
      PROVE  /\ task' \in [M!Jobs -> M!TaskType] /\ snapshot' \in [Metrics -> M!Snapshots]
             /\ readings' \in 0 .. MaxReadings
             /\ HandInv' /\ ReadingInv'
  <2>1. PICK t \in M!TaskType :
          /\ task' = [task EXCEPT ![j] = t] /\ t.at \in {"account", "clear"}
          /\ t.at \in Busy => t.todo # {}
          /\ t.previous = task[j].previous
    BY <1>3 DEF Publishes
  <2>2. /\ task' \in [M!Jobs -> M!TaskType] /\ task'[j] = t
        /\ \A k \in M!Jobs \ {j} : task'[k] = task[k]
        /\ \A k \in M!Jobs : task'[k].previous = task[k].previous
    BY <1>0, <2>1
  <2>3. PICK n \in Metrics :
          snapshot' = [snapshot EXCEPT ![n] = [value |-> task[j].got, status |-> "fresh"]]
    BY <1>3 DEF Publishes
  <2>4. task[j].at = "store" /\ readings' = readings
    BY <1>3 DEF Publishes
  <2>5. [value |-> task[j].got, status |-> "fresh"] \in M!Snapshots
    BY <1>0 DEF M!Snapshots, M!TaskType
  <2>6. /\ snapshot' \in [Metrics -> M!Snapshots]
        /\ \A m \in Metrics : snapshot'[m].value \in {snapshot[m].value, task[j].got}
    BY <1>0, <2>3, <2>5
  <2>7. HandInv'
    BY <2>1, <2>2 DEF HandInv
  <2>8. \A m \in Metrics : snapshot'[m].value <= readings
    BY <2>4, <2>6 DEF ReadingInv
  <2>9. ASSUME NEW k \in M!Jobs, task'[k].at = "store"
        PROVE  /\ task'[k].got # 0 /\ task'[k].got <= readings
               /\ \A m \in Metrics : snapshot'[m].value # task'[k].got
               /\ \A i \in M!Jobs, m \in Metrics : task'[i].previous[m].value # task'[k].got
               /\ \A i \in M!Jobs : task'[i].at = "store" /\ i # k => task'[i].got # task'[k].got
    <3>1. k # j /\ task'[k] = task[k]
      BY <2>1, <2>2, <2>9
    <3>2. \A m \in Metrics : snapshot'[m].value # task[k].got
      BY <2>4, <2>6, <2>9, <3>1 DEF ReadingInv
    <3>3. \A i \in M!Jobs, m \in Metrics : task'[i].previous[m].value # task[k].got
      BY <2>2, <2>9, <3>1 DEF ReadingInv
    <3>4. \A i \in M!Jobs : task'[i].at = "store" => i # j /\ task'[i] = task[i]
      BY <2>1, <2>2
    <3> QED BY <2>9, <3>1, <3>2, <3>3, <3>4 DEF ReadingInv
  <2> QED BY <1>0, <2>2, <2>4, <2>6, <2>7, <2>8, <2>9 DEF ReadingInv
<1>4. ASSUME NEW x \in M!Places, Goes(j, x)
      PROVE  /\ task' \in [M!Jobs -> M!TaskType] /\ snapshot' \in [Metrics -> M!Snapshots]
             /\ readings' \in 0 .. MaxReadings
             /\ HandInv' /\ ReadingInv'
  <2> DEFINE t == [task[j] EXCEPT !.at = x]
  <2>1. t \in M!TaskType /\ t.at = x /\ t.previous = task[j].previous
    BY <1>0, TaskFields
  <2>2. task' = [task EXCEPT ![j] = t]
    BY <1>4 DEF Goes
  <2> HIDE DEF t
  <2>3. /\ task' \in [M!Jobs -> M!TaskType] /\ task'[j] = t
        /\ \A k \in M!Jobs \ {j} : task'[k] = task[k]
        /\ \A k \in M!Jobs : task'[k].previous = task[k].previous
    BY <1>0, <2>1, <2>2
  <2>4. snapshot' = snapshot /\ readings' = readings /\ x \notin Busy /\ x # "store"
    BY <1>4 DEF Goes, Busy
  <2>5. HandInv'
    BY <2>1, <2>3, <2>4 DEF HandInv
  <2>6. \A k \in M!Jobs : task'[k].at = "store" => task'[k] = task[k] /\ task[k].at = "store"
    BY <2>1, <2>3, <2>4
  <2>7. ReadingInv'
    <3>1. \A k \in M!Jobs, m \in Metrics : task'[k].previous[m].value <= readings
      BY <2>3 DEF ReadingInv
    <3>2. ASSUME NEW k \in M!Jobs, task'[k].at = "store"
          PROVE  /\ task'[k].got # 0 /\ task'[k].got <= readings
                 /\ \A m \in Metrics : snapshot'[m].value # task'[k].got
                 /\ \A i \in M!Jobs, m \in Metrics : task'[i].previous[m].value # task'[k].got
                 /\ \A i \in M!Jobs : task'[i].at = "store" /\ i # k => task'[i].got # task'[k].got
      <4>1. task'[k] = task[k] /\ task[k].at = "store"
        BY <2>6, <3>2
      <4> QED BY <2>3, <2>4, <2>6, <4>1 DEF ReadingInv
    <3> QED BY <2>4, <3>1, <3>2 DEF ReadingInv
  <2> QED BY <1>0, <2>3, <2>4, <2>5, <2>7
<1> QED BY <1>1, <1>2, <1>3, <1>4 DEF Works

MetricInv == M!TypeOK /\ HandInv /\ ReadingInv /\ RoundInv

LEMMA MetricInit == M!Init => MetricInv
<1> SUFFICES ASSUME M!Init PROVE MetricInv
  OBVIOUS
<1>1. M!Idle \in M!TaskType /\ M!Idle.at = "idle" /\ M!Idle.previous = Blank
  <2>1. Blank \in [Metrics -> M!Snapshots] /\ 0 \in 0 .. MaxReadings
    BY MetricBlanks, JobsAssumption
  <2> QED BY <2>1, MetricBlanks DEF M!TaskType, M!Places
<1>2. \A j \in M!Jobs : task[j] = M!Idle
  BY DEF M!Init
<1>3. /\ task \in [M!Jobs -> M!TaskType] /\ snapshot = Blank /\ readings = 0
      /\ operation \in [Operations -> {"absent", "running", "finished"}]
  BY <1>1 DEF M!Init, Blank
<1>4. M!TypeOK
  <2>1. snapshot \in [Metrics -> M!Snapshots] /\ readings \in 0 .. MaxReadings
    BY <1>3, MetricBlanks, JobsAssumption
  <2>2. /\ roundMu \in M!Rounds \cup {M!Nobody} /\ collecting \in BOOLEAN
        /\ resting \subseteq Metrics /\ scheduler \in {"running", "stopping", "stopped"}
    BY DEF M!Init
  <2> QED BY <1>3, <2>1, <2>2 DEF M!TypeOK
<1>5. HandInv /\ RoundInv
  BY <1>1, <1>2 DEF HandInv, RoundInv, Held, Busy, M!Rounds, M!Jobs
<1>6. ReadingInv
  BY <1>1, <1>2, <1>3, MetricBlanks DEF ReadingInv
<1> QED BY <1>4, <1>5, <1>6 DEF MetricInv

\* Which places the steps of the rounds, the console and the scheduler leave and reach.
LEMMA PlacesOfSteps ==
  /\ Loop \in M!Rounds /\ M!Rounds \subseteq M!Jobs /\ Operations \subseteq M!Rounds
  /\ Singles \subseteq M!Jobs /\ \A s \in Singles : s \notin M!Rounds
  /\ Loop \notin Operations /\ Loop \notin Singles
  /\ M!Nobody \notin M!Rounds
BY JobsAssumption DEF M!Rounds, M!Jobs, M!Nobody

LEMMA RoundNext ==
  ASSUME MetricInv, NEW j \in M!Jobs, NEW t,
         task \in [M!Jobs -> M!TaskType], task' = [task EXCEPT ![j] = t]
  PROVE  /\ j \in M!Rounds /\ task[j].at \in Held /\ t.at \in Held
              /\ UNCHANGED <<roundMu, collecting>> => RoundInv'
         /\ (j \notin M!Rounds \/ t.at \notin Held \cup {"unlock"})
              /\ UNCHANGED <<roundMu, collecting>> => RoundInv'
<1>1. /\ task'[j] = t
      /\ \A k \in M!Rounds : k \in M!Jobs /\ (k # j => task'[k] = task[k])
  BY PlacesOfSteps
<1>2. "unlock" \notin Held
  BY DEF Held, Busy
<1> QED BY <1>1, <1>2 DEF MetricInv, RoundInv

LEMMA MetricNext == MetricInv /\ [M!Next]_(M!vars) => MetricInv'
<1> SUFFICES ASSUME MetricInv, [M!Next]_(M!vars) PROVE MetricInv'
  OBVIOUS
<1>0. /\ M!TypeOK /\ HandInv /\ ReadingInv /\ RoundInv
      /\ task \in [M!Jobs -> M!TaskType]
  BY DEF MetricInv, M!TypeOK
\* A job that collects.
<1>1. ASSUME NEW j \in M!Jobs, M!JobStep(j) PROVE MetricInv'
  <2>1. Works(j)
    BY <1>0, <1>1, JobsWork
  <2>2. /\ task' \in [M!Jobs -> M!TaskType] /\ snapshot' \in [Metrics -> M!Snapshots]
        /\ readings' \in 0 .. MaxReadings /\ HandInv' /\ ReadingInv'
    BY <1>0, <2>1, ReadingNext
  <2>3. PICK t \in M!TaskType : /\ task' = [task EXCEPT ![j] = t]
                                /\ t.at \in Held \cup {"done"}
                                /\ j \in M!Rounds => t.at \in Held
    BY <2>1 DEF Works, Carries, Reads, Publishes, Held, Busy
  <2>4. task[j].at \in Held
    BY <2>1 DEF Works, Carries, Reads, Publishes, Held, Busy
  <2>5. UNCHANGED <<roundMu, collecting, operation, scheduler>> /\ resting' \subseteq Metrics
    BY <2>1 DEF Works
  <2>6. RoundInv'
    BY <1>0, <2>3, <2>4, <2>5, RoundNext
  <2>7. M!TypeOK'
    BY <1>0, <2>2, <2>5 DEF M!TypeOK
  <2> QED BY <2>2, <2>6, <2>7 DEF MetricInv
\* The other steps: where they take their job.
<1>2. ASSUME NEW j \in M!Jobs, NEW x \in M!Places, Goes(j, x),
             RoundInv',
             roundMu' \in M!Rounds \cup {M!Nobody}, collecting' \in BOOLEAN, resting' = resting,
             operation' \in [Operations -> {"absent", "running", "finished"}],
             scheduler' = scheduler
      PROVE  MetricInv'
  <2>1. /\ task' \in [M!Jobs -> M!TaskType] /\ snapshot' \in [Metrics -> M!Snapshots]
        /\ readings' \in 0 .. MaxReadings /\ HandInv' /\ ReadingInv'
    BY <1>0, <1>2, ReadingNext
  <2>2. M!TypeOK'
    BY <1>0, <1>2, <2>1 DEF M!TypeOK
  <2> QED BY <1>2, <2>1, <2>2 DEF MetricInv
<1>3. ASSUME NEW j \in M!Jobs, NEW x \in M!Places, M!Goto(j, x)
      PROVE  \E t : task' = [task EXCEPT ![j] = t] /\ t.at = x
  <2> DEFINE t == [task[j] EXCEPT !.at = x]
  <2>1. task' = [task EXCEPT ![j] = t]
    BY <1>3 DEF M!Goto
  <2>2. t.at = x
    BY <1>0, TaskFields
  <2> HIDE DEF t
  <2> QED BY <2>1, <2>2
<1>5. roundMu \in M!Rounds \cup {M!Nobody} /\ collecting \in BOOLEAN
  BY <1>0 DEF M!TypeOK
<1>6. ASSUME NEW r \in M!Rounds, M!Lock(r) PROVE MetricInv'
  <2>1. r \in M!Jobs /\ "begin" \in M!Places /\ "begin" \notin Busy
    BY PlacesOfSteps DEF M!Places, Busy
  <2>2. PICK t : task' = [task EXCEPT ![r] = t] /\ t.at = "begin"
    BY <1>3, <1>6, <2>1 DEF M!Lock
  <2>3. \A k \in M!Rounds : task[k].at \notin Held \cup {"unlock"}
    BY <1>0, <1>6, PlacesOfSteps DEF M!Lock, RoundInv
  <2>4. RoundInv'
    <3>1. \A k \in M!Rounds : k \in M!Jobs /\ (k # r => task'[k] = task[k])
      BY <2>2, PlacesOfSteps
    <3>2. task'[r].at = "begin"
      BY <1>0, <2>1, <2>2
    <3> QED BY <1>6, <2>3, <3>1, <3>2 DEF RoundInv, M!Lock
  <2>6. Goes(r, "begin") /\ operation' = operation /\ resting' = resting /\ scheduler' = scheduler
    BY <1>6, <2>1 DEF M!Lock, Goes, M!Goto
  <2>7. /\ roundMu' \in M!Rounds \cup {M!Nobody} /\ collecting' \in BOOLEAN
        /\ operation' \in [Operations -> {"absent", "running", "finished"}]
    BY <1>0, <1>6, <2>6 DEF M!Lock, M!TypeOK
  <2> QED BY <1>2, <2>1, <2>4, <2>6, <2>7
<1>7. ASSUME NEW r \in M!Rounds, M!Unlock(r) PROVE MetricInv'
  <2>1. r \in M!Jobs
    BY PlacesOfSteps
  <2>2. PICK x \in {"unlock", "idle", "report"} :
          /\ M!Goto(r, x) /\ task[r].at # "idle"
          /\ \/ x = "unlock" /\ task[r].at = "end" /\ collecting' = FALSE /\ UNCHANGED roundMu
             \/ x # "unlock" /\ task[r].at = "unlock" /\ roundMu' = M!Nobody /\ UNCHANGED collecting
    BY <1>7 DEF M!Unlock, M!At
  <2>3. x \in M!Places /\ x \notin Busy /\ x \notin Held
    BY <2>2 DEF M!Places, Busy, Held
  <2>4. PICK t : task' = [task EXCEPT ![r] = t] /\ t.at = x
    BY <1>3, <2>1, <2>2, <2>3
  <2>5. RoundInv'
    <3>1. \A k \in M!Rounds : k \in M!Jobs /\ (k # r => task'[k] = task[k])
      BY <2>4, PlacesOfSteps
    <3>2. task'[r].at = x
      BY <1>0, <2>1, <2>4
    <3>3. roundMu = r
      BY <1>0, <2>2 DEF RoundInv, Held
    <3>4. \A k \in M!Rounds : k # r => task[k].at \notin Held \cup {"unlock"}
      BY <1>0, <3>3 DEF RoundInv
    <3> QED BY <2>2, <2>3, <3>1, <3>2, <3>3, <3>4 DEF RoundInv
  <2>7. Goes(r, x) /\ operation' = operation /\ resting' = resting /\ scheduler' = scheduler
    BY <1>7, <2>2, <2>3 DEF M!Unlock, Goes, M!Goto
  <2>8. /\ roundMu' \in M!Rounds \cup {M!Nobody} /\ collecting' \in BOOLEAN
        /\ operation' \in [Operations -> {"absent", "running", "finished"}]
    BY <1>0, <1>5, <2>2, <2>7 DEF M!TypeOK
  <2> QED BY <1>2, <2>1, <2>3, <2>5, <2>7, <2>8
\* A job that begins, waits for the lock or reports, outside of any round.
<1>8. ASSUME NEW j \in M!Jobs, NEW x \in M!Places, M!Goto(j, x), x \notin Busy,
             j \notin M!Rounds \/ x \notin Held \cup {"unlock"},
             operation' \in [Operations -> {"absent", "running", "finished"}],
             UNCHANGED <<roundMu, collecting, snapshot, resting, scheduler, readings>>
      PROVE  MetricInv'
  <2>1. PICK t : task' = [task EXCEPT ![j] = t] /\ t.at = x
    BY <1>3, <1>8
  <2>2. RoundInv'
    BY <1>0, <1>8, <2>1, RoundNext
  <2>4. Goes(j, x)
    BY <1>8 DEF Goes, M!Goto
  <2> QED BY <1>2, <1>5, <1>8, <2>2, <2>4
<1>9. /\ {"lock", "done", "begin"} \subseteq M!Places
      /\ {"lock", "done", "begin"} \cap Busy = {}
      /\ {"lock", "done"} \cap (Held \cup {"unlock"}) = {}
  BY DEF M!Places, Busy, Held
<1>10. operation \in [Operations -> {"absent", "running", "finished"}]
  BY <1>0 DEF M!TypeOK
<1>11. ASSUME NEW o \in Operations, M!OperationBegins(o) \/ M!OperationEnds(o) PROVE MetricInv'
  <2>1. o \in M!Jobs /\ o # Loop
    BY PlacesOfSteps
  <2>2. \E x \in {"lock", "done"} : M!Goto(o, x)
    BY <1>11 DEF M!OperationBegins, M!OperationEnds
  <2>3. UNCHANGED <<roundMu, collecting, snapshot, resting, scheduler, readings>>
    BY <1>11 DEF M!OperationBegins, M!OperationEnds
  <2>4. operation' \in [Operations -> {"absent", "running", "finished"}]
    BY <1>10, <1>11 DEF M!OperationBegins, M!OperationEnds
  <2> QED BY <1>8, <1>9, <2>1, <2>2, <2>3, <2>4
<1>12. ASSUME NEW s \in Singles, M!SingleBegins(s) PROVE MetricInv'
  <2>1. s \in M!Jobs /\ s \notin M!Rounds /\ s # Loop
    BY PlacesOfSteps
  <2>2. /\ M!Goto(s, "begin") /\ "begin" \in M!Places /\ "begin" \notin Busy
        /\ UNCHANGED <<roundMu, collecting, snapshot, resting, scheduler, readings>>
    BY <1>9, <1>12 DEF M!SingleBegins
  <2>3. operation' \in [Operations -> {"absent", "running", "finished"}]
    BY <1>10, <1>12 DEF M!SingleBegins
  <2> QED BY <1>8, <2>1, <2>2, <2>3
<1>13. CASE M!LoopBegins
  BY <1>8, <1>9, <1>10, <1>13, PlacesOfSteps DEF M!LoopBegins
\* Time and shutdown.
<1>14. CASE M!WindowEnds \/ M!StopBegins \/ M!StopReturns \/ UNCHANGED M!vars
  <2>1. UNCHANGED <<roundMu, collecting, snapshot, task, operation, readings>>
    BY <1>14 DEF M!WindowEnds, M!StopBegins, M!StopReturns, M!vars
  <2>2. /\ resting' \subseteq Metrics /\ scheduler' \in {"running", "stopping", "stopped"}
    BY <1>0, <1>14 DEF M!WindowEnds, M!StopBegins, M!StopReturns, M!vars, M!TypeOK, M!At
  <2>3. M!TypeOK'
    BY <1>0, <2>1, <2>2 DEF M!TypeOK
  <2>4. HandInv' /\ ReadingInv' /\ RoundInv'
    BY <1>0, <2>1 DEF HandInv, ReadingInv, RoundInv
  <2> QED BY <2>3, <2>4 DEF MetricInv
<1> QED BY <1>1, <1>6, <1>7, <1>11, <1>12, <1>13, <1>14 DEF M!Next

LEMMA MetricInvariant == JobsSpec => []MetricInv
BY MetricInit, MetricNext, JobsAreIndependent, PTL DEF M!Spec

\* Collect: the flag "refresh in progress" is on through every round, and the end of
\* one round never switches off that of the next, for any number of rounds.
THEOREM ProgressIsAlwaysShown == JobsSpec => []ProgressIsShown
<1>1. MetricInv => ProgressIsShown
  BY DEF MetricInv, RoundInv, Held, Busy, ProgressIsShown, M!ProgressIsShown
<1> QED BY <1>1, MetricInvariant, PTL

\* write and writeFailure: what is published as fresh is a reading that no snapshot
\* held and no job had copied, for any number of rounds and single refreshes.
THEOREM FreshMeansRead == JobsSpec => FreshIsRead
<1>1. ASSUME MetricInv, [M!Next]_(M!vars)
      PROVE  [\A m \in Metrics :
               snapshot'[m] # snapshot[m] /\ snapshot'[m].status = "fresh"
                 => snapshot'[m].value # 0 /\ \A j \in M!Jobs :
                      task[j].previous[m].value # snapshot'[m].value]_(M!vars)
  <2> SUFFICES ASSUME NEW m \in Metrics,
                      snapshot'[m] # snapshot[m], snapshot'[m].status = "fresh"
               PROVE  snapshot'[m].value # 0 /\ \A j \in M!Jobs :
                        task[j].previous[m].value # snapshot'[m].value
    OBVIOUS
  <2>1. PICK j \in M!Jobs : M!JobStep(j)
    BY <1>1 DEF M!Next, M!vars, M!Lock, M!Unlock, M!OperationBegins, M!OperationEnds,
                M!SingleBegins, M!LoopBegins, M!WindowEnds, M!StopBegins, M!StopReturns
  <2>2. Works(j)
    BY <1>1, <2>1, JobsWork DEF MetricInv
  <2>3. Publishes(j)
    BY <2>2 DEF Works, Carries, Reads, Old
  <2>4. PICK n \in Metrics :
          snapshot' = [snapshot EXCEPT ![n] = [value |-> task[j].got, status |-> "fresh"]]
    BY <2>3 DEF Publishes
  <2>5. snapshot \in [Metrics -> M!Snapshots]
    BY <1>1 DEF MetricInv, M!TypeOK
  <2>6. snapshot'[m].value = task[j].got
    BY <2>4, <2>5
  <2> QED BY <1>1, <2>3, <2>6 DEF MetricInv, ReadingInv, Publishes
<1> QED BY <1>1, MetricInvariant, JobsAreIndependent, PTL DEF M!Spec, FreshIsRead, M!FreshIsRead

-----------------------------------------------------------------------------
(* The reward steps.                                                       *)

Supply ==
  [tasks : SUBSET Tasks, chances : 0 .. Chances, tiers : SUBSET Tiers,
   trip : {"home", "away", "arrived", "spent"}, energy : 0 .. Energy]

\* Credits that the upstream still has to give.
Worth(x) ==
  Cardinality(x.tasks) + x.chances + Cardinality(x.tiers) + IF x.trip = "spent" THEN 0 ELSE 1

\* What was granted and what is left add up to what there was.
RewardInv ==
  /\ R!TypeOK
  /\ granted + Worth(left) = R!MaxCredits
  /\ opened + left.energy = Energy

\* Rewards counts as MCJobs does.
LEMMA SameCount == \A S : R!Cardinality(S) = Cardinality(S)
BY Zenon DEF R!Cardinality, Cardinality, R!IsFiniteSet, IsFiniteSet

LEMMA CreditLimit ==
  /\ R!MaxCredits = Cardinality(Tasks) + Chances + Cardinality(Tiers) + 1
  /\ R!MaxCredits \in Nat
<1>1. R!MaxCredits = Cardinality(Tasks) + Chances + Cardinality(Tiers) + 1
  BY SameCount DEF R!MaxCredits
<1>2. Cardinality(Tasks) \in Nat /\ Cardinality(Tiers) \in Nat /\ Chances \in Nat
  BY JobsAssumption, FS_CardinalityType
<1> QED BY <1>1, <1>2

\* What is left is worth a number, and a task, a draw, a rung or the trip one of it.
LEMMA Worths ==
  ASSUME NEW x \in Supply
  PROVE  /\ Worth(x) \in Nat
         /\ \A t \in x.tasks : /\ [x EXCEPT !.tasks = x.tasks \ {t}] \in Supply
                               /\ Worth([x EXCEPT !.tasks = x.tasks \ {t}]) = Worth(x) - 1
         /\ x.chances > 0 => /\ [x EXCEPT !.chances = x.chances - 1] \in Supply
                             /\ Worth([x EXCEPT !.chances = x.chances - 1]) = Worth(x) - 1
         /\ \A t \in x.tiers : /\ [x EXCEPT !.tiers = x.tiers \ {t}] \in Supply
                               /\ Worth([x EXCEPT !.tiers = x.tiers \ {t}]) = Worth(x) - 1
         /\ x.trip = "arrived" => /\ [x EXCEPT !.trip = "spent"] \in Supply
                                  /\ Worth([x EXCEPT !.trip = "spent"]) = Worth(x) - 1
<1>1. IsFiniteSet(x.tasks) /\ IsFiniteSet(x.tiers)
  BY JobsAssumption, FS_Subset DEF Supply
<1>2. Cardinality(x.tasks) \in Nat /\ Cardinality(x.tiers) \in Nat
  BY <1>1, FS_CardinalityType
<1>3. x.chances \in Nat
  BY JobsAssumption DEF Supply
<1>4. Worth(x) \in Nat
  BY <1>2, <1>3 DEF Worth
<1>5. ASSUME NEW t \in x.tasks
      PROVE  /\ [x EXCEPT !.tasks = x.tasks \ {t}] \in Supply
             /\ Worth([x EXCEPT !.tasks = x.tasks \ {t}]) = Worth(x) - 1
  <2>1. Cardinality(x.tasks \ {t}) = Cardinality(x.tasks) - 1
    BY <1>1, <1>5, FS_RemoveElement
  <2>2. [x EXCEPT !.tasks = x.tasks \ {t}] \in Supply
    BY DEF Supply
  <2> QED BY <1>2, <1>3, <2>1, <2>2 DEF Worth, Supply
<1>6. ASSUME NEW t \in x.tiers
      PROVE  /\ [x EXCEPT !.tiers = x.tiers \ {t}] \in Supply
             /\ Worth([x EXCEPT !.tiers = x.tiers \ {t}]) = Worth(x) - 1
  <2>1. Cardinality(x.tiers \ {t}) = Cardinality(x.tiers) - 1
    BY <1>1, <1>6, FS_RemoveElement
  <2>2. [x EXCEPT !.tiers = x.tiers \ {t}] \in Supply
    BY DEF Supply
  <2> QED BY <1>2, <1>3, <2>1, <2>2 DEF Worth, Supply
<1>7. ASSUME x.chances > 0
      PROVE  /\ [x EXCEPT !.chances = x.chances - 1] \in Supply
             /\ Worth([x EXCEPT !.chances = x.chances - 1]) = Worth(x) - 1
  <2>1. x.chances - 1 \in 0 .. Chances
    BY <1>7, JobsAssumption DEF Supply
  <2>2. [x EXCEPT !.chances = x.chances - 1] \in Supply
    BY <2>1 DEF Supply
  <2> QED BY <1>2, <1>3, <2>2 DEF Worth, Supply
<1>8. ASSUME x.trip = "arrived"
      PROVE  /\ [x EXCEPT !.trip = "spent"] \in Supply
             /\ Worth([x EXCEPT !.trip = "spent"]) = Worth(x) - 1
  BY <1>2, <1>3, <1>8 DEF Worth, Supply
<1> QED BY <1>4, <1>5, <1>6, <1>7, <1>8

\* What a call may take from the upstream is worth one credit.
Payable(more, rest) ==
  more => rest \in Supply /\ Worth(rest) = Worth(left) - 1 /\ rest.energy = left.energy

\* What a call leaves behind: a credit is granted, or none, or the pass counts one for
\* which there was no grant.
Outcome(p, more, rest) ==
  \E x \in R!PassType :
    /\ step' = [step EXCEPT ![p] = x]
    /\ \/ /\ more /\ left' = rest /\ granted' = granted + 1 /\ UNCHANGED unbacked
          /\ x.credits \in {step[p].credits, step[p].credits + 1}
       \/ /\ UNCHANGED <<left, granted, unbacked>>
          /\ x.credits = step[p].credits
       \/ /\ UNCHANGED <<left, granted>>
          /\ unbacked < Replays /\ unbacked' = unbacked + 1
          /\ x.credits = step[p].credits + 1

LEMMA Counting ==
  ASSUME NEW next \in R!PassType, NEW c \in Nat
  PROVE  /\ [next EXCEPT !.credits = @ + c] \in R!PassType
         /\ [next EXCEPT !.credits = @ + c].credits = next.credits + c
BY DEF R!PassType

LEMMA GrantsOutcome ==
  ASSUME NEW p \in Passes, NEW more, NEW rest, NEW next \in R!PassType, NEW lost \in R!PassType,
         next.credits = step[p].credits, lost.credits = step[p].credits,
         R!Grants(p, more, rest, next, lost)
  PROVE  Outcome(p, more, rest)
<1> DEFINE one == [next EXCEPT !.credits = @ + 1]
           none == [next EXCEPT !.credits = @ + 0]
<1>1. one \in R!PassType /\ one.credits = step[p].credits + 1
  BY Counting
<1>2. none \in R!PassType /\ none.credits = step[p].credits
  <2>1. next.credits \in Nat
    BY DEF R!PassType
  <2> QED BY <2>1, Counting
<1>3. \/ /\ more /\ left' = rest /\ granted' = granted + 1 /\ UNCHANGED unbacked
         /\ \/ step' = [step EXCEPT ![p] = one] \/ step' = [step EXCEPT ![p] = none]
            \/ step' = [step EXCEPT ![p] = lost]
      \/ /\ step' = [step EXCEPT ![p] = none] \/ step' = [step EXCEPT ![p] = lost]
         /\ UNCHANGED <<left, granted, unbacked>>
  BY DEF R!Grants, R!Counts
<1> HIDE DEF one, none
<1> QED BY <1>1, <1>2, <1>3 DEF Outcome

LEMMA UnbackedOutcome ==
  ASSUME NEW p \in Passes, NEW more, NEW rest, NEW next \in R!PassType,
         next.credits = step[p].credits, R!CountsUnbacked(p, next)
  PROVE  Outcome(p, more, rest)
<1> DEFINE one == [next EXCEPT !.credits = @ + 1]
<1>1. one \in R!PassType /\ one.credits = step[p].credits + 1
  BY Counting
<1>2. step' = [step EXCEPT ![p] = one]
  BY DEF R!CountsUnbacked, R!Counts
<1> HIDE DEF one
<1> QED BY <1>1, <1>2 DEF Outcome, R!CountsUnbacked

\* The calls that claim a task, a draw, a rung or the trip.
LEMMA CallOutcome ==
  ASSUME RewardInv, NEW p \in Passes,
         \/ R!ClaimTask(p) \/ R!Draw(p) \/ R!Redeem(p)
         \/ R!Travel(p) /\ left.trip = "arrived"
  PROVE  /\ \E more \in BOOLEAN : \E rest : Payable(more, rest) /\ Outcome(p, more, rest)
         /\ UNCHANGED <<opened, logged>>
<1>0. step[p] \in R!PassType /\ left \in Supply
  BY DEF RewardInv, R!TypeOK, Supply
<1>1. CASE R!ClaimTask(p)
  <2>1. PICK t \in step[p].tasks :
          \/ R!Grants(p, t \in left.tasks, [left EXCEPT !.tasks = @ \ {t}],
                      [step[p] EXCEPT !.tasks = @ \ {t}], [step[p] EXCEPT !.tasks = @ \ {t}])
          \/ R!CountsUnbacked(p, [step[p] EXCEPT !.tasks = @ \ {t}])
    BY <1>1 DEF R!ClaimTask
  <2> DEFINE more == t \in left.tasks
             rest == [left EXCEPT !.tasks = left.tasks \ {t}]
             next == [step[p] EXCEPT !.tasks = step[p].tasks \ {t}]
  <2>2. next \in R!PassType /\ next.credits = step[p].credits
    BY <1>0 DEF R!PassType
  <2>3. more \in BOOLEAN
    OBVIOUS
  <2>4. Payable(more, rest)
    <3>1. rest.energy = left.energy
      BY <1>0 DEF Supply
    <3> QED BY <1>0, <3>1, Worths DEF Payable
  <2>5. R!Grants(p, more, rest, next, next) \/ R!CountsUnbacked(p, next)
    BY <2>1
  <2> HIDE DEF more, rest, next
  <2>6. Outcome(p, more, rest)
    BY <2>2, <2>5, GrantsOutcome, UnbackedOutcome
  <2> QED BY <1>1, <2>3, <2>4, <2>6 DEF R!ClaimTask
<1>2. CASE R!Redeem(p)
  <2>1. PICK t \in step[p].tiers :
          R!Grants(p, t \in left.tiers, [left EXCEPT !.tiers = @ \ {t}],
                   [step[p] EXCEPT !.tiers = @ \ {t}], [step[p] EXCEPT !.tiers = @ \ {t}])
    BY <1>2 DEF R!Redeem
  <2> DEFINE more == t \in left.tiers
             rest == [left EXCEPT !.tiers = left.tiers \ {t}]
             next == [step[p] EXCEPT !.tiers = step[p].tiers \ {t}]
  <2>2. next \in R!PassType /\ next.credits = step[p].credits
    BY <1>0 DEF R!PassType
  <2>3. more \in BOOLEAN
    OBVIOUS
  <2>4. Payable(more, rest)
    <3>1. rest.energy = left.energy
      BY <1>0 DEF Supply
    <3> QED BY <1>0, <3>1, Worths DEF Payable
  <2>5. R!Grants(p, more, rest, next, next)
    BY <2>1
  <2> HIDE DEF more, rest, next
  <2>6. Outcome(p, more, rest)
    BY <2>2, <2>5, GrantsOutcome
  <2> QED BY <1>2, <2>3, <2>4, <2>6 DEF R!Redeem
<1>3. CASE R!Draw(p)
  <2> DEFINE more == left.chances > 0
             rest == [left EXCEPT !.chances = left.chances - 1]
             next == [step[p] EXCEPT !.drawn = step[p].drawn + 1]
             lost == [step[p] EXCEPT !.at = "travel"]
  <2>1. step[p].drawn + 1 \in 0 .. MaxDraws
    BY <1>0, <1>3, JobsAssumption DEF R!Draw, R!Least, R!PassType
  <2>2. /\ next \in R!PassType /\ next.credits = step[p].credits
        /\ lost \in R!PassType /\ lost.credits = step[p].credits
    BY <1>0, <2>1 DEF R!PassType
  <2>3. more \in BOOLEAN
    OBVIOUS
  <2>4. Payable(more, rest)
    <3>1. rest.energy = left.energy
      BY <1>0 DEF Supply
    <3> QED BY <1>0, <3>1, Worths DEF Payable
  <2>5. R!Grants(p, more, rest, next, lost) \/ R!CountsUnbacked(p, next)
    BY <1>3 DEF R!Draw
  <2> HIDE DEF more, rest, next, lost
  <2>6. Outcome(p, more, rest)
    BY <2>2, <2>5, GrantsOutcome, UnbackedOutcome
  <2> QED BY <1>3, <2>3, <2>4, <2>6 DEF R!Draw
<1>4. CASE R!Travel(p) /\ left.trip = "arrived"
  <2> DEFINE rest == [left EXCEPT !.trip = "spent"]
             next == [step[p] EXCEPT !.at = "redeem"]
  <2>2. next \in R!PassType /\ next.credits = step[p].credits
    BY <1>0 DEF R!PassType
  <2>4. Payable(TRUE, rest)
    <3>1. rest.energy = left.energy
      BY <1>0 DEF Supply
    <3> QED BY <1>0, <1>4, <3>1, Worths DEF Payable
  <2>5. R!Grants(p, TRUE, rest, next, next)
    BY <1>4 DEF R!Travel
  <2> HIDE DEF rest, next
  <2>6. Outcome(p, TRUE, rest)
    BY <2>2, <2>5, GrantsOutcome
  <2> QED BY <1>4, <2>4, <2>6 DEF R!Travel
<1> QED BY <1>1, <1>2, <1>3, <1>4

LEMMA CallKeeps ==
  ASSUME RewardInv, NEW p \in Passes, NEW more \in BOOLEAN, NEW rest,
         Payable(more, rest), Outcome(p, more, rest), UNCHANGED <<opened, logged>>
  PROVE  RewardInv'
<1>0. /\ left \in Supply /\ granted \in Nat /\ unbacked \in 0 .. Replays
      /\ R!MaxCredits \in Nat /\ granted + Worth(left) = R!MaxCredits
      /\ opened + left.energy = Energy
  BY CreditLimit DEF RewardInv, R!TypeOK, Supply
<1>1. step' \in [Passes -> R!PassType]
  BY DEF Outcome, RewardInv, R!TypeOK
<1>2. unbacked' \in 0 .. Replays
  BY <1>0, JobsAssumption DEF Outcome
<1>3. CASE more /\ left' = rest /\ granted' = granted + 1
  <2>1. Worth(left) \in Nat
    BY <1>0, Worths
  <2>2. left' \in Supply /\ Worth(left') = Worth(left) - 1 /\ left'.energy = left.energy
    BY <1>3 DEF Payable
  <2>3. Worth(left') \in Nat
    BY <2>2, Worths
  <2>4. granted' + Worth(left') = R!MaxCredits /\ granted' \in 0 .. R!MaxCredits
    BY <1>0, <1>3, <2>1, <2>2, <2>3
  <2>5. opened + left'.energy = Energy
    BY <1>0, <2>2
  <2>6. R!TypeOK'
    BY <1>1, <1>2, <2>2, <2>4 DEF RewardInv, R!TypeOK, Supply, R!MaxCredits
  <2> QED BY <2>4, <2>5, <2>6 DEF RewardInv, R!MaxCredits
<1>4. CASE UNCHANGED <<left, granted>>
  <2>1. R!TypeOK'
    BY <1>1, <1>2, <1>4 DEF RewardInv, R!TypeOK
  <2> QED BY <1>4, <2>1 DEF RewardInv, R!MaxCredits, Worth
<1> QED BY <1>3, <1>4 DEF Outcome

\* At first nothing is granted and everything is left.
LEMMA RewardInit == R!Init => RewardInv
<1> SUFFICES ASSUME R!Init PROVE RewardInv
  OBVIOUS
<1>1. /\ left = [tasks |-> Tasks, chances |-> Chances, tiers |-> Tiers,
                 trip |-> "home", energy |-> Energy]
      /\ granted = 0 /\ unbacked = 0 /\ opened = 0 /\ logged = [credits |-> 0, opened |-> 0]
  BY DEF R!Init
<1>2. R!NewPass \in R!PassType /\ R!NewPass.credits = 0
  BY JobsAssumption, CreditLimit DEF R!NewPass, R!PassType
<1>3. step \in [Passes -> R!PassType] /\ \A p \in Passes : step[p].credits = 0
  BY <1>2 DEF R!Init
<1>4. granted + Worth(left) = R!MaxCredits
  <2>1. Cardinality(Tasks) \in Nat /\ Cardinality(Tiers) \in Nat /\ Chances \in Nat
    BY JobsAssumption, FS_CardinalityType
  <2>2. Worth(left) = Cardinality(Tasks) + Chances + Cardinality(Tiers) + 1
    BY <1>1, <2>1 DEF Worth
  <2> QED BY <1>1, <2>1, <2>2, CreditLimit
<1>5. left \in Supply
  BY <1>1, JobsAssumption DEF Supply
<1>6. R!TypeOK
  BY <1>1, <1>3, <1>5, JobsAssumption, CreditLimit DEF R!TypeOK, Supply
<1> QED BY <1>1, <1>3, <1>4, <1>6, JobsAssumption DEF RewardInv

LEMMA NewPassType == R!NewPass \in R!PassType /\ R!NewPass.credits = 0
BY JobsAssumption, CreditLimit DEF R!NewPass, R!PassType

\* A step that grants nothing and leaves what the passes count as it is, or drops it.
Modest ==
  /\ step' \in [Passes -> R!PassType]
  /\ \A o \in Passes : step'[o].credits \in {0, step[o].credits}

LEMMA ModestKeeps ==
  ASSUME RewardInv, Modest, UNCHANGED <<left, granted, unbacked, opened>>,
         logged' \in [credits : Nat, opened : Nat]
  PROVE  RewardInv'
<1>1. R!TypeOK'
  BY DEF RewardInv, R!TypeOK, Modest
<1> QED BY <1>1 DEF RewardInv, Worth, R!MaxCredits

\* The steps of a pass that ask the upstream for nothing to count.
LEMMA QuietSteps ==
  ASSUME RewardInv, NEW p \in Passes,
         \/ R!Begin(p) \/ R!TasksDone(p) \/ R!LotteryDone(p)
         \/ R!ReadLadder(p) \/ R!LadderDone(p) \/ R!ReadQuota(p)
         \/ R!Record(p) \/ R!CutOff(p)
  PROVE  RewardInv'
<1>0. /\ step \in [Passes -> R!PassType] /\ left \in Supply
      /\ logged \in [credits : Nat, opened : Nat]
  BY DEF RewardInv, R!TypeOK, Supply
<1>1. CASE R!Begin(p)
  <2>1. [R!NewPass EXCEPT !.at = "tasks", !.tasks = left.tasks, !.chances = left.chances]
          \in R!PassType
    BY <1>0, NewPassType DEF R!PassType, Supply
  <2>2. [R!NewPass EXCEPT !.at = "tasks", !.tasks = left.tasks, !.chances = left.chances].credits = 0
    BY NewPassType DEF R!PassType
  <2>3. Modest
    BY <1>0, <1>1, <2>1, <2>2 DEF R!Begin, Modest
  <2> QED BY <1>0, <1>1, <2>3, ModestKeeps DEF R!Begin
<1>2. CASE R!TasksDone(p) \/ R!LotteryDone(p)
  <2>1. Modest
    BY <1>0, <1>2 DEF R!TasksDone, R!LotteryDone, R!Goto, R!PassType, Modest
  <2> QED BY <1>0, <1>2, <2>1, ModestKeeps DEF R!TasksDone, R!LotteryDone
<1>3. CASE R!ReadLadder(p) \/ R!LadderDone(p)
  <2>1. Modest
    BY <1>0, <1>3 DEF R!ReadLadder, R!LadderDone, R!Goto, R!PassType, Modest, Supply
  <2> QED BY <1>0, <1>3, <2>1, ModestKeeps DEF R!ReadLadder, R!LadderDone
<1>4. CASE R!ReadQuota(p)
  <2>1. Modest
    BY <1>0, <1>4 DEF R!ReadQuota, R!Goto, R!PassType, Modest, Supply
  <2> QED BY <1>0, <1>4, <2>1, ModestKeeps DEF R!ReadQuota
<1>5. CASE R!Record(p) \/ R!CutOff(p)
  <2>1. Modest
    BY <1>0, <1>5, NewPassType DEF R!Record, R!CutOff, Modest
  <2>2. /\ step[p].credits \in Nat /\ step[p].opened \in Nat
        /\ logged.credits \in Nat /\ logged.opened \in Nat
    BY <1>0, CreditLimit, JobsAssumption DEF R!PassType
  <2>3. logged' \in [credits : Nat, opened : Nat]
    BY <1>0, <1>5, <2>2 DEF R!Record, R!CutOff
  <2> QED BY <1>5, <2>1, <2>3, ModestKeeps DEF R!Record, R!CutOff
<1> QED BY <1>1, <1>2, <1>3, <1>4, <1>5

\* A trip departs or arrives.
LEMMA TripSteps ==
  ASSUME RewardInv,
         R!TripArrives \/ \E p \in Passes : R!Travel(p) /\ left.trip # "arrived"
  PROVE  RewardInv'
<1>0. /\ step \in [Passes -> R!PassType] /\ left \in Supply
      /\ logged \in [credits : Nat, opened : Nat]
  BY DEF RewardInv, R!TypeOK, Supply
<1>m. ASSUME NEW x \in {"away", "arrived"}, left.trip # "spent",
             left' = [left EXCEPT !.trip = x] \/ left' = left
      PROVE  left' \in Supply /\ Worth(left') = Worth(left) /\ left'.energy = left.energy
  BY <1>0, <1>m DEF Supply, Worth
<1>k. ASSUME left' \in Supply, Worth(left') = Worth(left), left'.energy = left.energy,
             Modest, UNCHANGED <<granted, unbacked, opened, logged>>
      PROVE  RewardInv'
  <2>1. R!TypeOK'
    BY <1>k DEF RewardInv, R!TypeOK, Modest, Supply
  <2> QED BY <1>k, <2>1 DEF RewardInv, R!MaxCredits
<1>1. CASE R!TripArrives
  <2>1. Modest
    BY <1>0, <1>1 DEF R!TripArrives, Modest
  <2>2. left.trip # "spent" /\ left' = [left EXCEPT !.trip = "arrived"]
    BY <1>1 DEF R!TripArrives
  <2>3. left' \in Supply /\ Worth(left') = Worth(left) /\ left'.energy = left.energy
    BY <1>m, <2>2
  <2> QED BY <1>1, <1>k, <2>1, <2>3 DEF R!TripArrives
<1>2. ASSUME NEW p \in Passes, R!Travel(p), left.trip # "arrived" PROVE RewardInv'
  <2>1. R!Goto(p, "redeem") /\ UNCHANGED <<granted, unbacked, opened, logged>>
    BY <1>2 DEF R!Travel
  <2>2. Modest
    BY <1>0, <2>1 DEF R!Goto, R!PassType, Modest
  <2>3. (left.trip = "home" /\ left' = [left EXCEPT !.trip = "away"]) \/ left' = left
    BY <1>2 DEF R!Travel
  <2>4. left' \in Supply /\ Worth(left') = Worth(left) /\ left'.energy = left.energy
    BY <1>0, <1>m, <2>3
  <2> QED BY <1>k, <2>1, <2>2, <2>4
<1> QED BY <1>1, <1>2

\* Buddies are opened for energy that is there.
LEMMA BuddySteps ==
  ASSUME RewardInv, NEW p \in Passes, R!OpenBuddies(p)
  PROVE  RewardInv'
<1>0. /\ step \in [Passes -> R!PassType] /\ left \in Supply /\ opened \in Nat
      /\ logged \in [credits : Nat, opened : Nat]
  BY JobsAssumption DEF RewardInv, R!TypeOK, Supply
<1>1. Modest
  BY <1>0 DEF R!OpenBuddies, R!Goto, R!PassType, Modest
<1>2. UNCHANGED <<granted, unbacked, logged>>
  BY DEF R!OpenBuddies
<1>3. CASE UNCHANGED <<left, opened>>
  BY <1>0, <1>1, <1>2, <1>3, ModestKeeps
<1>4. ASSUME ~ UNCHANGED <<left, opened>> PROVE RewardInv'
  <2> DEFINE n == R!Least(step[p].affordable, MaxOpen)
  <2>1. n <= left.energy /\ opened' = opened + n /\ left' = [left EXCEPT !.energy = left.energy - n]
    BY <1>4 DEF R!OpenBuddies
  <2>2. n \in Nat
    BY <1>0, JobsAssumption DEF R!Least, R!PassType
  <2> HIDE DEF n
  <2>3. left.energy - n \in 0 .. Energy /\ left.energy \in Nat
    BY <1>0, <2>1, <2>2, JobsAssumption DEF Supply
  <2>4. /\ left' \in Supply /\ left'.energy = left.energy - n
        /\ left'.tasks = left.tasks /\ left'.chances = left.chances
        /\ left'.tiers = left.tiers /\ left'.trip = left.trip
    BY <1>0, <2>1, <2>3 DEF Supply
  <2>5. Worth(left') = Worth(left)
    BY <2>4 DEF Worth
  <2>6. opened' + left'.energy = Energy
    BY <1>0, <2>1, <2>2, <2>3, <2>4 DEF RewardInv
  <2>7. opened' \in 0 .. Energy
    BY <1>0, <2>1, <2>2, <2>3, <2>4, <2>6, JobsAssumption
  <2>8. R!TypeOK'
    BY <1>1, <1>2, <2>4, <2>7 DEF RewardInv, R!TypeOK, Modest, Supply
  <2> QED BY <1>2, <2>5, <2>6, <2>8 DEF RewardInv, R!MaxCredits
<1> QED BY <1>3, <1>4

LEMMA RewardNext == RewardInv /\ [R!Next]_(R!vars) => RewardInv'
<1> SUFFICES ASSUME RewardInv, [R!Next]_(R!vars) PROVE RewardInv'
  OBVIOUS
<1>1. CASE UNCHANGED R!vars
  <2>1. /\ step \in [Passes -> R!PassType] /\ logged \in [credits : Nat, opened : Nat]
    BY DEF RewardInv, R!TypeOK
  <2>2. Modest /\ UNCHANGED <<left, granted, unbacked, opened, logged>>
    BY <1>1, <2>1 DEF R!vars, Modest
  <2> QED BY <2>1, <2>2, ModestKeeps
<1>2. CASE R!TripArrives
  BY <1>2, TripSteps
<1>3. ASSUME NEW p \in Passes, R!PassStep(p) PROVE RewardInv'
  BY <1>3, QuietSteps, CallOutcome, CallKeeps, TripSteps, BuddySteps DEF R!PassStep
<1> QED BY <1>1, <1>2, <1>3 DEF R!Next

LEMMA RewardInvariant == JobsSpec => []RewardInv
<1>1. R!Init => RewardInv
  BY RewardInit
<1>2. RewardInv /\ [R!Next]_(R!vars) => RewardInv'
  BY RewardNext
<1> QED BY <1>1, <1>2, JobsAreIndependent, PTL DEF R!Spec

-----------------------------------------------------------------------------
(* The credits that passes count.                                          *)

Credits == [p \in Passes |-> step[p].credits]

CreditsInv == logged.credits + Sum(Credits, Passes) <= granted + unbacked

\* Rewards sums with its own MapThenSumSet.
LEMMA CountedIs ==
  ASSUME NEW s, NEW w, w = [p \in Passes |-> s[p].credits]
  PROVE  R!MapThenSumSet(LAMBDA p : s[p].credits, Passes) = Sum(w, Passes)
<1> DEFINE P(f) == f = [t \in SUBSET Passes |-> IF t = {} THEN 0
                      ELSE s[CHOOSE x \in t : TRUE].credits + f[t \ {CHOOSE x \in t : TRUE}]]
           h == CHOOSE f : P(f)
<1>1. PICK g : Sums(g, Passes, w)
  BY JobsAssumption, SumsExist
<1>2. \A x \in Passes : w[x] = s[x].credits
  OBVIOUS
<1>3. P(g)
  BY <1>1, <1>2 DEF Sums, Pick
<1>4. P(h)
  BY <1>3
<1>5. Sums(h, Passes, w)
  BY <1>2, <1>4 DEF Sums, Pick
<1>6. R!MapThenSumSet(LAMBDA p : s[p].credits, Passes) = h[Passes]
  BY DEF R!MapThenSumSet, R!MapThenFoldSet
<1> HIDE DEF h
<1> QED BY <1>5, <1>6, JobsAssumption, SumIs

\* What a step of a pass does to the credits: one more is granted and the pass
\* counts it or not, the pass counts one for which there was no grant, it records what
\* it counted, or it drops what it counted.
Tallies(p) ==
  /\ \A o \in Passes \ {p} : step'[o].credits = step[o].credits
  /\ \/ /\ granted' = granted + 1 /\ unbacked' = unbacked /\ logged'.credits = logged.credits
        /\ step'[p].credits \in {step[p].credits, step[p].credits + 1}
     \/ /\ granted' = granted /\ unbacked' = unbacked + 1 /\ logged'.credits = logged.credits
        /\ step'[p].credits = step[p].credits + 1
     \/ /\ granted' = granted /\ unbacked' = unbacked /\ step'[p].credits = 0
        /\ logged'.credits \in {logged.credits, logged.credits + step[p].credits}
     \/ /\ granted' = granted /\ unbacked' = unbacked /\ step'[p].credits = step[p].credits
        /\ logged'.credits = logged.credits

LEMMA TalliesKeep ==
  ASSUME RewardInv, RewardInv', CreditsInv, NEW p \in Passes, Tallies(p)
  PROVE  CreditsInv'
<1>0. /\ step \in [Passes -> R!PassType] /\ step' \in [Passes -> R!PassType]
      /\ logged.credits \in Int /\ granted \in Int /\ unbacked \in Int
      /\ logged'.credits \in Int
  BY CreditLimit DEF RewardInv, R!TypeOK
<1>1. /\ Sum(Credits', Passes) = Sum(Credits, Passes) - step[p].credits + step'[p].credits
      /\ Sum(Credits, Passes) \in Int
      /\ step[p].credits \in Nat /\ step'[p].credits \in Nat
  <2>1. \A o \in Passes : Credits'[o] = step'[o].credits /\ Credits[o] = step[o].credits
    BY DEF Credits
  <2>2. \A o \in Passes : step[o].credits \in Nat /\ step'[o].credits \in Nat
    BY <1>0, CreditLimit DEF R!PassType
  <2>3. \A o \in Passes : Credits'[o] \in Int /\ Credits[o] \in Int
                         /\ (o # p => Credits'[o] = Credits[o])
    BY <2>1, <2>2 DEF Tallies
  <2>4. IsFiniteSet(Passes)
    BY JobsAssumption
  <2>5. Sum(Credits', Passes) = Sum(Credits, Passes) - Credits[p] + Credits'[p]
    BY <2>3, <2>4, SumChange
  <2>6. Sum(Credits, Passes) \in Int
    BY <2>3, <2>4, SumType
  <2> QED BY <2>1, <2>2, <2>5, <2>6
<1>2. logged.credits + Sum(Credits, Passes) <= granted + unbacked
  BY DEF CreditsInv
<1>3. logged'.credits + Sum(Credits', Passes) <= granted' + unbacked'
  BY <1>0, <1>1, <1>2 DEF Tallies
<1> QED BY <1>3 DEF CreditsInv

LEMMA StepTallies ==
  ASSUME RewardInv, NEW p \in Passes, R!PassStep(p)
  PROVE  Tallies(p)
<1>0. /\ step \in [Passes -> R!PassType] /\ step[p] \in R!PassType
  BY DEF RewardInv, R!TypeOK
<1>1. CASE R!Begin(p) \/ R!Record(p) \/ R!CutOff(p)
  <2> DEFINE new == [R!NewPass EXCEPT !.at = "tasks", !.tasks = left.tasks,
                                     !.chances = left.chances]
  <2>1. R!NewPass.credits = 0 /\ new.credits = 0
    BY NewPassType DEF R!PassType
  <2>2. step' = [step EXCEPT ![p] = new] \/ step' = [step EXCEPT ![p] = R!NewPass]
    BY <1>1 DEF R!Begin, R!Record, R!CutOff
  <2> HIDE DEF new
  <2>3. step'[p].credits = 0 /\ \A o \in Passes \ {p} : step'[o].credits = step[o].credits
    BY <1>0, <2>1, <2>2
  <2>4. UNCHANGED <<granted, unbacked>>
    BY <1>1 DEF R!Begin, R!Record, R!CutOff
  <2>5. logged'.credits \in {logged.credits, logged.credits + step[p].credits}
    BY <1>1 DEF R!Begin, R!Record, R!CutOff
  <2> QED BY <2>3, <2>4, <2>5 DEF Tallies
<1>2. CASE \/ R!TasksDone(p) \/ R!LotteryDone(p) \/ R!ReadLadder(p)
           \/ R!LadderDone(p) \/ R!ReadQuota(p) \/ R!OpenBuddies(p)
           \/ R!Travel(p) /\ left.trip # "arrived"
  <2>1. \A o \in Passes : step'[o].credits = step[o].credits
    <3>1. CASE R!OpenBuddies(p)
      BY <1>0, <3>1 DEF R!OpenBuddies, R!Goto, R!PassType
    <3>2. CASE R!Travel(p) /\ left.trip # "arrived"
      <4>1. R!Goto(p, "redeem")
        BY <3>2 DEF R!Travel
      <4> QED BY <1>0, <4>1 DEF R!Goto, R!PassType
    <3>3. CASE \/ R!TasksDone(p) \/ R!LotteryDone(p) \/ R!ReadLadder(p)
               \/ R!LadderDone(p) \/ R!ReadQuota(p)
      BY <1>0, <3>3 DEF R!TasksDone, R!LotteryDone, R!ReadLadder, R!LadderDone, R!ReadQuota,
                        R!Goto, R!PassType
    <3> QED BY <1>2, <3>1, <3>2, <3>3
  <2>2. UNCHANGED <<granted, unbacked, logged>>
    BY <1>2 DEF R!TasksDone, R!LotteryDone, R!ReadLadder, R!LadderDone, R!ReadQuota,
                R!OpenBuddies, R!Travel
  <2> QED BY <2>1, <2>2 DEF Tallies
<1>3. CASE \/ R!ClaimTask(p) \/ R!Draw(p) \/ R!Redeem(p)
           \/ R!Travel(p) /\ left.trip = "arrived"
  <2>1. PICK more, rest : more \in BOOLEAN /\ Outcome(p, more, rest)
    BY <1>3, CallOutcome
  <2>2. UNCHANGED logged
    BY <1>3, CallOutcome
  <2>3. PICK x \in R!PassType :
          /\ step' = [step EXCEPT ![p] = x]
          /\ \/ /\ granted' = granted + 1 /\ unbacked' = unbacked
                /\ x.credits \in {step[p].credits, step[p].credits + 1}
             \/ /\ granted' = granted /\ unbacked' = unbacked /\ x.credits = step[p].credits
             \/ /\ granted' = granted /\ unbacked' = unbacked + 1
                /\ x.credits = step[p].credits + 1
    BY <2>1 DEF Outcome
  <2>4. step'[p] = x /\ \A o \in Passes \ {p} : step'[o].credits = step[o].credits
    BY <1>0, <2>3
  <2> QED BY <2>2, <2>3, <2>4 DEF Tallies
<1> QED BY <1>1, <1>2, <1>3 DEF R!PassStep

\* The passes have logged and count no more credits than the upstream granted and its
\* answers named without a grant: a lost answer, a stale overview or a pass cut off
\* makes them count fewer, never more.
THEOREM CreditsAreGranted == JobsSpec => []CreditsWereGranted
<1>1. R!Init => CreditsInv
  <2> SUFFICES ASSUME R!Init PROVE CreditsInv
    OBVIOUS
  <2>1. \A p \in Passes : Credits[p] = 0
    BY NewPassType DEF R!Init, Credits
  <2>2. IsFiniteSet(Passes)
    BY JobsAssumption
  <2>3. Sum(Credits, Passes) = 0
    <3> DEFINE w == Credits
    <3>1. \A p \in Passes : w[p] = 0
      BY <2>1
    <3> HIDE DEF w
    <3>2. Sum(w, Passes) = 0
      BY <2>2, <3>1, SumZero
    <3> QED BY <3>2 DEF w
  <2>4. granted = 0 /\ unbacked = 0 /\ logged.credits = 0
    BY DEF R!Init
  <2> QED BY <2>3, <2>4 DEF CreditsInv
<1>2. RewardInv /\ RewardInv' /\ CreditsInv /\ [R!Next]_(R!vars) => CreditsInv'
  <2> SUFFICES ASSUME RewardInv, RewardInv', CreditsInv, [R!Next]_(R!vars) PROVE CreditsInv'
    OBVIOUS
  <2>1. CASE UNCHANGED <<step, granted, unbacked, logged>>
    BY <2>1 DEF CreditsInv, Credits
  <2>2. ASSUME NEW p \in Passes, R!PassStep(p) PROVE CreditsInv'
    BY <2>2, StepTallies, TalliesKeep
  <2> QED BY <2>1, <2>2 DEF R!Next, R!TripArrives, R!vars
<1>3. CreditsInv => CreditsWereGranted
  <2>1. R!Counted = Sum(Credits, Passes)
    <3> DEFINE w == Credits
    <3>1. w = [p \in Passes |-> step[p].credits]
      BY DEF Credits
    <3> HIDE DEF w
    <3>2. R!MapThenSumSet(LAMBDA p : step[p].credits, Passes) = Sum(w, Passes)
      BY <3>1, CountedIs
    <3> QED BY <3>2 DEF R!Counted, w
  <2> QED BY <2>1 DEF CreditsInv, CreditsWereGranted, R!CreditsWereGranted
<1> QED BY <1>1, <1>2, <1>3, RewardInvariant, JobsAreIndependent, PTL DEF R!Spec

-----------------------------------------------------------------------------
(* Types of the composition.                                               *)

JobNamed == job \in {"checkin", "activeday", "rewards", "metrics"}

\* Rows, places and counters of all jobs keep their types; the credits of a pass
\* stay within what the upstream had to give.
THEOREM TypesCorrect == JobsSpec => []TypesOK
<1>1. JobsSpec => []TypeOK
  BY TypeCorrect, JobsAreIndependent, PTL
<1>2. JobsSpec => []JobNamed
  <2>1. JobsInit => JobNamed
    BY DEF JobsInit, JobNamed
  <2>2. JobNamed /\ [JobsNext]_jobsVars => JobNamed'
    BY DEF JobsNext, jobsVars, JobNamed
  <2> QED BY <2>1, <2>2, PTL DEF JobsSpec
<1>3. TypeOK /\ D!TypeOK /\ RewardInv /\ MetricInv /\ JobNamed => TypesOK
  BY DEF RewardInv, MetricInv, TypesOK, JobNamed
<1> QED BY <1>1, <1>2, <1>3, DayInvariant, RewardInvariant, MetricInvariant, PTL
=============================================================================
