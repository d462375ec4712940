---------------------------- MODULE CheckinProofs ----------------------------
(***************************************************************************)
(* Theorems about Checkin, for any number of accounts, runs, scheduler      *)
(* goroutines, days and changes.                                           *)
(*                                                                         *)
(* What the properties rest on is the slot of claimRun: one batch at a time *)
(* means that nobody else writes a marker between a batch's look at it and  *)
(* its call, and that a row that says "running" can be told from the batch  *)
(* that holds the slot.                                                    *)
(***************************************************************************)
EXTENDS Checkin, TLAPS

Places == {"free", "create", "resolve", "next", "call", "look", "mirror",
           "persist", "mark", "finish", "release", "gone"}
RunType ==
  [pc : Places, manual : BOOLEAN, todo : SUBSET Accounts, account : Accounts \cup {None},
   result : {"none", "ok", "reauth", "error"}, tries : 0 .. RetryLimit,
   seen : BOOLEAN, expired : BOOLEAN, blind : BOOLEAN, unclosed : BOOLEAN]

\* A batch that works on an account knows it.
Working(x) == x.pc \in {"call", "look", "mirror", "persist", "mark"}
AccountInv == \A r \in Runs : Working(run[r]) => run[r].account \in Accounts

TypeInv == TypeOK /\ AccountInv

-----------------------------------------------------------------------------
(* Types.                                                                  *)

LEMMA RunTypes == TypeOK => run \in [Runs -> RunType]
BY DEF TypeOK, RunType, Places

LEMMA IdleType == Sensible => Idle \in RunType
BY DEF Sensible, Idle, RunType, Places

LEMMA TypeInit == Sensible /\ Init => TypeInv
<1> SUFFICES ASSUME Sensible, Init PROVE TypeInv
  OBVIOUS
<1>1. FirstLoop \in Loops
  BY DEF Sensible, FirstLoop
<1>2. run \in [Runs -> RunType]
  BY IdleType DEF Init
<1>3. AccountInv
  BY DEF Init, AccountInv, Working, Idle
<1> QED
  BY <1>1, <1>2, <1>3 DEF Init, TypeInv, TypeOK, RunType, Places, Sensible
\* Changing fields of a batch within their ranges keeps its type.
LEMMA Moved ==
  ASSUME NEW x \in RunType, NEW p \in Places PROVE [x EXCEPT !.pc = p] \in RunType
BY DEF RunType

LEMMA Gone ==
  ASSUME Sensible, NEW e \in BOOLEAN
  PROVE  [Idle EXCEPT !.pc = "gone", !.unclosed = e] \in RunType
BY IdleType DEF RunType, Places

\* The three ways to write a batch.
LEMMA GotoSets ==
  ASSUME run \in [Runs -> RunType], NEW r \in Runs, NEW p, Goto(r, p)
  PROVE  /\ run'[r].pc = p
         /\ run'[r].result = run[r].result /\ run'[r].account = run[r].account
         /\ run'[r].manual = run[r].manual /\ run'[r].expired = run[r].expired
         /\ run'[r].blind = run[r].blind /\ run'[r].unclosed = run[r].unclosed
BY DEF Goto, RunType

LEMMA AnsweredSets ==
  ASSUME run \in [Runs -> RunType], NEW r \in Runs, NEW p, NEW q, Answered(r, p, q)
  PROVE  run'[r].pc = p /\ run'[r].result = q /\ run'[r].account = run[r].account
BY DEF Answered, RunType

LEMMA BetweenSets ==
  ASSUME run \in [Runs -> RunType], NEW r \in Runs, NEW p, Between(r, p)
  PROVE  run'[r].pc = p /\ run'[r].expired = run[r].expired
<1>1. run'[r] = [Idle EXCEPT !.pc = p, !.manual = run[r].manual,
                            !.todo = run[r].todo, !.expired = run[r].expired]
  BY DEF Between
<1> QED BY <1>1 DEF Idle

LEMMA DoneSets ==
  ASSUME run \in [Runs -> RunType], NEW r \in Runs, Done(r)
  PROVE  run'[r].pc = "gone" /\ run'[r].unclosed = run[r].unclosed
<1>1. run'[r] = [Idle EXCEPT !.pc = "gone", !.unclosed = run[r].unclosed]
  BY DEF Done
<1> QED BY <1>1 DEF Idle

LEMMA FinishSets ==
  ASSUME run \in [Runs -> RunType], NEW r \in Runs, RunFinishes(r)
  PROVE  /\ run'[r].pc = "release"
         /\ row' = [row EXCEPT ![r] = "finished"] \/ (row' = row /\ run'[r].unclosed)
BY DEF RunFinishes, Closes, Goto, RunType

\* What a step makes of its batch.
Fits(x) == x \in RunType /\ (Working(x) => x.account \in Accounts)

LEMMA RunShape ==
  ASSUME Sensible, TypeInv, NEW r \in Runs, RunStep(r) \/ RunExpires(r)
  PROVE  \E x : Fits(x) /\ run' = [run EXCEPT ![r] = x]
<1> DEFINE b == run[r]
<1>1. b \in RunType /\ (Working(b) => b.account \in Accounts)
  BY RunTypes DEF TypeInv, AccountInv
<1>2. /\ b.manual \in BOOLEAN /\ b.todo \in SUBSET Accounts /\ b.expired \in BOOLEAN
      /\ b.tries \in 0 .. RetryLimit /\ b.unclosed \in BOOLEAN
  BY <1>1 DEF RunType
<1>3. ASSUME NEW p \in Places, Goto(r, p), Working(b) \/ p \notin {"call", "look", "mirror", "persist", "mark"}
      PROVE  \E x : Fits(x) /\ run' = [run EXCEPT ![r] = x]
  <2>1. Fits([b EXCEPT !.pc = p])
    BY <1>1, <1>3, Moved DEF Fits, Working, RunType
  <2> QED BY <1>3, <2>1 DEF Goto
<1>4. ASSUME Between(r, "next") PROVE \E x : Fits(x) /\ run' = [run EXCEPT ![r] = x]
  <2>1. "next" \in Places
    BY DEF Places
  <2>2. [Idle EXCEPT !.pc = "next", !.manual = b.manual, !.todo = b.todo, !.expired = b.expired]
          \in RunType
    BY <1>2, <2>1, IdleType DEF RunType
  <2>3. [Idle EXCEPT !.pc = "next", !.manual = b.manual, !.todo = b.todo, !.expired = b.expired].pc
          = "next"
    BY DEF Idle
  <2>4. \A x \in RunType : x.pc = "next" => Fits(x)
    BY DEF Fits, Working
  <2> QED BY <1>4, <2>2, <2>3, <2>4 DEF Between
<1>5. ASSUME Done(r) PROVE \E x : Fits(x) /\ run' = [run EXCEPT ![r] = x]
  <2>1. Fits([Idle EXCEPT !.pc = "gone", !.unclosed = b.unclosed])
    BY <1>2, Gone DEF Fits, Working, Idle
  <2> QED BY <1>5, <2>1 DEF Done
<1>6. CASE \/ RunCreates(r) \/ RunStops(r)
  BY <1>3, <1>6 DEF RunCreates, RunStops, Places
<1>17. CASE RunFinishes(r)
  <2>1. Fits([b EXCEPT !.pc = "release", !.unclosed = TRUE])
    BY <1>1 DEF Fits, Working, RunType, Places
  <2>2. CASE Closes(r)
    BY <1>3, <2>2 DEF Closes, Places
  <2>3. CASE run' = [run EXCEPT ![r].pc = "release", ![r].unclosed = TRUE]
    BY <2>1, <2>3
  <2> QED BY <1>17, <2>2, <2>3 DEF RunFinishes
<1>7. CASE CreateFails(r) \/ RunReleases(r)
  BY <1>5, <1>7 DEF CreateFails, RunReleases
<1>8. CASE RunMarks(r)
  BY <1>4, <1>8 DEF RunMarks
<1>9. CASE RunPersists(r)
  BY <1>3, <1>4, <1>9 DEF RunPersists, Places, Working
<1>10. CASE RunResolves(r)
  <2>1. Fits([b EXCEPT !.pc = "next", !.todo = IF @ = {} THEN Eligible ELSE @])
    BY <1>1, <1>2 DEF Fits, Working, RunType, Places, Eligible
  <2> QED BY <1>10, <2>1 DEF RunResolves
<1>11. CASE RunTakesAccount(r)
  <2>1. PICK a \in b.todo, unread \in BOOLEAN :
          \/ run' = [run EXCEPT ![r] = [b EXCEPT !.todo = @ \ {a}]]
          \/ run' = [run EXCEPT ![r] = [[b EXCEPT !.todo = @ \ {a}]
                       EXCEPT !.account = a, !.pc = "call", !.tries = 0, !.blind = unread]]
    BY <1>11 DEF RunTakesAccount
  <2>2. a \in Accounts
    BY <1>2, <2>1
  <2>3. Fits([b EXCEPT !.todo = @ \ {a}])
    BY <1>1, <1>2 DEF Fits, Working, RunType
  <2>4. Fits([[b EXCEPT !.todo = @ \ {a}]
               EXCEPT !.account = a, !.pc = "call", !.tries = 0, !.blind = unread])
    <3>1. "call" \in Places /\ 0 \in 0 .. RetryLimit
      BY DEF Places, Sensible
    <3> QED BY <2>2, <2>3, <3>1 DEF Fits, Working, RunType
  <2> QED BY <2>1, <2>3, <2>4
<1>18. ASSUME NEW p \in {"look", "persist"}, NEW q \in {"ok", "reauth", "error"},
              Working(b), Answered(r, p, q)
       PROVE  \E x : Fits(x) /\ run' = [run EXCEPT ![r] = x]
  <2>1. 0 \in 0 .. RetryLimit
    BY DEF Sensible
  <2>2. Fits([b EXCEPT !.pc = p, !.result = q, !.tries = 0, !.blind = FALSE])
    BY <1>1, <1>18, <2>1 DEF Fits, Working, RunType, Places
  <2> QED BY <1>18, <2>2 DEF Answered
<1>12. CASE CallSucceeds(r) \/ CallRefused(r)
  BY <1>12, <1>18 DEF CallSucceeds, CallRefused, Working
<1>13. CASE CallFails(r)
  <2>1. b.tries < RetryLimit => Fits([b EXCEPT !.tries = @ + 1])
    BY <1>1, <1>2 DEF Fits, Working, RunType, Sensible
  <2>2. Working(b)
    BY <1>13 DEF CallFails, Working
  <2>3. \/ b.tries < RetryLimit /\ run' = [run EXCEPT ![r] = [b EXCEPT !.tries = @ + 1]]
        \/ Answered(r, "persist", "error")
    BY <1>13 DEF CallFails
  <2> QED BY <1>18, <2>1, <2>2, <2>3
<1>14. CASE RunLooks(r)
  <2>1. purpose[b.account].on \in BOOLEAN
    BY <1>1, <1>14 DEF RunLooks, Working, TypeInv, TypeOK
  <2>2. \A p \in {"persist", "mirror"} :
          Working(b) => /\ Fits([b EXCEPT !.pc = p, !.seen = purpose[b.account].on])
                        /\ Fits([b EXCEPT !.pc = p])
    BY <1>1, <2>1 DEF Fits, Working, RunType, Places
  <2> QED BY <1>14, <2>2 DEF RunLooks, Goto, Working
<1>15. CASE RunMirrors(r)
  <2>1. Working(b) => Fits([b EXCEPT !.pc = "persist", !.seen = TRUE])
    BY <1>1 DEF Fits, Working, RunType, Places
  <2> QED BY <1>15, <2>1 DEF RunMirrors, Working
<1>16. CASE RunExpires(r)
  <2>1. Fits([b EXCEPT !.expired = TRUE])
    BY <1>1 DEF Fits, Working, RunType
  <2> QED BY <1>16, <2>1 DEF RunExpires
<1> QED
  BY <1>6, <1>7, <1>8, <1>9, <1>10, <1>11, <1>12, <1>13, <1>14, <1>15, <1>16, <1>17
     DEF RunStep

\* The steps of a batch.
LEMMA TypeRun ==
  ASSUME Sensible, TypeInv, NEW r \in Runs, RunStep(r) \/ RunExpires(r) PROVE TypeInv'
<1>1. PICK x : Fits(x) /\ run' = [run EXCEPT ![r] = x]
  BY RunShape
<1>2. run' \in [Runs -> RunType]
  BY <1>1, RunTypes DEF TypeInv, Fits
<1>3. AccountInv'
  BY <1>1, RunTypes DEF TypeInv, Fits, AccountInv
<1>4. UNCHANGED <<clockVars, loopVars, rederiving, bound>>
  BY DEF RunStep, RunExpires, RunCreates, CreateFails, RunResolves, RunTakesAccount, CallSucceeds,
         CallRefused, CallFails, RunLooks, RunMirrors, RunPersists, RunMarks, RunStops,
         RunFinishes, RunReleases
<1>5. active' \in Runs \cup {None}
  BY DEF TypeInv, TypeOK, RunStep, RunExpires, RunCreates, CreateFails, RunResolves, RunTakesAccount,
         CallSucceeds, CallRefused, CallFails, RunLooks, RunMirrors, RunPersists, RunMarks, RunStops,
         RunFinishes, RunReleases
<1>6. row' \in [Runs -> {"absent", "running", "finished", "failed"}]
  BY DEF TypeInv, TypeOK, RunStep, RunExpires, RunCreates, CreateFails, RunResolves, RunTakesAccount,
         CallSucceeds, CallRefused, CallFails, RunLooks, RunMirrors, RunPersists, RunMarks, RunStops,
         RunFinishes, Closes, RunReleases, rowVars
<1>11. attempt' \subseteq Accounts
  BY DEF TypeInv, TypeOK, AccountInv, Working, RunStep, RunExpires, RunCreates, CreateFails,
         RunResolves, RunTakesAccount, CallSucceeds, CallRefused, CallFails, RunLooks, RunMirrors,
         RunPersists, RunMarks, RunStops, RunFinishes, RunReleases, rowVars
<1>7. Working(run[r]) => <<run[r].account, day>> \in Accounts \X (0 .. LastDay)
  BY DEF TypeInv, TypeOK, AccountInv
<1>8. signed' \subseteq Accounts \X (0 .. LastDay)
  BY <1>7 DEF TypeInv, TypeOK, RunStep, RunExpires, RunCreates, CreateFails, RunResolves,
         RunTakesAccount, CallSucceeds, CallRefused, CallFails, RunLooks, RunMirrors, RunPersists,
         RunMarks, RunStops, RunFinishes, RunReleases, Working
<1>9. marker' \subseteq Accounts \X (0 .. LastDay)
  BY <1>7 DEF TypeInv, TypeOK, RunStep, RunExpires, RunCreates, CreateFails, RunResolves,
         RunTakesAccount, CallSucceeds, CallRefused, CallFails, RunLooks, RunMirrors, RunPersists,
         RunMarks, RunStops, RunFinishes, RunReleases, Working, rowVars
<1>10. purpose' \in [Accounts -> [on : BOOLEAN, status : {"active", "needs_reauth"}]]
  <2>1. run[r].seen \in BOOLEAN
    BY RunTypes DEF TypeInv, RunType
  <2>2. CASE RunMirrors(r)
    <3>1. \/ UNCHANGED purpose
          \/ purpose' = [purpose EXCEPT ![run[r].account] = [on |-> TRUE, status |-> "active"]]
          \/ purpose' = [purpose EXCEPT ![run[r].account] =
                          [on |-> run[r].seen, status |-> "needs_reauth"]]
      BY <2>2 DEF RunMirrors
    <3>2. purpose \in [Accounts -> [on : BOOLEAN, status : {"active", "needs_reauth"}]]
      BY DEF TypeInv, TypeOK
    <3>3. /\ [on |-> TRUE, status |-> "active"] \in [on : BOOLEAN, status : {"active", "needs_reauth"}]
          /\ [on |-> run[r].seen, status |-> "needs_reauth"]
               \in [on : BOOLEAN, status : {"active", "needs_reauth"}]
      BY <2>1
    <3> QED BY <3>1, <3>2, <3>3
  <2>3. CASE ~ RunMirrors(r)
    <3>1. purpose' = purpose
      BY <2>3 DEF RunStep, RunExpires, RunCreates, CreateFails, RunResolves, RunTakesAccount,
         CallSucceeds, CallRefused, CallFails, RunLooks, RunPersists, RunMarks, RunStops,
         RunFinishes, RunReleases, rowVars
    <3> QED BY <3>1 DEF TypeInv, TypeOK
  <2> QED BY <2>2, <2>3
<1> QED
  BY <1>2, <1>3, <1>4, <1>5, <1>6, <1>8, <1>9, <1>10, <1>11
     DEF TypeInv, TypeOK, RunType, Places, clockVars, loopVars

\* The steps of a scheduler goroutine and of a claim.
LEMMA TypeClaim ==
  ASSUME Sensible, TypeInv, NEW manual \in BOOLEAN, NEW targets \in SUBSET Accounts,
         Claim(manual, targets)
  PROVE  run' \in [Runs -> RunType] /\ AccountInv' /\ active' \in Runs
<1> DEFINE r == CHOOSE r \in FreeRuns : TRUE
           x == [Idle EXCEPT !.pc = "create", !.manual = manual, !.todo = targets]
<1>1. r \in Runs
  BY DEF Claim, FreeRuns
<1>2. x \in RunType /\ ~ Working(x)
  BY IdleType DEF RunType, Places, Working, Idle
<1>3. active' = r /\ run' = [run EXCEPT ![r] = x]
  BY DEF Claim
<1> HIDE DEF r, x
<1> QED BY <1>1, <1>2, <1>3, RunTypes DEF TypeInv, AccountInv

LEMMA TypeLoop ==
  ASSUME Sensible, TypeInv, NEW l \in Loops, LoopStep(l) PROVE TypeInv'
<1> USE DEF TypeInv, TypeOK, clockVars, rowVars, Sensible
<1>1. NextDue \in 0 .. LastDay + 1
  BY DEF NextDue
<1>2. CASE LoopConsiders(l) BY <1>1, <1>2 DEF LoopConsiders, AccountInv
<1>3. CASE LoopWaited(l) BY <1>1, <1>3 DEF LoopWaited, AccountInv
<1>4. CASE LoopFires(l) BY <1>4 DEF LoopFires, AccountInv
<1>5. CASE LoopEnds(l) BY <1>5 DEF LoopEnds, AccountInv
<1>6. CASE LoopLaunches(l)
  <2>1. CASE Claim(FALSE, {})
    <3>1. run' \in [Runs -> RunType] /\ AccountInv' /\ active' \in Runs
      BY <2>1, TypeClaim
    <3> QED BY <1>1, <1>6, <3>1 DEF LoopLaunches, RunType, Places
  <2>2. CASE UNCHANGED <<active, run>>
    BY <1>1, <1>6, <2>2 DEF LoopLaunches, AccountInv
  <2> QED BY <1>6, <2>1, <2>2 DEF LoopLaunches
<1> QED BY <1>2, <1>3, <1>4, <1>5, <1>6 DEF LoopStep

\* handleRederiveCheckin changes no more of a batch than what it knows.
LEMMA MarksSet ==
  ASSUME run \in [Runs -> RunType], RederiveMarks, NEW r \in Runs
  PROVE  /\ run'[r] \in RunType
         /\ run'[r].pc = run[r].pc /\ run'[r].account = run[r].account
         /\ run'[r].manual = run[r].manual /\ run'[r].result = run[r].result
         /\ run'[r].unclosed = run[r].unclosed
         /\ \/ run'[r] = run[r] /\ marker' = marker
            \/ marker' = marker \cup {<<rederiving, day>>}
         /\ ~ run'[r].blind =>
              ~ run[r].blind /\ (marker' = marker \/ run[r].pc # "call" \/ run[r].account # rederiving)
<1>1. CASE UNCHANGED <<marker, run>>
  BY <1>1
<1>2. CASE /\ marker' = marker \cup {<<rederiving, day>>}
           /\ run' = [q \in Runs |-> IF run[q].pc = "call" /\ run[q].account = rederiving
                                     THEN [run[q] EXCEPT !.blind = TRUE] ELSE run[q]]
  <2>1. CASE run[r].pc = "call" /\ run[r].account = rederiving
    <3>1. run'[r] = [run[r] EXCEPT !.blind = TRUE]
      BY <1>2, <2>1
    <3>2. run[r] \in RunType
      OBVIOUS
    <3>3. /\ run'[r] \in RunType
          /\ run'[r].pc = run[r].pc /\ run'[r].account = run[r].account
          /\ run'[r].manual = run[r].manual /\ run'[r].result = run[r].result
          /\ run'[r].unclosed = run[r].unclosed /\ run'[r].blind
      BY <3>1, <3>2 DEF RunType
    <3> QED BY <1>2, <3>3
  <2>2. CASE ~ (run[r].pc = "call" /\ run[r].account = rederiving)
    <3>1. run'[r] = run[r]
      BY <1>2, <2>2
    <3> QED BY <1>2, <2>2, <3>1
  <2> QED BY <2>1, <2>2
<1> QED BY <1>1, <1>2 DEF RederiveMarks

LEMMA MarksKeepTypes ==
  ASSUME TypeInv, RederiveMarks PROVE run' \in [Runs -> RunType] /\ AccountInv'
<1>1. run \in [Runs -> RunType] /\ AccountInv
  BY RunTypes DEF TypeInv
<1>2. \A r \in Runs : /\ run'[r] \in RunType
                      /\ run'[r].pc = run[r].pc /\ run'[r].account = run[r].account
  BY <1>1, MarksSet
<1>3. run' = [r \in Runs |-> run'[r]]
  BY <1>1 DEF RederiveMarks, RunType
<1> QED BY <1>1, <1>2, <1>3 DEF AccountInv, Working

LEMMA TypeOthers ==
  ASSUME Sensible, TypeInv,
         ManualRun \/ Reconfigure \/ StopScheduler \/ PatchPurpose
           \/ RederiveReads \/ RederiveMarks \/ Restart \/ Tick
  PROVE  TypeInv'
<1> USE DEF TypeInv, TypeOK, clockVars, rowVars, loopVars, Sensible
<1>1. CASE ManualRun
  <2>1. PICK targets \in SUBSET Accounts : Claim(TRUE, targets)
    BY <1>1 DEF ManualRun
  <2>2. run' \in [Runs -> RunType] /\ AccountInv' /\ active' \in Runs
    BY <2>1, TypeClaim
  <2> QED BY <1>1, <2>2 DEF ManualRun, RunType, Places
<1>2. CASE Reconfigure
  <2>1. bound' \in [patches : 0 .. Changes, crashes : 0 .. Changes]
    BY <1>2 DEF Reconfigure, Patch
  <2>2. FreeLoops # {} => (CHOOSE l \in FreeLoops : TRUE) \in Loops
    BY DEF FreeLoops
  <2>3. current' \in Loops \cup {None}
        /\ loop' \in [Loops -> {"free", "start", "jitter", "wait", "launch", "catchup"}]
    BY <1>2, <2>2 DEF Reconfigure, Start
  <2> QED BY <1>2, <2>1, <2>3 DEF Reconfigure, AccountInv
<1>3. CASE StopScheduler
  BY <1>3 DEF StopScheduler, Patch, AccountInv
<1>4. CASE PatchPurpose
  <2>1. bound' \in [patches : 0 .. Changes, crashes : 0 .. Changes]
    BY <1>4 DEF PatchPurpose, Patch
  <2>2. purpose' \in [Accounts -> [on : BOOLEAN, status : {"active", "needs_reauth"}]]
    BY <1>4 DEF PatchPurpose
  <2> QED BY <1>4, <2>1, <2>2 DEF PatchPurpose, AccountInv
<1>5. CASE Restart
  <2>1. [Idle EXCEPT !.pc = "gone"] \in RunType /\ ~ Working([Idle EXCEPT !.pc = "gone"])
    BY IdleType DEF RunType, Places, Working, Idle
  <2>2. run' \in [Runs -> RunType] /\ AccountInv'
    BY <1>5, <2>1, RunTypes DEF Restart, AccountInv
  <2>3. FirstLoop \in Loops
    BY DEF FirstLoop
  <2>4. bound' \in [patches : 0 .. Changes, crashes : 0 .. Changes]
    BY <1>5 DEF Restart
  <2>5. current' \in Loops \cup {None}
    BY <1>5, <2>3 DEF Restart
  <2>6. loop' \in [Loops -> {"free", "start", "jitter", "wait", "launch", "catchup"}]
    BY <1>5 DEF Restart
  <2>7. due' \in [Loops -> 0 .. LastDay + 1] /\ active' \in Runs \cup {None}
    BY <1>5 DEF Restart
  <2>8. UNCHANGED <<clockVars, enabled, rowVars, signed>> /\ rederiving' = None
    BY <1>5 DEF Restart
  <2> QED BY <2>2, <2>4, <2>5, <2>6, <2>7, <2>8 DEF RunType, Places
<1>6. CASE Tick
  <2>1. day' \in 0 .. LastDay /\ part' \in {"before", "window", "late"}
    <3>1. CASE part = "before" BY <1>6, <3>1 DEF Tick
    <3>2. CASE part = "window" BY <1>6, <3>2 DEF Tick
    <3>3. CASE part = "late"
      <4>1. day < LastDay /\ day' = day + 1 /\ part' = "before"
        BY <1>6, <3>3 DEF Tick
      <4> QED BY <4>1
    <3> QED BY <3>1, <3>2, <3>3
  <2>2. UNCHANGED <<loopVars, active, run, rowVars, rederiving, signed, bound>>
    BY <1>6 DEF Tick
  <2> QED BY <2>1, <2>2 DEF AccountInv
<1>7. CASE RederiveReads
  <2>1. bound' \in [patches : 0 .. Changes, crashes : 0 .. Changes]
    BY <1>7 DEF RederiveReads, Patch
  <2> QED BY <1>7, <2>1 DEF RederiveReads, AccountInv
<1>8. CASE RederiveMarks
  <2>1. run' \in [Runs -> RunType] /\ AccountInv'
    BY <1>8, MarksKeepTypes DEF TypeInv
  <2>2. marker' \subseteq Accounts \X (0 .. LastDay)
    BY <1>8 DEF RederiveMarks
  <2> QED BY <1>8, <2>1, <2>2 DEF RederiveMarks, RunType, Places
<1> QED BY <1>1, <1>2, <1>3, <1>4, <1>5, <1>6, <1>7, <1>8

LEMMA TypeNext == Sensible /\ TypeInv /\ [Next]_vars => TypeInv'
<1> SUFFICES ASSUME Sensible, TypeInv, [Next]_vars PROVE TypeInv'
  OBVIOUS
<1>1. CASE UNCHANGED vars
  BY <1>1 DEF vars, clockVars, loopVars, rowVars, TypeInv, TypeOK, AccountInv
<1> QED BY <1>1, TypeRun, TypeLoop, TypeOthers DEF Next

\* The rows, goroutines and the clock keep their types in every behaviour.
THEOREM TypeCorrect == Spec => []TypeOK
<1>1. Init => TypeInv
  BY CheckinAssumption, TypeInit
<1>2. TypeInv /\ [Next]_vars => TypeInv'
  BY CheckinAssumption, TypeNext
<1>3. TypeInv => TypeOK
  BY DEF TypeInv
<1> QED BY <1>1, <1>2, <1>3, PTL DEF Spec

-----------------------------------------------------------------------------
(* One batch at a time.                                                    *)

LEMMA SlotNext ==
  ASSUME Sensible, TypeInv, OneRunAtATime, [Next]_vars PROVE OneRunAtATime'
<1> USE DEF OneRunAtATime, Live
<1>0. run \in [Runs -> RunType] /\ None \notin Runs
  BY RunTypes DEF TypeInv, Sensible
<1>1. ASSUME NEW r \in Runs, run[r].pc \notin {"free", "gone"}, active' = active,
             NEW x \in RunType, run' = [run EXCEPT ![r] = x], x.pc \notin {"free", "gone"}
      PROVE  OneRunAtATime'
  BY <1>0, <1>1
<1>2. ASSUME NEW r \in Runs, run[r].pc \notin {"free", "gone"}, active' = None,
             NEW x \in RunType, run' = [run EXCEPT ![r] = x], x.pc = "gone"
      PROVE  OneRunAtATime'
  BY <1>0, <1>2
<1>3. ASSUME NEW manual, NEW targets, Claim(manual, targets) PROVE OneRunAtATime'
  <2>1. PICK r \in Runs : /\ active' = r
                          /\ run' = [run EXCEPT ![r] = [Idle EXCEPT !.pc = "create", !.manual = manual,
                                                                    !.todo = targets]]
    BY <1>3 DEF Claim, FreeRuns
  <2>2. active = None
    BY <1>3 DEF Claim
  <2>3. [Idle EXCEPT !.pc = "create", !.manual = manual, !.todo = targets].pc = "create"
    BY DEF Idle
  <2> HIDE DEF Idle
  <2> QED BY <1>0, <2>1, <2>2, <2>3
<1>4. ASSUME NEW r \in Runs, RunStep(r) \/ RunExpires(r) PROVE OneRunAtATime'
  <2>1. PICK x : Fits(x) /\ run' = [run EXCEPT ![r] = x]
    BY <1>4, RunShape
  <2>2. x \in RunType /\ run'[r] = x
    BY <1>0, <2>1 DEF Fits
  <2>3. CASE CreateFails(r) \/ RunReleases(r)
    <3>1. active' = None /\ run[r].pc \notin {"free", "gone"}
      BY <2>3 DEF CreateFails, RunReleases
    <3>2. x.pc = "gone"
      BY <1>0, <2>2, <2>3 DEF CreateFails, RunReleases, Done, Idle
    <3> QED BY <1>2, <2>1, <2>2, <3>1, <3>2
  <2>4. CASE ~ (CreateFails(r) \/ RunReleases(r))
    <3>1. active' = active /\ run[r].pc \notin {"free", "gone"}
      BY <1>4, <2>4 DEF RunStep, RunExpires, RunCreates, RunResolves, RunTakesAccount, CallSucceeds,
         CallRefused, CallFails, RunLooks, RunMirrors, RunPersists, RunMarks, RunStops, RunFinishes
    <3>2. run'[r].pc \notin {"free", "gone"}
      <4>1. CASE RunCreates(r) \/ RunStops(r)
        BY <1>0, <4>1, GotoSets DEF RunCreates, RunStops
      <4>8. CASE RunFinishes(r)
        BY <1>0, <4>8, FinishSets
      <4>2. CASE CallSucceeds(r) \/ CallRefused(r)
        BY <1>0, <4>2, AnsweredSets DEF CallSucceeds, CallRefused
      <4>9. CASE RunMirrors(r)
        BY <1>0, <4>9 DEF RunMirrors, RunType
      <4>6. CASE RunResolves(r) \/ RunLooks(r)
        BY <1>0, <4>6 DEF RunResolves, RunLooks, Goto, RunType
      <4>7. CASE RunExpires(r)
        BY <1>0, <3>1, <4>7 DEF RunExpires, RunType
      <4>3. CASE RunPersists(r) \/ RunMarks(r)
        BY <1>0, <4>3, GotoSets, BetweenSets DEF RunPersists, RunMarks
      <4>4. CASE RunTakesAccount(r)
        <5>1. PICK a \in run[r].todo : \E unread \in BOOLEAN :
                \/ run' = [run EXCEPT ![r] = [run[r] EXCEPT !.todo = @ \ {a}]]
                \/ run' = [run EXCEPT ![r] = [[run[r] EXCEPT !.todo = @ \ {a}]
                             EXCEPT !.account = a, !.pc = "call", !.tries = 0, !.blind = unread]]
          BY <4>4 DEF RunTakesAccount
        <5>2. run[r].pc = "next" /\ run[r] \in RunType
          BY <1>0, <4>4 DEF RunTakesAccount
        <5>3. run'[r].pc = "next" \/ run'[r].pc = "call"
          BY <1>0, <5>1, <5>2 DEF RunType
        <5> QED BY <5>3
      <4>5. CASE CallFails(r)
        BY <1>0, <4>5, AnsweredSets DEF CallFails, RunType
      <4> QED BY <1>4, <2>4, <4>1, <4>2, <4>3, <4>4, <4>5, <4>6, <4>7, <4>8, <4>9 DEF RunStep
    <3> QED BY <1>1, <2>1, <2>2, <3>1, <3>2
  <2> QED BY <2>3, <2>4
<1>5. ASSUME NEW l \in Loops, LoopStep(l) PROVE OneRunAtATime'
  <2>1. Claim(FALSE, {}) \/ UNCHANGED <<active, run>>
    BY <1>5 DEF LoopStep, LoopConsiders, LoopWaited, LoopFires, LoopLaunches, LoopEnds
  <2> QED BY <1>3, <2>1
<1>6. CASE ManualRun
  BY <1>3, <1>6 DEF ManualRun
<1>7. CASE Restart
  <2>1. active' = None
    BY <1>7 DEF Restart
  <2>2. \A q \in Runs : run'[q].pc \in {"free", "gone"}
    BY <1>7 DEF Restart, Idle
  <2> QED BY <1>0, <2>1, <2>2
<1>8. CASE Reconfigure \/ StopScheduler \/ PatchPurpose \/ RederiveReads \/ Tick \/ UNCHANGED vars
  BY <1>8 DEF Reconfigure, StopScheduler, PatchPurpose, RederiveReads, Tick, vars
<1>9. CASE RederiveMarks
  BY <1>0, <1>9, MarksSet DEF RederiveMarks
<1> QED BY <1>4, <1>5, <1>6, <1>7, <1>8, <1>9 DEF Next

\* claimRun and releaseRun: whichever way batches start, fail, run out of time or
\* are cut off by a restart, a batch goroutine is alive exactly as long as it
\* holds the slot of the service.
THEOREM OneRun == Spec => []OneRunAtATime
<1>1. Init => TypeInv /\ OneRunAtATime
  BY CheckinAssumption, TypeInit DEF Init, Idle, OneRunAtATime, Live, Sensible
<1>2. (TypeInv /\ OneRunAtATime) /\ [Next]_vars => (TypeInv /\ OneRunAtATime)'
  BY CheckinAssumption, TypeNext, SlotNext
<1> QED BY <1>1, <1>2, PTL DEF Spec

-----------------------------------------------------------------------------
(* Rows that say "running".                                                *)

\* A row is created after its id is taken, and closed before the slot is given
\* back unless the statement that closes it failed.
RowInv ==
  \A r \in Runs :
    /\ run[r].pc \in {"free", "create"} => row[r] = "absent"
    /\ run[r].pc = "release" /\ ~ run[r].unclosed => row[r] # "running"

\* What a step of a batch does not touch.
LEMMA OtherRuns ==
  ASSUME Sensible, TypeInv, NEW r \in Runs, RunStep(r) \/ RunExpires(r)
  PROVE  /\ run' \in [Runs -> RunType] /\ row' \in [Runs -> {"absent", "running", "finished", "failed"}]
         /\ \A q \in Runs \ {r} : run'[q] = run[q] /\ row'[q] = row[q]
         /\ run[r].pc \notin {"free", "gone"}
         /\ UNCHANGED <<clockVars, loopVars, rederiving, bound>>
<1>1. TypeInv' /\ run \in [Runs -> RunType]
  BY TypeRun, RunTypes DEF TypeInv
<1>2. run' \in [Runs -> RunType] /\ row' \in [Runs -> {"absent", "running", "finished", "failed"}]
  BY <1>1 DEF TypeInv, TypeOK, RunType, Places
<1>3. \A q \in Runs \ {r} : run'[q] = run[q]
  BY <1>1, RunShape
<1>4. \A q \in Runs \ {r} : row'[q] = row[q]
  BY DEF TypeInv, TypeOK, RunStep, RunExpires, RunCreates, CreateFails, RunResolves, RunTakesAccount,
         CallSucceeds, CallRefused, CallFails, RunLooks, RunMirrors, RunPersists, RunMarks, RunStops,
         RunFinishes, Closes, RunReleases, rowVars
<1>5. run[r].pc \notin {"free", "gone"} /\ UNCHANGED <<clockVars, loopVars, rederiving, bound>>
  BY DEF RunStep, RunExpires, RunCreates, CreateFails, RunResolves, RunTakesAccount,
         CallSucceeds, CallRefused, CallFails, RunLooks, RunMirrors, RunPersists, RunMarks, RunStops,
         RunFinishes, RunReleases, Live
<1> QED BY <1>2, <1>3, <1>4, <1>5

LEMMA RowRun ==
  ASSUME Sensible, TypeInv, OneRunAtATime, RowInv, OpenRowHasReason,
         NEW r \in Runs, RunStep(r) \/ RunExpires(r)
  PROVE  RowInv' /\ OpenRowHasReason'
<1> USE DEF RowInv, OpenRowHasReason, OneRunAtATime, Live
<1>1. /\ run \in [Runs -> RunType] /\ row \in [Runs -> {"absent", "running", "finished", "failed"}]
      /\ None \notin Runs
  BY RunTypes DEF TypeInv, TypeOK, Sensible
<1>2. active = r /\ bound' = bound
  BY OtherRuns
<1>3. /\ run'[r].pc \notin {"free", "create"}
          \/ (run[r].pc = "create" /\ run'[r].pc = "create" /\ row' = row)
      /\ row'[r] = "running" => active' = r \/ run'[r].unclosed \/ bound.crashes > 0
      /\ run'[r].pc = "release" /\ ~ run'[r].unclosed => row'[r] # "running"
  <2>1. CASE RunCreates(r) \/ RunStops(r)
    <3>1. run'[r].pc \in {"resolve", "finish"} /\ active' = active
      BY <1>1, <2>1, GotoSets DEF RunCreates, RunStops
    <3> QED BY <1>2, <3>1
  <2>2. CASE CallSucceeds(r) \/ CallRefused(r) \/ RunMirrors(r)
    <3>1. run'[r].pc \in {"look", "persist"} /\ active' = active
      BY <1>1, <2>2, AnsweredSets DEF CallSucceeds, CallRefused, RunMirrors, RunType
    <3> QED BY <1>2, <3>1
  <2>8. CASE RunResolves(r) \/ RunLooks(r)
    <3>1. run'[r].pc \in {"next", "persist", "mirror"} /\ active' = active
      BY <1>1, <2>8 DEF RunResolves, RunLooks, Goto, RunType
    <3> QED BY <1>2, <3>1
  <2>3. CASE RunPersists(r) \/ RunMarks(r)
    <3>1. run'[r].pc \in {"next", "mark"} /\ active' = active
      BY <1>1, <2>3, GotoSets, BetweenSets DEF RunPersists, RunMarks
    <3> QED BY <1>2, <3>1
  <2>4. CASE RunTakesAccount(r) \/ CallFails(r)
    <3>1. run'[r].pc \in {"next", "call", "persist"} /\ row' = row /\ active' = active
      <4>1. CASE RunTakesAccount(r)
        <5>1. run[r].pc = "next" /\ UNCHANGED <<row, active>>
          BY <4>1 DEF RunTakesAccount
        <5>2. PICK x : run' = [run EXCEPT ![r] = x] /\ x.pc \in {run[r].pc, "call"}
          <6>1. PICK a \in run[r].todo :
                  LET rest == [run[r] EXCEPT !.todo = @ \ {a}] IN
                  \/ run' = [run EXCEPT ![r] = rest]
                  \/ \E unread \in BOOLEAN :
                       run' = [run EXCEPT ![r] = [rest EXCEPT !.account = a, !.pc = "call",
                                                             !.tries = 0, !.blind = unread]]
            BY <4>1 DEF RunTakesAccount
          <6> QED BY <1>1, <6>1 DEF RunType
        <5> QED BY <1>1, <5>1, <5>2
      <4>2. CASE CallFails(r)
        BY <1>1, <4>2, AnsweredSets DEF CallFails, RunType, rowVars
      <4> QED BY <2>4, <4>1, <4>2
    <3> QED BY <1>2, <3>1
  <2>5. CASE RunFinishes(r)
    <3>1. /\ run'[r].pc = "release" /\ active' = active
          /\ row' = [row EXCEPT ![r] = "finished"] \/ (row' = row /\ run'[r].unclosed)
      BY <1>1, <2>5, FinishSets DEF RunFinishes
    <3> QED BY <1>1, <1>2, <3>1
  <2>6. CASE CreateFails(r) \/ RunReleases(r)
    <3>1. row[r] = "running" => run[r].unclosed
      BY <1>1, <2>6 DEF CreateFails, RunReleases
    <3>2. run'[r].pc = "gone" /\ run'[r].unclosed = run[r].unclosed /\ row' = row
      BY <1>1, <2>6, DoneSets DEF CreateFails, RunReleases, rowVars
    <3> QED BY <3>1, <3>2
  <2>7. CASE RunExpires(r)
    <3>1. run[r].pc # "create" /\ run[r].pc # "free" /\ active' = active
      BY <2>7 DEF RunExpires
    <3>2. run'[r].pc = run[r].pc /\ run'[r].unclosed = run[r].unclosed /\ row' = row
      BY <1>1, <2>7 DEF RunExpires, RunType, rowVars
    <3> QED BY <1>2, <3>1, <3>2
  <2> QED BY <2>1, <2>2, <2>3, <2>4, <2>5, <2>6, <2>7, <2>8 DEF RunStep
<1>4. \A q \in Runs \ {r} : run'[q] = run[q] /\ row'[q] = row[q] /\ active # q
  BY <1>2, OtherRuns
<1> QED BY <1>2, <1>3, <1>4

LEMMA RowNext ==
  ASSUME Sensible, TypeInv, OneRunAtATime, RowInv, OpenRowHasReason, [Next]_vars
  PROVE  RowInv' /\ OpenRowHasReason'
<1> USE DEF RowInv, OpenRowHasReason
<1>1. run \in [Runs -> RunType]
  BY RunTypes DEF TypeInv
<1>2. ASSUME NEW r \in Runs, RunStep(r) \/ RunExpires(r) PROVE RowInv' /\ OpenRowHasReason'
  BY <1>2, RowRun
<1>3. ASSUME NEW manual, NEW targets, Claim(manual, targets), UNCHANGED <<row, bound>>
      PROVE  RowInv' /\ OpenRowHasReason'
  <2>1. PICK r \in Runs : /\ active' = r /\ run[r].pc = "free"
                          /\ run' = [run EXCEPT ![r] = [Idle EXCEPT !.pc = "create", !.manual = manual,
                                                                    !.todo = targets]]
    BY <1>3 DEF Claim, FreeRuns
  <2>2. active = None /\ None \notin Runs
    BY <1>3 DEF Claim, Sensible
  <2>3. run'[r].pc = "create"
    BY <1>1, <2>1 DEF Idle
  <2>4. \A q \in Runs \ {r} : run'[q] = run[q]
    BY <1>1, <2>1
  <2> HIDE DEF Idle
  <2> QED BY <1>3, <2>1, <2>2, <2>3, <2>4
<1>4. ASSUME NEW l \in Loops, LoopStep(l) PROVE RowInv' /\ OpenRowHasReason'
  <2>1. (Claim(FALSE, {}) \/ UNCHANGED <<active, run>>) /\ UNCHANGED <<row, bound>>
    BY <1>4 DEF LoopStep, LoopConsiders, LoopWaited, LoopFires, LoopLaunches, LoopEnds, rowVars
  <2> QED BY <1>3, <2>1
<1>5. CASE ManualRun
  BY <1>3, <1>5 DEF ManualRun, rowVars
<1>6. CASE Restart
  <2>1. bound'.crashes > 0 /\ row' = row
    <3>1. bound.crashes \in Nat /\ bound \in [patches : 0 .. Changes, crashes : 0 .. Changes]
      BY DEF TypeInv, TypeOK, Sensible
    <3>2. bound' = [bound EXCEPT !.crashes = bound.crashes + 1]
      BY <1>6 DEF Restart
    <3>3. bound'.crashes = bound.crashes + 1
      BY <3>1, <3>2
    <3> QED BY <1>6, <3>1, <3>3 DEF Restart, rowVars
  <2>2. \A q \in Runs : run'[q].pc = "gone" \/ run'[q] = run[q]
    BY <1>6 DEF Restart, Idle, Live
  <2> QED BY <2>1, <2>2
<1>7. CASE Reconfigure \/ StopScheduler \/ PatchPurpose \/ RederiveReads \/ Tick \/ UNCHANGED vars
  <2>1. UNCHANGED <<active, run, row>> /\ bound'.crashes = bound.crashes
    BY <1>7 DEF Reconfigure, StopScheduler, PatchPurpose, RederiveReads, Patch, Tick, vars, rowVars,
                TypeInv, TypeOK
  <2> QED BY <2>1
<1>8. CASE RederiveMarks
  <2>1. UNCHANGED <<active, row, bound>>
    BY <1>8 DEF RederiveMarks
  <2>2. \A q \in Runs : run'[q].pc = run[q].pc /\ run'[q].unclosed = run[q].unclosed
    BY <1>1, <1>8, MarksSet
  <2> QED BY <2>1, <2>2
<1> QED BY <1>2, <1>4, <1>5, <1>6, <1>7, <1>8 DEF Next

\* StartBatch and FinishCheckinRun: a run row stays open only under the batch that
\* holds the slot, after a failure of the statement that closes it, or after the end of
\* a process.
THEOREM OpenRows == Spec => []OpenRowHasReason
<1>1. Init => TypeInv /\ OneRunAtATime /\ RowInv /\ OpenRowHasReason
  BY CheckinAssumption, TypeInit DEF Init, Idle, OneRunAtATime, Live, RowInv, OpenRowHasReason, Sensible
<1>2. /\ TypeInv /\ OneRunAtATime /\ RowInv /\ OpenRowHasReason
      /\ [Next]_vars
      => (TypeInv /\ OneRunAtATime /\ RowInv /\ OpenRowHasReason)'
  BY CheckinAssumption, TypeNext, SlotNext, RowNext
<1> QED BY <1>1, <1>2, PTL DEF Spec

-----------------------------------------------------------------------------
(* Markers.                                                                *)

SignedBy(S, a, d) == \E e \in 0 .. d : <<a, e>> \in S

\* A batch with a success in hand has seen the account signed in, today or before.
SignInv ==
  \A r \in Runs :
    /\ run[r].pc \in {"look", "mirror", "persist", "mark"} /\ run[r].result = "ok"
         => SignedBy(signed, run[r].account, day)
    /\ run[r].pc = "mark" => run[r].result = "ok"

\* A marker is not of a day to come, and has a sign-in behind it.
MarkInv ==
  \A a \in Accounts, d \in 0 .. LastDay : <<a, d>> \in marker => d <= day /\ SignedBy(signed, a, d)

\* So has what a rederivation goes by.
AttemptInv ==
  /\ \A a \in attempt : SignedBy(signed, a, day)
  /\ rederiving # None => SignedBy(signed, rederiving, day)

\* A scheduled batch is about to call only for an account without today's marker, as far
\* as it knows of it.
SkipInv ==
  \A r \in Runs :
    run[r].pc = "call" /\ ~ run[r].manual /\ ~ run[r].blind => <<run[r].account, day>> \notin marker

DayInv == SignInv /\ MarkInv /\ AttemptInv /\ SkipInv

\* Sign-ins are never taken back.
LEMMA SignedGrows ==
  ASSUME day \in Nat, day' \in Nat, day <= day', signed \subseteq signed'
  PROVE  /\ \A a, d : SignedBy(signed, a, d) => SignedBy(signed', a, d)
         /\ \A a : SignedBy(signed, a, day) => SignedBy(signed', a, day')
<1>1. \A a, d : SignedBy(signed, a, d) => SignedBy(signed', a, d)
  BY DEF SignedBy
<1>2. \A a : SignedBy(signed, a, day) => SignedBy(signed', a, day')
  BY DEF SignedBy
<1> QED BY <1>1, <1>2

\* Steps that touch neither the clock, the sign-ins nor the markers, and leave
\* each batch with no more than it had.
LEMMA DayCalm ==
  ASSUME DayInv, UNCHANGED <<day, signed, marker, attempt>>,
         rederiving' \in {rederiving, None} \cup attempt,
         \A q \in Runs : \/ run'[q] = run[q]
                         \/ run'[q].pc \notin {"call", "look", "mirror", "persist", "mark"}
  PROVE  DayInv'
BY DEF DayInv, SignInv, MarkInv, AttemptInv, SkipInv, SignedBy

LEMMA DayRun ==
  ASSUME Sensible, TypeInv, OneRunAtATime, DayInv, NEW r \in Runs, RunStep(r) \/ RunExpires(r)
  PROVE  DayInv'
<1> USE DEF DayInv, SignInv, MarkInv, AttemptInv, SkipInv
<1>1. /\ run \in [Runs -> RunType] /\ day \in 0 .. LastDay /\ LastDay \in Nat
      /\ Working(run[r]) => run[r].account \in Accounts
  BY RunTypes DEF TypeInv, TypeOK, Sensible, AccountInv
<1>2. /\ \A q \in Runs \ {r} : run'[q] = run[q] /\ run[q].pc # "call"
      /\ day' = day /\ day \in Nat /\ rederiving' = rederiving
  BY <1>1, OtherRuns DEF OneRunAtATime, Live, clockVars
<1>3. signed \subseteq signed'
  BY DEF RunStep, RunExpires, RunCreates, CreateFails, RunResolves, RunTakesAccount,
         CallSucceeds, CallRefused, CallFails, RunLooks, RunMirrors, RunPersists, RunMarks, RunStops,
         RunFinishes, RunReleases
<1>4. /\ \A a, d : SignedBy(signed, a, d) => SignedBy(signed', a, d)
      /\ \A a : SignedBy(signed, a, day) => SignedBy(signed', a, day')
  BY <1>2, <1>3, SignedGrows
<1>5. ASSUME marker' = marker, \A a \in attempt' : SignedBy(signed', a, day'),
             run'[r].pc \in {"look", "mirror", "persist", "mark"} /\ run'[r].result = "ok"
               => SignedBy(signed', run'[r].account, day'),
             run'[r].pc = "mark" => run'[r].result = "ok",
             run'[r].pc = "call" /\ ~ run'[r].manual /\ ~ run'[r].blind
               => <<run'[r].account, day>> \notin marker
      PROVE  DayInv'
  <2>1. SignInv'
    BY <1>2, <1>4, <1>5
  <2>2. MarkInv'
    BY <1>2, <1>4, <1>5
  <2>3. SkipInv'
    BY <1>2, <1>5
  <2>4. AttemptInv'
    BY <1>2, <1>4, <1>5
  <2> QED BY <2>1, <2>2, <2>3, <2>4
<1>6. CASE RunCreates(r) \/ RunResolves(r) \/ RunStops(r) \/ RunFinishes(r)
  <2>1. /\ run'[r].pc \in {"resolve", "next", "finish", "release"} /\ marker' = marker
        /\ attempt' = attempt
    BY <1>1, <1>6, FinishSets
       DEF RunCreates, RunResolves, RunStops, RunFinishes, Goto, RunType, rowVars
  <2> QED BY <1>4, <1>5, <2>1
<1>7. CASE CreateFails(r) \/ RunReleases(r)
  <2>1. run'[r].pc = "gone" /\ marker' = marker /\ attempt' = attempt
    BY <1>1, <1>7, DoneSets DEF CreateFails, RunReleases, rowVars
  <2> QED BY <1>4, <1>5, <2>1
<1>8. CASE RunTakesAccount(r)
  <2>1. PICK a \in run[r].todo, unread \in BOOLEAN :
          \/ run' = [run EXCEPT ![r] = [run[r] EXCEPT !.todo = @ \ {a}]]
          \/ /\ run[r].manual \/ ~ AlreadyTerminal(a, unread)
             /\ run' = [run EXCEPT ![r] = [[run[r] EXCEPT !.todo = @ \ {a}]
                          EXCEPT !.account = a, !.pc = "call", !.tries = 0, !.blind = unread]]
    BY <1>8 DEF RunTakesAccount
  <2>2. /\ marker' = marker /\ run[r].pc = "next" /\ attempt' \subseteq attempt
        /\ \A x \in attempt' : SignedBy(signed', x, day')
    BY <1>4, <1>8 DEF RunTakesAccount
  <2>3. CASE run' = [run EXCEPT ![r] = [run[r] EXCEPT !.todo = @ \ {a}]]
    <3>1. run'[r].pc = "next"
      BY <1>1, <2>2, <2>3 DEF RunType
    <3> QED BY <1>5, <2>2, <3>1
  <2>4. CASE /\ run[r].manual \/ ~ AlreadyTerminal(a, unread)
             /\ run' = [run EXCEPT ![r] = [[run[r] EXCEPT !.todo = @ \ {a}]
                          EXCEPT !.account = a, !.pc = "call", !.tries = 0, !.blind = unread]]
    <3>1. /\ run'[r].pc = "call" /\ run'[r].account = a /\ run'[r].manual = run[r].manual
          /\ run'[r].blind = unread
      BY <1>1, <2>4 DEF RunType
    <3> QED BY <1>5, <2>2, <2>4, <3>1 DEF AlreadyTerminal, Marked
  <2> QED BY <2>1, <2>3, <2>4
<1>9. CASE CallSucceeds(r)
  <2>1. run'[r].pc = "look" /\ run'[r].result = "ok" /\ run'[r].account = run[r].account
        /\ signed' = signed \cup {<<run[r].account, day>>} /\ marker' = marker
        /\ attempt' = attempt
    BY <1>1, <1>9, AnsweredSets DEF CallSucceeds, rowVars
  <2>2. SignedBy(signed', run'[r].account, day')
    BY <1>2, <2>1 DEF SignedBy
  <2> QED BY <1>4, <1>5, <2>1, <2>2
<1>10. CASE CallRefused(r)
  <2>1. run'[r].pc = "look" /\ run'[r].result = "reauth" /\ marker' = marker /\ attempt' = attempt
    BY <1>1, <1>10, AnsweredSets DEF CallRefused, rowVars
  <2> QED BY <1>4, <1>5, <2>1
<1>11. CASE CallFails(r)
  <2>1. \/ (run'[r].pc = "call" /\ run'[r].account = run[r].account
              /\ run'[r].manual = run[r].manual /\ run'[r].blind = run[r].blind)
        \/ (run'[r].pc = "persist" /\ run'[r].result = "error")
    BY <1>1, <1>11, AnsweredSets DEF CallFails, RunType
  <2>2. marker' = marker /\ attempt' = attempt /\ run[r].pc = "call"
    BY <1>11 DEF CallFails, rowVars
  <2> QED BY <1>4, <1>5, <2>1, <2>2
<1>12. CASE RunLooks(r) \/ RunMirrors(r)
  <2>1. /\ run'[r].pc \in {"mirror", "persist"} /\ run'[r].result = run[r].result
        /\ run'[r].account = run[r].account
    BY <1>1, <1>12 DEF RunLooks, RunMirrors, Goto, RunType
  <2>2. marker' = marker /\ attempt' = attempt /\ run[r].pc \in {"look", "mirror"}
    BY <1>12 DEF RunLooks, RunMirrors, rowVars
  <2> QED BY <1>4, <1>5, <2>1, <2>2
<1>13. CASE RunPersists(r)
  <2>1. \/ run'[r].pc = "next"
        \/ (run'[r].pc = "mark" /\ run'[r].result = "ok" /\ run[r].result = "ok"
              /\ run'[r].account = run[r].account)
    BY <1>1, <1>13, GotoSets, BetweenSets DEF RunPersists
  <2>2. marker' = marker /\ run[r].pc = "persist"
    BY <1>13 DEF RunPersists
  <2>3. \A a \in attempt' : SignedBy(signed', a, day')
    <3>1. attempt' \subseteq attempt \/ (run[r].result = "ok" /\ attempt' = attempt \cup {run[r].account})
      BY <1>13 DEF RunPersists
    <3> QED BY <1>4, <2>2, <3>1
  <2> QED BY <1>4, <1>5, <2>1, <2>2, <2>3
<1>14. CASE RunMarks(r)
  <2>1. run'[r].pc = "next"
    BY <1>1, <1>14, BetweenSets DEF RunMarks
  <2>2. marker' \subseteq marker \cup {<<run[r].account, day>>}
    BY <1>14 DEF RunMarks
  <2>3. SignedBy(signed', run[r].account, day')
    BY <1>4, <1>14 DEF RunMarks
  <2>4. SignInv' /\ SkipInv' /\ AttemptInv'
    <3>1. attempt' = attempt
      BY <1>14 DEF RunMarks
    <3> QED BY <1>2, <1>4, <2>1, <3>1
  <2>5. MarkInv'
    BY <1>1, <1>2, <1>4, <2>2, <2>3
  <2> QED BY <2>4, <2>5
<1>15. CASE RunExpires(r)
  <2>1. /\ run'[r].pc = run[r].pc /\ run'[r].result = run[r].result
        /\ run'[r].account = run[r].account /\ run'[r].manual = run[r].manual /\ marker' = marker
        /\ run'[r].blind = run[r].blind /\ attempt' = attempt
    BY <1>1, <1>15 DEF RunExpires, RunType, rowVars
  <2> QED BY <1>4, <1>5, <2>1
<1> QED BY <1>6, <1>7, <1>8, <1>9, <1>10, <1>11, <1>12, <1>13, <1>14, <1>15 DEF RunStep

LEMMA DayNext ==
  ASSUME Sensible, TypeInv, OneRunAtATime, DayInv, [Next]_vars PROVE DayInv'
<1>1. run \in [Runs -> RunType]
  BY RunTypes DEF TypeInv
<1>2. ASSUME NEW manual, NEW targets, Claim(manual, targets),
             UNCHANGED <<day, signed, marker, attempt, rederiving>>
      PROVE  DayInv'
  <2>1. PICK r \in Runs :
          run' = [run EXCEPT ![r] = [Idle EXCEPT !.pc = "create", !.manual = manual,
                                                 !.todo = targets]]
    BY <1>2 DEF Claim, FreeRuns
  <2>2. run'[r].pc = "create"
    BY <1>1, <2>1 DEF Idle
  <2> QED BY <1>1, <1>2, <2>1, <2>2, DayCalm
<1>3. ASSUME NEW l \in Loops, LoopStep(l) PROVE DayInv'
  <2>1. (Claim(FALSE, {}) \/ run' = run) /\ UNCHANGED <<day, signed, marker, attempt, rederiving>>
    BY <1>3 DEF LoopStep, LoopConsiders, LoopWaited, LoopFires, LoopLaunches, LoopEnds, clockVars, rowVars
  <2> QED BY <1>2, <2>1, DayCalm
<1>4. CASE ManualRun
  BY <1>2, <1>4 DEF ManualRun, clockVars, rowVars
<1>5. CASE Restart
  <2>1. \A q \in Runs : run'[q].pc = "gone" \/ run'[q] = run[q]
    BY <1>5 DEF Restart, Idle
  <2> QED BY <1>5, <2>1, DayCalm DEF Restart, clockVars, rowVars
<1>6. CASE Reconfigure \/ StopScheduler \/ PatchPurpose \/ RederiveReads \/ UNCHANGED vars
  <2>1. /\ run' = run /\ UNCHANGED <<day, signed, marker, attempt>>
        /\ rederiving' \in {rederiving} \cup attempt
    BY <1>6 DEF Reconfigure, StopScheduler, PatchPurpose, RederiveReads, vars, clockVars, rowVars
  <2> QED BY <2>1, DayCalm
<1>7. CASE Tick
  <2>1. /\ run' = run /\ signed' = signed /\ marker' = marker
        /\ attempt' = attempt /\ rederiving' = rederiving
    BY <1>7 DEF Tick, rowVars
  <2>2. /\ day \in 0 .. LastDay /\ LastDay \in Nat /\ TypeInv'
        /\ marker \subseteq Accounts \X (0 .. LastDay)
    BY TypeNext DEF TypeInv, TypeOK, Sensible
  <2>3. day' = day \/ day' = day + 1
    <3>1. CASE part = "before" BY <1>7, <3>1 DEF Tick
    <3>2. CASE part = "window" BY <1>7, <3>2 DEF Tick
    <3>3. CASE part = "late" BY <1>7, <3>3 DEF Tick
    <3> QED BY <3>1, <3>2, <3>3 DEF TypeInv, TypeOK
  <2>4. /\ \A a, d : SignedBy(signed, a, d) => SignedBy(signed', a, d)
        /\ \A a : SignedBy(signed, a, day) => SignedBy(signed', a, day')
    BY <2>1, <2>2, <2>3, SignedGrows
  <2>5. SignInv'
    BY <2>1, <2>4 DEF DayInv, SignInv
  <2>6. MarkInv'
    BY <2>1, <2>2, <2>3, <2>4 DEF DayInv, MarkInv
  <2>7. SkipInv'
    BY <2>1, <2>2, <2>3 DEF DayInv, SkipInv, MarkInv
  <2>8. AttemptInv'
    BY <2>1, <2>4 DEF DayInv, AttemptInv
  <2> QED BY <2>5, <2>6, <2>7, <2>8 DEF DayInv
<1>8. CASE RederiveMarks
  <2>1. /\ UNCHANGED <<day, signed, attempt>> /\ rederiving' = None /\ rederiving # None
        /\ marker' \in {marker, marker \cup {<<rederiving, day>>}}
    BY <1>8 DEF RederiveMarks, clockVars
  <2>2. SignInv' /\ SkipInv'
    BY <1>1, <1>8, <2>1, MarksSet DEF DayInv, SignInv, SkipInv
  <2>3. MarkInv' /\ AttemptInv'
    <3>1. day \in 0 .. LastDay /\ LastDay \in Nat
      BY DEF TypeInv, TypeOK, Sensible
    <3> QED BY <2>1, <3>1 DEF DayInv, MarkInv, AttemptInv
  <2> QED BY <2>2, <2>3 DEF DayInv
<1> QED BY <1>3, <1>4, <1>5, <1>6, <1>7, <1>8, DayRun DEF Next

LEMMA DayInit == Sensible /\ Init => DayInv
BY DEF Init, DayInv, SignInv, MarkInv, AttemptInv, SkipInv, Idle

\* persistAttempt: each marker has behind it a sign-in of its account on its day
\* or an earlier one, whatever midnight, deadlines or restarts cut in two.
THEOREM MarkersStandForSignIns == Spec => []MarkerFollowsSignIn
<1>1. Init => TypeInv /\ OneRunAtATime /\ DayInv
  BY CheckinAssumption, TypeInit, DayInit DEF Init, Idle, OneRunAtATime, Live, Sensible
<1>2. (TypeInv /\ OneRunAtATime /\ DayInv) /\ [Next]_vars => (TypeInv /\ OneRunAtATime /\ DayInv)'
  BY CheckinAssumption, TypeNext, SlotNext, DayNext
<1>3. DayInv => MarkerFollowsSignIn
  BY DEF DayInv, MarkInv, MarkerFollowsSignIn, SignedBy
<1> QED BY <1>1, <1>2, <1>3, PTL DEF Spec

\* alreadyTerminal in runOne: between its check and its call no other batch records a
\* sign-in, so no scheduled batch calls the upstream for an account that is done, unless
\* it could not read the marker or a rederivation wrote it after the check.
THEOREM ScheduledBatchesSkip == Spec => ScheduleSkipsDone
<1> DEFINE Skips ==
      \A r \in Runs :
        run[r].pc = "call" /\ ~ run[r].manual /\ ~ run[r].blind /\ run'[r].pc # "gone"
          /\ run'[r] # run[r] /\ run'[r].expired = run[r].expired
        => <<run[r].account, day>> \notin marker
<1>1. Init => TypeInv /\ OneRunAtATime /\ DayInv
  BY CheckinAssumption, TypeInit, DayInit DEF Init, Idle, OneRunAtATime, Live, Sensible
<1>2. (TypeInv /\ OneRunAtATime /\ DayInv) /\ [Next]_vars => (TypeInv /\ OneRunAtATime /\ DayInv)'
  BY CheckinAssumption, TypeNext, SlotNext, DayNext
<1>3. DayInv /\ [Next]_vars => [Skips]_vars
  BY DEF DayInv, SkipInv
<1> QED BY <1>1, <1>2, <1>3, PTL DEF Spec, ScheduleSkipsDone

=============================================================================
