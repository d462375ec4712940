------------------------------- MODULE Checkin -------------------------------
(***************************************************************************)
(* Daily sign-in (internal/checkin): the scheduler's loop with its          *)
(* catch-up, the service that runs one batch at a time, and the day markers,*)
(* run rows and purpose rows it keeps in the database.  The upstream, the   *)
(* administrator, the end of the process and the clock are the environment. *)
(*                                                                         *)
(* A day has three parts: before the scheduled time, within the catch-up    *)
(* window after it, and past that window.                                   *)
(***************************************************************************)
EXTENDS Integers, FiniteSets

CONSTANTS
  Accounts,    \* accounts with a check-in purpose and a credential
  Runs,        \* bound: run ids
  Loops,       \* bound: scheduler goroutines that can exist at once
  None,        \* no run, no loop, no account
  LastDay,     \* bound: the last local day
  RetryLimit,  \* Runtime.CheckinRetryLimit
  Changes      \* bound: changes an administrator makes and ends of the process

\* What the constants must be: bounds are numbers, and None is no name.
Sensible ==
  /\ LastDay \in Nat /\ RetryLimit \in Nat /\ Changes \in Nat
  /\ None \notin Runs /\ None \notin Loops /\ None \notin Accounts
  /\ Loops # {}

ASSUME CheckinAssumption == Sensible

VARIABLES
  day, part,   \* the local date, and the part of that day
  enabled,     \* Runtime.CheckinEnabled
  current,     \* the loop that holds Scheduler.done
  loop,        \* where each scheduler goroutine is
  due,         \* the day for which its timer is set
  active,      \* Service.active
  run,         \* each batch goroutine
  row,         \* checkin_runs: the status of each run
  marker,      \* checkin_daily_state: accounts and days with a terminal success
  attempt,     \* checkin_attempts: accounts whose latest row is a sign-in
  purpose,     \* the check-in purpose row of each account
  rederiving,  \* the account of a rederivation under way
  signed,      \* accounts and days that the upstream has signed in
  bound        \* changes and ends of the process so far

clockVars == <<day, part>>
loopVars == <<enabled, current, loop, due>>
rowVars == <<row, marker, attempt, purpose>>
vars == <<clockVars, loopVars, active, run, rowVars, rederiving, signed, bound>>

\* A batch.  blind and unclosed only record what the properties except: a marker that
\* the batch could not know of, and a run row whose closing statement failed.
Idle == [pc |-> "free", manual |-> FALSE, todo |-> {}, account |-> None,
         result |-> "none", tries |-> 0, seen |-> TRUE, expired |-> FALSE,
         blind |-> FALSE, unclosed |-> FALSE]

Live(r) == run[r].pc \notin {"free", "gone"}

TypeOK ==
  /\ day \in 0 .. LastDay /\ part \in {"before", "window", "late"}
  /\ enabled \in BOOLEAN
  /\ current \in Loops \cup {None}
  /\ loop \in [Loops -> {"free", "start", "jitter", "wait", "launch", "catchup"}]
  /\ due \in [Loops -> 0 .. LastDay + 1]
  /\ active \in Runs \cup {None}
  /\ run \in [Runs ->
       [pc : {"free", "create", "resolve", "next", "call", "look", "mirror",
              "persist", "mark", "finish", "release", "gone"},
        manual : BOOLEAN, todo : SUBSET Accounts, account : Accounts \cup {None},
        result : {"none", "ok", "reauth", "error"}, tries : 0 .. RetryLimit,
        seen : BOOLEAN, expired : BOOLEAN, blind : BOOLEAN, unclosed : BOOLEAN]]
  /\ row \in [Runs -> {"absent", "running", "finished", "failed"}]
  /\ marker \subseteq Accounts \X (0 .. LastDay)
  /\ attempt \subseteq Accounts
  /\ purpose \in [Accounts -> [on : BOOLEAN, status : {"active", "needs_reauth"}]]
  /\ rederiving \in Accounts \cup {None}
  /\ signed \subseteq Accounts \X (0 .. LastDay)
  /\ bound \in [patches : 0 .. Changes, crashes : 0 .. Changes]

\* Which of the free loops and run ids is taken makes no difference.
FirstLoop == CHOOSE l \in Loops : TRUE
FreeLoops == {l \in Loops : loop[l] = "free"}
FreeRuns == {r \in Runs : run[r].pc = "free"}

Start(l) == /\ current' = l
            /\ loop' = [loop EXCEPT ![l] = "start"]

Init ==
  /\ day = 0 /\ part = "before"
  /\ enabled = TRUE
  /\ current = FirstLoop
  /\ loop = [l \in Loops |-> IF l = FirstLoop THEN "start" ELSE "free"]
  /\ due = [l \in Loops |-> 0]
  /\ active = None
  /\ run = [r \in Runs |-> Idle]
  /\ row = [r \in Runs |-> "absent"]
  /\ marker = {} /\ attempt = {} /\ signed = {} /\ rederiving = None
  /\ purpose = [a \in Accounts |-> [on |-> TRUE, status |-> "active"]]
  /\ bound = [patches |-> 0, crashes |-> 0]

-----------------------------------------------------------------------------
(* Service.StartBatch.                                                     *)

Eligible == {a \in Accounts : purpose[a].on /\ purpose[a].status = "active"}

\* Mutation: the slot is taken whether or not it is free.
ClaimOccupied(manual, targets) ==
  /\ FreeRuns # {}
  /\ LET r == CHOOSE r \in FreeRuns : TRUE IN
       /\ active' = r
       /\ run' = [run EXCEPT ![r] = [Idle EXCEPT !.pc = "create", !.manual = manual,
                                                 !.todo = targets]]

\* claimRun with a new run id; the caller goes on once the row is created.
Claim(manual, targets) ==
  /\ active = None /\ FreeRuns # {}
  /\ LET r == CHOOSE r \in FreeRuns : TRUE IN
       /\ active' = r
       /\ run' = [run EXCEPT ![r] = [Idle EXCEPT !.pc = "create", !.manual = manual,
                                                 !.todo = targets]]

Goto(r, place) == run' = [run EXCEPT ![r].pc = place]

\* What a batch keeps from one account to the next.
Between(r, place) ==
  run' = [run EXCEPT ![r] = [Idle EXCEPT !.pc = place, !.manual = run[r].manual,
                                         !.todo = run[r].todo, !.expired = run[r].expired]]
Done(r) == run' = [run EXCEPT ![r] = [Idle EXCEPT !.pc = "gone", !.unclosed = run[r].unclosed]]

\* CreateCheckinRun.
RunCreates(r) ==
  /\ run[r].pc = "create"
  /\ row' = [row EXCEPT ![r] = "running"]
  /\ Goto(r, "resolve")
  /\ UNCHANGED <<clockVars, loopVars, active, marker, attempt, purpose, rederiving, signed, bound>>

\* Mutation: the slot is kept when the row cannot be created.
CreateFailureKeepsSlot(r) ==
  /\ run[r].pc = "create"
  /\ Done(r)
  /\ UNCHANGED <<clockVars, loopVars, active, rowVars, rederiving, signed, bound>>

\* It fails: the slot is given back.
CreateFails(r) ==
  /\ run[r].pc = "create"
  /\ active' = None
  /\ Done(r)
  /\ UNCHANGED <<clockVars, loopVars, rowVars, rederiving, signed, bound>>

\* resolveTargets: the chosen accounts, or all that are eligible by now.
RunResolves(r) ==
  /\ run[r].pc = "resolve"
  /\ run' = [run EXCEPT ![r].pc = "next",
                        ![r].todo = IF @ = {} THEN Eligible ELSE @]
  /\ UNCHANGED <<clockVars, loopVars, active, rowVars, rederiving, signed, bound>>

-----------------------------------------------------------------------------
(* Service.execute: one account after the other.                           *)

\* The marker of the local date of the moment.
Marked(a) == <<a, day>> \in marker

\* alreadyTerminal: a marker that cannot be read is none.
AlreadyTerminal(a, unread) == ~ unread /\ Marked(a)

\* runOne up to the call.  A scheduled batch skips the account of a marker that it can
\* read, and any batch an account whose credential it cannot read: a skipped account
\* leaves an attempt, if that can be stored, and no marker.
RunTakesAccount(r) ==
  /\ run[r].pc = "next" /\ ~ run[r].expired
  /\ \E a \in run[r].todo :
       LET rest == [run[r] EXCEPT !.todo = @ \ {a}] IN
       \/ /\ run' = [run EXCEPT ![r] = rest]
          /\ attempt' \in {attempt, attempt \ {a}}
       \/ \E unread \in IF run[r].manual THEN {FALSE} ELSE BOOLEAN :
            /\ run[r].manual \/ ~ AlreadyTerminal(a, unread)
            /\ run' = [run EXCEPT ![r] = [rest EXCEPT !.account = a, !.pc = "call",
                                                      !.tries = 0, !.blind = unread]]
            /\ UNCHANGED attempt
  /\ UNCHANGED <<clockVars, loopVars, active, row, marker, purpose, rederiving, signed, bound>>

Answered(r, place, result) ==
  run' = [run EXCEPT ![r].pc = place, ![r].result = result, ![r].tries = 0, ![r].blind = FALSE]

\* An answer that the upstream gives to the claim: signed in, now or before.
CallSucceeds(r) ==
  /\ run[r].pc = "call" /\ ~ run[r].expired
  /\ signed' = signed \cup {<<run[r].account, day>>}
  /\ Answered(r, "look", "ok")
  /\ UNCHANGED <<clockVars, loopVars, active, rowVars, rederiving, bound>>

\* The credential is refused.
CallRefused(r) ==
  /\ run[r].pc = "call" /\ ~ run[r].expired
  /\ Answered(r, "look", "reauth")
  /\ UNCHANGED <<clockVars, loopVars, active, rowVars, rederiving, signed, bound>>

\* Mutation: an off-by-one lets a batch try once more than the limit.
CallFailsOnceMore(r) ==
  /\ run[r].pc = "call"
  /\ \/ signed' = signed
     \/ ~ run[r].expired /\ signed' = signed \cup {<<run[r].account, day>>}
  /\ IF run[r].tries <= RetryLimit /\ ~ run[r].expired
     THEN run' = [run EXCEPT ![r].tries = @ + 1]
     ELSE Answered(r, "persist", "error")
  /\ UNCHANGED <<clockVars, loopVars, active, rowVars, rederiving, bound>>

\* Any other outcome, among them an answer that was lost after the upstream had
\* signed the account in; a retry if the outcome allows one and any is left.
CallFails(r) ==
  /\ run[r].pc = "call"
  /\ \/ signed' = signed
     \/ ~ run[r].expired /\ signed' = signed \cup {<<run[r].account, day>>}
  /\ IF run[r].tries < RetryLimit /\ ~ run[r].expired
     THEN run' = [run EXCEPT ![r].tries = @ + 1]
     ELSE Answered(r, "persist", "error")
  /\ UNCHANGED <<clockVars, loopVars, active, rowVars, rederiving, bound>>

\* updatePurpose reads the row.  Here as below a statement may fail, and under an
\* expired context it does; that is logged at most, and the batch goes on.
RunLooks(r) ==
  /\ run[r].pc = "look"
  /\ \/ ~ run[r].expired
        /\ run' = [run EXCEPT ![r].pc = "mirror", ![r].seen = purpose[run[r].account].on]
     \/ Goto(r, "persist")
  /\ UNCHANGED <<clockVars, loopVars, active, rowVars, rederiving, signed, bound>>

\* It writes the whole row back: a success also switches the purpose on.
RunMirrors(r) ==
  /\ run[r].pc = "mirror"
  /\ \/ /\ ~ run[r].expired
        /\ purpose' = [purpose EXCEPT ![run[r].account] =
             IF run[r].result = "ok" THEN [on |-> TRUE, status |-> "active"]
             ELSE [on |-> run[r].seen, status |-> "needs_reauth"]]
     \/ UNCHANGED purpose
  /\ run' = [run EXCEPT ![r].pc = "persist", ![r].seen = TRUE]
  /\ UNCHANGED <<clockVars, loopVars, active, row, marker, attempt, rederiving, signed, bound>>

\* Mutation: every attempt that was stored is followed by the marker.
PersistsAnyOutcome(r) ==
  /\ run[r].pc = "persist"
  /\ \/ Between(r, "next") /\ UNCHANGED attempt
     \/ /\ ~ run[r].expired /\ Goto(r, "mark")
        /\ attempt' = IF run[r].result = "ok" THEN attempt \cup {run[r].account}
                      ELSE attempt \ {run[r].account}
  /\ UNCHANGED <<clockVars, loopVars, active, row, marker, purpose, rederiving, signed, bound>>

\* UpsertCheckinAttempt.
RunPersists(r) ==
  /\ run[r].pc = "persist"
  /\ \/ Between(r, "next") /\ UNCHANGED attempt
     \/ /\ ~ run[r].expired /\ run[r].result = "ok"
        /\ Goto(r, "mark") /\ attempt' = attempt \cup {run[r].account}
     \/ /\ ~ run[r].expired /\ run[r].result # "ok"
        /\ Between(r, "next") /\ attempt' = attempt \ {run[r].account}
  /\ UNCHANGED <<clockVars, loopVars, active, row, marker, purpose, rederiving, signed, bound>>

\* UpsertCheckinDailyState: the marker of the local date of the moment.
RunMarks(r) ==
  /\ run[r].pc = "mark"
  /\ \/ ~ run[r].expired /\ marker' = marker \cup {<<run[r].account, day>>}
     \/ UNCHANGED marker
  /\ Between(r, "next")
  /\ UNCHANGED <<clockVars, loopVars, active, row, attempt, purpose, rederiving, signed, bound>>

\* execute returns, cancelled or at the end of its targets.
RunStops(r) ==
  /\ run[r].pc = "next" /\ (run[r].expired \/ run[r].todo = {})
  /\ Goto(r, "finish")
  /\ UNCHANGED <<clockVars, loopVars, active, rowVars, rederiving, signed, bound>>

Closes(r) == /\ ~ run[r].expired
             /\ row' = [row EXCEPT ![r] = "finished"]
             /\ Goto(r, "release")

\* Mutation: only the scheduler's runs are closed.
FinishesHalf(r) ==
  /\ run[r].pc = "finish"
  /\ \/ Closes(r)
     \/ run[r].manual /\ Goto(r, "release") /\ UNCHANGED row
     \/ UNCHANGED row /\ run' = [run EXCEPT ![r].pc = "release", ![r].unclosed = TRUE]
  /\ UNCHANGED <<clockVars, loopVars, active, marker, attempt, purpose, rederiving, signed, bound>>

\* FinishCheckinRun, under the context of the run.  Its failure is logged only: the
\* batch is over all the same, and its row stays as it is.
RunFinishes(r) ==
  /\ run[r].pc = "finish"
  /\ \/ Closes(r)
     \/ UNCHANGED row /\ run' = [run EXCEPT ![r].pc = "release", ![r].unclosed = TRUE]
  /\ UNCHANGED <<clockVars, loopVars, active, marker, attempt, purpose, rederiving, signed, bound>>

\* The deferred releaseRun.
RunReleases(r) ==
  /\ run[r].pc = "release"
  /\ active' = None
  /\ Done(r)
  /\ UNCHANGED <<clockVars, loopVars, rowVars, rederiving, signed, bound>>

\* The 30 minutes of a run are over.
RunExpires(r) ==
  /\ Live(r) /\ run[r].pc # "create" /\ ~ run[r].expired
  /\ run' = [run EXCEPT ![r].expired = TRUE]
  /\ UNCHANGED <<clockVars, loopVars, active, rowVars, rederiving, signed, bound>>

-----------------------------------------------------------------------------
(* Scheduler.                                                              *)

\* Closing done is what ends a loop, and only the present loop's is open.
Closed(l) == current # l

\* durationUntilNextRun: today's time if it is ahead, else tomorrow's.
NextDue == IF part = "before" THEN day ELSE day + 1

\* maybeCatchUp: within the window and with somebody left, wait a little.  A
\* marker that cannot be read counts as none, and so does one that was stored
\* under the configured zone when another is set at run time, so the catch-up may
\* start although everybody is done.
LoopConsiders(l) ==
  /\ loop[l] = "start"
  /\ \/ /\ part = "window" /\ Eligible # {}
        /\ loop' = [loop EXCEPT ![l] = "jitter"] /\ UNCHANGED due
     \/ /\ part # "window" \/ \A a \in Eligible : Marked(a)
        /\ loop' = [loop EXCEPT ![l] = "wait"] /\ due' = [due EXCEPT ![l] = NextDue]
  /\ UNCHANGED <<clockVars, enabled, current, active, run, rowVars, rederiving, signed, bound>>

\* The jitter is over, or the loop was closed: if both, select takes either.
LoopWaited(l) ==
  /\ loop[l] = "jitter"
  /\ \/ loop' = [loop EXCEPT ![l] = "catchup"] /\ UNCHANGED due
     \/ /\ Closed(l)
        /\ loop' = [loop EXCEPT ![l] = "wait"] /\ due' = [due EXCEPT ![l] = NextDue]
  /\ UNCHANGED <<clockVars, enabled, current, active, run, rowVars, rederiving, signed, bound>>

\* The scheduled time has come.
LoopFires(l) ==
  /\ loop[l] = "wait"
  /\ day > due[l] \/ (day = due[l] /\ part # "before")
  /\ loop' = [loop EXCEPT ![l] = "launch"] /\ due' = [due EXCEPT ![l] = 0]
  /\ UNCHANGED <<clockVars, enabled, current, active, run, rowVars, rederiving, signed, bound>>

\* launch: a batch over everybody that skips the accounts of today's markers, or
\* nothing if a batch is under way.
LoopLaunches(l) ==
  /\ loop[l] \in {"launch", "catchup"}
  /\ loop' = [loop EXCEPT ![l] = "wait"] /\ due' = [due EXCEPT ![l] = NextDue]
  /\ \/ Claim(FALSE, {})
     \/ active # None /\ UNCHANGED <<active, run>>
  /\ UNCHANGED <<clockVars, enabled, current, rowVars, rederiving, signed, bound>>

\* A closed loop ends where it waits.
LoopEnds(l) ==
  /\ loop[l] = "wait" /\ Closed(l)
  /\ loop' = [loop EXCEPT ![l] = "free"] /\ due' = [due EXCEPT ![l] = 0]
  /\ UNCHANGED <<clockVars, enabled, current, active, run, rowVars, rederiving, signed, bound>>

-----------------------------------------------------------------------------
(* Administrator, process and clock.                                       *)

Patch == /\ bound.patches + bound.crashes < Changes
         /\ bound' = [bound EXCEPT !.patches = @ + 1]

\* POST /api/admin/checkin/run: chosen accounts, or all, whatever the markers say.
ManualRun ==
  /\ \E targets \in SUBSET Accounts : Claim(TRUE, targets)
  /\ UNCHANGED <<clockVars, loopVars, rowVars, rederiving, signed, bound>>

\* Reconfigure after a setting was stored: the old loop is closed and, unless
\* switched off, a new one starts.
Reconfigure ==
  /\ Patch
  /\ enabled' \in BOOLEAN
  /\ IF enabled'
     THEN FreeLoops # {} /\ Start(CHOOSE l \in FreeLoops : TRUE)
     ELSE current' = None /\ UNCHANGED loop
  /\ UNCHANGED <<clockVars, due, active, run, rowVars, rederiving, signed>>

\* Stop, when the process shuts down.
StopScheduler ==
  /\ Patch
  /\ current' = None
  /\ UNCHANGED <<clockVars, enabled, loop, due, active, run, rowVars, rederiving, signed>>

\* An administrator edits the purpose, or an import makes it active again.
PatchPurpose ==
  /\ Patch
  /\ \E a \in Accounts, on \in BOOLEAN :
       purpose' = [purpose EXCEPT ![a] = [on |-> on, status |-> "active"]]
  /\ UNCHANGED <<clockVars, loopVars, active, run, row, marker, attempt, rederiving, signed>>

\* handleRederiveCheckin reads the latest attempt of an account, outside of any batch.
RederiveReads ==
  /\ Patch
  /\ rederiving = None /\ rederiving' \in attempt
  /\ UNCHANGED <<clockVars, loopVars, active, run, rowVars, signed>>

\* If that was a sign-in it writes the marker of the local date of the moment, if it
\* can.  A batch that is past its look at the markers does not know of it.
RederiveMarks ==
  /\ rederiving # None /\ rederiving' = None
  /\ \/ /\ marker' = marker \cup {<<rederiving, day>>}
        /\ run' = [r \in Runs |-> IF run[r].pc = "call" /\ run[r].account = rederiving
                                  THEN [run[r] EXCEPT !.blind = TRUE] ELSE run[r]]
     \/ UNCHANGED <<marker, run>>
  /\ UNCHANGED <<clockVars, loopVars, active, row, attempt, purpose, signed, bound>>

\* The process ends and starts again: rows stay, goroutines and the slot do not.
Restart ==
  /\ bound.patches + bound.crashes < Changes
  /\ bound' = [bound EXCEPT !.crashes = @ + 1]
  /\ active' = None
  /\ run' = [r \in Runs |-> IF Live(r) THEN [Idle EXCEPT !.pc = "gone"] ELSE run[r]]
  /\ current' = IF enabled THEN FirstLoop ELSE None
  /\ loop' = [l \in Loops |-> IF enabled /\ l = FirstLoop THEN "start" ELSE "free"]
  /\ due' = [l \in Loops |-> 0]
  /\ rederiving' = None
  /\ UNCHANGED <<clockVars, enabled, rowVars, signed>>

\* Time goes on, over midnight too, whatever is under way.
Tick ==
  /\ CASE part = "before" -> part' = "window" /\ UNCHANGED day
       [] part = "window" -> part' = "late" /\ UNCHANGED day
       [] part = "late" -> part' = "before" /\ day < LastDay /\ day' = day + 1
  /\ UNCHANGED <<loopVars, active, run, rowVars, rederiving, signed, bound>>

-----------------------------------------------------------------------------

RunStep(r) ==
  \/ RunCreates(r) \/ CreateFails(r) \/ RunResolves(r) \/ RunTakesAccount(r)
  \/ CallSucceeds(r) \/ CallRefused(r) \/ CallFails(r)
  \/ RunLooks(r) \/ RunMirrors(r) \/ RunPersists(r) \/ RunMarks(r)
  \/ RunStops(r) \/ RunFinishes(r) \/ RunReleases(r)

LoopStep(l) ==
  \/ LoopConsiders(l) \/ LoopWaited(l) \/ LoopFires(l) \/ LoopLaunches(l) \/ LoopEnds(l)

Next ==
  \/ \E r \in Runs : RunStep(r) \/ RunExpires(r)
  \/ \E l \in Loops : LoopStep(l)
  \/ ManualRun \/ Reconfigure \/ StopScheduler \/ PatchPurpose
  \/ RederiveReads \/ RederiveMarks \/ Restart \/ Tick

Spec == Init /\ [][Next]_vars

-----------------------------------------------------------------------------
(* Properties.                                                             *)

\* claimRun: the batch goroutine that is alive is the one that holds the slot,
\* through failing creations, deadlines and restarts.
OneRunAtATime == \A r \in Runs : Live(r) <=> active = r

\* A run row that says "running" belongs to the batch under way; or its batch was cut
\* off by the end of the process, or the one statement that closes it failed, as it does
\* after the deadline.  Nothing else leaves a row open: no failing account, no retry,
\* and no batch that took the slot meanwhile.
OpenRowHasReason ==
  \A r \in Runs :
    row[r] = "running" => active = r \/ run[r].unclosed \/ bound.crashes > 0

\* alreadyTerminal and persistAttempt read the date separately, so the marker of
\* a day may stem from a sign-in before midnight, and handleRederiveCheckin takes the
\* date of the moment for the latest attempt, however old; a marker never comes from
\* anything but a sign-in of its account, and never from one that is still to come.
MarkerFollowsSignIn ==
  \A a \in Accounts, d \in 0 .. LastDay :
    <<a, d>> \in marker => \E e \in 0 .. d : <<a, e>> \in signed

\* skipAlreadyDone: a scheduled or catch-up batch never calls the upstream for an
\* account whose sign-in of today is recorded, though the check and the call are
\* apart: it takes the slot for no other batch to record it in between.  Excepted are
\* a marker that the batch could not read and one that handleRederiveCheckin, which
\* takes no slot, wrote after the check.
ScheduleSkipsDone ==
  [][\A r \in Runs :
       run[r].pc = "call" /\ ~ run[r].manual /\ ~ run[r].blind /\ run'[r].pc # "gone"
         /\ run'[r] # run[r] /\ run'[r].expired = run[r].expired
       => <<run[r].account, day>> \notin marker]_vars

\* persistAttempt "writes the per-account attempt and, on success, the day
\* marker" (service.go:330): a marker stands for a sign-in of its own day.
MarkerIsOfItsDay == marker \subseteq signed
=============================================================================
