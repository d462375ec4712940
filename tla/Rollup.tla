------------------------------- MODULE Rollup -------------------------------
(***************************************************************************)
(* Usage rollups (store/telemetry.go RollupOnce): rounds of the background  *)
(* loop and of the console recount the minute, the day and the month of     *)
(* their instant from the event details and then prune the details.  All    *)
(* events belong to one provider, account and model: one group.  A minute   *)
(* is a tick of the clock.                                                 *)
(***************************************************************************)
EXTENDS Integers, FiniteSets, FiniteSetsExt

CONSTANTS
  Rounds,     \* goroutines that may run RollupOnce at the same time
  Retentions, \* retentions in force: runtime override or the environment's, in days
  Day,        \* minutes of a day, scaled down
  Month,      \* minutes of a month, a multiple of Day
  LastTick,   \* bound: the clock
  MaxEvents   \* bound: request events

Ticks == 0 .. LastTick
Kinds == {"minute", "day", "month"}

VARIABLES
  clock,      \* the minute it is
  stored,     \* request_events: details by the minute in which they started
  landed,     \* events written so far
  bucket,     \* usage_rollups.request_count by kind and start, 0 without a row
  round,      \* each goroutine
  disturbed   \* history: rounds overlapped, or a month lost details while it was open

vars == <<clock, stored, landed, bucket, round, disturbed>>

NoRound == [at |-> "idle", now |-> 0, read |-> [t \in Ticks |-> 0]]

TypeOK ==
  /\ clock \in Ticks
  /\ stored \in [Ticks -> 0 .. MaxEvents] /\ landed \in 0 .. MaxEvents
  /\ bucket \in [Kinds -> [Ticks -> 0 .. MaxEvents]]
  /\ round \in [Rounds -> [at : {"idle", "read", "write", "prune"}, now : Ticks,
                           read : [Ticks -> 0 .. MaxEvents]]]
  /\ disturbed \in BOOLEAN

Init ==
  /\ clock = 0
  /\ stored = [t \in Ticks |-> 0] /\ landed = 0
  /\ bucket = [k \in Kinds |-> [t \in Ticks |-> 0]]
  /\ round = [r \in Rounds |-> NoRound]
  /\ disturbed = FALSE

-----------------------------------------------------------------------------
(* RollupWindows: the nested windows of an instant.                        *)

Start(kind, now) ==
  CASE kind = "minute" -> now
    [] kind = "day"    -> now - (now % Day)
    [] kind = "month"  -> now - (now % Month)

Window(kind, now) == {t \in Ticks : Start(kind, t) = Start(kind, now)}

\* aggregate
Count(read, window) == MapThenSumSet(LAMBDA t : read[t], window)

-----------------------------------------------------------------------------
(* Events and the clock.                                                   *)

\* The event of a request that started in a minute of the past or the present.
Land(t) ==
  /\ t <= clock /\ landed < MaxEvents
  /\ stored' = [stored EXCEPT ![t] = @ + 1]
  /\ landed' = landed + 1
  /\ UNCHANGED <<clock, bucket, round, disturbed>>

Tick ==
  /\ clock < LastTick
  /\ clock' = clock + 1
  /\ UNCHANGED <<stored, landed, bucket, round, disturbed>>

-----------------------------------------------------------------------------
(* RollupOnce.                                                             *)

\* The instant of the round is taken once.
Begin(r) ==
  /\ round[r].at = "idle"
  /\ round' = [round EXCEPT ![r] = [NoRound EXCEPT !.at = "read", !.now = clock]]
  /\ disturbed' = (disturbed \/ \E o \in Rounds : round[o].at # "idle")
  /\ UNCHANGED <<clock, stored, landed, bucket>>

\* Mutation: the month is counted from the details of the day.
ReadsTheDay(r) ==
  /\ round[r].at = "read"
  /\ round' = [round EXCEPT ![r].at = "write",
       ![r].read = [t \in Ticks |-> IF t \in Window("day", round[r].now) THEN stored[t] ELSE 0]]
  /\ UNCHANGED <<clock, stored, landed, bucket, disturbed>>

\* EventsBetween over the widest window.
Read(r) ==
  /\ round[r].at = "read"
  /\ round' = [round EXCEPT ![r].at = "write",
       ![r].read = [t \in Ticks |-> IF t \in Window("month", round[r].now) THEN stored[t] ELSE 0]]
  /\ UNCHANGED <<clock, stored, landed, bucket, disturbed>>

\* The buckets in one transaction; a group without events has none to write.
Recounted(kind, r) ==
  LET n == Count(round[r].read, Window(kind, round[r].now))
  IN IF n = 0 THEN bucket[kind]
     ELSE [bucket[kind] EXCEPT ![Start(kind, round[r].now)] = n]

Write(r) ==
  /\ round[r].at = "write"
  /\ bucket' = [k \in Kinds |-> Recounted(k, r)]
  /\ round' = [round EXCEPT ![r].at = "prune"]
  /\ UNCHANGED <<clock, stored, landed, disturbed>>

\* PruneRequestEvents: the loop keeps the days of the runtime setting, the
\* console's round those of the environment.
Prune(r) ==
  /\ round[r].at = "prune"
  /\ \E days \in Retentions :
       LET old == {t \in Ticks : t < round[r].now - Day * days}
       IN /\ stored' = [t \in Ticks |-> IF t \in old THEN 0 ELSE stored[t]]
          /\ disturbed' = (disturbed \/ \E t \in old \cap Window("month", clock) : stored[t] > 0)
  /\ round' = [round EXCEPT ![r] = NoRound]
  /\ UNCHANGED <<clock, landed, bucket>>

\* A statement fails, the two minutes are over, or the process ends: what is
\* committed stays, the rest waits for a later round.
Fails(r) ==
  /\ round[r].at # "idle"
  /\ round' = [round EXCEPT ![r] = NoRound]
  /\ UNCHANGED <<clock, stored, landed, bucket, disturbed>>

Next ==
  \/ \E t \in Ticks : Land(t)
  \/ Tick
  \/ \E r \in Rounds : Begin(r) \/ Read(r) \/ Write(r) \/ Prune(r) \/ Fails(r)

Spec == Init /\ [][Next]_vars

-----------------------------------------------------------------------------
(* Properties.                                                             *)

\* RollupOnce: "The windows nest (minute, day, month)": the minutes and the days
\* of the tables never claim more than the day and the month around them, although
\* the three were last written by different rounds, events land late and rounds
\* fail.  Overlapping rounds and the pruning of an open month are excepted.
BucketsNest ==
  ~ disturbed =>
    \A t \in Ticks :
      /\ Count(bucket["minute"], Window("day", t)) <= bucket["day"][Start("day", t)]
      /\ Count(bucket["day"], Window("month", t)) <= bucket["month"][Start("month", t)]

\* "Lowering the retention ... aggregated statistics are not affected"
\* (the confirmation of the settings page, SettingsPage.vue): no bucket loses
\* events that it has counted.
TotalsStay == [][\A k \in Kinds : \A t \in Ticks : bucket'[k][t] >= bucket[k][t]]_vars
=============================================================================
