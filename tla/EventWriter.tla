----------------------------- MODULE EventWriter -----------------------------
(***************************************************************************)
(* The telemetry batch writer (internal/store/telemetry.go, EventWriter)    *)
(* with the goroutines that use it: a request handler enqueues one event    *)
(* and may flush the full batch itself, a timer callback flushes what has   *)
(* gathered, and main (cmd/qb2api/main.go) stops and flushes the writer     *)
(* when the process shuts down.                                             *)
(*                                                                         *)
(* A flush is three critical sections, and anything may happen in between:  *)
(* the pending batch is taken under EventWriter.mu, written under           *)
(* DB.writeMu, and counted under EventWriter.mu.  Other writers of the      *)
(* database compete for writeMu.  time.Timer.Stop does not stop a callback  *)
(* that already started, and the callback of one timer may find, take and   *)
(* disarm what belongs to the next.                                         *)
(***************************************************************************)
EXTENDS Integers, FiniteSets

CONSTANTS
  Events,      \* request events, each with the handler that enqueues it
  Callbacks,   \* bound: timer callbacks that can be under way at once
  Main,        \* the goroutine of main
  Other,       \* any other writer of the database
  None,        \* no timer, no holder of writeMu
  MaxBatch,    \* maxBatch: a batch this large is flushed by its handler
  DiskMayFail  \* whether a write transaction may fail by itself

Procs == Events \cup Callbacks \cup {Main}

ASSUME WriterAssumption ==
  /\ IsFiniteSet(Events)
  /\ Events \cap Callbacks = {}
  /\ Main \notin Events \cup Callbacks
  /\ None \notin Procs /\ Other \notin Procs /\ None # Other
  /\ MaxBatch \in Nat \ {0}
  /\ DiskMayFail \in BOOLEAN

VARIABLES
  pending,  \* w.pending
  timer,    \* w.timer: the callback of the timer it points to
  stopped,  \* w.stopped
  written,  \* w.written
  dropped,  \* w.dropped
  writer,   \* holder of DB.writeMu
  rows,     \* events in request_events
  pc,       \* where each goroutine is
  batch,    \* the batch each goroutine took
  stage,    \* how far main is
  expired   \* the shutdown context of main is over

writerVars == <<pending, timer, stopped, written, dropped>>
dbVars == <<writer, rows>>
mainVars == <<stage, expired>>
vars == <<writerVars, dbVars, pc, batch, mainVars>>

\* The steps of Flush: about to take the batch, waiting for writeMu, in the
\* transaction, and after it with or without an error.
Flushing == {"flush", "lock", "write", "committed", "failed"}

TypeOK ==
  /\ pending \subseteq Events
  /\ timer \in Callbacks \cup {None}
  /\ stopped \in BOOLEAN
  /\ written \in Nat /\ dropped \in Nat
  /\ writer \in Procs \cup {Other, None}
  /\ rows \subseteq Events
  /\ \A e \in Events : pc[e] \in {"absent", "running", "done", "refused"} \cup Flushing
  /\ \A c \in Callbacks : pc[c] \in {"free", "armed"} \cup Flushing
  /\ pc[Main] \in {"idle"} \cup Flushing
  /\ DOMAIN pc = Procs
  /\ batch \in [Procs -> SUBSET Events]
  /\ stage \in {"serving", "draining", "closing", "deferred", "exiting", "exited"}
  /\ expired \in BOOLEAN

Init ==
  /\ pending = {} /\ timer = None /\ stopped = FALSE
  /\ written = 0 /\ dropped = 0
  /\ writer = None /\ rows = {}
  /\ pc = [p \in Procs |-> IF p \in Events THEN "absent"
                           ELSE IF p = Main THEN "idle" ELSE "free"]
  /\ batch = [p \in Procs |-> {}]
  /\ stage = "serving" /\ expired = FALSE

-----------------------------------------------------------------------------
(* Request handlers.                                                       *)

\* The process has not ended.
Running == stage # "exited"

\* A request is accepted as long as the server listens.
Arrive(e) ==
  /\ pc[e] = "absent" /\ stage = "serving"
  /\ pc' = [pc EXCEPT ![e] = "running"]
  /\ UNCHANGED <<writerVars, dbVars, batch, mainVars>>

\* Enqueue on a stopped writer counts the event as dropped.
EnqueueRefused(e) ==
  /\ Running /\ pc[e] = "running" /\ stopped
  /\ dropped' = dropped + 1
  /\ pc' = [pc EXCEPT ![e] = "refused"]
  /\ UNCHANGED <<pending, timer, stopped, written, dbVars, batch, mainVars>>

\* Mutation: the handler does not look whether the writer is stopped.
EnqueueFullAfterStop(e) ==
  /\ Running /\ pc[e] = "running"
  /\ pending' = pending \cup {e}
  /\ Cardinality(pending') >= MaxBatch
  /\ pc' = [pc EXCEPT ![e] = "flush"]
  /\ UNCHANGED <<timer, stopped, written, dropped, dbVars, batch, mainVars>>

\* Enqueue that fills the batch: the handler flushes it itself.
EnqueueFull(e) ==
  /\ Running /\ pc[e] = "running" /\ ~ stopped
  /\ pending' = pending \cup {e}
  /\ Cardinality(pending') >= MaxBatch
  /\ pc' = [pc EXCEPT ![e] = "flush"]
  /\ UNCHANGED <<timer, stopped, written, dropped, dbVars, batch, mainVars>>

\* Enqueue into a batch with room: a timer is started unless there is one.
EnqueueUnderTimer(e) ==
  /\ Running /\ pc[e] = "running" /\ ~ stopped
  /\ pending' = pending \cup {e}
  /\ Cardinality(pending') < MaxBatch
  /\ IF timer = None
     THEN \E c \in Callbacks :
            /\ pc[c] = "free"
            /\ timer' = c
            /\ pc' = [pc EXCEPT ![e] = "done", ![c] = "armed"]
     ELSE pc' = [pc EXCEPT ![e] = "done"] /\ UNCHANGED timer
  /\ UNCHANGED <<stopped, written, dropped, dbVars, batch, mainVars>>

\* The timer runs out: its callback is a goroutine that calls Flush.
TimerFires(c) ==
  /\ Running /\ pc[c] = "armed"
  /\ pc' = [pc EXCEPT ![c] = "flush"]
  /\ UNCHANGED <<writerVars, dbVars, batch, mainVars>>

-----------------------------------------------------------------------------
(* Flush.                                                                  *)

\* Mutation: main is taken for a callback when its Flush returns.
AfterForgetsMain(p) == IF p \in Events THEN "done" ELSE "free"

\* Where a goroutine goes when its Flush returns.
After(p) == IF p \in Events THEN "done" ELSE IF p = Main THEN "idle" ELSE "free"

\* Timer.Stop: a callback that did not start yet never will.
StopTimer == IF timer # None /\ pc[timer] = "armed"
             THEN [pc EXCEPT ![timer] = "free"] ELSE pc

\* Mutation: the pointer to a timer that fired is kept.
TakeKeepsTimer(p) ==
  /\ Running /\ pc[p] = "flush"
  /\ batch' = [batch EXCEPT ![p] = pending]
  /\ pending' = {}
  /\ timer' = IF timer = p THEN timer ELSE None
  /\ pc' = [StopTimer EXCEPT ![p] = IF pending = {} THEN After(p) ELSE "lock"]
  /\ UNCHANGED <<stopped, written, dropped, dbVars, mainVars>>

\* The first section of Flush: take the batch, disarm the timer, and return if
\* there is nothing to write.
Take(p) ==
  /\ Running /\ pc[p] = "flush"
  /\ batch' = [batch EXCEPT ![p] = pending]
  /\ pending' = {}
  /\ timer' = None
  /\ pc' = [StopTimer EXCEPT ![p] = IF pending = {} THEN After(p) ELSE "lock"]
  /\ UNCHANGED <<stopped, written, dropped, dbVars, mainVars>>

\* DB.Write: take writeMu.
LockDB(p) ==
  /\ Running /\ pc[p] = "lock" /\ writer = None
  /\ writer' = p
  /\ pc' = [pc EXCEPT ![p] = "write"]
  /\ UNCHANGED <<writerVars, rows, batch, mainVars>>

\* The context of p's Flush is over: only main's first Close has a context that
\* was running before it, and the server's grace period may have used it up.
ContextOver(p) == p = Main /\ stage = "closing" /\ expired

\* The transaction commits and writeMu is unlocked.
Commit(p) ==
  /\ Running /\ pc[p] = "write" /\ ~ ContextOver(p)
  /\ rows' = rows \cup batch[p]
  /\ writer' = None
  /\ pc' = [pc EXCEPT ![p] = "committed"]
  /\ UNCHANGED <<writerVars, batch, mainVars>>

\* Mutation: the events inserted before the error stay.
RollbackInPart(p) ==
  /\ Running /\ pc[p] = "write" /\ (DiskMayFail \/ ContextOver(p))
  /\ \E part \in SUBSET batch[p] : rows' = rows \cup part
  /\ writer' = None
  /\ pc' = [pc EXCEPT ![p] = "failed"]
  /\ UNCHANGED <<writerVars, batch, mainVars>>

\* The transaction is rolled back and writeMu is unlocked.
Rollback(p) ==
  /\ Running /\ pc[p] = "write" /\ (DiskMayFail \/ ContextOver(p))
  /\ writer' = None
  /\ pc' = [pc EXCEPT ![p] = "failed"]
  /\ UNCHANGED <<writerVars, rows, batch, mainVars>>

\* Mutation: a failed batch goes back to the pending events.
CountRetries(p) ==
  /\ Running /\ pc[p] \in {"committed", "failed"}
  /\ written' = written + Cardinality(batch[p])
  /\ dropped' = IF pc[p] = "failed" THEN dropped + Cardinality(batch[p])
                ELSE dropped
  /\ pending' = IF pc[p] = "failed" THEN pending \cup batch[p] ELSE pending
  /\ batch' = [batch EXCEPT ![p] = {}]
  /\ pc' = [pc EXCEPT ![p] = After(p)]
  /\ UNCHANGED <<timer, stopped, dbVars, mainVars>>

\* The last section of Flush: count the batch, a failed one as dropped too.
Count(p) ==
  /\ Running /\ pc[p] \in {"committed", "failed"}
  /\ written' = written + Cardinality(batch[p])
  /\ dropped' = IF pc[p] = "failed" THEN dropped + Cardinality(batch[p])
                ELSE dropped
  /\ batch' = [batch EXCEPT ![p] = {}]
  /\ pc' = [pc EXCEPT ![p] = After(p)]
  /\ UNCHANGED <<pending, timer, stopped, dbVars, mainVars>>

\* Another write transaction of the process.
OtherLocks ==
  /\ Running /\ writer = None /\ writer' = Other
  /\ UNCHANGED <<writerVars, rows, pc, batch, mainVars>>
OtherUnlocks ==
  /\ Running /\ writer = Other /\ writer' = None
  /\ UNCHANGED <<writerVars, rows, pc, batch, mainVars>>

-----------------------------------------------------------------------------
(* main.                                                                   *)

\* A signal: the server stops listening and waits for its handlers.
Signal ==
  /\ stage = "serving" /\ stage' = "draining"
  /\ UNCHANGED <<writerVars, dbVars, pc, batch, expired>>

\* The listener fails: only the deferred calls of main run.
ListenFails ==
  /\ stage = "serving" /\ stage' = "deferred"
  /\ UNCHANGED <<writerVars, dbVars, pc, batch, expired>>

\* The 20 seconds of the shutdown context are over.
GraceExpires ==
  /\ stage \in {"draining", "closing"} /\ ~ expired
  /\ expired' = TRUE
  /\ UNCHANGED <<writerVars, dbVars, pc, batch, stage>>

HandlersDone == \A e \in Events : pc[e] \in {"absent", "done", "refused"}

\* Mutation: Close flushes before it refuses further events.
CloseStopsLast(next) ==
  /\ pc' = [pc EXCEPT ![Main] = "flush"]
  /\ stage' = next
  /\ UNCHANGED <<writerVars, dbVars, batch, expired>>

\* The first half of EventWriter.Close; the second is a Flush.
Close(next) ==
  /\ stopped' = TRUE
  /\ pc' = [pc EXCEPT ![Main] = "flush"]
  /\ stage' = next
  /\ UNCHANGED <<pending, timer, written, dropped, dbVars, batch, expired>>

\* Server.Shutdown returns, and main closes the writer.
CloseAfterDrain ==
  /\ stage = "draining" /\ (HandlersDone \/ expired)
  /\ Close("closing")

\* DB.Checkpoint, on the only connection.
Checkpoint ==
  /\ stage = "closing" /\ pc[Main] = "idle" /\ (writer = None \/ expired)
  /\ stage' = "deferred"
  /\ UNCHANGED <<writerVars, dbVars, pc, batch, expired>>

\* The deferred Close, with a context of its own.
CloseDeferred == stage = "deferred" /\ Close("exiting")

\* The deferred DB.Close and the end of the process.
Exit ==
  /\ stage = "exiting" /\ pc[Main] = "idle"
  /\ stage' = "exited"
  /\ UNCHANGED <<writerVars, dbVars, pc, batch, expired>>

-----------------------------------------------------------------------------

Flush(p) == Take(p) \/ LockDB(p) \/ Commit(p) \/ Rollback(p) \/ Count(p)

Enqueue(e) == EnqueueRefused(e) \/ EnqueueFull(e) \/ EnqueueUnderTimer(e)

Shutdown == CloseAfterDrain \/ Checkpoint \/ CloseDeferred \/ Exit

\* Nothing happens after the process has ended.
Ended == stage = "exited" /\ UNCHANGED vars

Next ==
  \/ \E e \in Events : Arrive(e) \/ Enqueue(e)
  \/ \E c \in Callbacks : TimerFires(c)
  \/ \E p \in Procs : Flush(p)
  \/ OtherLocks \/ OtherUnlocks
  \/ Signal \/ ListenFails \/ GraceExpires
  \/ Shutdown
  \/ Ended

Spec == Init /\ [][Next]_vars

\* A goroutine that can go on does, a timer runs out, a write transaction ends,
\* and sync.Mutex does not starve a waiter of writeMu for ever.
GoesOn(p) ==
  \/ p \in Callbacks /\ TimerFires(p)
  \/ Take(p) \/ Commit(p) \/ Rollback(p) \/ Count(p)
FlushFairness ==
  /\ \A p \in Procs : WF_vars(GoesOn(p)) /\ SF_vars(LockDB(p))
  /\ WF_vars(OtherUnlocks)

FairSpec == Spec /\ FlushFairness

-----------------------------------------------------------------------------
(* Where the events are.                                                   *)

Refused == {e \in Events : pc[e] = "refused"}
Accepted == {e \in Events : pc[e] \notin {"absent", "running", "refused"}}
Taken == UNION {batch[p] : p \in Procs}

\* Accepted events whose batch is written or failed, and counted.
Settled == Accepted \ (pending \cup Taken)

-----------------------------------------------------------------------------
(* Properties.                                                             *)

\* An event waits only while someone will come for it: the timer that w.timer
\* points to is running or its callback is about to take the batch, or another
\* Flush is.  A late callback that disarms its successor's timer takes the
\* successor's events along.
NoStrandedEvents ==
  pending # {} => \/ \E p \in Procs : pc[p] = "flush"
                  \/ timer # None /\ pc[timer] = "armed"

\* The counters the admin view shows account for every event exactly once:
\* written counts the settled events, and dropped those of them that are not in
\* the table together with the refused ones.
StatsAddUp ==
  /\ written = Cardinality(Settled)
  /\ dropped = Cardinality(Refused) + Cardinality(Settled \ rows)

\* Every accepted event is in one place: pending, in one goroutine's batch, or
\* settled; and no event is stored twice or stored while it waits.
OnePlace ==
  /\ pending \cup Taken \subseteq Accepted
  /\ \A p \in Procs : batch[p] \cap pending = {}
  /\ \A p, q \in Procs : p # q => batch[p] \cap batch[q] = {}
  /\ rows \cap pending = {}
  /\ \A p \in Procs : pc[p] \in {"lock", "write", "failed"} => batch[p] \cap rows = {}

\* Once the process has ended no event is left pending: after the last Close
\* nobody adds to what it took.
NothingPendingAtExit == stage = "exited" => pending = {}

\* Every accepted event is settled, unless the process ends first.
EventsSettle ==
  \A e \in Events : e \in Accepted ~> (e \in Settled \/ stage = "exited")

\* What the ledger says of each event.
LedgerState == [e \in Events |->
  IF e \in Refused THEN "refused"
  ELSE IF e \notin Accepted THEN "new"
  ELSE IF e \in rows THEN "stored"
  ELSE IF e \in Settled THEN "lost" ELSE "buffered"]

\* The writer implements the ledger of events.
Bar == INSTANCE EventLedger WITH state <- LedgerState
ImplementsLedger == Bar!Spec

\* telemetry.go:149 and 94-95: "Close flushes and stops the writer", and Flush
\* is safe "from the shutdown path": no accepted event is cut off by the exit.
CloseFlushes == stage = "exited" => Accepted \subseteq Settled
=============================================================================
