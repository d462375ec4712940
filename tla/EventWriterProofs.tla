-------------------------- MODULE EventWriterProofs --------------------------
(***************************************************************************)
(* Theorems about EventWriter, for any number of requests, timer callbacks  *)
(* and any size of a batch.                                                *)
(*                                                                         *)
(* Where an event is and how it is counted depends on few of the steps: one *)
(* event is accepted or refused, a batch is taken, committed or counted,    *)
(* and whatever else happens leaves all that alone.  StepKinds says so, and *)
(* the invariants of the events, the counters and the refinement of         *)
(* EventLedger are proved over these kinds.                                *)
(***************************************************************************)
EXTENDS EventWriter, FiniteSetTheorems, TLAPS

Places == {"absent", "running", "done", "refused", "free", "armed", "idle"} \cup Flushing

\* TypeOK, with pc as a function.
TypeInv == TypeOK /\ pc \in [Procs -> Places]

-----------------------------------------------------------------------------
(* Types.                                                                  *)

LEMMA TypeInit == Init => TypeInv
<1> SUFFICES ASSUME Init PROVE TypeInv
  OBVIOUS
<1> USE WriterAssumption DEF WriterAssumption, Procs
<1>1. pc \in [Procs -> Places]
  BY DEF Init, Places
<1>2. /\ \A e \in Events : pc[e] = "absent"
      /\ \A c \in Callbacks : pc[c] = "free"
      /\ pc[Main] = "idle"
  BY DEF Init
<1> QED BY <1>1, <1>2 DEF Init, TypeInv, TypeOK

\* Every goroutine is a handler, a callback or main, and of one kind only.
LEMMA Kinds ==
  /\ Main \in Procs /\ Main \notin Events /\ Main \notin Callbacks
  /\ \A e \in Events : e \in Procs /\ e \notin Callbacks /\ e # Main
  /\ \A c \in Callbacks : c \in Procs /\ c \notin Events /\ c # Main
  /\ \A p \in Procs : p \in Events \/ p \in Callbacks \/ p = Main
BY WriterAssumption DEF WriterAssumption, Procs

\* Where goroutines of each kind can be.
PcType(f) ==
  /\ f \in [Procs -> Places]
  /\ \A e \in Events : f[e] \in {"absent", "running", "done", "refused"} \cup Flushing
  /\ \A c \in Callbacks : f[c] \in {"free", "armed"} \cup Flushing
  /\ f[Main] \in {"idle"} \cup Flushing

LEMMA PcTypeMoves ==
  ASSUME NEW f, PcType(f), NEW p \in Procs, NEW x,
         \/ x \in Flushing
         \/ p \in Events /\ x \in {"absent", "running", "done", "refused"}
         \/ p \in Callbacks /\ x \in {"free", "armed"}
         \/ p = Main /\ x = "idle"
  PROVE  PcType([f EXCEPT ![p] = x])
<1>1. x \in Places
  BY DEF Places
<1> QED BY <1>1, Kinds DEF PcType

LEMMA StopTimerMoves ==
  ASSUME TypeInv
  PROVE  /\ PcType(StopTimer)
         /\ \A p \in Procs : StopTimer[p] # pc[p] =>
              p = timer /\ p \in Callbacks /\ pc[p] = "armed" /\ StopTimer[p] = "free"
<1>1. PcType(pc)
  BY DEF TypeInv, TypeOK, PcType
<1>2. CASE timer # None /\ pc[timer] = "armed"
  <2>1. timer \in Callbacks /\ StopTimer = [pc EXCEPT ![timer] = "free"]
    BY <1>2 DEF TypeInv, TypeOK, StopTimer
  <2> QED BY <1>1, <1>2, <2>1, PcTypeMoves, Kinds DEF PcType
<1>3. CASE ~ (timer # None /\ pc[timer] = "armed")
  <2>1. StopTimer = pc
    BY <1>3 DEF StopTimer
  <2> QED BY <1>1, <2>1
<1> QED BY <1>2, <1>3

\* The type of pc after each step.
LEMMA TypePc == ASSUME TypeInv, [Next]_vars PROVE PcType(pc')
<1>0. PcType(pc)
  BY DEF TypeInv, TypeOK, PcType
<1>1. ASSUME NEW e \in Events, Arrive(e) \/ Enqueue(e) PROVE PcType(pc')
  <2>1. CASE Arrive(e) \/ EnqueueRefused(e)
    BY <1>0, <2>1, PcTypeMoves, Kinds DEF Arrive, EnqueueRefused
  <2>2. CASE EnqueueFull(e)
    BY <1>0, <2>2, PcTypeMoves, Kinds DEF EnqueueFull, Flushing
  <2>3. CASE EnqueueUnderTimer(e)
    <3>1. PcType([pc EXCEPT ![e] = "done"])
      BY <1>0, PcTypeMoves, Kinds
    <3>2. CASE pc' = [pc EXCEPT ![e] = "done"]
      BY <3>1, <3>2
    <3>3. CASE timer = None
      <4>1. PICK c \in Callbacks : pc' = [pc EXCEPT ![e] = "done", ![c] = "armed"]
        BY <2>3, <3>3 DEF EnqueueUnderTimer
      <4>2. pc' = [[pc EXCEPT ![e] = "done"] EXCEPT ![c] = "armed"]
        BY <4>1
      <4> QED BY <3>1, <4>2, PcTypeMoves, Kinds
    <3> QED BY <2>3, <3>2, <3>3 DEF EnqueueUnderTimer
  <2> QED BY <1>1, <2>1, <2>2, <2>3 DEF Enqueue
<1>2. ASSUME NEW c \in Callbacks, TimerFires(c) PROVE PcType(pc')
  BY <1>0, <1>2, PcTypeMoves, Kinds DEF TimerFires, Flushing
<1>3. ASSUME NEW p \in Procs, Flush(p) PROVE PcType(pc')
  <2>1. /\ \/ p \in Events /\ After(p) = "done"
           \/ p \in Callbacks /\ After(p) = "free"
           \/ p = Main /\ After(p) = "idle"
        /\ {"lock", "write", "committed", "failed"} \subseteq Flushing
    BY Kinds DEF After, Flushing
  <2>2. CASE Take(p)
    BY <2>1, <2>2, StopTimerMoves, PcTypeMoves DEF Take
  <2>3. CASE LockDB(p) \/ Commit(p) \/ Rollback(p)
    BY <1>0, <2>1, <2>3, PcTypeMoves DEF LockDB, Commit, Rollback
  <2>4. CASE Count(p)
    BY <1>0, <2>1, <2>4, PcTypeMoves DEF Count
  <2> QED BY <1>3, <2>2, <2>3, <2>4 DEF Flush
<1>4. CASE Shutdown
  <2>1. pc' = [pc EXCEPT ![Main] = "flush"] \/ pc' = pc
    BY <1>4 DEF Shutdown, CloseAfterDrain, Checkpoint, CloseDeferred, Exit, Close
  <2> QED BY <1>0, <2>1, PcTypeMoves, Kinds DEF Flushing
<1>5. CASE OtherLocks \/ OtherUnlocks \/ Signal \/ ListenFails \/ GraceExpires \/ UNCHANGED vars
  BY <1>0, <1>5 DEF OtherLocks, OtherUnlocks, Signal, ListenFails, GraceExpires, vars
<1> QED BY <1>1, <1>2, <1>3, <1>4, <1>5 DEF Next, Ended

LEMMA TypeNext == TypeInv /\ [Next]_vars => TypeInv'
<1> SUFFICES ASSUME TypeInv, [Next]_vars PROVE TypeInv'
  OBVIOUS
<1>0. PcType(pc')
  BY TypePc
<1>1. ASSUME NEW p \in Procs PROVE IsFiniteSet(batch[p]) /\ Cardinality(batch[p]) \in Nat
  BY FS_Subset, FS_CardinalityType, WriterAssumption DEF TypeInv, TypeOK, WriterAssumption
<1>2. pending' \subseteq Events /\ timer' \in Callbacks \cup {None} /\ stopped' \in BOOLEAN
  BY DEF TypeInv, TypeOK, Next, Arrive, Enqueue, EnqueueRefused, EnqueueFull, EnqueueUnderTimer,
         TimerFires, Flush, Take, LockDB, Commit, Rollback, Count, OtherLocks, OtherUnlocks, Signal,
         ListenFails, GraceExpires, Shutdown, CloseAfterDrain, CloseDeferred, Close, Checkpoint,
         Exit, Ended, vars, writerVars
<1>3. written' \in Nat /\ dropped' \in Nat
  <2>1. \/ written' = written /\ (dropped' = dropped \/ dropped' = dropped + 1)
        \/ \E p \in Procs : Count(p)
    BY DEF Next, Arrive, Enqueue, EnqueueRefused, EnqueueFull, EnqueueUnderTimer,
         TimerFires, Flush, Take, LockDB, Commit, Rollback, OtherLocks, OtherUnlocks, Signal,
         ListenFails, GraceExpires, Shutdown, CloseAfterDrain, CloseDeferred, Close, Checkpoint,
         Exit, Ended, vars, writerVars
  <2> QED BY <1>1, <2>1 DEF TypeInv, TypeOK, Count
<1>4. writer' \in Procs \cup {Other, None} /\ rows' \subseteq Events
  BY DEF TypeInv, TypeOK, Next, Arrive, Enqueue, EnqueueRefused, EnqueueFull, EnqueueUnderTimer,
         TimerFires, Flush, Take, LockDB, Commit, Rollback, Count, OtherLocks, OtherUnlocks, Signal,
         ListenFails, GraceExpires, Shutdown, CloseAfterDrain, CloseDeferred, Close, Checkpoint,
         Exit, Ended, vars, dbVars
<1>5. batch' \in [Procs -> SUBSET Events]
  BY DEF TypeInv, TypeOK, Next, Arrive, Enqueue, EnqueueRefused, EnqueueFull, EnqueueUnderTimer,
         TimerFires, Flush, Take, LockDB, Commit, Rollback, Count, OtherLocks, OtherUnlocks, Signal,
         ListenFails, GraceExpires, Shutdown, CloseAfterDrain, CloseDeferred, Close, Checkpoint,
         Exit, Ended, vars
<1>6. /\ stage' \in {"serving", "draining", "closing", "deferred", "exiting", "exited"}
      /\ expired' \in BOOLEAN
  BY DEF TypeInv, TypeOK, Next, Arrive, Enqueue, EnqueueRefused, EnqueueFull, EnqueueUnderTimer,
         TimerFires, Flush, Take, LockDB, Commit, Rollback, Count, OtherLocks, OtherUnlocks, Signal,
         ListenFails, GraceExpires, Shutdown, CloseAfterDrain, CloseDeferred, Close, Checkpoint,
         Exit, Ended, vars, mainVars
<1> QED BY <1>0, <1>2, <1>3, <1>4, <1>5, <1>6 DEF TypeInv, TypeOK, PcType

\* The counters, sets and goroutines of the writer keep their types: no Flush
\* counts below zero, and main is no callback (store/telemetry.go, EventWriter).
THEOREM TypeCorrect == Spec => []TypeOK
<1>1. TypeInv => TypeOK
  BY DEF TypeInv
<1> QED BY <1>1, TypeInit, TypeNext, PTL DEF Spec

-----------------------------------------------------------------------------
(* What a step does to the events.                                         *)

Unsaved(p) == pc[p] \in {"lock", "write", "failed"}

\* The goroutines of S are no nearer to or farther from having saved a batch.
Steady(S) ==
  \A q \in S : /\ Unsaved(q)' <=> Unsaved(q)
               /\ pc'[q] = "committed" <=> pc[q] = "committed"

Refuses(e) ==
  /\ stopped /\ e \notin Accepted \cup Refused
  /\ Accepted' = Accepted /\ Refused' = Refused \cup {e}
  /\ dropped' = dropped + 1
  /\ Steady(Procs)
  /\ UNCHANGED <<pending, batch, rows, written, stopped>>

Accepts(e) ==
  /\ ~ stopped /\ e \notin Accepted \cup Refused
  /\ Accepted' = Accepted \cup {e} /\ Refused' = Refused
  /\ pending' = pending \cup {e}
  /\ Steady(Procs)
  /\ UNCHANGED <<batch, rows, written, dropped, stopped>>

Takes(p) ==
  /\ pc[p] = "flush"
  /\ Accepted' = Accepted /\ Refused' = Refused
  /\ pending' = {} /\ batch' = [batch EXCEPT ![p] = pending]
  /\ Unsaved(p)' <=> pending # {}
  /\ pc'[p] # "committed"
  /\ Steady(Procs \ {p})
  /\ UNCHANGED <<rows, written, dropped, stopped>>

Commits(p) ==
  /\ pc[p] = "write" /\ pc'[p] = "committed"
  /\ Accepted' = Accepted /\ Refused' = Refused
  /\ rows' = rows \cup batch[p]
  /\ Steady(Procs \ {p})
  /\ UNCHANGED <<pending, batch, written, dropped, stopped>>

Counts(p) ==
  /\ pc[p] \in {"committed", "failed"}
  /\ ~ Unsaved(p)' /\ pc'[p] # "committed"
  /\ Accepted' = Accepted /\ Refused' = Refused
  /\ written' = written + Cardinality(batch[p])
  /\ dropped' = IF pc[p] = "failed" THEN dropped + Cardinality(batch[p]) ELSE dropped
  /\ batch' = [batch EXCEPT ![p] = {}]
  /\ Steady(Procs \ {p})
  /\ UNCHANGED <<pending, rows, stopped>>

Calm ==
  /\ Accepted' = Accepted /\ Refused' = Refused
  /\ Steady(Procs)
  /\ stopped' \in {stopped, TRUE}
  /\ UNCHANGED <<pending, batch, rows, written, dropped>>

\* main is in no Flush when it calls Close; nobody is accepted after that.
MainInv ==
  /\ stage \in {"serving", "draining", "deferred", "exited"} => pc[Main] = "idle"
  /\ stage \in {"closing", "exiting", "exited"} => stopped
  /\ (stage = "exiting" /\ pc[Main] # "flush") \/ stage = "exited" => pending = {}

\* What counts as accepted or refused is decided by the places of the handlers.
LEMMA SameEvents ==
  ASSUME \A e \in Events : \/ pc'[e] = pc[e]
                           \/ /\ {pc[e], pc'[e]} \subseteq {"absent", "running"}
                           \/ /\ {pc[e], pc'[e]} \subseteq Flushing \cup {"done"}
  PROVE  Accepted' = Accepted /\ Refused' = Refused
BY DEF Accepted, Refused, Flushing

LEMMA EnqueueKinds ==
  ASSUME TypeInv, NEW e \in Events, Arrive(e) \/ Enqueue(e)
  PROVE  Calm \/ Refuses(e) \/ Accepts(e)
<1>0. pc \in [Procs -> Places] /\ e \in Procs
  BY Kinds DEF TypeInv
<1>1. CASE Arrive(e)
  <2>1. pc[e] = "absent" /\ pc' = [pc EXCEPT ![e] = "running"]
    BY <1>1 DEF Arrive
  <2>2. Accepted' = Accepted /\ Refused' = Refused
    BY <1>0, <2>1, SameEvents, Kinds
  <2>3. Steady(Procs)
    BY <1>0, <2>1 DEF Steady, Unsaved
  <2> QED BY <1>1, <2>2, <2>3 DEF Arrive, Calm, writerVars, dbVars
<1>2. CASE EnqueueRefused(e)
  <2>1. pc[e] = "running" /\ pc' = [pc EXCEPT ![e] = "refused"]
    BY <1>2 DEF EnqueueRefused
  <2>2. Accepted' = Accepted /\ Refused' = Refused \cup {e} /\ e \notin Accepted \cup Refused
    BY <1>0, <2>1, Kinds DEF Accepted, Refused
  <2>3. Steady(Procs)
    BY <1>0, <2>1 DEF Steady, Unsaved
  <2> QED BY <1>2, <2>2, <2>3 DEF EnqueueRefused, Refuses, dbVars
<1>3. CASE EnqueueFull(e) \/ EnqueueUnderTimer(e)
  <2>1. /\ pc[e] = "running" /\ pc'[e] \in {"flush", "done"}
        /\ \A q \in Procs \ {e} :
             pc'[q] = pc[q] \/ (q \in Callbacks /\ pc[q] = "free" /\ pc'[q] = "armed")
    <3>1. CASE EnqueueFull(e)
      BY <1>0, <3>1 DEF EnqueueFull
    <3>2. CASE EnqueueUnderTimer(e) /\ timer # None
      BY <1>0, <3>2 DEF EnqueueUnderTimer
    <3>3. CASE EnqueueUnderTimer(e) /\ timer = None
      <4>1. PICK c \in Callbacks : /\ pc[c] = "free"
                                  /\ pc' = [pc EXCEPT ![e] = "done", ![c] = "armed"]
        BY <3>3 DEF EnqueueUnderTimer
      <4>2. pc' = [[pc EXCEPT ![e] = "done"] EXCEPT ![c] = "armed"] /\ c # e /\ c \in Procs
        BY <4>1, Kinds
      <4>3. pc[e] = "running"
        BY <3>3 DEF EnqueueUnderTimer
      <4> QED BY <1>0, <4>1, <4>2, <4>3
    <3> QED BY <1>3, <3>1, <3>2, <3>3
  <2>2. Accepted' = Accepted \cup {e} /\ Refused' = Refused /\ e \notin Accepted \cup Refused
    BY <2>1, Kinds DEF Accepted, Refused
  <2>3. Steady(Procs)
    BY <2>1 DEF Steady, Unsaved
  <2>4. ~ stopped /\ pending' = pending \cup {e} /\ UNCHANGED <<batch, rows, written, dropped, stopped>>
    BY <1>3 DEF EnqueueFull, EnqueueUnderTimer, dbVars
  <2> QED BY <2>2, <2>3, <2>4 DEF Accepts
<1> QED BY <1>1, <1>2, <1>3 DEF Enqueue

LEMMA FlushKinds ==
  ASSUME TypeInv, NEW p \in Procs, Flush(p)
  PROVE  Calm \/ Takes(p) \/ Commits(p) \/ Counts(p)
<1>0. pc \in [Procs -> Places]
  BY DEF TypeInv
<1>1. After(p) \in {"done", "free", "idle"} /\ (p \in Events => After(p) = "done")
  BY DEF After
<1>2. CASE Take(p)
  <2>1. /\ pc[p] = "flush"
        /\ pc' = [StopTimer EXCEPT ![p] = IF pending = {} THEN After(p) ELSE "lock"]
    BY <1>2 DEF Take
  <2>2. PcType(StopTimer)
    BY StopTimerMoves
  <2>3. /\ pc'[p] = IF pending = {} THEN After(p) ELSE "lock"
        /\ \A q \in Procs \ {p} :
             pc'[q] = pc[q] \/ (q \in Callbacks /\ pc[q] = "armed" /\ pc'[q] = "free")
    BY <2>1, <2>2, StopTimerMoves DEF PcType
  <2>4. Accepted' = Accepted /\ Refused' = Refused
    <3>1. \A e \in Events : pc'[e] = pc[e] \/ {pc[e], pc'[e]} \subseteq Flushing \cup {"done"}
      BY <1>1, <2>1, <2>3, Kinds DEF Flushing
    <3> QED BY <3>1, SameEvents
  <2>5. (Unsaved(p)' <=> pending # {}) /\ pc'[p] # "committed" /\ Steady(Procs \ {p})
    BY <1>1, <2>3 DEF Steady, Unsaved
  <2> QED BY <1>2, <2>1, <2>4, <2>5 DEF Take, Takes, dbVars
<1>3. CASE LockDB(p) \/ Commit(p) \/ Rollback(p)
  <2>1. PICK x \in {"write", "committed", "failed"} :
          pc' = [pc EXCEPT ![p] = x] /\ pc[p] \in {"lock", "write"}
                /\ (x = "committed" <=> Commit(p))
    <3>1. CASE LockDB(p) BY <1>0, <3>1 DEF LockDB, Commit
    <3>2. CASE Commit(p) BY <3>2 DEF Commit
    <3>3. CASE Rollback(p) BY <1>0, <3>3 DEF Rollback, Commit
    <3> QED BY <1>3, <3>1, <3>2, <3>3
  <2>2. Accepted' = Accepted /\ Refused' = Refused
    <3>1. \A e \in Events : pc'[e] = pc[e] \/ {pc[e], pc'[e]} \subseteq Flushing \cup {"done"}
      BY <1>0, <2>1, Kinds DEF Flushing
    <3> QED BY <3>1, SameEvents
  <2>3. Steady(Procs \ {p}) /\ pc'[p] = x
    BY <1>0, <2>1 DEF Steady, Unsaved
  <2>4. CASE Commit(p)
    BY <2>1, <2>2, <2>3, <2>4 DEF Commit, Commits, writerVars
  <2>5. CASE ~ Commit(p)
    <3>1. Steady(Procs)
      BY <2>1, <2>3, <2>5 DEF Steady, Unsaved
    <3> QED BY <1>3, <2>2, <2>5, <3>1 DEF LockDB, Rollback, Calm, writerVars
  <2> QED BY <2>4, <2>5
<1>4. CASE Count(p)
  <2>1. pc[p] \in {"committed", "failed"} /\ pc' = [pc EXCEPT ![p] = After(p)]
    BY <1>4 DEF Count
  <2>2. Accepted' = Accepted /\ Refused' = Refused
    <3>1. \A e \in Events : pc'[e] = pc[e] \/ {pc[e], pc'[e]} \subseteq Flushing \cup {"done"}
      BY <1>0, <1>1, <2>1, Kinds DEF Flushing
    <3> QED BY <3>1, SameEvents
  <2>3. ~ Unsaved(p)' /\ pc'[p] # "committed" /\ Steady(Procs \ {p})
    BY <1>0, <1>1, <2>1 DEF Steady, Unsaved
  <2> QED BY <1>4, <2>1, <2>2, <2>3 DEF Count, Counts, dbVars
<1> QED BY <1>2, <1>3, <1>4 DEF Flush

\* Every step is of one of these kinds.
LEMMA StepKinds ==
  ASSUME TypeInv, MainInv, [Next]_vars
  PROVE  \/ Calm
         \/ \E e \in Events : Refuses(e) \/ Accepts(e)
         \/ \E p \in Procs : Takes(p) \/ Commits(p) \/ Counts(p)
<1>0. pc \in [Procs -> Places]
  BY DEF TypeInv
<1>1. ASSUME NEW c \in Callbacks, TimerFires(c) PROVE Calm
  <2>1. pc[c] = "armed" /\ pc' = [pc EXCEPT ![c] = "flush"]
    BY <1>1 DEF TimerFires
  <2>2. Accepted' = Accepted /\ Refused' = Refused
    BY <1>0, <2>1, SameEvents, Kinds
  <2>3. Steady(Procs)
    BY <1>0, <2>1, Kinds DEF Steady, Unsaved
  <2> QED BY <1>1, <2>2, <2>3 DEF TimerFires, Calm, writerVars, dbVars
<1>2. CASE CloseAfterDrain \/ CloseDeferred
  <2>1. pc[Main] = "idle" /\ pc' = [pc EXCEPT ![Main] = "flush"] /\ stopped'
    BY <1>2 DEF CloseAfterDrain, CloseDeferred, Close, MainInv
  <2>2. Accepted' = Accepted /\ Refused' = Refused
    BY <1>0, <2>1, SameEvents, Kinds
  <2>3. Steady(Procs)
    BY <1>0, <2>1, Kinds DEF Steady, Unsaved
  <2> QED BY <1>2, <2>1, <2>2, <2>3 DEF CloseAfterDrain, CloseDeferred, Close, Calm, dbVars
<1>3. CASE OtherLocks \/ OtherUnlocks \/ Signal \/ ListenFails \/ GraceExpires
           \/ Checkpoint \/ Exit \/ UNCHANGED vars
  <2>1. pc' = pc /\ UNCHANGED <<writerVars, batch, rows>>
    BY <1>3 DEF OtherLocks, OtherUnlocks, Signal, ListenFails, GraceExpires, Checkpoint, Exit,
                vars, dbVars
  <2> QED BY <2>1, SameEvents DEF Calm, Steady, Unsaved, writerVars
<1> QED BY <1>1, <1>2, <1>3, EnqueueKinds, FlushKinds DEF Next, Shutdown, Ended

-----------------------------------------------------------------------------
(* Events.                                                                 *)

\* OnePlace event by event, and the goroutines that can hold a batch.
EventInv ==
  /\ pending \subseteq Accepted /\ rows \subseteq Accepted
  /\ rows \cap pending = {}
  /\ \A p \in Procs :
       /\ batch[p] \subseteq Accepted /\ batch[p] \cap pending = {}
       /\ \A q \in Procs \ {p} : batch[p] \cap batch[q] = {}
       /\ Unsaved(p) => batch[p] # {} /\ batch[p] \cap rows = {}
       /\ pc[p] = "committed" => batch[p] # {} /\ batch[p] \subseteq rows
       /\ ~ Unsaved(p) /\ pc[p] # "committed" => batch[p] = {}

LEMMA EventInit == Init => EventInv
<1> SUFFICES ASSUME Init PROVE EventInv
  OBVIOUS
<1>1. \A p \in Procs : pc[p] \in {"absent", "idle", "free"} /\ batch[p] = {}
  BY DEF Init
<1> QED BY <1>1 DEF Init, EventInv, Unsaved

LEMMA EventNext ==
  ASSUME TypeInv, MainInv, EventInv, [Next]_vars PROVE EventInv'
<1> USE DEF EventInv
<1>0. batch \in [Procs -> SUBSET Events] /\ Accepted \subseteq Events
  BY DEF TypeInv, TypeOK, Accepted
<1>1. CASE Calm
  <2>1. \A p \in Procs : (Unsaved(p)' <=> Unsaved(p)) /\ (pc'[p] = "committed" <=> pc[p] = "committed")
    BY <1>1 DEF Calm, Steady
  <2> QED BY <1>1, <2>1 DEF Calm
<1>2. ASSUME NEW e \in Events, Refuses(e) PROVE EventInv'
  <2>1. \A p \in Procs : (Unsaved(p)' <=> Unsaved(p)) /\ (pc'[p] = "committed" <=> pc[p] = "committed")
    BY <1>2 DEF Refuses, Steady
  <2> QED BY <1>2, <2>1 DEF Refuses
<1>3. ASSUME NEW e \in Events, Accepts(e) PROVE EventInv'
  <2>1. \A p \in Procs : (Unsaved(p)' <=> Unsaved(p)) /\ (pc'[p] = "committed" <=> pc[p] = "committed")
    BY <1>3 DEF Accepts, Steady
  <2>2. /\ e \notin rows /\ \A p \in Procs : e \notin batch[p]
        /\ Accepted' = Accepted \cup {e} /\ pending' = pending \cup {e}
        /\ batch' = batch /\ rows' = rows
    BY <1>3 DEF Accepts
  <2> QED BY <2>1, <2>2
<1>4. ASSUME NEW p \in Procs, Takes(p) PROVE EventInv'
  <2>1. \A q \in Procs \ {p} :
          (Unsaved(q)' <=> Unsaved(q)) /\ (pc'[q] = "committed" <=> pc[q] = "committed")
    BY <1>4 DEF Takes, Steady
  <2>2. /\ batch'[p] = pending /\ \A q \in Procs \ {p} : batch'[q] = batch[q]
        /\ pending' = {} /\ rows' = rows /\ Accepted' = Accepted
        /\ (Unsaved(p)' <=> pending # {}) /\ pc'[p] # "committed"
    BY <1>0, <1>4 DEF Takes
  <2> QED BY <2>1, <2>2
<1>5. ASSUME NEW p \in Procs, Commits(p) PROVE EventInv'
  <2>1. \A q \in Procs \ {p} :
          (Unsaved(q)' <=> Unsaved(q)) /\ (pc'[q] = "committed" <=> pc[q] = "committed")
    BY <1>5 DEF Commits, Steady
  <2>2. /\ batch' = batch /\ pending' = pending /\ Accepted' = Accepted
        /\ rows' = rows \cup batch[p] /\ batch[p] # {}
        /\ ~ Unsaved(p)' /\ pc'[p] = "committed"
    BY <1>5 DEF Commits, Unsaved
  <2> QED BY <2>1, <2>2
<1>6. ASSUME NEW p \in Procs, Counts(p) PROVE EventInv'
  <2>1. \A q \in Procs \ {p} :
          (Unsaved(q)' <=> Unsaved(q)) /\ (pc'[q] = "committed" <=> pc[q] = "committed")
    BY <1>6 DEF Counts, Steady
  <2>2. /\ batch'[p] = {} /\ \A q \in Procs \ {p} : batch'[q] = batch[q]
        /\ pending' = pending /\ rows' = rows /\ Accepted' = Accepted
        /\ ~ Unsaved(p)' /\ pc'[p] # "committed"
    BY <1>0, <1>6 DEF Counts
  <2> QED BY <2>1, <2>2
<1> QED BY <1>1, <1>2, <1>3, <1>4, <1>5, <1>6, StepKinds

LEMMA EventPlaces == EventInv => OnePlace
BY DEF EventInv, OnePlace, Taken, Unsaved

-----------------------------------------------------------------------------
(* main.                                                                   *)

LEMMA MainInit == Init => MainInv
BY Kinds DEF Init, MainInv

LEMMA MainNext ==
  ASSUME TypeInv, MainInv, [Next]_vars PROVE MainInv'
<1> USE DEF MainInv
<1>0. /\ pc \in [Procs -> Places] /\ Main \in Procs
      /\ timer # None => timer \in Callbacks /\ timer # Main
  BY Kinds DEF TypeInv, TypeOK
<1>1. ASSUME NEW e \in Events, Arrive(e) \/ Enqueue(e) PROVE MainInv'
  <2>1. pc'[Main] = pc[Main]
    <3>1. CASE EnqueueUnderTimer(e) /\ timer = None
      <4>1. PICK c \in Callbacks : pc' = [pc EXCEPT ![e] = "done", ![c] = "armed"]
        BY <3>1 DEF EnqueueUnderTimer
      <4> QED BY <1>0, <4>1, Kinds
    <3>2. CASE ~ (EnqueueUnderTimer(e) /\ timer = None)
      BY <1>0, <1>1, <3>2, Kinds
         DEF Arrive, Enqueue, EnqueueRefused, EnqueueFull, EnqueueUnderTimer
    <3> QED BY <3>1, <3>2
  <2>2. /\ stage' = stage /\ stopped' = stopped
        /\ pending' = pending \/ (~ stopped /\ stage # "exited")
    BY <1>1 DEF Arrive, Enqueue, EnqueueRefused, EnqueueFull, EnqueueUnderTimer, Running,
                writerVars, mainVars
  <2> QED BY <2>1, <2>2
<1>2. ASSUME NEW c \in Callbacks, TimerFires(c) PROVE MainInv'
  <2>1. pc'[Main] = pc[Main] /\ UNCHANGED <<stage, stopped, pending>>
    BY <1>0, <1>2, Kinds DEF TimerFires, writerVars, mainVars
  <2> QED BY <2>1
<1>3. ASSUME NEW p \in Procs, Flush(p) PROVE MainInv'
  <2>1. stage' = stage /\ stage # "exited" /\ stopped' = stopped
        /\ (pending' = pending \/ pending' = {})
    BY <1>3 DEF Flush, Take, LockDB, Commit, Rollback, Count, Running, writerVars, mainVars
  <2>2. CASE p # Main
    <3>1. pc'[Main] = pc[Main]
      <4>1. CASE Take(p)
        <5>1. StopTimer[Main] = pc[Main] /\ PcType(StopTimer)
          BY <1>0, StopTimerMoves, Kinds
        <5> QED BY <1>0, <2>2, <4>1, <5>1 DEF Take, PcType
      <4>2. CASE ~ Take(p)
        BY <1>0, <1>3, <2>2, <4>2 DEF Flush, LockDB, Commit, Rollback, Count
      <4> QED BY <4>1, <4>2
    <3> QED BY <2>1, <3>1
  <2>3. CASE p = Main
    <3>1. pc[Main] # "idle"
      BY <1>3, <2>3 DEF Flush, Take, LockDB, Commit, Rollback, Count
    <3>2. pc[Main] = "flush" => pending' = {}
      BY <1>3, <2>3 DEF Flush, Take, LockDB, Commit, Rollback, Count
    <3> QED BY <2>1, <3>1, <3>2
  <2> QED BY <2>2, <2>3
<1>4. CASE CloseAfterDrain \/ CloseDeferred
  BY <1>0, <1>4 DEF CloseAfterDrain, CloseDeferred, Close
<1>5. CASE OtherLocks \/ OtherUnlocks \/ GraceExpires \/ UNCHANGED vars
  BY <1>5 DEF OtherLocks, OtherUnlocks, GraceExpires, vars, writerVars, mainVars
<1>6. CASE Signal \/ ListenFails \/ Checkpoint \/ Exit
  BY <1>6 DEF Signal, ListenFails, Checkpoint, Exit, writerVars
<1> QED BY <1>1, <1>2, <1>3, <1>4, <1>5, <1>6 DEF Next, Shutdown, Ended

\* EventWriter.mu and DB.writeMu: an accepted event is pending, in the batch of
\* one goroutine or settled, is never stored twice and never while it waits, for
\* any number of handlers and callbacks that flush at once.
THEOREM EventsHaveOnePlace == Spec => []OnePlace
<1>1. Init => TypeInv /\ MainInv /\ EventInv
  BY TypeInit, MainInit, EventInit
<1>2. (TypeInv /\ MainInv /\ EventInv) /\ [Next]_vars => (TypeInv /\ MainInv /\ EventInv)'
  BY TypeNext, MainNext, EventNext
<1> QED BY <1>1, <1>2, EventPlaces, PTL DEF Spec

\* EventWriter.Close, called twice by main: after the last one nothing is left
\* pending when the process exits, although Enqueue and timers go on meanwhile.
THEOREM ExitLeavesNothingPending == Spec => []NothingPendingAtExit
<1>1. Init => TypeInv /\ MainInv
  BY TypeInit, MainInit
<1>2. (TypeInv /\ MainInv) /\ [Next]_vars => (TypeInv /\ MainInv)'
  BY TypeNext, MainNext
<1>3. MainInv => NothingPendingAtExit
  BY DEF MainInv, NothingPendingAtExit
<1> QED BY <1>1, <1>2, <1>3, PTL DEF Spec

-----------------------------------------------------------------------------
(* Nobody is stranded.                                                     *)

\* w.timer points to a timer that runs or to a callback that has yet to take.
TimerInv == timer # None => pc[timer] \in {"armed", "flush"}

LEMMA TimerInit == Init => TimerInv /\ NoStrandedEvents
BY DEF Init, TimerInv, NoStrandedEvents

LEMMA TimerNext ==
  ASSUME TypeInv, MainInv, TimerInv, NoStrandedEvents, [Next]_vars
  PROVE  TimerInv' /\ NoStrandedEvents'
<1> USE DEF TimerInv, NoStrandedEvents
<1>0. /\ pc \in [Procs -> Places] /\ (timer # None => timer \in Callbacks /\ timer \in Procs)
      /\ None \notin Procs
  BY Kinds, WriterAssumption DEF TypeInv, TypeOK, WriterAssumption
\* A step after which nobody is less likely to come for what is pending.
<1>1. ASSUME pending' = pending, timer' = timer,
             \A p \in Procs : pc[p] = "flush" => pc'[p] = "flush",
             \A c \in Callbacks : pc[c] = "armed" => pc'[c] \in {"armed", "flush"}
      PROVE  TimerInv' /\ NoStrandedEvents'
  BY <1>0, <1>1, Kinds
<1>2. ASSUME NEW e \in Events, Arrive(e) \/ EnqueueRefused(e) PROVE TimerInv' /\ NoStrandedEvents'
  <2>1. /\ pending' = pending /\ timer' = timer /\ pc[e] \in {"absent", "running"}
        /\ \A q \in Procs \ {e} : pc'[q] = pc[q]
    BY <1>0, <1>2 DEF Arrive, EnqueueRefused, writerVars
  <2> QED BY <1>1, <2>1, Kinds
<1>3. ASSUME NEW e \in Events, EnqueueFull(e) PROVE TimerInv' /\ NoStrandedEvents'
  <2>1. timer' = timer /\ pc'[e] = "flush" /\ \A q \in Procs \ {e} : pc'[q] = pc[q]
    BY <1>0, <1>3, Kinds DEF EnqueueFull
  <2> QED BY <1>0, <2>1, Kinds
<1>4. ASSUME NEW e \in Events, EnqueueUnderTimer(e) PROVE TimerInv' /\ NoStrandedEvents'
  <2>1. CASE timer = None
    <3>1. PICK c \in Callbacks : /\ timer' = c
                                /\ pc' = [pc EXCEPT ![e] = "done", ![c] = "armed"]
      BY <1>4, <2>1 DEF EnqueueUnderTimer
    <3>2. pc'[c] = "armed" /\ c # None
      BY <1>0, <3>1, Kinds
    <3> QED BY <3>1, <3>2
  <2>2. CASE timer # None
    <3>1. timer' = timer /\ pc' = [pc EXCEPT ![e] = "done"]
      BY <1>4, <2>2 DEF EnqueueUnderTimer
    <3>2. pc'[timer] = pc[timer]
      BY <1>0, <2>2, <3>1, Kinds
    <3> QED BY <1>0, <2>2, <3>1, <3>2
  <2> QED BY <2>1, <2>2
<1>5. ASSUME NEW c \in Callbacks, TimerFires(c) PROVE TimerInv' /\ NoStrandedEvents'
  <2>1. /\ pending' = pending /\ timer' = timer /\ pc'[c] = "flush"
        /\ \A q \in Procs \ {c} : pc'[q] = pc[q]
    BY <1>0, <1>5, Kinds DEF TimerFires, writerVars
  <2> QED BY <1>1, <2>1, Kinds
<1>6. ASSUME NEW p \in Procs, Take(p) PROVE TimerInv' /\ NoStrandedEvents'
  BY <1>6 DEF Take
<1>7. ASSUME NEW p \in Procs, LockDB(p) \/ Commit(p) \/ Rollback(p) \/ Count(p)
      PROVE  TimerInv' /\ NoStrandedEvents'
  <2>1. /\ pending' = pending /\ timer' = timer /\ pc[p] \in {"lock", "write", "committed", "failed"}
        /\ \A q \in Procs \ {p} : pc'[q] = pc[q]
    BY <1>0, <1>7 DEF LockDB, Commit, Rollback, Count, writerVars
  <2> QED BY <1>1, <2>1, Kinds
<1>8. CASE CloseAfterDrain \/ CloseDeferred
  <2>1. /\ pending' = pending /\ timer' = timer /\ pc'[Main] = "flush"
        /\ \A q \in Procs \ {Main} : pc'[q] = pc[q]
    BY <1>0, <1>8, Kinds DEF CloseAfterDrain, CloseDeferred, Close
  <2> QED BY <1>1, <2>1, Kinds
<1>9. CASE OtherLocks \/ OtherUnlocks \/ Signal \/ ListenFails \/ GraceExpires
           \/ Checkpoint \/ Exit \/ UNCHANGED vars
  <2>1. pending' = pending /\ timer' = timer /\ pc' = pc
    BY <1>9 DEF OtherLocks, OtherUnlocks, Signal, ListenFails, GraceExpires, Checkpoint, Exit,
                vars, writerVars
  <2> QED BY <1>1, <2>1
<1> QED BY <1>2, <1>3, <1>4, <1>5, <1>6, <1>7, <1>8, <1>9 DEF Next, Enqueue, Flush, Shutdown, Ended

\* Enqueue, Flush and the timer: whoever disarms a timer takes what it was to
\* flush, so that pending events always have somebody who comes for them.
THEOREM NobodyIsStranded == Spec => []NoStrandedEvents
<1>1. Init => TypeInv /\ MainInv /\ TimerInv /\ NoStrandedEvents
  BY TypeInit, MainInit, TimerInit
<1>2. (TypeInv /\ MainInv /\ TimerInv /\ NoStrandedEvents) /\ [Next]_vars
      => (TypeInv /\ MainInv /\ TimerInv /\ NoStrandedEvents)'
  BY TypeNext, MainNext, TimerNext
<1> QED BY <1>1, <1>2, PTL DEF Spec

-----------------------------------------------------------------------------
(* Counters.                                                               *)

\* Only counting a batch settles events, and it settles that batch.
LEMMA SettledBy ==
  ASSUME TypeInv, MainInv, EventInv, [Next]_vars
  PROVE  \/ Settled' = Settled /\ \A p \in Procs : ~ Counts(p)
         \/ \E p \in Procs : /\ Counts(p) /\ batch[p] \cap Settled = {}
                             /\ Settled' = Settled \cup batch[p]
<1>0. batch \in [Procs -> SUBSET Events] /\ Accepted \subseteq Events
  BY DEF TypeInv, TypeOK, Accepted
<1>1. \A e : e \in Taken <=> \E p \in Procs : e \in batch[p]
  BY DEF Taken
<1>2. \A e : e \in Taken' <=> \E p \in Procs : e \in batch'[p]
  BY DEF Taken
<1>3. ASSUME NEW p \in Procs, Counts(p)
      PROVE  batch[p] \cap Settled = {} /\ Settled' = Settled \cup batch[p]
  <2>1. /\ batch'[p] = {} /\ \A q \in Procs \ {p} : batch'[q] = batch[q]
        /\ pending' = pending /\ Accepted' = Accepted
    BY <1>0, <1>3 DEF Counts
  <2>2. /\ batch[p] \subseteq Accepted /\ batch[p] \cap pending = {}
        /\ \A q \in Procs \ {p} : batch[p] \cap batch[q] = {}
    BY DEF EventInv
  <2>3. Taken' = Taken \ batch[p] /\ batch[p] \subseteq Taken
    BY <1>1, <1>2, <2>1, <2>2
  <2> QED BY <2>1, <2>2, <2>3 DEF Settled
<1>4. ASSUME Calm \/ \E e \in Events : Refuses(e) PROVE Settled' = Settled
  BY <1>4 DEF Calm, Refuses, Settled, Taken
<1>5. ASSUME NEW e \in Events, Accepts(e) PROVE Settled' = Settled
  <2>1. Taken' = Taken /\ Taken \subseteq Accepted /\ pending \subseteq Accepted
    BY <1>5 DEF Accepts, Taken, EventInv
  <2> QED BY <1>5, <2>1 DEF Accepts, Settled
<1>6. ASSUME NEW p \in Procs, Takes(p) PROVE Settled' = Settled
  <2>1. /\ batch'[p] = pending /\ \A q \in Procs \ {p} : batch'[q] = batch[q]
        /\ pending' = {} /\ Accepted' = Accepted /\ batch[p] = {}
    BY <1>0, <1>6 DEF Takes, EventInv, Unsaved
  <2>2. Taken' = Taken \cup pending
    BY <1>1, <1>2, <2>1
  <2> QED BY <2>1, <2>2 DEF Settled
<1>7. ASSUME NEW p \in Procs, Commits(p) PROVE Settled' = Settled
  BY <1>7 DEF Commits, Settled, Taken
<1>8. CASE \E p \in Procs : Counts(p)
  BY <1>3, <1>8
<1>9. CASE \A p \in Procs : ~ Counts(p)
  BY <1>4, <1>5, <1>6, <1>7, <1>9, StepKinds
<1> QED BY <1>8, <1>9

LEMMA StatsInit == Init => StatsAddUp
<1> SUFFICES ASSUME Init PROVE StatsAddUp
  OBVIOUS
<1>1. Settled = {} /\ Refused = {} /\ Settled \ rows = {}
  BY Kinds DEF Init, Settled, Accepted, Refused
<1> QED BY <1>1, FS_EmptySet DEF Init, StatsAddUp

\* A batch that was written is in the table, one that failed is not.
LEMMA StatsNext ==
  ASSUME TypeInv, MainInv, EventInv, StatsAddUp, [Next]_vars PROVE StatsAddUp'
<1>0. /\ batch \in [Procs -> SUBSET Events] /\ Settled \subseteq Events /\ Refused \subseteq Events
      /\ \A p \in Procs : batch[p] \cap Settled = {}
  BY DEF TypeInv, TypeOK, Settled, Accepted, Refused, Taken
<1>1. \A S \in SUBSET Events : IsFiniteSet(S) /\ Cardinality(S) \in Nat
  BY FS_Subset, FS_CardinalityType, WriterAssumption DEF WriterAssumption
<1>2. \A S, T \in SUBSET Events :
        S \cap T = {} => Cardinality(S \cup T) = Cardinality(S) + Cardinality(T)
  <2> SUFFICES ASSUME NEW S \in SUBSET Events, NEW T \in SUBSET Events, S \cap T = {}
               PROVE  Cardinality(S \cup T) = Cardinality(S) + Cardinality(T)
    OBVIOUS
  <2>1. IsFiniteSet(S) /\ IsFiniteSet(T) /\ Cardinality(S) \in Nat /\ Cardinality(T) \in Nat
    BY <1>1
  <2>2. Cardinality(S \cup T) = Cardinality(S) + Cardinality(T) - Cardinality(S \cap T)
    BY <2>1, FS_Union
  <2>3. Cardinality(S \cap T) = 0
    BY FS_EmptySet
  <2> QED BY <2>1, <2>2, <2>3
<1>3. ASSUME Settled' = Settled, \A p \in Procs : ~ Counts(p) PROVE StatsAddUp'
  <2>1. CASE \E e \in Events : Refuses(e)
    <3>1. PICK e \in Events : Refuses(e)
      BY <2>1
    <3>2. Cardinality(Refused') = Cardinality(Refused) + 1
      <4>1. e \notin Refused /\ Refused' = Refused \cup {e} /\ IsFiniteSet(Refused)
        BY <1>0, <1>1, <3>1 DEF Refuses
      <4> QED BY <4>1, FS_AddElement
    <3>3. Cardinality(Refused) \in Nat /\ Cardinality(Settled \ rows) \in Nat
      BY <1>0, <1>1
    <3> QED BY <1>3, <3>1, <3>2, <3>3 DEF Refuses, StatsAddUp
  <2>2. CASE \E p \in Procs : Commits(p)
    <3>1. PICK p \in Procs : Commits(p)
      BY <2>2
    <3>2. Settled' \ rows' = Settled \ rows
      BY <1>0, <1>3, <3>1 DEF Commits
    <3> QED BY <1>3, <3>1, <3>2 DEF Commits, StatsAddUp
  <2>3. CASE Calm \/ (\E e \in Events : Accepts(e)) \/ \E p \in Procs : Takes(p)
    <3>1. Refused' = Refused /\ UNCHANGED <<rows, written, dropped>>
      BY <2>3 DEF Calm, Accepts, Takes
    <3> QED BY <1>3, <3>1 DEF StatsAddUp
  <2> QED BY <1>3, <2>1, <2>2, <2>3, StepKinds
<1>4. ASSUME NEW p \in Procs, Counts(p), Settled' = Settled \cup batch[p] PROVE StatsAddUp'
  <2>1. Cardinality(Settled') = Cardinality(Settled) + Cardinality(batch[p])
    BY <1>0, <1>2, <1>4
  <2>2. Refused' = Refused /\ rows' = rows
    BY <1>4 DEF Counts
  <2>3. CASE pc[p] = "committed"
    <3>1. batch[p] \subseteq rows
      BY <2>3 DEF EventInv
    <3>2. Settled' \ rows' = Settled \ rows /\ dropped' = dropped
      BY <1>4, <2>2, <2>3, <3>1 DEF Counts
    <3> QED BY <1>4, <2>1, <2>2, <3>2 DEF Counts, StatsAddUp
  <2>4. CASE pc[p] = "failed"
    <3>1. batch[p] \cap rows = {}
      BY <2>4 DEF EventInv, Unsaved
    <3>2. Settled' \ rows' = (Settled \ rows) \cup batch[p]
      BY <1>4, <2>2, <3>1
    <3>3. Cardinality(Settled' \ rows') = Cardinality(Settled \ rows) + Cardinality(batch[p])
      BY <1>0, <1>2, <3>2
    <3>4. /\ Cardinality(Refused) \in Nat /\ Cardinality(Settled \ rows) \in Nat
          /\ Cardinality(batch[p]) \in Nat
      BY <1>0, <1>1
    <3>5. dropped' = dropped + Cardinality(batch[p]) /\ written' = written + Cardinality(batch[p])
      BY <1>4, <2>4 DEF Counts
    <3> QED BY <2>1, <2>2, <3>3, <3>4, <3>5 DEF StatsAddUp
  <2> QED BY <1>4, <2>3, <2>4 DEF Counts
<1> QED BY <1>3, <1>4, SettledBy

\* The numbers of the admin view: written and dropped add up to the events that
\* are settled or refused, each counted once, however many flushes overlap.
THEOREM CountersAddUp == Spec => []StatsAddUp
<1>1. Init => TypeInv /\ MainInv /\ EventInv /\ StatsAddUp
  BY TypeInit, MainInit, EventInit, StatsInit
<1>2. (TypeInv /\ MainInv /\ EventInv /\ StatsAddUp) /\ [Next]_vars
      => (TypeInv /\ MainInv /\ EventInv /\ StatsAddUp)'
  BY TypeNext, MainNext, EventNext, StatsNext
<1> QED BY <1>1, <1>2, PTL DEF Spec

-----------------------------------------------------------------------------
(* The ledger.                                                             *)

\* An event can be found refused, new, stored, lost or buffered, by its place.
LEMMA StateOf ==
  ASSUME NEW e \in Events
  PROVE  /\ e \in Refused => LedgerState[e] = "refused"
         /\ e \notin Refused /\ e \notin Accepted => LedgerState[e] = "new"
         /\ e \in Accepted /\ e \in rows => LedgerState[e] = "stored"
         /\ e \in Accepted /\ e \notin rows /\ e \in Settled => LedgerState[e] = "lost"
         /\ e \in Accepted /\ e \notin rows /\ e \notin Settled => LedgerState[e] = "buffered"
BY DEF LedgerState, Accepted, Refused

\* A step that settles and stores nothing anew leaves the ledger alone.
LEMMA SameLedger ==
  ASSUME Accepted' = Accepted, Refused' = Refused,
         \A e \in Accepted : /\ e \in rows' <=> e \in rows
                             /\ e \in rows \/ (e \in Settled' <=> e \in Settled)
  PROVE  LedgerState' = LedgerState
BY DEF LedgerState

LEMMA LedgerInit == Init => Bar!Init
<1> SUFFICES ASSUME Init PROVE Bar!Init
  OBVIOUS
<1>1. Accepted = {} /\ Refused = {}
  BY Kinds DEF Init, Accepted, Refused
<1> QED BY <1>1 DEF Init, Bar!Init, LedgerState

LEMMA LedgerNext ==
  ASSUME TypeInv, MainInv, EventInv, [Next]_vars PROVE [Bar!Next]_(Bar!vars)
<1>0. Settled \subseteq Accepted /\ Accepted \subseteq Events /\ Accepted \cap Refused = {}
  BY DEF Settled, Accepted, Refused
<1>1. CASE Settled' = Settled /\ \A p \in Procs : ~ Counts(p)
  <2>1. ASSUME NEW e \in Events, Refuses(e) PROVE Bar!Refuse(e)
    <3>1. LedgerState[e] = "new"
      BY <2>1, StateOf DEF Refuses
    <3>2. LedgerState' = [x \in Events |-> IF x \in {e} THEN "refused" ELSE LedgerState[x]]
      BY <1>1, <2>1 DEF Refuses, LedgerState
    <3> QED BY <2>1, <3>1, <3>2 DEF Refuses, Bar!Refuse, Bar!MoveTo
  <2>2. ASSUME NEW e \in Events, Accepts(e) PROVE Bar!Accept(e)
    <3>1. LedgerState[e] = "new" /\ e \notin Settled /\ e \notin rows
      BY <1>0, <2>2, StateOf DEF Accepts, EventInv
    <3>2. LedgerState' = [x \in Events |-> IF x \in {e} THEN "buffered" ELSE LedgerState[x]]
      BY <1>1, <2>2, <3>1 DEF Accepts, LedgerState
    <3> QED BY <2>2, <3>1, <3>2 DEF Accepts, Bar!Accept, Bar!MoveTo
  <2>3. ASSUME NEW p \in Procs, Takes(p) PROVE UNCHANGED Bar!vars
    BY <1>1, <2>3, SameLedger DEF Takes, Bar!vars
  <2>4. ASSUME NEW p \in Procs, Commits(p) PROVE \E S \in SUBSET Events : Bar!Settle(S)
    <3>1. /\ batch[p] \subseteq Accepted /\ batch[p] \cap rows = {} /\ batch[p] # {}
          /\ batch[p] \cap Settled = {}
      BY <2>4 DEF Commits, EventInv, Unsaved, Settled, Taken
    <3>2. \A e \in batch[p] : LedgerState[e] = "buffered"
      BY <1>0, <3>1, StateOf
    <3>3. LedgerState' = [x \in Events |-> IF x \in batch[p] THEN "stored" ELSE LedgerState[x]]
      BY <1>0, <1>1, <2>4, <3>1 DEF Commits, LedgerState
    <3>4. Bar!Settle(batch[p])
      BY <2>4, <3>1, <3>2, <3>3 DEF Commits, Bar!Settle, Bar!MoveTo
    <3> QED BY <1>0, <3>1, <3>4
  <2>5. ASSUME Calm PROVE UNCHANGED Bar!vars \/ Bar!Stop
    <3>1. LedgerState' = LedgerState
      BY <1>1, <2>5, SameLedger DEF Calm
    <3> QED BY <2>5, <3>1 DEF Calm, Bar!Stop, Bar!vars
  <2> QED BY <1>1, <2>1, <2>2, <2>3, <2>4, <2>5, StepKinds DEF Bar!Next
<1>2. ASSUME NEW p \in Procs, Counts(p), batch[p] \cap Settled = {},
             Settled' = Settled \cup batch[p]
      PROVE  UNCHANGED Bar!vars \/ \E S \in SUBSET Events : Bar!Settle(S)
  <2>1. CASE pc[p] = "committed"
    <3>1. batch[p] \subseteq rows
      BY <2>1 DEF EventInv
    <3> QED BY <1>2, <3>1, SameLedger DEF Counts, Bar!vars
  <2>2. CASE pc[p] = "failed"
    <3>1. batch[p] \subseteq Accepted /\ batch[p] \cap rows = {} /\ batch[p] # {}
      BY <2>2 DEF EventInv, Unsaved
    <3>2. \A e \in batch[p] : LedgerState[e] = "buffered"
      BY <1>0, <1>2, <3>1, StateOf
    <3>3. LedgerState' = [x \in Events |-> IF x \in batch[p] THEN "lost" ELSE LedgerState[x]]
      BY <1>0, <1>2, <3>1 DEF Counts, LedgerState
    <3>4. Bar!Settle(batch[p])
      BY <1>2, <3>1, <3>2, <3>3 DEF Counts, Bar!Settle, Bar!MoveTo
    <3> QED BY <1>0, <3>1, <3>4
  <2> QED BY <1>2, <2>1, <2>2 DEF Counts
<1> QED BY <1>1, <1>2, SettledBy DEF Bar!Next

\* The writer keeps the promise of the ledger: whatever handlers, callbacks, other
\* writers and main do in between, an event is accepted or refused, is settled
\* once as stored or as lost, and is refused from the first Close on.
THEOREM ImplementsTheLedger == Spec => ImplementsLedger
<1>1. Init => TypeInv /\ MainInv /\ EventInv
  BY TypeInit, MainInit, EventInit
<1>2. (TypeInv /\ MainInv /\ EventInv) /\ [Next]_vars => (TypeInv /\ MainInv /\ EventInv)'
  BY TypeNext, MainNext, EventNext
<1>3. (TypeInv /\ MainInv /\ EventInv) /\ [Next]_vars => [Bar!Next]_(Bar!vars)
  BY LedgerNext
<1> QED BY <1>1, <1>2, <1>3, LedgerInit, PTL DEF Spec, ImplementsLedger, Bar!Spec

=============================================================================
