----------------------------- MODULE EventLedger -----------------------------
(***************************************************************************)
(* What the telemetry writer promises about request events                 *)
(* (internal/store/telemetry.go, EventWriter): an event is accepted or      *)
(* refused, an accepted event is settled once, as stored or as lost, and    *)
(* after the writer stopped every new event is refused.                     *)
(***************************************************************************)

CONSTANT Events  \* request events, one per proxied request

VARIABLES
  state,   \* per event: "new", "buffered", "stored", "lost" or "refused"
  stopped  \* the writer accepts no more events

vars == <<state, stopped>>

Init == state = [e \in Events |-> "new"] /\ stopped = FALSE

\* The events of S go on to the state s.
MoveTo(S, s) == state' = [e \in Events |-> IF e \in S THEN s ELSE state[e]]

Accept(e) ==
  /\ ~ stopped /\ state[e] = "new"
  /\ MoveTo({e}, "buffered")
  /\ UNCHANGED stopped

Refuse(e) ==
  /\ stopped /\ state[e] = "new"
  /\ MoveTo({e}, "refused")
  /\ UNCHANGED stopped

\* A batch of buffered events is stored, or lost.
Settle(batch) ==
  /\ batch # {} /\ \A e \in batch : state[e] = "buffered"
  /\ MoveTo(batch, "stored") \/ MoveTo(batch, "lost")
  /\ UNCHANGED stopped

Stop == stopped' = TRUE /\ UNCHANGED state

Next ==
  \/ \E e \in Events : Accept(e) \/ Refuse(e)
  \/ \E batch \in SUBSET Events : Settle(batch)
  \/ Stop

Spec == Init /\ [][Next]_vars
=============================================================================
