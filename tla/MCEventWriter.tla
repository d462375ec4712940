---------------------------- MODULE MCEventWriter ----------------------------
(* Instances of EventWriter for TLC. *)
EXTENDS EventWriter, TLC

\* Requests are interchangeable, and so are timer callbacks.
MCSymmetry == Permutations(Events) \cup Permutations(Callbacks)
=============================================================================
