------------------------------- MODULE MCPool -------------------------------
(* Instances of Pool for TLC. *)
EXTENDS Pool, TLC

\* Streams and plain completions, with the conversations of the instance or
\* without one.
MCProfiles ==
  {[model |-> m, session |-> s, stream |-> b] :
     m \in Models, s \in Sessions \cup {NoSession}, b \in BOOLEAN}

\* A stream of a conversation and a plain completion outside any.
MCMixed == {p \in MCProfiles : p.stream <=> p.session # NoSession}

\* Plain completions outside any conversation.
MCAnonymous == {p \in MCProfiles : ~ p.stream /\ p.session = NoSession}

\* The accounts are interchangeable (the order of keys only breaks ties, which
\* the model leaves open), and so are the callers.
MCSymmetry == Permutations(Keys) \cup Permutations(Requests)

\* No exclusions.
MCNoHard == {{}}
\* Any exclusions.
MCAnyHard == SUBSET (Keys \X Models)

\* Upstream announces a reset in the past, a short one and one past BlockMax.
MCResetDelays == {-1, 2, 5}
=============================================================================
