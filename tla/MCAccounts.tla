----------------------------- MODULE MCAccounts -----------------------------
(***************************************************************************)
(* What must happen in the end around an account, for TLC: a request of the *)
(* pool is answered, and a purpose that was marked comes back.  Pool and    *)
(* Credentials leave each other's steps open and share no memory: a         *)
(* behaviour chooses one, and the fairness is that of its goroutines.       *)
(***************************************************************************)
EXTENDS Integers, FiniteSets, TLC

CONSTANTS Keys, Models, Sessions, Requests, Outcomes, AffinityModes, ResetDelays,
          Cooldown, BlockMax, MaxGen, MaxTime, NoSession, NoKey, OtherKey,
          Rotators, Scheduler, Probes, Admins, Tokens, None, ChatOnly, Deletes,
          MaxVersion, Wraps

VARIABLES
  live, gen, inFlight, closed, failed, blocked, hard, rescues, affinity, pin, now, req,
  account, token, version, renewable, status, served, pc, read, expected, issued, lost,
  listed,
  part   \* the module of this behaviour

poolVars ==
  <<live, gen, inFlight, closed, failed, blocked, hard, rescues, affinity, pin, now, req>>
credentialVars ==
  <<account, token, version, renewable, status, served, pc, read, expected, issued, lost,
    listed>>

\* Streams of the conversations.  A plain completion goes the same way as far as the
\* answer of its attempt and ends there.
MCProfiles == {[model |-> m, session |-> s, stream |-> TRUE] : m \in Models, s \in Sessions}

\* The pool without exclusions.
P == INSTANCE Pool WITH Profiles <- MCProfiles, HardSets <- {{}}
C == INSTANCE Credentials

Init == part \in {"pool", "credentials"} /\ P!Init /\ C!Init

Next ==
  /\ UNCHANGED part
  /\ \/ part = "pool" /\ P!Next /\ UNCHANGED credentialVars
     \/ part = "credentials" /\ C!Next /\ UNCHANGED poolVars

\* That of Credentials!FairSpec: the rotation loop goes on, and what it tries again and
\* again works sometimes.  (Pool!RequestFairness asks nothing where no request runs.)
Works(A) == part = "credentials" /\ A
CredentialFairness ==
  /\ WF_credentialVars(Works(C!Rotate(Scheduler)))
  /\ SF_credentialVars(Works(C!RefreshOK(Scheduler)))
  /\ SF_credentialVars(Works(C!Persist(Scheduler)))
  /\ SF_credentialVars(Works(C!RevivePurpose(Scheduler) /\ pc'[Scheduler] = "clear"))
  /\ SF_credentialVars(Works(C!ClearRejection(Scheduler)))

Spec ==
  /\ Init /\ [][Next]_<<part, poolVars, credentialVars>>
  /\ P!RequestFairness /\ CredentialFairness

\* internal/providers/pool.go: every call ends.
RequestsEnd == part = "pool" => P!RequestsEnd
\* internal/server/rotation.go: a purpose that was marked comes back.
Recovers == part = "credentials" => C!Recovers
=============================================================================
