----------------------------- MODULE Credentials -----------------------------
(***************************************************************************)
(* The chat credential of one account: its rows in the database             *)
(* (internal/store/accounts.go), the token the proxy serves                 *)
(* (internal/server/plane.go, Reload), and everybody who changes them:      *)
(*                                                                         *)
(*   rotators  the rotation loop and the rescue of a refused token          *)
(*             (internal/server/rotation.go, subsystems.go);                *)
(*   probes    the credit read of the metrics collector                     *)
(*             (internal/metrics/collect.go);                               *)
(*   admins    imports, patches and deletions (internal/importer,           *)
(*             internal/server/admin_accounts.go).                          *)
(*                                                                         *)
(* Every SQL statement or transaction is one step; a network call separates *)
(* the read of a token from the use of its answer; and a reload is four     *)
(* steps that any other reload may overtake.  A token stands for the pair   *)
(* of access and refresh token of one row.  Upstream revokes and restores   *)
(* sessions at will, so any call with a token may succeed or be refused.    *)
(***************************************************************************)
EXTENDS Integers

CONSTANTS
  Rotators,   \* goroutines that call rotateCredential for this account
  Scheduler,  \* the one of them that runs the rotation loop
  Probes,     \* goroutines that call Collector.collectPoints
  Admins,     \* concurrent handlers of the admin API
  Tokens,     \* credentials upstream issues
  None,       \* no credential
  ChatOnly,   \* whether the provider is one of models.ChatOnlyProviders
  Deletes,    \* whether administrators delete the account
  MaxVersion, \* bound: credential_version
  Wraps       \* at the bound versions start again, or else writing stops

Actors == Rotators \cup Probes \cup Admins

ASSUME CredentialAssumption ==
  /\ Scheduler \in Rotators
  /\ Rotators \cap Probes = {} /\ Rotators \cap Admins = {} /\ Probes \cap Admins = {}
  /\ None \notin Tokens
  /\ ChatOnly \in BOOLEAN /\ Deletes \in BOOLEAN /\ Wraps \in BOOLEAN
  /\ MaxVersion \in Nat \ {0}

VARIABLES
  account,  \* accounts: the row is gone, or enabled or not
  token,    \* credentials: the stored token
  version,  \* credentials.credential_version, 0 if there is no row
  renewable, \* credentials.has_refresh_token
  status,   \* account_purposes.status of the chat purpose
  served,   \* the pool has a slot of the account
  pc,       \* where each actor is
  read,     \* the token an actor read from the row
  expected, \* the version it read with it
  issued,   \* the token a refresh returned
  lost,     \* history: rotators whose row was deleted since they read it
  listed    \* what a reload has found so far: the account is to be served

rowVars == <<account, token, version, renewable, status>>
callVars == <<read, expected, issued, lost>>
vars == <<rowVars, served, pc, callVars, listed>>

\* Where a goroutine of each kind may be; all but the probes reload the pool.
Reloading == {"accounts", "purposes", "credential", "apply"}
Rotating == {"idle", "call", "persist", "revive", "clear", "dead"} \cup Reloading
Probing == {"idle", "call", "check", "mark"}
Serving == {"idle", "failed", "import", "purpose", "replace"} \cup Reloading
TokenOrNone == Tokens \cup {None}

TypeOK ==
  /\ account \in {"gone", "enabled", "disabled"}
  /\ token \in TokenOrNone /\ version \in 0 .. MaxVersion
  /\ (token = None) <=> (version = 0)
  /\ renewable \in BOOLEAN
  /\ status \in {"absent", "active", "needs_reauth"}
  /\ served \in BOOLEAN
  /\ pc \in [Actors -> Rotating \cup Probing \cup Serving]
  /\ \A r \in Rotators : pc[r] \in Rotating
  /\ \A p \in Probes : pc[p] \in Probing
  /\ \A a \in Admins : pc[a] \in Serving
  /\ read \in [Actors -> TokenOrNone] /\ issued \in [Actors -> TokenOrNone]
  /\ expected \in [Actors -> 0 .. MaxVersion]
  /\ lost \subseteq Rotators
  /\ listed \in [Actors -> BOOLEAN]

\* A rotator that is about to write has something to write.
TypeInv ==
  /\ TypeOK
  /\ \A r \in Rotators : pc[r] = "persist" => issued[r] # None

\* Until the row is deleted its versions only grow, and a version still stored
\* is stored with the token that was read with it.
ReadInv ==
  \A r \in Rotators :
    pc[r] \in {"call", "persist"} /\ r \notin lost =>
      /\ expected[r] \in 1 .. version
      /\ expected[r] = version => read[r] = token

Init ==
  /\ account = "gone" /\ token = None /\ version = 0 /\ renewable = FALSE /\ status = "absent"
  /\ served = FALSE
  /\ pc = [a \in Actors |-> "idle"]
  /\ read = [a \in Actors |-> None] /\ issued = [a \in Actors |-> None]
  /\ expected = [a \in Actors |-> 0] /\ lost = {}
  /\ listed = [a \in Actors |-> FALSE]

Goto(a, label) == pc' = [pc EXCEPT ![a] = label]

\* What an actor read is of no use to it any more.
Drop(a) ==
  /\ read' = [read EXCEPT ![a] = None]
  /\ expected' = [expected EXCEPT ![a] = 0]
  /\ issued' = [issued EXCEPT ![a] = None]
  /\ lost' = lost \ {a}

InUse == {token} \cup {read[a] : a \in Actors} \cup {issued[a] : a \in Actors}

\* Upstream issues a token that nothing refers to; which one is immaterial.
FreshToken == CHOOSE t \in Tokens : t \notin InUse
CanIssue == Tokens \ InUse # {}

\* UpsertCredential adds one to the version of the row it overwrites.
NextVersion == IF version < MaxVersion THEN version + 1 ELSE 1
CanWrite == account # "gone" /\ (version < MaxVersion \/ Wraps)

-----------------------------------------------------------------------------
(* Reload: three reads of the database, one after the other, and the       *)
(* replacement of the slots under the plane's mutex.                       *)

ReloadAccounts(a) ==
  /\ pc[a] = "accounts"
  /\ listed' = [listed EXCEPT ![a] = account = "enabled"]
  /\ Goto(a, "purposes")
  /\ UNCHANGED <<rowVars, served, callVars>>

\* The status counts unless the provider is a chat-only one.
ReloadPurposes(a) ==
  /\ pc[a] = "purposes"
  /\ listed' = [listed EXCEPT ![a] = @ /\ (ChatOnly \/ status = "active")]
  /\ Goto(a, "credential")
  /\ UNCHANGED <<rowVars, served, callVars>>

\* An account whose credential is missing or cannot be read is skipped with a
\* warning.
ReloadCredential(a) ==
  /\ pc[a] = "credential"
  /\ \E found \in {token # None, FALSE} :
       listed' = [listed EXCEPT ![a] = @ /\ found]
  /\ Goto(a, "apply")
  /\ UNCHANGED <<rowVars, served, callVars>>

ReloadApply(a) ==
  /\ pc[a] = "apply"
  /\ served' = listed[a]
  /\ listed' = [listed EXCEPT ![a] = FALSE]
  /\ Goto(a, "idle")
  /\ UNCHANGED <<rowVars, callVars>>

\* A read fails: the pool stays as it is.  A rotator logs it, an administrator
\* is answered 503.
ReloadFails(a) ==
  /\ pc[a] \in Reloading
  /\ listed' = [listed EXCEPT ![a] = FALSE]
  /\ Goto(a, IF a \in Admins THEN "failed" ELSE "idle")
  /\ UNCHANGED <<rowVars, served, callVars>>

Reload(a) ==
  \/ ReloadAccounts(a) \/ ReloadPurposes(a) \/ ReloadCredential(a)
  \/ ReloadApply(a) \/ ReloadFails(a)

-----------------------------------------------------------------------------
(* Rotators.                                                               *)

\* The credential is due, or a request was refused with the token served, and
\* the row is read before the call.
RotateRead(r) ==
  /\ pc[r] = "idle" /\ token # None /\ renewable
  /\ r = Scheduler \/ served
  /\ read' = [read EXCEPT ![r] = token]
  /\ expected' = [expected EXCEPT ![r] = version]
  /\ Goto(r, "call")
  /\ UNCHANGED <<rowVars, served, issued, lost, listed>>

\* Upstream answers with a new pair.
RefreshOK(r) ==
  /\ pc[r] = "call" /\ r \in Rotators
  /\ CanIssue /\ issued' = [issued EXCEPT ![r] = FreshToken]
  /\ Goto(r, "persist")
  /\ UNCHANGED <<rowVars, served, read, expected, lost, listed>>

\* The call fails in a way a later one may not, whatever the session.
RefreshTransient(r) ==
  /\ pc[r] = "call" /\ r \in Rotators
  /\ Drop(r) /\ Goto(r, "idle")
  /\ UNCHANGED <<rowVars, served, listed>>

\* Upstream says that the session is gone.
RefreshDead(r) ==
  /\ pc[r] = "call" /\ r \in Rotators
  /\ Drop(r) /\ Goto(r, "dead")
  /\ UNCHANGED <<rowVars, served, listed>>

\* reportDeadSession.  The write may fail, which is logged.
ReportDeadSession(r) ==
  /\ pc[r] = "dead"
  /\ \/ status' = IF status = "absent" THEN "absent" ELSE "needs_reauth"
     \/ UNCHANGED status
  /\ Goto(r, "idle")
  /\ UNCHANGED <<account, token, version, renewable, served, callVars, listed>>

\* Mutation: the write does not look at the version it expects.
PersistUnchecked(r) ==
  /\ pc[r] = "persist"
  /\ CanWrite
  /\ token' = issued[r] /\ version' = NextVersion /\ renewable' = TRUE
  /\ Drop(r) /\ Goto(r, "revive")
  /\ UNCHANGED <<account, status, served, listed>>

\* Mutation: rows can be inserted without their account.
PersistOrphan(r) ==
  /\ pc[r] = "persist"
  /\ version \in {0, expected[r]}
  /\ version < MaxVersion \/ Wraps
  /\ token' = issued[r] /\ version' = NextVersion /\ renewable' = TRUE
  /\ Drop(r) /\ Goto(r, "revive")
  /\ UNCHANGED <<account, status, served, listed>>

\* UpsertCredential with the version the rotator read.  A row that is not
\* there is inserted with version 1, if the account exists.
Persist(r) ==
  /\ pc[r] = "persist"
  /\ version \in {0, expected[r]}
  /\ CanWrite
  /\ token' = issued[r] /\ version' = NextVersion /\ renewable' = TRUE
  /\ Drop(r) /\ Goto(r, "revive")
  /\ UNCHANGED <<account, status, served, listed>>

\* A version conflict, a missing account or a failing write: the new pair is
\* dropped.
PersistFails(r) ==
  /\ pc[r] = "persist"
  /\ Drop(r) /\ Goto(r, "idle")
  /\ UNCHANGED <<rowVars, served, listed>>

\* Mutation: a rotation that landed does not look at the purpose.
ReviveSkipped(r) ==
  /\ pc[r] = "revive"
  /\ Goto(r, "accounts")
  /\ UNCHANGED <<rowVars, served, callVars, listed>>

\* revivePurpose reads the status; a read that fails ends it.
RevivePurpose(r) ==
  /\ pc[r] = "revive"
  /\ \/ Goto(r, IF status = "needs_reauth" THEN "clear" ELSE "accounts")
     \/ Goto(r, "accounts")
  /\ UNCHANGED <<rowVars, served, callVars, listed>>

\* ClearPurposeRejection writes the status, whatever it is by now.
ClearRejection(r) ==
  /\ pc[r] = "clear"
  /\ status' = IF status = "absent" THEN "absent" ELSE "active"
  /\ Goto(r, "accounts")
  /\ UNCHANGED <<account, token, version, renewable, served, callVars, listed>>

ClearFails(r) ==
  /\ pc[r] = "clear"
  /\ Goto(r, "accounts")
  /\ UNCHANGED <<rowVars, served, callVars, listed>>

Rotate(r) ==
  \/ RotateRead(r) \/ RefreshOK(r) \/ RefreshTransient(r) \/ RefreshDead(r)
  \/ ReportDeadSession(r) \/ Persist(r) \/ PersistFails(r)
  \/ RevivePurpose(r) \/ ClearRejection(r) \/ ClearFails(r) \/ Reload(r)

-----------------------------------------------------------------------------
(* Probes.                                                                 *)

ProbeRead(p) ==
  /\ pc[p] = "idle" /\ token # None
  /\ read' = [read EXCEPT ![p] = token]
  /\ Goto(p, "call")
  /\ UNCHANGED <<rowVars, served, expected, issued, lost, listed>>

\* The read succeeds or fails for another reason than its token.
ProbeAnswered(p) ==
  /\ pc[p] = "call" /\ p \in Probes
  /\ Drop(p) /\ Goto(p, "idle")
  /\ UNCHANGED <<rowVars, served, listed>>

\* Upstream answers 401, which it also does for a token that is good.
ProbeRefused(p) ==
  /\ pc[p] = "call" /\ p \in Probes
  /\ Goto(p, "check")
  /\ UNCHANGED <<rowVars, served, callVars, listed>>

\* noteAuthRejection reads the purpose rows first.
ProbeChecks(p) ==
  /\ pc[p] = "check"
  /\ IF status = "active"
     THEN Goto(p, "mark") /\ UNCHANGED callVars
     ELSE Goto(p, "idle") /\ Drop(p)
  /\ UNCHANGED <<rowVars, served, listed>>

ProbeMarks(p) ==
  /\ pc[p] = "mark"
  /\ \/ status' = IF status = "absent" THEN "absent" ELSE "needs_reauth"
     \/ UNCHANGED status
  /\ Drop(p) /\ Goto(p, "idle")
  /\ UNCHANGED <<account, token, version, renewable, served, listed>>

Probe(p) ==
  \/ ProbeRead(p) \/ ProbeAnswered(p) \/ ProbeRefused(p) \/ ProbeChecks(p) \/ ProbeMarks(p)

-----------------------------------------------------------------------------
(* Administrators.  A request that fails half-way leaves what it wrote.    *)

Ready(a) == pc[a] \in {"idle", "failed"}

\* UpsertImportedAccount: the account row, enabled whatever it was.
ImportAccount(a) ==
  /\ Ready(a)
  /\ account' = "enabled"
  /\ Goto(a, "import")
  /\ UNCHANGED <<token, version, renewable, status, served, callVars, listed>>

\* Mutation: a credential that is inserted gets no version.
ImportUnversioned(a) ==
  /\ pc[a] = "import"
  /\ CanWrite
  /\ CanIssue /\ token' = FreshToken
  /\ version' = IF version = 0 THEN 0 ELSE NextVersion
  /\ renewable' = TRUE
  /\ Goto(a, "purpose")
  /\ UNCHANGED <<account, status, served, callVars, listed>>

\* Then the credential of the new session, without an expected version.
ImportCredential(a) ==
  /\ pc[a] = "import"
  /\ CanWrite
  /\ CanIssue /\ token' = FreshToken
  /\ version' = NextVersion /\ renewable' = TRUE
  /\ Goto(a, "purpose")
  /\ UNCHANGED <<account, status, served, callVars, listed>>

\* Then the chat purpose, active.
ImportPurpose(a) ==
  /\ pc[a] = "purpose"
  /\ account # "gone"
  /\ status' = "active"
  /\ Goto(a, "accounts")
  /\ UNCHANGED <<account, token, version, renewable, served, callVars, listed>>

\* The account is gone by now, or a write fails.
ImportFails(a) ==
  /\ pc[a] \in {"import", "purpose"}
  /\ Goto(a, "failed")
  /\ UNCHANGED <<rowVars, served, callVars, listed>>

\* handleRotateCredential reads the version it is going to replace; without a
\* row it replaces any.
ReplaceRead(a) ==
  /\ Ready(a)
  /\ expected' = [expected EXCEPT ![a] = version]
  /\ Goto(a, "replace")
  /\ UNCHANGED <<rowVars, served, read, issued, lost, listed>>

\* Then it stores the token of the request, which may come without a refresh
\* token.  The purpose keeps its status.
ReplaceCredential(a) ==
  /\ pc[a] = "replace"
  /\ expected[a] = 0 \/ version \in {0, expected[a]}
  /\ CanWrite
  /\ CanIssue /\ token' = FreshToken
  /\ version' = NextVersion /\ renewable' \in BOOLEAN
  /\ Drop(a) /\ Goto(a, "accounts")
  /\ UNCHANGED <<account, status, served, listed>>

\* A version conflict, a missing account or a failing write.
ReplaceFails(a) ==
  /\ pc[a] = "replace"
  /\ Drop(a) /\ Goto(a, "failed")
  /\ UNCHANGED <<rowVars, served, listed>>

\* handlePatchAccount with the enabled flag, handleRefreshAccount without.
PatchAccount(a) ==
  /\ Ready(a)
  /\ \/ account # "gone" /\ account' \in {"enabled", "disabled"}
     \/ UNCHANGED account
  /\ Goto(a, "accounts")
  /\ UNCHANGED <<token, version, renewable, status, served, callVars, listed>>

\* Rotators that have read the row and not written it yet.
Refreshing == {r \in Rotators : pc[r] \in {"call", "persist"}}

\* handleDeleteAccount: all rows of the account in one transaction.
DeleteAccount(a) ==
  /\ Deletes /\ Ready(a)
  /\ account' = "gone" /\ status' = "absent"
  /\ token' = None /\ version' = 0 /\ renewable' = FALSE
  /\ Goto(a, "accounts")
  /\ lost' = lost \cup Refreshing
  /\ UNCHANGED <<served, read, expected, issued, listed>>

\* handleRevokeCredential: the credential's row alone.
DeleteCredential(a) ==
  /\ Deletes /\ Ready(a)
  /\ token' = None /\ version' = 0 /\ renewable' = FALSE
  /\ Goto(a, "accounts")
  /\ lost' = lost \cup Refreshing
  /\ UNCHANGED <<account, status, served, read, expected, issued, listed>>

Admin(a) ==
  \/ ImportAccount(a) \/ ImportCredential(a) \/ ImportPurpose(a) \/ ImportFails(a)
  \/ ReplaceRead(a) \/ ReplaceCredential(a) \/ ReplaceFails(a)
  \/ PatchAccount(a) \/ DeleteAccount(a) \/ DeleteCredential(a) \/ Reload(a)

-----------------------------------------------------------------------------
Next ==
  \/ \E r \in Rotators : Rotate(r)
  \/ \E p \in Probes : Probe(p)
  \/ \E a \in Admins : Admin(a)

Spec == Init /\ [][Next]_vars

\* The rotation loop goes on, round after round.  What it tries again and
\* again, at an upstream and a disk that fail now and then, works sometimes.
FairSpec ==
  /\ Spec
  /\ WF_vars(Rotate(Scheduler))
  /\ SF_vars(RefreshOK(Scheduler)) /\ SF_vars(Persist(Scheduler))
  /\ SF_vars(RevivePurpose(Scheduler) /\ pc'[Scheduler] = "clear")
  /\ SF_vars(ClearRejection(Scheduler))

-----------------------------------------------------------------------------
(* Properties.                                                             *)

\* Neither an import that a deletion overtakes nor a rotation that comes back
\* late leaves a credential or a purpose behind whose account is gone.
NoOrphanRows == account = "gone" => token = None /\ status = "absent"

\* A rotation overwrites no other credential than the one it refreshed: one
\* that was imported, replaced or rotated in during the call survives.  (Not so
\* after a deletion, since versions start again with the next import.)
RotationExtendsStored ==
  [][\A r \in Rotators \ lost :
       pc[r] = "persist" /\ pc'[r] = "revive" /\ token # None => token = read[r]]_vars

\* A rejected purpose comes back by itself: unless upstream refuses the session
\* for ever or the credential has no refresh token, a rotation clears the mark
\* (docs/implementation-notes.md: a mark must have an automatic way back).  It
\* takes administrators that do not overwrite the row in every refresh call.
Recovers ==
  <>[](\A a \in Admins : Ready(a)) =>
    (status = "needs_reauth" ~> status # "needs_reauth" \/ ~ renewable)

\* rotation.go, rotateOnce: a dead session moves the purpose to needs_reauth so
\* that the pool drops the account.  With nobody else under way it has done so
\* when the rotation is over.
DeadSessionLeavesPool ==
  [][\A r \in Rotators :
       /\ pc[r] = "dead" /\ pc'[r] = "idle" /\ status' = "needs_reauth"
       /\ \A a \in Actors \ {r} : pc[a] = "idle"
       => ~ served']_vars

\* docs/implementation-notes.md: needs_reauth takes the account out of the pool.
\* A reload that finds the mark does not serve the account.
ReloadDropsRejected ==
  [][\A a \in Actors :
       pc[a] = "purposes" /\ pc'[a] = "credential" /\ status = "needs_reauth" => ~ listed'[a]]_vars

\* admin_accounts.go, refreshPlane: once an administrator has been answered
\* with success the proxy serves the state that was stored.
ReportedStateIsServed ==
  account # "enabled" /\ (\A a \in Admins : pc[a] = "idle") => ~ served
=============================================================================
