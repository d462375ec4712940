--------------------------- MODULE CredentialProofs ---------------------------
(***************************************************************************)
(* Theorems about Credentials, for any number of rotators, probes and       *)
(* administrators, any tokens and any bound on versions.                    *)
(*                                                                         *)
(* What makes the version a rotator compares worth comparing is ReadInv:    *)
(* versions only grow until the row is deleted, so the version that was     *)
(* read is at most the stored one, and if it still is the stored one the    *)
(* stored token is the one that was read.                                   *)
(***************************************************************************)
EXTENDS Credentials, TLAPS

\* A fresh token is a token that no actor and no row refers to.
LEMMA FreshIsAToken == CanIssue => FreshToken \in Tokens
BY DEF CanIssue, FreshToken

\* The next version is a version, and unless versions wrap the following one.
LEMMA NextIsAVersion ==
  ASSUME version \in 0 .. MaxVersion PROVE NextVersion \in 1 .. MaxVersion
BY CredentialAssumption DEF CredentialAssumption, NextVersion

LEMMA VersionsGrow == ~ Wraps /\ CanWrite => NextVersion = version + 1
BY DEF NextVersion, CanWrite

-----------------------------------------------------------------------------
(* Types.                                                                  *)

LEMMA TypeInit == Init => TypeInv
<1> SUFFICES ASSUME Init PROVE TypeInv
  OBVIOUS
<1>1. token \in TokenOrNone /\ version \in 0 .. MaxVersion /\ 0 \in 0 .. MaxVersion
  BY CredentialAssumption DEF CredentialAssumption, TypeInv, Init, TokenOrNone
<1>2. \A a \in Actors : pc[a] = "idle"
  BY DEF Init
<1>3. pc \in [Actors -> Rotating \cup Probing \cup Serving]
  BY DEF Init, Rotating
<1>4. /\ \A r \in Rotators : pc[r] \in Rotating
      /\ \A p \in Probes : pc[p] \in Probing
      /\ \A a \in Admins : pc[a] \in Serving
      /\ \A r \in Rotators : pc[r] # "persist"
  BY <1>2 DEF Actors, Rotating, Probing, Serving
<1>5. /\ read \in [Actors -> TokenOrNone] /\ issued \in [Actors -> TokenOrNone]
      /\ expected \in [Actors -> 0 .. MaxVersion] /\ listed \in [Actors -> BOOLEAN]
  BY <1>1 DEF Init, TokenOrNone
<1> QED BY <1>1, <1>3, <1>4, <1>5 DEF Init, TypeOK, TypeInv

LEMMA TypeReload ==
  ASSUME TypeInv, NEW a \in Rotators \cup Admins, Reload(a) PROVE TypeInv'
<1> USE CredentialAssumption DEF CredentialAssumption, TypeInv, Rotating, Probing, Serving, Reloading, TypeOK, Actors, TokenOrNone, Goto, rowVars, callVars
<1>1. CASE ReloadAccounts(a) BY <1>1 DEF ReloadAccounts
<1>2. CASE ReloadPurposes(a) BY <1>2 DEF ReloadPurposes
<1>3. CASE ReloadCredential(a) BY <1>3 DEF ReloadCredential
<1>4. CASE ReloadApply(a) BY <1>4 DEF ReloadApply
<1>5. CASE ReloadFails(a) BY <1>5 DEF ReloadFails
<1> QED BY <1>1, <1>2, <1>3, <1>4, <1>5 DEF Reload

LEMMA TypeRotate ==
  ASSUME TypeInv, NEW r \in Rotators, Rotate(r) PROVE TypeInv'
<1> USE CredentialAssumption DEF CredentialAssumption, TypeInv, Rotating, Probing, Serving, Reloading, TypeOK, Actors, TokenOrNone, Goto, Drop, rowVars, callVars
<1>1. CASE RotateRead(r)
  <2>1. /\ pc' = [pc EXCEPT ![r] = "call"]
        /\ read' = [read EXCEPT ![r] = token]
        /\ expected' = [expected EXCEPT ![r] = version]
        /\ UNCHANGED <<account, token, version, renewable, status, served, issued, lost, listed>>
    BY <1>1, Zenon DEF RotateRead
  <2> QED BY <2>1
<1>2. CASE RefreshOK(r) BY <1>2, FreshIsAToken DEF RefreshOK
<1>3. CASE RefreshTransient(r) BY <1>3 DEF RefreshTransient
<1>4. CASE RefreshDead(r) BY <1>4 DEF RefreshDead
<1>5. CASE ReportDeadSession(r) BY <1>5 DEF ReportDeadSession
<1>6. CASE Persist(r) BY <1>6, NextIsAVersion DEF Persist
<1>7. CASE PersistFails(r) BY <1>7 DEF PersistFails
<1>8. CASE RevivePurpose(r) BY <1>8 DEF RevivePurpose
<1>9. CASE ClearRejection(r) BY <1>9 DEF ClearRejection
<1>10. CASE ClearFails(r) BY <1>10 DEF ClearFails
<1>11. CASE Reload(r) BY <1>11, TypeReload
<1> QED BY <1>1, <1>2, <1>3, <1>4, <1>5, <1>6, <1>7, <1>8, <1>9, <1>10, <1>11 DEF Rotate

LEMMA TypeProbe ==
  ASSUME TypeInv, NEW p \in Probes, Probe(p) PROVE TypeInv'
<1> USE CredentialAssumption DEF CredentialAssumption, TypeInv, Rotating, Probing, Serving, Reloading, TypeOK, Actors, TokenOrNone, Goto, Drop, rowVars, callVars
<1>1. CASE ProbeRead(p) BY <1>1 DEF ProbeRead
<1>2. CASE ProbeAnswered(p) BY <1>2 DEF ProbeAnswered
<1>3. CASE ProbeRefused(p) BY <1>3 DEF ProbeRefused
<1>4. CASE ProbeChecks(p) BY <1>4 DEF ProbeChecks
<1>5. CASE ProbeMarks(p) BY <1>5 DEF ProbeMarks
<1> QED BY <1>1, <1>2, <1>3, <1>4, <1>5 DEF Probe

LEMMA TypeAdmin ==
  ASSUME TypeInv, NEW a \in Admins, Admin(a) PROVE TypeInv'
<1> USE CredentialAssumption DEF CredentialAssumption, TypeInv, Rotating, Probing, Serving, Reloading, TypeOK, Actors, TokenOrNone, Goto, rowVars, callVars
<1>1. CASE ImportAccount(a) BY <1>1 DEF ImportAccount
<1>2. CASE ImportCredential(a)
  <2>1. token' \in Tokens /\ version' \in 1 .. MaxVersion /\ renewable' \in BOOLEAN
    BY <1>2, FreshIsAToken, NextIsAVersion DEF ImportCredential
  <2>2. pc' = [pc EXCEPT ![a] = "purpose"]
        /\ UNCHANGED <<account, status, served, read, expected, issued, lost, listed>>
    BY <1>2 DEF ImportCredential
  <2> QED BY <2>1, <2>2
<1>3. CASE ImportPurpose(a) BY <1>3 DEF ImportPurpose
<1>4. CASE ImportFails(a) BY <1>4 DEF ImportFails
<1>5. CASE PatchAccount(a) BY <1>5 DEF PatchAccount
<1>6. CASE DeleteAccount(a)
  <2>1. /\ account' = "gone" /\ status' = "absent"
        /\ token' = None /\ version' = 0 /\ renewable' \in BOOLEAN
        /\ pc' = [pc EXCEPT ![a] = "accounts"]
        /\ lost' \subseteq Rotators
        /\ UNCHANGED <<served, read, expected, issued, listed>>
    BY <1>6 DEF DeleteAccount, Refreshing
  <2> QED BY <2>1
<1>7. CASE ReplaceRead(a) BY <1>7 DEF ReplaceRead
<1>8. CASE ReplaceCredential(a)
  <2>1. token' \in Tokens /\ version' \in 1 .. MaxVersion /\ renewable' \in BOOLEAN
    BY <1>8, FreshIsAToken, NextIsAVersion DEF ReplaceCredential
  <2>2. /\ pc' = [pc EXCEPT ![a] = "accounts"]
        /\ read' = [read EXCEPT ![a] = None]
        /\ expected' = [expected EXCEPT ![a] = 0]
        /\ issued' = [issued EXCEPT ![a] = None]
        /\ lost' = lost \ {a}
        /\ UNCHANGED <<account, status, served, listed>>
    BY <1>8 DEF ReplaceCredential, Drop
  <2> QED BY <2>1, <2>2
<1>9. CASE ReplaceFails(a) BY <1>9 DEF ReplaceFails, Drop
<1>10. CASE DeleteCredential(a)
  <2>1. /\ token' = None /\ version' = 0 /\ renewable' \in BOOLEAN
        /\ pc' = [pc EXCEPT ![a] = "accounts"]
        /\ lost' \subseteq Rotators
        /\ UNCHANGED <<account, status, served, read, expected, issued, listed>>
    BY <1>10 DEF DeleteCredential, Refreshing
  <2> QED BY <2>1
<1>11. CASE Reload(a) BY <1>11, TypeReload
<1> QED BY <1>1, <1>2, <1>3, <1>4, <1>5, <1>6, <1>7, <1>8, <1>9, <1>10, <1>11 DEF Admin

LEMMA TypeStep == TypeInv /\ [Next]_vars => TypeInv'
<1> SUFFICES ASSUME TypeInv, [Next]_vars PROVE TypeInv'
  OBVIOUS
<1>1. CASE \E r \in Rotators : Rotate(r) BY <1>1, TypeRotate
<1>2. CASE \E p \in Probes : Probe(p) BY <1>2, TypeProbe
<1>3. CASE \E a \in Admins : Admin(a) BY <1>3, TypeAdmin
<1>4. CASE UNCHANGED vars
  BY <1>4 DEF vars, rowVars, callVars, TypeOK, TypeInv
<1> QED BY <1>1, <1>2, <1>3, <1>4 DEF Next

\* Every variable keeps its type; a row without a token has version 0 and a row
\* with one has not (store/accounts.go, UpsertCredential).
THEOREM TypeCorrect == Spec => []TypeOK
<1>1. TypeInv => TypeOK
  BY DEF TypeInv
<1> QED BY <1>1, TypeInit, TypeStep, PTL DEF Spec

\* The same with the strengthening that makes it inductive.
LEMMA TypeInvariant == Spec => []TypeInv
BY TypeInit, TypeStep, PTL DEF Spec

-----------------------------------------------------------------------------
(* What a rotation overwrites.                                             *)

\* What ReadInv says of rotator r.
ReadOK(r) ==
  pc[r] \in {"call", "persist"} /\ r \notin lost =>
    /\ expected[r] \in 1 .. version
    /\ expected[r] = version => read[r] = token

\* It survives a step that leaves what r holds alone and either leaves the row
\* alone or counts its version on.
LEMMA ReadKept ==
  ASSUME TypeInv, NEW r \in Rotators, ReadOK(r),
         pc'[r] \in {"call", "persist"} /\ r \notin lost' =>
           /\ pc[r] \in {"call", "persist"} /\ r \notin lost
           /\ read'[r] = read[r] /\ expected'[r] = expected[r],
         \/ UNCHANGED <<token, version>>
         \/ version' = version + 1
  PROVE  ReadOK(r)'
<1>1. version \in Nat /\ expected[r] \in Nat
  BY CredentialAssumption DEF CredentialAssumption, TypeInv, TypeOK, Actors
<1> QED BY <1>1 DEF ReadOK

LEMMA ReadInit == Init => ReadInv
BY DEF Init, ReadInv, Actors

\* A rotator keeps what it holds in every step but the two that read.
LEMMA ReadOfRotator ==
  ASSUME ~ Wraps, TypeInv, NEW r \in Rotators, ReadOK(r), NEW a \in Rotators, Rotate(a)
  PROVE  ReadOK(r)'
<1> USE DEF TypeInv, TypeOK, Actors, Goto, Drop, rowVars, callVars
<1>1. CASE RotateRead(a)
  <2>1. /\ pc' = [pc EXCEPT ![a] = "call"]
        /\ read' = [read EXCEPT ![a] = token]
        /\ expected' = [expected EXCEPT ![a] = version]
        /\ UNCHANGED <<token, version, lost>>
        /\ token # None
    BY <1>1, Zenon DEF RotateRead
  <2>2. version \in Nat \ {0}
    BY <2>1, CredentialAssumption DEF CredentialAssumption
  <2> QED BY <2>1, <2>2 DEF ReadOK
<1>2. CASE RefreshOK(a)
  BY <1>2, ReadKept DEF RefreshOK
<1>3. CASE RefreshTransient(a) \/ RefreshDead(a) \/ ReportDeadSession(a)
  BY <1>3, ReadKept DEF RefreshTransient, RefreshDead, ReportDeadSession
<1>4. CASE Persist(a) \/ PersistFails(a)
  BY <1>4, ReadKept, VersionsGrow DEF Persist, PersistFails
<1>5. CASE RevivePurpose(a) \/ ClearRejection(a) \/ ClearFails(a)
  BY <1>5, ReadKept DEF RevivePurpose, ClearRejection, ClearFails
<1>6. CASE Reload(a)
  BY <1>6, ReadKept
  DEF Reload, ReloadAccounts, ReloadPurposes, ReloadCredential, ReloadApply, ReloadFails
<1> QED BY <1>1, <1>2, <1>3, <1>4, <1>5, <1>6 DEF Rotate

LEMMA ReadOfAdmin ==
  ASSUME ~ Wraps, TypeInv, NEW r \in Rotators, ReadOK(r), NEW a \in Admins, Admin(a)
  PROVE  ReadOK(r)'
<1> USE DEF TypeInv, TypeOK, Actors, Goto, Drop, rowVars, callVars
<1>1. r # a
  BY CredentialAssumption DEF CredentialAssumption
<1>2. CASE Reload(a)
  BY <1>1, <1>2, ReadKept
  DEF Reload, ReloadAccounts, ReloadPurposes, ReloadCredential, ReloadApply, ReloadFails
<1>3. CASE ImportAccount(a) \/ ImportCredential(a) \/ ImportPurpose(a) \/ ImportFails(a)
  BY <1>1, <1>3, ReadKept, VersionsGrow DEF ImportAccount, ImportCredential, ImportPurpose, ImportFails
<1>4. CASE ReplaceRead(a) \/ ReplaceCredential(a) \/ ReplaceFails(a) \/ PatchAccount(a)
  BY <1>1, <1>4, ReadKept, VersionsGrow DEF ReplaceRead, ReplaceCredential, ReplaceFails, PatchAccount
<1>5. CASE DeleteAccount(a) \/ DeleteCredential(a)
  BY <1>1, <1>5 DEF DeleteAccount, DeleteCredential, Refreshing, ReadOK
<1> QED BY <1>2, <1>3, <1>4, <1>5 DEF Admin

LEMMA ReadOfProbe ==
  ASSUME TypeInv, NEW r \in Rotators, ReadOK(r), NEW p \in Probes, Probe(p)
  PROVE  ReadOK(r)'
<1>1. r # p
  BY CredentialAssumption DEF CredentialAssumption
<1> QED BY <1>1, ReadKept
        DEF TypeInv, TypeOK, Actors, Goto, Drop, rowVars, callVars,
            Probe, ProbeRead, ProbeAnswered, ProbeRefused, ProbeChecks, ProbeMarks

LEMMA ReadStep ==
  ASSUME ~ Wraps, TypeInv, ReadInv, [Next]_vars PROVE ReadInv'
<1> SUFFICES ASSUME NEW r \in Rotators PROVE ReadOK(r)'
  BY DEF ReadInv, ReadOK
<1>1. ReadOK(r)
  BY DEF ReadInv, ReadOK
<1>2. CASE UNCHANGED vars
  BY <1>1, <1>2 DEF ReadOK, vars, rowVars, callVars
<1> QED BY <1>1, <1>2, ReadOfRotator, ReadOfAdmin, ReadOfProbe DEF Next

LEMMA ReadInvariant == ASSUME ~ Wraps PROVE Spec => []ReadInv
<1>1. TypeInv /\ ReadInv /\ [Next]_vars => ReadInv'
  BY ReadStep
<1> QED BY <1>1, TypeInvariant, ReadInit, PTL DEF Spec

\* Only its own write takes a rotator from "persist" to "revive".
LEMMA OnlyPersistRevives ==
  ASSUME TypeInv, NEW r \in Rotators, Next, pc[r] = "persist", pc'[r] = "revive"
  PROVE  Persist(r)
<1> USE CredentialAssumption DEF CredentialAssumption, TypeInv, TypeOK, Actors, Goto, callVars, rowVars
<1>1. CASE \E p \in Probes : Probe(p)
  BY <1>1 DEF Probe, ProbeRead, ProbeAnswered, ProbeRefused, ProbeChecks, ProbeMarks
<1>2. CASE \E a \in Admins : Admin(a)
  BY <1>2 DEF Admin, ImportAccount, ImportCredential, ImportPurpose, ImportFails, PatchAccount,
              DeleteAccount, ReplaceRead, ReplaceCredential, ReplaceFails, DeleteCredential, Reload, ReloadAccounts, ReloadPurposes, ReloadCredential,
              ReloadApply, ReloadFails, Reloading
<1>3. CASE \E a \in Rotators : Rotate(a)
  <2> PICK a \in Rotators : Rotate(a)
    BY <1>3
  <2>1. CASE Reload(a)
    BY <2>1 DEF Reload, ReloadAccounts, ReloadPurposes, ReloadCredential,
                ReloadApply, ReloadFails, Reloading
  <2>2. CASE ~ Reload(a)
    BY <2>2 DEF Rotate, RotateRead, RefreshOK, RefreshTransient, RefreshDead, ReportDeadSession,
                Persist, PersistFails, RevivePurpose, ClearRejection, ClearFails
  <2> QED BY <2>1, <2>2
<1> QED BY <1>1, <1>2, <1>3 DEF Next

\* A rotation replaces the credential it refreshed and no other, whoever else
\* writes the row during its call, unless the row was deleted meanwhile; the
\* versions of the code do not wrap
\* (store/accounts.go, UpsertCredential; server/rotation.go, rotateCredential).
THEOREM RotationIsSafe == ASSUME ~ Wraps PROVE Spec => RotationExtendsStored
<1>1. ASSUME TypeInv, ReadInv, [Next]_vars
      PROVE  [\A r \in Rotators \ lost :
                pc[r] = "persist" /\ pc'[r] = "revive" /\ token # None => token = read[r]]_vars
  <2> SUFFICES ASSUME Next, NEW r \in Rotators \ lost,
                      pc[r] = "persist", pc'[r] = "revive", token # None
               PROVE  token = read[r]
    BY <1>1
  <2>1. version \in {0, expected[r]}
    BY <1>1, OnlyPersistRevives DEF Persist
  <2>2. version # 0
    BY <1>1 DEF TypeInv, TypeOK
  <2> QED BY <1>1, <2>1, <2>2 DEF ReadInv
<1> QED BY <1>1, TypeInvariant, ReadInvariant, PTL DEF Spec, RotationExtendsStored

-----------------------------------------------------------------------------
(* Rows without their account.                                             *)

LEMMA OrphanStep == ASSUME TypeInv, NoOrphanRows, [Next]_vars PROVE NoOrphanRows'
<1> USE DEF NoOrphanRows, rowVars, CanWrite
<1>1. CASE \E r \in Rotators : Rotate(r)
  BY <1>1 DEF Rotate, RotateRead, RefreshOK, RefreshTransient, RefreshDead, ReportDeadSession,
              Persist, PersistFails, RevivePurpose, ClearRejection, ClearFails,
              Reload, ReloadAccounts, ReloadPurposes, ReloadCredential, ReloadApply, ReloadFails
<1>2. CASE \E p \in Probes : Probe(p)
  BY <1>2 DEF Probe, ProbeRead, ProbeAnswered, ProbeRefused, ProbeChecks, ProbeMarks
<1>3. CASE \E a \in Admins : Admin(a)
  BY <1>3 DEF Admin, ImportAccount, ImportCredential, ImportPurpose, ImportFails, PatchAccount,
              DeleteAccount, ReplaceRead, ReplaceCredential, ReplaceFails, DeleteCredential, Reload, ReloadAccounts, ReloadPurposes, ReloadCredential,
              ReloadApply, ReloadFails
<1>4. CASE UNCHANGED vars
  BY <1>4 DEF vars
<1> QED BY <1>1, <1>2, <1>3, <1>4 DEF Next

\* No credential and no purpose is left of an account that is gone, whatever
\* imports and rotations were under way (store/accounts.go, DeleteAccount).
THEOREM NoOrphans == Spec => []NoOrphanRows
<1>1. Init => NoOrphanRows
  BY DEF Init, NoOrphanRows
<1>2. TypeInv /\ NoOrphanRows /\ [Next]_vars => NoOrphanRows'
  BY OrphanStep
<1> QED BY <1>1, <1>2, TypeInvariant, PTL DEF Spec
=============================================================================
