------------------------------ MODULE Settings ------------------------------
(***************************************************************************)
(* Runtime settings: the versions of one stored override                    *)
(* (server/admin_routes.go, store/control.go) and the cached snapshot that  *)
(* every scheduler reads it from (server/runtime_settings.go).  A value is  *)
(* known by the version with which it was stored.                           *)
(***************************************************************************)
EXTENDS Integers, FiniteSets

CONSTANTS
  Editors,     \* administrators with the settings page open
  Readers,     \* goroutines that read a setting
  MaxVersion,  \* bound: versions of the override
  Empty,       \* a snapshot without overrides, for the environment's defaults
  Unset        \* no snapshot

VARIABLES
  override,  \* runtime_settings.value_version of the key, 0 without a row
  snap,      \* RuntimeSettings.cached: Unset, Empty, or the version it holds
  recent,    \* the snapshot is younger than its ttl
  editor,    \* each administrator
  reader,    \* each reader
  overwrote, \* history: a patch with a version replaced another version
  raced      \* history: a patch was stored between the check and the write of another

vars == <<override, snap, recent, editor, reader, overwrote, raced>>

Shown == 0 .. MaxVersion
Snapshot == {Unset, Empty} \cup (1 .. MaxVersion)
NoReader == [at |-> "idle", held |-> Unset, got |-> Empty]

TypeOK ==
  /\ override \in Shown /\ snap \in Snapshot /\ recent \in BOOLEAN
  /\ editor \in [Editors -> [at : {"idle", "edit", "put"}, seen : Shown, checked : BOOLEAN]]
  /\ reader \in [Readers ->
       [at : {"idle", "load", "keep"}, held : Snapshot, got : Snapshot]]
  /\ overwrote \in BOOLEAN /\ raced \in BOOLEAN

Init ==
  /\ override = 0 /\ snap = Unset /\ recent = FALSE
  /\ editor = [e \in Editors |-> [at |-> "idle", seen |-> 0, checked |-> FALSE]]
  /\ reader = [r \in Readers |-> NoReader]
  /\ overwrote = FALSE /\ raced = FALSE

-----------------------------------------------------------------------------
(* The settings page.                                                      *)

\* handleGetSettings: version 0 stands for a key that was never saved.
Show(e) ==
  /\ editor[e].at = "idle"
  /\ editor' = [editor EXCEPT ![e].at = "edit", ![e].seen = override]
  /\ UNCHANGED <<override, snap, recent, reader, overwrote, raced>>

\* Mutation: version 0 passes for every key, saved or not.
CheckTrustsZero(e) ==
  /\ editor[e].at = "edit"
  /\ \E checked \in BOOLEAN :
       editor' = [editor EXCEPT
         ![e].at = IF checked /\ editor[e].seen \notin {0, override} THEN "idle" ELSE "put",
         ![e].checked = checked]
  /\ UNCHANGED <<override, snap, recent, reader, overwrote, raced>>

\* handlePatchSettings compares the version of the body, if there is one, with
\* the stored one; a conflict is refused and the page is read again.
Check(e) ==
  /\ editor[e].at = "edit"
  /\ \E checked \in BOOLEAN :
       editor' = [editor EXCEPT
         ![e].at = IF checked /\ editor[e].seen # override THEN "idle" ELSE "put",
         ![e].checked = checked]
  /\ UNCHANGED <<override, snap, recent, reader, overwrote, raced>>

\* PutRuntimeSetting: one more than the stored version, whichever that is by then.
Put(e) ==
  /\ editor[e].at = "put" /\ override < MaxVersion
  /\ override' = override + 1
  /\ overwrote' = (overwrote \/ (editor[e].checked /\ editor[e].seen # override))
  /\ raced' = (raced \/ \E o \in Editors \ {e} : editor[o].at = "put")
  /\ editor' = [editor EXCEPT ![e].at = "idle", ![e].checked = FALSE]
  /\ UNCHANGED <<snap, recent, reader>>

\* It fails, and so does the request.
PutFails(e) ==
  /\ editor[e].at = "put"
  /\ editor' = [editor EXCEPT ![e].at = "idle", ![e].checked = FALSE]
  /\ UNCHANGED <<override, snap, recent, reader, overwrote, raced>>

-----------------------------------------------------------------------------
(* RuntimeSettings.snapshot.                                               *)

\* An expired snapshot is read again, outside the lock.
Look(r) ==
  /\ reader[r].at = "idle" /\ ~ (recent /\ snap # Unset)
  /\ reader' = [reader EXCEPT ![r] = [NoReader EXCEPT !.at = "load", !.held = snap]]
  /\ UNCHANGED <<override, snap, recent, editor, overwrote, raced>>

Stored == IF override = 0 THEN Empty ELSE override

Load(r) ==
  /\ reader[r].at = "load"
  /\ reader' = [reader EXCEPT ![r].at = "keep", ![r].got = Stored]
  /\ UNCHANGED <<override, snap, recent, editor, overwrote, raced>>

\* The read fails: what the reader has seen goes on to be served, and a reader
\* that has seen no snapshot makes one without overrides.
LoadFails(r) ==
  /\ reader[r].at = "load"
  /\ reader' = [reader EXCEPT ![r] =
       IF @.held = Unset THEN [@ EXCEPT !.at = "keep", !.got = Empty] ELSE NoReader]
  /\ UNCHANGED <<override, snap, recent, editor, overwrote, raced>>

Keep(r) ==
  /\ reader[r].at = "keep"
  /\ snap' = reader[r].got /\ recent' = TRUE
  /\ reader' = [reader EXCEPT ![r] = NoReader]
  /\ UNCHANGED <<override, editor, overwrote, raced>>

\* The ttl is over.
Age == /\ recent /\ recent' = FALSE
       /\ UNCHANGED <<override, snap, editor, reader, overwrote, raced>>

Next ==
  \/ \E e \in Editors : Show(e) \/ Check(e) \/ Put(e) \/ PutFails(e)
  \/ \E r \in Readers : Look(r) \/ Load(r) \/ LoadFails(r) \/ Keep(r)
  \/ Age

Spec == Init /\ [][Next]_vars

-----------------------------------------------------------------------------
(* Properties.                                                             *)

\* handlePatchSettings: a save whose version was checked replaces a newer version only
\* if that one was stored between its check and its write.  However shows, checks,
\* failing writes and saves without a version interleave, a page that was merely left
\* open never overwrites what another administrator saved meanwhile.
LossNeedsARace == overwrote => raced

\* handlePatchSettings: "A stale version means the operator is editing a snapshot
\* someone else has already replaced; refusing is the only outcome that cannot
\* lose data" (admin_routes.go:328).
NoEditIsLost == ~ overwrote

\* snapshot: "Keep serving the last good snapshot rather than reverting every
\* scheduler to environment defaults on a transient read failure"
\* (runtime_settings.go:53).
GoodSnapshotStays == [][(snap \in 1 .. MaxVersion) => (snap' # Empty)]_vars
=============================================================================
