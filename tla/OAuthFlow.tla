------------------------------ MODULE OAuthFlow ------------------------------
(***************************************************************************)
(* Browser sign-in of an account (oauthflow/flow.go, importer/importer.go): *)
(* flows in memory with a deadline, the console's polls of the upstream,    *)
(* the choice of the account that an import writes, and the sign-in purpose *)
(* that goes with it.  The rows of chat credentials are Credentials.tla's.  *)
(***************************************************************************)
EXTENDS Integers

CONSTANTS
  Flows,        \* logins started from the console
  Calls,        \* requests of the console: polls and pasted credentials
  Users,        \* upstream users that a token may name
  Opaque,       \* a token that names nobody, an account without identity
  None,         \* no flow
  MaxAccounts,  \* bound: accounts
  MaxCalls      \* bound: polls and pasted credentials in all

Accounts == 1 .. MaxAccounts
Identity == Users \cup {Opaque}
New == 0        \* no account chosen by the operator

VARIABLES
  flow,      \* Store.flows
  signedIn,  \* upstream: who has signed in for a flow, None before
  overdue,   \* flows past their deadline
  account,   \* accounts.identity_hash, None without a row
  checkin,   \* the check-in purpose of an account
  console,   \* each call
  begun,     \* history: calls that began
  imports,   \* history: accounts written for a flow
  doubled,   \* history: flows that two polls asked about at the same time
  excused,   \* history: identities imported twice at a time, or to a chosen account
  unfound    \* history: identities imported without a look at the accounts

flowData == <<flow, signedIn, overdue>>
rows == <<account, checkin>>
history == <<begun, imports, doubled, excused, unfound>>
vars == <<flowData, rows, console, history>>

NoCall == [at |-> "idle", for |-> None, who |-> Opaque, asked |-> New, to |-> New, as |-> Opaque,
           late |-> FALSE]

TypeOK ==
  /\ flow \in [Flows -> [status : {"absent", "pending", "success", "failed", "dropped"},
                         requested : Accounts \cup {New}]]
  /\ signedIn \in [Flows -> Identity \cup {None}]
  /\ overdue \subseteq Flows
  /\ account \in [Accounts -> Identity \cup {None}]
  /\ checkin \in [Accounts -> {"absent", "unverified", "verified"}]
  /\ console \in [Calls ->
       [at : {"idle", "ask", "find", "write", "look", "row", "complete", "verify"},
        for : Flows \cup {None}, who : Identity, asked : Accounts \cup {New},
        to : Accounts \cup {New}, as : Identity, late : BOOLEAN]]
  /\ begun \in 0 .. MaxCalls /\ imports \in [Flows -> 0 .. MaxCalls]
  /\ doubled \subseteq Flows /\ excused \subseteq Users /\ unfound \subseteq Users

Init ==
  /\ flow = [f \in Flows |-> [status |-> "absent", requested |-> New]]
  /\ signedIn = [f \in Flows |-> None] /\ overdue = {}
  /\ account = [a \in Accounts |-> None]
  /\ checkin = [a \in Accounts |-> "absent"]
  /\ console = [c \in Calls |-> NoCall]
  /\ begun = 0 /\ imports = [f \in Flows |-> 0]
  /\ doubled = {} /\ excused = {} /\ unfound = {}

Existing == {a \in Accounts : account[a] # None}
At(c, place) == console[c].at = place
Goto(c, place) == console' = [console EXCEPT ![c].at = place]

-----------------------------------------------------------------------------
(* Flows.                                                                  *)

\* Start, for a new account or for one that the operator re-authorizes; flows
\* past their deadline are pruned.
Start(f) ==
  /\ flow[f].status = "absent"
  /\ \E a \in Existing \cup {New} :
       flow' = [g \in Flows |->
         IF g = f THEN [status |-> "pending", requested |-> a]
         ELSE IF g \in overdue THEN [flow[g] EXCEPT !.status = "dropped"] ELSE flow[g]]
  /\ UNCHANGED <<signedIn, overdue, rows, console, history>>

\* The operator signs in at the provider, with a token that may be opaque.
SignIn(f) ==
  /\ flow[f].status = "pending" /\ signedIn[f] = None
  /\ \E u \in Identity : signedIn' = [signedIn EXCEPT ![f] = u]
  /\ UNCHANGED <<flow, overdue, rows, console, history>>

\* Fifteen minutes are over; a terminal flow only vanishes then.
Deadline(f) ==
  /\ flow[f].status = "pending" /\ f \notin overdue
  /\ overdue' = overdue \cup {f}
  /\ UNCHANGED <<flow, signedIn, rows, console, history>>

\* Mutation: a flow that has failed or succeeded is asked about again.
PollAnyFlow(c, f) ==
  /\ At(c, "idle") /\ begun < MaxCalls /\ flow[f].status \in {"pending", "success", "failed"}
  /\ begun' = begun + 1
  /\ IF f \in overdue
     THEN /\ flow' = [flow EXCEPT ![f].status = "dropped"]
          /\ UNCHANGED <<console, doubled>>
     ELSE /\ console' = [console EXCEPT ![c] =
               [NoCall EXCEPT !.at = "ask", !.for = f, !.asked = flow[f].requested]]
          /\ doubled' = IF \E d \in Calls : console[d].for = f THEN doubled \cup {f} ELSE doubled
          /\ UNCHANGED flow
  /\ UNCHANGED <<signedIn, overdue, rows, imports, excused, unfound>>

\* Store.Get: an overdue flow is dropped, a terminal one is answered as it is.
Poll(c, f) ==
  /\ At(c, "idle") /\ begun < MaxCalls /\ flow[f].status \in {"pending", "success", "failed"}
  /\ begun' = begun + 1
  /\ IF f \in overdue
     THEN /\ flow' = [flow EXCEPT ![f].status = "dropped"]
          /\ UNCHANGED <<console, doubled>>
     ELSE /\ flow[f].status = "pending"
          /\ console' = [console EXCEPT ![c] =
               [NoCall EXCEPT !.at = "ask", !.for = f, !.asked = flow[f].requested]]
          /\ doubled' = IF \E d \in Calls : console[d].for = f THEN doubled \cup {f} ELSE doubled
          /\ UNCHANGED flow
  /\ UNCHANGED <<signedIn, overdue, rows, imports, excused, unfound>>

\* Store.Complete, which does nothing for a flow that was dropped meanwhile.
Completed(f, result) ==
  flow' = IF f = None THEN flow
          ELSE IF flow[f].status = "dropped" THEN flow
          ELSE [flow EXCEPT ![f].status = result]

\* The upstream does not know yet.
StillPending(c) ==
  /\ At(c, "ask")
  /\ console' = [console EXCEPT ![c] = NoCall]
  /\ UNCHANGED <<flowData, rows, history>>

\* A transport error, a reply that cannot be read, a refusal.
AskFails(c) ==
  /\ At(c, "ask")
  /\ Completed(console[c].for, "failed")
  /\ console' = [console EXCEPT ![c] = NoCall]
  /\ UNCHANGED <<signedIn, overdue, rows, history>>

SignedIn(c) ==
  /\ At(c, "ask") /\ signedIn[console[c].for] # None
  /\ console' = [console EXCEPT ![c].at = "find", ![c].who = signedIn[console[c].for]]
  /\ UNCHANGED <<flowData, rows, history>>

\* Manual: a pasted credential, with no flow.
Manual(c) ==
  /\ At(c, "idle") /\ begun < MaxCalls
  /\ \E u \in Identity : \E a \in Existing \cup {New} :
       console' = [console EXCEPT ![c] = [NoCall EXCEPT !.at = "find", !.who = u, !.asked = a]]
  /\ begun' = begun + 1
  /\ UNCHANGED <<flowData, rows, imports, doubled, excused, unfound>>

-----------------------------------------------------------------------------
(* UpsertImportedAccount.                                                  *)

Importing(u, c) ==
  \E d \in Calls \ {c} : console[d].at = "write" /\ console[d].to # New /\ console[d].as = u

\* Ids are random: one that no row has and no other import has drawn.
Unused(c) == Accounts \ (Existing \cup {console[d].to : d \in Calls \ {c}})
Fresh(c) == CHOOSE a \in Unused(c) : TRUE

\* Where an import goes that knows of no row: to the account that the operator
\* chose, or to a new one.
Anew(c) ==
  IF console[c].asked # New THEN {console[c].asked}
  ELSE IF Unused(c) = {} THEN {} ELSE {Fresh(c)}

\* Mutation: the identity is not looked up.
TargetsIgnoringIdentity(c) == Anew(c)

\* The account that the operator chose, the one with this identity, or a new one.
Targets(c) ==
  LET who == console[c].who
      known == {a \in Accounts : who # Opaque /\ account[a] = who}
  IN IF console[c].asked = New /\ known # {} THEN known ELSE Anew(c)

\* A chosen account keeps its identity if the token names nobody.
IdentityFor(c) ==
  LET who == console[c].who
      asked == console[c].asked
  IN IF asked # New /\ who = Opaque /\ account[asked] # None THEN account[asked] ELSE who

Writing(c, a, u) ==
  console' = [console EXCEPT ![c] =
    [NoCall EXCEPT !.at = "write", !.for = console[c].for, !.to = a, !.as = u]]

\* History: somebody else imports this identity, or the operator chose the account.
Excuses(c, u) ==
  excused' = IF u # Opaque /\ (console[c].asked # New \/ Importing(u, c))
             THEN excused \cup {u} ELSE excused

Find(c) ==
  /\ At(c, "find")
  /\ \E a \in Targets(c) : Writing(c, a, IdentityFor(c))
  /\ Excuses(c, IdentityFor(c))
  /\ UNCHANGED <<flowData, rows, begun, imports, doubled, unfound>>

\* The read fails, and the error is taken for "no such account": the identity gets
\* another account, and a chosen account loses its own if the token names nobody.
FindsNothing(c) ==
  LET who == console[c].who IN
  /\ At(c, "find")
  /\ \E a \in Anew(c) : Writing(c, a, who)
  /\ Excuses(c, who)
  /\ unfound' = IF who # Opaque THEN unfound \cup {who} ELSE unfound
  /\ UNCHANGED <<flowData, rows, begun, imports, doubled>>

\* UpsertAccount, and the credential and chat purpose after it.
WriteAccount(c) ==
  /\ At(c, "write")
  /\ account' = [account EXCEPT ![console[c].to] = console[c].as]
  /\ imports' = IF console[c].for = None THEN imports ELSE [imports EXCEPT ![console[c].for] = @ + 1]
  /\ console' = [console EXCEPT ![c].at = "look", ![c].as = Opaque]
  /\ UNCHANGED <<flowData, checkin, begun, doubled, excused, unfound>>

\* A statement of the import fails: what it wrote stays, the flow has failed.
ImportFails(c) ==
  /\ console[c].at \in {"find", "write", "look", "row"}
  /\ Completed(console[c].for, "failed")
  /\ console' = [console EXCEPT ![c] = NoCall]
  /\ UNCHANGED <<signedIn, overdue, rows, history>>

\* Mutation: the check-in row is written whether there is one or not.
LookAtNothing(c) ==
  /\ At(c, "look")
  /\ Goto(c, "row")
  /\ UNCHANGED <<flowData, rows, history>>

\* ensureCheckinPurpose leaves an existing row alone.
Look(c) ==
  /\ At(c, "look")
  /\ Goto(c, IF checkin[console[c].to] = "absent" THEN "row" ELSE "complete")
  /\ UNCHANGED <<flowData, rows, history>>

AddRow(c) ==
  /\ At(c, "row")
  /\ checkin' = [checkin EXCEPT ![console[c].to] = "unverified"]
  /\ console' = [console EXCEPT ![c].at = "complete", ![c].late = FALSE]
  /\ UNCHANGED <<flowData, account, history>>

-----------------------------------------------------------------------------
(* The end of a call.                                                      *)

Complete(c) ==
  /\ At(c, "complete")
  /\ Completed(console[c].for, "success")
  /\ console' = [console EXCEPT ![c].at = "verify", ![c].for = None]
  /\ UNCHANGED <<signedIn, overdue, rows, history>>

\* A call that is about to add the row comes too late now.
Verified(a) ==
  [d \in Calls |-> IF At(d, "row") /\ console[d].to = a
                   THEN [console[d] EXCEPT !.late = TRUE] ELSE console[d]]

\* autoVerifyCheckin: the probe accepts the token and the purpose is stored, or not.
AutoVerify(c) ==
  /\ At(c, "verify")
  /\ \/ /\ checkin' = [checkin EXCEPT ![console[c].to] = "verified"]
        /\ console' = [Verified(console[c].to) EXCEPT ![c] = NoCall]
     \/ UNCHANGED checkin /\ console' = [console EXCEPT ![c] = NoCall]
  /\ UNCHANGED <<flowData, account, history>>

\* ManualCheckin: a sign-in credential that the provider has accepted.
ManualCheckin(a) ==
  /\ a \in Existing /\ checkin[a] # "verified"
  /\ checkin' = [checkin EXCEPT ![a] = "verified"]
  /\ console' = Verified(a)
  /\ UNCHANGED <<flowData, account, history>>

CallStep(c) ==
  \/ \E f \in Flows : Poll(c, f)
  \/ StillPending(c) \/ AskFails(c) \/ SignedIn(c) \/ Manual(c)
  \/ Find(c) \/ FindsNothing(c) \/ WriteAccount(c) \/ ImportFails(c) \/ Look(c) \/ AddRow(c)
  \/ Complete(c) \/ AutoVerify(c)

Next ==
  \/ \E f \in Flows : Start(f) \/ SignIn(f) \/ Deadline(f)
  \/ \E c \in Calls : CallStep(c)
  \/ \E a \in Accounts : ManualCheckin(a)

Spec == Init /\ [][Next]_vars

-----------------------------------------------------------------------------
(* Properties.                                                             *)

\* Poll: "a console that polls twice after success does not import the account
\* twice" (flow.go:286), however its polls, failures and deadlines fall, unless two
\* polls overlapped.  importer.go: a repeat login of an identity finds its account;
\* excepted are overlapping imports of it, accounts chosen by the operator, and
\* imports whose read of the accounts failed.
Excepted == excused \cup unfound

ImportsAddUp ==
  /\ \A f \in Flows \ doubled : imports[f] <= 1
  /\ \A u \in Users \ Excepted : \A a, b \in Accounts :
       account[a] = u /\ account[b] = u => a = b

\* importer.go:58: "Reuse the existing row for this identity so a repeat login
\* updates the credential instead of accumulating a duplicate account", whatever
\* fails, as long as no import of it overlaps and the operator chooses no account.
RepeatLoginsReuse ==
  \A u \in Users \ excused : \A a, b \in Accounts : account[a] = u /\ account[b] = u => a = b

\* ensureCheckinPurpose: "re-logging in must not reset a credential the operator
\* already verified" (importer.go:134), unless it was verified while this import
\* was about to add the row.
VerifiedStays ==
  [][\A a \in Accounts : checkin[a] = "verified" /\ checkin'[a] # "verified" =>
       \E c \in Calls : At(c, "row") /\ console[c].to = a /\ console[c].late]_vars

\* Poll: "A terminal flow is returned as-is" (flow.go:286).
TerminalIsFinal == [][\A f \in Flows : flow[f].status = "success" => flow'[f].status # "failed"]_vars
=============================================================================
