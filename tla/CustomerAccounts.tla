---------------------------- MODULE CustomerAccounts ----------------------------
(***************************************************************************)
(* Customer accounts (auth.service.ts) and the staff's edits of them       *)
(* (admin-customers.service.ts).                                           *)
(*                                                                         *)
(* Every operation reads the row, checks it, and writes it later, without  *)
(* a transaction; what it writes does not depend on the row any more.      *)
(* Deleting an account empties its row and keeps it, for the orders;       *)
(* staff may delete a row for good.  Links are mailed to the customer and  *)
(* found again by the token in the row; a link that is refused because it  *)
(* is too old is one that nobody uses here.                                *)
(***************************************************************************)
EXTENDS Naturals, FiniteSets

CONSTANTS
  Accounts,     \* rows that may be created
  Addresses,
  NoAddress,    \* the address of the deleted
  Tasks,        \* calls that may run at once
  NoAccount,
  MaxLinks,     \* reset links made; bounds the model
  MaxStaffEdits

ASSUME AccountConstants ==
  /\ NoAddress \notin Addresses /\ NoAccount \notin Accounts
  /\ MaxLinks \in Nat /\ MaxStaffEdits \in Nat

VARIABLES
  row,        \* the customers
  signedIn,   \* accounts some token of which is still valid
  task,       \* the call of each slot: read and checked, not yet written
  linksMade,
  staffEdits,
  resetBy,    \* history: for each reset link, its account and its uses
  staffTouched, \* history: deleted rows that staff have written
  callsRaced       \* history: accounts that two calls worked on at once

accountVars == <<row, signedIn, task, linksMade, staffEdits, resetBy, staffTouched, callsRaced>>

Missing == [at |-> "missing", address |-> NoAddress, personal |-> FALSE,
            verified |-> FALSE, verifyLink |-> FALSE, resetLink |-> 0]
NoTask == [op |-> "none", account |-> NoAccount, address |-> NoAddress, link |-> 0]

AccountsInit ==
  /\ row = [a \in Accounts |-> Missing] /\ signedIn = {}
  /\ task = [t \in Tasks |-> NoTask] /\ linksMade = 0 /\ staffEdits = 0
  /\ resetBy = [k \in 1..MaxLinks |-> [account |-> NoAccount, uses |-> 0]]
  /\ staffTouched = {} /\ callsRaced = {}

Exists(a) == row[a].at \in {"active", "deleted"}
Taken(address) == \E a \in Accounts : row[a].address = address

\* Mutant of Active: a deleted account counts as the customer's.
ActiveOrDeleted(a) == Exists(a)

\* requireActiveCustomer, and deletedAt: null in the queries.
Active(a) == row[a].at = "active"

\* A call reads and checks.  Its slot remembers what it goes on with.
Begin(t, op, a, address, link) ==
  /\ task[t] = NoTask /\ t = (CHOOSE u \in Tasks : task[u] = NoTask)
  /\ task' = [task EXCEPT ![t] = [op |-> op, account |-> a, address |-> address,
                                  link |-> link]]
  /\ UNCHANGED <<row, signedIn, linksMade, staffEdits, resetBy, staffTouched, callsRaced>>

\* The write of task t, when another call works on the same account.
Races(t) == callsRaced' = callsRaced \cup
  {a \in {task[t].account} \cap Accounts : \E u \in Tasks \ {t} : task[u].account = a}

\* Task t leaves r in the row of its account.
Write(t, r) ==
  /\ row' = [row EXCEPT ![task[t].account] = r]
  /\ task' = [task EXCEPT ![t] = NoTask] /\ Races(t)
-----------------------------------------------------------------------------
\* customerSignup, and createCustomer of the staff.  The address must be free
\* when it is read and again, by the constraint, when the row is written.
BeginSignup(t, op, address) ==
  /\ op \in {"signup", "staffCreate"} /\ ~Taken(address)
  /\ \E a \in Accounts : row[a] = Missing
  /\ Begin(t, op, NoAccount, address, 0)

FinishSignup(t) ==
  LET a == CHOOSE b \in Accounts : row[b] = Missing
      call == task[t] IN
  /\ call.op \in {"signup", "staffCreate"} /\ ~Taken(call.address)
  /\ \E b \in Accounts : row[b] = Missing
  /\ row' = [row EXCEPT ![a] = [Missing EXCEPT !.at = "active", !.address = call.address,
                     !.personal = TRUE, !.verifyLink = (call.op = "signup")]]
  /\ signedIn' = IF call.op = "signup" THEN signedIn \cup {a} ELSE signedIn
  /\ task' = [task EXCEPT ![t] = NoTask]
  /\ UNCHANGED <<linksMade, staffEdits, resetBy, staffTouched, callsRaced>>

\* customerLogin: one read.
Login(a) ==
  /\ Active(a) /\ signedIn' = signedIn \cup {a}
  /\ UNCHANGED <<row, task, linksMade, staffEdits, resetBy, staffTouched, callsRaced>>

\* The tokens of a customer expire, or are forgotten.
SignOut(a) ==
  /\ a \in signedIn /\ signedIn' = signedIn \ {a}
  /\ UNCHANGED <<row, task, linksMade, staffEdits, resetBy, staffTouched, callsRaced>>

\* updateCustomerProfile and deleteCustomerAccount, by the token.
BeginOwn(t, op, a) ==
  /\ op \in {"profile", "delete"} /\ a \in signedIn /\ Active(a)
  /\ Begin(t, op, a, NoAddress, 0)

FinishProfile(t) ==
  /\ task[t].op = "profile" /\ Exists(task[t].account)
  /\ Write(t, [row[task[t].account] EXCEPT !.personal = TRUE])
  /\ UNCHANGED <<signedIn, linksMade, staffEdits, resetBy, staffTouched>>

\* Mutant of Anonymous: the pending links are kept.
AnonymousKeepingLinks(r) ==
  [r EXCEPT !.at = "deleted", !.address = NoAddress, !.personal = FALSE]

\* What is left of a deleted account.
Anonymous(r) == [Missing EXCEPT !.at = "deleted"]

FinishDelete(t) ==
  /\ task[t].op = "delete" /\ Exists(task[t].account)
  /\ Write(t, Anonymous(row[task[t].account]))
  /\ UNCHANGED <<signedIn, linksMade, staffEdits, resetBy, staffTouched>>

\* verifyCustomerEmail; a verified row answers without writing.
BeginVerify(t, a) ==
  /\ Active(a) /\ row[a].verifyLink /\ ~row[a].verified
  /\ Begin(t, "verify", a, NoAddress, 0)

FinishVerify(t) ==
  /\ task[t].op = "verify" /\ Exists(task[t].account)
  /\ Write(t, [row[task[t].account] EXCEPT !.verified = TRUE, !.verifyLink = FALSE])
  /\ UNCHANGED <<signedIn, linksMade, staffEdits, resetBy, staffTouched>>
-----------------------------------------------------------------------------
\* requestCustomerPasswordReset, by the address.
BeginRequest(t, a) ==
  /\ Active(a) /\ linksMade < MaxLinks
  /\ Begin(t, "request", a, NoAddress, 0)

FinishRequest(t) ==
  LET a == task[t].account
      link == linksMade + 1 IN
  /\ task[t].op = "request" /\ Exists(a)
  /\ linksMade < MaxLinks /\ linksMade' = link
  /\ resetBy' = [resetBy EXCEPT ![link].account = a]
  /\ Write(t, [row[a] EXCEPT !.resetLink = link])
  /\ UNCHANGED <<signedIn, staffEdits, staffTouched>>

\* resetCustomerPassword finds the row by its link.
BeginReset(t, a) ==
  /\ Active(a) /\ row[a].resetLink > 0
  /\ Begin(t, "reset", a, NoAddress, row[a].resetLink)

\* Mutant of AfterReset: the link is not taken back.
AfterResetKept(r) == r

AfterReset(r) == [r EXCEPT !.resetLink = 0]

\* The new password; the sessions go on.
FinishReset(t) ==
  /\ task[t].op = "reset" /\ Exists(task[t].account)
  /\ resetBy' = [resetBy EXCEPT ![task[t].link].uses = @ + 1]
  /\ Write(t, AfterReset(row[task[t].account]))
  /\ UNCHANGED <<signedIn, linksMade, staffEdits, staffTouched>>
-----------------------------------------------------------------------------
\* updateCustomer of the staff does not ask whether the account is deleted, and
\* keeps the verification of another address.
BeginStaffUpdate(t, a, address) ==
  /\ Exists(a) /\ staffEdits < MaxStaffEdits
  /\ Taken(address) => row[a].address = address
  /\ Begin(t, "staffUpdate", a, address, 0)

FinishStaffUpdate(t) ==
  LET a == task[t].account
      address == task[t].address IN
  /\ task[t].op = "staffUpdate" /\ Exists(a)
  /\ Taken(address) => row[a].address = address
  /\ staffEdits < MaxStaffEdits /\ staffEdits' = staffEdits + 1
  /\ staffTouched' = IF Active(a) THEN staffTouched ELSE staffTouched \cup {a}
  /\ Write(t, [row[a] EXCEPT !.address = address, !.personal = TRUE])
  /\ UNCHANGED <<signedIn, linksMade, resetBy>>

\* deleteCustomer of the staff: a row without orders goes for good.
StaffDelete(a) ==
  /\ Exists(a) /\ staffEdits < MaxStaffEdits /\ staffEdits' = staffEdits + 1
  /\ row' = [row EXCEPT ![a] = [Missing EXCEPT !.at = "gone"]]
  /\ UNCHANGED <<signedIn, task, linksMade, resetBy, staffTouched, callsRaced>>

\* The write fails: the row is gone, the address taken, the database away.
TaskFails(t) ==
  /\ task[t] # NoTask /\ task' = [task EXCEPT ![t] = NoTask]
  /\ UNCHANGED <<row, signedIn, linksMade, staffEdits, resetBy, staffTouched, callsRaced>>
-----------------------------------------------------------------------------
AccountsNext ==
  \/ \E t \in Tasks :
       \/ \E op \in {"signup", "staffCreate"}, address \in Addresses : BeginSignup(t, op, address)
       \/ FinishSignup(t) \/ FinishProfile(t) \/ FinishDelete(t) \/ FinishVerify(t)
       \/ FinishRequest(t) \/ FinishReset(t) \/ FinishStaffUpdate(t) \/ TaskFails(t)
       \/ \E a \in Accounts :
            \/ \E op \in {"profile", "delete"} : BeginOwn(t, op, a)
            \/ BeginVerify(t, a) \/ BeginRequest(t, a) \/ BeginReset(t, a)
            \/ \E address \in Addresses : BeginStaffUpdate(t, a, address)
  \/ \E a \in Accounts : Login(a) \/ SignOut(a) \/ StaffDelete(a)

AccountsSpec == AccountsInit /\ [][AccountsNext]_accountVars
-----------------------------------------------------------------------------
AccountsTypeOK ==
  /\ row \in [Accounts -> [at : {"missing", "active", "deleted", "gone"},
                address : Addresses \cup {NoAddress}, personal : BOOLEAN,
                verified : BOOLEAN, verifyLink : BOOLEAN, resetLink : 0..MaxLinks]]
  /\ signedIn \subseteq Accounts
  /\ task \in [Tasks -> [op : {"none", "signup", "staffCreate", "profile", "delete",
                               "verify", "request", "reset", "staffUpdate"},
                 account : Accounts \cup {NoAccount},
                 address : Addresses \cup {NoAddress}, link : 0..MaxLinks]]
  /\ linksMade \in 0..MaxLinks /\ staffEdits \in 0..MaxStaffEdits
  /\ resetBy \in [1..MaxLinks -> [account : Accounts \cup {NoAccount}, uses : Nat]]
  /\ staffTouched \subseteq Accounts /\ callsRaced \subseteq Accounts

\* Nothing of a customer is left in the row of a deleted account, whatever calls
\* and links are still about, unless staff wrote the row afterwards or another
\* call on the account was under way when it was deleted.
DeletedIsAnonymous ==
  \A a \in Accounts \ (staffTouched \cup callsRaced) :
    row[a].at = "deleted" => row[a] = [Missing EXCEPT !.at = "deleted"]

\* The last reset link mailed to a customer changes the password once, and no
\* other link does: as long as it is not used the row accepts it, whatever else
\* the customer or staff do, and afterwards it accepts none (unless two calls
\* worked on the account at once).
ResetOnce ==
  \A a \in Accounts \ callsRaced : Active(a) =>
    LET mailed == {k \in 1..MaxLinks : resetBy[k].account = a} IN
    /\ \A k \in mailed : resetBy[k].uses <= 1
    /\ \A k \in mailed : (\A j \in mailed : j <= k) =>
         row[a].resetLink = IF resetBy[k].uses = 0 THEN k ELSE 0

\* What a customer's row and links promise.
AccountsKept == DeletedIsAnonymous /\ ResetOnce
=============================================================================
