------------------------- MODULE CustomerAccountsProofs -------------------------
(***************************************************************************)
(* Proofs about the accounts: their types, that nothing of a customer is   *)
(* left in the row of a deleted account, and that the last reset link      *)
(* works once, for any number of accounts, calls and links.                *)
(***************************************************************************)
EXTENDS CustomerAccounts, TLAPS

AccountRow ==
  [at : {"missing", "active", "deleted", "gone"}, address : Addresses \cup {NoAddress},
   personal : BOOLEAN, verified : BOOLEAN, verifyLink : BOOLEAN, resetLink : 0..MaxLinks]
Creating == {"signup", "staffCreate"}
Working  == {"profile", "delete", "verify", "request", "reset", "staffUpdate"}
AccountTask ==
  [op : {"none"} \cup Creating \cup Working, account : Accounts \cup {NoAccount},
   address : Addresses \cup {NoAddress}, link : 0..MaxLinks]
ResetUse == [account : Accounts \cup {NoAccount}, uses : Nat]

Emptied == [Missing EXCEPT !.at = "deleted"]
Removed == [Missing EXCEPT !.at = "gone"]

(***************************************************************************)
(* What the steps come to, for the rows, the calls and the links.          *)
(***************************************************************************)

\* Log-ins and log-outs leave all three.
Quiet == UNCHANGED <<row, task, linksMade, resetBy, staffTouched, callsRaced, staffEdits>>

\* A call begins on an account that exists; staff alone may take a deleted one.
BeginsCall(t, op, a, address, link) ==
  /\ Begin(t, op, a, address, link)
  /\ \/ op \in Creating /\ a = NoAccount /\ link = 0
     \/ /\ op \in Working /\ a \in Accounts /\ Exists(a)
        /\ op # "staffUpdate" => Active(a)
        /\ IF op = "reset" THEN link = row[a].resetLink /\ link > 0 ELSE link = 0

\* A call ends without writing.
EndsCall(t) ==
  /\ task' = [task EXCEPT ![t] = NoTask]
  /\ UNCHANGED <<row, linksMade, staffEdits, resetBy, staffTouched, callsRaced>>

\* A row is made.
MakesRow(t, a, r) ==
  /\ row[a] = Missing /\ r.at = "active" /\ r.resetLink = 0
  /\ row' = [row EXCEPT ![a] = r] /\ task' = [task EXCEPT ![t] = NoTask]
  /\ UNCHANGED <<linksMade, staffEdits, resetBy, staffTouched, callsRaced>>

\* A call writes r in the row it has read.
WritesRow(t, r) ==
  /\ task[t].op \in Working /\ Exists(task[t].account) /\ Write(t, r)

\* It leaves the status and the link, and only staff write a deleted row.
ProfileEdits(t, r) ==
  /\ WritesRow(t, r)
  /\ r.at = row[task[t].account].at /\ r.resetLink = row[task[t].account].resetLink
  /\ UNCHANGED <<linksMade, resetBy>>
  /\ IF task[t].op = "staffUpdate" /\ ~Active(task[t].account)
     THEN staffTouched' = staffTouched \cup {task[t].account}
     ELSE UNCHANGED staffTouched

Deletes(t, r) ==
  WritesRow(t, r) /\ r = Emptied /\ UNCHANGED <<linksMade, resetBy, staffTouched>>

Requests(t, r) ==
  LET link == linksMade + 1 IN
  /\ WritesRow(t, r) /\ task[t].op = "request"
  /\ r.at = row[task[t].account].at /\ r.resetLink = link
  /\ linksMade < MaxLinks /\ linksMade' = link
  /\ resetBy' = [resetBy EXCEPT ![link].account = task[t].account]
  /\ UNCHANGED staffTouched

Resets(t, r) ==
  /\ WritesRow(t, r) /\ task[t].op = "reset"
  /\ r.at = row[task[t].account].at /\ r.resetLink = 0
  /\ resetBy' = [resetBy EXCEPT ![task[t].link].uses = @ + 1]
  /\ UNCHANGED <<linksMade, staffTouched>>

Shape ==
  \/ Quiet
  \/ \E t \in Tasks, op \in Creating \cup Working, a \in Accounts \cup {NoAccount},
        address \in Addresses \cup {NoAddress}, link \in 0..MaxLinks :
       BeginsCall(t, op, a, address, link)
  \/ \E t \in Tasks : EndsCall(t)
  \/ \E t \in Tasks, a \in Accounts, r \in AccountRow : MakesRow(t, a, r)
  \/ \E a \in Accounts : StaffDelete(a)
  \/ \E t \in Tasks, r \in AccountRow :
       ProfileEdits(t, r) \/ Deletes(t, r) \/ Requests(t, r) \/ Resets(t, r)

\* What is known of every call, row and link, raced or not.
Known ==
  /\ \A t \in Tasks : task[t].op \in Working => task[t].account \in Accounts
  /\ \A t \in Tasks : task[t].account \in Accounts =>
       row[task[t].account].at # "missing"
  /\ \A a \in Accounts : row[a].at = "missing" => row[a] = Missing

AccountsInv == AccountsTypeOK /\ Known

\* The same type, with the sets named; first the calls.
LEMMA OpsNamed ==
  {"none"} \cup Creating \cup Working =
    {"none", "signup", "staffCreate", "profile", "delete", "verify", "request",
     "reset", "staffUpdate"}
BY DEF Creating, Working

\* And of the state.
LEMMA TypesNamed ==
  AccountsTypeOK <=>
    /\ row \in [Accounts -> AccountRow] /\ signedIn \subseteq Accounts
    /\ task \in [Tasks -> AccountTask]
    /\ linksMade \in 0..MaxLinks /\ staffEdits \in 0..MaxStaffEdits
    /\ resetBy \in [1..MaxLinks -> ResetUse]
    /\ staffTouched \subseteq Accounts /\ callsRaced \subseteq Accounts
BY OpsNamed DEF AccountsTypeOK, AccountRow, AccountTask, ResetUse

\* The rows that steps write are rows.
LEMMA SomeRows ==
  /\ Missing \in AccountRow /\ Emptied \in AccountRow /\ Removed \in AccountRow
  /\ NoTask \in AccountTask
<1>1. 0 \in 0..MaxLinks
  BY AccountConstants
<1>2. Missing \in AccountRow
  BY <1>1 DEF Missing, AccountRow
<1>3. \A at \in {"deleted", "gone"} : [Missing EXCEPT !.at = at] \in AccountRow
  BY <1>1 DEF Missing, AccountRow
<1>4. NoTask \in AccountTask
  BY <1>1 DEF NoTask, AccountTask
<1>. QED
  BY <1>2, <1>3, <1>4 DEF Emptied, Removed

\* A row that is edited is a row, and keeps what is not edited.
LEMMA RowEdited ==
  ASSUME NEW r \in AccountRow
  PROVE  /\ [r EXCEPT !.personal = TRUE] \in AccountRow
         /\ [r EXCEPT !.verified = TRUE, !.verifyLink = FALSE] \in AccountRow
         /\ \A link \in 0..MaxLinks :
              /\ [r EXCEPT !.resetLink = link] \in AccountRow
              /\ [r EXCEPT !.resetLink = link].at = r.at
              /\ [r EXCEPT !.resetLink = link].resetLink = link
         /\ \A address \in Addresses \cup {NoAddress} :
              /\ [r EXCEPT !.address = address, !.personal = TRUE] \in AccountRow
              /\ [r EXCEPT !.address = address, !.personal = TRUE].at = r.at
              /\ [r EXCEPT !.address = address, !.personal = TRUE].resetLink = r.resetLink
         /\ [r EXCEPT !.personal = TRUE].at = r.at
         /\ [r EXCEPT !.personal = TRUE].resetLink = r.resetLink
         /\ [r EXCEPT !.verified = TRUE, !.verifyLink = FALSE].at = r.at
         /\ [r EXCEPT !.verified = TRUE, !.verifyLink = FALSE].resetLink = r.resetLink
BY DEF AccountRow

\* Every step has one of the shapes.
LEMMA Shapes ==
  ASSUME AccountsInv, [AccountsNext]_accountVars
  PROVE  Shape
<1>1. /\ row \in [Accounts -> AccountRow] /\ task \in [Tasks -> AccountTask]
      /\ linksMade \in 0..MaxLinks /\ MaxLinks \in Nat
  BY TypesNamed, AccountConstants DEF AccountsInv
<1>2. ASSUME NEW t \in Tasks, NEW op \in Creating, NEW address \in Addresses,
             BeginSignup(t, op, address)
      PROVE  Shape
  <2>1. BeginsCall(t, op, NoAccount, address, 0)
    BY <1>2 DEF BeginSignup, BeginsCall
  <2>2. 0 \in 0..MaxLinks
    BY <1>1
  <2>. QED  BY <2>1, <2>2 DEF Shape
<1>3. ASSUME NEW t \in Tasks, NEW a \in Accounts, NEW op \in {"profile", "delete"},
             BeginOwn(t, op, a)
      PROVE  Shape
  <2>1. BeginsCall(t, op, a, NoAddress, 0)
    BY <1>3 DEF BeginOwn, BeginsCall, Working, Active, Exists
  <2>2. 0 \in 0..MaxLinks /\ op \in Creating \cup Working
    BY <1>1 DEF Working
  <2>. QED  BY <2>1, <2>2 DEF Shape
<1>4. ASSUME NEW t \in Tasks, NEW a \in Accounts,
             BeginVerify(t, a) \/ BeginRequest(t, a)
      PROVE  Shape
  <2>1. \E op \in {"verify", "request"} : BeginsCall(t, op, a, NoAddress, 0)
    BY <1>4 DEF BeginVerify, BeginRequest, BeginsCall, Working, Active, Exists
  <2>2. 0 \in 0..MaxLinks /\ {"verify", "request"} \subseteq Creating \cup Working
    BY <1>1 DEF Working
  <2>. QED  BY <2>1, <2>2 DEF Shape
<1>5. ASSUME NEW t \in Tasks, NEW a \in Accounts, BeginReset(t, a) PROVE Shape
  <2>1. BeginsCall(t, "reset", a, NoAddress, row[a].resetLink)
    BY <1>5 DEF BeginReset, BeginsCall, Working, Active, Exists
  <2>2. row[a].resetLink \in 0..MaxLinks /\ "reset" \in Creating \cup Working
    BY <1>1 DEF Working, AccountRow
  <2>. QED  BY <2>1, <2>2 DEF Shape
<1>6. ASSUME NEW t \in Tasks, NEW a \in Accounts, NEW address \in Addresses,
             BeginStaffUpdate(t, a, address)
      PROVE  Shape
  <2>1. BeginsCall(t, "staffUpdate", a, address, 0)
    BY <1>6 DEF BeginStaffUpdate, BeginsCall, Working
  <2>2. 0 \in 0..MaxLinks /\ "staffUpdate" \in Creating \cup Working
    BY <1>1 DEF Working
  <2>. QED  BY <2>1, <2>2 DEF Shape
<1>7. ASSUME NEW t \in Tasks, FinishSignup(t) PROVE Shape
  <2>. DEFINE a == CHOOSE b \in Accounts : row[b] = Missing
              r == [Missing EXCEPT !.at = "active", !.address = task[t].address,
                      !.personal = TRUE, !.verifyLink = (task[t].op = "signup")]
  <2>1. a \in Accounts /\ row[a] = Missing
    BY <1>7 DEF FinishSignup
  <2>2. /\ row' = [row EXCEPT ![a] = r] /\ task' = [task EXCEPT ![t] = NoTask]
        /\ UNCHANGED <<linksMade, staffEdits, resetBy, staffTouched, callsRaced>>
    BY <1>7 DEF FinishSignup
  <2>3. task[t].address \in Addresses \cup {NoAddress}
    BY <1>1 DEF AccountTask
  <2>4. r.at = "active" /\ r.resetLink = 0
    BY DEF Missing
  <2>5. r \in AccountRow
    <3>. DEFINE first == (task[t].op = "signup")
    <3>1. first \in BOOLEAN /\ 0 \in 0..MaxLinks
      BY <1>1
    <3>. HIDE DEF first
    <3>2. [Missing EXCEPT !.at = "active", !.address = task[t].address,
             !.personal = TRUE, !.verifyLink = first] \in AccountRow
      BY <2>3, <3>1 DEF AccountRow, Missing
    <3>. QED  BY <3>2 DEF first
  <2>. HIDE DEF a, r
  <2>. QED  BY <2>1, <2>2, <2>4, <2>5 DEF Shape, MakesRow
<1>8. ASSUME NEW t \in Tasks, task[t].op \in Working
      PROVE  task[t].account \in Accounts /\ row[task[t].account] \in AccountRow
  BY <1>1, <1>8 DEF AccountsInv, Known
<1>9. ASSUME NEW t \in Tasks, FinishProfile(t) PROVE Shape
  <2>. DEFINE r == [row[task[t].account] EXCEPT !.personal = TRUE]
  <2>1. task[t].op = "profile" /\ "profile" \in Working
    BY <1>9 DEF FinishProfile, Working
  <2>2. /\ r \in AccountRow /\ r.at = row[task[t].account].at
        /\ r.resetLink = row[task[t].account].resetLink
    BY <1>8, <2>1, RowEdited
  <2>3. /\ Exists(task[t].account) /\ Write(t, r)
        /\ UNCHANGED <<linksMade, resetBy, staffTouched>>
    BY <1>9 DEF FinishProfile
  <2>. HIDE DEF r
  <2>. QED  BY <2>1, <2>2, <2>3 DEF Shape, ProfileEdits, WritesRow
<1>10. ASSUME NEW t \in Tasks, FinishVerify(t) PROVE Shape
  <2>. DEFINE r == [row[task[t].account] EXCEPT !.verified = TRUE, !.verifyLink = FALSE]
  <2>1. task[t].op = "verify" /\ "verify" \in Working
    BY <1>10 DEF FinishVerify, Working
  <2>2. /\ r \in AccountRow /\ r.at = row[task[t].account].at
        /\ r.resetLink = row[task[t].account].resetLink
    BY <1>8, <2>1, RowEdited
  <2>3. /\ Exists(task[t].account) /\ Write(t, r)
        /\ UNCHANGED <<linksMade, resetBy, staffTouched>>
    BY <1>10 DEF FinishVerify
  <2>. HIDE DEF r
  <2>. QED  BY <2>1, <2>2, <2>3 DEF Shape, ProfileEdits, WritesRow
<1>11. ASSUME NEW t \in Tasks, FinishDelete(t) PROVE Shape
  <2>1. /\ task[t].op \in Working /\ Exists(task[t].account) /\ Write(t, Emptied)
        /\ UNCHANGED <<linksMade, resetBy, staffTouched>>
    BY <1>11 DEF FinishDelete, Working, Anonymous, Emptied
  <2>. QED  BY <2>1, SomeRows DEF Shape, Deletes, WritesRow
<1>12. ASSUME NEW t \in Tasks, FinishRequest(t) PROVE Shape
  <2>. DEFINE a == task[t].account
              r == [row[a] EXCEPT !.resetLink = linksMade + 1]
  <2>1. task[t].op = "request" /\ "request" \in Working
    BY <1>12 DEF FinishRequest, Working
  <2>2. linksMade < MaxLinks /\ linksMade + 1 \in 0..MaxLinks
    BY <1>1, <1>12 DEF FinishRequest
  <2>3. r \in AccountRow /\ r.at = row[a].at /\ r.resetLink = linksMade + 1
    BY <1>8, <2>1, <2>2, RowEdited
  <2>4. /\ Exists(a) /\ Write(t, r) /\ linksMade' = linksMade + 1
        /\ resetBy' = [resetBy EXCEPT ![linksMade + 1].account = a]
        /\ UNCHANGED staffTouched
    BY <1>12 DEF FinishRequest
  <2>. HIDE DEF r
  <2>. QED  BY <2>1, <2>2, <2>3, <2>4 DEF Shape, Requests, WritesRow
<1>13. ASSUME NEW t \in Tasks, FinishReset(t) PROVE Shape
  <2>. DEFINE r == [row[task[t].account] EXCEPT !.resetLink = 0]
  <2>1. task[t].op = "reset" /\ "reset" \in Working
    BY <1>13 DEF FinishReset, Working
  <2>2. 0 \in 0..MaxLinks
    BY <1>1
  <2>3. r \in AccountRow /\ r.at = row[task[t].account].at /\ r.resetLink = 0
    BY <1>8, <2>1, <2>2, RowEdited
  <2>4. /\ Exists(task[t].account) /\ Write(t, r)
        /\ resetBy' = [resetBy EXCEPT ![task[t].link].uses = @ + 1]
        /\ UNCHANGED <<linksMade, staffTouched>>
    BY <1>13 DEF FinishReset, AfterReset
  <2>. HIDE DEF r
  <2>. QED  BY <2>1, <2>3, <2>4 DEF Shape, Resets, WritesRow
<1>14. ASSUME NEW t \in Tasks, FinishStaffUpdate(t) PROVE Shape
  <2>. DEFINE r == [row[task[t].account] EXCEPT !.address = task[t].address, !.personal = TRUE]
  <2>1. task[t].op = "staffUpdate" /\ "staffUpdate" \in Working
    BY <1>14 DEF FinishStaffUpdate, Working
  <2>2. task[t].address \in Addresses \cup {NoAddress}
    BY <1>1 DEF AccountTask
  <2>3. /\ r \in AccountRow /\ r.at = row[task[t].account].at
        /\ r.resetLink = row[task[t].account].resetLink
    BY <1>8, <2>1, <2>2, RowEdited
  <2>4. /\ Exists(task[t].account) /\ Write(t, r) /\ UNCHANGED <<linksMade, resetBy>>
        /\ staffTouched' = IF Active(task[t].account) THEN staffTouched
                           ELSE staffTouched \cup {task[t].account}
    BY <1>14 DEF FinishStaffUpdate
  <2>. HIDE DEF r
  <2>. QED  BY <2>1, <2>3, <2>4 DEF Shape, ProfileEdits, WritesRow
<1>15. ASSUME NEW t \in Tasks, TaskFails(t) PROVE Shape
  BY <1>15 DEF TaskFails, Shape, EndsCall
<1>16. ASSUME NEW a \in Accounts, Login(a) \/ SignOut(a) PROVE Shape
  BY <1>16 DEF Login, SignOut, Shape, Quiet
<1>17. CASE UNCHANGED accountVars
  BY <1>17 DEF accountVars, Shape, Quiet
<1>18. CASE \E a \in Accounts : StaffDelete(a)
  BY <1>18 DEF Shape
<1>. QED
  BY <1>2, <1>3, <1>4, <1>5, <1>6, <1>7, <1>9, <1>10, <1>11, <1>12, <1>13, <1>14, <1>15,
     <1>16, <1>17, <1>18 DEF AccountsNext, Creating
\* The two counters of the steps that the shapes do not show.
LEMMA Counted ==
  ASSUME AccountsInv, [AccountsNext]_accountVars
  PROVE  signedIn' \subseteq Accounts /\ staffEdits' \in 0..MaxStaffEdits
<1>1. signedIn \subseteq Accounts /\ staffEdits \in 0..MaxStaffEdits /\ MaxStaffEdits \in Nat
  BY TypesNamed, AccountConstants DEF AccountsInv
<1>2. ASSUME NEW t \in Tasks, FinishSignup(t)
      PROVE  signedIn' \subseteq Accounts /\ staffEdits' = staffEdits
  <2>. DEFINE a == CHOOSE b \in Accounts : row[b] = Missing
  <2>1. a \in Accounts
    BY <1>2 DEF FinishSignup
  <2>2. signedIn' = signedIn \/ signedIn' = signedIn \cup {a}
    BY <1>2 DEF FinishSignup
  <2>3. staffEdits' = staffEdits
    BY <1>2 DEF FinishSignup
  <2>. HIDE DEF a
  <2>. QED  BY <1>1, <2>1, <2>2, <2>3
<1>3. ASSUME NEW a \in Accounts, Login(a) \/ SignOut(a)
      PROVE  signedIn' \subseteq Accounts /\ staffEdits' = staffEdits
  BY <1>1, <1>3 DEF Login, SignOut
<1>4. ASSUME NEW t \in Tasks,
             FinishStaffUpdate(t) \/ \E a \in Accounts : StaffDelete(a)
      PROVE  signedIn' = signedIn /\ staffEdits < MaxStaffEdits /\ staffEdits' = staffEdits + 1
  BY <1>4 DEF FinishStaffUpdate, StaffDelete
<1>5. ASSUME NEW a \in Accounts, StaffDelete(a)
      PROVE  signedIn' = signedIn /\ staffEdits < MaxStaffEdits /\ staffEdits' = staffEdits + 1
  BY <1>5 DEF StaffDelete
<1>6. ASSUME NEW t \in Tasks,
             \/ FinishProfile(t) \/ FinishDelete(t) \/ FinishVerify(t) \/ FinishRequest(t)
             \/ FinishReset(t) \/ TaskFails(t)
      PROVE  UNCHANGED <<signedIn, staffEdits>>
  BY <1>6 DEF FinishProfile, FinishDelete, FinishVerify, FinishRequest, FinishReset, TaskFails
<1>7. ASSUME NEW t \in Tasks, NEW op, NEW a, NEW address, NEW link,
             Begin(t, op, a, address, link)
      PROVE  UNCHANGED <<signedIn, staffEdits>>
  BY <1>7 DEF Begin
<1>8. CASE UNCHANGED accountVars
  BY <1>1, <1>8 DEF accountVars
<1>. QED
  BY <1>1, <1>2, <1>3, <1>4, <1>5, <1>6, <1>7, <1>8
  DEF AccountsNext, BeginSignup, BeginOwn, BeginVerify, BeginRequest, BeginReset,
      BeginStaffUpdate

\* A write, read at each row, call and account.
LEMMA Writes ==
  ASSUME AccountsInv, NEW t \in Tasks, NEW r \in AccountRow, WritesRow(t, r)
  PROVE  /\ task[t].account \in Accounts /\ Exists(task[t].account)
         /\ row' = [row EXCEPT ![task[t].account] = r]
         /\ row'[task[t].account] = r
         /\ \A a \in Accounts \ {task[t].account} : row'[a] = row[a]
         /\ row' \in [Accounts -> AccountRow]
         /\ task' \in [Tasks -> AccountTask]
         /\ task'[t] = NoTask /\ \A u \in Tasks \ {t} : task'[u] = task[u]
         /\ callsRaced \subseteq callsRaced' /\ callsRaced' \subseteq Accounts
         /\ task[t].account \notin callsRaced' =>
              \A u \in Tasks \ {t} : task[u].account # task[t].account
<1>1. /\ row \in [Accounts -> AccountRow] /\ task \in [Tasks -> AccountTask]
      /\ callsRaced \subseteq Accounts /\ task[t].account \in Accounts
  BY TypesNamed DEF AccountsInv, Known, WritesRow
<1>2. /\ row' = [row EXCEPT ![task[t].account] = r] /\ task' = [task EXCEPT ![t] = NoTask]
      /\ Exists(task[t].account)
      /\ callsRaced' = callsRaced \cup
           {a \in {task[t].account} \cap Accounts : \E u \in Tasks \ {t} : task[u].account = a}
  BY DEF WritesRow, Write, Races
<1>3. /\ callsRaced \subseteq callsRaced' /\ callsRaced' \subseteq Accounts
      /\ task[t].account \notin callsRaced' =>
           \A u \in Tasks \ {t} : task[u].account # task[t].account
  BY <1>1, <1>2
<1>4. row'[task[t].account] = r /\ \A a \in Accounts \ {task[t].account} : row'[a] = row[a]
  BY <1>1, <1>2
<1>5. task'[t] = NoTask /\ \A u \in Tasks \ {t} : task'[u] = task[u]
  BY <1>1, <1>2
<1>6. row' \in [Accounts -> AccountRow]
  BY <1>1, <1>2
<1>7. task' \in [Tasks -> AccountTask]
  BY <1>1, <1>2, SomeRows
<1>. QED
  BY <1>1, <1>2, <1>3, <1>4, <1>5, <1>6, <1>7

-----------------------------------------------------------------------------
\* The types and what is known hold at first, and every step keeps them.
LEMMA AccountsStart == AccountsInit => AccountsInv
<1>. SUFFICES ASSUME AccountsInit PROVE AccountsInv
  OBVIOUS
<1>1. /\ row = [a \in Accounts |-> Missing] /\ task = [t \in Tasks |-> NoTask]
      /\ signedIn = {} /\ linksMade = 0 /\ staffEdits = 0
      /\ resetBy = [k \in 1..MaxLinks |-> [account |-> NoAccount, uses |-> 0]]
      /\ staffTouched = {} /\ callsRaced = {}
  BY DEF AccountsInit
<1>2. row \in [Accounts -> AccountRow] /\ task \in [Tasks -> AccountTask]
  BY <1>1, SomeRows
<1>3. [account |-> NoAccount, uses |-> 0] \in ResetUse
  BY DEF ResetUse
<1>4. resetBy \in [1..MaxLinks -> ResetUse]
  BY <1>1, <1>3
<1>5. linksMade \in 0..MaxLinks /\ staffEdits \in 0..MaxStaffEdits
  BY <1>1, AccountConstants
<1>6. AccountsTypeOK
  BY <1>1, <1>2, <1>4, <1>5, TypesNamed
<1>7. \A t \in Tasks : task[t].op = "none" /\ task[t].account = NoAccount
  BY <1>1 DEF NoTask
<1>8. Known
  BY <1>1, <1>7, AccountConstants DEF Known, Working
<1>. QED
  BY <1>6, <1>8 DEF AccountsInv

LEMMA AccountsStep ==
  ASSUME AccountsInv, [AccountsNext]_accountVars
  PROVE  AccountsInv'
<1>1. /\ row \in [Accounts -> AccountRow] /\ task \in [Tasks -> AccountTask]
      /\ linksMade \in 0..MaxLinks /\ MaxLinks \in Nat
      /\ resetBy \in [1..MaxLinks -> ResetUse]
      /\ staffTouched \subseteq Accounts /\ callsRaced \subseteq Accounts
  BY TypesNamed, AccountConstants DEF AccountsInv
<1>2. /\ \A t \in Tasks : task[t].op \in Working => task[t].account \in Accounts
      /\ \A t \in Tasks : task[t].account \in Accounts =>
           row[task[t].account].at # "missing"
      /\ \A a \in Accounts : row[a].at = "missing" => row[a] = Missing
  BY DEF AccountsInv, Known
<1>3. signedIn' \subseteq Accounts /\ staffEdits' \in 0..MaxStaffEdits
  BY Counted
<1>. DEFINE Types == /\ row' \in [Accounts -> AccountRow]
                     /\ task' \in [Tasks -> AccountTask] /\ linksMade' \in 0..MaxLinks
                     /\ resetBy' \in [1..MaxLinks -> ResetUse]
                     /\ staffTouched' \subseteq Accounts /\ callsRaced' \subseteq Accounts
<1>4. ASSUME Quiet PROVE Types /\ Known'
  BY <1>1, <1>2, <1>4 DEF Quiet, Known
<1>5. ASSUME NEW t \in Tasks, NEW op \in Creating \cup Working,
             NEW a \in Accounts \cup {NoAccount}, NEW address \in Addresses \cup {NoAddress},
             NEW link \in 0..MaxLinks, BeginsCall(t, op, a, address, link)
      PROVE  Types /\ Known'
  <2>. DEFINE call == [op |-> op, account |-> a, address |-> address, link |-> link]
  <2>1. /\ task' = [task EXCEPT ![t] = call]
        /\ UNCHANGED <<row, linksMade, resetBy, staffTouched, callsRaced>>
    BY <1>5 DEF BeginsCall, Begin
  <2>2. call \in AccountTask
    BY DEF AccountTask
  <2>3. call.op = op /\ call.account = a
    OBVIOUS
  <2>4. \/ op \notin Working /\ a \notin Accounts
        \/ a \in Accounts /\ row[a].at # "missing"
    BY <1>5, AccountConstants DEF BeginsCall, Exists, Creating, Working
  <2>. HIDE DEF call
  <2>5. task'[t] = call /\ \A u \in Tasks \ {t} : task'[u] = task[u]
    BY <1>1, <2>1
  <2>6. Types
    BY <1>1, <2>1, <2>2
  <2>7. Known'
    BY <1>2, <2>1, <2>3, <2>4, <2>5 DEF Known
  <2>. QED  BY <2>6, <2>7
<1>6. ASSUME NEW t \in Tasks, EndsCall(t) PROVE Types /\ Known'
  <2>1. /\ task' = [task EXCEPT ![t] = NoTask]
        /\ UNCHANGED <<row, linksMade, resetBy, staffTouched, callsRaced>>
    BY <1>6 DEF EndsCall
  <2>2. task'[t] = NoTask /\ \A u \in Tasks \ {t} : task'[u] = task[u]
    BY <1>1, <2>1
  <2>3. NoTask.op \notin Working /\ NoTask.account \notin Accounts
    BY AccountConstants DEF NoTask, Working
  <2>4. Types
    BY <1>1, <2>1, SomeRows
  <2>5. Known'
    BY <1>2, <2>1, <2>2, <2>3 DEF Known
  <2>. QED  BY <2>4, <2>5
<1>7. ASSUME NEW t \in Tasks, NEW a \in Accounts, NEW r \in AccountRow, MakesRow(t, a, r)
      PROVE  Types /\ Known'
  <2>1. /\ row' = [row EXCEPT ![a] = r] /\ task' = [task EXCEPT ![t] = NoTask]
        /\ r.at = "active" /\ UNCHANGED <<linksMade, resetBy, staffTouched, callsRaced>>
    BY <1>7 DEF MakesRow
  <2>2. /\ task'[t] = NoTask /\ \A u \in Tasks \ {t} : task'[u] = task[u]
        /\ row'[a] = r /\ \A b \in Accounts \ {a} : row'[b] = row[b]
    BY <1>1, <2>1
  <2>3. NoTask.op \notin Working /\ NoTask.account \notin Accounts
    BY AccountConstants DEF NoTask, Working
  <2>4. Types
    BY <1>1, <2>1, SomeRows
  <2>5. Known'
    BY <1>2, <2>1, <2>2, <2>3 DEF Known
  <2>. QED  BY <2>4, <2>5
<1>8. ASSUME NEW a \in Accounts, StaffDelete(a) PROVE Types /\ Known'
  <2>1. /\ row' = [row EXCEPT ![a] = Removed]
        /\ UNCHANGED <<task, linksMade, resetBy, staffTouched, callsRaced>>
    BY <1>8 DEF StaffDelete, Removed
  <2>2. row'[a] = Removed /\ Removed.at = "gone" /\ \A b \in Accounts \ {a} : row'[b] = row[b]
    BY <1>1, <2>1 DEF Removed, Missing
  <2>3. Types
    BY <1>1, <2>1, SomeRows
  <2>4. Known'
    BY <1>2, <2>1, <2>2 DEF Known
  <2>. QED  BY <2>3, <2>4
<1>9. ASSUME NEW t \in Tasks, NEW r \in AccountRow,
             ProfileEdits(t, r) \/ Deletes(t, r) \/ Requests(t, r) \/ Resets(t, r)
      PROVE  Types /\ Known'
  <2>. DEFINE a == task[t].account
  <2>1. WritesRow(t, r)
    BY <1>9 DEF ProfileEdits, Deletes, Requests, Resets
  <2>2. /\ a \in Accounts /\ Exists(a) /\ row'[a] = r
        /\ \A b \in Accounts \ {a} : row'[b] = row[b]
        /\ row' \in [Accounts -> AccountRow] /\ task' \in [Tasks -> AccountTask]
        /\ task'[t] = NoTask /\ \A u \in Tasks \ {t} : task'[u] = task[u]
        /\ callsRaced' \subseteq Accounts
    BY <2>1, Writes
  <2>3. r.at # "missing"
    BY <1>9, <2>2 DEF ProfileEdits, Deletes, Requests, Resets, Exists, Emptied, Missing
  <2>4. staffTouched' \subseteq Accounts
    BY <1>1, <1>9, <2>2 DEF ProfileEdits, Deletes, Requests, Resets
  <2>5. linksMade' \in 0..MaxLinks
    BY <1>1, <1>9 DEF ProfileEdits, Deletes, Requests, Resets
  <2>6. resetBy' \in [1..MaxLinks -> ResetUse]
    <3>1. \/ resetBy' = resetBy
          \/ \E k : resetBy' = [resetBy EXCEPT ![k].account = a]
          \/ \E k : resetBy' = [resetBy EXCEPT ![k].uses = @ + 1]
      BY <1>9 DEF ProfileEdits, Deletes, Requests, Resets
    <3>2. ASSUME NEW k, resetBy' = [resetBy EXCEPT ![k].account = a]
          PROVE  resetBy' \in [1..MaxLinks -> ResetUse]
      BY <1>1, <2>2, <3>2 DEF ResetUse
    <3>3. ASSUME NEW k, resetBy' = [resetBy EXCEPT ![k].uses = @ + 1]
          PROVE  resetBy' \in [1..MaxLinks -> ResetUse]
      <4>1. k \in 1..MaxLinks =>
              [resetBy[k] EXCEPT !.uses = @ + 1] \in ResetUse
        BY <1>1 DEF ResetUse
      <4>2. resetBy' = [resetBy EXCEPT ![k] = [resetBy[k] EXCEPT !.uses = @ + 1]]
        BY <1>1, <3>3
      <4>. HIDE DEF Types
      <4>. QED  BY <1>1, <4>1, <4>2
    <3>. QED  BY <1>1, <3>1, <3>2, <3>3
  <2>7. NoTask.op \notin Working /\ NoTask.account \notin Accounts
    BY AccountConstants DEF NoTask, Working
  <2>. HIDE DEF a
  <2>8. Known'
    BY <1>2, <2>2, <2>3, <2>7 DEF Known
  <2>. QED  BY <2>2, <2>4, <2>5, <2>6, <2>8
<1>10. Types /\ Known'
  <2>. HIDE DEF Types
  <2>. QED  BY <1>4, <1>5, <1>6, <1>7, <1>8, <1>9, Shapes DEF Shape
<1>11. AccountsTypeOK'
  BY <1>3, <1>10, OpsNamed DEF AccountsTypeOK, AccountRow, AccountTask, ResetUse
<1>. QED
  BY <1>10, <1>11 DEF AccountsInv

\* The rows, the calls and the history of the links keep their types.
THEOREM AccountsTyped == AccountsSpec => []AccountsTypeOK
<1>1. AccountsInv /\ [AccountsNext]_accountVars => AccountsInv'
  BY AccountsStep
<1>2. AccountsInv => AccountsTypeOK
  BY DEF AccountsInv
<1>. QED
  BY AccountsStart, <1>1, <1>2, PTL DEF AccountsSpec

-----------------------------------------------------------------------------
(***************************************************************************)
(* Deletion.  Where no two calls have met and staff have not written, a    *)
(* deleted row is empty, and only staff still have a call on it.           *)
(***************************************************************************)
DeletedInv == \A a \in Accounts \ (staffTouched \cup callsRaced) :
  row[a].at = "deleted" =>
    /\ row[a] = Emptied
    /\ \A t \in Tasks : task[t].account = a => task[t].op = "staffUpdate"

\* A step that writes no deleted row, and adds only calls of staff, keeps it.
LEMMA DeletedKept ==
  ASSUME DeletedInv, staffTouched \subseteq staffTouched', callsRaced \subseteq callsRaced',
         \A a \in Accounts : row'[a].at = "deleted" => row'[a] = row[a],
         \A t \in Tasks :
           \/ task'[t] = task[t] \/ task'[t].account \notin Accounts
           \/ row[task'[t].account].at = "deleted" => task'[t].op = "staffUpdate"
  PROVE  DeletedInv'
BY DEF DeletedInv

LEMMA DeletedStep ==
  ASSUME AccountsInv, DeletedInv, Shape
  PROVE  DeletedInv'
<1>1. row \in [Accounts -> AccountRow] /\ task \in [Tasks -> AccountTask]
  BY TypesNamed DEF AccountsInv
<1>2. NoTask.account \notin Accounts
  BY AccountConstants DEF NoTask
<1>3. CASE Quiet
  BY <1>3, DeletedKept DEF Quiet
<1>4. ASSUME NEW t \in Tasks, NEW op \in Creating \cup Working,
             NEW a \in Accounts \cup {NoAccount}, NEW address \in Addresses \cup {NoAddress},
             NEW link \in 0..MaxLinks, BeginsCall(t, op, a, address, link)
      PROVE  DeletedInv'
  <2>. DEFINE call == [op |-> op, account |-> a, address |-> address, link |-> link]
  <2>1. /\ task' = [task EXCEPT ![t] = call]
        /\ UNCHANGED <<row, staffTouched, callsRaced>>
    BY <1>4 DEF BeginsCall, Begin
  <2>2. call.op = op /\ call.account = a
    OBVIOUS
  <2>3. a \notin Accounts \/ (row[a].at = "deleted" => op = "staffUpdate")
    BY <1>4, AccountConstants DEF BeginsCall, Active
  <2>. HIDE DEF call
  <2>4. task'[t] = call /\ \A u \in Tasks \ {t} : task'[u] = task[u]
    BY <1>1, <2>1
  <2>. QED  BY <2>1, <2>2, <2>3, <2>4, DeletedKept
<1>5. ASSUME NEW t \in Tasks, EndsCall(t) PROVE DeletedInv'
  <2>1. /\ \A u \in Tasks : task'[u] = task[u] \/ task'[u] = NoTask
        /\ UNCHANGED <<row, staffTouched, callsRaced>>
    BY <1>1, <1>5 DEF EndsCall
  <2>. QED  BY <1>2, <2>1, DeletedKept
<1>6. ASSUME NEW t \in Tasks, NEW a \in Accounts, NEW r \in AccountRow, MakesRow(t, a, r)
      PROVE  DeletedInv'
  <2>1. /\ row'[a].at = "active" /\ \A b \in Accounts \ {a} : row'[b] = row[b]
        /\ UNCHANGED <<staffTouched, callsRaced>>
        /\ \A u \in Tasks : task'[u] = task[u] \/ task'[u] = NoTask
    BY <1>1, <1>6 DEF MakesRow
  <2>2. \A b \in Accounts : row'[b].at = "deleted" => row'[b] = row[b]
    BY <2>1
  <2>. QED  BY <1>2, <2>1, <2>2, DeletedKept
<1>7. ASSUME NEW a \in Accounts, StaffDelete(a) PROVE DeletedInv'
  <2>1. row' = [row EXCEPT ![a] = Removed] /\ UNCHANGED <<task, staffTouched, callsRaced>>
    BY <1>7 DEF StaffDelete, Removed
  <2>2. Removed.at = "gone" /\ row'[a] = Removed /\ \A b \in Accounts \ {a} : row'[b] = row[b]
    BY <1>1, <2>1 DEF Removed, Missing
  <2>3. \A b \in Accounts : row'[b].at = "deleted" => row'[b] = row[b]
    BY <2>2
  <2>. QED  BY <2>1, <2>3, DeletedKept
<1>8. ASSUME NEW t \in Tasks, NEW r \in AccountRow,
             ProfileEdits(t, r) \/ Deletes(t, r) \/ Requests(t, r) \/ Resets(t, r)
      PROVE  DeletedInv'
  <2>. DEFINE a == task[t].account
  <2>1. WritesRow(t, r)
    BY <1>8 DEF ProfileEdits, Deletes, Requests, Resets
  <2>2. /\ a \in Accounts /\ Exists(a) /\ row'[a] = r
        /\ \A b \in Accounts \ {a} : row'[b] = row[b]
        /\ task'[t] = NoTask /\ \A u \in Tasks \ {t} : task'[u] = task[u]
        /\ callsRaced \subseteq callsRaced'
        /\ a \notin callsRaced' => \A u \in Tasks \ {t} : task[u].account # a
    BY <2>1, Writes
  <2>3. staffTouched \subseteq staffTouched'
    BY <1>8 DEF ProfileEdits, Deletes, Requests, Resets
  <2>4. ASSUME a \notin staffTouched' \cup callsRaced', r.at = "deleted"
        PROVE  r = Emptied
    <3>1. CASE Deletes(t, r)
      BY <3>1 DEF Deletes
    <3>2. CASE ~Deletes(t, r)
      <4>1. row[a].at = "deleted" /\ ~Active(a)
        BY <1>8, <2>4, <3>2 DEF ProfileEdits, Requests, Resets, Active
      <4>2. task[t].op = "staffUpdate"
        BY <2>2, <2>3, <2>4, <4>1 DEF DeletedInv
      <4>3. a \in staffTouched'
        BY <1>8, <3>2, <4>1, <4>2 DEF ProfileEdits, Requests, Resets
      <4>. QED  BY <2>4, <4>3
    <3>. QED  BY <3>1, <3>2
  <2>5. \A u \in Tasks : a \notin callsRaced' => task'[u].account # a
    BY <1>2, <2>2
  <2>. HIDE DEF a
  <2>6. ASSUME NEW b \in Accounts \ (staffTouched' \cup callsRaced'), row'[b].at = "deleted"
        PROVE  /\ row'[b] = Emptied
               /\ \A u \in Tasks : task'[u].account = b => task'[u].op = "staffUpdate"
    <3>1. CASE b = a
      BY <2>2, <2>4, <2>5, <2>6, <3>1
    <3>2. CASE b # a
      <4>1. b \in Accounts \ (staffTouched \cup callsRaced) /\ row'[b] = row[b]
        BY <2>2, <2>3, <3>2
      <4>2. /\ row[b] = Emptied
            /\ \A u \in Tasks : task[u].account = b => task[u].op = "staffUpdate"
        BY <2>6, <4>1 DEF DeletedInv
      <4>. QED  BY <1>2, <2>2, <4>1, <4>2
    <3>. QED  BY <3>1, <3>2
  <2>. QED  BY <2>6 DEF DeletedInv
<1>. QED
  BY <1>3, <1>4, <1>5, <1>6, <1>7, <1>8 DEF Shape

\* Nothing of a customer is left in the row of a deleted account, whatever calls
\* and links are still about (deleteCustomerAccount), unless staff wrote the row
\* afterwards or another call was under way on it.
THEOREM DeletedAnonymous == AccountsSpec => []DeletedIsAnonymous
<1>1. AccountsInit => DeletedInv
  BY DEF AccountsInit, Missing, DeletedInv
<1>2. AccountsInv /\ DeletedInv /\ [AccountsNext]_accountVars => DeletedInv'
  BY Shapes, DeletedStep
<1>3. AccountsInv /\ [AccountsNext]_accountVars => AccountsInv'
  BY AccountsStep
<1>4. DeletedInv => DeletedIsAnonymous
  BY DEF DeletedInv, DeletedIsAnonymous, Emptied
<1>. QED
  BY AccountsStart, <1>1, <1>2, <1>3, <1>4, PTL DEF AccountsSpec

-----------------------------------------------------------------------------
(***************************************************************************)
(* Links.  A link belongs to one account from when it is mailed.  Where no *)
(* two calls have met, the link in the row of an active account is the     *)
(* last one mailed and unused, and a reset under way has that one.         *)
(***************************************************************************)
LinksNew == \A k \in 1..MaxLinks :
  k > linksMade => resetBy[k].account = NoAccount /\ resetBy[k].uses = 0
LinksOwned ==
  /\ \A a \in Accounts : row[a].resetLink > 0 =>
       row[a].resetLink \in 1..linksMade /\ resetBy[row[a].resetLink].account = a
  /\ \A t \in Tasks : task[t].op = "reset" =>
       task[t].link \in 1..linksMade /\ resetBy[task[t].link].account = task[t].account
  /\ \A a \in Accounts, k \in 1..MaxLinks : resetBy[k].account = a => row[a].at # "missing"
LinkOf(a) ==
  /\ \A t \in Tasks : task[t].account = a /\ task[t].op = "reset" =>
       task[t].link = row[a].resetLink
  /\ row[a].resetLink > 0 => resetBy[row[a].resetLink].uses = 0
  /\ \A k \in 1..MaxLinks : resetBy[k].account = a =>
       /\ resetBy[k].uses <= 1
       /\ row[a].resetLink > 0 => k <= row[a].resetLink
       /\ row[a].resetLink = 0 =>
            resetBy[k].uses = 1 \/ \E j \in 1..MaxLinks : resetBy[j].account = a /\ j > k
LinksInv ==
  /\ LinksNew /\ LinksOwned
  /\ \A a \in Accounts \ callsRaced : Active(a) => LinkOf(a)

\* A step that mails no link and uses none keeps the rest, if it keeps the links
\* and the status in the rows and ends calls only.
LEMMA LinksKept ==
  ASSUME LinksInv, UNCHANGED <<linksMade, resetBy>>, callsRaced \subseteq callsRaced',
         \A a \in Accounts :
           \/ row'[a].at = row[a].at /\ row'[a].resetLink = row[a].resetLink
           \/ row'[a].at \in {"deleted", "gone"} /\ row'[a].resetLink = 0,
         \A t \in Tasks :
           \/ task'[t] = task[t]
           \/ task'[t].op # "reset"
           \/ /\ task'[t].account \in Accounts /\ row' = row
              /\ task'[t].link = row[task'[t].account].resetLink /\ task'[t].link > 0
  PROVE  LinksInv'
<1>1. LinksNew'
  BY DEF LinksInv, LinksNew
<1>2. LinksOwned'
  BY DEF LinksInv, LinksOwned
<1>3. ASSUME NEW a \in Accounts \ callsRaced', Active(a)' PROVE LinkOf(a)'
  <2>1. /\ a \in Accounts \ callsRaced /\ Active(a)
        /\ row'[a].resetLink = row[a].resetLink
    BY <1>3 DEF Active
  <2>2. LinkOf(a)
    BY <2>1 DEF LinksInv
  <2>. QED  BY <2>1, <2>2 DEF LinkOf
<1>. QED
  BY <1>1, <1>2, <1>3 DEF LinksInv

LEMMA RequestKeeps ==
  ASSUME AccountsInv, LinksInv, NEW t \in Tasks, NEW r \in AccountRow, Requests(t, r)
  PROVE  LinksInv'
<1>. DEFINE a == task[t].account
            link == linksMade + 1
<1>1. /\ linksMade \in 0..MaxLinks /\ MaxLinks \in Nat /\ linksMade < MaxLinks
      /\ resetBy \in [1..MaxLinks -> ResetUse] /\ row \in [Accounts -> AccountRow]
  BY TypesNamed, AccountConstants DEF AccountsInv, Requests
<1>2. link \in 1..MaxLinks /\ linksMade' = link
  BY <1>1 DEF Requests
<1>3. /\ r.at = row[a].at /\ r.resetLink = link
      /\ resetBy' = [resetBy EXCEPT ![link].account = a]
  BY DEF Requests
<1>4. /\ a \in Accounts /\ Exists(a) /\ row'[a] = r
      /\ \A b \in Accounts \ {a} : row'[b] = row[b]
      /\ task'[t] = NoTask /\ \A u \in Tasks \ {t} : task'[u] = task[u]
      /\ callsRaced \subseteq callsRaced'
      /\ a \notin callsRaced' => \A u \in Tasks \ {t} : task[u].account # a
  BY Writes DEF Requests
<1>5. /\ \A k \in 1..MaxLinks : k # link => resetBy'[k] = resetBy[k]
      /\ resetBy'[link].account = a /\ resetBy'[link].uses = resetBy[link].uses
  BY <1>1, <1>2, <1>3 DEF ResetUse
<1>6. resetBy[link].account = NoAccount /\ resetBy[link].uses = 0
  BY <1>1, <1>2 DEF LinksInv, LinksNew
<1>7. NoTask.op # "reset" /\ NoTask.account # a /\ a # NoAccount
  BY <1>4, AccountConstants DEF NoTask
<1>8. \A b \in Accounts : row[b].resetLink \in 0..MaxLinks
  BY <1>1 DEF AccountRow
<1>9. \A k \in 1..MaxLinks : k > link => k # link /\ k > linksMade
  BY <1>1
<1>10. 1..linksMade \subseteq 1..link /\ link \notin 1..linksMade /\ 1..link \subseteq 1..MaxLinks
  BY <1>1, <1>2
<1>11. \A b \in Accounts : b # NoAccount
  BY AccountConstants
<1>12. link > 0
  BY <1>1
<1>. HIDE DEF a, link
<1>13. LinksNew'
  BY <1>1, <1>2, <1>5, <1>9 DEF LinksInv, LinksNew
<1>14. LinksOwned'
  <2>1. ASSUME NEW b \in Accounts, row'[b].resetLink > 0
        PROVE  row'[b].resetLink \in 1..linksMade' /\ resetBy'[row'[b].resetLink].account = b
    <3>1. CASE b = a
      BY <1>2, <1>3, <1>4, <1>5, <1>12, <3>1
    <3>2. CASE b # a
      <4>1. row'[b] = row[b]
        BY <1>4, <3>2
      <4>2. row[b].resetLink \in 1..linksMade /\ resetBy[row[b].resetLink].account = b
        BY <2>1, <4>1 DEF LinksInv, LinksOwned
      <4>. QED  BY <1>2, <1>5, <1>10, <4>1, <4>2
    <3>. QED  BY <3>1, <3>2
  <2>2. ASSUME NEW u \in Tasks, task'[u].op = "reset"
        PROVE  task'[u].link \in 1..linksMade' /\ resetBy'[task[u].link].account = task[u].account
               /\ task'[u] = task[u]
    <3>1. task'[u] = task[u] /\ task[u].op = "reset"
      BY <1>4, <1>7, <2>2
    <3>2. task[u].link \in 1..linksMade /\ resetBy[task[u].link].account = task[u].account
      BY <3>1 DEF LinksInv, LinksOwned
    <3>. QED  BY <1>2, <1>5, <1>10, <3>1, <3>2
  <2>3. ASSUME NEW b \in Accounts, NEW k \in 1..MaxLinks, resetBy'[k].account = b
        PROVE  row'[b].at # "missing"
    BY <1>3, <1>4, <1>5, <2>3 DEF LinksInv, LinksOwned, Exists
  <2>. QED  BY <2>1, <2>2, <2>3 DEF LinksOwned
<1>15. ASSUME NEW b \in Accounts \ callsRaced', Active(b)' PROVE LinkOf(b)'
  <2>1. CASE b # a
    <3>1. b \in Accounts \ callsRaced /\ Active(b) /\ row'[b] = row[b]
      BY <1>4, <1>15, <2>1 DEF Active
    <3>2. LinkOf(b)
      BY <3>1 DEF LinksInv
    <3>3. \A k \in 1..MaxLinks : (resetBy'[k].account = b) <=> (resetBy[k].account = b)
      BY <1>5, <1>6, <1>11, <2>1
    <3>4. \A k \in 1..MaxLinks : resetBy'[k].uses = resetBy[k].uses
      BY <1>5
    <3>5. row[b].resetLink > 0 => row[b].resetLink \in 1..MaxLinks
      BY <1>8
    <3>6. \A u \in Tasks : task'[u].op = "reset" => task'[u] = task[u]
      BY <1>4, <1>7
    <3>7. \A u \in Tasks : task'[u].account = b /\ task'[u].op = "reset" =>
            task'[u].link = row'[b].resetLink
      BY <3>1, <3>2, <3>6 DEF LinkOf
    <3>8. row'[b].resetLink > 0 => resetBy'[row'[b].resetLink].uses = 0
      BY <3>1, <3>2, <3>4, <3>5 DEF LinkOf
    <3>9. \A k \in 1..MaxLinks : resetBy'[k].account = b =>
            /\ resetBy'[k].uses <= 1
            /\ row'[b].resetLink > 0 => k <= row'[b].resetLink
            /\ row'[b].resetLink = 0 =>
                 resetBy'[k].uses = 1 \/ \E j \in 1..MaxLinks : resetBy'[j].account = b /\ j > k
      BY <3>1, <3>2, <3>3, <3>4 DEF LinkOf
    <3>. QED  BY <3>7, <3>8, <3>9 DEF LinkOf
  <2>2. CASE b = a
    <3>1. Active(a) /\ a \in Accounts \ callsRaced /\ row'[a].resetLink = link
      BY <1>3, <1>4, <1>15, <2>2 DEF Active
    <3>2. \A u \in Tasks : task'[u].account # a
      BY <1>4, <1>7, <1>15, <2>2
    <3>3. ASSUME NEW k \in 1..MaxLinks, resetBy'[k].account = a
          PROVE  resetBy'[k].uses <= 1 /\ k <= link
      <4>1. CASE k = link
        BY <1>1, <1>2, <1>5, <1>6, <4>1
      <4>2. CASE k # link
        <5>1. resetBy[k].account = a /\ resetBy'[k].uses = resetBy[k].uses
          BY <1>5, <3>3, <4>2
        <5>2. resetBy[k].uses <= 1
          BY <3>1, <5>1 DEF LinksInv, LinkOf
        <5>3. ~(k > link)
          BY <1>7, <1>9, <5>1 DEF LinksInv, LinksNew
        <5>. QED  BY <1>2, <5>1, <5>2, <5>3
      <4>. QED  BY <4>1, <4>2
    <3>. QED  BY <1>5, <1>6, <1>12, <2>2, <3>1, <3>2, <3>3 DEF LinkOf
  <2>. QED  BY <2>1, <2>2
<1>. QED
  BY <1>13, <1>14, <1>15 DEF LinksInv

LEMMA ResetKeeps ==
  ASSUME AccountsInv, LinksInv, NEW t \in Tasks, NEW r \in AccountRow, Resets(t, r)
  PROVE  LinksInv'
<1>. DEFINE a == task[t].account
            link == task[t].link
<1>1. /\ linksMade \in 0..MaxLinks /\ MaxLinks \in Nat
      /\ resetBy \in [1..MaxLinks -> ResetUse] /\ row \in [Accounts -> AccountRow]
  BY TypesNamed, AccountConstants DEF AccountsInv
<1>2. link \in 1..linksMade /\ resetBy[link].account = a
  BY DEF LinksInv, LinksOwned, Resets
<1>3. /\ r.at = row[a].at /\ r.resetLink = 0 /\ linksMade' = linksMade
      /\ resetBy' = [resetBy EXCEPT ![link].uses = @ + 1] /\ task[t].op = "reset"
  BY DEF Resets
<1>4. /\ a \in Accounts /\ Exists(a) /\ row'[a] = r
      /\ \A b \in Accounts \ {a} : row'[b] = row[b]
      /\ task'[t] = NoTask /\ \A u \in Tasks \ {t} : task'[u] = task[u]
      /\ callsRaced \subseteq callsRaced'
      /\ a \notin callsRaced' => \A u \in Tasks \ {t} : task[u].account # a
  BY Writes DEF Resets
<1>5. link \in 1..MaxLinks /\ 1..linksMade \subseteq 1..MaxLinks
  BY <1>1, <1>2
<1>6. /\ \A k \in 1..MaxLinks : k # link => resetBy'[k] = resetBy[k]
      /\ resetBy'[link].account = resetBy[link].account
      /\ resetBy'[link].uses = resetBy[link].uses + 1
  BY <1>1, <1>3, <1>5 DEF ResetUse
<1>7. \A k \in 1..MaxLinks : \A b : (resetBy'[k].account = b) <=> (resetBy[k].account = b)
  BY <1>6
<1>8. NoTask.op # "reset" /\ NoTask.account # a
  BY <1>4, AccountConstants DEF NoTask
<1>9. \A b \in Accounts : row[b].resetLink \in 0..MaxLinks
  BY <1>1 DEF AccountRow
<1>10. ~(link > linksMade) /\ link > 0 /\ ~(0 > 0)
  BY <1>1, <1>2
<1>11. \A u \in Tasks : task'[u].op = "reset" => task'[u] = task[u]
  BY <1>4, <1>8
<1>12. \A k \in 1..MaxLinks : resetBy[k].uses \in Nat
  BY <1>1 DEF ResetUse
<1>. HIDE DEF a, link
<1>13. LinksNew'
  BY <1>3, <1>6, <1>10 DEF LinksInv, LinksNew
<1>14. LinksOwned'
  <2>1. \A b \in Accounts : row'[b].resetLink > 0 => row'[b] = row[b]
    BY <1>3, <1>4, <1>10
  <2>2. \A b \in Accounts, k \in 1..MaxLinks : resetBy[k].account = b => row'[b].at # "missing"
    BY <1>3, <1>4 DEF LinksInv, LinksOwned
  <2>3. \A b \in Accounts : row'[b].resetLink > 0 =>
          row'[b].resetLink \in 1..linksMade /\ resetBy'[row'[b].resetLink].account = b
    BY <1>5, <1>7, <2>1 DEF LinksInv, LinksOwned
  <2>4. ASSUME NEW u \in Tasks, task'[u].op = "reset"
        PROVE  /\ task'[u].link \in 1..linksMade
               /\ resetBy'[task'[u].link].account = task'[u].account
    <3>1. task'[u] = task[u] /\ task[u].op = "reset"
      BY <1>11, <2>4
    <3>2. task[u].link \in 1..linksMade /\ resetBy[task[u].link].account = task[u].account
      BY <3>1 DEF LinksInv, LinksOwned
    <3>3. resetBy'[task[u].link].account = resetBy[task[u].link].account
      BY <1>5, <1>6, <3>2
    <3>. QED  BY <3>1, <3>2, <3>3
  <2>. QED  BY <1>3, <1>7, <2>2, <2>3, <2>4 DEF LinksOwned
<1>15. ASSUME NEW b \in Accounts \ callsRaced', Active(b)' PROVE LinkOf(b)'
  <2>1. CASE b # a
    <3>1. b \in Accounts \ callsRaced /\ Active(b) /\ row'[b] = row[b]
      BY <1>4, <1>15, <2>1 DEF Active
    <3>2. LinkOf(b)
      BY <3>1 DEF LinksInv
    <3>3. \A k \in 1..MaxLinks : resetBy[k].account = b => resetBy'[k] = resetBy[k]
      BY <1>2, <1>6, <2>1
    <3>4. row[b].resetLink > 0 =>
            row[b].resetLink \in 1..MaxLinks /\ resetBy[row[b].resetLink].account = b
      BY <1>9, <3>1 DEF LinksInv, LinksOwned
    <3>5. \A u \in Tasks : task'[u].account = b /\ task'[u].op = "reset" =>
            task'[u].link = row'[b].resetLink
      BY <1>11, <3>1, <3>2 DEF LinkOf
    <3>6. row'[b].resetLink > 0 => resetBy'[row'[b].resetLink].uses = 0
      BY <3>1, <3>2, <3>3, <3>4 DEF LinkOf
    <3>7. \A k \in 1..MaxLinks : resetBy'[k].account = b =>
            /\ resetBy'[k].uses <= 1
            /\ row'[b].resetLink > 0 => k <= row'[b].resetLink
            /\ row'[b].resetLink = 0 =>
                 resetBy'[k].uses = 1 \/ \E j \in 1..MaxLinks : resetBy'[j].account = b /\ j > k
      BY <1>7, <3>1, <3>2, <3>3 DEF LinkOf
    <3>. QED  BY <3>5, <3>6, <3>7 DEF LinkOf
  <2>2. CASE b = a
    <3>1. Active(a) /\ a \in Accounts \ callsRaced /\ row'[a].resetLink = 0
      BY <1>3, <1>4, <1>15, <2>2 DEF Active
    <3>2. \A u \in Tasks : task'[u].account # a
      BY <1>4, <1>8, <1>15, <2>2
    <3>3. LinkOf(a)
      BY <3>1 DEF LinksInv
    <3>4. link = row[a].resetLink
      BY <1>3, <3>3 DEF LinkOf, a, link
    <3>5. resetBy[link].uses = 0 /\ resetBy'[link].uses = 1
      BY <1>6, <1>10, <3>3, <3>4 DEF LinkOf
    <3>6. ASSUME NEW k \in 1..MaxLinks, resetBy[k].account = a
          PROVE  resetBy'[k].uses <= 1 /\ (resetBy'[k].uses = 1 \/ link > k)
      <4>1. resetBy[k].uses <= 1 /\ k <= link
        BY <1>10, <3>3, <3>4, <3>6 DEF LinkOf
      <4>2. CASE k = link
        BY <3>5, <4>2
      <4>3. CASE k # link
        BY <1>5, <1>6, <4>1, <4>3
      <4>. QED  BY <4>2, <4>3
    <3>7. \A k \in 1..MaxLinks : resetBy'[k].account = a =>
            /\ resetBy'[k].uses <= 1
            /\ resetBy'[k].uses = 1 \/ \E j \in 1..MaxLinks : resetBy'[j].account = a /\ j > k
      BY <1>2, <1>5, <1>7, <3>6
    <3>. QED  BY <1>10, <2>2, <3>1, <3>2, <3>7 DEF LinkOf
  <2>. QED  BY <2>1, <2>2
<1>. QED
  BY <1>13, <1>14, <1>15 DEF LinksInv

LEMMA LinksStep ==
  ASSUME AccountsInv, LinksInv, Shape
  PROVE  LinksInv'
<1>1. /\ row \in [Accounts -> AccountRow] /\ task \in [Tasks -> AccountTask]
      /\ resetBy \in [1..MaxLinks -> ResetUse]
  BY TypesNamed DEF AccountsInv
<1>2. NoTask.op # "reset" /\ Missing.resetLink = 0 /\ Missing.at = "missing"
  BY DEF NoTask, Missing
<1>3. CASE Quiet
  BY <1>3, LinksKept DEF Quiet
<1>4. ASSUME NEW t \in Tasks, NEW op \in Creating \cup Working,
             NEW a \in Accounts \cup {NoAccount}, NEW address \in Addresses \cup {NoAddress},
             NEW link \in 0..MaxLinks, BeginsCall(t, op, a, address, link)
      PROVE  LinksInv'
  <2>. DEFINE call == [op |-> op, account |-> a, address |-> address, link |-> link]
  <2>1. /\ task' = [task EXCEPT ![t] = call]
        /\ UNCHANGED <<row, linksMade, resetBy, callsRaced>>
    BY <1>4 DEF BeginsCall, Begin
  <2>2. call.op = op /\ call.account = a /\ call.link = link
    OBVIOUS
  <2>3. op = "reset" => a \in Accounts /\ link = row[a].resetLink /\ link > 0
    BY <1>4 DEF BeginsCall, Creating
  <2>. HIDE DEF call
  <2>4. task'[t] = call /\ \A u \in Tasks \ {t} : task'[u] = task[u]
    BY <1>1, <2>1
  <2>. QED  BY <2>1, <2>2, <2>3, <2>4, LinksKept
<1>5. ASSUME NEW t \in Tasks, EndsCall(t) PROVE LinksInv'
  <2>1. /\ \A u \in Tasks : task'[u] = task[u] \/ task'[u] = NoTask
        /\ UNCHANGED <<row, linksMade, resetBy, callsRaced>>
    BY <1>1, <1>5 DEF EndsCall
  <2>. QED  BY <1>2, <2>1, LinksKept
<1>6. ASSUME NEW t \in Tasks, NEW a \in Accounts, NEW r \in AccountRow, MakesRow(t, a, r)
      PROVE  LinksInv'
  <2>1. /\ row[a] = Missing /\ row'[a] = r /\ r.at = "active" /\ r.resetLink = 0
        /\ \A b \in Accounts \ {a} : row'[b] = row[b]
        /\ UNCHANGED <<linksMade, resetBy, callsRaced>>
        /\ \A u \in Tasks : task'[u] = task[u] \/ task'[u] = NoTask
    BY <1>1, <1>6 DEF MakesRow
  <2>2. \A k \in 1..MaxLinks : resetBy[k].account # a
    BY <1>2, <2>1 DEF LinksInv, LinksOwned
  <2>3. \A u \in Tasks : task'[u].op = "reset" => task'[u] = task[u]
    BY <1>2, <2>1
  <2>4. \A u \in Tasks : task[u].op = "reset" => task[u].account # a
    BY <1>2, <2>1 DEF AccountsInv, Known, Working
  <2>5. LinksNew'
    BY <2>1 DEF LinksInv, LinksNew
  <2>6. ~(0 > 0)
    OBVIOUS
  <2>7. LinksOwned'
    BY <2>1, <2>3, <2>6 DEF LinksInv, LinksOwned
  <2>8. ASSUME NEW b \in Accounts \ callsRaced', Active(b)' PROVE LinkOf(b)'
    <3>1. CASE b = a
      BY <2>1, <2>2, <2>3, <2>4, <2>6, <3>1 DEF LinkOf
    <3>2. CASE b # a
      <4>1. row'[b] = row[b] /\ Active(b) /\ b \in Accounts \ callsRaced
        BY <2>1, <2>8, <3>2 DEF Active
      <4>2. LinkOf(b)
        BY <4>1 DEF LinksInv
      <4>. QED  BY <2>1, <2>3, <4>1, <4>2 DEF LinkOf
    <3>. QED  BY <3>1, <3>2
  <2>. QED  BY <2>5, <2>7, <2>8 DEF LinksInv
<1>7. ASSUME NEW a \in Accounts, StaffDelete(a) PROVE LinksInv'
  <2>1. row' = [row EXCEPT ![a] = Removed] /\ UNCHANGED <<task, linksMade, resetBy, callsRaced>>
    BY <1>7 DEF StaffDelete, Removed
  <2>2. /\ Removed.at = "gone" /\ Removed.resetLink = 0 /\ row'[a] = Removed
        /\ \A b \in Accounts \ {a} : row'[b] = row[b]
    BY <1>1, <2>1 DEF Removed, Missing
  <2>. QED  BY <2>1, <2>2, LinksKept
<1>8. ASSUME NEW t \in Tasks, NEW r \in AccountRow, ProfileEdits(t, r) \/ Deletes(t, r)
      PROVE  LinksInv'
  <2>. DEFINE a == task[t].account
  <2>1. WritesRow(t, r) /\ UNCHANGED <<linksMade, resetBy>>
    BY <1>8 DEF ProfileEdits, Deletes
  <2>2. /\ a \in Accounts /\ row'[a] = r
        /\ \A b \in Accounts \ {a} : row'[b] = row[b]
        /\ task'[t] = NoTask /\ \A u \in Tasks \ {t} : task'[u] = task[u]
        /\ callsRaced \subseteq callsRaced'
    BY <2>1, Writes
  <2>3. \/ r.at = row[a].at /\ r.resetLink = row[a].resetLink
        \/ r.at = "deleted" /\ r.resetLink = 0
    BY <1>8 DEF ProfileEdits, Deletes, Emptied, Missing
  <2>. HIDE DEF a
  <2>. QED  BY <1>2, <2>1, <2>2, <2>3, LinksKept
<1>9. ASSUME NEW t \in Tasks, NEW r \in AccountRow, Requests(t, r) \/ Resets(t, r)
      PROVE  LinksInv'
  BY <1>9, RequestKeeps, ResetKeeps
<1>. QED
  BY <1>3, <1>4, <1>5, <1>6, <1>7, <1>8, <1>9 DEF Shape

\* What the invariant says of the last link is what the property says.
LEMMA LastLink ==
  ASSUME AccountsInv, LinksInv
  PROVE  ResetOnce
<1>1. /\ resetBy \in [1..MaxLinks -> ResetUse] /\ linksMade \in 0..MaxLinks
      /\ MaxLinks \in Nat /\ row \in [Accounts -> AccountRow]
  BY TypesNamed, AccountConstants DEF AccountsInv
<1>. SUFFICES ASSUME NEW a \in Accounts \ callsRaced, Active(a),
                     NEW k \in 1..MaxLinks, resetBy[k].account = a
              PROVE  /\ resetBy[k].uses <= 1
                     /\ (\A j \in {i \in 1..MaxLinks : resetBy[i].account = a} : j <= k) =>
                          row[a].resetLink = IF resetBy[k].uses = 0 THEN k ELSE 0
  BY DEF ResetOnce
<1>2. LinkOf(a)
  BY DEF LinksInv
<1>3. row[a].resetLink \in 0..MaxLinks /\ resetBy[k].uses \in Nat
  BY <1>1 DEF AccountRow, ResetUse
<1>4. row[a].resetLink > 0 =>
        row[a].resetLink \in 1..MaxLinks /\ resetBy[row[a].resetLink].account = a
  BY <1>1, <1>3 DEF LinksInv, LinksOwned
<1>5. ASSUME \A j \in {i \in 1..MaxLinks : resetBy[i].account = a} : j <= k
      PROVE  row[a].resetLink = IF resetBy[k].uses = 0 THEN k ELSE 0
  <2>1. CASE row[a].resetLink > 0
    <3>1. row[a].resetLink <= k /\ k <= row[a].resetLink /\ resetBy[row[a].resetLink].uses = 0
      BY <1>2, <1>4, <1>5, <2>1 DEF LinkOf
    <3>2. row[a].resetLink = k
      BY <1>3, <3>1
    <3>. QED  BY <3>1, <3>2
  <2>2. CASE row[a].resetLink = 0
    <3>1. ~\E j \in 1..MaxLinks : resetBy[j].account = a /\ j > k
      BY <1>5
    <3>2. resetBy[k].uses = 1
      BY <1>2, <2>2, <3>1 DEF LinkOf
    <3>. QED  BY <2>2, <3>2
  <2>. QED  BY <1>3, <2>1, <2>2
<1>. QED
  BY <1>2, <1>5 DEF LinkOf

\* The last reset link mailed changes the password once and no other link does
\* (requestCustomerPasswordReset, resetCustomerPassword), whatever else happens,
\* unless two calls worked on the account at once.
THEOREM ResetsOnce == AccountsSpec => []ResetOnce
<1>1. AccountsInit => LinksInv
  <2>. SUFFICES ASSUME AccountsInit PROVE LinksInv
    OBVIOUS
  <2>1. /\ \A a \in Accounts : row[a].at = "missing" /\ row[a].resetLink = 0
        /\ \A t \in Tasks : task[t].op = "none"
        /\ \A k \in 1..MaxLinks : resetBy[k].account = NoAccount /\ resetBy[k].uses = 0
    BY DEF AccountsInit, Missing, NoTask
  <2>2. \A a \in Accounts : a # NoAccount
    BY AccountConstants
  <2>. QED  BY <2>1, <2>2 DEF LinksInv, LinksNew, LinksOwned, Active
<1>2. AccountsInv /\ LinksInv /\ [AccountsNext]_accountVars => LinksInv'
  BY Shapes, LinksStep
<1>3. AccountsInv /\ [AccountsNext]_accountVars => AccountsInv'
  BY AccountsStep
<1>. QED
  BY AccountsStart, LastLink, <1>1, <1>2, <1>3, PTL DEF AccountsSpec

\* A deleted row stays empty and the last reset link works once
\* (deleteCustomerAccount, resetCustomerPassword), each unless calls met on it.
THEOREM AccountsAreKept == AccountsSpec => []AccountsKept
BY DeletedAnonymous, ResetsOnce, PTL DEF AccountsKept
=============================================================================
