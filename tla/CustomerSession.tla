---------------------------- MODULE CustomerSession ----------------------------
(***************************************************************************)
(* The session of the customers' app (mobile/src/contexts/AuthContext.tsx) *)
(* in its three places: the state the screens show, the copy in            *)
(* AsyncStorage, and the identity OneSignal sends notifications to.        *)
(*                                                                         *)
(* Whoever changes the session calls persist: the state at once, the store *)
(* when its turn comes, the identity after that.  Callers do not wait for  *)
(* each other, and the answer of a profile saved puts back the session in  *)
(* which it was asked for.                                                 *)
(*                                                                         *)
(* A session is abstracted to its customer and to how often the profile it *)
(* shows was edited.  AsyncStorage does its operations in order; the app   *)
(* is a native build with OneSignal, which keeps its identity itself.      *)
(***************************************************************************)
EXTENDS Naturals, Sequences

CONSTANTS
  Persons,           \* customers with an account
  Nobody,
  LoginScreens,      \* logins and signups that may be in flight at once
  MaxLogins,         \* bounds the model
  MaxProfileEdits,   \* profiles saved; bounds the model
  MaxPersists,       \* persists in progress at once; bounds the model
  MaxSessionFaults   \* requests and store operations that fail, and restarts

ASSUME SessionConstants ==
  /\ Nobody \notin Persons
  /\ MaxLogins \in Nat /\ MaxProfileEdits \in Nat /\ MaxPersists \in Nat
  /\ MaxSessionFaults \in Nat

VARIABLES
  signedIn,   \* the session of the screens
  inStore,    \* the session in AsyncStorage
  pushTo,     \* the customer OneSignal knows
  saves,      \* sessions persist has handed to AsyncStorage
  tells,      \* sessions stored, whose persist goes on
  opening,    \* the stored session is being read
  logins,     \* logins in flight
  update,     \* the profile being saved
  closing,    \* the account being deleted
  profile,    \* the server: edits of each profile
  closed,     \* the server: accounts deleted
  asked,      \* logins so far
  unsaved,    \* history: the last operation of the store failed
  untold,     \* history: the last persist did not come to OneSignal
  sessionFaults

appCopies  == <<signedIn, saves>>
appStore   == <<inStore, pushTo, tells, unsaved, untold>>
appCalls   == <<logins, update, closing, asked>>
appServer  == <<profile, closed>>
sessionVars == <<appCopies, appStore, opening, appCalls, appServer, sessionFaults>>

NoSession == [who |-> Nobody, profile |-> 0]
Signed == [who : Persons, profile : 0..MaxProfileEdits]
IdleCall == [at |-> "idle", of |-> NoSession]

SessionInit ==
  /\ signedIn = NoSession /\ saves = <<>> /\ tells = <<>>
  /\ \E who \in Persons \cup {Nobody} :
       inStore = [NoSession EXCEPT !.who = who] /\ pushTo = who
  /\ opening = TRUE /\ logins = [l \in LoginScreens |-> IdleCall]
  /\ update = IdleCall /\ closing = IdleCall
  /\ profile = [p \in Persons |-> 0] /\ closed = {} /\ asked = 0
  /\ unsaved = FALSE /\ untold = FALSE /\ sessionFaults = 0

SessionFault ==
  sessionFaults < MaxSessionFaults /\ sessionFaults' = sessionFaults + 1
-----------------------------------------------------------------------------
\* The screens are there: the stored session and the language have been read.
\* Mutant of Open: the screens do not wait for the session.
OpenAtOnce == TRUE

Open == ~opening

Opened ==
  /\ opening /\ opening' = FALSE /\ unsaved' = FALSE
  /\ signedIn' = IF inStore = NoSession THEN signedIn ELSE inStore
  /\ UNCHANGED <<saves, inStore, pushTo, tells, untold, appCalls, appServer,
                 sessionFaults>>

\* It cannot be read: the app goes on without.
OpenFails ==
  /\ opening /\ SessionFault /\ opening' = FALSE
  /\ unsaved' = TRUE /\ untold' = TRUE
  /\ UNCHANGED <<appCopies, inStore, pushTo, tells, appCalls, appServer>>

\* persist, up to its wait.
Persist(next) ==
  /\ Len(saves) + Len(tells) < MaxPersists
  /\ signedIn' = next /\ saves' = Append(saves, next)

StoreDone ==
  /\ saves # <<>> /\ saves' = Tail(saves)
  /\ inStore' = Head(saves) /\ tells' = Append(tells, Head(saves)) /\ unsaved' = FALSE
  /\ UNCHANGED <<signedIn, pushTo, untold, opening, appCalls, appServer, sessionFaults>>

StoreFails ==
  /\ saves # <<>> /\ SessionFault /\ saves' = Tail(saves)
  /\ unsaved' = TRUE /\ untold' = TRUE
  /\ UNCHANGED <<signedIn, inStore, pushTo, tells, opening, appCalls, appServer>>

\* Mutant of Known: a logout does not clear the identity.
KnownLonger(s) == IF s = NoSession THEN pushTo ELSE s.who

\* setOneSignalCustomerIdentity or clearOneSignalCustomerIdentity.
Known(s) == s.who

PersistEnds ==
  /\ tells # <<>> /\ pushTo' = Known(Head(tells)) /\ tells' = Tail(tells)
  /\ untold' = unsaved
  /\ UNCHANGED <<appCopies, inStore, unsaved, opening, appCalls, appServer,
                 sessionFaults>>

\* The app is closed and started.
AppRestart ==
  /\ SessionFault /\ opening' = TRUE /\ signedIn' = NoSession
  /\ saves' = <<>> /\ tells' = <<>>
  /\ untold' = (untold \/ saves # <<>> \/ tells # <<>>)
  /\ logins' = [l \in LoginScreens |-> IdleCall]
  /\ update' = IdleCall /\ closing' = IdleCall
  /\ UNCHANGED <<inStore, pushTo, unsaved, asked, appServer>>
-----------------------------------------------------------------------------
\* handleLogin or handleSignup.  A screen that was left and opened again does not
\* know of the login it had asked.
PressLogin(l, p) ==
  /\ Open /\ logins[l].at = "idle" /\ asked < MaxLogins /\ asked' = asked + 1
  /\ logins' = [logins EXCEPT ![l] = [at |-> "sent", of |-> [NoSession EXCEPT !.who = p]]]
  /\ UNCHANGED <<appCopies, appStore, opening, update, closing, appServer,
                 sessionFaults>>

LoginChecked(l) ==
  LET p == logins[l].of.who
  IN  /\ logins[l].at = "sent"
      /\ logins' = [logins EXCEPT ![l] =
           IF p \in closed THEN IdleCall
           ELSE [at |-> "answered", of |-> [who |-> p, profile |-> profile[p]]]]
      /\ UNCHANGED <<appCopies, appStore, opening, update, closing, asked, appServer,
                     sessionFaults>>

LoginAnswered(l) ==
  /\ logins[l].at = "answered" /\ Persist(logins[l].of)
  /\ logins' = [logins EXCEPT ![l] = IdleCall]
  /\ UNCHANGED <<appStore, opening, update, closing, asked, appServer, sessionFaults>>

LogOut ==
  /\ Open /\ signedIn # NoSession /\ Persist(NoSession)
  /\ UNCHANGED <<appStore, opening, appCalls, appServer, sessionFaults>>

\* onSave, and updateProfile with the session it sees.
SaveProfile ==
  /\ Open /\ signedIn # NoSession /\ update.at = "idle"
  /\ update' = [at |-> "sent", of |-> signedIn]
  /\ UNCHANGED <<appCopies, appStore, opening, logins, closing, asked, appServer,
                 sessionFaults>>

ProfileWritten ==
  LET p == update.of.who
  IN  /\ update.at = "sent"
      /\ IF p \in closed
         THEN update' = IdleCall /\ UNCHANGED profile
         ELSE /\ profile[p] < MaxProfileEdits
              /\ profile' = [profile EXCEPT ![p] = @ + 1]
              /\ update' = [at |-> "answered", of |-> [who |-> p, profile |-> profile'[p]]]
      /\ UNCHANGED <<appCopies, appStore, opening, logins, closing, asked, closed,
                     sessionFaults>>

ProfileAnswered ==
  /\ update.at = "answered" /\ Persist(update.of) /\ update' = IdleCall
  /\ UNCHANGED <<appStore, opening, logins, closing, asked, appServer, sessionFaults>>

\* onDeleteAccount.
CloseAccount ==
  /\ Open /\ signedIn # NoSession /\ closing.at = "idle"
  /\ closing' = [at |-> "sent", of |-> signedIn]
  /\ UNCHANGED <<appCopies, appStore, opening, logins, update, asked, appServer,
                 sessionFaults>>

AccountClosed ==
  LET p == closing.of.who
  IN  /\ closing.at = "sent" /\ closed' = closed \cup {p}
      /\ closing' = IF p \in closed THEN IdleCall ELSE [closing EXCEPT !.at = "answered"]
      /\ UNCHANGED <<appCopies, appStore, opening, logins, update, asked, profile,
                     sessionFaults>>

ClosingAnswered ==
  /\ closing.at = "answered" /\ Persist(NoSession) /\ closing' = IdleCall
  /\ UNCHANGED <<appStore, opening, logins, update, asked, appServer, sessionFaults>>

\* A call is refused, or its answer lost.
CallFails ==
  /\ SessionFault
  /\ \/ /\ \E l \in LoginScreens : logins[l].at # "idle"
                                   /\ logins' = [logins EXCEPT ![l] = IdleCall]
        /\ UNCHANGED <<update, closing>>
     \/ update.at # "idle" /\ update' = IdleCall /\ UNCHANGED <<logins, closing>>
     \/ closing.at # "idle" /\ closing' = IdleCall /\ UNCHANGED <<logins, update>>
  /\ UNCHANGED <<appCopies, appStore, opening, asked, appServer>>
-----------------------------------------------------------------------------
SessionNext ==
  \/ Opened \/ OpenFails \/ StoreDone \/ StoreFails \/ PersistEnds \/ AppRestart
  \/ \E l \in LoginScreens :
       LoginChecked(l) \/ LoginAnswered(l) \/ \E p \in Persons : PressLogin(l, p)
  \/ LogOut \/ SaveProfile \/ ProfileWritten \/ ProfileAnswered
  \/ CloseAccount \/ AccountClosed \/ ClosingAnswered \/ CallFails

SessionSpec == SessionInit /\ [][SessionNext]_sessionVars
-----------------------------------------------------------------------------
Sessions == Signed \cup {NoSession}
CallType == {IdleCall} \cup [at : {"sent", "answered"}, of : Signed]

SessionTypeOK ==
  /\ {signedIn, inStore} \subseteq Sessions /\ pushTo \in Persons \cup {Nobody}
  /\ saves \in Seq(Sessions) /\ tells \in Seq(Sessions)
  /\ {opening, unsaved, untold} \subseteq BOOLEAN
  /\ logins \in [LoginScreens -> CallType] /\ {update, closing} \subseteq CallType
  /\ profile \in [Persons -> 0..MaxProfileEdits] /\ closed \subseteq Persons
  /\ asked \in 0..MaxLogins /\ sessionFaults \in 0..MaxSessionFaults

\* Logins, logouts, deletions and late answers may overlap as they like: when the
\* last of them is through, the store holds the session that is shown, and
\* notifications go to its customer, unless its own save failed or the app was
\* closed in the middle of it (AuthContext.persist).
SessionAgrees ==
  ~opening /\ saves = <<>> /\ tells = <<>> =>
    /\ ~unsaved => inStore = signedIn
    /\ ~untold => pushTo = signedIn.who
=============================================================================
