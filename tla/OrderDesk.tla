------------------------------- MODULE OrderDesk -------------------------------
(***************************************************************************)
(* The operations app of the staff (operations-app/App.js) and the lists   *)
(* it shows: every five seconds, at login and after each action it asks    *)
(* for the orders and the reservations that are not hidden                 *)
(* (orders.service.ts).                                                    *)
(*                                                                         *)
(* A refresh captures the session it was begun in, and its answer is       *)
(* handled whenever it comes: refreshes overtake each other, outlive their *)
(* session, and a refused one logs out whoever is logged in by then.       *)
(*                                                                         *)
(* What a row holds is abstracted to the number of its edits, from 1; a    *)
(* row that is not there yet is as good as hidden.  Fewer than 200 rows    *)
(* are visible (the lists stop there).                                     *)
(***************************************************************************)
EXTENDS Naturals

CONSTANTS
  Lists,         \* the orders and the reservations, as sets of rows
  Refreshes,     \* refreshes that may be in flight at once
  MaxSessions,   \* logins; bounds the model
  MaxDeskEdits,
  MaxDeskFaults  \* requests that fail or are never answered, and restarts

ASSUME DeskConstants ==
  /\ \A k, l \in Lists : k # l => k \cap l = {}
  /\ MaxSessions \in Nat /\ MaxDeskEdits \in Nat /\ MaxDeskFaults \in Nat

Items == UNION Lists

VARIABLES
  item,       \* the rows: edits, and whether they are hidden
  deskEdits,
  session,    \* the session of the app, 0 for none
  stored,     \* the session in the secure store
  sessions,   \* sessions begun so far
  ended,      \* those whose token has expired
  entering,   \* a login between its save and its setSession
  leaving,    \* a logout between its clear and its setSession
  refresh,    \* the refreshes in flight
  acting,     \* the session in which an action of the app was begun, 0 for none
  shown,      \* the edits shown of each item, 0 when it is not listed
  deskFaults

deskServer    == <<item, deskEdits, sessions, ended>>
deskLogin     == <<session, stored, entering, leaving>>
deskVars  == <<deskServer, deskLogin, refresh, acting, shown, deskFaults>>

Blank == [i \in Items |-> 0]
NoRefresh == [at |-> "idle", session |-> 0, unread |-> {}, list |-> Blank]

DeskInit ==
  /\ item \in [Items -> [edits : {1}, hidden : BOOLEAN]] /\ deskEdits = 0
  /\ session = 0 /\ stored = 0 /\ sessions = 0 /\ ended = {}
  /\ entering = 0 /\ leaving = FALSE
  /\ refresh = [f \in Refreshes |-> NoRefresh] /\ acting = 0
  /\ shown = Blank /\ deskFaults = 0

DeskFault == deskFaults < MaxDeskFaults /\ deskFaults' = deskFaults + 1
-----------------------------------------------------------------------------
\* handleLogin, answered and saved; and then its setSession.
StaffLogin ==
  /\ session = 0 /\ entering = 0 /\ sessions < MaxSessions
  /\ sessions' = sessions + 1 /\ entering' = sessions' /\ stored' = sessions'
  /\ UNCHANGED <<item, deskEdits, ended, session, leaving, refresh, acting, shown,
                 deskFaults>>

StaffLoginEnds ==
  /\ entering # 0 /\ session' = entering /\ entering' = 0
  /\ UNCHANGED <<deskServer, stored, leaving, refresh, acting, shown, deskFaults>>

\* handleLogout by the button: clearSession, and the rest after it.
StaffLogout ==
  /\ session # 0 /\ ~leaving /\ leaving' = TRUE /\ stored' = 0
  /\ UNCHANGED <<deskServer, session, entering, refresh, acting, shown, deskFaults>>

StaffLogoutEnds ==
  /\ leaving /\ leaving' = FALSE /\ session' = 0 /\ shown' = Blank
  /\ UNCHANGED <<deskServer, stored, entering, refresh, acting, deskFaults>>

\* The token of session s is no longer accepted.
SessionExpires(s) ==
  /\ s \in 1..sessions /\ s \notin ended /\ ended' = ended \cup {s}
  /\ UNCHANGED <<item, deskEdits, sessions, deskLogin, refresh, acting, shown, deskFaults>>

\* The app is closed and started: loadSession.
Restart ==
  /\ DeskFault /\ session' = stored /\ entering' = 0 /\ leaving' = FALSE
  /\ refresh' = [f \in Refreshes |-> NoRefresh] /\ acting' = 0 /\ shown' = Blank
  /\ UNCHANGED <<deskServer, stored>>
-----------------------------------------------------------------------------
Begun(f, s) == refresh' = [refresh EXCEPT ![f] =
  [at |-> "sent", session |-> s, unread |-> Lists,
   list |-> Blank]]

Unused(f) ==
  LET idle(g) == refresh[g].at = "idle"
  IN  idle(f) /\ f = (CHOOSE g \in Refreshes : idle(g))

\* refreshData, by its timer or at the beginning of a session.
Refresh(f) ==
  /\ session # 0 /\ Unused(f) /\ Begun(f, session)
  /\ UNCHANGED <<deskServer, deskLogin, acting, shown, deskFaults>>

\* A refresh whose session has expired is refused; another gets the list.
WithList(r, list) ==
  IF r.session \in ended THEN [NoRefresh EXCEPT !.at = "refused"]
  ELSE [r EXCEPT !.unread = @ \ {list},
          !.list = [i \in Items |-> IF i \in list /\ ~item[i].hidden
                                    THEN item[i].edits ELSE @[i]]]

\* listAdminOrders or listAdminReservations, whichever list is read first.
ReadList(f, list) ==
  /\ refresh[f].at = "sent" /\ list \in refresh[f].unread
  /\ refresh' = [refresh EXCEPT ![f] = WithList(@, list)]
  /\ UNCHANGED <<deskServer, deskLogin, acting, shown, deskFaults>>

\* Mutant of Applies: only the latest answer counts.
AppliesAlone(f) == \A g \in Refreshes \ {f} : refresh[g].at = "idle"

\* An answer is applied whenever it comes.
Applies(f) == refresh[f].unread = {}

\* Both lists are there.
RefreshEnds(f) ==
  /\ refresh[f].at = "sent" /\ refresh[f].unread = {}
  /\ shown' = IF Applies(f) THEN refresh[f].list ELSE shown
  /\ refresh' = [refresh EXCEPT ![f] = NoRefresh]
  /\ UNCHANGED <<deskServer, deskLogin, acting, deskFaults>>

\* The refresh is refused: handleLogout, which it waits for.
RefreshRefused(f) ==
  /\ refresh[f].at = "refused"
  /\ refresh' = [refresh EXCEPT ![f].at = "leaving"] /\ stored' = 0
  /\ UNCHANGED <<deskServer, session, entering, leaving, acting, shown, deskFaults>>

RefreshLeaves(f) ==
  /\ refresh[f].at = "leaving"
  /\ refresh' = [refresh EXCEPT ![f] = NoRefresh] /\ session' = 0 /\ shown' = Blank
  /\ UNCHANGED <<deskServer, stored, entering, leaving, acting, deskFaults>>

\* One of its requests fails, or is never answered.
RefreshFails(f) ==
  /\ refresh[f].at = "sent" /\ DeskFault
  /\ refresh' = [refresh EXCEPT ![f] = NoRefresh]
  /\ UNCHANGED <<deskServer, deskLogin, acting, shown>>
-----------------------------------------------------------------------------
\* What staff and customers do to a row: its status changes, or it is hidden,
\* restored or made.
Changed(i, row) ==
  /\ deskEdits < MaxDeskEdits /\ deskEdits' = deskEdits + 1
  /\ row \in {[item[i] EXCEPT !.edits = @ + 1], [item[i] EXCEPT !.hidden = ~@]}
  /\ item' = [item EXCEPT ![i] = row]

\* By a customer, the terminal or the web back office.
ChangeElsewhere(i, row) ==
  /\ Changed(i, row)
  /\ UNCHANGED <<sessions, ended, deskLogin, refresh, acting, shown, deskFaults>>

\* What the app may make of a row: it restores nothing.
AppRow(i, row) == item[i].hidden => row.hidden

\* handleOrderAction, handleHideOrder and those of reservations, one at once, for
\* an item that is shown.
Act ==
  /\ session # 0 /\ acting = 0 /\ shown # Blank /\ acting' = session
  /\ UNCHANGED <<deskServer, deskLogin, refresh, shown, deskFaults>>

\* The row is written; the action refreshes with the session it began in.
ActionWritten(i, row, f) ==
  /\ acting # 0 /\ acting \notin ended /\ Unused(f)
  /\ AppRow(i, row) /\ Changed(i, row)
  /\ Begun(f, acting) /\ acting' = 0
  /\ UNCHANGED <<sessions, ended, deskLogin, shown, deskFaults>>

\* It is refused, or fails after the row was written or before.
ActionFails(i, row) ==
  /\ acting # 0 /\ acting' = 0
  /\ \/ acting \in ended /\ UNCHANGED <<item, deskEdits, deskFaults>>
     \/ DeskFault /\ UNCHANGED <<item, deskEdits>>
     \/ acting \notin ended /\ DeskFault /\ AppRow(i, row) /\ Changed(i, row)
  /\ UNCHANGED <<sessions, ended, deskLogin, refresh, shown>>
-----------------------------------------------------------------------------
SomeRow == [edits : 1..MaxDeskEdits + 1, hidden : BOOLEAN]

DeskNext ==
  \/ StaffLogin \/ StaffLoginEnds \/ StaffLogout \/ StaffLogoutEnds \/ Restart \/ Act
  \/ \E s \in 1..MaxSessions : SessionExpires(s)
  \/ \E f \in Refreshes :
       \/ Refresh(f) \/ RefreshEnds(f) \/ RefreshRefused(f) \/ RefreshLeaves(f)
       \/ RefreshFails(f) \/ \E list \in refresh[f].unread : ReadList(f, list)
  \/ \E i \in Items, row \in SomeRow :
       \/ ChangeElsewhere(i, row) \/ ActionFails(i, row)
       \/ \E f \in Refreshes : ActionWritten(i, row, f)

DeskSpec == DeskInit /\ [][DeskNext]_deskVars

\* The timer runs, and what is neither lost nor unanswered ends.
DeskFairness ==
  /\ WF_deskVars(StaffLoginEnds \/ StaffLogoutEnds)
  /\ WF_deskVars(\E f \in Refreshes : Refresh(f))
  /\ \A f \in Refreshes : WF_deskVars(
       \/ RefreshEnds(f) \/ RefreshRefused(f) \/ RefreshLeaves(f)
       \/ \E list \in refresh[f].unread : ReadList(f, list))

DeskFairSpec == DeskSpec /\ DeskFairness
-----------------------------------------------------------------------------
DeskTypeOK ==
  /\ item \in [Items -> SomeRow] /\ deskEdits \in 0..MaxDeskEdits
  /\ {session, stored, sessions, entering, acting} \subseteq 0..MaxSessions
  /\ ended \subseteq 1..MaxSessions /\ leaving \in BOOLEAN
  /\ refresh \in [Refreshes -> [at : {"idle", "sent", "refused", "leaving"},
       session : 0..MaxSessions, unread : SUBSET Lists,
       list : [Items -> 0..MaxDeskEdits + 1]]]
  /\ shown \in [Items -> 0..MaxDeskEdits + 1] /\ deskFaults \in 0..MaxDeskFaults

\* Once nothing changes any more, the staff who are logged in come to see the
\* rows as they are, although old answers overtake new ones, come from earlier
\* sessions, or never come at all.
ListConverges == <>[](session = 0 \/
  \A i \in Items : shown[i] = IF item[i].hidden THEN 0 ELSE item[i].edits)
=============================================================================
