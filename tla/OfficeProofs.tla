------------------------------ MODULE OfficeProofs ------------------------------
(***************************************************************************)
(* Proofs about the web back office and the customers' app, each of their  *)
(* parts for any customers, presses, codes, changes, logins, products and  *)
(* faults, and then all of them together: a behaviour of MCOffice is one   *)
(* of each of its parts.                                                   *)
(*                                                                         *)
(* Every part has an inductive invariant above its theorems: what the      *)
(* copies of the session, the cart under a checkout, the presses of a      *)
(* campaign and their mails, the reads of the list of codes, and the       *)
(* changes of a row and the mails due to them have to do with each other.  *)
(***************************************************************************)
EXTENDS MCOffice, FiniteSetTheorems, TLAPS
-----------------------------------------------------------------------------
\* The last of q, if there is one, is v.
LastIs(q, v) == q # <<>> => q[Len(q)] = v

\* Nothing has happened since the app was started.
Quiet ==
  /\ saves = <<>> /\ tells = <<>> /\ signedIn = NoSession
  /\ \A l \in LoginScreens : logins[l].at = "idle"
  /\ update.at = "idle" /\ closing.at = "idle"

\* The last session handed to the store is the one shown, the last one stored is
\* the one OneSignal hears of last, and nothing happens before the app is open.
CopiesInv ==
  /\ LastIs(saves, signedIn)
  /\ saves = <<>> /\ ~opening /\ ~unsaved => inStore = signedIn
  /\ LastIs(tells, inStore)
  /\ tells = <<>> /\ ~untold => pushTo = inStore.who
  /\ unsaved => untold
  /\ opening => Quiet

SessionInv == SessionTypeOK /\ CopiesInv

\* The ends of a queue.
LEMMA QueueEnds ==
  ASSUME NEW S, NEW q \in Seq(S), NEW e \in S
  PROVE  /\ Append(q, e) \in Seq(S) /\ Append(q, e) # <<>> /\ LastIs(Append(q, e), e)
         /\ q # <<>> => Head(q) \in S /\ Tail(q) \in Seq(S)
<1>1. q # <<>> => Head(q) \in S /\ Tail(q) \in Seq(S)
  OBVIOUS
<1>2. /\ Append(q, e) \in Seq(S) /\ Append(q, e) # <<>>
      /\ Append(q, e)[Len(Append(q, e))] = e
  OBVIOUS
<1> QED
  BY <1>1, <1>2, Zenon DEF LastIs

\* The head of a queue, and what is left, have the same last.
LEMMA QueueTail ==
  ASSUME NEW S, NEW q \in Seq(S), q # <<>>, NEW v, LastIs(q, v)
  PROVE  LastIs(Tail(q), v) /\ (Tail(q) = <<>> => Head(q) = v)
<1>1. Len(q) \in Nat \ {0} /\ Len(Tail(q)) = Len(q) - 1
  OBVIOUS
<1>2. Tail(q) # <<>> => Tail(q)[Len(Tail(q))] = q[Len(q)]
  BY <1>1
<1>3. Tail(q) = <<>> => Head(q) = q[Len(q)]
  <2> SUFFICES ASSUME Tail(q) = <<>> PROVE Head(q) = q[Len(q)]
    OBVIOUS
  <2>1. Len(q) = 1
    BY <1>1
  <2> QED
    BY <2>1
<1>4. q[Len(q)] = v
  BY Zenon DEF LastIs
<1> QED
  BY <1>2, <1>3, <1>4, Zenon DEF LastIs

\* Types of the three copies and the calls of the app (AuthContext.tsx), for one
\* step.
LEMMA SessionTypes == SessionTypeOK /\ [SessionNext]_sessionVars => SessionTypeOK'
<1> SUFFICES ASSUME SessionTypeOK, [SessionNext]_sessionVars PROVE SessionTypeOK'
  OBVIOUS
<1> USE SessionConstants DEF SessionTypeOK
<1>n. NoSession \in Sessions /\ IdleCall \in CallType
  BY DEF Sessions, CallType
<1>f. SessionFault => sessionFaults' \in 0..MaxSessionFaults
  BY DEF SessionFault
<1>p. ASSUME NEW next \in Sessions, Persist(next)
      PROVE signedIn' \in Sessions /\ saves' \in Seq(Sessions)
  BY <1>p DEF Persist
<1>w. \A s \in Sessions : s.who \in Persons \cup {Nobody}
  BY DEF Sessions, Signed, NoSession
<1>c. /\ \A c \in CallType : c.at # "idle" => c.at \in {"sent", "answered"} /\ c.of \in Signed
      /\ \A a \in {"sent", "answered"}, s \in Signed : [at |-> a, of |-> s] \in CallType
  BY DEF CallType, IdleCall
<1>s. /\ \A s \in Signed : s \in Sessions /\ s.who \in Persons
      /\ \A p \in Persons, n \in 0..MaxProfileEdits : [who |-> p, profile |-> n] \in Signed
  BY DEF Sessions, Signed
<1>1. CASE Opened \/ OpenFails
  BY <1>1, <1>f DEF Opened, OpenFails, appCopies, appCalls, appServer
<1>2. CASE StoreDone \/ StoreFails
  <2>1. Head(saves) \in Sessions /\ Tail(saves) \in Seq(Sessions)
    BY <1>2 DEF StoreDone, StoreFails
  <2>2. CASE StoreDone
    <3>1. inStore' \in Sessions /\ tells' \in Seq(Sessions) /\ saves' \in Seq(Sessions)
      BY <2>1, <2>2 DEF StoreDone
    <3>2. unsaved' = FALSE
      BY <2>2 DEF StoreDone
    <3>3. UNCHANGED <<signedIn, pushTo, untold, opening, appCalls, appServer, sessionFaults>>
      BY <2>2 DEF StoreDone
    <3> QED
      BY <3>1, <3>2, <3>3 DEF appCalls, appServer
  <2>3. CASE StoreFails
    BY <1>f, <2>1, <2>3 DEF StoreFails, appCalls, appServer
  <2> QED
    BY <1>2, <2>2, <2>3
<1>3. CASE PersistEnds
  <2>1. Head(tells) \in Sessions /\ Tail(tells) \in Seq(Sessions)
    BY <1>3 DEF PersistEnds
  <2> QED
    BY <1>3, <1>w, <2>1 DEF PersistEnds, Known, appCopies, appCalls, appServer
<1>4. CASE AppRestart
  <2>1. untold' \in BOOLEAN
    BY <1>4, Zenon DEF AppRestart
  <2> QED
    BY <1>4, <1>f, <1>n, <2>1 DEF AppRestart, appServer
<1>5. ASSUME NEW l \in LoginScreens, NEW p \in Persons, PressLogin(l, p)
      PROVE SessionTypeOK'
  <2>1. [at |-> "sent", of |-> [NoSession EXCEPT !.who = p]] \in CallType
    BY <1>c, <1>s DEF NoSession
  <2> QED
    BY <1>5, <2>1 DEF PressLogin, appCopies, appStore, appServer
<1>6. ASSUME NEW l \in LoginScreens, LoginChecked(l) PROVE SessionTypeOK'
  <2> DEFINE p == logins[l].of.who
  <2>1. p \in Persons
    BY <1>6, <1>c, <1>s DEF LoginChecked
  <2>2. [at |-> "answered", of |-> [who |-> p, profile |-> profile[p]]] \in CallType
    BY <2>1, <1>c, <1>s
  <2> QED
    BY <1>6, <1>n, <2>2 DEF LoginChecked, appCopies, appStore, appServer
<1>7. ASSUME NEW l \in LoginScreens, LoginAnswered(l) PROVE SessionTypeOK'
  <2>1. logins[l].of \in Sessions
    BY <1>7, <1>c, <1>s DEF LoginAnswered
  <2> QED
    BY <1>7, <1>n, <1>p, <2>1 DEF LoginAnswered, appStore, appServer
<1>8. CASE LogOut
  BY <1>8, <1>n, <1>p DEF LogOut, appStore, appCalls, appServer
<1>9. CASE SaveProfile \/ CloseAccount
  <2>1. [at |-> "sent", of |-> signedIn] \in CallType
    BY <1>9, <1>c DEF SaveProfile, CloseAccount, Sessions
  <2> QED
    BY <1>9, <2>1 DEF SaveProfile, CloseAccount, appCopies, appStore, appServer
<1>10. CASE ProfileWritten
  <2> DEFINE p == update.of.who
  <2>1. p \in Persons
    BY <1>10, <1>c, <1>s DEF ProfileWritten
  <2>2. CASE p \in closed
    BY <1>10, <1>n, <2>2 DEF ProfileWritten, appCopies, appStore
  <2>3. CASE p \notin closed
    <3>1. /\ profile[p] + 1 \in 0..MaxProfileEdits
          /\ profile' = [profile EXCEPT ![p] = profile[p] + 1]
      BY <1>10, <2>1, <2>3 DEF ProfileWritten
    <3>2. profile' \in [Persons -> 0..MaxProfileEdits] /\ profile'[p] = profile[p] + 1
      BY <2>1, <3>1
    <3>3. update' \in CallType
      BY <1>10, <1>c, <1>s, <2>1, <2>3, <3>1, <3>2 DEF ProfileWritten
    <3> QED
      BY <1>10, <3>2, <3>3 DEF ProfileWritten, appCopies, appStore
  <2> QED
    BY <2>2, <2>3
<1>11. CASE ProfileAnswered
  <2>1. update.of \in Sessions
    BY <1>11, <1>c, <1>s DEF ProfileAnswered
  <2> QED
    BY <1>11, <1>n, <1>p, <2>1 DEF ProfileAnswered, appStore, appServer
<1>12. CASE AccountClosed
  <2>1. closing.of \in Signed /\ closing.of.who \in Persons
    BY <1>12, <1>c, <1>s DEF AccountClosed
  <2>2. [closing EXCEPT !.at = "answered"] \in CallType
    <3>1. closing \in [at : {"sent", "answered"}, of : Signed]
      BY <1>12 DEF AccountClosed, CallType, IdleCall
    <3> QED
      BY <3>1 DEF CallType
  <2> QED
    BY <1>12, <1>n, <2>1, <2>2 DEF AccountClosed, appCopies, appStore
<1>13. CASE ClosingAnswered
  BY <1>13, <1>n, <1>p DEF ClosingAnswered, appStore, appServer
<1>14. CASE CallFails
  <2>1. logins' \in [LoginScreens -> CallType] /\ {update', closing'} \subseteq CallType
    BY <1>14, <1>n DEF CallFails
  <2> QED
    BY <1>14, <1>f, <2>1 DEF CallFails, appCopies, appStore, appServer
<1>15. CASE UNCHANGED sessionVars
  BY <1>15 DEF sessionVars, appCopies, appStore, appCalls, appServer
<1> QED
  BY <1>1, <1>2, <1>3, <1>4, <1>5, <1>6, <1>7, <1>8, <1>9, <1>10, <1>11, <1>12, <1>13,
     <1>14, <1>15 DEF SessionNext

\* One step keeps the copies following each other (AuthContext.persist).
LEMMA SessionStep == SessionInv /\ [SessionNext]_sessionVars => SessionInv'
<1> SUFFICES ASSUME SessionInv, [SessionNext]_sessionVars PROVE SessionInv'
  OBVIOUS
<1>t. SessionTypeOK'
  BY SessionTypes, Zenon DEF SessionInv
<1> SUFFICES CopiesInv'
  BY <1>t, Zenon DEF SessionInv
<1>ty. SessionTypeOK /\ CopiesInv
  BY Zenon DEF SessionInv
<1>q. saves \in Seq(Sessions) /\ tells \in Seq(Sessions) /\ inStore \in Sessions
  BY <1>ty DEF SessionTypeOK
<1>i. IdleCall.at = "idle" /\ NoSession \in Sessions
  BY DEF IdleCall, Sessions
<1>c. \A c \in CallType : c.at # "idle" => c.of \in Sessions
  BY DEF CallType, IdleCall, Sessions
<1>l. logins \in [LoginScreens -> CallType] /\ update \in CallType /\ closing \in CallType
  BY <1>ty DEF SessionTypeOK
<1>o. /\ opening => update.at = "idle" /\ closing.at = "idle"
      /\ \A l \in LoginScreens : opening => logins[l].at = "idle"
  BY <1>ty, Zenon DEF CopiesInv, Quiet
<1>p. ASSUME NEW next \in Sessions, Persist(next), ~opening, opening' = opening,
             UNCHANGED appStore
      PROVE  CopiesInv'
  <2>1. saves' # <<>> /\ LastIs(saves', signedIn')
    BY <1>p, <1>q, QueueEnds DEF Persist
  <2>2. /\ inStore' = inStore /\ pushTo' = pushTo /\ tells' = tells
        /\ unsaved' = unsaved /\ untold' = untold
    BY <1>p DEF appStore
  <2> QED
    BY <1>p, <1>ty, <2>1, <2>2, Zenon DEF CopiesInv
<1>1. CASE Opened
  <2>1. opening' = FALSE /\ unsaved' = FALSE /\ untold' = untold
    BY <1>1 DEF Opened
  <2>2. /\ saves' = saves /\ tells' = tells /\ inStore' = inStore /\ pushTo' = pushTo
        /\ opening /\ signedIn' = IF inStore = NoSession THEN signedIn ELSE inStore
    BY <1>1, Zenon DEF Opened
  <2>3. Quiet
    BY <1>ty, <2>2, Zenon DEF CopiesInv
  <2>4. signedIn' = inStore' /\ saves' = <<>> /\ tells' = <<>>
    BY <2>2, <2>3, Zenon DEF Quiet
  <2> QED
    BY <1>ty, <2>1, <2>2, <2>4, Zenon DEF CopiesInv, LastIs
<1>2. CASE OpenFails
  <2>1. opening' = FALSE /\ unsaved' = TRUE /\ untold' = TRUE
    BY <1>2 DEF OpenFails
  <2>2. /\ saves' = saves /\ tells' = tells /\ inStore' = inStore /\ signedIn' = signedIn
    BY <1>2 DEF OpenFails, appCopies
  <2> QED
    BY <1>ty, <2>1, <2>2, Zenon DEF CopiesInv
<1>3. CASE StoreDone
  <2>0. saves # <<>>
    BY <1>3, Zenon DEF StoreDone
  <2>1. /\ Head(saves) \in Sessions /\ LastIs(Tail(saves), signedIn)
        /\ Tail(saves) = <<>> => Head(saves) = signedIn
    BY <1>ty, <1>q, <2>0, QueueEnds, QueueTail DEF CopiesInv
  <2>2. tells' # <<>> /\ LastIs(tells', inStore')
    BY <1>3, <1>q, <2>1, QueueEnds DEF StoreDone
  <2>3. /\ saves' = Tail(saves) /\ inStore' = Head(saves) /\ signedIn' = signedIn
    BY <1>3 DEF StoreDone
  <2>4. opening' = opening /\ unsaved' = FALSE /\ untold' = untold
    BY <1>3 DEF StoreDone
  <2>5. ~opening
    BY <1>ty, <2>0, Zenon DEF CopiesInv, Quiet
  <2> QED
    BY <1>ty, <2>1, <2>2, <2>3, <2>4, <2>5, Zenon DEF CopiesInv
<1>4. CASE StoreFails
  <2>0. saves # <<>>
    BY <1>4, Zenon DEF StoreFails
  <2>1. LastIs(Tail(saves), signedIn)
    BY <1>ty, <1>q, <2>0, QueueTail DEF CopiesInv
  <2>2. /\ saves' = Tail(saves) /\ inStore' = inStore /\ signedIn' = signedIn
        /\ tells' = tells
    BY <1>4 DEF StoreFails
  <2>3. opening' = opening /\ unsaved' = TRUE /\ untold' = TRUE
    BY <1>4 DEF StoreFails
  <2>4. ~opening
    BY <1>ty, <2>0, Zenon DEF CopiesInv, Quiet
  <2> QED
    BY <1>ty, <2>1, <2>2, <2>3, <2>4, Zenon DEF CopiesInv
<1>5. CASE PersistEnds
  <2>0. tells # <<>>
    BY <1>5, Zenon DEF PersistEnds
  <2>1. /\ LastIs(Tail(tells), inStore)
        /\ Tail(tells) = <<>> => Head(tells) = inStore
    BY <1>ty, <1>q, <2>0, QueueTail DEF CopiesInv
  <2>2. /\ tells' = Tail(tells) /\ inStore' = inStore /\ signedIn' = signedIn
        /\ saves' = saves /\ pushTo' = Head(tells).who
    BY <1>5 DEF PersistEnds, Known, appCopies
  <2>3. opening' = opening /\ unsaved' = unsaved /\ untold' = unsaved
    BY <1>5 DEF PersistEnds
  <2>4. ~opening
    BY <1>ty, <2>0, Zenon DEF CopiesInv, Quiet
  <2> QED
    BY <1>ty, <2>1, <2>2, <2>3, <2>4, Zenon DEF CopiesInv
<1>6. CASE AppRestart
  <2>1. /\ \A l \in LoginScreens : logins'[l].at = "idle"
        /\ update'.at = "idle" /\ closing'.at = "idle"
    BY <1>6, <1>i DEF AppRestart
  <2>2. /\ saves' = <<>> /\ tells' = <<>> /\ inStore' = inStore /\ pushTo' = pushTo
        /\ signedIn' = NoSession
    BY <1>6 DEF AppRestart
  <2>3. opening' = TRUE /\ unsaved' = unsaved
    BY <1>6 DEF AppRestart
  <2>4. untold' = (untold \/ saves # <<>> \/ tells # <<>>)
    BY <1>6, Zenon DEF AppRestart
  <2>5. Quiet'
    BY <2>1, <2>2, Zenon DEF Quiet
  <2>6. untold => untold'
    BY <2>4, Zenon
  <2>7. ~untold' => ~untold /\ tells = <<>>
    BY <2>4, Zenon
  <2> QED
    BY <1>ty, <2>2, <2>3, <2>5, <2>6, <2>7, Zenon DEF CopiesInv, LastIs
<1>7. ASSUME NEW l \in LoginScreens, LoginAnswered(l) PROVE CopiesInv'
  <2>1. logins[l].of \in Sessions /\ logins[l].at # "idle"
    BY <1>7, <1>c, <1>l DEF LoginAnswered
  <2>2. Persist(logins[l].of) /\ opening' = opening /\ UNCHANGED appStore
    BY <1>7, Zenon DEF LoginAnswered
  <2>3. ~opening
    BY <1>o, <2>1, Zenon
  <2> QED
    BY <1>p, <2>1, <2>2, <2>3, Zenon
<1>8. CASE LogOut
  <2>1. Persist(NoSession) /\ opening' = opening /\ UNCHANGED appStore /\ ~opening
    BY <1>8, Zenon DEF LogOut, Open
  <2> QED
    BY <1>i, <1>p, <2>1, Zenon
<1>9. CASE ProfileAnswered
  <2>1. update.of \in Sessions /\ update.at # "idle"
    BY <1>9, <1>c, <1>l DEF ProfileAnswered
  <2>2. Persist(update.of) /\ opening' = opening /\ UNCHANGED appStore
    BY <1>9, Zenon DEF ProfileAnswered
  <2>3. ~opening
    BY <1>o, <2>1, Zenon
  <2> QED
    BY <1>p, <2>1, <2>2, <2>3, Zenon
<1>10. CASE ClosingAnswered
  <2>1. closing.at # "idle"
    BY <1>10 DEF ClosingAnswered
  <2>2. Persist(NoSession) /\ opening' = opening /\ UNCHANGED appStore
    BY <1>10, Zenon DEF ClosingAnswered
  <2>3. ~opening
    BY <1>o, <2>1, Zenon
  <2> QED
    BY <1>i, <1>p, <2>2, <2>3, Zenon
<1>11. ASSUME UNCHANGED <<appCopies, appStore, opening>>,
              ~opening \/ UNCHANGED <<logins, update, closing>>
       PROVE  CopiesInv'
  <2>1. /\ signedIn' = signedIn /\ saves' = saves /\ inStore' = inStore
        /\ pushTo' = pushTo /\ tells' = tells
    BY <1>11 DEF appCopies, appStore
  <2>2. unsaved' = unsaved /\ untold' = untold /\ opening' = opening
    BY <1>11 DEF appStore
  <2>3. CASE ~opening
    BY <1>ty, <2>1, <2>2, <2>3, Zenon DEF CopiesInv
  <2>4. CASE UNCHANGED <<logins, update, closing>>
    BY <1>ty, <2>1, <2>2, <2>4, Zenon DEF CopiesInv, Quiet
  <2> QED
    BY <1>11, <2>3, <2>4
<1>12. ASSUME NEW l \in LoginScreens,
              LoginChecked(l) \/ \E p \in Persons : PressLogin(l, p)
       PROVE  CopiesInv'
  <2>1. CASE LoginChecked(l)
    <3>1. logins[l].at # "idle"
      BY <2>1 DEF LoginChecked
    <3>2. UNCHANGED <<appCopies, appStore, opening>>
      BY <2>1 DEF LoginChecked
    <3> QED
      BY <1>o, <1>11, <3>1, <3>2, Zenon
  <2>2. ASSUME NEW p \in Persons, PressLogin(l, p) PROVE CopiesInv'
    <3>1. ~opening
      BY <2>2, Zenon DEF PressLogin, Open
    <3>2. UNCHANGED <<appCopies, appStore, opening>>
      BY <2>2 DEF PressLogin
    <3> QED
      BY <1>11, <3>1, <3>2, Zenon
  <2> QED
    BY <1>12, <2>1, <2>2, Zenon
<1>13. CASE SaveProfile \/ ProfileWritten \/ CloseAccount \/ AccountClosed
  <2>1. ~opening
    <3>1. CASE SaveProfile \/ CloseAccount
      BY <3>1, Zenon DEF SaveProfile, CloseAccount, Open
    <3>2. CASE ProfileWritten \/ AccountClosed
      <4>1. update.at # "idle" \/ closing.at # "idle"
        BY <3>2 DEF ProfileWritten, AccountClosed
      <4> QED
        BY <1>o, <4>1, Zenon
    <3> QED
      BY <1>13, <3>1, <3>2
  <2>2. UNCHANGED <<appCopies, appStore, opening>>
    BY <1>13 DEF SaveProfile, ProfileWritten, CloseAccount, AccountClosed
  <2> QED
    BY <1>11, <2>1, <2>2, Zenon
<1>14. CASE CallFails
  <2>1. \/ \E l \in LoginScreens : logins[l].at # "idle"
        \/ update.at # "idle" \/ closing.at # "idle"
    BY <1>14, Zenon DEF CallFails
  <2>2. UNCHANGED <<appCopies, appStore, opening>>
    BY <1>14 DEF CallFails
  <2>3. ~opening
    BY <1>o, <2>1, Zenon
  <2> QED
    BY <1>11, <2>2, <2>3, Zenon
<1>15. CASE UNCHANGED sessionVars
  <2>1. UNCHANGED <<appCopies, appStore, opening, logins, update, closing>>
    BY <1>15 DEF sessionVars, appCalls
  <2> QED
    BY <1>11, <2>1
<1> QED
  BY <1>1, <1>2, <1>3, <1>4, <1>5, <1>6, <1>7, <1>8, <1>9, <1>10, <1>12, <1>13, <1>14,
     <1>15, Zenon DEF SessionNext

LEMMA SessionHolds == SessionSpec => []SessionInv
<1>1. SessionInit => SessionInv
  <2> SUFFICES ASSUME SessionInit PROVE SessionInv
    OBVIOUS
  <2> USE SessionConstants DEF SessionInit
  <2>1. /\ inStore.who = pushTo /\ inStore \in Sessions /\ pushTo \in Persons \cup {Nobody}
    BY DEF NoSession, Signed, Sessions
  <2>2. opening = TRUE /\ unsaved = FALSE /\ untold = FALSE
    OBVIOUS
  <2>3. Quiet
    BY DEF Quiet, IdleCall
  <2>4. SessionTypeOK
    <3>1. /\ {signedIn, inStore} \subseteq Sessions /\ saves \in Seq(Sessions)
          /\ tells \in Seq(Sessions) /\ logins \in [LoginScreens -> CallType]
          /\ {update, closing} \subseteq CallType
          /\ profile \in [Persons -> 0..MaxProfileEdits] /\ closed \subseteq Persons
          /\ asked \in 0..MaxLogins /\ sessionFaults \in 0..MaxSessionFaults
      BY <2>1 DEF Sessions, CallType
    <3>2. {opening, unsaved, untold} \subseteq BOOLEAN
      BY <2>2, Zenon
    <3> QED
      BY <2>1, <3>1, <3>2, Zenon DEF SessionTypeOK
  <2>5. CopiesInv
    BY <2>1, <2>2, <2>3, Zenon DEF CopiesInv, Quiet, LastIs
  <2> QED
    BY <2>4, <2>5, Zenon DEF SessionInv
<1> QED
  BY <1>1, SessionStep, PTL DEF SessionSpec

\* Types of the copies of the session (AuthContext.tsx), for any customers.
THEOREM SessionTyped == SessionSpec => []SessionTypeOK
<1>1. SessionInv => SessionTypeOK
  BY Zenon DEF SessionInv
<1> QED
  BY <1>1, SessionHolds, PTL

\* When the last persist is through, the store and OneSignal have the session that
\* is shown (AuthContext.persist), for any customers, logins and failures.
THEOREM SessionCopiesAgree == SessionSpec => []SessionAgrees
<1>2. SessionInv => SessionAgrees
  <2> SUFFICES ASSUME SessionInv, ~opening, saves = <<>>, tells = <<>>
               PROVE  /\ ~unsaved => inStore = signedIn
                      /\ ~untold => pushTo = signedIn.who
    BY Zenon DEF SessionAgrees
  <2> QED
    BY Zenon DEF SessionInv, CopiesInv
<1> QED
  BY <1>2, SessionHolds, PTL
-----------------------------------------------------------------------------
\* A promotion was priced for these lines, if the cart had not overtaken it.
Fits(promotion, lines) ==
  promotion.late \/ promotion \in {NoPromotion, [for |-> lines, late |-> FALSE]}

\* A snapshot of the cart screen that may be ordered.
Orderable(snapshot, lines) ==
  /\ snapshot.way = "delivery" => Subtotal(lines) >= MinimumOrder
  /\ Fits(snapshot.promotion, lines)

\* The cart under an open checkout is the one it was opened with, or empty.
CartInv ==
  /\ CartTypeOK
  /\ Fits(applied, cart)
  /\ checkout.open => /\ cart \in {EmptyCart, checkout.lines}
                      /\ Orderable(checkout, checkout.lines)
  /\ \A s \in Sends : orders[s].at = "sent" =>
       \/ orders[s].lines = EmptyCart
       \/ orders[s].lines = orders[s].shown /\ Orderable(orders[s], orders[s].lines)

\* A preview that is answered is a promotion for its cart, or is late.
LEMMA AnswerFits ==
  ASSUME NEW c \in Carts, applied' = [for |-> c, late |-> c # cart]
  PROVE  applied' \in PromotionType /\ Fits(applied', cart)
<1>1. \A l \in BOOLEAN : [for |-> c, late |-> l] \in PromotionType
  BY SMT DEF PromotionType
<1>2. [for |-> c, late |-> TRUE].late
  OBVIOUS
<1>3. CASE c = cart
  <2>1. (c # cart) = FALSE
    BY <1>3
  <2>2. applied' = [for |-> c, late |-> FALSE]
    BY <2>1, Zenon
  <2>3. applied' \in PromotionType
    BY <1>1, <2>2, Zenon
  <2>4. applied' \in {NoPromotion, [for |-> cart, late |-> FALSE]}
    BY <1>3, <2>2, Zenon
  <2> QED
    BY <2>3, <2>4, Zenon DEF Fits
<1>4. CASE c # cart
  <2>1. (c # cart) = TRUE
    BY <1>4
  <2>2. applied' = [for |-> c, late |-> TRUE]
    BY <2>1, Zenon
  <2>3. applied' \in PromotionType
    BY <1>1, <2>2, Zenon
  <2>4. applied'.late
    BY <1>2, <2>2, Zenon
  <2> QED
    BY <2>3, <2>4, Zenon DEF Fits
<1> QED
  BY <1>3, <1>4, Zenon

\* Types of the cart, the promotion, the checkout and the orders in flight
\* (CartContext.tsx, CartScreen.tsx, CheckoutScreen.tsx), for one step.
LEMMA CartTypes == CartTypeOK /\ [CartNext]_cartVars => CartTypeOK'
<1> SUFFICES ASSUME CartTypeOK, [CartNext]_cartVars PROVE CartTypeOK'
  OBVIOUS
<1> USE CartConstants DEF CartTypeOK
<1>e. EmptyCart \in Carts /\ NoPromotion \in PromotionType
  BY DEF EmptyCart, NoPromotion, Carts, PromotionType
<1>1. ASSUME NEW p \in Products, AddLine(p) \/ TakeOne(p) \/ RemoveLine(p)
      PROVE CartTypeOK'
  <2>1. ASSUME NEW q \in 0..MaxQuantity PROVE [cart EXCEPT ![p] = q] \in Carts
    BY DEF Carts
  <2>2. cart[p] \in 0..MaxQuantity
    BY DEF Carts
  <2>3. cart' \in Carts
    BY <1>1, <2>1, <2>2 DEF AddLine, TakeOne, RemoveLine, LinesBecome
  <2> QED
    BY <1>1, <1>e, <2>3 DEF AddLine, TakeOne, RemoveLine, LinesBecome, AfterChange
<1>2. ASSUME NEW w \in Ways, ChooseWay(w) PROVE CartTypeOK'
  BY <1>2 DEF ChooseWay
<1>3. CASE AskPreview \/ RemovePromotion
  BY <1>3, <1>e DEF AskPreview, RemovePromotion
<1>4. ASSUME NEW c \in previews, PreviewAnswered(c) \/ PreviewFails(c) PROVE CartTypeOK'
  <2>1. applied' \in PromotionType
    BY <1>4, <1>e, AnswerFits DEF PreviewAnswered, PreviewFails
  <2> QED
    BY <1>4, <2>1 DEF PreviewAnswered, PreviewFails
<1>5. CASE Continue
  BY <1>5 DEF Continue
<1>l. ASSUME NEW os, os \in [Sends -> [at : {"none", "sent"}, lines : Carts,
               shown : Carts, way : Ways, promotion : PromotionType, here : BOOLEAN]]
      PROVE Left(os) \in [Sends -> [at : {"none", "sent"}, lines : Carts,
               shown : Carts, way : Ways, promotion : PromotionType, here : BOOLEAN]]
  BY <1>l, <1>e, ZenonT(60) DEF Left, NoOrder, Ways
<1>n. /\ NoCheckout \in [open : BOOLEAN, lines : Carts, way : Ways,
                         promotion : PromotionType, submitting : BOOLEAN]
      /\ NoOrder \in [at : {"none", "sent"}, lines : Carts, shown : Carts, way : Ways,
                      promotion : PromotionType, here : BOOLEAN]
  BY <1>e DEF NoCheckout, NoOrder, Ways
<1>6. CASE BackToCart
  BY <1>6, <1>l, <1>n DEF BackToCart
<1>7. CASE CartLost
  BY <1>7, <1>e, <1>n DEF CartLost, Ways
<1>8. ASSUME NEW s \in Sends, SubmitOrder(s) PROVE CartTypeOK'
  BY <1>8 DEF SubmitOrder
<1>9. ASSUME NEW s \in Sends, OrderAccepted(s) PROVE CartTypeOK'
  <2>1. [orders EXCEPT ![s] = NoOrder] \in
          [Sends -> [at : {"none", "sent"}, lines : Carts, shown : Carts, way : Ways,
                     promotion : PromotionType, here : BOOLEAN]]
    BY <1>n
  <2> QED
    BY <1>9, <1>e, <1>l, <1>n, <2>1 DEF OrderAccepted, LinesBecome, AfterChange
<1>10. ASSUME NEW s \in Sends, OrderFails(s) PROVE CartTypeOK'
  BY <1>10, <1>n DEF OrderFails
<1>11. CASE UNCHANGED cartVars
  BY <1>11 DEF cartVars
<1> QED
  BY <1>1, <1>2, <1>3, <1>4, <1>5, <1>6, <1>7, <1>8, <1>9, <1>10, <1>11 DEF CartNext

\* Orders in flight keep what they were sent with when their screen is closed.
LEMMA LeftKeeps ==
  ASSUME NEW os \in [Sends -> [at : {"none", "sent"}, lines : Carts, shown : Carts,
                     way : Ways, promotion : PromotionType, here : BOOLEAN]],
         NEW s \in Sends
  PROVE  /\ Left(os)[s].at = os[s].at /\ Left(os)[s].lines = os[s].lines
         /\ Left(os)[s].shown = os[s].shown /\ Left(os)[s].way = os[s].way
         /\ Left(os)[s].promotion = os[s].promotion
  BY DEF Left, NoOrder

\* One step keeps what is shown and what is sent together (CartScreen.tsx,
\* CheckoutScreen.tsx).
LEMMA CartStep == CartInv /\ [CartNext]_cartVars => CartInv'
<1> SUFFICES ASSUME CartInv, [CartNext]_cartVars PROVE CartInv'
  OBVIOUS
<1>t. CartTypeOK'
  BY CartTypes DEF CartInv
<1> USE CartConstants DEF CartInv
<1>0. NoPromotion.late = FALSE
  BY DEF NoPromotion
<1>1. ASSUME NEW p \in Products, AddLine(p) \/ TakeOne(p) \/ RemoveLine(p)
      PROVE CartInv'
  BY <1>1, <1>t DEF AddLine, TakeOne, RemoveLine, LinesBecome, AfterChange, Fits,
                    Orderable
<1>2. ASSUME NEW w \in Ways, ChooseWay(w) PROVE CartInv'
  BY <1>2, <1>t DEF ChooseWay, Fits, Orderable
<1>3. CASE AskPreview \/ RemovePromotion
  BY <1>3, <1>t DEF AskPreview, RemovePromotion, Fits, Orderable
<1>4. ASSUME NEW c \in previews, PreviewAnswered(c) \/ PreviewFails(c) PROVE CartInv'
  <2>1. Fits(applied', cart)
    <3>1. CASE PreviewAnswered(c)
      BY <3>1, AnswerFits DEF PreviewAnswered, CartTypeOK
    <3> QED
      BY <1>4, <3>1 DEF PreviewFails, Fits
  <2> QED
    BY <1>4, <1>t, <2>1 DEF PreviewAnswered, PreviewFails, Fits, Orderable
<1>5. CASE Continue
  BY <1>5, <1>t DEF Continue, CanCheckout, Orderable, Fits
<1>6. CASE BackToCart
  <2>1. ~checkout'.open /\ orders' = Left(orders) /\ UNCHANGED <<cart, applied>>
    BY <1>6 DEF BackToCart, NoCheckout
  <2> QED
    BY <1>t, <2>1, LeftKeeps DEF CartTypeOK, Fits, Orderable
<1>7. CASE CartLost
  BY <1>7, <1>t DEF CartLost, NoCheckout, NoOrder, Fits
<1>8. ASSUME NEW s \in Sends, SubmitOrder(s) PROVE CartInv'
  <2> DEFINE o == [at |-> "sent", lines |-> cart, shown |-> checkout.lines,
                   way |-> checkout.way, promotion |-> checkout.promotion, here |-> TRUE]
  <2>1. o.lines = EmptyCart \/ (o.lines = o.shown /\ Orderable(o, o.lines))
    BY <1>8 DEF SubmitOrder, Orderable, Fits
  <2>2. orders' = [orders EXCEPT ![s] = o] /\ UNCHANGED <<cart, applied>>
    BY <1>8 DEF SubmitOrder
  <2>3. \A r \in Sends : orders'[r] = IF r = s THEN o ELSE orders[r]
    BY <2>2 DEF CartTypeOK
  <2>4. /\ checkout'.open = checkout.open /\ checkout'.lines = checkout.lines
        /\ checkout'.way = checkout.way /\ checkout'.promotion = checkout.promotion
    BY <1>8 DEF SubmitOrder, CartTypeOK
  <2> HIDE DEF o
  <2> QED
    BY <1>t, <2>1, <2>2, <2>3, <2>4 DEF Fits, Orderable
<1>9. ASSUME NEW s \in Sends, OrderAccepted(s) PROVE CartInv'
  <2> DEFINE os == [orders EXCEPT ![s] = NoOrder]
  <2>1. os \in [Sends -> [at : {"none", "sent"}, lines : Carts, shown : Carts, way : Ways,
                          promotion : PromotionType, here : BOOLEAN]]
    <3>1. NoOrder \in [at : {"none", "sent"}, lines : Carts, shown : Carts, way : Ways,
                       promotion : PromotionType, here : BOOLEAN]
      BY DEF NoOrder, EmptyCart, Carts, NoPromotion, PromotionType, Ways
    <3> QED
      BY <3>1 DEF CartTypeOK
  <2>2. \A r \in Sends : os[r] = IF r = s THEN NoOrder ELSE orders[r]
    BY DEF CartTypeOK
  <2>3. orders' = Left(os) /\ ~checkout'.open /\ applied' = NoPromotion
    BY <1>9 DEF OrderAccepted, NoCheckout, LinesBecome, AfterChange
  <2>4. NoOrder.at = "none"
    BY DEF NoOrder
  <2> HIDE DEF os
  <2> QED
    BY <1>t, <2>1, <2>2, <2>3, <2>4, LeftKeeps DEF Fits, Orderable
<1>10. ASSUME NEW s \in Sends, OrderFails(s) PROVE CartInv'
  <2>1. \A r \in Sends : orders'[r] = IF r = s THEN NoOrder ELSE orders[r]
    BY <1>10 DEF OrderFails, CartTypeOK
  <2>2. /\ checkout'.open = checkout.open /\ checkout'.lines = checkout.lines
        /\ checkout'.way = checkout.way /\ checkout'.promotion = checkout.promotion
    BY <1>10 DEF OrderFails, CartTypeOK
  <2>3. NoOrder.at = "none" /\ UNCHANGED <<cart, applied>>
    BY <1>10 DEF NoOrder, OrderFails
  <2> QED
    BY <1>t, <2>1, <2>2, <2>3 DEF Fits, Orderable
<1>11. CASE UNCHANGED cartVars
  BY <1>11, <1>t DEF cartVars, Fits, Orderable
<1> QED
  BY <1>1, <1>2, <1>3, <1>4, <1>5, <1>6, <1>7, <1>8, <1>9, <1>10, <1>11 DEF CartNext

LEMMA CartHolds == CartSpec => []CartInv
<1>1. CartInit => CartInv
  BY CartConstants DEF CartInit, CartInv, CartTypeOK, Fits, NoPromotion, NoCheckout,
     NoOrder, EmptyCart, Carts, Ways, PromotionType
<1> QED
  BY <1>1, CartStep, PTL DEF CartSpec

\* Types of the cart and what is in flight (CartContext.tsx, CheckoutScreen.tsx).
THEOREM CartTyped == CartSpec => []CartTypeOK
<1>1. CartInv => CartTypeOK
  BY Zenon DEF CartInv
<1> QED
  BY <1>1, CartHolds, PTL

\* What the customers' app orders is what it showed (CheckoutScreen.tsx), for any
\* products, quantities and number of orders and previews in flight.
THEOREM CartOrdered == CartSpec => []OrderedAsShown
<1>2. CartInv => OrderedAsShown
  BY DEF CartInv, OrderedAsShown, Orderable, Fits
<1> QED
  BY <1>2, CartHolds, PTL
-----------------------------------------------------------------------------
\* An element more is counted.
LEMMA OneMore ==
  ASSUME NEW S, IsFiniteSet(S), NEW R, R \subseteq S, NEW c \in S \ R
  PROVE  /\ Cardinality(R \cup {c}) = Cardinality(R) + 1
         /\ Cardinality(R) + 1 \in 0..Cardinality(S) /\ Cardinality(R) \in Nat
<1>1. IsFiniteSet(R)
  BY FS_Subset
<1>2. Cardinality(R \cup {c}) = Cardinality(R) + 1
  BY <1>1, FS_AddElement
<1>3. Cardinality(R \cup {c}) <= Cardinality(S) /\ Cardinality(S) \in Nat
  BY FS_Subset, FS_CardinalityType
<1>4. Cardinality(R) \in Nat
  BY <1>1, FS_CardinalityType
<1> QED
  BY <1>2, <1>3, <1>4

-----------------------------------------------------------------------------
(***************************************************************************)
(* Campaigns.  Besides the types: what the page has read of a customer who *)
(* did not change since holds still; the button waits for a press that is  *)
(* under way, or was sent and is followed by a load; a text that is still  *)
(* in the form was pressed before only by presses that failed; and the     *)
(* mails of a press go to customers found, each of them once.              *)
(***************************************************************************)
Loaded == listed # Unlisted

ListsHold ==
  /\ Loaded => \A c \in Clients \ stale : "yes" \in listed[c] <=> consent[c] = "yes"
  /\ loading.at = "reading" => \A c \in Clients, which \in {"yes", "no"} :
       IF which \in loading.unread THEN which \notin loading.rows[c]
       ELSE c \notin loading.changed => (which \in loading.rows[c] <=> consent[c] = which)

Waits(p) == \/ press[p].at \in {"asked", "sending"} /\ press[p].result = "none"
            \/ press[p].at = "over" /\ press[p].result = "sent"

ButtonHolds ==
  /\ waiting # 0 => Waits(waiting)
  /\ loading.at = "reading" => IF waiting = 0 THEN ~Loaded ELSE press[waiting].result = "sent"
  /\ draft <= drafts

PressesHold == \A p \in Presses :
  /\ press[p].at = "unused" => press[p] = NoPress /\ \A q \in Presses : p < q => press[q].at = "unused"
  /\ press[p].at # "unused" => press[p].draft \in 1..drafts
  /\ press[p].result = "sent" => press[p].at = "over"
  /\ press[p].at = "asked" =>
       press[p].left = {} /\ press[p].owed = {} /\ press[p].accepted = 0
  /\ press[p].at # "unused" /\ draft # 0 /\ press[p].draft = draft =>
       press[p].result = "failed" \/ (p = waiting /\ press[p].result = "none")
  /\ \A q \in Presses : p < q /\ press[p].at # "unused" /\ press[q].at # "unused"
                          /\ press[p].draft = press[q].draft => press[p].result = "failed"

AudienceHolds == \A p \in Presses :
  /\ press[p].at = "asked" => \A c \in Clients \ press[p].changed :
       c \in press[p].shown <=> c \in Matching(press[p].excluded)
  /\ press[p].at \in {"sending", "over"} =>
       press[p].owed \ press[p].shown \subseteq press[p].changed
  /\ press[p].at = "sending" \/ press[p].result = "sent" =>
       press[p].shown \ press[p].owed \subseteq press[p].changed

MailsHold ==
  /\ \A m \in mailed : m.text = press[m.press].draft /\ press[m.press].at \in {"sending", "over"}
  /\ \A p \in Presses :
       /\ Reached(p) \cup press[p].left \subseteq press[p].owed
       /\ press[p].at = "sending" \/ press[p].result = "sent" =>
            /\ press[p].owed \subseteq Reached(p) \cup press[p].left \cup press[p].refused
            /\ Reached(p) \cap press[p].left = {}
            /\ press[p].accepted = Cardinality(Reached(p))
       /\ press[p].result = "sent" => press[p].left = {}

CampaignInv ==
  CampaignTypeOK /\ ListsHold /\ ButtonHolds /\ PressesHold /\ AudienceHolds /\ MailsHold
PressRecord == [at : {"unused", "asked", "sending", "over"},
  draft : 0..MaxPresses, excluded : SUBSET Clients, left : SUBSET Clients,
  accepted : 0..Cardinality(Clients), result : {"none", "sent", "failed", "unheard"},
  shown : SUBSET Clients, changed : SUBSET Clients, owed : SUBSET Clients,
  refused : SUBSET Clients]

Rows == [Clients -> SUBSET {"yes", "no"}]
LoadRecord == [at : {"idle", "reading"}, unread : SUBSET {"yes", "no"}, rows : Rows,
               changed : SUBSET Clients]

\* Mails taken by the provider, one more or none.
LEMMA MailsKept == ASSUME UNCHANGED mailed, NEW p \in Presses PROVE Reached(p)' = Reached(p)
  BY DEF Reached

LEMMA MailAdded ==
  ASSUME NEW p \in Presses, NEW c \in Clients, mailed' = mailed \cup {CampaignMail(p, c)}
  PROVE  /\ Reached(p)' = Reached(p) \cup {c}
         /\ \A q \in Presses \ {p} : Reached(q)' = Reached(q)
<1>1. CampaignMail(p, c).to = c /\ CampaignMail(p, c).press = p
  BY DEF CampaignMail
<1>2. Reached(p)' = Reached(p) \cup {c}
  BY <1>1 DEF Reached
<1>3. ASSUME NEW q \in Presses \ {p} PROVE Reached(q)' = Reached(q)
  BY <1>1 DEF Reached
<1> QED
  BY <1>2, <1>3

LEMMA ReachedTypes ==
  ASSUME CampaignTypeOK, NEW p \in Presses
  PROVE  Reached(p) \subseteq Clients
  BY DEF Reached, CampaignTypeOK

\* Types, with the number of mails that were taken.
LEMMA CampaignTypes == CampaignInv /\ [CampaignNext]_campaignVars => CampaignTypeOK'
<1> SUFFICES ASSUME CampaignInv, [CampaignNext]_campaignVars PROVE CampaignTypeOK'
  OBVIOUS
<1>c. /\ MaxPresses \in Nat /\ MaxConsents \in Nat /\ MaxCampaignFaults \in Nat
      /\ Cardinality(Clients) \in Nat
  BY CampaignConstants, FS_CardinalityType
<1>t. /\ consent \in [Clients -> {"unknown", "yes", "no", "gone"}]
      /\ consents \in 0..MaxConsents /\ listed \in Rows /\ excluded \subseteq Clients
      /\ loading \in LoadRecord /\ stale \subseteq Clients
      /\ draft \in 0..MaxPresses /\ drafts \in 0..MaxPresses /\ waiting \in 0..MaxPresses
      /\ press \in [Presses -> PressRecord]
      /\ mailed \subseteq [press : Presses, to : Clients, text : 1..MaxPresses]
      /\ campaignFaults \in 0..MaxCampaignFaults
  BY Zenon DEF CampaignInv, CampaignTypeOK, Rows, LoadRecord, PressRecord
<1>g. ASSUME /\ consent' \in [Clients -> {"unknown", "yes", "no", "gone"}]
             /\ consents' \in 0..MaxConsents /\ listed' \in Rows /\ excluded' \subseteq Clients
             /\ loading' \in LoadRecord /\ stale' \subseteq Clients
             /\ draft' \in 0..MaxPresses /\ drafts' \in 0..MaxPresses
             /\ waiting' \in 0..MaxPresses /\ press' \in [Presses -> PressRecord]
             /\ mailed' \subseteq [press : Presses, to : Clients, text : 1..MaxPresses]
             /\ campaignFaults' \in 0..MaxCampaignFaults
      PROVE  CampaignTypeOK'
  <2>1. {draft', drafts', waiting'} \subseteq 0..MaxPresses
    BY <1>g, Zenon
  <2> QED
    BY <1>g, <2>1, Zenon DEF CampaignTypeOK, Rows, LoadRecord, PressRecord
<1>m. CampaignFault => campaignFaults' \in 0..MaxCampaignFaults
  BY <1>c, <1>t DEF CampaignFault
<1>l. Unlisted \in Rows /\ NoLoad \in LoadRecord /\ BeginLoad \in LoadRecord
  BY DEF Unlisted, Rows, NoLoad, BeginLoad, LoadRecord
<1>n. /\ NoPress \in PressRecord /\ Targeted \subseteq Clients /\ Presses = 1..MaxPresses
      /\ \A without : Matching(without) \subseteq Clients
  BY <1>c DEF NoPress, PressRecord, Targeted, Presses, Matching
<1>h. ASSUME NEW p \in Presses, NEW result \in {"none", "sent", "failed", "unheard"},
             Heard(p, result)
      PROVE  press' \in [Presses -> PressRecord]
  <2> DEFINE r == [press[p] EXCEPT !.result = IF waiting = p THEN result ELSE @,
                                   !.at = "over"]
  <2>1. r \in PressRecord
    <3>1. press[p] \in PressRecord
      BY <1>t
    <3> QED
      BY <3>1 DEF PressRecord
  <2>2. press' = [press EXCEPT ![p] = r]
    BY <1>h, <1>t DEF Heard
  <2> QED
    BY <1>t, <2>1, <2>2
<1>x. ASSUME NEW p \in Presses, NEW c \in press[p].left,
             mailed' = mailed \cup {CampaignMail(p, c)}, press[p].at # "unused"
      PROVE  mailed' \subseteq [press : Presses, to : Clients, text : 1..MaxPresses]
  <2>1. press[p].draft \in 1..MaxPresses /\ c \in Clients
    BY <1>c, <1>t, <1>x DEF CampaignInv, PressesHold, PressRecord
  <2> QED
    BY <1>t, <1>x, <2>1 DEF CampaignMail, Text
<1>1. ASSUME NEW c \in Clients, NEW to \in {"yes", "no", "gone"}, ConsentChanges(c, to)
      PROVE  CampaignTypeOK'
  <2>1. consent' \in [Clients -> {"unknown", "yes", "no", "gone"}] /\ consents' \in 0..MaxConsents
    BY <1>1, <1>c, <1>t DEF ConsentChanges
  <2>2. loading' \in LoadRecord /\ stale' \subseteq Clients
    BY <1>1, <1>t DEF ConsentChanges, LoadRecord
  <2>3. press' \in [Presses -> PressRecord]
    <3>1. \A p \in Presses : [press[p] EXCEPT !.changed = @ \cup {c}] \in PressRecord
      BY <1>t DEF PressRecord
    <3> QED
      BY <1>1, <1>t, <3>1 DEF ConsentChanges
  <2>4. UNCHANGED <<listed, excluded, draft, drafts, waiting, mailed, campaignFaults>>
    BY <1>1, Zenon DEF ConsentChanges
  <2> QED
    BY <1>g, <1>t, <2>1, <2>2, <2>3, <2>4
<1>2. ASSUME NEW c \in Clients, ToggleExcluded(c) PROVE CampaignTypeOK'
  BY <1>2, <1>g, <1>t DEF ToggleExcluded
<1>3. ASSUME NEW which \in {"yes", "no"}, ReadRecipients(which) PROVE CampaignTypeOK'
  <2>1. loading' \in LoadRecord
    BY <1>3, <1>t DEF ReadRecipients, LoadRecord, Rows
  <2> QED
    BY <1>3, <1>g, <1>t, <2>1 DEF ReadRecipients
<1>4. CASE LoadEnds
  <2>1. /\ loading.rows \in Rows /\ loading.changed \subseteq Clients
        /\ Excluding(loading.rows, excluded) \subseteq Clients
    BY <1>t DEF LoadRecord, Excluding
  <2> QED
    BY <1>4, <1>c, <1>g, <1>l, <1>t, <2>1 DEF LoadEnds
<1>5. CASE LoadFails
  BY <1>5, <1>c, <1>g, <1>l, <1>m, <1>t DEF LoadFails
<1>6. CASE ResetExclusions
  BY <1>6, <1>g, <1>t DEF ResetExclusions
<1>7. CASE OpenPage
  <2>1. press' \in [Presses -> PressRecord]
    <3>1. \A p \in Presses : [press[p] EXCEPT !.result = "unheard"] \in PressRecord
      BY <1>t DEF PressRecord
    <3> QED
      BY <1>7, <1>t, <3>1 DEF OpenPage
  <2> QED
    BY <1>7, <1>c, <1>g, <1>l, <1>m, <1>t, <2>1 DEF OpenPage
<1>8. CASE WriteDraft
  BY <1>8, <1>c, <1>g, <1>t DEF WriteDraft, audienceVars
<1>9. ASSUME NEW p \in Presses, PressSend(p) PROVE CampaignTypeOK'
  <2>1. [NoPress EXCEPT !.at = "asked", !.draft = draft, !.excluded = excluded,
                        !.shown = Targeted, !.changed = stale] \in PressRecord
    BY <1>n, <1>t DEF PressRecord
  <2>2. press' \in [Presses -> PressRecord] /\ waiting' \in 0..MaxPresses
    BY <1>9, <1>c, <1>n, <1>t, <2>1 DEF PressSend
  <2> QED
    BY <1>9, <1>g, <1>t, <2>2 DEF PressSend, audienceVars
<1>10. ASSUME NEW p \in Presses, ReadAudience(p) PROVE CampaignTypeOK'
  <2>1. Matching(press[p].excluded) \subseteq Clients
    BY <1>n
  <2> DEFINE r == [press[p] EXCEPT !.at = "sending", !.left = Matching(press[p].excluded),
                                   !.owed = Matching(press[p].excluded)]
  <2>2. press' \in [Presses -> PressRecord]
    <3>1. press[p] \in PressRecord
      BY <1>t
    <3>2. r \in PressRecord
      BY <2>1, <3>1 DEF PressRecord
    <3>3. press' = [press EXCEPT ![p] = r]
      BY <1>10, <1>t DEF ReadAudience
    <3> QED
      BY <1>t, <3>2, <3>3
  <2> QED
    BY <1>10, <1>g, <1>t, <2>2 DEF ReadAudience, audienceVars
<1>11. ASSUME NEW p \in Presses, CampaignFails(p) PROVE CampaignTypeOK'
  <2>1. press' \in [Presses -> PressRecord]
    BY <1>11, <1>h DEF CampaignFails
  <2>2. mailed' \subseteq [press : Presses, to : Clients, text : 1..MaxPresses]
    BY <1>11, <1>t, <1>x DEF CampaignFails
  <2>3. UNCHANGED <<consent, consents, listed, stale, drafts, draft, excluded, loading>>
    BY <1>11 DEF CampaignFails, KeptDraft
  <2>4. waiting' \in 0..MaxPresses /\ campaignFaults' \in 0..MaxCampaignFaults
    BY <1>11, <1>c, <1>m, <1>t DEF CampaignFails, KeptDraft
  <2> QED
    BY <1>g, <1>t, <2>1, <2>2, <2>3, <2>4
<1>12. ASSUME NEW p \in Presses, AnswerIsLost(p) PROVE CampaignTypeOK'
  <2>1. press' \in [Presses -> PressRecord]
    BY <1>12, <1>t DEF AnswerIsLost, PressRecord
  <2> QED
    BY <1>12, <1>c, <1>g, <1>m, <1>t, <2>1 DEF AnswerIsLost, KeptDraft
<1>13. ASSUME NEW p \in Presses, CampaignAnswered(p) PROVE CampaignTypeOK'
  <2>1. press' \in [Presses -> PressRecord]
    BY <1>13, <1>h DEF CampaignAnswered
  <2>2. waiting' \in 0..MaxPresses /\ excluded' \subseteq Clients /\ loading' \in LoadRecord
    BY <1>13, <1>c, <1>l, <1>t DEF CampaignAnswered, KeptDraft
  <2>3. draft' \in 0..MaxPresses
    BY <1>13, <1>c, <1>t DEF CampaignAnswered, KeptDraft, NextDraft
  <2> QED
    BY <1>13, <1>g, <1>t, <2>1, <2>2, <2>3 DEF CampaignAnswered
<1>14. ASSUME NEW p \in Presses, NEW c \in Clients, SendCampaignMail(p, c)
       PROVE  CampaignTypeOK'
  <2>1. press[p].at = "sending" /\ c \in press[p].left
    BY <1>14 DEF SendCampaignMail
  <2>2. UNCHANGED <<consent, consents, audienceVars, draft, drafts, waiting>>
    BY <1>14, Zenon DEF SendCampaignMail
  <2>3. CASE /\ mailed' = mailed \cup {CampaignMail(p, c)}
             /\ press' = [press EXCEPT ![p].left = @ \ {c}, ![p].accepted = @ + 1]
             /\ UNCHANGED campaignFaults
    <3>1. press[p].accepted = Cardinality(Reached(p)) /\ c \notin Reached(p)
      BY <2>1 DEF CampaignInv, MailsHold
    <3>2. press[p].accepted + 1 \in 0..Cardinality(Clients)
      BY CampaignConstants, <1>t, <2>1, <3>1, OneMore, ReachedTypes DEF CampaignInv, PressRecord
    <3>3. press' \in [Presses -> PressRecord]
      BY <1>t, <2>3, <3>2 DEF PressRecord
    <3> QED
      BY <1>g, <1>t, <1>x, <2>1, <2>2, <2>3, <3>3 DEF audienceVars
  <2>4. CASE /\ CampaignFault /\ UNCHANGED mailed
             /\ press' = [press EXCEPT ![p].left = @ \ {c}, ![p].refused = @ \cup {c}]
    <3> DEFINE r == [press[p] EXCEPT !.left = @ \ {c}, !.refused = @ \cup {c}]
    <3>1. press' \in [Presses -> PressRecord]
      <4>1. press[p] \in PressRecord
        BY <1>t
      <4>2. r \in PressRecord
        BY <4>1 DEF PressRecord
      <4>3. press' = [press EXCEPT ![p] = r]
        BY <1>t, <2>4
      <4> QED
        BY <1>t, <4>2, <4>3
    <3> QED
      BY <1>g, <1>m, <1>t, <2>2, <2>4, <3>1 DEF audienceVars
  <2> QED
    BY <1>14, <2>3, <2>4 DEF SendCampaignMail
<1>15. CASE UNCHANGED campaignVars
  BY <1>15, <1>g, <1>t DEF campaignVars, audienceVars
<1> QED
  BY <1>1, <1>2, <1>3, <1>4, <1>5, <1>6, <1>7, <1>8, <1>9, <1>10, <1>11, <1>12, <1>13,
     <1>14, <1>15 DEF CampaignNext

\* What the page has read holds still for customers who did not change.
LEMMA ListsStep == CampaignInv /\ [CampaignNext]_campaignVars => ListsHold'
<1> SUFFICES ASSUME CampaignInv, [CampaignNext]_campaignVars PROVE ListsHold'
  OBVIOUS
<1>t. /\ consent \in [Clients -> {"unknown", "yes", "no", "gone"}]
      /\ listed \in Rows /\ loading \in LoadRecord
  BY Zenon DEF CampaignInv, CampaignTypeOK, Rows, LoadRecord
<1>h. ListsHold
  BY Zenon DEF CampaignInv
<1>b. /\ BeginLoad.at = "reading" /\ BeginLoad.unread = {"yes", "no"}
      /\ \A c \in Clients : BeginLoad.rows[c] = {} /\ NoLoad.at = "idle"
  BY DEF BeginLoad, NoLoad, Unlisted
<1>1. ASSUME UNCHANGED <<consent, listed, loading, stale>> PROVE ListsHold'
  BY <1>1, <1>h DEF ListsHold, Loaded
<1>2. ASSUME UNCHANGED <<consent, listed, stale>>, loading' \in {NoLoad, BeginLoad}
      PROVE ListsHold'
  BY <1>2, <1>b, <1>h DEF ListsHold, Loaded
<1>3. ASSUME NEW c \in Clients, NEW to \in {"yes", "no", "gone"}, ConsentChanges(c, to)
      PROVE  ListsHold'
  <2>1. /\ \A d \in Clients \ {c} : consent'[d] = consent[d]
        /\ stale' = stale \cup {c} /\ listed' = listed
    BY <1>3, <1>t DEF ConsentChanges
  <2>2. /\ loading'.at = loading.at /\ loading'.unread = loading.unread
        /\ loading'.rows = loading.rows /\ loading'.changed = loading.changed \cup {c}
    BY <1>3, <1>t DEF ConsentChanges, LoadRecord
  <2> QED
    BY <1>h, <2>1, <2>2 DEF ListsHold, Loaded
<1>4. ASSUME NEW which \in {"yes", "no"}, ReadRecipients(which) PROVE ListsHold'
  <2>1. /\ loading'.at = loading.at /\ loading'.changed = loading.changed
        /\ loading'.unread = loading.unread \ {which} /\ which \in loading.unread
        /\ \A c \in Clients : loading'.rows[c] =
             loading.rows[c] \cup (IF consent[c] = which THEN {which} ELSE {})
    BY <1>4, <1>t DEF ReadRecipients, LoadRecord, Rows
  <2>2. UNCHANGED <<consent, listed, stale>>
    BY <1>4 DEF ReadRecipients
  <2>3. Loaded' => \A c \in Clients \ stale' : "yes" \in listed'[c] <=> consent'[c] = "yes"
    BY <1>h, <2>2 DEF ListsHold, Loaded
  <2>4. ASSUME loading'.at = "reading", NEW c \in Clients, NEW w \in {"yes", "no"}
        PROVE  IF w \in loading'.unread THEN w \notin loading'.rows[c]
               ELSE c \notin loading'.changed =>
                      (w \in loading'.rows[c] <=> consent'[c] = w)
    <3>1. IF w \in loading.unread THEN w \notin loading.rows[c]
          ELSE c \notin loading.changed => (w \in loading.rows[c] <=> consent[c] = w)
      BY <1>h, <2>1, <2>4 DEF ListsHold
    <3>2. CASE w = which
      BY <2>1, <2>2, <3>1, <3>2
    <3>3. CASE w # which
      BY <2>1, <2>2, <3>1, <3>3
    <3> QED
      BY <3>2, <3>3
  <2> QED
    BY <2>3, <2>4 DEF ListsHold
<1>5. CASE LoadEnds
  <2>1. /\ listed' = loading.rows /\ stale' = loading.changed /\ loading' = NoLoad
        /\ consent' = consent /\ loading.at = "reading" /\ loading.unread = {}
    BY <1>5 DEF LoadEnds
  <2> QED
    BY <1>b, <1>h, <2>1 DEF ListsHold, Loaded, NoLoad
<1>6. CASE OpenPage
  <2>1. listed' = Unlisted /\ loading' = BeginLoad
    BY <1>6 DEF OpenPage
  <2> QED
    BY <1>b, <2>1 DEF ListsHold, Loaded
<1>7. CASE LoadFails
  BY <1>2, <1>7 DEF LoadFails
<1>8. CASE ResetExclusions \/ WriteDraft \/ UNCHANGED campaignVars
  BY <1>1, <1>8 DEF ResetExclusions, WriteDraft, campaignVars, audienceVars
<1>9. ASSUME NEW c \in Clients, ToggleExcluded(c) PROVE ListsHold'
  BY <1>1, <1>9 DEF ToggleExcluded
<1>10. ASSUME NEW p \in Presses, PressSend(p) \/ ReadAudience(p) PROVE ListsHold'
  BY <1>1, <1>10 DEF PressSend, ReadAudience, audienceVars
<1>11. ASSUME NEW p \in Presses, CampaignFails(p) \/ AnswerIsLost(p) PROVE ListsHold'
  BY <1>1, <1>11 DEF CampaignFails, AnswerIsLost, KeptDraft
<1>12. ASSUME NEW p \in Presses, CampaignAnswered(p) PROVE ListsHold'
  <2>1. UNCHANGED <<consent, listed, stale>> /\ loading' \in {loading, BeginLoad}
    BY <1>12 DEF CampaignAnswered, KeptDraft
  <2> QED
    BY <1>1, <1>2, <2>1
<1>13. ASSUME NEW p \in Presses, NEW c \in Clients, SendCampaignMail(p, c)
       PROVE  ListsHold'
  BY <1>1, <1>13 DEF SendCampaignMail, audienceVars
<1> QED
  BY <1>3, <1>4, <1>5, <1>6, <1>7, <1>8, <1>9, <1>10, <1>11, <1>12, <1>13
     DEF CampaignNext

\* What actions make of the presses: the others stay, and so does, of the one that
\* acts, what it was asked for, what it sends, or both.
OthersKept(p) == \A q \in Presses \ {p} : press'[q] = press[q]
AskKept(p) == /\ press'[p].draft = press[p].draft /\ press'[p].excluded = press[p].excluded
              /\ press'[p].shown = press[p].shown /\ press'[p].changed = press[p].changed
SendKept(p) == /\ press'[p].left = press[p].left /\ press'[p].accepted = press[p].accepted
               /\ press'[p].owed = press[p].owed /\ press'[p].refused = press[p].refused
StageKept(p) == press'[p].at = press[p].at /\ press'[p].result = press[p].result

LEMMA PressTypes ==
  ASSUME CampaignTypeOK
  PROVE  press \in [Presses -> PressRecord] /\ \A p \in Presses : press[p] \in PressRecord
<1>1. press \in [Presses -> PressRecord]
  BY Zenon DEF CampaignTypeOK, PressRecord
<1> QED
  BY <1>1

LEMMA HeardEffect ==
  ASSUME CampaignTypeOK, NEW p \in Presses, NEW result \in {"failed", "sent"},
         Heard(p, result)
  PROVE  /\ OthersKept(p) /\ AskKept(p) /\ SendKept(p) /\ press'[p].at = "over"
         /\ press'[p].result = IF waiting = p THEN result ELSE press[p].result
<1>1. press \in [Presses -> PressRecord] /\ press[p] \in PressRecord
  BY PressTypes
<1>2. OthersKept(p)
  BY <1>1 DEF Heard, OthersKept
<1>3. press'[p] = [press[p] EXCEPT !.at = "over",
                     !.result = IF waiting = p THEN result ELSE press[p].result]
  BY <1>1 DEF Heard, PressRecord
<1>4. /\ press'[p].at = "over" /\ AskKept(p) /\ SendKept(p)
      /\ press'[p].result = IF waiting = p THEN result ELSE press[p].result
  BY <1>1, <1>3 DEF PressRecord, AskKept, SendKept
<1> QED
  BY <1>2, <1>4

LEMMA PressEffect ==
  ASSUME CampaignTypeOK, NEW p \in Presses, PressSend(p)
  PROVE  /\ OthersKept(p) /\ press'[p].at = "asked" /\ press'[p].result = "none"
         /\ press'[p].draft = draft /\ press'[p].excluded = excluded
         /\ press'[p].shown = Targeted /\ press'[p].changed = stale
         /\ press'[p].left = {} /\ press'[p].owed = {} /\ press'[p].accepted = 0
<1>1. press \in [Presses -> PressRecord] /\ press[p] \in PressRecord
  BY PressTypes
<1>2. OthersKept(p)
  BY <1>1 DEF PressSend, OthersKept
<1>3. press'[p] = [NoPress EXCEPT !.at = "asked", !.draft = draft, !.excluded = excluded,
                                  !.shown = Targeted, !.changed = stale]
  BY <1>1 DEF PressSend
<1> QED
  BY <1>2, <1>3 DEF NoPress

LEMMA ReadEffect ==
  ASSUME CampaignTypeOK, NEW p \in Presses, ReadAudience(p)
  PROVE  /\ OthersKept(p) /\ AskKept(p) /\ press[p].at = "asked"
         /\ press'[p].at = "sending" /\ press'[p].result = press[p].result
         /\ press'[p].left = Matching(press[p].excluded)
         /\ press'[p].owed = Matching(press[p].excluded)
         /\ press'[p].accepted = press[p].accepted /\ press'[p].refused = press[p].refused
<1>1. press \in [Presses -> PressRecord] /\ press[p] \in PressRecord
  BY PressTypes
<1>2. OthersKept(p) /\ press[p].at = "asked"
  BY <1>1 DEF ReadAudience, OthersKept
<1>3. press'[p] = [press[p] EXCEPT !.at = "sending", !.left = Matching(press[p].excluded),
                                   !.owed = Matching(press[p].excluded)]
  BY <1>1 DEF ReadAudience, PressRecord
<1> QED
  BY <1>1, <1>2, <1>3 DEF PressRecord, AskKept

LEMMA LostEffect ==
  ASSUME CampaignTypeOK, NEW p \in Presses, AnswerIsLost(p)
  PROVE  /\ OthersKept(p) /\ AskKept(p) /\ SendKept(p)
         /\ press'[p].at = press[p].at /\ press'[p].result = "failed"
<1>1. press \in [Presses -> PressRecord] /\ press[p] \in PressRecord
  BY PressTypes
<1>2. OthersKept(p) /\ press'[p] = [press[p] EXCEPT !.result = "failed"]
  BY <1>1 DEF AnswerIsLost, OthersKept
<1> QED
  BY <1>1, <1>2 DEF PressRecord, AskKept, SendKept

LEMMA OpenEffect ==
  ASSUME CampaignTypeOK, NEW p \in Presses, OpenPage
  PROVE  /\ AskKept(p) /\ SendKept(p) /\ press'[p].at = press[p].at
         /\ press'[p].result = IF p = waiting /\ press[p].result = "none" THEN "unheard"
                               ELSE press[p].result
         /\ p # waiting => press'[p] = press[p]
<1>1. press \in [Presses -> PressRecord] /\ press[p] \in PressRecord
  BY PressTypes
<1>2. press'[p] = IF p = waiting /\ press[p].result = "none"
                  THEN [press[p] EXCEPT !.result = "unheard"] ELSE press[p]
  BY <1>1 DEF OpenPage
<1> QED
  BY <1>1, <1>2 DEF PressRecord, AskKept, SendKept

LEMMA ConsentEffect ==
  ASSUME CampaignTypeOK, NEW c \in Clients, NEW to \in {"yes", "no", "gone"},
         ConsentChanges(c, to), NEW p \in Presses
  PROVE  /\ SendKept(p) /\ StageKept(p) /\ press'[p].draft = press[p].draft
         /\ press'[p].excluded = press[p].excluded /\ press'[p].shown = press[p].shown
         /\ press'[p].changed = IF press[p].at = "asked" THEN press[p].changed \cup {c}
                                ELSE press[p].changed
         /\ press[p].at # "asked" => press'[p] = press[p]
<1>1. press \in [Presses -> PressRecord] /\ press[p] \in PressRecord
  BY PressTypes
<1>2. press'[p] = IF press[p].at = "asked"
                  THEN [press[p] EXCEPT !.changed = press[p].changed \cup {c}] ELSE press[p]
  BY <1>1 DEF ConsentChanges
<1>3. CASE press[p].at = "asked"
  BY <1>1, <1>2, <1>3 DEF PressRecord, SendKept, StageKept
<1>4. CASE press[p].at # "asked"
  BY <1>2, <1>4 DEF SendKept, StageKept
<1> QED
  BY <1>3, <1>4

LEMMA SendEffect ==
  ASSUME CampaignTypeOK, NEW p \in Presses, NEW c \in Clients, SendCampaignMail(p, c)
  PROVE  /\ OthersKept(p) /\ AskKept(p) /\ StageKept(p) /\ press'[p].owed = press[p].owed
         /\ press[p].at = "sending" /\ c \in press[p].left
         /\ press'[p].left = press[p].left \ {c}
         /\ \/ /\ mailed' = mailed \cup {CampaignMail(p, c)}
               /\ press'[p].accepted = press[p].accepted + 1
               /\ press'[p].refused = press[p].refused
            \/ /\ UNCHANGED mailed
               /\ press'[p].accepted = press[p].accepted
               /\ press'[p].refused = press[p].refused \cup {c}
<1>1. press \in [Presses -> PressRecord] /\ press[p] \in PressRecord
  BY PressTypes
<1>2. /\ press[p].at = "sending" /\ c \in press[p].left
      /\ \/ /\ mailed' = mailed \cup {CampaignMail(p, c)}
            /\ press' = [press EXCEPT ![p].left = @ \ {c}, ![p].accepted = @ + 1]
         \/ /\ UNCHANGED mailed
            /\ press' = [press EXCEPT ![p].left = @ \ {c}, ![p].refused = @ \cup {c}]
  BY Zenon DEF SendCampaignMail
<1>3. CASE /\ mailed' = mailed \cup {CampaignMail(p, c)}
           /\ press' = [press EXCEPT ![p].left = @ \ {c}, ![p].accepted = @ + 1]
  <2>1. OthersKept(p)
    BY <1>1, <1>3 DEF OthersKept
  <2>2. press'[p] = [press[p] EXCEPT !.left = press[p].left \ {c},
                                     !.accepted = press[p].accepted + 1]
    BY <1>1, <1>3 DEF PressRecord
  <2>3. /\ AskKept(p) /\ StageKept(p) /\ press'[p].owed = press[p].owed
        /\ press'[p].left = press[p].left \ {c} /\ press'[p].refused = press[p].refused
        /\ press'[p].accepted = press[p].accepted + 1
    BY <1>1, <2>2 DEF PressRecord, AskKept, StageKept
  <2> QED
    BY <1>2, <1>3, <2>1, <2>3, Zenon
<1>4. CASE /\ UNCHANGED mailed
           /\ press' = [press EXCEPT ![p].left = @ \ {c}, ![p].refused = @ \cup {c}]
  <2>1. OthersKept(p)
    BY <1>1, <1>4 DEF OthersKept
  <2>2. press'[p] = [press[p] EXCEPT !.left = press[p].left \ {c},
                                     !.refused = press[p].refused \cup {c}]
    BY <1>1, <1>4 DEF PressRecord
  <2>3. /\ AskKept(p) /\ StageKept(p) /\ press'[p].owed = press[p].owed
        /\ press'[p].left = press[p].left \ {c} /\ press'[p].accepted = press[p].accepted
        /\ press'[p].refused = press[p].refused \cup {c}
    BY <1>1, <2>2 DEF PressRecord, AskKept, StageKept
  <2> QED
    BY <1>2, <1>4, <2>1, <2>3, Zenon
<1> QED
  BY <1>2, <1>3, <1>4

\* The button waits for a press under way, or for the load after one that was sent.
LEMMA ButtonStep == CampaignInv /\ [CampaignNext]_campaignVars => ButtonHolds'
<1> SUFFICES ASSUME CampaignInv, [CampaignNext]_campaignVars PROVE ButtonHolds'
  OBVIOUS
<1>t. /\ press \in [Presses -> PressRecord] /\ loading \in LoadRecord /\ listed \in Rows
      /\ draft \in 0..MaxPresses /\ drafts \in 0..MaxPresses /\ waiting \in 0..MaxPresses
      /\ MaxPresses \in Nat
  BY CampaignConstants, Zenon DEF CampaignInv, CampaignTypeOK, Rows, LoadRecord, PressRecord
<1>ty. CampaignTypeOK
  BY Zenon DEF CampaignInv
<1>h. ButtonHolds /\ PressesHold
  BY Zenon DEF CampaignInv
<1>w. waiting # 0 => waiting \in Presses
  BY <1>t DEF Presses
<1>r. waiting # 0 => /\ press[waiting].at \in {"asked", "sending"} \/ press[waiting].at = "over"
                     /\ press[waiting].result = "sent" => press[waiting].at = "over"
  BY <1>h, <1>w DEF ButtonHolds, Waits, PressesHold
<1>b. BeginLoad.at = "reading" /\ NoLoad.at = "idle"
  BY DEF BeginLoad, NoLoad
<1>1. ASSUME UNCHANGED <<waiting, listed>>, loading'.at = loading.at, draft' <= drafts',
             \A p \in Presses : Waits(p) => Waits(p)',
             \A p \in Presses : press[p].result = "sent" => press'[p].result = "sent"
      PROVE  ButtonHolds'
  BY <1>1, <1>h, <1>w DEF ButtonHolds, Loaded
<1>2. ASSUME waiting' = 0, draft' <= drafts', loading'.at = "idle" \/ listed' = Unlisted
      PROVE  ButtonHolds'
  BY <1>2 DEF ButtonHolds, Loaded
<1>3. ASSUME NEW c \in Clients, NEW to \in {"yes", "no", "gone"}, ConsentChanges(c, to)
      PROVE  ButtonHolds'
  <2>1. \A p \in Presses : press'[p].at = press[p].at /\ press'[p].result = press[p].result
    BY <1>3, <1>ty, ConsentEffect DEF StageKept
  <2>2. loading'.at = loading.at /\ UNCHANGED <<waiting, listed, draft, drafts>>
    BY <1>3, <1>t DEF ConsentChanges, LoadRecord
  <2> QED
    BY <1>1, <1>h, <2>1, <2>2 DEF Waits, ButtonHolds
<1>4. ASSUME NEW which \in {"yes", "no"}, ReadRecipients(which) PROVE ButtonHolds'
  <2>1. loading'.at = loading.at /\ UNCHANGED <<waiting, listed, draft, drafts, press>>
    BY <1>4, <1>t DEF ReadRecipients, LoadRecord
  <2> QED
    BY <1>1, <1>h, <2>1 DEF Waits, ButtonHolds
<1>5. CASE LoadEnds \/ LoadFails
  BY <1>2, <1>5, <1>b, <1>h DEF LoadEnds, LoadFails, ButtonHolds
<1>6. CASE OpenPage
  BY <1>2, <1>6, <1>t DEF OpenPage
<1>7. CASE WriteDraft
  BY <1>1, <1>7, <1>t DEF WriteDraft, audienceVars, Waits
<1>8. CASE ResetExclusions \/ UNCHANGED campaignVars
  BY <1>1, <1>8, <1>h DEF ResetExclusions, campaignVars, audienceVars, Waits, ButtonHolds
<1>9. ASSUME NEW c \in Clients, ToggleExcluded(c) PROVE ButtonHolds'
  BY <1>1, <1>9, <1>h DEF ToggleExcluded, Waits, ButtonHolds
<1>10. ASSUME NEW p \in Presses, PressSend(p) PROVE ButtonHolds'
  <2>1. Loaded
    BY <1>10 DEF PressSend, Targeted, Loaded, Unlisted
  <2>2. loading.at # "reading" /\ UNCHANGED <<loading, draft, drafts>> /\ waiting' = p
    BY <1>10, <1>h, <2>1 DEF PressSend, ButtonHolds, audienceVars
  <2>3. press'[p].at = "asked" /\ press'[p].result = "none"
    BY <1>10, <1>ty, PressEffect
  <2> QED
    BY <1>h, <2>2, <2>3 DEF ButtonHolds, Waits
<1>11. ASSUME NEW p \in Presses, ReadAudience(p) PROVE ButtonHolds'
  <2>1. /\ \A q \in Presses \ {p} : press'[q] = press[q]
        /\ press'[p].at = "sending" /\ press'[p].result = press[p].result
        /\ press[p].at = "asked"
    BY <1>11, <1>ty, ReadEffect DEF OthersKept
  <2>2. \A q \in Presses : Waits(q) => Waits(q)'
    BY <2>1 DEF Waits
  <2> QED
    BY <1>1, <1>11, <1>h, <2>1, <2>2 DEF ReadAudience, audienceVars, ButtonHolds
<1>12. ASSUME NEW p \in Presses, NEW result \in {"failed", "sent"}, waiting # p,
              UNCHANGED <<waiting, listed, loading, draft, drafts>>, Heard(p, result)
       PROVE  ButtonHolds'
  <2>1. \A q \in Presses \ {p} : press'[q] = press[q]
    BY <1>12, <1>ty, HeardEffect DEF OthersKept
  <2> QED
    BY <1>12, <1>h, <1>w, <2>1 DEF ButtonHolds, Loaded, Waits
<1>13. ASSUME NEW p \in Presses, waiting = p, press[p].at \in {"asked", "sending"},
              KeptDraft, UNCHANGED <<listed, drafts>>
       PROVE  ButtonHolds'
  <2>1. loading.at # "reading"
    BY <1>13, <1>h, <1>r, <1>t DEF ButtonHolds, Presses
  <2>2. loading'.at = "idle"
    BY <1>13, <1>t, <2>1 DEF KeptDraft, LoadRecord
  <2> QED
    BY <1>2, <1>13, <1>h, <2>2 DEF KeptDraft, ButtonHolds
<1>14. ASSUME NEW p \in Presses, CampaignFails(p) PROVE ButtonHolds'
  <2>1. CASE waiting = p
    BY <1>13, <1>14, <2>1 DEF CampaignFails
  <2>2. CASE waiting # p
    BY <1>12, <1>14, <2>2 DEF CampaignFails
  <2> QED
    BY <2>1, <2>2
<1>15. ASSUME NEW p \in Presses, AnswerIsLost(p) PROVE ButtonHolds'
  BY <1>13, <1>15 DEF AnswerIsLost
<1>16. ASSUME NEW p \in Presses, CampaignAnswered(p) PROVE ButtonHolds'
  <2> DEFINE result == IF press[p].accepted = 0 /\ press[p].owed # {} THEN "failed"
                       ELSE "sent"
  <2>1. /\ Heard(p, result) /\ UNCHANGED <<listed, drafts>> /\ press[p].at = "sending"
        /\ waiting # p => UNCHANGED <<waiting, draft, loading>>
        /\ waiting = p => IF result = "failed" THEN KeptDraft
             ELSE draft' = NextDraft /\ loading' = BeginLoad /\ waiting' = waiting
    BY <1>16 DEF CampaignAnswered
  <2>2. result \in {"failed", "sent"}
    OBVIOUS
  <2> HIDE DEF result
  <2>3. CASE waiting # p
    BY <1>12, <2>1, <2>2, <2>3
  <2>4. CASE waiting = p /\ result = "failed"
    BY <1>13, <2>1, <2>4
  <2>5. CASE waiting = p /\ result = "sent"
    <3>1. press'[p].at = "over" /\ press'[p].result = "sent"
      BY <1>ty, <2>1, <2>2, <2>5, HeardEffect
    <3> QED
      BY <1>t, <2>1, <2>5, <3>1 DEF ButtonHolds, Waits, NextDraft, Presses
  <2> QED
    BY <2>2, <2>3, <2>4, <2>5
<1>17. ASSUME NEW p \in Presses, NEW c \in Clients, SendCampaignMail(p, c)
       PROVE  ButtonHolds'
  <2>1. \A q \in Presses : press'[q].at = press[q].at /\ press'[q].result = press[q].result
    BY <1>17, <1>ty, SendEffect DEF OthersKept, StageKept
  <2> QED
    BY <1>1, <1>17, <1>h, <2>1 DEF SendCampaignMail, audienceVars, Waits, ButtonHolds
<1> QED
  BY <1>3, <1>4, <1>5, <1>6, <1>7, <1>8, <1>9, <1>10, <1>11, <1>14, <1>15, <1>16, <1>17
     DEF CampaignNext

\* A text still in the form was pressed before only by presses that failed.
LEMMA PressesStep == CampaignInv /\ [CampaignNext]_campaignVars => PressesHold'
<1> SUFFICES ASSUME CampaignInv, [CampaignNext]_campaignVars PROVE PressesHold'
  OBVIOUS
<1>t. /\ draft \in 0..MaxPresses /\ drafts \in 0..MaxPresses /\ waiting \in 0..MaxPresses
      /\ MaxPresses \in Nat
  BY CampaignConstants, Zenon DEF CampaignInv, CampaignTypeOK
<1>ty. CampaignTypeOK
  BY Zenon DEF CampaignInv
<1>h. PressesHold /\ draft <= drafts
  BY Zenon DEF CampaignInv, ButtonHolds
<1>p. Presses = 1..MaxPresses
  BY DEF Presses
<1>k. ASSUME NEW p \in Presses,
             press'[p] = press[p] \/ (press[p].at # "unused" /\ press'[p].at # "unused"
                                      /\ press'[p].draft = press[p].draft)
      PROVE  /\ (press'[p].at = "unused") = (press[p].at = "unused")
             /\ press'[p].draft = press[p].draft
             /\ press[p].at = "unused" => press'[p] = press[p]
  BY <1>k
\* An action that begins no press and writes no text.
<1>1. ASSUME drafts' = drafts, draft' = draft \/ draft' = 0,
             \A p \in Presses :
               /\ press'[p] = press[p] \/ (press[p].at # "unused" /\ press'[p].at # "unused"
                                           /\ press'[p].draft = press[p].draft)
               /\ press[p].result = "failed" => press'[p].result = "failed"
               /\ press'[p].result = "sent" => press'[p].at = "over"
               /\ press'[p].at = "asked" =>
                    press'[p].left = {} /\ press'[p].owed = {} /\ press'[p].accepted = 0
               /\ draft' # 0 /\ press[p].at # "unused" =>
                    /\ waiting = p => waiting' = p \/ press'[p].result = "failed"
                    /\ press[p].result = "none" => press'[p].result \in {"none", "failed"}
      PROVE  PressesHold'
  <2>1. ASSUME NEW p \in Presses
        PROVE  /\ press'[p].at = "unused" =>
                    press'[p] = NoPress /\ \A q \in Presses : p < q => press'[q].at = "unused"
               /\ press'[p].at # "unused" => press'[p].draft \in 1..drafts'
               /\ press'[p].result = "sent" => press'[p].at = "over"
               /\ press'[p].at = "asked" =>
                    press'[p].left = {} /\ press'[p].owed = {} /\ press'[p].accepted = 0
    <3>1. press'[p].at = "unused" =>
            press'[p] = NoPress /\ \A q \in Presses : p < q => press'[q].at = "unused"
      BY <1>1, <1>h, <1>k DEF PressesHold
    <3>2. press'[p].at # "unused" => press'[p].draft \in 1..drafts'
      BY <1>1, <1>h, <1>k DEF PressesHold
    <3> QED
      BY <1>1, <3>1, <3>2
  <2>2. ASSUME NEW p \in Presses, press'[p].at # "unused", draft' # 0,
               press'[p].draft = draft'
        PROVE  press'[p].result = "failed" \/ (p = waiting' /\ press'[p].result = "none")
    <3>1. press[p].at # "unused" /\ press[p].draft = draft /\ draft # 0
      BY <1>1, <1>k, <2>2
    <3>2. press[p].result = "failed" \/ (p = waiting /\ press[p].result = "none")
      BY <1>h, <3>1 DEF PressesHold
    <3> QED
      BY <1>1, <2>2, <3>1, <3>2
  <2>3. ASSUME NEW p \in Presses, NEW q \in Presses, p < q, press'[p].at # "unused",
               press'[q].at # "unused", press'[p].draft = press'[q].draft
        PROVE  press'[p].result = "failed"
    <3>1. /\ press[p].at # "unused" /\ press[q].at # "unused"
          /\ press[p].draft = press[q].draft
      BY <1>1, <1>k, <2>3
    <3> QED
      BY <1>1, <1>h, <2>3, <3>1 DEF PressesHold
  <2> QED
    BY <2>1, <2>2, <2>3 DEF PressesHold
<1>2. ASSUME UNCHANGED <<press, drafts>>, draft' = draft \/ draft' = 0,
             waiting' = waiting \/ waiting' = 0,
             waiting' # waiting /\ waiting \in Presses => press[waiting].result # "none"
      PROVE  PressesHold'
  <2>1. ASSUME NEW p \in Presses, press[p].at # "unused", draft # 0, press[p].draft = draft
        PROVE  press[p].result = "failed" \/ (p = waiting' /\ press[p].result = "none")
    BY <1>2, <1>h, <2>1 DEF PressesHold
  <2> QED
    BY <1>2, <1>h, <2>1 DEF PressesHold
<1>3. ASSUME NEW c \in Clients, NEW to \in {"yes", "no", "gone"}, ConsentChanges(c, to)
      PROVE  PressesHold'
  <2>1. UNCHANGED <<draft, drafts, waiting>>
    BY <1>3 DEF ConsentChanges
  <2>2. ASSUME NEW p \in Presses
        PROVE  /\ press'[p] = press[p] \/ (press[p].at # "unused" /\ press'[p].at # "unused"
                                           /\ press'[p].draft = press[p].draft)
               /\ press'[p].at = press[p].at /\ press'[p].result = press[p].result
               /\ press'[p].left = press[p].left /\ press'[p].owed = press[p].owed
               /\ press'[p].accepted = press[p].accepted
    BY <1>3, <1>ty, ConsentEffect DEF StageKept, SendKept
  <2> QED
    BY <1>1, <1>h, <2>1, <2>2 DEF PressesHold
<1>4. CASE LoadEnds \/ LoadFails
  <2>1. waiting \in Presses => press[waiting].result # "none"
    <3>1. loading.at = "reading" /\ ButtonHolds
      BY <1>4, Zenon DEF LoadEnds, LoadFails, CampaignInv
    <3> QED
      BY <1>p, <3>1 DEF ButtonHolds
  <2> QED
    BY <1>2, <1>4, <2>1 DEF LoadEnds, LoadFails
<1>5. CASE ResetExclusions \/ UNCHANGED campaignVars
  BY <1>2, <1>5 DEF ResetExclusions, campaignVars, audienceVars
<1>6. ASSUME NEW c \in Clients, ToggleExcluded(c) PROVE PressesHold'
  BY <1>2, <1>6 DEF ToggleExcluded
<1>7. ASSUME NEW which \in {"yes", "no"}, ReadRecipients(which) PROVE PressesHold'
  BY <1>2, <1>7 DEF ReadRecipients
<1>8. CASE OpenPage
  <2>1. draft' = 0 /\ drafts' = drafts
    BY <1>8 DEF OpenPage
  <2>2. ASSUME NEW p \in Presses
        PROVE  /\ press'[p] = press[p] \/ (press[p].at # "unused" /\ press'[p].at # "unused"
                                           /\ press'[p].draft = press[p].draft)
               /\ press[p].result = "failed" => press'[p].result = "failed"
               /\ press'[p].result = "sent" => press'[p].at = "over"
               /\ press'[p].at = "asked" =>
                    press'[p].left = {} /\ press'[p].owed = {} /\ press'[p].accepted = 0
    <3>1. /\ AskKept(p) /\ SendKept(p) /\ press'[p].at = press[p].at
          /\ press'[p].result = IF p = waiting /\ press[p].result = "none" THEN "unheard"
                                ELSE press[p].result
          /\ p # waiting => press'[p] = press[p]
      BY <1>8, <1>ty, OpenEffect
    <3>2. p = waiting => press[p].at # "unused"
      BY <1>p DEF CampaignInv, ButtonHolds, Waits
    <3> QED
      BY <1>h, <3>1, <3>2 DEF AskKept, SendKept, PressesHold
  <2> QED
    BY <1>1, <2>1, <2>2
<1>9. CASE WriteDraft
  <2>1. drafts' = drafts + 1 /\ draft' = drafts' /\ UNCHANGED press
    BY <1>9 DEF WriteDraft
  <2>2. \A p \in Presses : press[p].at # "unused" =>
          press[p].draft \in 1..drafts' /\ press[p].draft # draft'
    BY <1>h, <1>t, <2>1 DEF PressesHold
  <2> QED
    BY <1>h, <2>1, <2>2 DEF PressesHold
<1>10. ASSUME NEW p \in Presses, PressSend(p) PROVE PressesHold'
  <2>1. /\ draft # 0 /\ waiting = 0 /\ press[p].at = "unused" /\ waiting' = p
        /\ \A q \in 1..p - 1 : press[q].at # "unused"
        /\ UNCHANGED <<draft, drafts>>
    BY <1>10 DEF PressSend
  <2>2. /\ \A q \in Presses \ {p} : press'[q] = press[q]
        /\ press'[p].at = "asked" /\ press'[p].result = "none" /\ press'[p].draft = draft
        /\ press'[p].left = {} /\ press'[p].owed = {} /\ press'[p].accepted = 0
    BY <1>10, <1>ty, PressEffect DEF OthersKept
  <2>3. \A q \in Presses : q < p => press[q].at # "unused"
    BY <1>p, <1>t, <2>1
  <2>4. \A q \in Presses : p < q => press[q].at = "unused"
    BY <1>h, <2>1 DEF PressesHold
  <2>5. \A q \in Presses : press[q].at # "unused" /\ press[q].draft = draft =>
          press[q].result = "failed"
    BY <1>h, <1>p, <2>1 DEF PressesHold
  <2>6. ASSUME NEW q \in Presses, press'[q].at = "unused"
        PROVE  press'[q] = NoPress /\ \A r \in Presses : q < r => press'[r].at = "unused"
    <3>1. q # p /\ press[q].at = "unused" /\ p < q
      BY <1>p, <1>t, <2>2, <2>3, <2>6
    <3> QED
      BY <1>h, <1>p, <1>t, <2>2, <3>1 DEF PressesHold
  <2>7. ASSUME NEW q \in Presses
        PROVE  /\ press'[q].at # "unused" => press'[q].draft \in 1..drafts'
               /\ press'[q].result = "sent" => press'[q].at = "over"
               /\ press'[q].at = "asked" =>
                    press'[q].left = {} /\ press'[q].owed = {} /\ press'[q].accepted = 0
               /\ press'[q].at # "unused" /\ draft' # 0 /\ press'[q].draft = draft' =>
                    press'[q].result = "failed" \/ (q = waiting' /\ press'[q].result = "none")
    BY <1>h, <1>t, <2>1, <2>2, <2>5 DEF PressesHold
  <2>8. ASSUME NEW q \in Presses, NEW r \in Presses, q < r, press'[q].at # "unused",
               press'[r].at # "unused", press'[q].draft = press'[r].draft
        PROVE  press'[q].result = "failed"
    <3>1. q # p
      BY <1>p, <1>t, <2>2, <2>4, <2>8
    <3>2. CASE r = p
      BY <2>2, <2>5, <2>8, <3>1, <3>2
    <3>3. CASE r # p
      BY <1>h, <2>2, <2>8, <3>1, <3>3 DEF PressesHold
    <3> QED
      BY <3>2, <3>3
  <2> QED
    BY <2>6, <2>7, <2>8 DEF PressesHold
<1>11. ASSUME NEW p \in Presses, ReadAudience(p) PROVE PressesHold'
  <2>1. /\ \A q \in Presses \ {p} : press'[q] = press[q]
        /\ press'[p].at = "sending" /\ press'[p].result = press[p].result
        /\ press[p].at = "asked" /\ press'[p].draft = press[p].draft
    BY <1>11, <1>ty, ReadEffect DEF OthersKept, AskKept
  <2>2. UNCHANGED <<draft, drafts, waiting>>
    BY <1>11 DEF ReadAudience
  <2>3. press[p].result # "sent"
    BY <1>h, <2>1 DEF PressesHold
  <2> QED
    BY <1>1, <1>h, <2>1, <2>2, <2>3 DEF PressesHold
<1>12. ASSUME NEW p \in Presses, NEW result \in {"failed", "sent"}, Heard(p, result),
              press[p].at # "unused", drafts' = drafts, draft' \in {0, draft},
              waiting' \in {0, waiting}, waiting # p => waiting' = waiting,
              waiting = p => draft' = 0 \/ result = "failed"
       PROVE  PressesHold'
  <2>1. /\ \A q \in Presses \ {p} : press'[q] = press[q]
        /\ press'[p].at = "over" /\ press'[p].draft = press[p].draft
        /\ press'[p].result = IF waiting = p THEN result ELSE press[p].result
    BY <1>12, <1>ty, HeardEffect DEF OthersKept, AskKept
  <2>2. waiting = p => press[p].result # "failed" \/ result = "failed"
    BY <1>12, <1>p, <1>h DEF CampaignInv, ButtonHolds, Waits
  <2>3. ASSUME NEW q \in Presses, q # p
        PROVE  /\ press'[q] = press[q] /\ press'[q].result = "sent" => press'[q].at = "over"
               /\ press'[q].at = "asked" =>
                    press'[q].left = {} /\ press'[q].owed = {} /\ press'[q].accepted = 0
               /\ waiting = q => waiting' = q
    BY <1>12, <1>h, <2>1, <2>3 DEF PressesHold
  <2>4. press[p].result = "failed" => press'[p].result = "failed"
    BY <2>1, <2>2
  <2>5. /\ press'[p].at = "over"
        /\ draft' # 0 /\ waiting = p => press'[p].result = "failed"
        /\ draft' # 0 /\ press[p].result = "none" => press'[p].result \in {"none", "failed"}
    BY <1>12, <2>1
  <2> QED
    BY <1>1, <1>12, <2>1, <2>3, <2>4, <2>5
<1>13. ASSUME NEW p \in Presses, CampaignFails(p) PROVE PressesHold'
  BY <1>12, <1>13 DEF CampaignFails, KeptDraft
<1>14. ASSUME NEW p \in Presses, AnswerIsLost(p) PROVE PressesHold'
  <2>1. /\ \A q \in Presses \ {p} : press'[q] = press[q]
        /\ press'[p].at = press[p].at /\ press'[p].result = "failed"
        /\ press'[p].draft = press[p].draft
        /\ press'[p].left = press[p].left /\ press'[p].owed = press[p].owed
               /\ press'[p].accepted = press[p].accepted
    BY <1>14, <1>ty, LostEffect DEF OthersKept, AskKept, SendKept
  <2>2. waiting = p /\ UNCHANGED <<draft, drafts>> /\ press[p].at # "unused"
    BY <1>14 DEF AnswerIsLost, KeptDraft
  <2> QED
    BY <1>1, <1>h, <2>1, <2>2 DEF PressesHold
<1>15. ASSUME NEW p \in Presses, CampaignAnswered(p) PROVE PressesHold'
  <2> DEFINE result == IF press[p].accepted = 0 /\ press[p].owed # {} THEN "failed"
                       ELSE "sent"
  <2>1. /\ Heard(p, result) /\ drafts' = drafts /\ press[p].at # "unused"
        /\ waiting # p => UNCHANGED <<waiting, draft>>
        /\ waiting = p => IF result = "failed" THEN KeptDraft
             ELSE draft' = NextDraft /\ waiting' = waiting
    BY <1>15 DEF CampaignAnswered
  <2>2. result \in {"failed", "sent"}
    OBVIOUS
  <2> HIDE DEF result
  <2> QED
    BY <1>12, <2>1, <2>2 DEF KeptDraft, NextDraft
<1>16. ASSUME NEW p \in Presses, NEW c \in Clients, SendCampaignMail(p, c)
       PROVE  PressesHold'
  <2>1. /\ \A q \in Presses \ {p} : press'[q] = press[q]
        /\ press'[p].at = press[p].at /\ press'[p].result = press[p].result
        /\ press'[p].draft = press[p].draft /\ press[p].at = "sending"
    BY <1>16, <1>ty, SendEffect DEF OthersKept, AskKept, StageKept
  <2>2. UNCHANGED <<draft, drafts, waiting>>
    BY <1>16 DEF SendCampaignMail
  <2> QED
    BY <1>1, <1>h, <2>1, <2>2 DEF PressesHold
<1> QED
  BY <1>3, <1>4, <1>5, <1>6, <1>7, <1>8, <1>9, <1>10, <1>11, <1>13, <1>14, <1>15, <1>16
     DEF CampaignNext

\* The button promised those found by the server, up to customers who changed.
LEMMA AudienceStep == CampaignInv /\ [CampaignNext]_campaignVars => AudienceHolds'
<1> SUFFICES ASSUME CampaignInv, [CampaignNext]_campaignVars PROVE AudienceHolds'
  OBVIOUS
<1>ty. CampaignTypeOK
  BY Zenon DEF CampaignInv
<1>h. AudienceHolds /\ PressesHold /\ ListsHold
  BY Zenon DEF CampaignInv
<1>1. ASSUME UNCHANGED <<press, consent>> PROVE AudienceHolds'
  BY <1>1, <1>h DEF AudienceHolds, Matching
<1>2. ASSUME UNCHANGED consent,
             \A p \in Presses : AskKept(p) /\ SendKept(p) /\ press'[p].at = press[p].at,
             \A p \in Presses : press'[p].result = "sent" =>
               press[p].result = "sent" \/ press[p].at = "sending"
      PROVE  AudienceHolds'
  BY <1>2, <1>h DEF AudienceHolds, AskKept, SendKept, Matching
<1>3. ASSUME NEW c \in Clients, NEW to \in {"yes", "no", "gone"}, ConsentChanges(c, to)
      PROVE  AudienceHolds'
  <2>1. \A d \in Clients \ {c} : consent'[d] = consent[d]
    BY <1>3, <1>ty DEF ConsentChanges, CampaignTypeOK
  <2>2. ASSUME NEW p \in Presses
        PROVE  /\ SendKept(p) /\ StageKept(p) /\ press'[p].excluded = press[p].excluded
               /\ press'[p].shown = press[p].shown
               /\ press'[p].changed = IF press[p].at = "asked" THEN press[p].changed \cup {c}
                                      ELSE press[p].changed
    BY <1>3, <1>ty, ConsentEffect
  <2>3. ASSUME NEW p \in Presses, press'[p].at = "asked", NEW d \in Clients \ press'[p].changed
        PROVE  d \in press'[p].shown <=> d \in Matching(press[p].excluded)'
    <3>1. d # c /\ d \notin press[p].changed /\ press[p].at = "asked"
      BY <2>2, <2>3 DEF StageKept
    <3> QED
      BY <1>h, <2>1, <2>2, <3>1 DEF AudienceHolds, Matching
  <2>4. ASSUME NEW p \in Presses
        PROVE  /\ press'[p].at \in {"sending", "over"} =>
                    press'[p].owed \ press'[p].shown \subseteq press'[p].changed
               /\ press'[p].at = "sending" \/ press'[p].result = "sent" =>
                    press'[p].shown \ press'[p].owed \subseteq press'[p].changed
    BY <1>h, <2>2 DEF AudienceHolds, StageKept, SendKept
  <2> QED
    BY <2>3, <2>4 DEF AudienceHolds
<1>4. CASE LoadEnds \/ LoadFails \/ ResetExclusions \/ WriteDraft \/ UNCHANGED campaignVars
  BY <1>1, <1>4 DEF LoadEnds, LoadFails, ResetExclusions, WriteDraft, campaignVars
<1>5. ASSUME NEW c \in Clients, ToggleExcluded(c) PROVE AudienceHolds'
  BY <1>1, <1>5 DEF ToggleExcluded
<1>6. ASSUME NEW which \in {"yes", "no"}, ReadRecipients(which) PROVE AudienceHolds'
  BY <1>1, <1>6 DEF ReadRecipients
<1>7. CASE OpenPage
  <2>1. \A p \in Presses : /\ AskKept(p) /\ SendKept(p) /\ press'[p].at = press[p].at
                           /\ press'[p].result = "sent" => press[p].result = "sent"
    BY <1>7, <1>ty, OpenEffect
  <2> QED
    BY <1>2, <1>7, <2>1 DEF OpenPage
<1>8. ASSUME NEW p \in Presses, PressSend(p) PROVE AudienceHolds'
  <2>1. /\ \A q \in Presses \ {p} : press'[q] = press[q]
        /\ press'[p].at = "asked" /\ press'[p].result = "none"
        /\ press'[p].excluded = excluded /\ press'[p].shown = Targeted
        /\ press'[p].changed = stale
    BY <1>8, <1>ty, PressEffect DEF OthersKept
  <2>2. UNCHANGED consent /\ Loaded
    BY <1>8 DEF PressSend, Targeted, Loaded, Unlisted
  <2>3. \A c \in Clients \ stale : c \in Targeted <=> c \in Matching(excluded)
    BY <1>h, <2>2 DEF ListsHold, Targeted, Matching
  <2> QED
    BY <1>h, <2>1, <2>2, <2>3 DEF AudienceHolds, Matching
<1>9. ASSUME NEW p \in Presses, ReadAudience(p) PROVE AudienceHolds'
  <2>1. /\ \A q \in Presses \ {p} : press'[q] = press[q]
        /\ AskKept(p) /\ press[p].at = "asked" /\ press'[p].at = "sending"
        /\ press'[p].owed = Matching(press[p].excluded)
    BY <1>9, <1>ty, ReadEffect DEF OthersKept
  <2>2. /\ press[p].shown \subseteq Clients /\ Matching(press[p].excluded) \subseteq Clients
        /\ UNCHANGED consent
    BY <1>9, <1>ty, PressTypes DEF PressRecord, Matching, ReadAudience
  <2> QED
    BY <1>h, <2>1, <2>2 DEF AudienceHolds, AskKept, Matching
<1>10. ASSUME NEW p \in Presses, NEW result \in {"failed", "sent"}, Heard(p, result),
              UNCHANGED consent, press[p].at = "sending" \/ result = "failed",
              press[p].at \in {"asked", "sending"}
       PROVE  AudienceHolds'
  <2>1. /\ \A q \in Presses \ {p} : press'[q] = press[q]
        /\ AskKept(p) /\ SendKept(p) /\ press'[p].at = "over"
        /\ press'[p].result = IF waiting = p THEN result ELSE press[p].result
    BY <1>10, <1>ty, HeardEffect DEF OthersKept
  <2>2. press[p].result # "sent"
    BY <1>h, <1>10 DEF PressesHold
  <2>3. press[p].at = "asked" => press[p].owed = {}
    BY <1>h DEF PressesHold
  <2> QED
    BY <1>10, <1>h, <2>1, <2>2, <2>3 DEF AudienceHolds, AskKept, SendKept, Matching
<1>11. ASSUME NEW p \in Presses, CampaignFails(p) PROVE AudienceHolds'
  BY <1>10, <1>11 DEF CampaignFails
<1>12. ASSUME NEW p \in Presses, AnswerIsLost(p) PROVE AudienceHolds'
  <2>1. /\ \A q \in Presses \ {p} : press'[q] = press[q]
        /\ AskKept(p) /\ SendKept(p)
        /\ press'[p].at = press[p].at /\ press'[p].result = "failed"
    BY <1>12, <1>ty, LostEffect DEF OthersKept
  <2>2. UNCHANGED consent
    BY <1>12 DEF AnswerIsLost
  <2> QED
    BY <1>h, <2>1, <2>2 DEF AudienceHolds, AskKept, SendKept, Matching
<1>13. ASSUME NEW p \in Presses, CampaignAnswered(p) PROVE AudienceHolds'
  <2>1. \E result \in {"failed", "sent"} : Heard(p, result)
    BY <1>13 DEF CampaignAnswered
  <2>2. UNCHANGED consent /\ press[p].at = "sending"
    BY <1>13 DEF CampaignAnswered
  <2> QED
    BY <1>10, <2>1, <2>2
<1>14. ASSUME NEW p \in Presses, NEW c \in Clients, SendCampaignMail(p, c)
       PROVE  AudienceHolds'
  <2>1. /\ \A q \in Presses \ {p} : press'[q] = press[q]
        /\ AskKept(p) /\ StageKept(p) /\ press'[p].owed = press[p].owed
        /\ press[p].at = "sending"
    BY <1>14, <1>ty, SendEffect DEF OthersKept
  <2>2. UNCHANGED consent
    BY <1>14 DEF SendCampaignMail
  <2> QED
    BY <1>h, <2>1, <2>2 DEF AudienceHolds, AskKept, StageKept, Matching
<1> QED
  BY <1>3, <1>4, <1>5, <1>6, <1>7, <1>8, <1>9, <1>11, <1>12, <1>13, <1>14
     DEF CampaignNext

\* The mails of a press go to those found, and each of them is sent one or waits.
LEMMA MailsStep == CampaignInv /\ [CampaignNext]_campaignVars => MailsHold'
<1> SUFFICES ASSUME CampaignInv, [CampaignNext]_campaignVars PROVE MailsHold'
  OBVIOUS
<1>ty. CampaignTypeOK
  BY Zenon DEF CampaignInv
<1>h. MailsHold /\ PressesHold
  BY Zenon DEF CampaignInv
<1>m. \A m \in mailed : m.press \in Presses
  BY <1>ty DEF CampaignTypeOK
\* No mail is added, and no press has another audience or another text.
<1>1. ASSUME UNCHANGED mailed,
             \A p \in Presses :
               /\ press'[p].draft = press[p].draft /\ SendKept(p)
               /\ press[p].at \in {"sending", "over"} => press'[p].at \in {"sending", "over"}
               /\ press'[p].at = "sending" => press[p].at = "sending"
               /\ press'[p].result = "sent" => press[p].result = "sent" \/
                    (press[p].at = "sending" /\ press[p].left = {})
      PROVE  MailsHold'
  <2>1. \A p \in Presses : Reached(p)' = Reached(p)
    BY <1>1, MailsKept
  <2>2. \A m \in mailed' : /\ m.text = press'[m.press].draft
                           /\ press'[m.press].at \in {"sending", "over"}
    BY <1>1, <1>h, <1>m DEF MailsHold
  <2>3. ASSUME NEW p \in Presses
        PROVE  /\ Reached(p)' \cup press'[p].left \subseteq press'[p].owed
               /\ press'[p].at = "sending" \/ press'[p].result = "sent" =>
                    /\ press'[p].owed \subseteq Reached(p)' \cup press'[p].left \cup press'[p].refused
                    /\ Reached(p)' \cap press'[p].left = {}
                    /\ press'[p].accepted = Cardinality(Reached(p)')
               /\ press'[p].result = "sent" => press'[p].left = {}
    BY <1>1, <1>h, <2>1 DEF MailsHold, SendKept
  <2> QED
    BY <2>2, <2>3 DEF MailsHold
<1>2. ASSUME UNCHANGED <<mailed, press>> PROVE MailsHold'
  BY <1>1, <1>2 DEF SendKept
<1>3. ASSUME NEW c \in Clients, NEW to \in {"yes", "no", "gone"}, ConsentChanges(c, to)
      PROVE  MailsHold'
  <2>1. UNCHANGED mailed
    BY <1>3 DEF ConsentChanges
  <2> QED
    BY <1>1, <1>3, <1>ty, <2>1, ConsentEffect DEF StageKept
<1>4. CASE LoadEnds \/ LoadFails \/ ResetExclusions \/ WriteDraft \/ UNCHANGED campaignVars
  BY <1>2, <1>4 DEF LoadEnds, LoadFails, ResetExclusions, WriteDraft, campaignVars
<1>5. ASSUME NEW c \in Clients, ToggleExcluded(c) PROVE MailsHold'
  BY <1>2, <1>5 DEF ToggleExcluded
<1>6. ASSUME NEW which \in {"yes", "no"}, ReadRecipients(which) PROVE MailsHold'
  BY <1>2, <1>6 DEF ReadRecipients
<1>7. CASE OpenPage
  <2>1. ASSUME NEW p \in Presses
        PROVE  /\ press'[p].draft = press[p].draft /\ SendKept(p)
               /\ press'[p].at = press[p].at
               /\ press'[p].result = "sent" => press[p].result = "sent"
    BY <1>7, <1>ty, OpenEffect DEF AskKept
  <2>2. UNCHANGED mailed
    BY <1>7 DEF OpenPage
  <2> QED
    BY <1>1, <2>1, <2>2
<1>8. ASSUME NEW p \in Presses, PressSend(p) PROVE MailsHold'
  <2>1. /\ \A q \in Presses \ {p} : press'[q] = press[q]
        /\ press'[p].at = "asked" /\ press'[p].result = "none"
        /\ press'[p].left = {} /\ press'[p].owed = {}
    BY <1>8, <1>ty, PressEffect DEF OthersKept
  <2>2. UNCHANGED mailed /\ press[p].at = "unused"
    BY <1>8 DEF PressSend
  <2>3. \A q \in Presses : Reached(q)' = Reached(q)
    BY <2>2, MailsKept
  <2>4. Reached(p) = {}
    BY <1>h, <2>2 DEF MailsHold, Reached
  <2>5. \A m \in mailed' : /\ m.text = press'[m.press].draft
                           /\ press'[m.press].at \in {"sending", "over"}
    BY <1>h, <1>m, <2>1, <2>2 DEF MailsHold
  <2> QED
    BY <1>h, <2>1, <2>3, <2>4, <2>5 DEF MailsHold
<1>9. ASSUME NEW p \in Presses, ReadAudience(p) PROVE MailsHold'
  <2>1. /\ \A q \in Presses \ {p} : press'[q] = press[q]
        /\ press'[p].draft = press[p].draft /\ press[p].at = "asked"
        /\ press'[p].at = "sending" /\ press'[p].result = press[p].result
        /\ press'[p].left = press'[p].owed /\ press'[p].accepted = press[p].accepted
    BY <1>9, <1>ty, ReadEffect DEF OthersKept, AskKept
  <2>2. UNCHANGED mailed
    BY <1>9 DEF ReadAudience
  <2>3. \A q \in Presses : Reached(q)' = Reached(q)
    BY <2>2, MailsKept
  <2>4. Reached(p) = {} /\ press[p].result # "sent" /\ press[p].accepted = 0
    BY <1>h, <2>1 DEF MailsHold, PressesHold
  <2>5. Cardinality(Reached(p)) = 0
    BY <2>4, FS_EmptySet
  <2>6. \A m \in mailed' : /\ m.text = press'[m.press].draft
                           /\ press'[m.press].at \in {"sending", "over"}
    BY <1>h, <1>m, <2>1, <2>2 DEF MailsHold
  <2>7. \A q \in Presses \ {p} :
          /\ Reached(q)' \cup press'[q].left \subseteq press'[q].owed
          /\ press'[q].at = "sending" \/ press'[q].result = "sent" =>
               /\ press'[q].owed \subseteq Reached(q)' \cup press'[q].left \cup press'[q].refused
               /\ Reached(q)' \cap press'[q].left = {}
               /\ press'[q].accepted = Cardinality(Reached(q)')
          /\ press'[q].result = "sent" => press'[q].left = {}
    BY <1>h, <2>1, <2>3 DEF MailsHold
  <2> QED
    BY <2>1, <2>3, <2>4, <2>5, <2>6, <2>7 DEF MailsHold
\* A request ends: no mail is added, or one to a customer who waited for it.
<1>10. ASSUME NEW p \in Presses, NEW result \in {"failed", "sent"}, Heard(p, result),
              press[p].at \in {"asked", "sending"},
              \/ UNCHANGED mailed
              \/ \E c \in press[p].left : mailed' = mailed \cup {CampaignMail(p, c)},
              result = "sent" => /\ press[p].at = "sending" /\ press[p].left = {}
       PROVE  MailsHold'
  <2>1. /\ \A q \in Presses \ {p} : press'[q] = press[q]
        /\ press'[p].draft = press[p].draft /\ SendKept(p) /\ press'[p].at = "over"
        /\ press'[p].result = IF waiting = p THEN result ELSE press[p].result
    BY <1>10, <1>ty, HeardEffect DEF OthersKept, AskKept
  <2>2. press[p].result # "sent"
    BY <1>h, <1>10 DEF PressesHold
  <2>3. CASE UNCHANGED mailed
    BY <1>1, <1>10, <2>1, <2>2, <2>3 DEF SendKept
  <2>4. ASSUME NEW c \in press[p].left, mailed' = mailed \cup {CampaignMail(p, c)}
        PROVE  MailsHold'
    <3>1. c \in Clients /\ c \in press[p].owed /\ press'[p].result # "sent"
      BY <1>10, <1>h, <1>ty, <2>1, <2>2, <2>4, PressTypes DEF PressRecord, MailsHold
    <3>2. /\ Reached(p)' = Reached(p) \cup {c}
          /\ \A q \in Presses \ {p} : Reached(q)' = Reached(q)
      BY <2>4, <3>1, MailAdded
    <3>3. \A m \in mailed' : /\ m.text = press'[m.press].draft
                             /\ press'[m.press].at \in {"sending", "over"}
      BY <1>h, <1>m, <2>1, <2>4 DEF MailsHold, CampaignMail, Text
    <3>4. \A q \in Presses \ {p} :
          /\ Reached(q)' \cup press'[q].left \subseteq press'[q].owed
          /\ press'[q].at = "sending" \/ press'[q].result = "sent" =>
               /\ press'[q].owed \subseteq Reached(q)' \cup press'[q].left \cup press'[q].refused
               /\ Reached(q)' \cap press'[q].left = {}
               /\ press'[q].accepted = Cardinality(Reached(q)')
          /\ press'[q].result = "sent" => press'[q].left = {}
      BY <1>h, <2>1, <3>2 DEF MailsHold
    <3>5. Reached(p)' \cup press'[p].left \subseteq press'[p].owed
      BY <1>h, <2>1, <3>1, <3>2 DEF MailsHold, SendKept
    <3> QED
      BY <2>1, <3>1, <3>3, <3>4, <3>5 DEF MailsHold
  <2> QED
    BY <1>10, <2>3, <2>4
<1>11. ASSUME NEW p \in Presses, CampaignFails(p) PROVE MailsHold'
  <2>1. /\ \/ UNCHANGED mailed
           \/ \E c \in press[p].left : mailed' = mailed \cup {CampaignMail(p, c)}
        /\ Heard(p, "failed") /\ press[p].at \in {"asked", "sending"}
    BY <1>11, Zenon DEF CampaignFails
  <2> QED
    BY <1>10, <2>1
<1>12. ASSUME NEW p \in Presses, AnswerIsLost(p) PROVE MailsHold'
  <2>1. /\ \A q \in Presses \ {p} : press'[q] = press[q]
        /\ press'[p].draft = press[p].draft /\ SendKept(p)
        /\ press'[p].at = press[p].at /\ press'[p].result = "failed"
    BY <1>12, <1>ty, LostEffect DEF OthersKept, AskKept
  <2>2. UNCHANGED mailed
    BY <1>12 DEF AnswerIsLost
  <2> QED
    BY <1>1, <2>1, <2>2 DEF SendKept
<1>13. ASSUME NEW p \in Presses, CampaignAnswered(p) PROVE MailsHold'
  <2>1. \E result \in {"failed", "sent"} : Heard(p, result)
    BY <1>13 DEF CampaignAnswered
  <2>2. UNCHANGED mailed /\ press[p].at = "sending" /\ press[p].left = {}
    BY <1>13 DEF CampaignAnswered
  <2> QED
    BY <1>10, <2>1, <2>2
<1>14. ASSUME NEW p \in Presses, NEW c \in Clients, SendCampaignMail(p, c)
       PROVE  MailsHold'
  <2>1. /\ \A q \in Presses \ {p} : press'[q] = press[q]
        /\ press'[p].draft = press[p].draft /\ press'[p].owed = press[p].owed
        /\ press'[p].at = "sending" /\ press'[p].result = press[p].result
        /\ press[p].at = "sending" /\ c \in press[p].left
        /\ press'[p].left = press[p].left \ {c}
    BY <1>14, <1>ty, SendEffect DEF OthersKept, AskKept, StageKept
  <2>2. /\ press[p].result # "sent" /\ c \in press[p].owed /\ c \notin Reached(p)
        /\ press[p].owed \subseteq Reached(p) \cup press[p].left \cup press[p].refused
        /\ Reached(p) \cup press[p].left \subseteq press[p].owed
        /\ Reached(p) \cap press[p].left = {}
        /\ press[p].accepted = Cardinality(Reached(p))
    BY <1>h, <2>1 DEF MailsHold, PressesHold
  <2>3. CASE /\ mailed' = mailed \cup {CampaignMail(p, c)}
             /\ press'[p].accepted = press[p].accepted + 1
             /\ press'[p].refused = press[p].refused
    <3>1. /\ Reached(p)' = Reached(p) \cup {c}
          /\ \A q \in Presses \ {p} : Reached(q)' = Reached(q)
      BY <2>3, MailAdded
    <3>2. press'[p].accepted = Cardinality(Reached(p)')
      BY CampaignConstants, <1>ty, <2>2, <2>3, <3>1, OneMore, ReachedTypes
    <3>3. \A m \in mailed' : /\ m.text = press'[m.press].draft
                             /\ press'[m.press].at \in {"sending", "over"}
      BY <1>h, <1>m, <2>1, <2>3 DEF MailsHold, CampaignMail, Text
    <3>4. \A q \in Presses \ {p} :
          /\ Reached(q)' \cup press'[q].left \subseteq press'[q].owed
          /\ press'[q].at = "sending" \/ press'[q].result = "sent" =>
               /\ press'[q].owed \subseteq Reached(q)' \cup press'[q].left \cup press'[q].refused
               /\ Reached(q)' \cap press'[q].left = {}
               /\ press'[q].accepted = Cardinality(Reached(q)')
          /\ press'[q].result = "sent" => press'[q].left = {}
      BY <1>h, <2>1, <3>1 DEF MailsHold
    <3>5. /\ Reached(p)' \cup press'[p].left \subseteq press'[p].owed
          /\ press'[p].owed \subseteq Reached(p)' \cup press'[p].left \cup press'[p].refused
          /\ Reached(p)' \cap press'[p].left = {}
      BY <2>1, <2>2, <2>3, <3>1
    <3> QED
      BY <2>1, <2>2, <3>2, <3>3, <3>4, <3>5 DEF MailsHold
  <2>4. CASE /\ UNCHANGED mailed
             /\ press'[p].accepted = press[p].accepted
             /\ press'[p].refused = press[p].refused \cup {c}
    <3>1. \A q \in Presses : Reached(q)' = Reached(q)
      BY <2>4, MailsKept
    <3>2. \A m \in mailed' : /\ m.text = press'[m.press].draft
                             /\ press'[m.press].at \in {"sending", "over"}
      BY <1>h, <1>m, <2>1, <2>4 DEF MailsHold
    <3>3. \A q \in Presses \ {p} :
          /\ Reached(q)' \cup press'[q].left \subseteq press'[q].owed
          /\ press'[q].at = "sending" \/ press'[q].result = "sent" =>
               /\ press'[q].owed \subseteq Reached(q)' \cup press'[q].left \cup press'[q].refused
               /\ Reached(q)' \cap press'[q].left = {}
               /\ press'[q].accepted = Cardinality(Reached(q)')
          /\ press'[q].result = "sent" => press'[q].left = {}
      BY <1>h, <2>1, <3>1 DEF MailsHold
    <3>4. /\ Reached(p)' \cup press'[p].left \subseteq press'[p].owed
          /\ press'[p].owed \subseteq Reached(p)' \cup press'[p].left \cup press'[p].refused
          /\ Reached(p)' \cap press'[p].left = {}
          /\ press'[p].accepted = Cardinality(Reached(p)')
      BY <2>1, <2>2, <2>4, <3>1
    <3> QED
      BY <2>1, <2>2, <3>2, <3>3, <3>4 DEF MailsHold
  <2> QED
    BY <1>14, <1>ty, <2>3, <2>4, SendEffect
<1> QED
  BY <1>3, <1>4, <1>5, <1>6, <1>7, <1>8, <1>9, <1>11, <1>12, <1>13, <1>14
     DEF CampaignNext

LEMMA CampaignStep == CampaignInv /\ [CampaignNext]_campaignVars => CampaignInv'
  BY CampaignTypes, ListsStep, ButtonStep, PressesStep, AudienceStep, MailsStep, Zenon
     DEF CampaignInv

LEMMA CampaignStart == CampaignInit => CampaignInv
<1> SUFFICES ASSUME CampaignInit PROVE CampaignInv
  OBVIOUS
<1> USE CampaignConstants DEF CampaignInit
<1>1. Cardinality(Clients) \in Nat
  BY FS_CardinalityType
<1>2. CampaignTypeOK
  <2>1. NoPress \in PressRecord /\ BeginLoad \in LoadRecord /\ Unlisted \in Rows
    BY <1>1 DEF NoPress, PressRecord, BeginLoad, LoadRecord, Unlisted, Rows
  <2>2. press \in [Presses -> PressRecord]
    BY <2>1
  <2>3. {draft, drafts, waiting} \subseteq 0..MaxPresses /\ consents \in 0..MaxConsents
        /\ campaignFaults \in 0..MaxCampaignFaults
    OBVIOUS
  <2>4. consent \in [Clients -> {"unknown", "yes", "no", "gone"}]
    OBVIOUS
  <2> QED
    BY <2>1, <2>2, <2>3, <2>4 DEF CampaignTypeOK, PressRecord, LoadRecord, Rows
<1>3. \A p \in Presses : /\ press[p] = NoPress /\ press[p].at = "unused"
                         /\ press[p].result = "none" /\ press[p].left = {}
                         /\ press[p].owed = {} /\ Reached(p) = {}
  BY DEF NoPress, Reached
<1>4. ListsHold /\ ButtonHolds
  BY DEF ListsHold, ButtonHolds, Loaded, BeginLoad, Unlisted
<1>5. PressesHold /\ AudienceHolds /\ MailsHold
  BY <1>3 DEF PressesHold, AudienceHolds, MailsHold
<1> QED
  BY <1>2, <1>4, <1>5 DEF CampaignInv

LEMMA CampaignHolds == CampaignSpec => []CampaignInv
  BY CampaignStart, CampaignStep, PTL DEF CampaignSpec

\* Types of the rows, the page and its presses (AdminMarketing.jsx), for any number
\* of customers, presses, changes and failures.
THEOREM CampaignTyped == CampaignSpec => []CampaignTypeOK
<1>1. CampaignInv => CampaignTypeOK
  BY Zenon DEF CampaignInv
<1> QED
  BY <1>1, CampaignHolds, PTL

\* A campaign is mailed to those the button promised, up to customers who changed
\* since the page read its lists (sendBulkEmail of AdminMarketing.jsx and of
\* admin-marketing.service.ts).
THEOREM AudienceReached == CampaignSpec => []ReachesTheAudience
<1>1. CampaignInv => ReachesTheAudience
  <2> SUFFICES ASSUME CampaignInv, NEW p \in Presses, press[p].at # "unused"
               PROVE  /\ Reached(p) \ press[p].shown \subseteq press[p].changed
                      /\ press[p].result = "sent" => press[p].shown \ Reached(p)
                           \subseteq press[p].changed \cup press[p].refused
    BY DEF ReachesTheAudience
  <2>1. AudienceHolds /\ MailsHold /\ PressesHold /\ press[p] \in PressRecord
    BY PressTypes DEF CampaignInv
  <2>2. CASE press[p].at = "asked"
    <3>1. Reached(p) = {} /\ press[p].result # "sent"
      BY <2>1, <2>2 DEF PressesHold, MailsHold
    <3> QED
      BY <3>1
  <2>3. CASE press[p].at \in {"sending", "over"}
    BY <2>1, <2>3 DEF AudienceHolds, MailsHold
  <2> QED
    BY <2>1, <2>2, <2>3 DEF PressRecord
<1> QED
  BY <1>1, CampaignHolds, PTL

\* Nobody gets one text twice unless the first press ended with an error, and what
\* is reported as sent was sent (sendBulkEmail, sendMarketingBulkEmail).
THEOREM TextsOnce == CampaignSpec => []RepeatedAfterErrors
<1>1. CampaignInv => RepeatedAfterErrors
  <2> SUFFICES ASSUME CampaignInv PROVE RepeatedAfterErrors
    OBVIOUS
  <2>1. MailsHold /\ PressesHold /\ \A m \in mailed : m.press \in Presses
    BY DEF CampaignInv, CampaignTypeOK
  <2>2. ASSUME NEW m \in mailed, NEW n \in mailed, m.text = n.text, m.press < n.press
        PROVE  press[m.press].result = "failed"
    BY <2>1, <2>2 DEF MailsHold, PressesHold
  <2>3. ASSUME NEW p \in Presses, press[p].result = "sent"
        PROVE  press[p].accepted = Cardinality(Reached(p))
    BY <2>1, <2>3 DEF MailsHold
  <2> QED
    BY <2>2, <2>3 DEF RepeatedAfterErrors
<1> QED
  BY <1>1, CampaignHolds, PTL

-----------------------------------------------------------------------------
(***************************************************************************)
(* Codes.  Besides the types: the newest read of the list, while it is     *)
(* under way and once it is shown, was begun with the filter of the page,  *)
(* unless the timer runs or it was begun for a form or a campaign.         *)
(***************************************************************************)
NewestHolds ==
  /\ \A r \in ListReads : listRead[r].last =>
       /\ listRead[r].at # "idle"
       /\ ~due /\ listRead[r].by = "timer" => listRead[r].filter = filter
  /\ (\A r \in ListReads : ~listRead[r].last) /\ ~missed /\ ~due /\ origin.by = "timer"
       => origin.filter = filter

SelectionHolds == ~missed /\ origin.by # "form" => selected \in codes \cup {NoCode}

CodesInv == CodesTypeOK /\ NewestHolds /\ SelectionHolds
ListRecord == [at : {"idle", "sent", "read"}, filter : Filters, rows : SUBSET Codes,
               by : ReadersOfCodes, last : BOOLEAN]
FormRecord == [at : {"closed", "open", "saving", "written", "listing"},
               code : Codes \cup {NoCode}, saved : Codes \cup {NoCode},
               attach : BOOLEAN, filter : Filters]
SendingRecord == [at : {"idle", "asked", "sent", "listing"}, code : Codes \cup {NoCode},
                  filter : Filters]
OriginRecord == [filter : Filters, by : ReadersOfCodes]

\* What a read makes of the reads, when it begins, is answered and ends.
LEMMA BeginEffect ==
  ASSUME CodesTypeOK, NEW r \in ListReads, NEW by \in ReadersOfCodes,
         NEW known \in Filters, BeginRead(r, by, known)
  PROVE  /\ listRead' \in [ListReads -> ListRecord] /\ listRead[r].at = "idle"
         /\ listRead'[r].at = "sent" /\ listRead'[r].filter = known
         /\ listRead'[r].by = by /\ listRead'[r].last
         /\ \A s \in ListReads \ {r} : ~listRead'[s].last
<1>1. listRead \in [ListReads -> ListRecord]
  BY Zenon DEF CodesTypeOK, ListRecord
<1>2. listRead[r].at = "idle" /\ listRead' = [s \in ListReads |-> IF s = r
         THEN [at |-> "sent", filter |-> known, rows |-> {}, by |-> by, last |-> TRUE]
         ELSE [listRead[s] EXCEPT !.last = FALSE]]
  BY Zenon DEF BeginRead, IdleRead
<1>3. [at |-> "sent", filter |-> known, rows |-> {}, by |-> by, last |-> TRUE] \in ListRecord
  BY DEF ListRecord
<1>4. ASSUME NEW s \in ListReads
      PROVE  [listRead[s] EXCEPT !.last = FALSE] \in ListRecord
             /\ ~[listRead[s] EXCEPT !.last = FALSE].last
  <2>1. listRead[s] \in ListRecord
    BY <1>1
  <2> QED
    BY <2>1 DEF ListRecord
<1>5. listRead' \in [ListReads -> ListRecord]
  BY <1>2, <1>3, <1>4
<1>6. listRead'[r] = [at |-> "sent", filter |-> known, rows |-> {}, by |-> by, last |-> TRUE]
  BY <1>2
<1>7. listRead'[r].at = "sent" /\ listRead'[r].filter = known /\ listRead'[r].by = by
  BY <1>6
<1>8. listRead'[r].last = TRUE
  BY <1>6
<1>9. \A s \in ListReads \ {r} : ~listRead'[s].last
  BY <1>2, <1>4
<1> QED
  BY <1>2, <1>5, <1>7, <1>8, <1>9, Zenon

LEMMA ReadsEffect ==
  ASSUME CodesTypeOK, NEW r \in ListReads, ReadCodes(r)
  PROVE  /\ listRead' \in [ListReads -> ListRecord] /\ listRead'[r].at = "read"
         /\ listRead'[r].filter = listRead[r].filter /\ listRead'[r].by = listRead[r].by
         /\ listRead'[r].last = listRead[r].last
         /\ \A s \in ListReads \ {r} : listRead'[s] = listRead[s]
<1>1. listRead \in [ListReads -> ListRecord] /\ listRead[r] \in ListRecord
  <2>1. listRead \in [ListReads -> ListRecord]
    BY Zenon DEF CodesTypeOK, ListRecord
  <2> QED
    BY <2>1
<1> DEFINE rows == {k \in Codes : Passes(k, listRead[r].filter)}
<1>2. listRead' = [listRead EXCEPT ![r] = [listRead[r] EXCEPT !.at = "read", !.rows = rows]]
  BY <1>1 DEF ReadCodes, ListRecord
<1>3. rows \in SUBSET Codes
  OBVIOUS
<1> HIDE DEF rows
<1>4. [listRead[r] EXCEPT !.at = "read", !.rows = rows] \in ListRecord
  BY <1>1, <1>3 DEF ListRecord
<1>5. /\ listRead' \in [ListReads -> ListRecord]
      /\ listRead'[r] = [listRead[r] EXCEPT !.at = "read", !.rows = rows]
      /\ \A s \in ListReads \ {r} : listRead'[s] = listRead[s]
  BY <1>1, <1>2, <1>4
<1>6. /\ listRead'[r].at = "read" /\ listRead'[r].filter = listRead[r].filter
      /\ listRead'[r].by = listRead[r].by /\ listRead'[r].last = listRead[r].last
  BY <1>1, <1>5 DEF ListRecord
<1> QED
  BY <1>5, <1>6

LEMMA AfterEffect ==
  ASSUME CodesTypeOK, NEW r \in ListReads, NEW kept \in Codes \cup {NoCode},
         AfterRead(r, kept)
  PROVE  /\ listRead' \in [ListReads -> ListRecord] /\ ~listRead'[r].last
         /\ \A s \in ListReads \ {r} : listRead'[s] = listRead[s]
         /\ selected' \in Codes \cup {NoCode} /\ form' \in FormRecord
         /\ sending' \in SendingRecord
         /\ listRead[r].by # "form" => selected' = kept
<1>1. /\ listRead \in [ListReads -> ListRecord] /\ form \in FormRecord
      /\ sending \in SendingRecord
  BY Zenon DEF CodesTypeOK, ListRecord, FormRecord, SendingRecord
<1>2. /\ NoRead \in ListRecord /\ NoForm \in FormRecord /\ NoSending \in SendingRecord
  BY CodeConstants
     DEF NoRead, ListRecord, NoForm, FormRecord, NoSending, SendingRecord, ReadersOfCodes
<1>3. NoRead.last = FALSE
  BY DEF NoRead
<1>4. /\ listRead' \in [ListReads -> ListRecord] /\ listRead'[r] = NoRead
      /\ \A s \in ListReads \ {r} : listRead'[s] = listRead[s]
  BY <1>1, <1>2 DEF AfterRead
<1>5. form' \in FormRecord /\ sending' \in SendingRecord
  BY <1>1, <1>2, Zenon DEF AfterRead
<1>6. form.saved \in Codes \cup {NoCode}
  BY <1>1 DEF FormRecord
<1>7. selected' \in {form.saved, kept} /\ (listRead[r].by # "form" => selected' = kept)
  <2>1. selected' = IF listRead[r].by = "form" /\ form.attach THEN form.saved ELSE kept
    BY Zenon DEF AfterRead
  <2> QED
    BY <2>1, Zenon
<1> QED
  BY <1>3, <1>4, <1>5, <1>6, <1>7, Zenon

\* One step keeps the types of the rows, the page and its reads, and what its newest
\* read was begun with (AdminMarketing.jsx).
LEMMA CodesStep == CodesInv /\ [CodesNext]_codeVars => CodesInv'
<1> SUFFICES ASSUME CodesInv, [CodesNext]_codeVars PROVE CodesInv'
  OBVIOUS
<1>ty. CodesTypeOK /\ NewestHolds /\ SelectionHolds
  BY Zenon DEF CodesInv
<1>c. /\ NoCode \notin Codes /\ "all" \in Filters
      /\ MaxFilters \in Nat /\ MaxCodeWrites \in Nat /\ MaxCodeFaults \in Nat
  BY CodeConstants
<1>t. /\ code \in [Codes -> Statuses] /\ writes \in 0..MaxCodeWrites
      /\ filter \in Filters /\ filters \in 0..MaxFilters /\ due \in BOOLEAN
      /\ listRead \in [ListReads -> ListRecord] /\ codes \subseteq Codes
      /\ selected \in Codes \cup {NoCode} /\ form \in FormRecord /\ sending \in SendingRecord
      /\ origin \in OriginRecord /\ missed \in BOOLEAN /\ codeFaults \in 0..MaxCodeFaults
  BY <1>ty, Zenon DEF CodesTypeOK, ListRecord, FormRecord, SendingRecord, OriginRecord
<1>g. ASSUME /\ code' \in [Codes -> Statuses] /\ writes' \in 0..MaxCodeWrites
             /\ filter' \in Filters /\ filters' \in 0..MaxFilters /\ due' \in BOOLEAN
             /\ listRead' \in [ListReads -> ListRecord] /\ codes' \subseteq Codes
             /\ selected' \in Codes \cup {NoCode} /\ form' \in FormRecord
             /\ sending' \in SendingRecord /\ origin' \in OriginRecord
             /\ missed' \in BOOLEAN /\ codeFaults' \in 0..MaxCodeFaults
      PROVE  CodesTypeOK'
  BY <1>g, Zenon DEF CodesTypeOK, ListRecord, FormRecord, SendingRecord, OriginRecord
<1>f. CodeFault => codeFaults' \in 0..MaxCodeFaults
  BY <1>c, <1>t DEF CodeFault
<1>w. CodeWrite => writes' \in 0..MaxCodeWrites
  BY <1>c, <1>t DEF CodeWrite
<1>n. NoForm \in FormRecord /\ NoSending \in SendingRecord
  BY <1>c DEF NoForm, FormRecord, NoSending, SendingRecord
<1>r. /\ \A r \in ListReads : listRead[r] \in ListRecord
      /\ form.filter \in Filters /\ sending.filter \in Filters
  BY <1>t DEF FormRecord, SendingRecord
\* The page, the list and the selection stay.
<1>1. ASSUME UNCHANGED <<pageVars, selected, codeFaults>>, code' \in [Codes -> Statuses],
             writes' \in 0..MaxCodeWrites, form' \in FormRecord, sending' \in SendingRecord
      PROVE  CodesInv'
  <2>1. /\ filter' = filter /\ filters' = filters /\ due' = due /\ listRead' = listRead
        /\ codes' = codes /\ origin' = origin /\ missed' = missed /\ selected' = selected
        /\ codeFaults' = codeFaults
    BY <1>1 DEF pageVars
  <2>2. CodesTypeOK'
    BY <1>1, <1>g, <1>t, <2>1, Zenon
  <2>3. NewestHolds' /\ SelectionHolds'
    BY <1>ty, <2>1, Zenon DEF NewestHolds, SelectionHolds
  <2> QED
    BY <2>2, <2>3, Zenon DEF CodesInv
<1>1f. ASSUME UNCHANGED <<pageVars, selected, code, writes>>, CodeFault,
              form' \in FormRecord, sending' \in SendingRecord
       PROVE  CodesInv'
  <2>1. /\ filter' = filter /\ filters' = filters /\ due' = due /\ listRead' = listRead
        /\ codes' = codes /\ origin' = origin /\ missed' = missed /\ selected' = selected
        /\ code' = code /\ writes' = writes
    BY <1>1f DEF pageVars
  <2>2. CodesTypeOK'
    BY <1>1f, <1>f, <1>g, <1>t, <2>1, Zenon
  <2>3. NewestHolds' /\ SelectionHolds'
    BY <1>ty, <2>1, Zenon DEF NewestHolds, SelectionHolds
  <2> QED
    BY <2>2, <2>3, Zenon DEF CodesInv
<1>2. ASSUME NEW to \in Filters, ChangeFilter(to) PROVE CodesInv'
  <2>1. /\ filter' \in Filters /\ filters' \in 0..MaxFilters
        /\ UNCHANGED <<code, writes, listRead, codes, selected, form, sending, origin,
                       missed, codeFaults>>
    BY <1>2, <1>c, <1>t DEF ChangeFilter
  <2>2. due' = TRUE
    BY <1>2, Zenon DEF ChangeFilter, Rearmed
  <2>3. CodesTypeOK'
    BY <1>g, <1>t, <2>1, <2>2
  <2>4. NewestHolds' /\ SelectionHolds'
    BY <1>ty, <2>1, <2>2 DEF NewestHolds, SelectionHolds
  <2> QED
    BY <2>3, <2>4, Zenon DEF CodesInv
\* A read begins.
<1>3. ASSUME NEW r \in ListReads, NEW by \in ReadersOfCodes, NEW known \in Filters,
             BeginRead(r, by, known), UNCHANGED <<code, filter, filters, codes, origin, missed,
                                                  codeFaults>>,
             writes' = writes, due' \in {due, FALSE}, form' \in FormRecord,
             sending' \in SendingRecord, selected' \in {selected, NoCode},
             by = "timer" => known = filter
      PROVE  CodesInv'
  <2>1. /\ listRead' \in [ListReads -> ListRecord] /\ listRead'[r].at = "sent"
        /\ listRead'[r].filter = known /\ listRead'[r].by = by /\ listRead'[r].last
        /\ \A s \in ListReads \ {r} : ~listRead'[s].last
    BY <1>3, <1>ty, BeginEffect
  <2>2. CodesTypeOK'
    BY <1>3, <1>g, <1>t, <2>1
  <2>3. NewestHolds'
    BY <1>3, <2>1 DEF NewestHolds
  <2>4. SelectionHolds'
    BY <1>3, <1>ty DEF SelectionHolds
  <2> QED
    BY <2>2, <2>3, <2>4, Zenon DEF CodesInv
<1>by. {"timer", "form", "campaign"} = ReadersOfCodes
  BY DEF ReadersOfCodes
<1>4. ASSUME NEW r \in ListReads, TimerFires(r) PROVE CodesInv'
  <2>1. BeginRead(r, "timer", filter) /\ due' = FALSE
    BY <1>4, Zenon DEF TimerFires
  <2>2. UNCHANGED <<code, writes, filter, filters, codes, selected, form, sending, origin,
                    missed, codeFaults>>
    BY <1>4, Zenon DEF TimerFires
  <2> QED
    BY <1>3, <1>by, <1>t, <2>1, <2>2
<1>5. ASSUME NEW r \in ListReads, SaveAnswered(r) PROVE CodesInv'
  <2>1. BeginRead(r, "form", form.filter) /\ form' = [form EXCEPT !.at = "listing"]
    BY <1>5, Zenon DEF SaveAnswered
  <2>2. UNCHANGED <<code, writes, filter, filters, due, codes, origin, missed, selected,
                    sending, codeFaults>>
    BY <1>5, Zenon DEF SaveAnswered
  <2>3. form' \in FormRecord
    BY <1>t, <2>1 DEF FormRecord
  <2> QED
    BY <1>3, <1>by, <1>r, <1>t, <2>1, <2>2, <2>3
<1>6. ASSUME NEW r \in ListReads, CampaignReported(r) PROVE CodesInv'
  <2>1. /\ BeginRead(r, "campaign", sending.filter) /\ selected' = NoCode
        /\ sending' = [sending EXCEPT !.at = "listing"]
    BY <1>6, Zenon DEF CampaignReported
  <2>2. UNCHANGED <<code, writes, filter, filters, due, codes, origin, missed, form,
                    codeFaults>>
    BY <1>6, Zenon DEF CampaignReported
  <2>3. sending' \in SendingRecord
    BY <1>t, <2>1 DEF SendingRecord
  <2> QED
    BY <1>3, <1>by, <1>r, <1>t, <2>1, <2>2, <2>3
<1>7. ASSUME NEW r \in ListReads, ReadCodes(r) PROVE CodesInv'
  <2>1. /\ listRead' \in [ListReads -> ListRecord] /\ listRead'[r].at = "read"
        /\ listRead'[r].filter = listRead[r].filter /\ listRead'[r].by = listRead[r].by
        /\ listRead'[r].last = listRead[r].last
        /\ \A s \in ListReads \ {r} : listRead'[s] = listRead[s]
    BY <1>7, <1>ty, ReadsEffect
  <2>2. UNCHANGED <<code, writes, filter, filters, due, codes, selected, form, sending,
                    origin, missed, codeFaults>>
    BY <1>7, Zenon DEF ReadCodes
  <2>3. CodesTypeOK'
    BY <1>g, <1>t, <2>1, <2>2
  <2>4. NewestHolds'
    BY <1>ty, <2>1, <2>2 DEF NewestHolds
  <2>5. SelectionHolds'
    BY <1>ty, <2>2 DEF SelectionHolds
  <2> QED
    BY <2>3, <2>4, <2>5, Zenon DEF CodesInv
<1>8. ASSUME NEW r \in ListReads, ShowCodes(r) PROVE CodesInv'
  <2> DEFINE rows == listRead[r].rows
  <2>1. /\ AfterRead(r, Kept(rows)) /\ codes' = rows
        /\ origin' = [filter |-> listRead[r].filter, by |-> listRead[r].by]
        /\ missed' = ~listRead[r].last
        /\ UNCHANGED <<code, writes, filter, filters, due, codeFaults>>
    BY <1>8, Zenon DEF ShowCodes
  <2>2. /\ rows \subseteq Codes /\ listRead[r].filter \in Filters
        /\ listRead[r].by \in ReadersOfCodes
    BY <1>r DEF ListRecord
  <2>3. Kept(rows) \in rows \cup {NoCode} /\ Kept(rows) \in Codes \cup {NoCode}
    BY <2>2 DEF Kept
  <2>4. /\ listRead' \in [ListReads -> ListRecord] /\ ~listRead'[r].last
        /\ \A s \in ListReads \ {r} : listRead'[s] = listRead[s]
        /\ selected' \in Codes \cup {NoCode} /\ form' \in FormRecord
        /\ sending' \in SendingRecord /\ (listRead[r].by # "form" => selected' = Kept(rows))
    BY <1>ty, <2>1, <2>3, AfterEffect
  <2>5. origin' \in OriginRecord /\ missed' \in BOOLEAN /\ origin'.by = listRead[r].by
        /\ origin'.filter = listRead[r].filter
    BY <2>1, <2>2 DEF OriginRecord
  <2>6. CodesTypeOK'
    BY <1>g, <1>t, <2>1, <2>2, <2>4, <2>5
  <2>7. ~missed' => listRead[r].last
    BY <2>1, Zenon
  <2>8. NewestHolds'
    BY <1>ty, <2>1, <2>4, <2>5, <2>7 DEF NewestHolds
  <2>9. SelectionHolds'
    BY <2>1, <2>3, <2>4, <2>5 DEF SelectionHolds
  <2> QED
    BY <2>6, <2>8, <2>9, Zenon DEF CodesInv
<1>9. ASSUME NEW r \in ListReads, ReadFails(r) PROVE CodesInv'
  <2>1. AfterRead(r, selected) /\ CodeFault
    BY <1>9, Zenon DEF ReadFails
  <2>2. UNCHANGED <<code, writes, filter, filters, due, codes, origin>>
    BY <1>9, Zenon DEF ReadFails
  <2>3. missed' = TRUE
    BY <1>9, Zenon DEF ReadFails
  <2>4. /\ listRead' \in [ListReads -> ListRecord] /\ ~listRead'[r].last
        /\ \A s \in ListReads \ {r} : listRead'[s] = listRead[s]
        /\ selected' \in Codes \cup {NoCode} /\ form' \in FormRecord
        /\ sending' \in SendingRecord
    BY <1>t, <1>ty, <2>1, AfterEffect
  <2>5. CodesTypeOK'
    BY <1>f, <1>g, <1>t, <2>1, <2>2, <2>3, <2>4
  <2>6. NewestHolds' /\ SelectionHolds'
    BY <1>ty, <2>2, <2>3, <2>4 DEF NewestHolds, SelectionHolds
  <2> QED
    BY <2>5, <2>6, Zenon DEF CodesInv
<1>10. ASSUME NEW k \in Codes \cup {NoCode}, SelectCode(k) PROVE CodesInv'
  <2>1. /\ filter' = filter /\ filters' = filters /\ due' = due /\ listRead' = listRead
        /\ codes' = codes /\ origin' = origin /\ missed' = missed /\ code' = code
        /\ writes' = writes /\ form' = form /\ sending' = sending
        /\ codeFaults' = codeFaults
    BY <1>10 DEF SelectCode, pageVars
  <2>2. selected' \in codes \cup {NoCode} /\ selected' \in Codes \cup {NoCode}
    BY <1>10 DEF SelectCode
  <2>3. CodesTypeOK'
    BY <1>g, <1>t, <2>1, <2>2, Zenon
  <2>4. NewestHolds' /\ SelectionHolds'
    BY <1>ty, <2>1, <2>2, Zenon DEF NewestHolds, SelectionHolds
  <2> QED
    BY <2>3, <2>4, Zenon DEF CodesInv
<1>11. ASSUME NEW k \in Codes \cup {NoCode}, NEW attach \in BOOLEAN, OpenForm(k, attach)
       PROVE  CodesInv'
  <2>1. [NoForm EXCEPT !.at = "open", !.code = k, !.attach = attach] \in FormRecord
    BY <1>n DEF FormRecord
  <2> QED
    BY <1>1, <1>11, <1>t, <2>1 DEF OpenForm
<1>12. CASE CloseForm
  BY <1>1, <1>12, <1>n, <1>t DEF CloseForm
<1>13. CASE SubmitForm
  <2>1. [form EXCEPT !.at = "saving", !.filter = filter] \in FormRecord
    BY <1>t DEF FormRecord
  <2> QED
    BY <1>1, <1>13, <1>t, <2>1 DEF SubmitForm
<1>14. ASSUME NEW k \in Codes, NEW status \in Statuses, WriteCode(k, status) PROVE CodesInv'
  <2>1. [form EXCEPT !.at = "written", !.saved = k] \in FormRecord
    BY <1>t DEF FormRecord
  <2>2. [code EXCEPT ![k] = status] \in [Codes -> Statuses]
    BY <1>t
  <2> QED
    BY <1>1, <1>14, <1>t, <1>w, <2>1, <2>2 DEF WriteCode
<1>15. ASSUME NEW k \in Codes, NEW status \in Statuses, WriteElsewhere(k, status)
       PROVE  CodesInv'
  <2>1. [code EXCEPT ![k] = status] \in [Codes -> Statuses]
    BY <1>t
  <2> QED
    BY <1>1, <1>15, <1>t, <1>w, <2>1 DEF WriteElsewhere
<1>16. CASE SaveFails
  <2>1. [form EXCEPT !.at = "open", !.saved = NoCode] \in FormRecord
    BY <1>t DEF FormRecord
  <2> QED
    BY <1>1f, <1>16, <1>t, <2>1 DEF SaveFails
<1>17. CASE PressCampaign
  <2>1. [at |-> "asked", code |-> selected, filter |-> filter] \in SendingRecord
    BY <1>t DEF SendingRecord
  <2> QED
    BY <1>1, <1>17, <1>t, <1>w, <2>1 DEF PressCampaign
<1>18. CASE CampaignJoins
  <2>1. [sending EXCEPT !.at = "sent"] \in SendingRecord
    BY <1>t DEF SendingRecord
  <2> QED
    BY <1>1, <1>18, <1>t, <2>1 DEF CampaignJoins
<1>19. CASE CampaignRefused
  <2>1. UNCHANGED <<code, writes, pageVars, selected, form>> /\ sending' = NoSending
    BY <1>19, Zenon DEF CampaignRefused
  <2>2. UNCHANGED codeFaults \/ CodeFault
    BY <1>19, Zenon DEF CampaignRefused
  <2>3. CASE UNCHANGED codeFaults
    BY <1>1, <1>n, <1>t, <2>1, <2>3
  <2>4. CASE CodeFault
    BY <1>1f, <1>n, <1>t, <2>1, <2>4
  <2> QED
    BY <2>2, <2>3, <2>4
<1>20. CASE UNCHANGED codeVars
  BY <1>1, <1>20, <1>t DEF codeVars
<1> QED
  BY <1>2, <1>4, <1>5, <1>6, <1>7, <1>8, <1>9, <1>10, <1>11, <1>12, <1>13, <1>14, <1>15,
     <1>16, <1>17, <1>18, <1>19, <1>20, Zenon DEF CodesNext

LEMMA CodesStart == CodesInit => CodesInv
<1> SUFFICES ASSUME CodesInit PROVE CodesInv
  OBVIOUS
<1> USE CodeConstants DEF CodesInit
<1>1. /\ NoRead \in ListRecord /\ NoForm \in FormRecord /\ NoSending \in SendingRecord
      /\ ~NoRead.last /\ origin \in OriginRecord
  BY DEF NoRead, ListRecord, NoForm, FormRecord, NoSending, SendingRecord, OriginRecord,
         ReadersOfCodes
<1>2. due = TRUE /\ missed = FALSE
  BY Zenon
<1>3. /\ code \in [Codes -> Statuses] /\ writes \in 0..MaxCodeWrites
      /\ filter \in Filters /\ filters \in 0..MaxFilters /\ codes \subseteq Codes
      /\ listRead \in [ListReads -> ListRecord] /\ selected \in Codes \cup {NoCode}
      /\ form \in FormRecord /\ sending \in SendingRecord /\ codeFaults \in 0..MaxCodeFaults
  BY <1>1 DEF Statuses
<1>4. CodesTypeOK
  BY <1>1, <1>2, <1>3, Zenon DEF CodesTypeOK, ListRecord, FormRecord, SendingRecord, OriginRecord
<1>5. NewestHolds /\ SelectionHolds
  BY <1>1, <1>2 DEF NewestHolds, SelectionHolds
<1> QED
  BY <1>4, <1>5, Zenon DEF CodesInv

LEMMA CodesHold == CodesSpec => []CodesInv
  BY CodesStart, CodesStep, PTL DEF CodesSpec

\* Types of the codes, their list, its reads and the form (AdminMarketing.jsx), for
\* any codes, filters and reads in flight.
THEOREM CodesTyped == CodesSpec => []CodesTypeOK
<1>1. CodesInv => CodesTypeOK
  BY Zenon DEF CodesInv
<1> QED
  BY <1>1, CodesHold, PTL

\* When nothing is under way the list was read with the filter that is shown, with
\* the exceptions that the page makes (loadPromotions of AdminMarketing.jsx).
THEOREM PageCurrent == CodesSpec => []PageIsCurrent
<1>1. CodesInv => PageIsCurrent
  <2> SUFFICES ASSUME CodesInv, ~due, ~missed, \A r \in ListReads : listRead[r].at = "idle"
               PROVE  /\ origin.by = "timer" => origin.filter = filter
                      /\ origin.by # "form" => selected \in codes \cup {NoCode}
    BY Zenon DEF PageIsCurrent
  <2>1. NewestHolds /\ SelectionHolds
    BY Zenon DEF CodesInv
  <2> QED
    BY <2>1, Zenon DEF NewestHolds, SelectionHolds
<1> QED
  BY <1>1, CodesHold, PTL

-----------------------------------------------------------------------------
(***************************************************************************)
(* Mails of an order or a reservation.                                     *)
(***************************************************************************)
Change == [at : {"idle", "read", "customer", "staff", "sending", "over", "failed"},
           status : RowStatus \cup {"none"}, prep : PrepTimes \cup {0},
           base : Nat, about : Nat, due : Seq(EventMail)]

Written == {c \in Changes : change[c].about # 0}

\* A request and the write it made.
ChangeHolds(c) ==
  /\ change[c].at = "idle" => change[c] = NoChange
  /\ change[c].at = "read" => change[c].about = 0 /\ change[c].base \in 1..Len(row)
  /\ change[c].at \in {"customer", "staff", "sending", "over"} => change[c].about # 0
  /\ change[c].at \notin {"staff", "sending"} => change[c].due = <<>>
  /\ change[c].about # 0 => row[change[c].about].status = change[c].status
  /\ change[c].prep # 0 => change[c].status = "accepted"
  /\ change[c].at # "idle" => row # <<>> /\ change[c].status \in
                                 IF c = 1 THEN {First(kind)} ELSE Asked(kind)

RowHolds ==
  /\ Len(row) = Cardinality(Written)
  /\ row # <<>> => /\ change[1].about = 1 /\ row[1].prep = 0
                   /\ \E c \in Changes : change[c].about = Len(row)
  /\ row = <<>> => sent = <<>>
  /\ \A v \in 2..Len(row) : row[v].status \in Asked(kind)
  /\ \A c, d \in Changes : c # d /\ change[c].about # 0 => change[c].about # change[d].about

\* A mail of change c that waits or was sent.
InOrder(m, r) ==
  /\ m.about <= m.tells /\ m.tells <= r
  /\ m.to = "restaurant" => m.about = 1
  /\ m.text.hour = "change" => m.about < m.tells

DueTo(c, to) == \E i \in 1..Len(change[c].due) : change[c].due[i].to = to

DueHolds(c) ==
  /\ \A i \in 1..Len(change[c].due) :
       LET m == change[c].due[i] IN
       /\ InOrder(m, Len(row)) /\ m.about = change[c].about
       /\ ~Mailed(m.to, m.about)
       /\ \A j \in 1..i - 1 : change[c].due[j].to # m.to
  /\ change[c].at \in {"customer", "staff"} =>
       \A to \in {"customer", "restaurant"} : ~Mailed(to, change[c].about)
  /\ change[c].at = "staff" => ~DueTo(c, "restaurant")
  /\ change[c].at \in {"staff", "sending", "over"} /\ CustomerDue(change[c]) =>
       DueTo(c, "customer") \/ Mailed("customer", change[c].about)
  /\ change[c].at \in {"sending", "over"} /\ StaffDue(change[c]) =>
       DueTo(c, "restaurant") \/ Mailed("restaurant", change[c].about)

SentHolds == \A i \in 1..Len(sent) :
  /\ InOrder(sent[i], Len(row))
  /\ \A j \in 1..i - 1 : sent[j].to = sent[i].to => sent[j].about # sent[i].about

OrderMailsInv ==
  /\ OrderMailsTypeOK /\ change \in [Changes -> Change]
  /\ RowHolds /\ SentHolds /\ PrepKept
  /\ \A c \in Changes : ChangeHolds(c) /\ DueHolds(c)
RowRecord == [status : RowStatus, prep : PrepTimes \cup {0}, base : 0..NumChanges]

\* The changes but c stay.
OtherChanges(c) == \A d \in Changes \ {c} : change'[d] = change[d]

LEMMA OrderMailTypes ==
  ASSUME OrderMailsInv
  PROVE  /\ row \in Seq(RowRecord) /\ Len(row) \in Nat /\ Len(row) <= NumChanges
         /\ sent \in Seq(EventMail) /\ change \in [Changes -> Change]
         /\ \A c \in Changes :
              /\ change[c] \in Change /\ change[c].due \in Seq(EventMail)
              /\ change[c].base \in 0..Len(row) /\ change[c].about \in 0..Len(row)
              /\ change[c].status \in RowStatus \cup {"none"}
              /\ change[c].prep \in PrepTimes \cup {0}
         /\ NumChanges \in Nat \ {0} /\ Changes = 1..NumChanges
<1>1. row \in Seq(RowRecord) /\ sent \in Seq(EventMail) /\ change \in [Changes -> Change]
      /\ Len(row) <= NumChanges
  BY Zenon DEF OrderMailsInv, OrderMailsTypeOK, RowRecord
<1>2. ASSUME NEW c \in Changes
      PROVE  /\ change[c] \in Change /\ change[c].due \in Seq(EventMail)
             /\ change[c].base \in 0..Len(row) /\ change[c].about \in 0..Len(row)
             /\ change[c].status \in RowStatus \cup {"none"}
             /\ change[c].prep \in PrepTimes \cup {0}
  <2>1. change[c] \in Change
    BY <1>1
  <2>2. /\ {change[c].base, change[c].about} \subseteq 0..Len(row)
        /\ change[c].due \in Seq(EventMail) /\ change[c].status \in RowStatus \cup {"none"}
        /\ change[c].prep \in PrepTimes \cup {0}
    BY Zenon DEF OrderMailsInv, OrderMailsTypeOK
  <2> QED
    BY <2>1, <2>2, Zenon
<1>3. Len(row) \in Nat /\ NumChanges \in Nat \ {0} /\ Changes = 1..NumChanges
  BY <1>1, OrderMailConstants DEF Changes
<1> QED
  BY <1>1, <1>2, <1>3

\* What a row and a mail may say.
LEMMA TextTypes ==
  ASSUME OrderMailsInv, NEW c \in Changes, change[c].at \in {"customer", "staff"},
         NEW to \in {"customer", "restaurant"}
  PROVE  /\ Mail(change[c], to, CustomerMail(change[c])) \in EventMail
         /\ Mail(change[c], to, RestaurantMail) \in EventMail
         /\ row # <<>> /\ change[c].about \in 1..Len(row)
<1>1. /\ row \in Seq(RowRecord) /\ Len(row) \in Nat /\ Len(row) <= NumChanges
      /\ change[c].about \in 0..Len(row) /\ Changes = 1..NumChanges
      /\ NumChanges \in Nat \ {0} /\ kind \in {"order", "reservation"}
  BY OrderMailTypes DEF OrderMailsInv, OrderMailsTypeOK
<1>2. /\ row # <<>> /\ change[c].about # 0 /\ RowHolds /\ ChangeHolds(1)
  <2>1. ChangeHolds(c) /\ ChangeHolds(1) /\ RowHolds
    BY <1>1 DEF OrderMailsInv
  <2> QED
    BY <2>1 DEF ChangeHolds
<1>3. Len(row) \in Changes /\ change[c].about \in Changes
  BY <1>1, <1>2
<1>4. /\ row[Len(row)] \in RowRecord
      /\ row[Len(row)].status \in {First(kind)} \cup Asked(kind)
  <2>1. Len(row) # 1 => row[Len(row)].status \in Asked(kind)
    BY <1>1, <1>2 DEF RowHolds
  <2>2. Len(row) = 1 => row[Len(row)].status = First(kind)
    <3>1. change[1].about = 1 /\ change[1].at # "idle"
      BY <1>2 DEF RowHolds, ChangeHolds, NoChange
    <3> QED
      BY <1>2, <3>1 DEF ChangeHolds
  <2> QED
    BY <1>1, <1>2, <2>1, <2>2
<1>5. row[Len(row)].status \in RowStatus /\ row[Len(row)].prep \in PrepTimes \cup {0}
  BY <1>4 DEF RowRecord
<1>6. kind = "order" => OrderMail(change[c]) \in EventText
  <2>1. kind = "order" => OrderText(row[Len(row)].status) \in RowStatus
    BY <1>4 DEF OrderText, First, Asked, RowStatus
  <2> QED
    BY <1>5, <2>1 DEF OrderMail, Told, EventText
<1>7. kind = "reservation" => ReservationMail(change[c]) \in EventText
  <2>1. kind = "reservation" => ReservationText(row[Len(row)].status) \in RowStatus
    BY <1>4 DEF ReservationText, First, Asked, RowStatus
  <2> QED
    BY <2>1 DEF ReservationMail, Told, EventText
<1>8. CustomerMail(change[c]) \in EventText /\ RestaurantMail \in EventText
  <2>1. NewOrderMail \in EventText /\ NewReservationMail \in EventText
    BY DEF NewOrderMail, NewReservationMail, EventText, RowStatus
  <2> QED
    BY <1>1, <1>6, <1>7, <2>1, Zenon DEF CustomerMail, RestaurantMail
<1> QED
  BY <1>1, <1>2, <1>3, <1>8 DEF Mail, Told, EventMail

\* The hour of an earlier change is told only where a later one came first.
LEMMA HourOfChange ==
  ASSUME OrderMailsInv, NEW c \in Changes, change[c].at = "customer",
         CustomerDue(change[c]), CustomerMail(change[c]).hour = "change"
  PROVE  change[c].about < Len(row)
<1>1. /\ change[c].about \in 1..Len(row) /\ Len(row) \in Nat /\ row \in Seq(RowRecord)
      /\ Changes = 1..NumChanges /\ NumChanges \in Nat \ {0}
  BY OrderMailTypes, TextTypes
<1>2. kind = "order"
  BY DEF CustomerMail, ReservationMail
<1>3. ~HasHour(row[Len(row)]) /\ row[change[c].about].prep # 0
  BY <1>2 DEF CustomerMail, OrderMail, Told
<1>4. RowHolds /\ ChangeHolds(c)
  BY DEF OrderMailsInv
<1>5. row[change[c].about].status = change[c].status /\ change[c].status # "completed"
  BY <1>1, <1>2, <1>4 DEF ChangeHolds, CustomerDue
<1>6. change[c].about # 1
  BY <1>1, <1>3, <1>4 DEF RowHolds
<1>7. change[c].status \in {"accepted", "ready"}
  <2>1. row[change[c].about].status \in Asked(kind)
    BY <1>1, <1>4, <1>6 DEF RowHolds
  <2> QED
    BY <1>2, <1>5, <2>1 DEF Asked
<1>8. HasHour(row[change[c].about])
  BY <1>3, <1>5, <1>7 DEF HasHour
<1> QED
  BY <1>1, <1>3, <1>8

\* What is due to a change that stays, when no mail about it is sent.
LEMMA DueStays ==
  ASSUME NEW c \in Changes, DueHolds(c), change'[c] = change[c],
         UNCHANGED <<kind, reachable>>, row \in Seq(RowRecord), row' \in Seq(RowRecord),
         Len(row) <= Len(row'), change[c].due \in Seq(EventMail),
         \A to \in {"customer", "restaurant"} :
           Mailed(to, change[c].about)' <=> Mailed(to, change[c].about)
  PROVE  DueHolds(c)'
<1>1. \A i \in 1..Len(change[c].due) : /\ change[c].due[i] \in EventMail
                                       /\ change[c].due[i].tells \in Nat
                                       /\ change[c].due[i].to \in {"customer", "restaurant"}
  <2>1. \A m \in EventMail : m.tells \in Nat /\ m.to \in {"customer", "restaurant"}
    BY OrderMailConstants DEF EventMail, Changes
  <2> QED
    BY <2>1
<1>2. ASSUME NEW i \in 1..Len(change[c].due)
      PROVE  LET m == change[c].due[i] IN
             /\ InOrder(m, Len(row')) /\ m.about = change[c].about
             /\ ~Mailed(m.to, m.about)'
             /\ \A j \in 1..i - 1 : change[c].due[j].to # m.to
  <2> DEFINE m == change[c].due[i]
  <2>1. /\ InOrder(m, Len(row)) /\ m.about = change[c].about /\ ~Mailed(m.to, m.about)
        /\ \A j \in 1..i - 1 : change[c].due[j].to # m.to
    BY DEF DueHolds
  <2>2. m.tells \in Nat /\ m.to \in {"customer", "restaurant"}
    BY <1>1
  <2>3. InOrder(m, Len(row'))
    BY <2>1, <2>2 DEF InOrder
  <2>4. ~Mailed(m.to, m.about)'
    <3>1. PICK to \in {"customer", "restaurant"} : to = m.to
      BY <2>2
    <3>2. Mailed(to, change[c].about)' <=> Mailed(to, change[c].about)
      OBVIOUS
    <3> QED
      BY <2>1, <3>1, <3>2 DEF Mailed
  <2> QED
    BY <2>1, <2>3, <2>4
<1> QED
  BY <1>2 DEF DueHolds, DueTo, CustomerDue, StaffDue

\* Types of the next state, put together.
LEMMA NextTypes ==
  ASSUME OrderMailsInv, kind' \in {"order", "reservation"},
         reachable' \subseteq {"customer", "restaurant"}, row' \in Seq(RowRecord),
         Len(row') <= NumChanges, change' \in [Changes -> Change],
         \A c \in Changes : change'[c].base <= Len(row') /\ change'[c].about <= Len(row'),
         sent' \in Seq(EventMail), mailFaults' \in 0..MaxMailFaults
  PROVE  OrderMailsTypeOK' /\ change' \in [Changes -> Change]
<1>1. ASSUME NEW c \in Changes
      PROVE  /\ change'[c].at \in {"idle", "read", "customer", "staff", "sending", "over",
                                   "failed"}
             /\ change'[c].status \in RowStatus \cup {"none"}
             /\ change'[c].prep \in PrepTimes \cup {0}
             /\ {change'[c].base, change'[c].about} \subseteq 0..Len(row')
             /\ change'[c].due \in Seq(EventMail)
  <2>1. change'[c] \in Change /\ Len(row') \in Nat
    OBVIOUS
  <2>2. change'[c].base \in Nat /\ change'[c].about \in Nat
    BY <2>1 DEF Change
  <2>3. {change'[c].base, change'[c].about} \subseteq 0..Len(row')
    BY <2>1, <2>2
  <2> QED
    BY <2>1, <2>3 DEF Change
<1> QED
  BY <1>1, Zenon DEF OrderMailsTypeOK, RowRecord

\* The row and what its writes say of each other stay.
LEMMA RowsStay ==
  ASSUME OrderMailsInv, UNCHANGED <<kind, row>>, row = <<>> => sent' = <<>>,
         \A c \in Changes : change'[c].about = change[c].about
  PROVE  RowHolds' /\ PrepKept'
<1>1. RowHolds /\ PrepKept /\ 1 \in Changes
  BY OrderMailTypes DEF OrderMailsInv
<1>2. Written' = Written
  BY DEF Written
<1>3. row' = row /\ kind' = kind
  OBVIOUS
<1>4. PrepKept'
  BY <1>1, <1>3 DEF PrepKept
<1>5. Len(row') = Cardinality(Written')
  BY <1>1, <1>2, <1>3, Zenon DEF RowHolds
<1> QED
  BY <1>1, <1>3, <1>4, <1>5 DEF RowHolds

\* Mails that were sent stay as they are.
LEMMA SentStays ==
  ASSUME OrderMailsInv, UNCHANGED sent, row' \in Seq(RowRecord), Len(row) <= Len(row')
  PROVE  SentHolds' /\ \A to, about : Mailed(to, about)' <=> Mailed(to, about)
<1>1. SentHolds /\ sent \in Seq(EventMail) /\ Len(row) \in Nat
  BY OrderMailTypes DEF OrderMailsInv
<1>2. ASSUME NEW i \in 1..Len(sent) PROVE InOrder(sent[i], Len(row'))
  <2>1. InOrder(sent[i], Len(row)) /\ sent[i] \in EventMail
    BY <1>1 DEF SentHolds
  <2>2. sent[i].tells \in Nat
    BY <2>1, OrderMailConstants DEF EventMail, Changes
  <2> QED
    BY <1>1, <2>1, <2>2 DEF InOrder
<1> QED
  BY <1>1, <1>2 DEF SentHolds, Mailed

\* A step that sends no mail leaves the mails of a change that it leaves alone.
LEMMA OthersDue ==
  ASSUME OrderMailsInv, NEW d \in Changes, change'[d] = change[d],
         UNCHANGED <<kind, reachable, sent>>,
         row' \in Seq(RowRecord), Len(row) <= Len(row')
  PROVE  DueHolds(d)'
<1>1. row \in Seq(RowRecord) /\ change[d].due \in Seq(EventMail)
  BY OrderMailTypes
<1>2. DueHolds(d)
  BY DEF OrderMailsInv
<1>3. \A to, about : Mailed(to, about)' <=> Mailed(to, about)
  BY SentStays
<1>4. Mailed("customer", change[d].about)' <=> Mailed("customer", change[d].about)
  BY <1>3, Zenon
<1>5. Mailed("restaurant", change[d].about)' <=> Mailed("restaurant", change[d].about)
  BY <1>3, Zenon
<1>6. \A to \in {"customer", "restaurant"} :
        Mailed(to, change[d].about)' <=> Mailed(to, change[d].about)
  BY <1>4, <1>5
<1> QED
  BY <1>1, <1>2, <1>6, DueStays

\* A change goes on; the row and the mails that were sent stay.
LEMMA ChangeGoesOn ==
  ASSUME OrderMailsInv, NEW c \in Changes, UNCHANGED <<kind, reachable, row, sent>>,
         NEW rec \in Change, change' = [change EXCEPT ![c] = rec],
         mailFaults' \in 0..MaxMailFaults,
         rec.about = change[c].about, rec.base <= Len(row),
         ChangeHolds(c)', DueHolds(c)'
  PROVE  OrderMailsInv'
<1>1. /\ change \in [Changes -> Change] /\ row \in Seq(RowRecord) /\ Len(row) <= NumChanges
      /\ sent \in Seq(EventMail)
      /\ \A d \in Changes : /\ change[d].base \in 0..Len(row)
                            /\ change[d].about \in 0..Len(row)
                            /\ change[d].due \in Seq(EventMail)
  BY OrderMailTypes
<1>2. /\ change' \in [Changes -> Change] /\ change'[c] = rec
      /\ \A d \in Changes \ {c} : change'[d] = change[d]
  BY <1>1
<1>3. \A d \in Changes : /\ change'[d].base <= Len(row') /\ change'[d].about <= Len(row')
                         /\ change'[d].about = change[d].about
  BY <1>1, <1>2
<1>4. OrderMailsTypeOK'
  <2>1. /\ kind' \in {"order", "reservation"} /\ reachable' \subseteq {"customer", "restaurant"}
        /\ row' \in Seq(RowRecord) /\ Len(row') <= NumChanges /\ sent' \in Seq(EventMail)
    BY <1>1 DEF OrderMailsInv, OrderMailsTypeOK
  <2> QED
    BY <1>2, <1>3, <2>1, NextTypes
<1>5. RowHolds' /\ PrepKept'
  <2>1. row = <<>> => sent' = <<>>
    BY DEF OrderMailsInv, RowHolds
  <2> QED
    BY <1>3, <2>1, RowsStay
<1>6. SentHolds' /\ \A to, about : Mailed(to, about)' <=> Mailed(to, about)
  BY <1>1, SentStays
<1>7. ASSUME NEW d \in Changes, d # c PROVE ChangeHolds(d)' /\ DueHolds(d)'
  <2>1. ChangeHolds(d) /\ DueHolds(d) /\ change'[d] = change[d]
    BY <1>2, <1>7 DEF OrderMailsInv
  <2>2. ChangeHolds(d)'
    BY <2>1 DEF ChangeHolds
  <2>3. DueHolds(d)'
    BY <1>1, <1>6, <2>1, DueStays
  <2> QED
    BY <2>2, <2>3
<1>8. \A d \in Changes : ChangeHolds(d)' /\ DueHolds(d)'
  BY <1>7
<1> QED
  BY <1>2, <1>4, <1>5, <1>6, <1>8, Zenon DEF OrderMailsInv

LEMMA MailFaultTypes ==
  ASSUME OrderMailsInv
  PROVE  mailFaults \in 0..MaxMailFaults /\ (MailFault => mailFaults' \in 0..MaxMailFaults)
  BY OrderMailConstants DEF OrderMailsInv, OrderMailsTypeOK, MailFault

LEMMA ReadRowStep ==
  ASSUME OrderMailsInv, NEW c \in Changes, NEW status \in Asked(kind),
         NEW prep \in PrepTimes \cup {0}, ReadRow(c, status, prep)
  PROVE  OrderMailsInv'
<1> DEFINE rec == [NoChange EXCEPT !.at = "read", !.status = status, !.prep = prep,
                                   !.base = Len(row)]
<1>1. /\ change' = [change EXCEPT ![c] = rec] /\ c # 1 /\ change[c].at = "idle"
      /\ row # <<>> /\ (prep # 0 => status = "accepted")
      /\ UNCHANGED <<kind, reachable, row, sent, mailFaults>>
  BY Zenon DEF ReadRow
<1>2. /\ row \in Seq(RowRecord) /\ Len(row) \in Nat /\ Len(row) <= NumChanges
      /\ change \in [Changes -> Change]
  BY OrderMailTypes
<1>3. Asked(kind) \subseteq RowStatus
  BY DEF Asked, RowStatus
<1>4. /\ rec.about = 0 /\ rec.base = Len(row) /\ rec.due = <<>>
      /\ rec.at = "read" /\ rec.status = status /\ rec.prep = prep
  BY DEF NoChange
<1>4c. rec \in Change
  <2>1. <<>> \in Seq(EventMail) /\ status \in RowStatus /\ 0 \in Nat
    BY <1>3
  <2>2. NoChange \in Change
    BY <2>1, SMT DEF NoChange, Change
  <2>3. ASSUME NEW r \in Change, NEW s \in RowStatus, NEW n \in PrepTimes \cup {0}, NEW b \in Nat
        PROVE  [r EXCEPT !.at = "read", !.status = s, !.prep = n, !.base = b] \in Change
    <3> DEFINE r1 == [r EXCEPT !.at = "read", !.status = s]
    <3>1. r1 \in Change
      BY DEF Change
    <3>2. [r1 EXCEPT !.prep = n] \in Change
      <4> HIDE DEF r1
      <4> QED
        BY <3>1 DEF Change
    <3> DEFINE r2 == [r1 EXCEPT !.prep = n]
    <3>3. [r2 EXCEPT !.base = b] \in Change
      <4> HIDE DEF r2
      <4> QED
        BY <3>2 DEF Change, r2
    <3> QED
      BY <3>3
  <2> QED
    BY <1>2, <2>1, <2>2, <2>3
<1> HIDE DEF rec
<1>5. change[c].about = 0
  BY <1>1 DEF OrderMailsInv, ChangeHolds, NoChange
<1>6. change'[c] = rec /\ Len(row) # 0
  BY <1>1, <1>2
<1>7. ChangeHolds(c)'
  BY <1>1, <1>2, <1>4, <1>6 DEF ChangeHolds
<1>8. DueHolds(c)'
  BY <1>4, <1>6 DEF DueHolds
<1> QED
  <2>1. rec.about = change[c].about /\ rec.base <= Len(row)
    BY <1>2, <1>4, <1>5
  <2>2. mailFaults' \in 0..MaxMailFaults
    BY <1>1, MailFaultTypes
  <2> QED
    BY <1>1, <1>4c, <1>7, <1>8, <2>1, <2>2, ChangeGoesOn

LEMMA ChangeEndsStep ==
  ASSUME OrderMailsInv, NEW c \in Changes, ChangeEnds(c)
  PROVE  OrderMailsInv'
<1> DEFINE rec == [change[c] EXCEPT !.at = "over"]
<1>1. /\ change[c] \in Change /\ change \in [Changes -> Change]
      /\ change[c].base \in 0..Len(row) /\ Len(row) \in Nat
  BY OrderMailTypes
<1>2. /\ change' = [change EXCEPT ![c] = rec] /\ change[c].at = "sending"
      /\ change[c].due = <<>> /\ UNCHANGED <<kind, reachable, row, sent, mailFaults>>
  BY <1>1 DEF ChangeEnds
<1>3. /\ rec \in Change /\ rec.at = "over" /\ rec.about = change[c].about
      /\ rec.base = change[c].base /\ rec.due = <<>> /\ rec.status = change[c].status
      /\ rec.prep = change[c].prep
  BY <1>1, <1>2 DEF Change
<1> HIDE DEF rec
<1>4. change'[c] = rec /\ ChangeHolds(c) /\ DueHolds(c)
  BY <1>1, <1>2 DEF OrderMailsInv
<1>5. ChangeHolds(c)'
  BY <1>2, <1>3, <1>4 DEF ChangeHolds
<1>6. DueHolds(c)'
  BY <1>2, <1>3, <1>4 DEF DueHolds, DueTo, Mailed, CustomerDue, StaffDue
<1> QED
  <2>1. rec.about = change[c].about /\ rec.base <= Len(row)
    BY <1>1, <1>3
  <2>2. mailFaults' \in 0..MaxMailFaults
    BY <1>2, MailFaultTypes
  <2> QED
    BY <1>2, <1>3, <1>5, <1>6, <2>1, <2>2, ChangeGoesOn

\* A request that is lost sends nothing any more.
LEMMA Lost ==
  ASSUME OrderMailsInv, NEW c \in Changes, change[c].at \notin {"idle", "over"},
         UNCHANGED <<kind, reachable, row, sent>>,
         change'[c] = [change[c] EXCEPT !.at = "failed", !.due = <<>>]
  PROVE  /\ change'[c] \in Change /\ change'[c].about = change[c].about
         /\ change'[c].base = change[c].base /\ ChangeHolds(c)' /\ DueHolds(c)'
<1>1. change[c] \in Change /\ ChangeHolds(c)
  BY OrderMailTypes DEF OrderMailsInv
<1>2. /\ change'[c].at = "failed"
      /\ change'[c].about = change[c].about /\ change'[c].base = change[c].base
      /\ change'[c].due = <<>> /\ change'[c].status = change[c].status
      /\ change'[c].prep = change[c].prep
  BY <1>1 DEF Change
<1>2t. change'[c] \in Change
  <2>1. <<>> \in Seq(EventMail)
    OBVIOUS
  <2> QED
    BY <1>1, <2>1 DEF Change
<1>3. ChangeHolds(c)'
  BY <1>1, <1>2 DEF ChangeHolds
<1>4. DueHolds(c)'
  BY <1>2 DEF DueHolds
<1> QED
  BY <1>2, <1>2t, <1>3, <1>4

LEMMA ChangeFailsStep ==
  ASSUME OrderMailsInv, NEW c \in Changes, ChangeFails(c)
  PROVE  OrderMailsInv'
<1> DEFINE rec == [change[c] EXCEPT !.at = "failed", !.due = <<>>]
<1>1. /\ change[c] \in Change /\ change \in [Changes -> Change]
      /\ change[c].base \in 0..Len(row) /\ Len(row) \in Nat
  BY OrderMailTypes
<1>2. /\ change' = [change EXCEPT ![c] = rec] /\ change[c].at \in {"read", "customer", "staff"}
      /\ UNCHANGED <<kind, reachable, row, sent>> /\ MailFault
  BY <1>1 DEF ChangeFails
<1>3. change'[c] = rec
  BY <1>1, <1>2
<1>4. /\ rec \in Change /\ rec.about = change[c].about /\ rec.base = change[c].base
      /\ ChangeHolds(c)' /\ DueHolds(c)'
  BY <1>2, <1>3, Lost
<1> HIDE DEF rec
<1> QED
  <2>1. rec.base <= Len(row)
    BY <1>1, <1>4
  <2>2. mailFaults' \in 0..MaxMailFaults
    BY <1>2, MailFaultTypes
  <2> QED
    BY <1>2, <1>4, <2>1, <2>2, ChangeGoesOn

LEMMA ServerStopsStep ==
  ASSUME OrderMailsInv, ServerStops
  PROVE  OrderMailsInv'
<1>1. /\ change \in [Changes -> Change] /\ row \in Seq(RowRecord) /\ Len(row) <= NumChanges
      /\ sent \in Seq(EventMail) /\ Len(row) \in Nat
      /\ \A d \in Changes : /\ change[d].base \in 0..Len(row)
                            /\ change[d].about \in 0..Len(row)
                            /\ change[d].due \in Seq(EventMail)
  BY OrderMailTypes
<1>2. UNCHANGED <<kind, reachable, row, sent>> /\ MailFault
  BY DEF ServerStops
<1>3. SentHolds' /\ \A to, about : Mailed(to, about)' <=> Mailed(to, about)
  BY <1>1, <1>2, SentStays
<1>4. ASSUME NEW c \in Changes
      PROVE  /\ change'[c] \in Change /\ change'[c].about = change[c].about
             /\ change'[c].base = change[c].base /\ ChangeHolds(c)' /\ DueHolds(c)'
  <2>1. change'[c] = IF change[c].at \in {"idle", "over"} THEN change[c]
                     ELSE [change[c] EXCEPT !.at = "failed", !.due = <<>>]
    BY DEF ServerStops
  <2>2. CASE change[c].at \in {"idle", "over"}
    <3>1. change'[c] = change[c] /\ ChangeHolds(c) /\ DueHolds(c)
      BY <2>1, <2>2 DEF OrderMailsInv
    <3>2. ChangeHolds(c)'
      BY <1>2, <3>1 DEF ChangeHolds
    <3>3. DueHolds(c)'
      BY <1>1, <1>2, <1>3, <3>1, DueStays
    <3> QED
      BY <1>1, <3>1, <3>2, <3>3
  <2>3. CASE change[c].at \notin {"idle", "over"}
    BY <1>2, <2>1, <2>3, Lost
  <2> QED
    BY <2>2, <2>3
<1>5. change' \in [Changes -> Change]
  <2>1. change' = [c \in Changes |-> change'[c]]
    BY DEF ServerStops
  <2> QED
    BY <1>4, <2>1
<1>6. RowHolds' /\ PrepKept'
  <2>1. row = <<>> => sent' = <<>>
    BY <1>2 DEF OrderMailsInv, RowHolds
  <2> QED
    BY <1>2, <1>4, <2>1, RowsStay
<1>7. OrderMailsTypeOK'
  <2>1. /\ kind' \in {"order", "reservation"} /\ reachable' \subseteq {"customer", "restaurant"}
        /\ row' \in Seq(RowRecord) /\ Len(row') <= NumChanges /\ sent' \in Seq(EventMail)
    BY <1>1, <1>2 DEF OrderMailsInv, OrderMailsTypeOK
  <2>2. \A d \in Changes : change'[d].base <= Len(row') /\ change'[d].about <= Len(row')
    BY <1>1, <1>2, <1>4
  <2> QED
    BY <1>2, <1>5, <2>1, <2>2, MailFaultTypes, NextTypes
<1> QED
  BY <1>3, <1>4, <1>5, <1>6, <1>7, Zenon DEF OrderMailsInv

\* A mail is built: the change has one more that waits.
LEMMA BuiltMail ==
  ASSUME OrderMailsInv, NEW c \in Changes, NEW m \in EventMail,
         NEW next \in {"staff", "sending"},
         change' = [change EXCEPT ![c].at = next, ![c].due = Append(@, m)]
  PROVE  \E rec \in Change :
           /\ change' = [change EXCEPT ![c] = rec] /\ change'[c] = rec
           /\ rec.at = next /\ rec.due = Append(change[c].due, m)
           /\ rec.status = change[c].status /\ rec.prep = change[c].prep
           /\ rec.base = change[c].base /\ rec.about = change[c].about
<1> DEFINE queue == Append(change[c].due, m)
           rec == [change[c] EXCEPT !.at = next, !.due = queue]
<1>1. change[c] \in Change /\ change \in [Changes -> Change] /\ change[c].due \in Seq(EventMail)
  BY OrderMailTypes
<1>2. queue \in Seq(EventMail)
  BY <1>1
<1>3. change' = [change EXCEPT ![c] = rec]
  BY <1>1 DEF Change
<1> HIDE DEF queue
<1>4. rec \in Change
  BY <1>1, <1>2 DEF Change
<1>5. /\ rec.at = next /\ rec.due = queue
      /\ rec.status = change[c].status /\ rec.prep = change[c].prep
      /\ rec.base = change[c].base /\ rec.about = change[c].about
  BY <1>1 DEF Change
<1> HIDE DEF rec
<1>6. change'[c] = rec
  BY <1>1, <1>3
<1> QED
  BY <1>3, <1>4, <1>5, <1>6 DEF queue

\* The stage of a change advances without a mail.
LEMMA Advanced ==
  ASSUME OrderMailsInv, NEW c \in Changes, NEW next \in {"staff", "sending"},
         change' = [change EXCEPT ![c].at = next]
  PROVE  \E rec \in Change :
           /\ change' = [change EXCEPT ![c] = rec] /\ change'[c] = rec
           /\ rec.at = next /\ rec.due = change[c].due
           /\ rec.status = change[c].status /\ rec.prep = change[c].prep
           /\ rec.base = change[c].base /\ rec.about = change[c].about
<1> DEFINE rec == [change[c] EXCEPT !.at = next]
<1>1. change[c] \in Change /\ change \in [Changes -> Change]
  BY OrderMailTypes
<1>2. change' = [change EXCEPT ![c] = rec] /\ change'[c] = rec
  BY <1>1
<1>3. rec \in Change
  BY <1>1 DEF Change
<1>4. /\ rec.at = next /\ rec.due = change[c].due
      /\ rec.status = change[c].status /\ rec.prep = change[c].prep
      /\ rec.base = change[c].base /\ rec.about = change[c].about
  BY <1>1 DEF Change
<1> HIDE DEF rec
<1> QED
  BY <1>2, <1>3, <1>4

LEMMA TellCustomerStep ==
  ASSUME OrderMailsInv, NEW c \in Changes, TellCustomer(c)
  PROVE  OrderMailsInv'
<1>1. /\ change[c].base \in 0..Len(row) /\ Len(row) \in Nat /\ change[c].about \in 1..Len(row)
      /\ row # <<>>
  BY OrderMailTypes, TextTypes DEF TellCustomer
<1>2. /\ change[c].at = "customer" /\ UNCHANGED <<kind, reachable, row, sent, mailFaults>>
      /\ IF CustomerDue(change[c])
         THEN Built(c, "customer", CustomerMail(change[c]), "staff")
         ELSE change' = [change EXCEPT ![c].at = "staff"]
  BY Zenon DEF TellCustomer
<1>3. ChangeHolds(c) /\ DueHolds(c)
  BY DEF OrderMailsInv
<1>4. change[c].due = <<>> /\ mailFaults' \in 0..MaxMailFaults
  BY <1>2, <1>3, MailFaultTypes DEF ChangeHolds
<1>5. ~Mailed("customer", change[c].about) /\ ~Mailed("restaurant", change[c].about)
  BY <1>2, <1>3 DEF DueHolds
<1>6. CASE CustomerDue(change[c])
  <2> DEFINE m == Mail(change[c], "customer", CustomerMail(change[c]))
  <2>1. m \in EventMail
    BY <1>2, TextTypes
  <2>2. m.to = "customer" /\ m.about = change[c].about /\ m.tells = Len(row)
        /\ m.text = CustomerMail(change[c])
    BY DEF Mail, Told
  <2>3. InOrder(m, Len(row))
    BY <1>1, <1>2, <1>6, <2>2, HourOfChange DEF InOrder
  <2>4. change' = [change EXCEPT ![c].at = "staff", ![c].due = Append(@, m)]
    BY <1>2, <1>6 DEF Built
  <2> HIDE DEF m
  <2>5. PICK rec \in Change :
           /\ change' = [change EXCEPT ![c] = rec] /\ change'[c] = rec
           /\ rec.at = "staff" /\ rec.due = Append(change[c].due, m)
           /\ rec.status = change[c].status /\ rec.prep = change[c].prep
           /\ rec.base = change[c].base /\ rec.about = change[c].about
    BY <2>1, <2>4, BuiltMail
  <2>6. rec.due = <<m>>
    BY <1>4, <2>5
  <2>6a. Len(rec.due) = 1 /\ rec.due[1] = m
    BY <2>6
  <2>7. ChangeHolds(c)'
    BY <1>1, <1>2, <1>3, <2>5 DEF ChangeHolds
  <2>8. DueHolds(c)'
    <3>1. \A i \in 1..Len(rec.due) :
            /\ i = 1 /\ rec.due[i] = m
      BY <2>6a
    <3>2. DueTo(c, "customer")' /\ ~DueTo(c, "restaurant")'
      BY <2>2, <2>5, <2>6a DEF DueTo
    <3>3. \A to \in {"customer", "restaurant"} : ~Mailed(to, change[c].about)'
      BY <1>2, <1>5, <2>5 DEF Mailed
    <3> QED
      BY <1>2, <2>2, <2>3, <2>5, <3>1, <3>2, <3>3 DEF DueHolds
  <2> QED
    <3>1. rec.about = change[c].about /\ rec.base <= Len(row)
      BY <1>1, <2>5
    <3>2. UNCHANGED <<kind, reachable, row, sent>>
      BY <1>2
    <3> QED
      BY <1>4, <3>1, <3>2, <2>5, <2>7, <2>8, ChangeGoesOn
<1>7. CASE ~CustomerDue(change[c])
  <2>1. PICK rec \in Change :
           /\ change' = [change EXCEPT ![c] = rec] /\ change'[c] = rec
           /\ rec.at = "staff" /\ rec.due = change[c].due
           /\ rec.status = change[c].status /\ rec.prep = change[c].prep
           /\ rec.base = change[c].base /\ rec.about = change[c].about
    BY <1>2, <1>7, Advanced
  <2>2. ChangeHolds(c)'
    BY <1>1, <1>2, <1>3, <2>1 DEF ChangeHolds
  <2>3. DueHolds(c)'
    BY <1>2, <1>4, <1>5, <1>7, <2>1 DEF DueHolds, DueTo, Mailed, CustomerDue
  <2> QED
    <3>1. rec.about = change[c].about /\ rec.base <= Len(row)
      BY <1>1, <2>1
    <3>2. UNCHANGED <<kind, reachable, row, sent>>
      BY <1>2
    <3> QED
      BY <1>4, <3>1, <3>2, <2>1, <2>2, <2>3, ChangeGoesOn
<1> QED
  BY <1>6, <1>7

\* Only the creation is news to the restaurant.
LEMMA CreationOnly ==
  ASSUME OrderMailsInv, NEW c \in Changes, change[c].about # 0, StaffDue(change[c])
  PROVE  change[c].about = 1
<1>1. ChangeHolds(c) /\ RowHolds /\ kind \in {"order", "reservation"}
  BY DEF OrderMailsInv, OrderMailsTypeOK
<1>2. change[c].at # "idle" /\ row # <<>>
  BY <1>1 DEF ChangeHolds, NoChange
<1>3. First(kind) \notin Asked(kind)
  BY <1>1 DEF First, Asked
<1>4. c = 1
  BY <1>1, <1>2, <1>3 DEF ChangeHolds, StaffDue
<1> QED
  BY <1>1, <1>2, <1>4 DEF RowHolds

LEMMA TellStaffStep ==
  ASSUME OrderMailsInv, NEW c \in Changes, TellStaff(c)
  PROVE  OrderMailsInv'
<1>1. /\ change[c].base \in 0..Len(row) /\ Len(row) \in Nat /\ change[c].about \in 1..Len(row)
      /\ row # <<>> /\ change[c].due \in Seq(EventMail)
  BY OrderMailTypes, TextTypes DEF TellStaff
<1>2. /\ change[c].at = "staff" /\ UNCHANGED <<kind, reachable, row, sent, mailFaults>>
      /\ IF StaffDue(change[c]) THEN Built(c, "restaurant", RestaurantMail, "sending")
         ELSE change' = [change EXCEPT ![c].at = "sending"]
  BY Zenon DEF TellStaff
<1>3. ChangeHolds(c) /\ DueHolds(c)
  BY DEF OrderMailsInv
<1>4. mailFaults' \in 0..MaxMailFaults
  BY <1>2, MailFaultTypes
<1>5. ~Mailed("restaurant", change[c].about) /\ ~DueTo(c, "restaurant")
  BY <1>2, <1>3 DEF DueHolds
<1>6. CASE StaffDue(change[c])
  <2> DEFINE m == Mail(change[c], "restaurant", RestaurantMail)
  <2>1. m \in EventMail
    BY <1>2, TextTypes
  <2>2. m.to = "restaurant" /\ m.about = change[c].about /\ m.tells = Len(row)
        /\ m.text.hour = "none"
    BY DEF Mail, Told, RestaurantMail, NewOrderMail, NewReservationMail
  <2>3. InOrder(m, Len(row))
    BY <1>1, <1>6, <2>2, CreationOnly DEF InOrder
  <2>4. change' = [change EXCEPT ![c].at = "sending", ![c].due = Append(@, m)]
    BY <1>2, <1>6 DEF Built
  <2> HIDE DEF m
  <2>5. PICK rec \in Change :
           /\ change' = [change EXCEPT ![c] = rec] /\ change'[c] = rec
           /\ rec.at = "sending" /\ rec.due = Append(change[c].due, m)
           /\ rec.status = change[c].status /\ rec.prep = change[c].prep
           /\ rec.base = change[c].base /\ rec.about = change[c].about
    BY <2>1, <2>4, BuiltMail
  <2> DEFINE old == change[c].due
             new == rec.due
  <2>6. /\ Len(new) = Len(old) + 1 /\ Len(old) \in Nat /\ new[Len(old) + 1] = m
        /\ \A i \in 1..Len(old) : new[i] = old[i]
    BY <1>1, <2>1, <2>5
  <2>7. ChangeHolds(c)'
    BY <1>1, <1>2, <1>3, <2>5 DEF ChangeHolds
  <2>8. ASSUME NEW i \in 1..Len(new)
        PROVE  LET n == new[i] IN
               /\ InOrder(n, Len(row)) /\ n.about = change[c].about
               /\ ~Mailed(n.to, n.about)
               /\ \A j \in 1..i - 1 : new[j].to # n.to
    <3>1. CASE i = Len(old) + 1
      <4>1. \A j \in 1..i - 1 : new[j] = old[j] /\ old[j].to # "restaurant"
        BY <1>5, <2>6, <3>1 DEF DueTo
      <4> QED
        BY <1>5, <2>2, <2>3, <2>6, <3>1, <4>1
    <3>2. CASE i # Len(old) + 1
      <4>1. i \in 1..Len(old) /\ new[i] = old[i] /\ \A j \in 1..i - 1 : new[j] = old[j]
        BY <2>6, <3>2
      <4>2. LET n == old[i] IN
            /\ InOrder(n, Len(row)) /\ n.about = change[c].about
            /\ ~Mailed(n.to, n.about)
            /\ \A j \in 1..i - 1 : old[j].to # n.to
        BY <1>3, <4>1 DEF DueHolds
      <4> QED
        BY <4>1, <4>2
    <3> QED
      BY <3>1, <3>2
  <2>9. DueTo(c, "restaurant")' /\ (DueTo(c, "customer") => DueTo(c, "customer")')
    <3>1. new[Len(old) + 1].to = "restaurant" /\ Len(old) + 1 \in 1..Len(new)
      BY <2>2, <2>6
    <3>2. ASSUME NEW i \in 1..Len(old), old[i].to = "customer"
          PROVE  i \in 1..Len(new) /\ new[i].to = "customer"
      BY <2>6, <3>2
    <3> QED
      BY <2>5, <3>1, <3>2 DEF DueTo
  <2>10. \A to, about : Mailed(to, about)' <=> Mailed(to, about)
    BY <1>2 DEF Mailed
  <2> HIDE DEF old
  <2>11. DueHolds(c)'
    <3>0. change'[c].due = new /\ row' = row /\ change'[c].about = change[c].about
      BY <1>2, <2>5
    <3> HIDE DEF new
    <3>1. (\A i \in 1..Len(change[c].due) :
             LET n == change[c].due[i] IN
             /\ InOrder(n, Len(row)) /\ n.about = change[c].about
             /\ ~Mailed(n.to, n.about)
             /\ \A j \in 1..i - 1 : change[c].due[j].to # n.to)'
      BY <1>2, <2>8, <3>0 DEF Mailed
    <3>2. CustomerDue(change[c]) => DueTo(c, "customer") \/ Mailed("customer", change[c].about)
      BY <1>2, <1>3 DEF DueHolds
    <3>3. CustomerDue(change[c])' => CustomerDue(change[c])
      BY <1>2, <2>5 DEF CustomerDue
    <3> QED
      <4>1. change'[c].at = "sending"
        BY <2>5
      <4>2. CustomerDue(change[c])' => DueTo(c, "customer")' \/
               Mailed("customer", change[c].about)'
        BY <2>9, <2>10, <3>0, <3>2, <3>3
      <4> QED
        BY <2>9, <3>1, <4>1, <4>2 DEF DueHolds
  <2> QED
    <3>1. rec.about = change[c].about /\ rec.base <= Len(row)
      BY <1>1, <2>5
    <3>2. UNCHANGED <<kind, reachable, row, sent>>
      BY <1>2
    <3> QED
      BY <1>4, <3>1, <3>2, <2>5, <2>7, <2>11, ChangeGoesOn
<1>7. CASE ~StaffDue(change[c])
  <2>1. PICK rec \in Change :
           /\ change' = [change EXCEPT ![c] = rec] /\ change'[c] = rec
           /\ rec.at = "sending" /\ rec.due = change[c].due
           /\ rec.status = change[c].status /\ rec.prep = change[c].prep
           /\ rec.base = change[c].base /\ rec.about = change[c].about
    BY <1>2, <1>7, Advanced
  <2>2. ChangeHolds(c)'
    BY <1>1, <1>2, <1>3, <2>1 DEF ChangeHolds
  <2>3. DueHolds(c)'
    BY <1>2, <1>3, <1>7, <2>1 DEF DueHolds, DueTo, Mailed, CustomerDue, StaffDue
  <2> QED
    <3>1. rec.about = change[c].about /\ rec.base <= Len(row)
      BY <1>1, <2>1
    <3>2. UNCHANGED <<kind, reachable, row, sent>>
      BY <1>2
    <3> QED
      BY <1>4, <3>1, <3>2, <2>1, <2>2, <2>3, ChangeGoesOn
<1> QED
  BY <1>6, <1>7

LEMMA DeliverStep ==
  ASSUME OrderMailsInv, NEW c \in Changes, Deliver(c)
  PROVE  OrderMailsInv'
<1> DEFINE old == change[c].due
           h == Head(old)
           rest == Tail(old)
           rec == [change[c] EXCEPT !.due = rest]
<1>1. /\ row \in Seq(RowRecord) /\ Len(row) \in Nat /\ Len(row) <= NumChanges
      /\ sent \in Seq(EventMail) /\ change \in [Changes -> Change] /\ change[c] \in Change
      /\ old \in Seq(EventMail)
      /\ \A d \in Changes : /\ change[d].base \in 0..Len(row)
                            /\ change[d].about \in 0..Len(row)
                            /\ change[d].due \in Seq(EventMail)
  BY OrderMailTypes
<1>2. /\ change[c].at = "sending" /\ old # <<>> /\ sent' = Append(sent, h)
      /\ change' = [change EXCEPT ![c] = rec] /\ change'[c] = rec
      /\ \A d \in Changes \ {c} : change'[d] = change[d]
      /\ UNCHANGED <<kind, reachable, row, mailFaults>>
  BY <1>1 DEF Deliver
<1>3. /\ h \in EventMail /\ rest \in Seq(EventMail) /\ h = old[1] /\ Len(old) \in Nat \ {0}
      /\ Len(rest) = Len(old) - 1 /\ \A i \in 1..Len(rest) : rest[i] = old[i + 1]
  BY <1>1, <1>2
<1> HIDE DEF old, h, rest
<1>4. /\ rec \in Change /\ rec.due = rest /\ rec.at = "sending" /\ rec.prep = change[c].prep
      /\ rec.status = change[c].status /\ rec.about = change[c].about
      /\ rec.base = change[c].base
  BY <1>1, <1>2, <1>3 DEF Change
<1> HIDE DEF rec
<1>5. /\ ChangeHolds(c) /\ DueHolds(c) /\ RowHolds /\ SentHolds
      /\ change[c].about # 0 /\ row # <<>>
  BY <1>2 DEF OrderMailsInv, ChangeHolds
<1>6. /\ InOrder(h, Len(row)) /\ h.about = change[c].about /\ ~Mailed(h.to, h.about)
  BY <1>3, <1>5 DEF DueHolds, old
<1>7. \A to, about : Mailed(to, about)' <=> Mailed(to, about) \/ (h.to = to /\ h.about = about)
  <2>1. /\ Len(sent') = Len(sent) + 1 /\ sent'[Len(sent) + 1] = h /\ Len(sent) \in Nat
        /\ \A i \in 1..Len(sent) : sent'[i] = sent[i]
    BY <1>1, <1>2, <1>3
  <2> QED
    BY <2>1 DEF Mailed
<1>8. \A d \in Changes : change'[d].about = change[d].about /\ change'[d].base = change[d].base
  BY <1>2, <1>4
<1>9. OrderMailsTypeOK' /\ change' \in [Changes -> Change]
  <2>1. /\ kind' \in {"order", "reservation"} /\ reachable' \subseteq {"customer", "restaurant"}
        /\ row' \in Seq(RowRecord) /\ Len(row') <= NumChanges
    BY <1>1, <1>2 DEF OrderMailsInv, OrderMailsTypeOK
  <2>2. sent' \in Seq(EventMail) /\ change' \in [Changes -> Change]
    BY <1>1, <1>2, <1>3, <1>4
  <2>3. \A d \in Changes : change'[d].base <= Len(row') /\ change'[d].about <= Len(row')
    BY <1>1, <1>2, <1>8
  <2>4. mailFaults' \in 0..MaxMailFaults
    BY <1>2, MailFaultTypes
  <2> QED
    BY <2>1, <2>2, <2>3, <2>4, NextTypes
<1>10. RowHolds' /\ PrepKept'
  BY <1>2, <1>5, <1>8, RowsStay
<1>11. SentHolds'
  <2>1. /\ Len(sent') = Len(sent) + 1 /\ sent'[Len(sent) + 1] = h /\ Len(sent) \in Nat
        /\ \A i \in 1..Len(sent) : sent'[i] = sent[i]
    BY <1>1, <1>2, <1>3
  <2>2. ASSUME NEW i \in 1..Len(sent')
        PROVE  /\ InOrder(sent'[i], Len(row'))
               /\ \A j \in 1..i - 1 : sent'[j].to = sent'[i].to => sent'[j].about # sent'[i].about
    <3>1. CASE i = Len(sent) + 1
      <4>1. \A j \in 1..i - 1 : sent'[j] = sent[j] /\ j \in 1..Len(sent)
        BY <2>1, <3>1
      <4>2. \A j \in 1..Len(sent) : ~(sent[j].to = h.to /\ sent[j].about = h.about)
        BY <1>6 DEF Mailed
      <4> QED
        BY <1>2, <1>6, <2>1, <3>1, <4>1, <4>2
    <3>2. CASE i # Len(sent) + 1
      <4>1. i \in 1..Len(sent) /\ sent'[i] = sent[i] /\ \A j \in 1..i - 1 : sent'[j] = sent[j]
        BY <2>1, <3>2
      <4>2. /\ InOrder(sent[i], Len(row))
            /\ \A j \in 1..i - 1 : sent[j].to = sent[i].to => sent[j].about # sent[i].about
        BY <1>5, <4>1 DEF SentHolds
      <4> QED
        BY <1>2, <4>1, <4>2
    <3> QED
      BY <3>1, <3>2
  <2> QED
    BY <2>2 DEF SentHolds
<1>12. ASSUME NEW d \in Changes, d # c PROVE ChangeHolds(d)' /\ DueHolds(d)'
  <2>1. ChangeHolds(d) /\ DueHolds(d) /\ change'[d] = change[d]
    BY <1>2, <1>12 DEF OrderMailsInv
  <2>2. ChangeHolds(d)'
    BY <1>2, <2>1 DEF ChangeHolds
  <2>3. change[d].about # h.about
    BY <1>5, <1>6, <1>12 DEF RowHolds
  <2>4. \A to \in {"customer", "restaurant"} :
          Mailed(to, change[d].about)' <=> Mailed(to, change[d].about)
    <3>1. ASSUME NEW to PROVE Mailed(to, change[d].about)' <=> Mailed(to, change[d].about)
      BY <1>7, <2>1, <2>3
    <3> QED
      BY <3>1
  <2>5. DueHolds(d)'
    BY <1>1, <1>2, <2>1, <2>4, DueStays
  <2> QED
    BY <2>2, <2>5
<1>13. ChangeHolds(c)'
  BY <1>2, <1>4, <1>5 DEF ChangeHolds
<1>14. DueHolds(c)'
  <2>1. ASSUME NEW i \in 1..Len(rest)
        PROVE  LET m == rest[i] IN
               /\ InOrder(m, Len(row)) /\ m.about = change[c].about
               /\ ~Mailed(m.to, m.about) /\ m.to # h.to
               /\ \A j \in 1..i - 1 : rest[j].to # m.to
    <3>1. i + 1 \in 1..Len(old) /\ rest[i] = old[i + 1] /\ 1 \in 1..(i + 1) - 1
      BY <1>3
    <3>2. LET m == old[i + 1] IN
          /\ InOrder(m, Len(row)) /\ m.about = change[c].about
          /\ ~Mailed(m.to, m.about)
          /\ \A j \in 1..(i + 1) - 1 : old[j].to # m.to
      BY <1>5, <3>1 DEF DueHolds, old
    <3>3. ASSUME NEW j \in 1..i - 1
          PROVE  rest[j] = old[j + 1] /\ j + 1 \in 1..(i + 1) - 1
      <4>1. i \in Nat /\ j \in Nat /\ Len(rest) \in Nat
        BY <1>3
      <4>2. j \in 1..Len(rest) /\ j + 1 \in 1..(i + 1) - 1
        BY <4>1
      <4>3. rest[j] = old[j + 1]
        BY <1>3, <4>2
      <4> QED
        BY <4>2, <4>3
    <3> QED
      BY <1>3, <3>1, <3>2, <3>3
  <2>2. (\A i \in 1..Len(change[c].due) :
           LET m == change[c].due[i] IN
           /\ InOrder(m, Len(row)) /\ m.about = change[c].about
           /\ ~Mailed(m.to, m.about)
           /\ \A j \in 1..i - 1 : change[c].due[j].to # m.to)'
    <3>1. change'[c].due = rest /\ row' = row /\ change'[c].about = change[c].about
      BY <1>2, <1>4
    <3>2. ASSUME NEW i \in 1..Len(rest)
          PROVE  ~\E k \in 1..Len(sent') :
                    sent'[k].to = rest[i].to /\ sent'[k].about = rest[i].about
      <4>1. ~Mailed(rest[i].to, rest[i].about) /\ rest[i].to # h.to
        BY <2>1
      <4>2. PICK to, about : to = rest[i].to /\ about = rest[i].about
        OBVIOUS
      <4>3. ~Mailed(to, about)'
        BY <1>7, <4>1, <4>2
      <4> QED
        BY <4>2, <4>3 DEF Mailed
    <3> QED
      BY <2>1, <3>1, <3>2 DEF Mailed
  <2>3. \A to \in {"customer", "restaurant"} :
          DueTo(c, to) \/ Mailed(to, change[c].about) =>
            DueTo(c, to)' \/ Mailed(to, change[c].about)'
    <3> SUFFICES ASSUME NEW to \in {"customer", "restaurant"},
                        DueTo(c, to) \/ Mailed(to, change[c].about)
                 PROVE  DueTo(c, to)' \/ Mailed(to, change[c].about)'
      OBVIOUS
    <3>1. change'[c].about = change[c].about /\ change'[c].due = rest
      BY <1>2, <1>4
    <3>2. CASE Mailed(to, change[c].about) \/ h.to = to
      <4>1. PICK a : a = change[c].about
        OBVIOUS
      <4>2. Mailed(to, a)'
        BY <1>6, <1>7, <3>2, <4>1
      <4> QED
        BY <3>1, <4>1, <4>2
    <3>3. ASSUME NEW i \in 1..Len(old), old[i].to = to, h.to # to PROVE DueTo(c, to)'
      <4>1. i - 1 \in 1..Len(rest) /\ rest[i - 1] = old[i]
        BY <1>3, <3>3
      <4> QED
        BY <3>1, <3>3, <4>1 DEF DueTo
    <3> QED
      BY <3>2, <3>3 DEF DueTo, old
  <2>4. /\ change'[c].at = "sending" /\ change[c].at = "sending"
        /\ (CustomerDue(change[c])' <=> CustomerDue(change[c]))
        /\ (StaffDue(change[c])' <=> StaffDue(change[c]))
    BY <1>2, <1>4 DEF CustomerDue, StaffDue
  <2>5. /\ CustomerDue(change[c]) => DueTo(c, "customer") \/ Mailed("customer", change[c].about)
        /\ StaffDue(change[c]) => DueTo(c, "restaurant") \/ Mailed("restaurant", change[c].about)
    BY <1>5, <2>4 DEF DueHolds
  <2>6. /\ CustomerDue(change[c])' => DueTo(c, "customer")' \/ Mailed("customer", change[c].about)'
        /\ StaffDue(change[c])' => DueTo(c, "restaurant")' \/ Mailed("restaurant", change[c].about)'
    BY <2>3, <2>4, <2>5
  <2> QED
    BY <2>2, <2>4, <2>6 DEF DueHolds
<1>15. \A d \in Changes : ChangeHolds(d)' /\ DueHolds(d)'
  BY <1>12, <1>13, <1>14
<1> QED
  BY <1>9, <1>10, <1>11, <1>15, Zenon DEF OrderMailsInv

LEMMA CreateStep ==
  ASSUME OrderMailsInv, NEW k \in {"order", "reservation"},
         NEW reach \in SUBSET {"customer", "restaurant"}, Create(k, reach)
  PROVE  OrderMailsInv'
<1> DEFINE rec == [NoChange EXCEPT !.at = "customer", !.status = First(k), !.about = 1]
           write == [status |-> First(k), prep |-> 0, base |-> 0]
<1>1. /\ change \in [Changes -> Change] /\ Changes = 1..NumChanges /\ NumChanges \in Nat \ {0}
      /\ 1 \in Changes /\ sent \in Seq(EventMail)
  BY OrderMailTypes
<1>2. /\ row = <<>> /\ kind' = k /\ reachable' = reach /\ row' = <<write>>
      /\ UNCHANGED <<sent, mailFaults>> /\ change[1].at = "idle"
      /\ change' = [change EXCEPT ![1].at = "customer", ![1].status = First(k), ![1].about = 1]
  BY Zenon DEF Create
<1>3. ASSUME NEW d \in Changes PROVE change[d] = NoChange
  <2>1. ChangeHolds(d)
    BY DEF OrderMailsInv
  <2> QED
    BY <1>2, <2>1 DEF ChangeHolds
<1>4. change'[1] = rec /\ \A d \in Changes \ {1} : change'[d] = NoChange
  BY <1>1, <1>2, <1>3
<1>5. /\ rec.at = "customer" /\ rec.status = First(k) /\ rec.about = 1 /\ rec.base = 0
      /\ rec.prep = 0 /\ rec.due = <<>>
      /\ NoChange.at = "idle" /\ NoChange.about = 0 /\ NoChange.base = 0
      /\ NoChange.due = <<>> /\ NoChange.prep = 0
  BY DEF NoChange
<1>6. /\ First(k) \in RowStatus /\ write \in RowRecord
      /\ write.status = First(k) /\ write.prep = 0
  BY <1>1 DEF First, RowStatus, RowRecord
<1>7. rec \in Change /\ change' \in [Changes -> Change]
  <2>1. NoChange \in Change
    BY <1>1, <1>3
  <2>2. rec \in Change
    <3>1. ASSUME NEW r \in Change, NEW s \in RowStatus
          PROVE  [r EXCEPT !.at = "customer", !.status = s, !.about = 1] \in Change
      BY DEF Change
    <3> QED
      BY <1>6, <2>1, <3>1
  <2>3. change' = [change EXCEPT ![1] = rec]
    BY <1>1, <1>2, <1>3
  <2> HIDE DEF rec
  <2> QED
    BY <1>1, <2>2, <2>3
<1> HIDE DEF rec, write
<1>8. row' \in Seq(RowRecord) /\ Len(row') = 1 /\ row'[1] = write /\ row' # <<>>
  BY <1>2, <1>6
<1>9. OrderMailsTypeOK' /\ change' \in [Changes -> Change]
  <2>1. \A d \in Changes : change'[d].base <= Len(row') /\ change'[d].about <= Len(row')
    BY <1>4, <1>5, <1>8
  <2>2. sent' \in Seq(EventMail) /\ mailFaults' \in 0..MaxMailFaults /\ Len(row') <= NumChanges
    BY <1>1, <1>2, <1>8, MailFaultTypes
  <2>3. kind' \in {"order", "reservation"} /\ reachable' \subseteq {"customer", "restaurant"}
    BY <1>2
  <2> QED
    BY <1>7, <1>8, <2>1, <2>2, <2>3, NextTypes
<1>10. RowHolds' /\ PrepKept'
  <2>1. Written' = {1}
    BY <1>1, <1>4, <1>5 DEF Written
  <2>2. Len(row') = Cardinality(Written')
    BY <1>8, <2>1, FS_Singleton
  <2>3. \A v \in 2..Len(row') : FALSE
    BY <1>8
  <2>4. \A c, d \in Changes : c # d /\ change'[c].about # 0 =>
          change'[c].about # change'[d].about
    BY <1>4, <1>5
  <2>5. change'[1].about = 1 /\ row'[1].prep = 0
        /\ \E c \in Changes : change'[c].about = Len(row')
    BY <1>1, <1>4, <1>5, <1>6, <1>8
  <2> QED
    BY <1>8, <2>2, <2>3, <2>4, <2>5 DEF RowHolds, PrepKept
<1>11. sent = <<>>
  BY <1>2 DEF OrderMailsInv, RowHolds
<1>12. SentHolds'
  BY <1>2, <1>11 DEF SentHolds
<1>13. ASSUME NEW d \in Changes PROVE ChangeHolds(d)' /\ DueHolds(d)'
  <2>1. ChangeHolds(d)'
    <3>1. CASE d = 1
      <4>1. /\ change'[d].at = "customer" /\ change'[d].about = 1 /\ change'[d].prep = 0
            /\ change'[d].due = <<>> /\ change'[d].status = First(kind')
            /\ row'[1].status = First(kind')
        BY <1>2, <1>4, <1>5, <1>6, <1>8, <3>1
      <4> QED
        BY <1>8, <3>1, <4>1 DEF ChangeHolds
    <3>2. CASE d # 1
      <4>1. change'[d] = NoChange
        BY <1>4, <3>2
      <4> QED
        BY <1>5, <4>1 DEF ChangeHolds
    <3> QED
      BY <3>1, <3>2
  <2>2. change'[d].due = <<>> /\ change'[d].at \in {"customer", "idle"}
    BY <1>4, <1>5
  <2>3. DueHolds(d)'
    BY <1>2, <1>11, <2>2 DEF DueHolds, Mailed
  <2> QED
    BY <2>1, <2>3
<1> QED
  BY <1>9, <1>10, <1>12, <1>13, Zenon DEF OrderMailsInv

LEMMA WriteRowStep ==
  ASSUME OrderMailsInv, NEW c \in Changes, WriteRow(c)
  PROVE  OrderMailsInv'
<1> DEFINE n == Len(row) + 1
           write == [status |-> change[c].status, prep |-> Prep(change[c]),
                     base |-> change[c].base]
           rec == [change[c] EXCEPT !.at = "customer", !.about = n]
<1>1. /\ row \in Seq(RowRecord) /\ Len(row) \in Nat /\ Len(row) <= NumChanges
      /\ sent \in Seq(EventMail) /\ change \in [Changes -> Change] /\ change[c] \in Change
      /\ \A d \in Changes : /\ change[d].base \in 0..Len(row)
                            /\ change[d].about \in 0..Len(row)
                            /\ change[d].due \in Seq(EventMail)
      /\ Changes = 1..NumChanges /\ NumChanges \in Nat \ {0} /\ 1 \in Changes
      /\ change[c].prep \in PrepTimes \cup {0}
  BY OrderMailTypes
<1>2. /\ change[c].at = "read" /\ row' = Append(row, write)
      /\ UNCHANGED <<kind, reachable, sent, mailFaults>>
  BY Zenon DEF WriteRow
<1>3. /\ ChangeHolds(c) /\ RowHolds /\ PrepKept /\ SentHolds /\ DueHolds(c)
  BY DEF OrderMailsInv
<1>4. /\ change[c].about = 0 /\ change[c].base \in 1..Len(row) /\ change[c].due = <<>>
      /\ row # <<>> /\ c # 1 /\ change[c].status \in Asked(kind)
  BY <1>2, <1>3 DEF ChangeHolds, RowHolds
<1>5. write \in RowRecord /\ write.status = change[c].status
      /\ write.prep = Prep(change[c]) /\ write.base = change[c].base
  <2>1. Prep(change[c]) \in PrepTimes \cup {0}
    <3>1. row[change[c].base] \in RowRecord
      BY <1>1, <1>4
    <3> QED
      BY <1>1, <3>1 DEF Prep, RowRecord
  <2>2. change[c].status \in RowStatus /\ change[c].base \in 0..NumChanges
    BY <1>1, <1>4 DEF Asked, RowStatus
  <2> QED
    BY <2>1, <2>2 DEF RowRecord
<1> HIDE DEF write
<1>6. /\ row' \in Seq(RowRecord) /\ Len(row') = n /\ row'[n] = write
      /\ \A v \in 1..Len(row) : row'[v] = row[v]
  BY <1>1, <1>2, <1>5
<1>7. /\ change' = [change EXCEPT ![c] = rec] /\ change'[c] = rec
      /\ \A d \in Changes \ {c} : change'[d] = change[d]
  <2>1. change' = [change EXCEPT ![c].at = "customer", ![c].about = Len(row')]
    BY Zenon DEF WriteRow
  <2> QED
    BY <1>1, <1>6, <2>1 DEF Change
<1>8. /\ rec \in Change /\ rec.at = "customer" /\ rec.about = n /\ rec.due = <<>>
      /\ rec.status = change[c].status /\ rec.prep = change[c].prep
      /\ rec.base = change[c].base
  <2>1. /\ rec.at = "customer" /\ rec.about = n /\ rec.due = change[c].due
        /\ rec.status = change[c].status /\ rec.prep = change[c].prep
        /\ rec.base = change[c].base
    BY <1>1 DEF Change
  <2>2. n \in Nat
    BY <1>1
  <2>3. rec \in Change
    <3> HIDE DEF n
    <3> QED
      BY <1>1, <2>2 DEF Change
  <2> QED
    BY <1>4, <2>1, <2>3
<1> HIDE DEF rec
<1>9. /\ Written' = Written \cup {c} /\ c \in Changes \ Written /\ Written \subseteq Changes
  BY <1>1, <1>4, <1>7, <1>8 DEF Written
<1>10. /\ Cardinality(Written') = n /\ n <= NumChanges
  <2>1. IsFiniteSet(Changes) /\ Cardinality(Changes) = NumChanges
    BY <1>1, FS_Interval
  <2>2. /\ Cardinality(Written \cup {c}) = Cardinality(Written) + 1
        /\ Cardinality(Written) + 1 \in 0..NumChanges
    BY <1>9, <2>1, OneMore
  <2> QED
    BY <1>1, <1>3, <1>9, <2>2 DEF RowHolds
<1>11. OrderMailsTypeOK' /\ change' \in [Changes -> Change]
  <2>1. ASSUME NEW d \in Changes
        PROVE  change'[d].base <= Len(row') /\ change'[d].about <= Len(row')
    <3>1. change[d].base \in 0..Len(row) /\ change[d].about \in 0..Len(row)
      BY <1>1
    <3>2. change[c].base \in 0..Len(row)
      BY <1>1
    <3>3. CASE d = c
      BY <1>1, <1>6, <1>7, <1>8, <3>2, <3>3
    <3>4. CASE d # c
      <4>1. change'[d] = change[d]
        BY <1>7, <3>4
      <4> QED
        BY <1>1, <1>6, <3>1, <4>1
    <3> QED
      BY <3>3, <3>4
  <2>2. sent' \in Seq(EventMail) /\ mailFaults' \in 0..MaxMailFaults /\ Len(row') <= NumChanges
    BY <1>1, <1>2, <1>6, <1>10, MailFaultTypes
  <2>3. kind' \in {"order", "reservation"} /\ reachable' \subseteq {"customer", "restaurant"}
    BY <1>2 DEF OrderMailsInv, OrderMailsTypeOK
  <2>4. change' \in [Changes -> Change]
    BY <1>1, <1>7, <1>8
  <2> QED
    BY <1>6, <2>1, <2>2, <2>3, <2>4, NextTypes
<1>12. RowHolds'
  <2>1. change'[1].about = 1 /\ row'[1].prep = 0 /\ row' # <<>>
    BY <1>1, <1>3, <1>4, <1>6, <1>7 DEF RowHolds
  <2>2. \A v \in 2..Len(row') : row'[v].status \in Asked(kind')
    <3>1. ASSUME NEW v \in 2..n PROVE row'[v].status \in Asked(kind)
      <4>1. CASE v = n
        BY <1>4, <1>5, <1>6, <4>1
      <4>2. CASE v # n
        <5>1. v \in 2..Len(row) /\ row'[v] = row[v]
          BY <1>1, <1>6, <4>2
        <5> QED
          BY <1>3, <5>1 DEF RowHolds
      <4> QED
        BY <4>1, <4>2
    <3> QED
      BY <1>2, <1>6, <3>1
  <2>3. ASSUME NEW d \in Changes, NEW e \in Changes, d # e, change'[d].about # 0
        PROVE  change'[d].about # change'[e].about
    <3>1. /\ change[d].about \in Nat /\ change[d].about < n
          /\ change[e].about \in Nat /\ change[e].about < n
      BY <1>1
    <3>2. CASE d = c
      <4>1. change'[e] = change[e] /\ change'[d] = rec
        BY <1>7, <2>3, <3>2
      <4> QED
        BY <1>8, <3>1, <4>1
    <3>3. CASE e = c
      <4>1. change'[d] = change[d] /\ change'[e] = rec
        BY <1>7, <2>3, <3>3
      <4> QED
        BY <1>8, <3>1, <4>1
    <3>4. CASE d # c /\ e # c
      <4>1. change'[d] = change[d] /\ change'[e] = change[e]
        BY <1>7, <3>4
      <4> QED
        BY <1>3, <2>3, <4>1 DEF RowHolds
    <3> QED
      BY <3>2, <3>3, <3>4
  <2>4. \E d \in Changes : change'[d].about = Len(row')
    BY <1>6, <1>7, <1>8
  <2> QED
    BY <1>6, <1>10, <2>1, <2>2, <2>3, <2>4 DEF RowHolds
<1>13. PrepKept'
  <2>1. ASSUME NEW v \in 2..Len(row'), row'[v].status # "accepted"
        PROVE  row'[v].prep = row'[v - 1].prep \/ row'[v].base < v - 1
    <3>1. CASE v = n
      <4>1. Prep(change[c]) = row[change[c].base].prep
        BY <1>3, <1>5, <1>6, <2>1, <3>1 DEF ChangeHolds, Prep
      <4> QED
        BY <1>1, <1>4, <1>5, <1>6, <3>1, <4>1
    <3>2. CASE v # n
      <4>1. v \in 2..Len(row) /\ row'[v] = row[v] /\ row'[v - 1] = row[v - 1]
        <5>1. v \in 2..Len(row) /\ v \in 1..Len(row) /\ v - 1 \in 1..Len(row)
          BY <1>1, <1>6, <3>2
        <5> QED
          BY <1>6, <5>1
      <4> QED
        BY <1>3, <2>1, <4>1 DEF PrepKept
    <3> QED
      BY <3>1, <3>2
  <2> QED
    BY <2>1 DEF PrepKept
<1>14. SentHolds' /\ \A to, about : Mailed(to, about)' <=> Mailed(to, about)
  BY <1>1, <1>2, <1>6, SentStays
<1>15. ASSUME NEW d \in Changes, d # c PROVE ChangeHolds(d)' /\ DueHolds(d)'
  <2>1. ChangeHolds(d) /\ DueHolds(d) /\ change'[d] = change[d]
    BY <1>7, <1>15 DEF OrderMailsInv
  <2>2. ChangeHolds(d)'
    BY <1>1, <1>2, <1>4, <1>6, <2>1 DEF ChangeHolds
  <2>3. DueHolds(d)'
    <3>1. /\ row' \in Seq(RowRecord) /\ Len(row) <= Len(row')
          /\ UNCHANGED <<kind, reachable, sent>>
      BY <1>1, <1>2, <1>6
    <3> QED
      BY <2>1, <3>1, OthersDue
  <2> QED
    BY <2>2, <2>3
<1>16. ChangeHolds(c)'
  <2>1. row' # <<>> /\ row'[n].status = change[c].status
    BY <1>1, <1>5, <1>6
  <2>2. /\ change'[c].at = "customer" /\ change'[c].about = n /\ change'[c].due = <<>>
        /\ change'[c].status = change[c].status /\ change'[c].prep = change[c].prep
        /\ n # 0 /\ kind' = kind
    BY <1>1, <1>2, <1>7, <1>8
  <2>3. change[c].prep # 0 => change[c].status = "accepted"
    BY <1>3 DEF ChangeHolds
  <2> HIDE DEF n
  <2> QED
    BY <1>4, <2>1, <2>2, <2>3 DEF ChangeHolds
<1>17. DueHolds(c)'
  <2>1. ASSUME NEW i \in 1..Len(sent) PROVE sent[i].about # n
    <3>1. InOrder(sent[i], Len(row)) /\ sent[i] \in EventMail
      BY <1>1, <1>3 DEF SentHolds
    <3>2. sent[i].tells \in Nat /\ sent[i].about \in Nat
      BY <1>1, <3>1 DEF EventMail
    <3> QED
      BY <1>1, <3>1, <3>2 DEF InOrder
  <2>2. change'[c].due = <<>> /\ change'[c].at = "customer" /\ change'[c].about = n
    BY <1>7, <1>8
  <2> QED
    BY <1>2, <2>1, <2>2 DEF DueHolds, Mailed
<1>18. \A d \in Changes : ChangeHolds(d)' /\ DueHolds(d)'
  BY <1>15, <1>16, <1>17
<1> QED
  BY <1>11, <1>12, <1>13, <1>14, <1>18, Zenon DEF OrderMailsInv

LEMMA OrderMailsStep == OrderMailsInv /\ [OrderMailsNext]_orderMailVars => OrderMailsInv'
<1> SUFFICES ASSUME OrderMailsInv, [OrderMailsNext]_orderMailVars PROVE OrderMailsInv'
  OBVIOUS
<1>1. CASE UNCHANGED orderMailVars
  <2>1. /\ kind' = kind /\ reachable' = reachable /\ row' = row /\ change' = change
        /\ sent' = sent /\ mailFaults' = mailFaults
    BY <1>1 DEF orderMailVars
  <2>2. OrderMailsTypeOK' /\ change' \in [Changes -> Change]
    BY <2>1 DEF OrderMailsInv, OrderMailsTypeOK
  <2>3. RowHolds'
    <3>1. Written' = Written
      BY <2>1 DEF Written
    <3> QED
      BY <2>1, <3>1 DEF OrderMailsInv, RowHolds
  <2>4. SentHolds' /\ PrepKept'
    BY <2>1 DEF OrderMailsInv, SentHolds, PrepKept
  <2>5. ASSUME NEW c \in Changes PROVE ChangeHolds(c)' /\ DueHolds(c)'
    <3>1. ChangeHolds(c) /\ DueHolds(c)
      BY DEF OrderMailsInv
    <3>2. ChangeHolds(c)'
      BY <2>1, <3>1 DEF ChangeHolds
    <3>3. DueHolds(c)'
      BY <2>1, <3>1 DEF DueHolds, DueTo, Mailed, CustomerDue, StaffDue
    <3> QED
      BY <3>2, <3>3
  <2> QED
    BY <2>2, <2>3, <2>4, <2>5 DEF OrderMailsInv
<1>2. CASE OrderMailsNext
  BY <1>2, CreateStep, ReadRowStep, WriteRowStep, TellCustomerStep, TellStaffStep,
     DeliverStep, ChangeEndsStep, ChangeFailsStep, ServerStopsStep, Zenon
     DEF OrderMailsNext
<1> QED
  BY <1>1, <1>2

LEMMA OrderMailsStart == OrderMailsInit => OrderMailsInv
<1> SUFFICES ASSUME OrderMailsInit PROVE OrderMailsInv
  OBVIOUS
<1> USE OrderMailConstants DEF OrderMailsInit
<1>1. NoChange \in Change
  <2>1. <<>> \in Seq(EventMail) /\ 0 \in Nat
    OBVIOUS
  <2> QED
    BY <2>1, SMT DEF NoChange, Change
<1>2. /\ NoChange.at = "idle" /\ NoChange.about = 0 /\ NoChange.base = 0
      /\ NoChange.due = <<>> /\ NoChange.prep = 0 /\ NoChange.status = "none"
  BY DEF NoChange
<1>3. change \in [Changes -> Change] /\ \A c \in Changes : change[c] = NoChange
  BY <1>1
<1>4. OrderMailsTypeOK
  <2>1. /\ row \in Seq([status : RowStatus, prep : PrepTimes \cup {0}, base : 0..NumChanges])
        /\ Len(row) = 0 /\ sent \in Seq(EventMail) /\ <<>> \in Seq(EventMail)
    <3>1. ASSUME NEW S PROVE <<>> \in Seq(S) /\ Len(<<>>) = 0
      OBVIOUS
    <3> QED
      BY <3>1
  <2>2. ASSUME NEW c \in Changes
        PROVE  /\ change[c].at = "idle" /\ change[c].status = "none" /\ change[c].prep = 0
               /\ change[c].base = 0 /\ change[c].about = 0 /\ change[c].due = <<>>
    BY <1>2, <1>3
  <2>3. Len(row) <= NumChanges /\ mailFaults \in 0..MaxMailFaults /\ 0 \in 0..Len(row)
    BY <2>1
  <2>4. kind \in {"order", "reservation"} /\ reachable \subseteq {"customer", "restaurant"}
    OBVIOUS
  <2>5. ASSUME NEW c \in Changes
        PROVE  /\ change[c].at \in {"idle", "read", "customer", "staff", "sending", "over",
                                    "failed"}
               /\ change[c].status \in RowStatus \cup {"none"}
               /\ change[c].prep \in PrepTimes \cup {0}
               /\ {change[c].base, change[c].about} \subseteq 0..Len(row)
               /\ change[c].due \in Seq(EventMail)
    BY <2>1, <2>2, <2>3, Zenon
  <2> QED
    BY <2>1, <2>3, <2>4, <2>5, Zenon DEF OrderMailsTypeOK
<1>5. RowHolds
  <2>1. Written = {}
    BY <1>2, <1>3 DEF Written
  <2> QED
    BY <1>2, <1>3, <2>1, FS_EmptySet DEF RowHolds
<1>6. SentHolds /\ PrepKept
  BY DEF SentHolds, PrepKept
<1>7. \A c \in Changes : ChangeHolds(c) /\ DueHolds(c)
  BY <1>2, <1>3 DEF ChangeHolds, DueHolds
<1> QED
  BY <1>3, <1>4, <1>5, <1>6, <1>7 DEF OrderMailsInv

LEMMA OrderMailsHold == OrderMailsSpec => []OrderMailsInv
  BY OrderMailsStart, OrderMailsStep, PTL DEF OrderMailsSpec

\* Types of the row, its changes and its mails (orders.service.ts,
\* reservations.service.ts), for any number of changes.
THEOREM OrderMailsTyped == OrderMailsSpec => []OrderMailsTypeOK
<1>1. OrderMailsInv => OrderMailsTypeOK
  BY Zenon DEF OrderMailsInv
<1> QED
  BY <1>1, OrderMailsHold, PTL

\* The mails tell what happened to the row, and the row keeps the preparation time
\* (updateStatus, updateReservationStatus, publish of notification.service.ts).
THEOREM MailsTellChanges == OrderMailsSpec => [](MailsMatchChanges /\ PrepKept)
<1>1. OrderMailsInv => MailsMatchChanges /\ PrepKept
  <2> SUFFICES ASSUME OrderMailsInv PROVE MailsMatchChanges
    BY DEF OrderMailsInv
  <2>1. /\ row \in Seq(RowRecord) /\ Len(row) \in Nat /\ sent \in Seq(EventMail)
        /\ RowHolds /\ SentHolds /\ \A c \in Changes : ChangeHolds(c) /\ DueHolds(c)
    BY OrderMailTypes DEF OrderMailsInv
  <2>2. \A i \in 1..Len(sent) :
          /\ sent[i].about <= sent[i].tells /\ sent[i].tells <= Len(row)
          /\ sent[i].to = "restaurant" => sent[i].about = 1
          /\ sent[i].text.hour = "change" => sent[i].about < sent[i].tells
          /\ \A j \in 1..i - 1 : sent[j].to = sent[i].to => sent[j].about # sent[i].about
    BY <2>1 DEF SentHolds, InOrder
  <2>3. ASSUME NEW c \in Changes, change[c].at = "over"
        PROVE  /\ CustomerDue(change[c]) => Mailed("customer", change[c].about)
               /\ StaffDue(change[c]) => Mailed("restaurant", change[c].about)
    <3>1. change[c].due = <<>>
      BY <2>1, <2>3 DEF ChangeHolds
    <3>2. ~DueTo(c, "customer") /\ ~DueTo(c, "restaurant")
      BY <3>1 DEF DueTo
    <3> QED
      BY <2>1, <2>3, <3>2 DEF DueHolds
  <2>4. ASSUME row # <<>>, \A c \in Changes : change[c].at \in {"idle", "over"},
               "customer" \in reachable, row[Len(row)].status # "completed"
        PROVE  \E i \in 1..Len(sent) : sent[i].to = "customer" /\ sent[i].tells = Len(row)
    <3>1. PICK c \in Changes : change[c].about = Len(row)
      BY <2>1, <2>4 DEF RowHolds
    <3>2. change[c].about # 0
      BY <2>1, <2>4, <3>1
    <3>3. change[c].at = "over"
      BY <2>1, <2>4, <3>2 DEF ChangeHolds, NoChange
    <3>4. CustomerDue(change[c])
      BY <2>1, <2>4, <3>1, <3>2 DEF ChangeHolds, CustomerDue
    <3>5. PICK i \in 1..Len(sent) : sent[i].to = "customer" /\ sent[i].about = Len(row)
      BY <2>3, <3>1, <3>3, <3>4 DEF Mailed
    <3>6. sent[i] \in EventMail
      BY <2>1
    <3>7. sent[i].tells \in Nat
      BY <3>6, OrderMailConstants DEF EventMail, Changes
    <3>8. Len(row) <= sent[i].tells /\ sent[i].tells <= Len(row)
      BY <2>2, <3>5
    <3>9. sent[i].tells = Len(row)
      BY <2>1, <3>7, <3>8
    <3> QED
      BY <3>5, <3>9
  <2> QED
    BY <2>2, <2>3, <2>4 DEF MailsMatchChanges
<1> QED
  BY <1>1, OrderMailsHold, PTL

-----------------------------------------------------------------------------
\* A behaviour of the office is one of each of its parts, whichever it follows.
LEMMA OfficeParts ==
  OfficeSpec => CampaignSpec /\ CodesSpec /\ OrderMailsSpec /\ SessionSpec /\ CartSpec
<1>1. OfficeInit => CampaignInit /\ CodesInit /\ OrderMailsInit /\ SessionInit /\ CartInit
  BY Zenon DEF OfficeInit
<1>2. [OfficeNext]_officeVars => [CampaignNext]_campaignVars
  BY Zenon DEF OfficeNext, officeVars
<1>3. [OfficeNext]_officeVars => [CodesNext]_codeVars
  BY Zenon DEF OfficeNext, officeVars
<1>4. [OfficeNext]_officeVars => [OrderMailsNext]_orderMailVars
  BY Zenon DEF OfficeNext, officeVars
<1>5. [OfficeNext]_officeVars => [SessionNext]_sessionVars
  BY Zenon DEF OfficeNext, officeVars
<1>6. [OfficeNext]_officeVars => [CartNext]_cartVars
  BY Zenon DEF OfficeNext, officeVars
<1> QED
  BY <1>1, <1>2, <1>3, <1>4, <1>5, <1>6, PTL
     DEF OfficeSpec, CampaignSpec, CodesSpec, OrderMailsSpec, SessionSpec, CartSpec

\* Types of the whole office, for every value of its constants.
THEOREM OfficeTyped == OfficeSpec => []OfficeTypeOK
<1>1. CampaignTypeOK /\ CodesTypeOK /\ OrderMailsTypeOK /\ SessionTypeOK /\ CartTypeOK
        => OfficeTypeOK
  BY Zenon DEF OfficeTypeOK
<1> QED
  BY <1>1, OfficeParts, CampaignTyped, CodesTyped, OrderMailsTyped, SessionTyped, CartTyped,
     PTL

\* The mails tell the changes of their row and no change loses the preparation time,
\* while the rest of the office works (orders.service.ts, reservations.service.ts).
THEOREM ChangesAreKept == OfficeSpec => []ChangesKept
<1>1. MailsMatchChanges /\ PrepKept => ChangesKept
  BY Zenon DEF ChangesKept
<1> QED
  BY <1>1, OfficeParts, MailsTellChanges, PTL

\* The app keeps the copies of its session together and orders what it showed
\* (AuthContext.tsx, CheckoutScreen.tsx), while the office works.
THEOREM AppIsKept == OfficeSpec => []AppKept
<1>1. SessionAgrees /\ OrderedAsShown => AppKept
  BY Zenon DEF AppKept
<1> QED
  BY <1>1, OfficeParts, SessionCopiesAgree, CartOrdered, PTL

\* What the page of the campaigns and the list of the codes keep, while the rest of
\* the office works (AdminMarketing.jsx, notification.service.ts).
THEOREM OfficeKeeps ==
  OfficeSpec => [](ReachesTheAudience /\ RepeatedAfterErrors /\ PageIsCurrent)
BY OfficeParts, AudienceReached, TextsOnce, PageCurrent, PTL
=================================================================================
