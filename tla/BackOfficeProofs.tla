---------------------------- MODULE BackOfficeProofs ----------------------------
(***************************************************************************)
(* Proofs about what the back end does between its answers: edits of one   *)
(* column that do not overlap are all kept, for any number of editors,     *)
(* readers and edits, and every mail that is logged as sent was taken, for *)
(* any number of events, mails and broken connections.  Then the types of  *)
(* what is left, and all parts together: a behaviour of MCBackOffice is    *)
(* one of each of its parts.                                               *)
(***************************************************************************)
EXTENDS MCBackOffice, StorefrontOrdersProofs, CustomerAccountsProofs, TLAPS

Edit == [at : {"idle", "read", "written"}, changes : SUBSET Parts, catalogue : BOOLEAN,
         read : [Parts -> Nat]]

\* Editor e has read, and will write the column of part p.
Rewrites(e, p) == editor[e].at = "read" /\ editor[e].changes \subseteq Column(p)

EditTypes ==
  /\ settings \in [Parts -> Nat] /\ edits \in [Parts -> Nat]
  /\ editor \in [Editors -> Edit]

\* An operation changes something, within one column.
OneColumn == \A e \in Editors : editor[e].at = "read" =>
  \E p \in editor[e].changes : editor[e].changes \subseteq Column(p)

\* Where no two calls have met, the row holds every edit, and the one call that
\* will write the column has read what is there.
Apart == \A p \in Parts \ overlapped :
  /\ settings[p] = edits[p]
  /\ \A e \in Editors : Rewrites(e, p) =>
       /\ editor[e].read[p] = settings[p]
       /\ \A f \in Editors \ {e} : ~Rewrites(f, p)

EditInv == EditTypes /\ OneColumn /\ Apart

\* Two parts share a column or have nothing in common.
LEMMA Columns ==
  /\ \A p \in Parts : p \in Column(p) /\ Column(p) \subseteq Parts
  /\ \A p \in Parts : \A q \in Column(p) : Column(q) = Column(p)
<1>1. "branding" \notin OrderingParts
  BY DEF OrderingParts
<1>. QED
  BY <1>1 DEF Column, Parts

\* What the operations change.
LEMMA OperationsApart ==
  ASSUME NEW op \in Operations
  PROVE  /\ op.changes \subseteq Parts /\ op.catalogue \in BOOLEAN
         /\ \E p \in op.changes : op.changes \subseteq Column(p)
<1>1. \E c \in SUBSET Parts, b \in BOOLEAN :
        /\ op = [changes |-> c, catalogue |-> b]
        /\ \E p \in c : c \subseteq Column(p)
  <2>. DEFINE Good(c) == c \in SUBSET Parts /\ \E p \in c : c \subseteq Column(p)
  <2>1. /\ Good({"menuCatalog"}) /\ Good({"orders"}) /\ Good({"menuCatalog", "orders"})
        /\ Good({"printerSettings"}) /\ Good({"storefrontAnnouncement"}) /\ Good({"branding"})
    BY DEF Parts, OrderingParts, Column
  <2>. HIDE DEF Good
  <2>2. \/ op = [changes |-> {"menuCatalog"}, catalogue |-> TRUE]
        \/ op = [changes |-> {"orders"}, catalogue |-> TRUE]
        \/ op = [changes |-> {"menuCatalog", "orders"}, catalogue |-> TRUE]
        \/ op = [changes |-> {"printerSettings"}, catalogue |-> FALSE]
        \/ op = [changes |-> {"storefrontAnnouncement"}, catalogue |-> FALSE]
        \/ op = [changes |-> {"branding"}, catalogue |-> FALSE]
    BY Zenon DEF Operations
  <2>3. TRUE \in BOOLEAN /\ FALSE \in BOOLEAN
    OBVIOUS
  <2>4. \E c, b : b \in BOOLEAN /\ op = [changes |-> c, catalogue |-> b] /\ Good(c)
    BY <2>1, <2>2, <2>3, Zenon
  <2>. QED  BY <2>4, Zenon DEF Good
<1>. QED
  BY <1>1

\* An edit begins: if another call has the column, both are marked.
LEMMA BeginKeeps ==
  ASSUME EditInv, NEW e \in Editors, NEW op \in Operations, BeginEdit(e, op)
  PROVE  EditInv'
<1>. DEFINE call == [at |-> "read", changes |-> op.changes, catalogue |-> op.catalogue,
                     read |-> settings]
<1>1. settings \in [Parts -> Nat] /\ edits \in [Parts -> Nat] /\ editor \in [Editors -> Edit]
  BY DEF EditInv, EditTypes
<1>2. /\ editor' = [editor EXCEPT ![e] = call] /\ UNCHANGED <<settings, edits>>
      /\ overlapped' = overlapped \cup
           UNION {Column(p) : p \in {q \in op.changes : Editing(Column(q))}}
  BY DEF BeginEdit
<1>3. call \in Edit
  BY <1>1, OperationsApart DEF Edit
<1>4. call.at = "read" /\ call.changes = op.changes /\ call.read = settings
  OBVIOUS
<1>. HIDE DEF call
<1>5. editor'[e] = call /\ \A f \in Editors \ {e} : editor'[f] = editor[f]
  BY <1>1, <1>2
<1>6. EditTypes'
  BY <1>1, <1>2, <1>3 DEF EditTypes
<1>7. OneColumn'
  BY <1>4, <1>5, OperationsApart DEF EditInv, OneColumn
<1>8. ASSUME NEW p \in Parts \ overlapped', op.changes \subseteq Column(p)
      PROVE  \A f \in Editors : ~Rewrites(f, p)
  <2>1. PICK q \in op.changes : op.changes \subseteq Column(q)
    BY OperationsApart
  <2>2. Column(q) = Column(p) /\ p \in Column(q)
    BY <1>8, <2>1, Columns
  <2>3. ~Editing(Column(q))
    BY <1>2, <1>8, <2>1, <2>2
  <2>. QED  BY <2>2, <2>3 DEF Editing, Rewrites
<1>9. Apart'
  <2>. SUFFICES ASSUME NEW p \in Parts \ overlapped'
                PROVE  /\ settings[p] = edits[p]
                       /\ \A f \in Editors : Rewrites(f, p)' =>
                            /\ editor'[f].read[p] = settings[p]
                            /\ \A g \in Editors \ {f} : ~Rewrites(g, p)'
    BY <1>2 DEF Apart
  <2>1. p \in Parts \ overlapped
    BY <1>2
  <2>2. /\ settings[p] = edits[p]
        /\ \A f \in Editors : Rewrites(f, p) =>
             /\ editor[f].read[p] = settings[p]
             /\ \A g \in Editors \ {f} : ~Rewrites(g, p)
    BY <2>1 DEF EditInv, Apart
  <2>3. \A f \in Editors \ {e} : Rewrites(f, p)' <=> Rewrites(f, p)
    BY <1>5 DEF Rewrites
  <2>4. Rewrites(e, p)' => op.changes \subseteq Column(p)
    BY <1>4, <1>5 DEF Rewrites
  <2>. QED  BY <1>4, <1>5, <1>8, <2>2, <2>3, <2>4
<1>. QED
  BY <1>6, <1>7, <1>9 DEF EditInv

\* The whole column is written back, the parts that are not changed as read.
LEMMA WriteKeeps ==
  ASSUME EditInv, NEW e \in Editors, WriteEdit(e)
  PROVE  EditInv'
<1>. DEFINE call == editor[e]
<1>1. /\ settings \in [Parts -> Nat] /\ edits \in [Parts -> Nat]
      /\ editor \in [Editors -> Edit] /\ call \in Edit
  BY DEF EditInv, EditTypes
<1>2. /\ call.at = "read" /\ UNCHANGED overlapped
      /\ settings' = [p \in Parts |-> Written(settings, call, p)]
      /\ edits' = [p \in Parts |-> edits[p] + IF p \in call.changes THEN 1 ELSE 0]
      /\ editor' = [editor EXCEPT ![e].at = "written"]
  BY DEF WriteEdit
<1>3. PICK q \in call.changes : call.changes \subseteq Column(q)
  BY <1>2 DEF EditInv, OneColumn
<1>4. call.read \in [Parts -> Nat] /\ call.changes \subseteq Parts
  BY <1>1 DEF Edit
<1>5. [call EXCEPT !.at = "written"] \in Edit /\ [call EXCEPT !.at = "written"].at = "written"
  BY <1>1 DEF Edit
<1>6. /\ editor' \in [Editors -> Edit] /\ editor'[e].at = "written"
      /\ \A f \in Editors \ {e} : editor'[f] = editor[f]
  BY <1>1, <1>2, <1>5
<1>. HIDE DEF call
<1>7. settings' \in [Parts -> Nat]
  <2>1. \A p \in Parts : Written(settings, call, p) \in Nat
    BY <1>1, <1>4 DEF Written
  <2>. QED  BY <1>2, <2>1
<1>8. edits' \in [Parts -> Nat]
  BY <1>1, <1>2
<1>9. OneColumn'
  BY <1>6 DEF EditInv, OneColumn
<1>10. Apart'
  <2>. SUFFICES ASSUME NEW p \in Parts \ overlapped
                PROVE  /\ settings'[p] = edits'[p]
                       /\ \A f \in Editors : Rewrites(f, p)' =>
                            /\ editor'[f].read[p] = settings'[p]
                            /\ \A g \in Editors \ {f} : ~Rewrites(g, p)'
    BY <1>2 DEF Apart
  <2>1. /\ settings[p] = edits[p]
        /\ \A f \in Editors : Rewrites(f, p) =>
             /\ editor[f].read[p] = settings[p]
             /\ \A g \in Editors \ {f} : ~Rewrites(g, p)
    BY DEF EditInv, Apart
  <2>2. \A f \in Editors : Rewrites(f, p)' => f # e /\ Rewrites(f, p) /\ editor'[f] = editor[f]
    BY <1>6 DEF Rewrites
  <2>3. /\ settings'[p] = Written(settings, call, p)
        /\ edits'[p] = edits[p] + IF p \in call.changes THEN 1 ELSE 0
    BY <1>2
  <2>4. edits[p] \in Nat
    BY <1>1
  <2>5. CASE call.changes \subseteq Column(p)
    <3>1. Rewrites(e, p)
      BY <1>2, <2>5 DEF Rewrites, call
    <3>2. call.read[p] = settings[p] /\ \A f \in Editors \ {e} : ~Rewrites(f, p)
      BY <2>1, <3>1 DEF call
    <3>3. settings'[p] = edits'[p]
      BY <2>1, <2>3, <2>4, <2>5, <3>2 DEF Written
    <3>. QED  BY <2>2, <3>2, <3>3
  <2>6. CASE ~(call.changes \subseteq Column(p))
    <3>1. p \notin call.changes
      BY <1>3, <1>4, <2>6, Columns
    <3>2. settings'[p] = settings[p] /\ edits'[p] = edits[p]
      BY <2>3, <2>4, <2>6, <3>1 DEF Written
    <3>. QED  BY <2>1, <2>2, <3>2
  <2>. QED  BY <2>5, <2>6
<1>. QED
  BY <1>6, <1>7, <1>8, <1>9, <1>10 DEF EditInv, EditTypes

\* A step that only ends calls keeps everything.
LEMMA EndKeeps ==
  ASSUME EditInv, UNCHANGED <<settings, edits, overlapped>>,
         \/ UNCHANGED editor
         \/ \E e \in Editors : editor' = [editor EXCEPT ![e] = NoEdit]
  PROVE  EditInv'
<1>1. settings \in [Parts -> Nat] /\ edits \in [Parts -> Nat] /\ editor \in [Editors -> Edit]
  BY DEF EditInv, EditTypes
<1>2. NoEdit \in Edit /\ NoEdit.at = "idle"
  BY DEF NoEdit, Edit
<1>3. editor' \in [Editors -> Edit] /\ \A e \in Editors : editor'[e] \in {editor[e], NoEdit}
  BY <1>1, <1>2
<1>4. \A e \in Editors : editor'[e].at = "read" => editor'[e] = editor[e]
  BY <1>2, <1>3
<1>5. EditTypes'
  BY <1>1, <1>3 DEF EditTypes
<1>6. OneColumn'
  BY <1>4 DEF EditInv, OneColumn
<1>7. \A e \in Editors, p \in Parts :
        Rewrites(e, p)' => Rewrites(e, p) /\ editor'[e] = editor[e]
  BY <1>4 DEF Rewrites
<1>8. Apart'
  BY <1>7 DEF EditInv, Apart
<1>. QED
  BY <1>5, <1>6, <1>8 DEF EditInv

\* No acknowledged edit of a column is lost unless two calls edited the column at
\* once (updateOrderingSettings and its kin hand on the parts they do not change).
THEOREM NoEditLost == SettingsSpec => []NoLostEdit
<1>1. SettingsInit => EditInv
  <2>. SUFFICES ASSUME SettingsInit PROVE EditInv
    OBVIOUS
  <2>1. /\ settings = [p \in Parts |-> 0] /\ edits = [p \in Parts |-> 0]
        /\ editor = [e \in Editors |-> NoEdit]
    BY DEF SettingsInit
  <2>2. NoEdit \in Edit /\ NoEdit.at = "idle"
    BY DEF NoEdit, Edit
  <2>. QED  BY <2>1, <2>2 DEF EditInv, EditTypes, OneColumn, Apart, Rewrites
<1>2. EditInv /\ [SettingsNext]_settingsVars => EditInv'
  <2>. SUFFICES ASSUME EditInv, [SettingsNext]_settingsVars PROVE EditInv'
    OBVIOUS
  <2>1. ASSUME NEW e \in Editors, Invalidate(e) \/ EditFails(e) PROVE EditInv'
    <3>1. /\ UNCHANGED <<settings, edits, overlapped>>
          /\ editor' = [editor EXCEPT ![e] = NoEdit]
      BY <2>1 DEF Invalidate, EditFails
    <3>. QED  BY <3>1, EndKeeps
  <2>2. ASSUME \/ \E r \in Readers : (\E k \in Keys : Miss(r, k)) \/ Load(r) \/ Store(r)
               \/ \E k \in Keys : Expire(k)
               \/ UNCHANGED settingsVars
        PROVE  EditInv'
    <3>1. UNCHANGED <<settings, edits, overlapped, editor>>
      BY <2>2 DEF Miss, Load, Store, Expire, settingsVars
    <3>. QED  BY <3>1, EndKeeps
  <2>. QED  BY <2>1, <2>2, BeginKeeps, WriteKeeps DEF SettingsNext
<1>3. EditInv => NoLostEdit
  BY DEF EditInv, Apart, NoLostEdit
<1>. QED
  BY <1>1, <1>2, <1>3, PTL DEF SettingsSpec

-----------------------------------------------------------------------------
(***************************************************************************)
(* Mail.  What is known of each connection, besides the types: it stands   *)
(* at its first line while nothing is sent, it is never upgraded at the    *)
(* last line, and how many mails were taken when it stands at each line.   *)
(***************************************************************************)

\* The mail on this connection has been taken.
HasBody(e) == \/ send[e].line = 12
              \/ send[e].line = 11 /\ send[e].at = "wait" /\ server[e].answer = "yes"

\* Outside a dialogue, and in the upgrade, the mail is not yet taken.
LinesInv == \A e \in Events :
  /\ send[e].at \in {"idle", "next", "connect", "over"} => send[e].line = 1
  /\ send[e].at = "upgrade" => send[e].line < 11
  /\ send[e].at # "over" => send[e].tried < Mails
  /\ send[e].at = "idle" => send[e].tried = 0
  /\ send[e].at \in {"write", "upgrade"} => server[e].answer = "none"

\* Mails taken and mails logged.
CountsInv == \A e \in Events :
  /\ send[e].sent <= send[e].tried
  /\ IF HasBody(e) THEN send[e].sent < accepted[e] /\ accepted[e] <= send[e].tried + 1
                   ELSE send[e].sent <= accepted[e] /\ accepted[e] <= send[e].tried

MailStates == {"idle", "next", "connect", "write", "wait", "upgrade", "over"}
MailRecord == [at : MailStates, line : 1..12, tried : 0..Mails, sent : 0..Mails]
MailInv == MailTypeOK /\ LinesInv /\ CountsInv

\* The twelve lines.
LEMMA LineNumbers ==
  /\ Len(Lines) = 12
  /\ \A i \in 1..12 : /\ Lines[i] = "quit" <=> i = 12
                      /\ Lines[i] = "body" <=> i = 11
                      /\ Lines[i] = "starttls" <=> i = 3
                      /\ Lines[i] = "auth" <=> i = 5
                      /\ Lines[i] = "ehlo" <=> i = 2
  /\ Line("auth") = 5
<1>1. Len(Lines) = 12
  BY DEF Lines
<1>2. /\ Lines[1] = "greeting" /\ Lines[2] = "ehlo" /\ Lines[3] = "starttls"
      /\ Lines[4] = "ehlo again" /\ Lines[5] = "auth" /\ Lines[6] = "user"
      /\ Lines[7] = "password" /\ Lines[8] = "from" /\ Lines[9] = "to"
      /\ Lines[10] = "data" /\ Lines[11] = "body" /\ Lines[12] = "quit"
  BY DEF Lines
<1>3. \A i \in 1..12 : \/ i = 1 \/ i = 2 \/ i = 3 \/ i = 4 \/ i = 5 \/ i = 6
                       \/ i = 7 \/ i = 8 \/ i = 9 \/ i = 10 \/ i = 11 \/ i = 12
  OBVIOUS
<1>4. \A i \in 1..12 : /\ Lines[i] = "quit" <=> i = 12
                       /\ Lines[i] = "body" <=> i = 11
                       /\ Lines[i] = "starttls" <=> i = 3
                       /\ Lines[i] = "auth" <=> i = 5
                       /\ Lines[i] = "ehlo" <=> i = 2
  BY <1>2, <1>3
<1>5. Line("auth") = 5
  <2>1. \E i \in 1..Len(Lines) : Lines[i] = "auth"
    <3>1. 5 \in 1..Len(Lines)
      BY <1>1
    <3> QED
      BY <1>2, <3>1, Zenon
  <2>2. Line("auth") \in 1..Len(Lines) /\ Lines[Line("auth")] = "auth"
    BY <2>1, Zenon DEF Line
  <2> QED
    BY <1>1, <2>2, <1>4
<1> QED
  BY <1>1, <1>4, <1>5

\* The line that follows one which is not the last.
LEMMA FollowingLine ==
  ASSUME NEW e \in Events, NEW i \in 1..12, i # 12
  PROVE  /\ Following(e, i) \in 1..12
         /\ Following(e, i) = 12 <=> i = 11
         /\ i = 3 => Following(e, i) = 4
BY LineNumbers DEF Following

\* The types of the mails, with their records named.
LEMMA MailTypes ==
  MailTypeOK <=>
    /\ send \in [Events -> MailRecord]
    /\ server \in [Events -> [answer : {"none", "yes", "no"}, open : BOOLEAN,
                              starttls : BOOLEAN]]
    /\ accepted \in [Events -> 0..Mails]
    /\ running \in BOOLEAN /\ abandoned \in Nat /\ broken \in 0..MaxBroken
BY LineNumbers DEF MailTypeOK, MailRecord, MailStates

\* The end of a mail: one that succeeds was taken.
LEMMA MailEndKeeps ==
  ASSUME MailInv, NEW e \in Events, NEW ok \in BOOLEAN,
         send[e].at \notin {"idle", "over"}, ok => HasBody(e),
         send' = [send EXCEPT ![e] = Ended(send[e], ok)],
         server' = [server EXCEPT ![e] = NoServer], UNCHANGED accepted
  PROVE  /\ send' \in [Events -> MailRecord]
         /\ server' \in [Events -> [answer : {"none", "yes", "no"}, open : BOOLEAN,
                                    starttls : BOOLEAN]]
         /\ LinesInv' /\ CountsInv'
<1>1. /\ send[e] \in MailRecord /\ send[e].tried < Mails /\ send[e].sent <= send[e].tried
      /\ send[e].tried \in Nat /\ send[e].sent \in Nat /\ Mails \in Nat
      /\ accepted[e] \in Nat
  BY MailTypes, MailConstants DEF MailInv, LinesInv, CountsInv, MailRecord
<1>2. /\ Ended(send[e], ok) \in MailRecord /\ Ended(send[e], ok).line = 1
      /\ Ended(send[e], ok).tried = send[e].tried + 1
      /\ Ended(send[e], ok).sent = send[e].sent + IF ok THEN 1 ELSE 0
      /\ Ended(send[e], ok).at \in {"next", "over"}
      /\ Ended(send[e], ok).at = "next" => send[e].tried + 1 < Mails
  BY <1>1 DEF Ended, MailRecord, MailStates
<1>3. NoServer \in [answer : {"none", "yes", "no"}, open : BOOLEAN, starttls : BOOLEAN]
  BY DEF NoServer
<1>4. /\ send' \in [Events -> MailRecord]
      /\ server' \in [Events -> [answer : {"none", "yes", "no"}, open : BOOLEAN,
                                 starttls : BOOLEAN]]
  BY <1>2, <1>3, MailTypes DEF MailInv
<1>5. send[e]' = Ended(send[e], ok) /\ \A f \in Events \ {e} : send[f]' = send[f]
  BY MailTypes DEF MailInv
<1>6. \A f \in Events \ {e} : server[f]' = server[f]
  BY MailTypes DEF MailInv
<1>7. LinesInv'
  BY <1>2, <1>5 DEF MailInv, LinesInv
<1>8. ASSUME NEW f \in Events
      PROVE  /\ send[f]'.sent <= send[f]'.tried
             /\ IF HasBody(f)' THEN send[f]'.sent < accepted[f]' /\ accepted[f]' <= send[f]'.tried + 1
                             ELSE send[f]'.sent <= accepted[f]' /\ accepted[f]' <= send[f]'.tried
  <2>1. CASE f # e
    BY <2>1, <1>5, <1>6 DEF MailInv, CountsInv, HasBody
  <2>2. CASE f = e
    <3>1. ~HasBody(e)'
      BY <1>2, <1>5 DEF HasBody
    <3>2. /\ accepted[e] <= send[e].tried + 1
          /\ IF HasBody(e) THEN send[e].sent < accepted[e] ELSE send[e].sent <= accepted[e]
      BY <1>1 DEF MailInv, CountsInv
    <3> QED
      BY <2>2, <3>1, <3>2, <1>1, <1>2, <1>5
  <2> QED
    BY <2>1, <2>2
<1>9. CountsInv'
  BY <1>8 DEF CountsInv
<1> QED
  BY <1>4, <1>7, <1>9

\* Every step keeps it.
LEMMA MailStep == MailInv /\ [MailNext]_mailVars => MailInv'
<1> SUFFICES ASSUME MailInv, [MailNext]_mailVars PROVE MailInv'
  OBVIOUS
<1> DEFINE S == [answer : {"none", "yes", "no"}, open : BOOLEAN, starttls : BOOLEAN]
<1>t. /\ send \in [Events -> MailRecord] /\ server \in [Events -> S]
      /\ accepted \in [Events -> 0..Mails]
      /\ running \in BOOLEAN /\ abandoned \in Nat /\ broken \in 0..MaxBroken
      /\ Mails \in Nat \ {0} /\ MaxBroken \in Nat
  BY MailTypes, MailConstants DEF MailInv
<1>i. LinesInv /\ CountsInv
  BY DEF MailInv
<1>p. MailTypeOK' <=>
        /\ send' \in [Events -> MailRecord] /\ server' \in [Events -> S]
        /\ accepted' \in [Events -> 0..Mails]
        /\ running' \in BOOLEAN /\ abandoned' \in Nat /\ broken' \in 0..MaxBroken
  BY LineNumbers DEF MailTypeOK, MailRecord, MailStates
<1>f. ASSUME NEW e \in Events, Fail(e), send[e].at \notin {"idle", "over"}, UNCHANGED accepted,
             running' \in BOOLEAN, abandoned' \in Nat, broken' \in 0..MaxBroken
      PROVE  MailInv'
  <2>1. FALSE \in BOOLEAN
    OBVIOUS
  <2> QED
    BY <1>f, <1>t, <1>p, <2>1, MailEndKeeps DEF Fail, MailInv
<1> DEFINE Moves(e, s, r) ==
             /\ send' = [send EXCEPT ![e] = s] /\ server' = [server EXCEPT ![e] = r]
             /\ UNCHANGED <<accepted, running, abandoned, broken>>
           Moved(e, s, r) ==
             /\ s.sent = send[e].sent /\ send[e].tried <= s.tried
             /\ s.at \in {"next", "connect", "over"} => s.line = 1
             /\ s.at = "upgrade" => s.line < 11
             /\ s.at # "idle" /\ (s.at # "over" => s.tried < Mails)
             /\ s.at \in {"write", "upgrade"} => r.answer = "none"
             /\ HasBody(e) <=> (s.line = 12 \/ (s.line = 11 /\ s.at = "wait" /\ r.answer = "yes"))
<1>m. ASSUME NEW e \in Events, NEW s \in MailRecord, NEW r \in S, Moves(e, s, r), Moved(e, s, r)
      PROVE  MailInv'
  <2>1. MailTypeOK'
    BY <1>m, <1>t, <1>p
  <2>2. /\ send[e]' = s /\ server[e]' = r
        /\ \A f \in Events \ {e} : send[f]' = send[f] /\ server[f]' = server[f]
    BY <1>m, <1>t
  <2>3. LinesInv'
    BY <1>m, <2>2, <1>i DEF LinesInv
  <2>4. \A f \in Events : HasBody(f)' <=> HasBody(f)
    <3>1. HasBody(e)' <=> (s.line = 12 \/ (s.line = 11 /\ s.at = "wait" /\ r.answer = "yes"))
      BY <2>2 DEF HasBody
    <3>2. HasBody(e) <=> (s.line = 12 \/ (s.line = 11 /\ s.at = "wait" /\ r.answer = "yes"))
      BY <1>m
    <3>3. \A f \in Events \ {e} : HasBody(f)' <=> HasBody(f)
      BY <2>2 DEF HasBody
    <3> HIDE DEF Moves, Moved
    <3> QED
      BY <3>1, <3>2, <3>3
  <2>5. CountsInv'
    <3>1. /\ send[e] \in MailRecord /\ send[e].tried \in Nat /\ send[e].sent \in Nat
          /\ s.tried \in Nat /\ accepted[e] \in Nat
      BY <1>t DEF MailRecord
    <3>2. UNCHANGED accepted /\ s.sent = send[e].sent /\ send[e].tried <= s.tried
      BY <1>m
    <3>3. /\ send[e].sent <= send[e].tried
          /\ IF HasBody(e) THEN send[e].sent < accepted[e] /\ accepted[e] <= send[e].tried + 1
                           ELSE send[e].sent <= accepted[e] /\ accepted[e] <= send[e].tried
      BY <1>i DEF CountsInv
    <3>4. /\ s.sent <= s.tried
          /\ IF HasBody(e) THEN s.sent < accepted[e] /\ accepted[e] <= s.tried + 1
                           ELSE s.sent <= accepted[e] /\ accepted[e] <= s.tried
      BY <3>1, <3>2, <3>3
    <3> QED
      BY <3>2, <3>4, <2>2, <2>4, <1>i DEF CountsInv
  <2> QED
    BY <2>1, <2>3, <2>5 DEF MailInv
<1> HIDE DEF Moves, Moved, S
<1>1. CASE UNCHANGED mailVars
  BY <1>1, <1>t, <1>p, <1>i DEF mailVars, MailInv, LinesInv, CountsInv, HasBody
<1>2. CASE AbandonedFails
  BY <1>2, <1>t, <1>p, <1>i DEF AbandonedFails, MailInv, LinesInv, CountsInv, HasBody
<1>3. ASSUME NEW e \in Events, Publish(e) \/ StartSending(e)
      PROVE  MailInv'
  <2> DEFINE s == [send[e] EXCEPT !.at = IF Publish(e) THEN "next" ELSE "connect"]
  <2>1. /\ send[e] \in MailRecord /\ send[e].line = 1 /\ send[e].at \in {"idle", "next"}
        /\ send[e].tried < Mails /\ server[e] \in S
    BY <1>3, <1>t, <1>i DEF LinesInv, Publish, StartSending, At
  <2>2. /\ s \in MailRecord /\ s.at \in {"next", "connect"} /\ s.line = 1
        /\ s.tried = send[e].tried /\ s.sent = send[e].sent
    BY <2>1 DEF MailRecord, MailStates
  <2>3. /\ send' = [send EXCEPT ![e] = s] /\ server' = [server EXCEPT ![e] = server[e]]
        /\ UNCHANGED <<accepted, running, abandoned, broken>>
    <3>1. CASE Publish(e)
      BY <3>1, <1>t DEF Publish
    <3>2. CASE ~Publish(e)
      BY <3>2, <1>3, <1>t DEF StartSending
    <3> QED
      BY <3>1, <3>2
  <2> HIDE DEF s
  <2>4. Moved(e, s, server[e])
    BY <2>1, <2>2 DEF Moved, HasBody, MailRecord
  <2>5. Moves(e, s, server[e])
    BY <2>3 DEF Moves
  <2> QED
    BY <1>m, <2>1, <2>2, <2>4, <2>5
<1>4. ASSUME NEW e \in Events, SendVerification(e) \/ SendReset(e)
      PROVE  MailInv'
  <2>1. /\ send[e] \in MailRecord /\ send[e].line = 1 /\ send[e].tried = 0 /\ send[e].sent <= 0
        /\ send[e].at = "idle" /\ server[e] \in S
    BY <1>4, <1>t, <1>i DEF LinesInv, CountsInv, SendVerification, SendReset, At
  <2>2. send[e].sent = 0
    BY <2>1 DEF MailRecord
  <2> DEFINE started == [Unsent EXCEPT !.at = "next"]
  <2>3. started = [at |-> "next", line |-> 1, tried |-> 0, sent |-> 0]
    BY DEF Unsent
  <2>4. OneMail \in MailRecord /\ OneMail.at = "next" /\ OneMail.line = 1
        /\ OneMail.tried = Mails - 1 /\ OneMail.sent = 0
    <3>1. OneMail = [started EXCEPT !.tried = Mails - 1]
      BY DEF OneMail
    <3> HIDE DEF started
    <3> QED
      BY <2>3, <3>1, <1>t, SMTT(30) DEF MailRecord, MailStates
  <2>5. /\ send' = [send EXCEPT ![e] = OneMail] /\ server' = [server EXCEPT ![e] = server[e]]
        /\ UNCHANGED <<accepted, running, abandoned, broken>>
    BY <1>4, <1>t DEF SendVerification, SendReset
  <2>6. Moved(e, OneMail, server[e])
    BY <1>t, <2>1, <2>2, <2>4 DEF Moved, HasBody
  <2>7. Moves(e, OneMail, server[e])
    BY <2>5 DEF Moves
  <2> QED
    BY <1>m, <2>1, <2>4, <2>6, <2>7
<1>5. ASSUME NEW e \in Events, Connected(e)
      PROVE  MailInv'
  <2>1. /\ send[e] \in MailRecord /\ send[e].line = 1 /\ send[e].at = "connect"
        /\ send[e].tried < Mails
    BY <1>5, <1>t, <1>i DEF LinesInv, Connected, At
  <2>2. PICK starttls \in BOOLEAN :
          server' = [server EXCEPT ![e] = [answer |-> "none", open |-> TRUE,
                                           starttls |-> starttls]]
    BY <1>5 DEF Connected
  <2> DEFINE s == [send[e] EXCEPT !.at = "wait"]
             r == [answer |-> "none", open |-> TRUE, starttls |-> starttls]
  <2>3. /\ s \in MailRecord /\ s.at = "wait" /\ s.line = 1
        /\ s.tried = send[e].tried /\ s.sent = send[e].sent
    BY <2>1 DEF MailRecord, MailStates
  <2>4. r \in S /\ send' = [send EXCEPT ![e] = s]
        /\ UNCHANGED <<accepted, running, abandoned, broken>>
    BY <1>5, <1>t DEF Connected, S
  <2> HIDE DEF s, r
  <2>5. Moved(e, s, r)
    BY <2>1, <2>3 DEF Moved, HasBody, MailRecord
  <2>6. Moves(e, s, r)
    BY <2>2, <2>4 DEF r, Moves
  <2> QED
    BY <1>m, <2>3, <2>4, <2>5, <2>6
<1>6. ASSUME NEW e \in Events, ConnectFails(e)
      PROVE  MailInv'
  BY <1>6, <1>f, <1>t DEF ConnectFails, At
<1>7. ASSUME NEW e \in Events, LineWritten(e)
      PROVE  MailInv'
  <2> DEFINE s == [send[e] EXCEPT !.at = "wait"]
  <2>1. /\ send[e] \in MailRecord /\ send[e].at = "write" /\ send[e].tried < Mails
        /\ server[e] \in S /\ server[e].answer = "none"
    BY <1>7, <1>t, <1>i DEF LinesInv, LineWritten, At
  <2>2. /\ s \in MailRecord /\ s.at = "wait" /\ s.line = send[e].line
        /\ s.tried = send[e].tried /\ s.sent = send[e].sent
    BY <2>1 DEF MailRecord, MailStates
  <2>3. /\ send' = [send EXCEPT ![e] = s] /\ server' = [server EXCEPT ![e] = server[e]]
        /\ UNCHANGED <<accepted, running, abandoned, broken>>
    BY <1>7, <1>t DEF LineWritten
  <2> HIDE DEF s
  <2>4. Moved(e, s, server[e])
    <3>1. HasBody(e) <=> (s.line = 12 \/ (s.line = 11 /\ s.at = "wait" /\ server[e].answer = "yes"))
      BY <2>1, <2>2 DEF HasBody
    <3>2. send[e].tried <= s.tried /\ s.tried < Mails
      BY <2>1, <2>2, <1>t DEF MailRecord
    <3> QED
      BY <2>1, <2>2, <3>1, <3>2 DEF Moved
  <2>5. Moves(e, s, server[e])
    BY <2>3 DEF Moves
  <2> QED
    BY <1>m, <2>1, <2>2, <2>4, <2>5
<1>8. ASSUME NEW e \in Events, WriteLost(e)
      PROVE  MailInv'
  <2>1. CASE UNCHANGED <<send, server>>
    BY <1>8, <2>1, <1>t, <1>p, <1>i DEF WriteLost, At, MailInv, LinesInv, CountsInv, HasBody, S
  <2>2. CASE Fail(e) /\ UNCHANGED running
    BY <1>8, <2>2, <1>f, <1>t DEF WriteLost, At
  <2> QED
    BY <1>8, <2>1, <2>2 DEF WriteLost
<1>9. ASSUME NEW e \in Events, Heard(e)
      PROVE  MailInv'
  <2> DEFINE i == send[e].line
  <2>1. /\ send[e] \in MailRecord /\ send[e].at = "wait" /\ send[e].tried < Mails
        /\ server[e] \in S /\ server[e].answer = "yes" /\ i \in 1..12
        /\ UNCHANGED <<accepted, running, abandoned, broken>>
    BY <1>9, <1>t, <1>i DEF LinesInv, Heard, At, Expected, MailRecord
  <2>2. CASE i = 12
    <3>1. /\ send' = [send EXCEPT ![e] = Ended(send[e], TRUE)]
          /\ server' = [server EXCEPT ![e] = NoServer]
      BY <1>9, <2>1, <2>2, LineNumbers DEF Heard
    <3>2. HasBody(e) /\ TRUE \in BOOLEAN
      BY <2>2 DEF HasBody
    <3> QED
      BY <3>1, <3>2, <2>1, <1>t, <1>p, MailEndKeeps DEF MailInv, S
  <2>3. CASE i # 12
    <3> DEFINE s == [send[e] EXCEPT !.at = IF i = 3 THEN "upgrade" ELSE "write",
                                    !.line = Following(e, i)]
               r == [server[e] EXCEPT !.answer = "none"]
    <3>1. /\ Following(e, i) \in 1..12 /\ (Following(e, i) = 12 <=> i = 11)
          /\ i = 3 => Following(e, i) = 4
      BY <2>1, <2>3, FollowingLine
    <3>2. /\ s \in MailRecord /\ s.at = (IF i = 3 THEN "upgrade" ELSE "write")
          /\ s.line = Following(e, i) /\ s.tried = send[e].tried /\ s.sent = send[e].sent
      BY <2>1, <3>1 DEF MailRecord, MailStates
    <3>3. r \in S /\ r.answer = "none"
      BY <2>1 DEF S
    <3>4. send' = [send EXCEPT ![e] = s] /\ server' = [server EXCEPT ![e] = r]
      BY <1>9, <1>t, <2>1, <2>3, LineNumbers DEF Heard
    <3> HIDE DEF s, r
    <3>5. Moved(e, s, r)
      <4>1. /\ s.line = 12 <=> i = 11
            /\ s.at = "upgrade" => s.line < 11
            /\ s.at \in {"write", "upgrade"}
        BY <3>1, <3>2
      <4>2. HasBody(e) <=> i = 11
        BY <2>1, <2>3 DEF HasBody
      <4>3. send[e].tried <= s.tried /\ s.tried < Mails
        BY <2>1, <3>2, <1>t DEF MailRecord
      <4> HIDE DEF i
      <4> QED
        BY <3>2, <3>3, <4>1, <4>2, <4>3 DEF Moved
    <3>6. Moves(e, s, r)
      BY <2>1, <3>4 DEF Moves
    <3> QED
      BY <1>m, <3>2, <3>3, <3>5, <3>6
  <2> QED
    BY <2>2, <2>3
<1>10. ASSUME NEW e \in Events, Refused(e)
       PROVE  MailInv'
  BY <1>10, <1>f, <1>t DEF Refused, At
<1>11. ASSUME NEW e \in Events, Upgraded(e)
       PROVE  MailInv'
  <2> DEFINE s == [send[e] EXCEPT !.at = "write"]
  <2>1. /\ send[e] \in MailRecord /\ send[e].at = "upgrade" /\ send[e].tried < Mails
        /\ server[e] \in S /\ server[e].answer = "none" /\ send[e].line < 11
        /\ UNCHANGED <<accepted, running, abandoned, broken>>
    BY <1>11, <1>t, <1>i DEF LinesInv, Upgraded, At
  <2>2. CASE Fail(e)
    BY <2>1, <2>2, <1>f, <1>t
  <2>3. CASE send' = [send EXCEPT ![e].at = "write"] /\ UNCHANGED server
    <3>1. /\ s \in MailRecord /\ s.at = "write" /\ s.line = send[e].line
          /\ s.tried = send[e].tried /\ s.sent = send[e].sent
      BY <2>1 DEF MailRecord, MailStates
    <3>2. send' = [send EXCEPT ![e] = s] /\ server' = [server EXCEPT ![e] = server[e]]
      BY <2>3, <1>t
    <3> HIDE DEF s
    <3>3. Moved(e, s, server[e])
      BY <2>1, <3>1 DEF Moved, HasBody, MailRecord
    <3>4. Moves(e, s, server[e])
      BY <2>1, <3>2 DEF Moves
    <3> QED
      BY <1>m, <2>1, <3>1, <3>3, <3>4
  <2> QED
    BY <1>11, <2>2, <2>3 DEF Upgraded
<1>12. ASSUME NEW e \in Events, Answers(e)
       PROVE  MailInv'
  <2>1. PICK answer \in {"yes", "no"} :
          /\ server' = [server EXCEPT ![e].answer = answer]
          /\ accepted' = [accepted EXCEPT ![e] = @ +
               IF Lines[send[e].line] = "body" /\ answer = "yes" THEN 1 ELSE 0]
    BY <1>12 DEF Answers
  <2> DEFINE taken == send[e].line = 11 /\ answer = "yes"
             r == [server[e] EXCEPT !.answer = answer]
             n == accepted[e] + IF taken THEN 1 ELSE 0
  <2>2. /\ send[e] \in MailRecord /\ send[e].at = "wait" /\ send[e].tried < Mails
        /\ send[e].line \in 1..12 /\ send[e].tried \in Nat /\ send[e].sent \in Nat
        /\ server[e] \in S /\ server[e].answer = "none" /\ accepted[e] \in 0..Mails
        /\ UNCHANGED <<send, running, abandoned, broken>>
    BY <1>12, <1>t, <1>i DEF LinesInv, Answers, At, MailRecord
  <2>3. r \in S /\ r.answer = answer /\ server' = [server EXCEPT ![e] = r]
    BY <2>1, <2>2, <1>t DEF S
  <2>4. accepted' = [accepted EXCEPT ![e] = n]
    BY <2>1, <2>2, <1>t, LineNumbers
  <2>5. /\ send[e].sent <= send[e].tried
        /\ IF send[e].line = 12 THEN send[e].sent < accepted[e] /\ accepted[e] <= send[e].tried + 1
                                ELSE send[e].sent <= accepted[e] /\ accepted[e] <= send[e].tried
    BY <2>2, <1>i DEF CountsInv, HasBody
  <2>6. n \in 0..Mails
    BY <2>2, <2>5, <1>t
  <2>7. IF send[e].line = 12 \/ taken THEN send[e].sent < n /\ n <= send[e].tried + 1
                                       ELSE send[e].sent <= n /\ n <= send[e].tried
    BY <2>2, <2>5
  <2> HIDE DEF r, n
  <2>8. /\ server[e]' = r /\ accepted[e]' = n
        /\ \A f \in Events \ {e} : server[f]' = server[f] /\ accepted[f]' = accepted[f]
    BY <2>3, <2>4, <1>t
  <2>9. MailTypeOK'
    BY <2>2, <2>3, <2>4, <2>6, <1>t, <1>p
  <2>10. LinesInv'
    BY <2>2, <2>8, <1>i DEF LinesInv
  <2>11. HasBody(e)' <=> send[e].line = 12 \/ taken
    BY <2>2, <2>3, <2>8 DEF HasBody
  <2>12. \A f \in Events \ {e} : HasBody(f)' <=> HasBody(f)
    BY <2>2, <2>8 DEF HasBody
  <2>13. CountsInv'
    BY <2>2, <2>5, <2>7, <2>8, <2>11, <2>12, <1>i DEF CountsInv
  <2> QED
    BY <2>9, <2>10, <2>13 DEF MailInv
<1>13. ASSUME NEW e \in Events, Breaks(e)
       PROVE  MailInv'
  <2> DEFINE r == [server[e] EXCEPT !.open = FALSE]
  <2>1. /\ r \in S /\ r.answer = server[e].answer /\ server' = [server EXCEPT ![e] = r]
        /\ UNCHANGED <<send, accepted, running, abandoned>> /\ broken' \in 0..MaxBroken
    <3>1. server[e] \in S
      BY <1>t
    <3>2. r \in S /\ r.answer = server[e].answer
      BY <3>1 DEF S
    <3>3. /\ server' = [server EXCEPT ![e] = r] /\ broken' = broken + 1 /\ broken < MaxBroken
          /\ UNCHANGED <<send, accepted, running, abandoned>>
      BY <1>13, <1>t DEF Breaks
    <3>4. broken' \in 0..MaxBroken
      BY <3>3, <1>t
    <3> QED
      BY <3>2, <3>3, <3>4
  <2>2. \A f \in Events : server[f]'.answer = server[f].answer
    BY <2>1, <1>t DEF S
  <2>3. MailTypeOK'
    BY <2>1, <1>t, <1>p
  <2>4. LinesInv' /\ CountsInv'
    BY <2>1, <2>2, <1>i DEF LinesInv, CountsInv, HasBody
  <2> QED
    BY <2>3, <2>4 DEF MailInv
<1> QED
  BY <1>1, <1>2, <1>3, <1>4, <1>5, <1>6, <1>7, <1>8, <1>9, <1>10, <1>11, <1>12, <1>13
     DEF MailNext

LEMMA MailHolds == MailSpec => []MailInv
<1>1. MailInit => MailInv
  <2> SUFFICES ASSUME MailInit PROVE MailInv
    OBVIOUS
  <2>1. /\ Unsent \in MailRecord /\ Unsent.line = 1 /\ Unsent.at = "idle"
        /\ Unsent.tried = 0 /\ Unsent.sent = 0 /\ Mails \in Nat \ {0} /\ MaxBroken \in Nat
    BY MailConstants DEF Unsent, MailRecord, MailStates
  <2>2. MailTypeOK
    BY <2>1, MailTypes DEF MailInit, NoServer
  <2>3. LinesInv /\ CountsInv
    BY <2>1 DEF MailInit, LinesInv, CountsInv, HasBody
  <2> QED
    BY <2>2, <2>3 DEF MailInv
<1> QED
  BY <1>1, MailStep, PTL DEF MailSpec

\* Types of the mails and their connections (notification.service.ts), for any events.
THEOREM MailTyped == MailSpec => []MailTypeOK
<1>1. MailInv => MailTypeOK
  BY DEF MailInv
<1> QED
  BY <1>1, MailHolds, PTL

\* A mail that is logged as sent was taken, and no connection takes two, for any
\* number of events, mails and broken connections.
THEOREM MailsAccounted == MailSpec => []SentMeansAccepted
<1>1. MailInv => SentMeansAccepted
  <2> SUFFICES ASSUME MailInv, NEW e \in Events
               PROVE  /\ send[e].sent <= accepted[e]
                      /\ accepted[e] <= send[e].tried +
                           (IF send[e].at \in {"wait", "write"} THEN 1 ELSE 0)
    BY DEF SentMeansAccepted
  <2>1. /\ send[e] \in MailRecord /\ send[e].tried \in Nat /\ send[e].sent \in Nat
        /\ accepted[e] \in Nat /\ send[e].at \in MailStates
    BY MailTypes, MailConstants DEF MailInv, MailRecord
  <2>2. /\ IF HasBody(e) THEN send[e].sent < accepted[e] /\ accepted[e] <= send[e].tried + 1
                         ELSE send[e].sent <= accepted[e] /\ accepted[e] <= send[e].tried
        /\ HasBody(e) => send[e].at \in {"wait", "write"}
    BY <2>1 DEF MailInv, LinesInv, CountsInv, HasBody, MailStates
  <2> QED
    BY <2>1, <2>2
<1> QED
  BY <1>1, MailHolds, PTL

-----------------------------------------------------------------------------
(***************************************************************************)
(* Types of what the modules above keep.  The row cannot hold more edits   *)
(* than were begun: each editor that has read it owes one.                 *)
(***************************************************************************)
EditRecord == [at : {"idle", "read", "written"}, changes : SUBSET Parts,
               catalogue : BOOLEAN, read : Row]
FillRecord == [at : {"idle", "missed", "loaded"}, key : Keys, read : Row]
CopyRecord == [there : BOOLEAN, copy : Row, expires : BOOLEAN]

Reading == {e \in Editors : editor[e].at = "read"}

\* Below what was begun, by as many as are about to write.
Below(r) == \A p \in Parts : r[p] + Cardinality(Reading) <= begun

SettingsInv ==
  /\ SettingsTypeOK /\ IsFiniteSet(Reading)
  /\ Below(settings) /\ Below(edits)
  /\ \A e \in Reading : Below(editor[e].read)

LEMMA SettingsTypes ==
  SettingsTypeOK <=>
    /\ settings \in Row /\ edits \in Row /\ begun \in 0..MaxEdits
    /\ editor \in [Editors -> EditRecord] /\ cache \in [Keys -> CopyRecord]
    /\ fill \in [Readers -> FillRecord]
    /\ outages \in 0..MaxOutages /\ overlapped \subseteq Parts
BY Zenon DEF SettingsTypeOK, EditRecord, FillRecord, CopyRecord

LEMMA NothingTypes ==
  /\ Absent \in CopyRecord /\ NoEdit \in EditRecord /\ NoFill \in FillRecord
  /\ NoEdit.at = "idle" /\ \A op \in Operations : op.changes \subseteq Parts /\ op.catalogue \in BOOLEAN
  /\ \A p \in Parts : Column(p) \subseteq Parts
<1>1. [p \in Parts |-> 0] \in Row
  BY SettingsConstants DEF Row
<1>2. Absent \in CopyRecord /\ NoEdit \in EditRecord /\ NoFill \in FillRecord
  BY <1>1 DEF Absent, NoEdit, NoFill, CopyRecord, EditRecord, FillRecord, Keys
<1>3. NoEdit.at = "idle"
  BY DEF NoEdit
<1>4. \A op \in Operations : op.changes \subseteq Parts /\ op.catalogue \in BOOLEAN
  <2>1. \A op \in Operations : op.changes \subseteq Parts
    BY DEF Operations, Parts, OrderingParts
  <2>2. ASSUME NEW op \in Operations PROVE op.catalogue \in BOOLEAN
    <3>1. \E c : \E b \in BOOLEAN : op = [changes |-> c, catalogue |-> b]
      BY Zenon DEF Operations
    <3>2. PICK c, b : b \in BOOLEAN /\ op = [changes |-> c, catalogue |-> b]
      BY <3>1
    <3>3. op.catalogue = b
      BY <3>2
    <3> QED
      BY <3>2, <3>3, Zenon
  <2> QED
    BY <2>1, <2>2
<1>5. \A p \in Parts : Column(p) \subseteq Parts
  BY DEF Column, Parts, OrderingParts
<1> QED
  BY <1>2, <1>3, <1>4, <1>5

\* One step keeps the types: the edits owed bound what is written.
LEMMA SettingsStep == SettingsInv /\ [SettingsNext]_settingsVars => SettingsInv'
<1> SUFFICES ASSUME SettingsInv, [SettingsNext]_settingsVars PROVE SettingsInv'
  OBVIOUS
<1>t. /\ settings \in Row /\ edits \in Row /\ begun \in 0..MaxEdits
      /\ editor \in [Editors -> EditRecord] /\ cache \in [Keys -> CopyRecord]
      /\ fill \in [Readers -> FillRecord]
      /\ outages \in 0..MaxOutages /\ overlapped \subseteq Parts
  BY SettingsTypes DEF SettingsInv
<1>i. /\ IsFiniteSet(Reading) /\ Cardinality(Reading) \in Nat
      /\ Below(settings) /\ Below(edits) /\ \A e \in Reading : Below(editor[e].read)
  BY FS_CardinalityType DEF SettingsInv
<1>o. Outage => outages' \in 0..MaxOutages
  BY <1>t, SettingsConstants DEF Outage
<1>e. \A r \in EditRecord : /\ r.at \in {"idle", "read", "written"} /\ r.changes \subseteq Parts
                            /\ r.catalogue \in BOOLEAN /\ r.read \in Row
  BY DEF EditRecord
\* Editors and rows that stay.
<1>s. ASSUME UNCHANGED <<settings, edits, begun, editor, overlapped>>,
             cache' \in [Keys -> CopyRecord], fill' \in [Readers -> FillRecord],
             outages' \in 0..MaxOutages
      PROVE  SettingsInv'
  <2>1. SettingsTypeOK'
    BY <1>t, <1>s DEF SettingsTypeOK, EditRecord, FillRecord, CopyRecord
  <2>2. Reading' = Reading
    BY <1>s DEF Reading
  <2>3. /\ settings' = settings /\ edits' = edits /\ begun' = begun /\ editor' = editor
    BY <1>s
  <2> QED
    BY <1>i, <2>1, <2>2, <2>3 DEF SettingsInv, Below
\* An editor stops without writing.
<1>w. ASSUME NEW e \in Editors, NEW r \in EditRecord, r.at # "read",
             UNCHANGED <<settings, edits, begun, overlapped, fill>>,
             editor' = [editor EXCEPT ![e] = r],
             cache' \in [Keys -> CopyRecord], outages' \in 0..MaxOutages
      PROVE  SettingsInv'
  <2>1. editor' \in [Editors -> EditRecord]
    BY <1>t, <1>w
  <2>2. SettingsTypeOK'
    BY <1>t, <1>w, <2>1 DEF SettingsTypeOK, EditRecord, FillRecord, CopyRecord
  <2>3. Reading' \subseteq Reading /\ \A f \in Reading' : editor'[f] = editor[f]
    BY <1>t, <1>w DEF Reading
  <2>4. IsFiniteSet(Reading') /\ Cardinality(Reading') <= Cardinality(Reading)
        /\ Cardinality(Reading') \in Nat
    BY <1>i, <2>3, FS_Subset, FS_CardinalityType
  <2>5. ASSUME NEW q \in Row, Below(q) PROVE \A p \in Parts : q[p] + Cardinality(Reading') <= begun
    BY <1>i, <1>t, <2>4, <2>5, SettingsConstants DEF Below, Row
  <2>6. Below(settings)' /\ Below(edits)'
    BY <1>i, <1>t, <1>w, <2>5 DEF Below
  <2>7. ASSUME NEW f \in Reading' PROVE Below(editor[f].read)'
    <3>1. f \in Reading /\ editor'[f] = editor[f] /\ editor[f].read \in Row
      BY <1>t, <1>e, <2>3 DEF Reading
    <3> QED
      BY <1>i, <1>w, <2>5, <3>1 DEF Below
  <2> QED
    BY <2>2, <2>4, <2>6, <2>7 DEF SettingsInv
<1>1. ASSUME NEW e \in Editors, NEW op \in Operations, BeginEdit(e, op) PROVE SettingsInv'
  <2> DEFINE r == [at |-> "read", changes |-> op.changes, catalogue |-> op.catalogue,
                   read |-> settings]
  <2>1. /\ r \in EditRecord /\ r.at = "read" /\ r.read = settings
    BY <1>t, NothingTypes DEF EditRecord
  <2>2. /\ editor[e] = NoEdit /\ begun < MaxEdits /\ begun' = begun + 1
        /\ editor' = [editor EXCEPT ![e] = r]
        /\ UNCHANGED <<settings, edits, cache, fill, outages>>
    BY <1>1, Zenon DEF BeginEdit
  <2> HIDE DEF r
  <2>3. overlapped' \subseteq Parts
    <3>1. overlapped' = overlapped \cup
            UNION {Column(p) : p \in {q \in op.changes : Editing(Column(q))}}
      BY <1>1, Zenon DEF BeginEdit
    <3>2. UNION {Column(p) : p \in {q \in op.changes : Editing(Column(q))}} \subseteq Parts
      BY NothingTypes
    <3> QED
      BY <1>t, <3>1, <3>2
  <2>4. /\ editor' \in [Editors -> EditRecord] /\ begun' \in 0..MaxEdits
        /\ editor'[e] = r /\ \A f \in Editors \ {e} : editor'[f] = editor[f]
    BY <1>t, <2>1, <2>2, SettingsConstants
  <2>5. SettingsTypeOK'
    BY <1>t, <2>2, <2>3, <2>4 DEF SettingsTypeOK, EditRecord, FillRecord, CopyRecord
  <2>6. Reading' = Reading \cup {e} /\ e \notin Reading
    BY <2>1, <2>2, <2>4, NothingTypes DEF Reading
  <2>7. /\ IsFiniteSet(Reading') /\ Cardinality(Reading') = Cardinality(Reading) + 1
    BY <1>i, <2>6, FS_AddElement
  <2>8. ASSUME NEW q \in Row, Below(q) PROVE \A p \in Parts : q[p] + Cardinality(Reading') <= begun'
    BY <1>i, <1>t, <2>2, <2>7, <2>8, SettingsConstants DEF Below, Row
  <2>9. Below(settings)' /\ Below(edits)'
    BY <1>i, <1>t, <2>2, <2>8 DEF Below
  <2>10. ASSUME NEW f \in Reading' PROVE Below(editor[f].read)'
    <3>1. CASE f = e
      BY <2>1, <2>4, <2>9, <3>1, <2>2 DEF Below
    <3>2. CASE f # e
      <4>1. f \in Reading /\ editor'[f] = editor[f] /\ editor[f].read \in Row
        BY <1>t, <1>e, <2>4, <2>6, <3>2 DEF Reading
      <4> QED
        BY <1>i, <2>8, <4>1 DEF Below
    <3> QED
      BY <3>1, <3>2
  <2> QED
    BY <2>5, <2>7, <2>9, <2>10 DEF SettingsInv
<1>2. ASSUME NEW e \in Editors, WriteEdit(e) PROVE SettingsInv'
  <2> DEFINE r == [editor[e] EXCEPT !.at = "written"]
  <2>1. r \in EditRecord /\ r.at = "written"
    BY <1>t DEF EditRecord
  <2>2. /\ editor[e].at = "read" /\ editor' = [editor EXCEPT ![e] = r]
        /\ settings' = [p \in Parts |-> Written(settings, editor[e], p)]
        /\ edits' = [p \in Parts |-> edits[p] + IF p \in editor[e].changes THEN 1 ELSE 0]
        /\ UNCHANGED <<begun, cache, fill, outages, overlapped>>
    BY <1>2, Zenon DEF WriteEdit
  <2> HIDE DEF r
  <2>3. /\ editor' \in [Editors -> EditRecord] /\ editor'[e] = r
        /\ \A f \in Editors \ {e} : editor'[f] = editor[f]
    BY <1>t, <2>1, <2>2
  <2>4. Reading' = Reading \ {e} /\ e \in Reading
    BY <2>1, <2>2, <2>3 DEF Reading
  <2>5. /\ IsFiniteSet(Reading') /\ Cardinality(Reading') = Cardinality(Reading) - 1
        /\ Cardinality(Reading') \in Nat
    BY <1>i, <2>4, FS_RemoveElement, FS_CardinalityType
  <2>6. editor[e].read \in Row /\ Below(editor[e].read)
    BY <1>t, <1>e, <1>i, <2>4
  <2>7. ASSUME NEW p \in Parts
        PROVE  /\ settings'[p] \in Nat /\ settings'[p] + Cardinality(Reading') <= begun
               /\ edits'[p] \in Nat /\ edits'[p] + Cardinality(Reading') <= begun
    <3>1. /\ settings[p] \in Nat /\ settings[p] + Cardinality(Reading) <= begun
          /\ edits[p] \in Nat /\ edits[p] + Cardinality(Reading) <= begun
          /\ editor[e].read[p] \in Nat /\ editor[e].read[p] + Cardinality(Reading) <= begun
      BY <1>t, <1>i, <2>6, SettingsConstants DEF Below, Row
    <3>2. settings'[p] \in {editor[e].read[p] + 1, editor[e].read[p], settings[p]}
      BY <2>2 DEF Written
    <3>3. edits'[p] \in {edits[p] + 1, edits[p]}
      BY <2>2, <3>1
    <3> QED
      BY <1>t, <1>i, <2>5, <3>1, <3>2, <3>3, SettingsConstants
  <2>8. settings' \in Row /\ edits' \in Row
    <3>1. /\ settings' = [p \in Parts |-> settings'[p]] /\ edits' = [p \in Parts |-> edits'[p]]
      BY <2>2
    <3>2. \A p \in Parts : settings'[p] \in 0..MaxEdits /\ edits'[p] \in 0..MaxEdits
      BY <1>t, <2>5, <2>7, SettingsConstants
    <3> QED
      BY <3>1, <3>2 DEF Row
  <2>9. SettingsTypeOK'
    BY <1>t, <2>2, <2>3, <2>8 DEF SettingsTypeOK, EditRecord, FillRecord, CopyRecord
  <2>10. Below(settings)' /\ Below(edits)'
    BY <2>2, <2>7 DEF Below
  <2>11. ASSUME NEW f \in Reading' PROVE Below(editor[f].read)'
    <3>1. f \in Reading /\ editor'[f] = editor[f] /\ editor[f].read \in Row
      BY <1>t, <1>e, <2>3, <2>4 DEF Reading
    <3>2. PICK q \in Row : q = editor[f].read
      BY <3>1
    <3>3. \A p \in Parts : q[p] + Cardinality(Reading') <= begun
      BY <1>i, <1>t, <2>5, <3>1, <3>2, SettingsConstants DEF Below, Row
    <3> QED
      BY <2>2, <3>1, <3>2, <3>3 DEF Below
  <2> QED
    BY <2>5, <2>9, <2>10, <2>11 DEF SettingsInv
<1>3. ASSUME NEW e \in Editors, Invalidate(e) PROVE SettingsInv'
  <2>1. cache' \in [Keys -> CopyRecord]
    BY <1>3, <1>t, NothingTypes DEF Invalidate
  <2>2. outages' \in 0..MaxOutages
    BY <1>3, <1>t, <1>o DEF Invalidate
  <2>3. editor' = [editor EXCEPT ![e] = NoEdit]
        /\ UNCHANGED <<settings, edits, begun, fill, overlapped>>
    BY <1>3 DEF Invalidate
  <2> QED
    BY <1>w, <2>1, <2>2, <2>3, NothingTypes
<1>4. ASSUME NEW e \in Editors, EditFails(e) PROVE SettingsInv'
  <2>1. editor' = [editor EXCEPT ![e] = NoEdit]
        /\ UNCHANGED <<settings, edits, begun, fill, overlapped>>
        /\ cache' \in [Keys -> CopyRecord] /\ outages' \in 0..MaxOutages
    BY <1>4, <1>t DEF EditFails
  <2> QED
    BY <1>w, <2>1, NothingTypes
<1>5. ASSUME NEW r \in Readers, NEW k \in Keys, Miss(r, k) PROVE SettingsInv'
  <2>1. fill' \in [Readers -> FillRecord]
    <3>1. fill' = [fill EXCEPT ![r] = [fill[r] EXCEPT !.at = "missed", !.key = k]]
      BY <1>5, <1>t DEF Miss
    <3>2. [fill[r] EXCEPT !.at = "missed", !.key = k] \in FillRecord
      BY <1>t DEF FillRecord
    <3> QED
      BY <1>t, <3>1, <3>2
  <2>2. outages' \in 0..MaxOutages
    BY <1>5, <1>t, <1>o DEF Miss
  <2>3. UNCHANGED <<settings, edits, begun, editor, overlapped>> /\ cache' \in [Keys -> CopyRecord]
    BY <1>5, <1>t DEF Miss
  <2> QED
    BY <1>s, <2>1, <2>2, <2>3
<1>6. ASSUME NEW r \in Readers, Load(r) \/ Store(r) PROVE SettingsInv'
  <2>1. fill[r] \in FillRecord
    BY <1>t
  <2>2. fill[r].read \in Row /\ fill[r].key \in Keys
    BY <2>1 DEF FillRecord
  <2>3. CASE Load(r)
    <3>1. fill' = [fill EXCEPT ![r] = [fill[r] EXCEPT !.at = "loaded", !.read = settings]]
      BY <1>t, <2>3 DEF Load
    <3>2. [fill[r] EXCEPT !.at = "loaded", !.read = settings] \in FillRecord
      BY <1>t, <2>1 DEF FillRecord
    <3>3. fill' \in [Readers -> FillRecord]
      BY <1>t, <3>1, <3>2
    <3>4. /\ UNCHANGED <<settings, edits, begun, editor, overlapped>>
          /\ cache' \in [Keys -> CopyRecord] /\ outages' \in 0..MaxOutages
      BY <1>t, <2>3 DEF Load
    <3> QED
      BY <1>s, <3>3, <3>4
  <2>4. CASE Store(r)
    <3>1. Copy(fill[r].read) \in CopyRecord
      BY <2>2 DEF Copy, CopyRecord
    <3>2. cache' \in [Keys -> CopyRecord] /\ outages' \in 0..MaxOutages
      BY <1>t, <1>o, <2>2, <2>4, <3>1 DEF Store
    <3>3. fill' \in [Readers -> FillRecord] /\ UNCHANGED <<settings, edits, begun, editor, overlapped>>
      BY <1>t, <2>4, NothingTypes DEF Store
    <3> QED
      BY <1>s, <3>2, <3>3
  <2> QED
    BY <1>6, <2>3, <2>4
<1>7. ASSUME NEW k \in Keys, Expire(k) PROVE SettingsInv'
  <2>1. cache' \in [Keys -> CopyRecord] /\ fill' \in [Readers -> FillRecord]
        /\ outages' \in 0..MaxOutages /\ UNCHANGED <<settings, edits, begun, editor, overlapped>>
    BY <1>7, <1>t, NothingTypes DEF Expire
  <2> QED
    BY <1>s, <2>1
<1>8. CASE UNCHANGED settingsVars
  <2>1. UNCHANGED <<settings, edits, begun, editor, overlapped>> /\ cache' = cache
        /\ fill' = fill /\ outages' = outages
    BY <1>8 DEF settingsVars
  <2> QED
    BY <1>s, <1>t, <2>1
<1> QED
  BY <1>1, <1>2, <1>3, <1>4, <1>5, <1>6, <1>7, <1>8 DEF SettingsNext

\* Types of the settings, their edits and cached copies (admin-settings.service.ts,
\* public-config.service.ts), for any editors, readers and number of edits.
THEOREM SettingsTyped == SettingsSpec => []SettingsTypeOK
<1>1. SettingsInit => SettingsInv
  <2> SUFFICES ASSUME SettingsInit PROVE SettingsInv
    OBVIOUS
  <2>1. SettingsTypeOK
    BY SettingsConstants, NothingTypes DEF SettingsInit, SettingsTypeOK, EditRecord,
       FillRecord, CopyRecord, Row
  <2>2. Reading = {}
    BY NothingTypes DEF SettingsInit, Reading
  <2>3. IsFiniteSet(Reading) /\ Cardinality(Reading) = 0
    BY <2>2, FS_EmptySet
  <2> QED
    BY <2>1, <2>2, <2>3 DEF SettingsInv, SettingsInit, Below
<1>2. SettingsInv => SettingsTypeOK
  BY DEF SettingsInv
<1> QED
  BY <1>1, <1>2, SettingsStep, PTL DEF SettingsSpec

-----------------------------------------------------------------------------
\* The window counts no more than the calls that were made.
WindowInv == LimitTypeOK /\ window.count <= calls

LEMMA WindowStep == WindowInv /\ [LimitNext]_limitVars => WindowInv'
<1> SUFFICES ASSUME WindowInv, [LimitNext]_limitVars PROVE WindowInv'
  OBVIOUS
<1> DEFINE Windows == [count : 0..MaxCalls, timed : BOOLEAN]
           States == {"idle", "expire", "passed", "refused"}
<1>t. /\ window \in Windows /\ caller \in [Callers -> States] /\ calls \in 0..MaxCalls
      /\ redisFailures \in 0..MaxRedisFailures /\ orphaned \in BOOLEAN
      /\ window.count <= calls /\ window.count \in 0..MaxCalls /\ window.timed \in BOOLEAN
  BY DEF WindowInv, LimitTypeOK
<1> DEFINE Goal == /\ window' \in Windows /\ window'.count <= calls'
                   /\ calls' \in 0..MaxCalls /\ caller' \in [Callers -> States]
                   /\ redisFailures' \in 0..MaxRedisFailures /\ orphaned' \in BOOLEAN
<1> SUFFICES Goal
  BY Zenon DEF WindowInv, LimitTypeOK
<1>1. ASSUME NEW c \in Callers, Count(c) PROVE Goal
  <2>1. /\ calls < MaxCalls /\ calls' = calls + 1 /\ window' = [window EXCEPT !.count = window.count + 1]
        /\ UNCHANGED <<redisFailures, orphaned>>
    BY <1>1 DEF Count
  <2>2. window' \in Windows /\ window'.count = window.count + 1 /\ calls' \in 0..MaxCalls
    BY <1>t, <2>1, LimitConstants
  <2>3. caller' \in [Callers -> States]
    BY <1>t, <1>1 DEF Count
  <2> QED
    BY <1>t, <2>1, <2>2, <2>3
<1>2. ASSUME NEW c \in Callers, SetExpiry(c) PROVE Goal
  <2>1. (window.count > 0) \in BOOLEAN
    OBVIOUS
  <2>2. PICK b \in BOOLEAN : window' = [window EXCEPT !.timed = b]
    BY <1>2, <2>1, Zenon DEF SetExpiry
  <2>3. window' \in Windows /\ window'.count = window.count
    BY <1>t, <2>2
  <2>4. caller' \in [Callers -> States] /\ UNCHANGED <<calls, redisFailures, orphaned>>
    BY <1>t, <1>2 DEF SetExpiry
  <2> QED
    BY <1>t, <2>3, <2>4
<1>3. ASSUME NEW c \in Callers, RedisFails(c) PROVE Goal
  <2>1. orphaned' \in BOOLEAN
    BY <1>t, <1>3, Zenon DEF RedisFails
  <2>2. /\ redisFailures' \in 0..MaxRedisFailures /\ caller' \in [Callers -> States]
        /\ window' = window /\ calls' = calls
    BY <1>t, <1>3, LimitConstants DEF RedisFails
  <2> QED
    BY <1>t, <2>1, <2>2
<1>4. ASSUME NEW c \in Callers, EndCall(c) PROVE Goal
  BY <1>t, <1>4 DEF EndCall
<1>5. CASE WindowEnds
  <2>1. NoWindow \in Windows /\ NoWindow.count = 0
    BY LimitConstants DEF NoWindow
  <2>2. window' = NoWindow /\ UNCHANGED <<caller, calls, redisFailures, orphaned>>
    BY <1>5 DEF WindowEnds
  <2> QED
    BY <1>t, <2>1, <2>2
<1>6. CASE UNCHANGED limitVars
  BY <1>t, <1>6 DEF limitVars
<1> QED
  BY <1>1, <1>2, <1>3, <1>4, <1>5, <1>6, Zenon DEF LimitNext

\* Types of the window and its calls (redis-rate-limit.service.ts), for any callers
\* and limit.
THEOREM LimitTyped == LimitSpec => []LimitTypeOK
<1>1. LimitInit => WindowInv
  <2> SUFFICES ASSUME LimitInit PROVE WindowInv
    OBVIOUS
  <2>1. window \in [count : 0..MaxCalls, timed : BOOLEAN] /\ window.count = 0
    BY LimitConstants DEF LimitInit, NoWindow
  <2>2. orphaned \in BOOLEAN
    BY Zenon DEF LimitInit
  <2> QED
    BY <2>1, <2>2, LimitConstants DEF LimitInit, WindowInv, LimitTypeOK
<1>2. WindowInv => LimitTypeOK
  BY DEF WindowInv
<1> QED
  BY <1>1, <1>2, WindowStep, PTL DEF LimitSpec

-----------------------------------------------------------------------------
ListShown == [Items -> 0..MaxDeskEdits + 1]
RefreshRecord == [at : {"idle", "sent", "refused", "leaving"}, session : 0..MaxSessions,
                  unread : SUBSET Lists, list : ListShown]

LEMMA DeskTypes ==
  DeskTypeOK <=>
    /\ item \in [Items -> SomeRow] /\ deskEdits \in 0..MaxDeskEdits
    /\ {session, stored, sessions, entering, acting} \subseteq 0..MaxSessions
    /\ ended \subseteq 1..MaxSessions /\ leaving \in BOOLEAN
    /\ refresh \in [Refreshes -> RefreshRecord] /\ shown \in ListShown
    /\ deskFaults \in 0..MaxDeskFaults
BY Zenon DEF DeskTypeOK, RefreshRecord, ListShown

\* One step keeps the types of the lists and of what is about to change them.
LEMMA DeskStep == DeskTypeOK /\ [DeskNext]_deskVars => DeskTypeOK'
<1> SUFFICES ASSUME DeskTypeOK, [DeskNext]_deskVars PROVE DeskTypeOK'
  OBVIOUS
<1> DEFINE Numbers == 0..MaxSessions
           Goal == /\ item' \in [Items -> SomeRow] /\ deskEdits' \in 0..MaxDeskEdits
                   /\ {session', stored', sessions', entering', acting'} \subseteq Numbers
                   /\ ended' \subseteq 1..MaxSessions /\ leaving' \in BOOLEAN
                   /\ refresh' \in [Refreshes -> RefreshRecord] /\ shown' \in ListShown
                   /\ deskFaults' \in 0..MaxDeskFaults
<1> SUFFICES Goal
  BY Zenon DEF DeskTypeOK, RefreshRecord, ListShown
<1>t. /\ item \in [Items -> SomeRow] /\ deskEdits \in 0..MaxDeskEdits
      /\ {session, stored, sessions, entering, acting} \subseteq Numbers
      /\ ended \subseteq 1..MaxSessions /\ leaving \in BOOLEAN
      /\ refresh \in [Refreshes -> RefreshRecord] /\ shown \in ListShown
      /\ deskFaults \in 0..MaxDeskFaults
  BY DeskTypes
<1>z. 0 \in Numbers /\ Blank \in ListShown /\ NoRefresh \in RefreshRecord
  BY DeskConstants DEF Blank, NoRefresh, RefreshRecord, ListShown
<1>f. DeskFault => deskFaults' \in 0..MaxDeskFaults
  BY <1>t, DeskConstants DEF DeskFault
<1>b. ASSUME NEW f \in Refreshes, NEW s \in Numbers, Begun(f, s)
      PROVE  refresh' \in [Refreshes -> RefreshRecord]
  <2>1. [at |-> "sent", session |-> s, unread |-> Lists, list |-> Blank] \in RefreshRecord
    BY <1>z DEF RefreshRecord
  <2> QED
    BY <1>b, <1>t, <2>1 DEF Begun
<1>e. ASSUME NEW f \in Refreshes, NEW r \in RefreshRecord, refresh' = [refresh EXCEPT ![f] = r]
      PROVE  refresh' \in [Refreshes -> RefreshRecord]
  BY <1>e, <1>t
<1>c. ASSUME NEW i \in Items, NEW r \in SomeRow, Changed(i, r)
      PROVE  item' \in [Items -> SomeRow] /\ deskEdits' \in 0..MaxDeskEdits
  BY <1>c, <1>t, DeskConstants DEF Changed
<1>1. CASE StaffLogin
  <2>1. sessions + 1 \in Numbers
    BY <1>1, <1>t, DeskConstants DEF StaffLogin
  <2> QED
    BY <1>1, <1>t, <2>1 DEF StaffLogin
<1>2. CASE StaffLoginEnds
  BY <1>2, <1>t, <1>z DEF StaffLoginEnds, deskServer
<1>3. CASE StaffLogout
  <2>1. leaving' \in BOOLEAN
    BY <1>3, Zenon DEF StaffLogout
  <2> QED
    BY <1>3, <1>t, <1>z, <2>1 DEF StaffLogout, deskServer
<1>4. CASE StaffLogoutEnds
  <2>1. leaving' \in BOOLEAN
    BY <1>4, Zenon DEF StaffLogoutEnds
  <2> QED
    BY <1>4, <1>t, <1>z, <2>1 DEF StaffLogoutEnds, deskServer
<1>5. CASE Restart
  <2>1. leaving' \in BOOLEAN
    BY <1>5, Zenon DEF Restart
  <2>2. refresh' \in [Refreshes -> RefreshRecord] /\ shown' \in ListShown
    BY <1>5, <1>z DEF Restart
  <2> QED
    BY <1>5, <1>t, <1>z, <1>f, <2>1, <2>2 DEF Restart, deskServer
<1>6. CASE Act
  BY <1>6, <1>t DEF Act, deskServer, deskLogin
<1>7. ASSUME NEW s \in 1..MaxSessions, SessionExpires(s) PROVE Goal
  BY <1>7, <1>t DEF SessionExpires, deskLogin
<1>8. ASSUME NEW f \in Refreshes, Refresh(f) PROVE Goal
  <2>1. refresh' \in [Refreshes -> RefreshRecord]
    BY <1>8, <1>b, <1>t DEF Refresh
  <2> QED
    BY <1>8, <1>t, <2>1 DEF Refresh, deskServer, deskLogin
<1>9. ASSUME NEW f \in Refreshes, RefreshEnds(f) PROVE Goal
  <2>1. refresh[f] \in RefreshRecord
    BY <1>t
  <2>2. refresh[f].list \in ListShown
    BY <2>1 DEF RefreshRecord
  <2>3. refresh' \in [Refreshes -> RefreshRecord] /\ shown' \in ListShown
    BY <1>9, <1>t, <1>e, <1>z, <2>2 DEF RefreshEnds
  <2> QED
    BY <1>9, <1>t, <2>3 DEF RefreshEnds, deskServer, deskLogin
<1>10. ASSUME NEW f \in Refreshes, RefreshRefused(f) PROVE Goal
  <2>1. [refresh[f] EXCEPT !.at = "leaving"] \in RefreshRecord
    BY <1>t DEF RefreshRecord
  <2>2. refresh' = [refresh EXCEPT ![f] = [refresh[f] EXCEPT !.at = "leaving"]]
    BY <1>10, <1>t DEF RefreshRefused
  <2>3. refresh' \in [Refreshes -> RefreshRecord]
    BY <1>e, <2>1, <2>2
  <2> QED
    BY <1>10, <1>t, <1>z, <2>3 DEF RefreshRefused, deskServer
<1>11. ASSUME NEW f \in Refreshes, RefreshLeaves(f) PROVE Goal
  <2>1. refresh' \in [Refreshes -> RefreshRecord]
    BY <1>11, <1>e, <1>z DEF RefreshLeaves
  <2> QED
    BY <1>11, <1>t, <1>z, <2>1 DEF RefreshLeaves, deskServer
<1>12. ASSUME NEW f \in Refreshes, RefreshFails(f) PROVE Goal
  <2>1. refresh' \in [Refreshes -> RefreshRecord]
    BY <1>12, <1>e, <1>z DEF RefreshFails
  <2> QED
    BY <1>12, <1>t, <1>f, <2>1 DEF RefreshFails, deskServer, deskLogin
<1>13. ASSUME NEW f \in Refreshes, NEW l \in refresh[f].unread, ReadList(f, l) PROVE Goal
  <2> DEFINE rows == [i \in Items |-> IF i \in l /\ ~item[i].hidden
                                      THEN item[i].edits ELSE refresh[f].list[i]]
  <2>1. refresh[f] \in RefreshRecord
    BY <1>t
  <2>2. refresh[f].list \in ListShown /\ refresh[f].unread \subseteq Lists
    BY <2>1 DEF RefreshRecord
  <2>3. rows \in ListShown
    <3>1. \A i \in Items : item[i].edits \in 0..MaxDeskEdits + 1
      <4>1. \A r \in SomeRow : r.edits \in 1..MaxDeskEdits + 1
        BY DEF SomeRow
      <4> QED
        BY <1>t, <4>1, DeskConstants
    <3> QED
      BY <2>2, <3>1 DEF ListShown
  <2>4. WithList(refresh[f], l) \in RefreshRecord
    <3>1. CASE refresh[f].session \in ended
      BY <1>z, <3>1 DEF WithList, RefreshRecord
    <3>2. CASE refresh[f].session \notin ended
      <4>1. WithList(refresh[f], l) =
              [refresh[f] EXCEPT !.unread = refresh[f].unread \ {l}, !.list = rows]
        BY <3>2 DEF WithList
      <4> HIDE DEF rows
      <4> QED
        BY <2>1, <2>2, <2>3, <4>1 DEF RefreshRecord
    <3> QED
      BY <3>1, <3>2
  <2>5. refresh' = [refresh EXCEPT ![f] = WithList(refresh[f], l)]
    BY <1>13, Zenon DEF ReadList
  <2>7. refresh' \in [Refreshes -> RefreshRecord]
    BY <1>e, <2>4, <2>5
  <2> QED
    BY <1>13, <1>t, <2>7 DEF ReadList, deskServer, deskLogin
<1>14. ASSUME NEW i \in Items, NEW r \in SomeRow, ChangeElsewhere(i, r) PROVE Goal
  <2>1. item' \in [Items -> SomeRow] /\ deskEdits' \in 0..MaxDeskEdits
    BY <1>14, <1>c DEF ChangeElsewhere
  <2> QED
    BY <1>14, <1>t, <2>1 DEF ChangeElsewhere, deskLogin
<1>15. ASSUME NEW i \in Items, NEW r \in SomeRow, ActionFails(i, r) PROVE Goal
  <2>1. item' \in [Items -> SomeRow] /\ deskEdits' \in 0..MaxDeskEdits
    BY <1>15, <1>c, <1>t DEF ActionFails
  <2>2. deskFaults' \in 0..MaxDeskFaults
    BY <1>15, <1>f, <1>t DEF ActionFails
  <2>3. acting' = 0 /\ UNCHANGED <<sessions, ended, deskLogin, refresh, shown>>
    BY <1>15 DEF ActionFails
  <2> QED
    BY <1>t, <1>z, <2>1, <2>2, <2>3 DEF deskLogin
<1>16. ASSUME NEW i \in Items, NEW r \in SomeRow, NEW f \in Refreshes, ActionWritten(i, r, f)
       PROVE  Goal
  <2>1. item' \in [Items -> SomeRow] /\ deskEdits' \in 0..MaxDeskEdits
    BY <1>16, <1>c DEF ActionWritten
  <2>2. refresh' \in [Refreshes -> RefreshRecord]
    BY <1>16, <1>b, <1>t DEF ActionWritten
  <2> QED
    BY <1>16, <1>t, <1>z, <2>1, <2>2 DEF ActionWritten, deskLogin
<1>17. CASE UNCHANGED deskVars
  BY <1>t, <1>17 DEF deskVars, deskServer, deskLogin
<1> HIDE DEF Goal
<1> QED
  BY <1>1, <1>2, <1>3, <1>4, <1>5, <1>6, <1>7, <1>8, <1>9, <1>10, <1>11, <1>12, <1>13,
     <1>14, <1>15, <1>16, <1>17, Zenon DEF DeskNext

\* Types of the rows, the lists the staff see and their refreshes (App.js of the
\* operations app), for any lists, refreshes and sessions.
THEOREM DeskTyped == DeskSpec => []DeskTypeOK
<1>1. DeskInit => DeskTypeOK
  <2> SUFFICES ASSUME DeskInit PROVE DeskTypeOK
    OBVIOUS
  <2>1. Blank \in ListShown /\ NoRefresh \in RefreshRecord
    BY DeskConstants DEF Blank, NoRefresh, RefreshRecord, ListShown
  <2>2. item \in [Items -> SomeRow]
    <3>1. \A r \in [edits : {1}, hidden : BOOLEAN] : r \in SomeRow
      BY DeskConstants DEF SomeRow
    <3> QED
      BY <3>1 DEF DeskInit
  <2>3. leaving \in BOOLEAN
    BY Zenon DEF DeskInit
  <2>4. /\ refresh \in [Refreshes -> RefreshRecord] /\ shown \in ListShown
        /\ ended \subseteq 1..MaxSessions
        /\ {session, stored, sessions, entering, acting} \subseteq 0..MaxSessions
        /\ deskEdits \in 0..MaxDeskEdits /\ deskFaults \in 0..MaxDeskFaults
    BY <2>1, DeskConstants DEF DeskInit
  <2> QED
    BY <2>2, <2>3, <2>4, DeskTypes
<1> QED
  BY <1>1, DeskStep, PTL DEF DeskSpec

-----------------------------------------------------------------------------
\* A behaviour of the back office is one of each of its parts, whichever it follows.
LEMMA BackOfficeParts ==
  BackOfficeSpec => /\ SettingsSpec /\ OrdersSpec /\ LimitSpec
                    /\ AccountsSpec /\ MailSpec /\ DeskSpec
<1>1. BackOfficeInit => /\ SettingsInit /\ OrdersInit /\ LimitInit
                        /\ AccountsInit /\ MailInit /\ DeskInit
  BY Zenon DEF BackOfficeInit
<1>2. [BackOfficeNext]_backOfficeVars => [SettingsNext]_settingsVars
  BY Zenon DEF BackOfficeNext, backOfficeVars, SettingsNext, Edits, Buys, Limits, Manages,
     Sends, Serves
<1>3. [BackOfficeNext]_backOfficeVars => [OrdersNext]_orderVars
  BY Zenon DEF BackOfficeNext, backOfficeVars, OrdersNext, Edits, Buys, Limits, Manages,
     Sends, Serves
<1>4. [BackOfficeNext]_backOfficeVars => [LimitNext]_limitVars
  BY Zenon DEF BackOfficeNext, backOfficeVars, LimitNext, Edits, Buys, Limits, Manages,
     Sends, Serves
<1>5. [BackOfficeNext]_backOfficeVars => [AccountsNext]_accountVars
  BY Zenon DEF BackOfficeNext, backOfficeVars, AccountsNext, Edits, Buys, Limits, Manages,
     Sends, Serves
<1>6. [BackOfficeNext]_backOfficeVars => [MailNext]_mailVars
  BY Zenon DEF BackOfficeNext, backOfficeVars, MailNext, Edits, Buys, Limits, Manages,
     Sends, Serves
<1>7. [BackOfficeNext]_backOfficeVars => [DeskNext]_deskVars
  BY Zenon DEF BackOfficeNext, backOfficeVars, DeskNext, Edits, Buys, Limits, Manages,
     Sends, Serves
<1> QED
  BY <1>1, <1>2, <1>3, <1>4, <1>5, <1>6, <1>7, PTL
     DEF BackOfficeSpec, SettingsSpec, OrdersSpec, LimitSpec, AccountsSpec, MailSpec, DeskSpec

\* Types of the whole back end, for every value of its constants.
THEOREM BackOfficeTyped == BackOfficeSpec => []BackOfficeTypeOK
<1>1. SettingsTypeOK /\ OrdersTypeOK /\ LimitTypeOK /\ AccountsTypeOK /\ MailTypeOK
        /\ DeskTypeOK => BackOfficeTypeOK
  BY Zenon DEF BackOfficeTypeOK
<1> QED
  BY <1>1, BackOfficeParts, SettingsTyped, OrdersTyped, LimitTyped, AccountsTyped,
     MailTyped, DeskTyped, PTL

\* What each part keeps, while the others work.
THEOREM BackOfficeKeeps ==
  BackOfficeSpec => /\ [](NoLostEdit /\ SentMeansAccepted)
                    /\ [](PromotionKept /\ OrderTotals /\ AccountsKept)
BY BackOfficeParts, NoEditLost, MailsAccounted, PromotionIsKept, AmountsAgree,
   AccountsAreKept, PTL
=================================================================================
