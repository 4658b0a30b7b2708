------------------------------- MODULE OrderMails -------------------------------
(***************************************************************************)
(* The changes of one order or reservation, and the mails about them       *)
(* (orders.service.ts, reservations.service.ts, publish of                 *)
(* notification.service.ts).                                               *)
(*                                                                         *)
(* A change reads the row, writes it, and its request goes on to build the *)
(* mails and to send them one after the other.  Nothing orders the changes *)
(* of one row: each writes what it made of the row it read, and each mail  *)
(* is built from the row as it is then.  How a mail is sent is in          *)
(* MailDelivery.                                                           *)
(*                                                                         *)
(* A row is the list of its writes.  A mail is what it is about (the write *)
(* of its change), the write it tells (the newest when it was built), and  *)
(* the status, the preparation time and the hour it says; its other fields *)
(* never change, and its layout is left out.                               *)
(***************************************************************************)
EXTENDS Naturals, Sequences

CONSTANTS
  NumChanges,    \* the creation and the changes of status
  PrepTimes,     \* preparation times an acceptance may name
  MaxMailFaults

ASSUME OrderMailConstants ==
  NumChanges \in Nat \ {0} /\ PrepTimes \subseteq Nat \ {0} /\ MaxMailFaults \in Nat

Changes == 1..NumChanges

VARIABLES
  kind,       \* "order" or "reservation"
  reachable,  \* of "customer" and "restaurant", those with an address
  row,        \* its writes: the status, the preparation time, the write that was read
  change,     \* the requests
  sent,       \* mails handed to the mail server, in their order
  mailFaults

orderMailVars == <<kind, reachable, row, change, sent, mailFaults>>

NoChange == [at |-> "idle", status |-> "none", prep |-> 0, base |-> 0, about |-> 0,
             due |-> <<>>]

OrderMailsInit ==
  /\ kind = "order" /\ reachable = {} /\ row = <<>>
  /\ change = [c \in Changes |-> NoChange] /\ sent = <<>> /\ mailFaults = 0

MailFault == mailFaults < MaxMailFaults /\ mailFaults' = mailFaults + 1

First(k) == IF k = "order" THEN "new" ELSE "pending"
Asked(k) == IF k = "order" THEN {"accepted", "ready", "completed"}
            ELSE {"confirmed", "cancelled"}
-----------------------------------------------------------------------------
\* create of an order or createReservation: its request is the first change.
Create(k, reach) ==
  /\ row = <<>> /\ change[1].at = "idle"
  /\ kind' = k /\ reachable' = reach
  /\ row' = <<[status |-> First(k), prep |-> 0, base |-> 0]>>
  /\ change' = [change EXCEPT ![1].at = "customer", ![1].status = First(k), ![1].about = 1]
  /\ UNCHANGED <<sent, mailFaults>>

\* updateStatus or updateReservationStatus; any status may follow any other.
ReadRow(c, status, prep) ==
  /\ c # 1 /\ change[c].at = "idle" /\ row # <<>> /\ \A d \in 1..c - 1 : change[d].at # "idle"
  /\ status \in Asked(kind) /\ (prep # 0 => status = "accepted")
  /\ change' = [change EXCEPT ![c] = [NoChange EXCEPT !.at = "read", !.status = status,
                                      !.prep = prep, !.base = Len(row)]]
  /\ UNCHANGED <<kind, reachable, row, sent, mailFaults>>

\* Mutant of Prep: the time is forgotten when the order is ready.
PrepForgotten(ch) == ch.prep

\* The time that is asked, or the one that was read.
Prep(ch) == IF ch.prep # 0 THEN ch.prep ELSE row[ch.base].prep

WriteRow(c) ==
  /\ change[c].at = "read"
  /\ row' = Append(row, [status |-> change[c].status, prep |-> Prep(change[c]),
                         base |-> change[c].base])
  /\ change' = [change EXCEPT ![c].at = "customer", ![c].about = Len(row')]
  /\ UNCHANGED <<kind, reachable, sent, mailFaults>>

\* Mutant of Told: the mail is built from the row that was read.
ToldFromRead(ch) == IF ch.base = 0 THEN 1 ELSE ch.base

\* The write a mail tells: its builder reads the row again.
Told(ch) == Len(row)

\* Mutant of OrderText: no text for an order that is ready.
OrderTextUnready(status) ==
  IF status \in {"new", "accepted", "completed", "cancelled"} THEN status ELSE "update"

\* The texts there are; another status would be told as an update.
OrderText(status) ==
  IF status \in {"new", "accepted", "ready", "completed", "cancelled"} THEN status ELSE "update"
ReservationText(status) ==
  IF status \in {"pending", "confirmed", "cancelled"} THEN status ELSE "update"

\* Mutant of HasHour: a row that is ready has no hour.
HasHourOfPrep(r) == r.status = "accepted" /\ r.prep # 0

\* readyAt of the row.
HasHour(r) == r.status = "ready" \/ (r.status = "accepted" /\ r.prep # 0)

\* Without an hour in the row, the time of the change itself is told as one.
OrderMail(ch) == LET r == row[Told(ch)] IN
  [says |-> OrderText(r.status), prep |-> IF r.status = "accepted" THEN r.prep ELSE 0,
   hour |-> IF HasHour(r) THEN "row" ELSE IF row[ch.about].prep # 0 THEN "change" ELSE "none"]

ReservationMail(ch) ==
  [says |-> ReservationText(row[Told(ch)].status), prep |-> 0, hour |-> "none"]

\* The restaurant is told of something new whatever has become of it.
NewOrderMail == [says |-> "new", prep |-> 0, hour |-> "none"]
NewReservationMail == [says |-> "pending", prep |-> 0, hour |-> "none"]

CustomerMail(ch) == IF kind = "order" THEN OrderMail(ch) ELSE ReservationMail(ch)
RestaurantMail == IF kind = "order" THEN NewOrderMail ELSE NewReservationMail

\* What every mail has; its shell is left out.
Mail(ch, to, text) == [to |-> to, about |-> ch.about, tells |-> Told(ch), text |-> text]

Built(c, to, text, next) ==
  change' = [change EXCEPT ![c].at = next, ![c].due = Append(@, Mail(change[c], to, text))]

\* The customer is told of each change but the end of an order.
CustomerDue(ch) ==
  "customer" \in reachable /\ ~(kind = "order" /\ ch.status = "completed")

TellCustomer(c) ==
  /\ change[c].at = "customer"
  /\ IF CustomerDue(change[c]) THEN Built(c, "customer", CustomerMail(change[c]), "staff")
     ELSE change' = [change EXCEPT ![c].at = "staff"]
  /\ UNCHANGED <<kind, reachable, row, sent, mailFaults>>

\* shouldSendRestaurantNotification and the address of the restaurant.
StaffDue(ch) == "restaurant" \in reachable /\ ch.status = First(kind)

TellStaff(c) ==
  /\ change[c].at = "staff"
  /\ IF StaffDue(change[c]) THEN Built(c, "restaurant", RestaurantMail, "sending")
     ELSE change' = [change EXCEPT ![c].at = "sending"]
  /\ UNCHANGED <<kind, reachable, row, sent, mailFaults>>

\* One mail after the other; one that fails is logged.
Deliver(c) ==
  /\ change[c].at = "sending" /\ change[c].due # <<>>
  /\ sent' = Append(sent, Head(change[c].due))
  /\ change' = [change EXCEPT ![c].due = Tail(@)]
  /\ UNCHANGED <<kind, reachable, row, mailFaults>>

\* The request is answered.
ChangeEnds(c) ==
  /\ change[c].at = "sending" /\ change[c].due = <<>>
  /\ change' = [change EXCEPT ![c].at = "over"]
  /\ UNCHANGED <<kind, reachable, row, sent, mailFaults>>

\* The database fails: before the write, or while the mails are built, which are
\* lost then.
ChangeFails(c) ==
  /\ change[c].at \in {"read", "customer", "staff"} /\ MailFault
  /\ change' = [change EXCEPT ![c].at = "failed", ![c].due = <<>>]
  /\ UNCHANGED <<kind, reachable, row, sent>>

\* The server stops with its requests.
ServerStops ==
  /\ MailFault
  /\ change' = [c \in Changes |-> IF change[c].at \in {"idle", "over"} THEN change[c]
                                  ELSE [change[c] EXCEPT !.at = "failed", !.due = <<>>]]
  /\ UNCHANGED <<kind, reachable, row, sent>>
-----------------------------------------------------------------------------
OrderMailsNext ==
  \/ \E k \in {"order", "reservation"}, reach \in SUBSET {"customer", "restaurant"} :
       Create(k, reach)
  \/ \E c \in Changes :
       \/ \E status \in Asked(kind), prep \in PrepTimes \cup {0} : ReadRow(c, status, prep)
       \/ WriteRow(c) \/ TellCustomer(c) \/ TellStaff(c) \/ Deliver(c) \/ ChangeEnds(c)
       \/ ChangeFails(c)
  \/ ServerStops

OrderMailsSpec == OrderMailsInit /\ [][OrderMailsNext]_orderMailVars
-----------------------------------------------------------------------------
RowStatus == {"new", "accepted", "ready", "completed", "pending", "confirmed", "cancelled"}
EventText == [says : RowStatus, prep : PrepTimes \cup {0}, hour : {"none", "row", "change"}]
EventMail == [to : {"customer", "restaurant"}, about : Changes, tells : Changes,
              text : EventText]

OrderMailsTypeOK ==
  /\ kind \in {"order", "reservation"} /\ reachable \subseteq {"customer", "restaurant"}
  /\ row \in Seq([status : RowStatus, prep : PrepTimes \cup {0}, base : 0..NumChanges])
  /\ Len(row) <= NumChanges
  /\ \A c \in Changes :
       /\ change[c].at \in {"idle", "read", "customer", "staff", "sending", "over", "failed"}
       /\ change[c].status \in RowStatus \cup {"none"}
       /\ change[c].prep \in PrepTimes \cup {0}
       /\ {change[c].base, change[c].about} \subseteq 0..Len(row)
       /\ change[c].due \in Seq(EventMail)
  /\ sent \in Seq(EventMail) /\ mailFaults \in 0..MaxMailFaults

Mailed(to, about) == \E i \in 1..Len(sent) : sent[i].to = to /\ sent[i].about = about

\* However changes of one row overlap, no mail is older than the change it is about,
\* none is sent twice, the restaurant hears of the creation alone, the hour of an
\* earlier change is told only where a later one came before the mail was built, a
\* change that was answered has tried its mails, and when all were, the customer
\* was mailed what the row holds at last -- unless an order ended, which no mail is
\* about.
MailsMatchChanges ==
  /\ \A i \in 1..Len(sent) :
       /\ sent[i].about <= sent[i].tells /\ sent[i].tells <= Len(row)
       /\ sent[i].to = "restaurant" => sent[i].about = 1
       /\ sent[i].text.hour = "change" => sent[i].about < sent[i].tells
       /\ \A j \in 1..i - 1 : sent[j].to = sent[i].to => sent[j].about # sent[i].about
  /\ \A c \in Changes : change[c].at = "over" =>
       /\ CustomerDue(change[c]) => Mailed("customer", change[c].about)
       /\ StaffDue(change[c]) => Mailed("restaurant", change[c].about)
  /\ (row # <<>> /\ \A c \in Changes : change[c].at \in {"idle", "over"}) =>
       \/ "customer" \notin reachable \/ row[Len(row)].status = "completed"
       \/ \E i \in 1..Len(sent) : sent[i].to = "customer" /\ sent[i].tells = Len(row)

\* A change that names no preparation time keeps the one there was, unless it read
\* the row before the last write: then it puts an older one back.
PrepKept == \A v \in 2..Len(row) :
  row[v].status # "accepted" => row[v].prep = row[v - 1].prep \/ row[v].base < v - 1
=============================================================================
