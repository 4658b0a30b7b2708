------------------------------ MODULE MailDelivery ------------------------------
(***************************************************************************)
(* Transactional mail (notification.service.ts): publish sends the mails   *)
(* of an event one after the other, each over its own SMTP connection, and *)
(* its caller waits.  A mail that fails is logged and the next one is      *)
(* tried.  The links of a customer's account are mails of their own, sent  *)
(* the same way.                                                           *)
(*                                                                         *)
(* The dialogue is a sequence of lines written and answers awaited.  The   *)
(* server is external: it takes the line, refuses it, says nothing, or     *)
(* closes or breaks the connection.  A socket error that nobody listens to *)
(* ends the process: on a connection that was given up while it was being  *)
(* opened, and while a line is being written.                              *)
(***************************************************************************)
EXTENDS Naturals, Sequences

CONSTANTS
  Events,      \* calls of publish that may be under way
  Mails,       \* mails of an event: to the customer and to the restaurant
  Secure,      \* the connection is encrypted from the start
  MaxBroken    \* connections that the server closes or breaks; bounds the model

ASSUME MailConstants == Mails \in Nat \ {0} /\ Secure \in BOOLEAN /\ MaxBroken \in Nat

\* The lines, in their order; the greeting is awaited without one.
Lines == <<"greeting", "ehlo", "starttls", "ehlo again", "auth", "user", "password",
           "from", "to", "data", "body", "quit">>
Line(name) == CHOOSE i \in 1..Len(Lines) : Lines[i] = name

VARIABLES
  send,      \* the mail each event is sending
  server,    \* its connection, seen from the server
  accepted,  \* mails of each event that a server has taken
  running,   \* the process is alive
  abandoned, \* connections given up while they were being opened
  broken

mailVars == <<send, server, accepted, running, abandoned, broken>>

\* at: "idle", "next", "connect", "write", "wait", "upgrade" or "over"
Unsent == [at |-> "idle", line |-> 1, tried |-> 0, sent |-> 0]
NoServer == [answer |-> "none", open |-> FALSE, starttls |-> FALSE]

MailInit ==
  /\ send = [e \in Events |-> Unsent] /\ server = [e \in Events |-> NoServer]
  /\ accepted = [e \in Events |-> 0]
  /\ running = TRUE /\ abandoned = 0 /\ broken = 0

At(e, at) == running /\ send[e].at = at

\* The line after line i.
Following(e, i) ==
  IF Lines[i] = "ehlo" /\ (Secure \/ ~server[e].starttls) THEN Line("auth") ELSE i + 1

\* Mutant of Ended: a mail that fails ends the event.
EndedAtFailure(s, ok) ==
  IF ok /\ s.tried + 1 < Mails
  THEN [at |-> "next", line |-> 1, tried |-> s.tried + 1, sent |-> s.sent + 1]
  ELSE [at |-> "over", line |-> 1, tried |-> s.tried + 1,
        sent |-> s.sent + IF ok THEN 1 ELSE 0]

\* Mutant of Ended: a failure is swallowed.
EndedSwallowed(s, ok) ==
  [at |-> IF s.tried + 1 < Mails THEN "next" ELSE "over", line |-> 1,
   tried |-> s.tried + 1, sent |-> s.sent + 1]

\* sendViaSmtp returns; publish goes on with the next mail.
Ended(s, ok) ==
  [at |-> IF s.tried + 1 < Mails THEN "next" ELSE "over", line |-> 1,
   tried |-> s.tried + 1, sent |-> s.sent + IF ok THEN 1 ELSE 0]

\* The client closes its end, and the mail failed.
Fail(e) ==
  /\ send' = [send EXCEPT ![e] = Ended(send[e], FALSE)]
  /\ server' = [server EXCEPT ![e] = NoServer]
-----------------------------------------------------------------------------
\* publish is called, for an event with mails to send.
Publish(e) ==
  /\ At(e, "idle") /\ send' = [send EXCEPT ![e].at = "next"]
  /\ UNCHANGED <<server, accepted, running, abandoned, broken>>

\* One mail with a link, and no other after it.
OneMail == [Unsent EXCEPT !.at = "next", !.tried = Mails - 1]

\* sendCustomerVerificationEmail and sendCustomerPasswordResetEmail; a caller
\* waits for them too.
SendVerification(e) ==
  /\ At(e, "idle") /\ send' = [send EXCEPT ![e] = OneMail]
  /\ UNCHANGED <<server, accepted, running, abandoned, broken>>
SendReset(e) ==
  /\ At(e, "idle") /\ send' = [send EXCEPT ![e] = OneMail]
  /\ UNCHANGED <<server, accepted, running, abandoned, broken>>

\* sendViaSmtp opens a connection.
StartSending(e) ==
  /\ At(e, "next") /\ send' = [send EXCEPT ![e].at = "connect"]
  /\ UNCHANGED <<server, accepted, running, abandoned, broken>>

Connected(e) ==
  /\ At(e, "connect")
  /\ send' = [send EXCEPT ![e].at = "wait"]
  /\ \E starttls \in BOOLEAN :
       server' = [server EXCEPT ![e] = [answer |-> "none", open |-> TRUE,
                                        starttls |-> starttls]]
  /\ UNCHANGED <<accepted, running, abandoned, broken>>

\* The connection is refused, or not open after fifteen seconds: then its socket
\* is forgotten as it is.
ConnectFails(e) ==
  /\ At(e, "connect") /\ Fail(e)
  /\ abandoned' \in {abandoned, abandoned + 1}
  /\ UNCHANGED <<accepted, running, broken>>

\* The kernel gives a forgotten connection up; the error is heard by nobody.
AbandonedFails ==
  /\ running /\ abandoned > 0 /\ running' = FALSE
  /\ UNCHANGED <<send, server, accepted, abandoned, broken>>

\* The line has been written.
LineWritten(e) ==
  /\ At(e, "write") /\ server[e].open
  /\ send' = [send EXCEPT ![e].at = "wait"]
  /\ UNCHANGED <<server, accepted, running, abandoned, broken>>

\* The connection is lost under the line: the write is refused, or the error
\* finds no listener.
WriteLost(e) ==
  /\ At(e, "write") /\ ~server[e].open
  /\ \/ Fail(e) /\ UNCHANGED running
     \/ running' = FALSE /\ UNCHANGED <<send, server>>
  /\ UNCHANGED <<accepted, abandoned, broken>>

\* expectSmtpResponse; an EHLO answer without AUTH LOGIN counts as a refusal.
Expected(e) == server[e].answer = "yes"

\* The answer that is expected, to a line or to the greeting.
Heard(e) ==
  LET line == send[e].line IN
  /\ At(e, "wait") /\ Expected(e)
  /\ \/ /\ Lines[line] = "quit"
        /\ send' = [send EXCEPT ![e] = Ended(send[e], TRUE)]
        /\ server' = [server EXCEPT ![e] = NoServer]
     \/ /\ Lines[line] # "quit"
        /\ send' = [send EXCEPT
             ![e].at = IF Lines[line] = "starttls" THEN "upgrade" ELSE "write",
             ![e].line = Following(e, line)]
        /\ server' = [server EXCEPT ![e].answer = "none"]
  /\ UNCHANGED <<accepted, running, abandoned, broken>>

\* Another answer, the end of the connection, or fifteen seconds in which the
\* socket is silent.  A server that sends a little within every fifteen seconds
\* and never ends its line is outside the model.
Refused(e) ==
  /\ At(e, "wait") /\ server[e].answer # "yes"
  /\ Fail(e)
  /\ UNCHANGED <<accepted, running, abandoned, broken>>

\* upgradeSmtpClientToTls.
Upgraded(e) ==
  /\ At(e, "upgrade")
  /\ \/ server[e].open /\ send' = [send EXCEPT ![e].at = "write"] /\ UNCHANGED server
     \/ Fail(e)
  /\ UNCHANGED <<accepted, running, abandoned, broken>>
-----------------------------------------------------------------------------
\* The server answers what has reached it.
Answers(e) ==
  /\ At(e, "wait") /\ server[e].open /\ server[e].answer = "none"
  /\ \E answer \in {"yes", "no"} :
       /\ server' = [server EXCEPT ![e].answer = answer]
       /\ accepted' = [accepted EXCEPT ![e] = @ +
            IF Lines[send[e].line] = "body" /\ answer = "yes" THEN 1 ELSE 0]
  /\ UNCHANGED <<send, running, abandoned, broken>>

\* The server, or the network, closes or breaks the connection.
Breaks(e) ==
  /\ running /\ server[e].open /\ broken < MaxBroken /\ broken' = broken + 1
  /\ server' = [server EXCEPT ![e].open = FALSE]
  /\ UNCHANGED <<send, accepted, running, abandoned>>
-----------------------------------------------------------------------------
MailNext ==
  \/ AbandonedFails
  \/ \E e \in Events :
       \/ Publish(e) \/ SendVerification(e) \/ SendReset(e)
       \/ StartSending(e) \/ Connected(e) \/ ConnectFails(e)
       \/ LineWritten(e) \/ WriteLost(e) \/ Heard(e) \/ Refused(e) \/ Upgraded(e)
       \/ Answers(e) \/ Breaks(e)

MailSpec == MailInit /\ [][MailNext]_mailVars

\* What the client waits for comes, or the connection is silent for fifteen
\* seconds; a line that fits the buffers of the connection is written.
MailFairness == \A e \in Events : WF_mailVars(
  \/ StartSending(e) \/ Connected(e) \/ ConnectFails(e)
  \/ LineWritten(e) \/ WriteLost(e) \/ Upgraded(e) \/ Heard(e) \/ Refused(e))

MailFairSpec == MailSpec /\ MailFairness
-----------------------------------------------------------------------------
MailTypeOK ==
  /\ send \in [Events -> [at : {"idle", "next", "connect", "write", "wait", "upgrade",
                                "over"}, line : 1..Len(Lines), tried : 0..Mails, sent : 0..Mails]]
  /\ server \in [Events -> [answer : {"none", "yes", "no"}, open : BOOLEAN,
                            starttls : BOOLEAN]]
  /\ accepted \in [Events -> 0..Mails]
  /\ running \in BOOLEAN /\ abandoned \in Nat /\ broken \in 0..MaxBroken

\* A mail that is logged as sent has been taken by a server, and no connection
\* takes two: the mails sent are among those taken, and these among those tried.
\* (A mail may be taken and yet logged as failed, when only QUIT fails.)
SentMeansAccepted == \A e \in Events :
  /\ send[e].sent <= accepted[e]
  /\ accepted[e] <= send[e].tried + (IF send[e].at \in {"wait", "write"} THEN 1 ELSE 0)

\* The caller of publish, an order or a reservation, gets its answer, and by then
\* each mail was tried, whatever the server does -- unless the process ends.
SendEnds == \A e \in Events :
  send[e].at \notin {"idle", "over"} ~>
    ~running \/ (send[e].at = "over" /\ send[e].tried = Mails)
=============================================================================
