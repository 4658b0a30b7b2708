------------------------- MODULE AttentionAlertsProofs -------------------------
(***************************************************************************)
(* Proofs about the attention alerts, for any finite sets of orders and    *)
(* reservations and any number of pairings and requests in flight: the     *)
(* beep loop follows the alert on the screen, the confirm button is        *)
(* disabled only while an answer is due, the alert shown is open, and the  *)
(* whole implements the abstract queue.                                    *)
(***************************************************************************)
EXTENDS AttentionAlerts, SequenceTheorems, FiniteSetTheorems,
        WellFoundedInduction, TLAPS

(***************************************************************************)
(* The beep loop.                                                          *)
(***************************************************************************)

\* activateNext, onActivate and onDeactivate keep the loop in step with the
\* active alert, whatever has been removed.
LEMMA SettleKeepsSound ==
  ASSUME NEW left, NEW waiting, left \in {None, active}, SoundTracksAlert,
         Settle(left, waiting), enabled' = enabled
  PROVE  SoundTracksAlert'
<1>1. CASE left = None /\ waiting # <<>>
  BY <1>1 DEF Settle, SoundTracksAlert, StartLoop, SoundEnabled
<1>2. CASE ~(left = None /\ waiting # <<>>)
  BY <1>2 DEF Settle, SoundTracksAlert, SoundEnabled
<1> QED
  BY <1>1, <1>2

\* Emptying the queue silences the terminal.
LEMMA ResetKeepsSound == ResetQueue => SoundTracksAlert'
  BY DEF ResetQueue, SoundTracksAlert

\* Nothing else matters to the loop than the alert, the switches and itself.
LEMMA SoundUnchanged ==
  SoundTracksAlert /\ UNCHANGED <<active, loop, enabled>> => SoundTracksAlert'
  BY DEF SoundTracksAlert, SoundEnabled

\* A switch is turned: a loop is stopped, started, or left as it was.
LEMMA ToggleKeepsSound ==
  ASSUME NEW s \in Settings, SoundTracksAlert, Toggle(s)
  PROVE  SoundTracksAlert'
<1> DEFINE changed == [enabled EXCEPT ![s] = ~@]
           sounds  == changed["sound"] /\ changed[TypeOf(active)]
<1>1. active' = active /\ enabled' = changed
  BY DEF Toggle
<1>2. SoundEnabled(active)' <=> sounds
  BY <1>1 DEF SoundEnabled, TypeOf
<1>3. CASE active = None
  BY <1>1, <1>3 DEF Toggle, SoundTracksAlert
<1>4. CASE active # None /\ ~sounds
  BY <1>1, <1>2, <1>4 DEF Toggle, SoundTracksAlert
<1>5. CASE active # None /\ sounds /\ s \in {"sound", TypeOf(active)} /\ changed[s]
  BY <1>1, <1>2, <1>5 DEF Toggle, SoundTracksAlert
<1>6. CASE active # None /\ sounds /\ ~(s \in {"sound", TypeOf(active)} /\ changed[s])
  <2>1. loop' = loop
    BY <1>6 DEF Toggle
  <2>2. s # "sound" /\ s # TypeOf(active)
    BY <1>6
  <2>3. changed["sound"] = enabled["sound"]
        /\ changed[TypeOf(active)] = enabled[TypeOf(active)]
    BY <2>2
  <2> QED
    BY <1>1, <1>2, <1>6, <2>1, <2>3 DEF SoundTracksAlert, SoundEnabled
<1> QED
  BY <1>3, <1>4, <1>5, <1>6

(***************************************************************************)
(* The steps of the session: whatever they do to the token, to the screen  *)
(* and to the calls in flight, for the alerts there are three outcomes.    *)
(***************************************************************************)
SessionStep ==
  \/ Revoke \/ Boot \/ Submit \/ PollPairing \/ PairingTimesOut
  \/ PairingCancelled \/ ResetToken \/ RetryValidation \/ Unpair
  \/ (\E i \in Calls : CallMoves(i))

LEMMA SessionOutcome ==
  ASSUME SessionStep
  PROVE  /\ UNCHANGED <<status, poll, enabled, busy, request>>
         /\ \/ UNCHANGED <<screen, alerts>>
            \/ EnterNotPaired
            \/ ResetQueue /\ UNCHANGED screen /\ mode' = "pairing_waiting"
<1> DEFINE Outcome ==
             /\ UNCHANGED <<status, poll, enabled, busy, request>>
             /\ \/ UNCHANGED <<screen, alerts>>
                \/ EnterNotPaired
                \/ ResetQueue /\ UNCHANGED screen /\ mode' = "pairing_waiting"
<1>1. ASSUME Revoke \/ Boot \/ Submit \/ PollPairing \/ PairingTimesOut
      PROVE  Outcome
  BY <1>1 DEF Revoke, Boot, Submit, PollPairing, PairingTimesOut
<1>2. ASSUME PairingCancelled \/ ResetToken \/ RetryValidation \/ Unpair
      PROVE  Outcome
  BY <1>2 DEF PairingCancelled, ResetToken, RetryValidation, Unpair, screen,
     alerts
<1>3. ASSUME NEW i \in Calls, CallMoves(i) PROVE Outcome
  <2>1. ASSUME SubmitFails(i) \/ PairingServed(i) \/ StillWaiting(i)
               \/ PairingExpires(i) \/ Paired(i) \/ UnpairServed(i)
               \/ UnpairFails(i)
        PROVE  Outcome
    BY <2>1 DEF SubmitFails, PairingServed, StillWaiting, PairingExpires,
       Paired, UnpairServed, UnpairFails
  <2>2. ASSUME StartPairing(i) PROVE Outcome
    BY <2>2 DEF StartPairing
  <2>3. ASSUME Validated(i) \/ Unpaired(i) PROVE Outcome
    BY <2>3 DEF Validated, Unpaired
  <2> QED
    BY <1>3, <2>1, <2>2, <2>3 DEF CallMoves
<1> QED
  BY <1>1, <1>2, <1>3 DEF SessionStep

LEMMA SoundStep == SoundTracksAlert /\ [Next]_vars => SoundTracksAlert'
<1> SUFFICES ASSUME SoundTracksAlert, [Next]_vars PROVE SoundTracksAlert'
  OBVIOUS
<1>1. ASSUME UNCHANGED <<alerts, enabled>> PROVE SoundTracksAlert'
  BY <1>1, SoundUnchanged DEF alerts
<1>2. ASSUME NEW r \in Records, RecordArrives(r) \/ HandledElsewhere(r)
      PROVE  SoundTracksAlert'
  BY <1>1, <1>2 DEF RecordArrives, HandledElsewhere
<1>3. ASSUME SessionStep PROVE SoundTracksAlert'
  BY <1>1, <1>3, SessionOutcome, ResetKeepsSound DEF EnterNotPaired
<1>4. ASSUME PageDies PROVE SoundTracksAlert'
  BY <1>4, ResetKeepsSound DEF PageDies
<1>6. ASSUME PollSend \/ PollServed \/ PollFails \/ PollFailed
      PROVE  SoundTracksAlert'
  BY <1>1, <1>6 DEF PollSend, PollServed, PollFails, PollFailed
<1>7. ASSUME PollUnpaired \/ PollDenied PROVE SoundTracksAlert'
  BY <1>7, ResetKeepsSound DEF PollUnpaired, PollDenied, EnterNotPaired
<1>8. ASSUME PollLoaded PROVE SoundTracksAlert'
  <2> DEFINE Left == IF active \in StillOpen THEN active ELSE None
  <2>1. \E o, v : Settle(Left, Filter(pending \o (o \o v), StillOpen))
    <3>1. \E o \in Orderings(Orders), v \in Orderings(Reservations) :
            Settle(Left, Filter(pending \o (o \o v), StillOpen))
      BY <1>8, Zenon DEF PollLoaded
    <3> QED
      BY <3>1
  <2>3. Left \in {None, active}
    OBVIOUS
  <2>2. enabled' = enabled
    BY <1>8 DEF PollLoaded
  <2>4. PICK waiting : Settle(Left, waiting)
    BY <2>1
  <2> HIDE DEF Left
  <2> QED
    BY <2>2, <2>3, <2>4, SettleKeepsSound
<1>9. ASSUME Confirm PROVE SoundTracksAlert'
  BY <1>1, <1>9 DEF Confirm
<1>10. ASSUME ConfirmUnpaired PROVE SoundTracksAlert'
  BY <1>10, ResetKeepsSound DEF ConfirmUnpaired, EnterNotPaired
<1>11. ASSUME NEW r \in Records, ListButton(r) PROVE SoundTracksAlert'
  BY <1>1, <1>11 DEF ListButton
<1>12. ASSUME NEW s \in Settings, Toggle(s) PROVE SoundTracksAlert'
  BY <1>12, ToggleKeepsSound
<1>13. ASSUME NEW i \in Requests, RequestServed(i) PROVE SoundTracksAlert'
  BY <1>1, <1>13 DEF RequestServed
<1>14. ASSUME NEW i \in Requests, ConfirmOk(i) PROVE SoundTracksAlert'
  <2>1. CASE active = request[i].rec
    <3>1. Settle(None, pending) /\ enabled' = enabled
      BY <1>14, <2>1 DEF ConfirmOk
    <3> QED
      BY <3>1, SettleKeepsSound
  <2>2. CASE active # request[i].rec
    BY <1>1, <1>14, <2>2 DEF ConfirmOk
  <2> QED
    BY <2>1, <2>2
<1>15. ASSUME NEW i \in Requests, ConfirmDenied(i) PROVE SoundTracksAlert'
  BY <1>15, ResetKeepsSound DEF ConfirmDenied, EnterNotPaired
<1>16. ASSUME NEW i \in Requests,
              ConfirmFailed(i) \/ ListOk(i) \/ ListDenied(i) \/ ListFailed(i)
       PROVE  SoundTracksAlert'
  BY <1>1, <1>16 DEF ConfirmFailed, ListOk, ListDenied, ListFailed
<1>17. ASSUME CycleEnds \/ SilencePasses PROVE SoundTracksAlert'
  BY <1>17 DEF CycleEnds, SilencePasses, Current, SoundTracksAlert,
     SoundEnabled
<1>18. CASE UNCHANGED vars
  BY <1>1, <1>18 DEF vars
<1> QED
  BY <1>2, <1>3, <1>4, <1>6, <1>7, <1>8, <1>9, <1>10, <1>11, <1>12, <1>13,
     <1>14, <1>15, <1>16, <1>17, <1>18 DEF Next, Answer, SessionStep

(***************************************************************************)
(* The beep loop runs exactly while there is an active alert that may      *)
(* sound: whatever requests are in flight, in whatever order they are      *)
(* answered, and however often settings change and sessions end, no alert  *)
(* is mute and no beep outlives its alert.                                 *)
(***************************************************************************)
THEOREM SoundFollowsAlert == Spec => []SoundTracksAlert
<1>1. Init => SoundTracksAlert
  BY DEF Init, SoundTracksAlert
<1> QED
  BY <1>1, SoundStep, PTL DEF Spec
-----------------------------------------------------------------------------
(***************************************************************************)
(* The confirmation.                                                       *)
(***************************************************************************)
\* The property, with what makes an update of a request or of one of its
\* fields mean what it says.
ConfirmInv ==
  /\ request = [i \in Requests |-> request[i]]
  /\ \A i \in Requests : "kind" \in DOMAIN request[i]
  /\ busy \in BOOLEAN
  /\ ConfirmationOutstanding

\* Steps that neither send nor answer a request and leave the mark alone, or
\* clear it.
LEMMA NoRequestTouched ==
  ASSUME ConfirmInv, request' = request, busy' = busy \/ busy' = FALSE
  PROVE  ConfirmInv'
<1>1. /\ request' = [i \in Requests |-> request'[i]]
      /\ \A i \in Requests : "kind" \in DOMAIN request'[i]
  BY DEF ConfirmInv
<1>2. busy' \in BOOLEAN
  BY DEF ConfirmInv
<1>3. ConfirmationOutstanding'
  BY DEF ConfirmInv, ConfirmationOutstanding
<1> QED
  BY <1>1, <1>2, <1>3 DEF ConfirmInv

\* One request is replaced by another, of its kind or any.
LEMMA RequestReplaced ==
  ASSUME ConfirmInv, NEW i \in Requests, NEW new, "kind" \in DOMAIN new,
         request' = [request EXCEPT ![i] = new]
  PROVE  /\ request' = [j \in Requests |-> request'[j]]
         /\ \A j \in Requests : "kind" \in DOMAIN request'[j]
         /\ request'[i] = new
         /\ \A j \in Requests \ {i} : request'[j] = request[j]
<1>1. DOMAIN request = Requests
  BY DEF ConfirmInv
<1>2. request' = [j \in Requests |-> IF j = i THEN new ELSE request[j]]
  BY <1>1
<1> QED
  BY <1>2 DEF ConfirmInv

\* An answer is handled: the request is forgotten and, if it was one of a
\* confirmation, the mark is cleared.
LEMMA AnswerHandled ==
  ASSUME ConfirmInv, NEW i \in Requests, NEW kind, NEW st, Done(i, kind, st),
         \/ kind = "confirm" /\ busy' = FALSE
         \/ kind = "list" /\ busy' = busy
  PROVE  ConfirmInv'
<1>1. "kind" \in DOMAIN NoRequest
  BY DEF NoRequest
<1>2. request[i].kind = kind /\ request' = [request EXCEPT ![i] = NoRequest]
  BY DEF Done
<1>3. /\ request' = [j \in Requests |-> request'[j]]
      /\ \A j \in Requests : "kind" \in DOMAIN request'[j]
      /\ \A j \in Requests \ {i} : request'[j] = request[j]
  BY <1>1, <1>2, RequestReplaced
<1>4. CASE kind = "confirm" /\ busy' = FALSE
  BY <1>3, <1>4 DEF ConfirmInv, ConfirmationOutstanding
<1>5. CASE kind = "list" /\ busy' = busy
  <2>1. busy => \E j \in Requests \ {i} : request[j].kind = "confirm"
    BY <1>2, <1>5 DEF ConfirmInv, ConfirmationOutstanding
  <2>2. ConfirmationOutstanding'
    BY <1>3, <1>5, <2>1 DEF ConfirmationOutstanding
  <2> QED
    BY <1>3, <1>5, <2>2 DEF ConfirmInv
<1> QED
  BY <1>4, <1>5

\* A request gets its answer: it stays what it was.
LEMMA RequestAnswered ==
  ASSUME ConfirmInv, NEW i \in Requests, NEW st, Answered(i, st), busy' = busy
  PROVE  ConfirmInv'
<1> DEFINE new == [request[i] EXCEPT !.st = st, !.tok = 0]
<1>1. "kind" \in DOMAIN new /\ new.kind = request[i].kind
  BY DEF ConfirmInv
<1>2. request' = [request EXCEPT ![i] = new]
  BY DEF Answered
<1> HIDE DEF new
<1>3. /\ request' = [j \in Requests |-> request'[j]]
      /\ \A j \in Requests : "kind" \in DOMAIN request'[j]
      /\ request'[i] = new
      /\ \A j \in Requests \ {i} : request'[j] = request[j]
  BY <1>1, <1>2, RequestReplaced
<1>4. \A j \in Requests : request'[j].kind = request[j].kind
  BY <1>1, <1>3
<1>5. ConfirmationOutstanding'
  BY <1>4 DEF ConfirmInv, ConfirmationOutstanding
<1> QED
  BY <1>3, <1>5 DEF ConfirmInv

\* A request is sent in a free place; the mark is set only for one of a
\* confirmation.
LEMMA RequestSent ==
  ASSUME ConfirmInv, NEW kind, NEW r, Send(kind, r),
         \/ kind = "confirm" /\ busy' = TRUE
         \/ busy' = busy
  PROVE  ConfirmInv'
<1> DEFINE new == [kind |-> kind, rec |-> r, tok |-> token, st |-> "sent"]
<1>1. PICK i \in Requests : /\ request[i] = NoRequest
                            /\ request' = [request EXCEPT ![i] = new]
  BY DEF Send
<1>2. "kind" \in DOMAIN new /\ new.kind = kind
  OBVIOUS
<1> HIDE DEF new
<1>3. /\ request' = [j \in Requests |-> request'[j]]
      /\ \A j \in Requests : "kind" \in DOMAIN request'[j]
      /\ request'[i] = new
      /\ \A j \in Requests \ {i} : request'[j] = request[j]
  BY <1>1, <1>2, RequestReplaced
<1>4. CASE kind = "confirm" /\ busy' = TRUE
  <2>1. request'[i].kind = "confirm"
    BY <1>2, <1>3, <1>4
  <2>2. ConfirmationOutstanding'
    BY <2>1 DEF ConfirmationOutstanding
  <2> QED
    BY <1>3, <1>4, <2>2 DEF ConfirmInv
<1>5. CASE busy' = busy
  <2>1. busy => \E j \in Requests \ {i} : request[j].kind = "confirm"
    BY <1>1 DEF NoRequest, ConfirmInv, ConfirmationOutstanding
  <2>2. ConfirmationOutstanding'
    BY <1>3, <1>5, <2>1 DEF ConfirmationOutstanding
  <2> QED
    BY <1>3, <1>5, <2>2 DEF ConfirmInv
<1> QED
  BY <1>4, <1>5

LEMMA ConfirmStep == ConfirmInv /\ [Next]_vars => ConfirmInv'
<1> SUFFICES ASSUME ConfirmInv, [Next]_vars PROVE ConfirmInv'
  OBVIOUS
<1>1. ASSUME UNCHANGED <<request, busy>> PROVE ConfirmInv'
  BY <1>1, NoRequestTouched
<1>2. ASSUME NEW r \in Records, RecordArrives(r) \/ HandledElsewhere(r)
      PROVE  ConfirmInv'
  BY <1>1, <1>2 DEF RecordArrives, HandledElsewhere
<1>3. ASSUME SessionStep PROVE ConfirmInv'
  BY <1>1, <1>3, SessionOutcome
<1>4. ASSUME PageDies PROVE ConfirmInv'
  <2>1. "kind" \in DOMAIN NoRequest
    BY DEF NoRequest
  <2>2. request' = [i \in Requests |-> NoRequest] /\ busy' = FALSE
    BY <1>4 DEF PageDies
  <2> QED
    BY <2>1, <2>2 DEF ConfirmInv, ConfirmationOutstanding
<1>6. ASSUME PollSend \/ PollUnpaired \/ PollServed \/ PollFails \/ PollFailed
             \/ PollDenied
      PROVE  ConfirmInv'
  BY <1>1, <1>6 DEF PollSend, PollUnpaired, PollServed, PollFails, PollFailed,
     PollDenied
<1>7. ASSUME PollLoaded PROVE ConfirmInv'
  <2>1. request' = request
    BY <1>7 DEF PollLoaded
  <2>2. PICK b : busy' = (busy /\ b)
    BY <1>7 DEF PollLoaded
  <2>3. busy' = busy \/ busy' = FALSE
    BY <2>2, Zenon DEF ConfirmInv
  <2> QED
    BY <2>1, <2>3, NoRequestTouched
<1>8. ASSUME Confirm PROVE ConfirmInv'
  <2>1. Send("confirm", active) /\ busy' = TRUE
    BY <1>8 DEF Confirm
  <2> QED
    BY <2>1, RequestSent
<1>9. ASSUME ConfirmUnpaired PROVE ConfirmInv'
  BY <1>1, <1>9 DEF ConfirmUnpaired
<1>10. ASSUME NEW r \in Records, ListButton(r) PROVE ConfirmInv'
  <2>1. Send("list", r) /\ busy' = busy
    BY <1>10 DEF ListButton
  <2> QED
    BY <2>1, RequestSent
<1>11. ASSUME NEW s \in Settings, Toggle(s) PROVE ConfirmInv'
  BY <1>1, <1>11 DEF Toggle
<1>12. ASSUME NEW i \in Requests, RequestServed(i) PROVE ConfirmInv'
  <2>1. \E st : Answered(i, st)
    BY <1>12 DEF RequestServed
  <2>2. busy' = busy
    BY <1>12 DEF RequestServed
  <2> QED
    BY <2>1, <2>2, RequestAnswered
<1>13. ASSUME NEW i \in Requests,
              ConfirmOk(i) \/ ConfirmDenied(i) \/ ConfirmFailed(i)
       PROVE  ConfirmInv'
  <2>1. PICK st : Done(i, "confirm", st)
    BY <1>13 DEF ConfirmOk, ConfirmDenied, ConfirmFailed, Fails
  <2>2. busy' = FALSE
    BY <1>13 DEF ConfirmOk, ConfirmDenied, ConfirmFailed
  <2> QED
    BY <2>1, <2>2, AnswerHandled
<1>14. ASSUME NEW i \in Requests, ListOk(i) \/ ListDenied(i) \/ ListFailed(i)
       PROVE  ConfirmInv'
  <2>1. PICK st : Done(i, "list", st)
    BY <1>14 DEF ListOk, ListDenied, ListFailed, Fails
  <2>2. busy' = busy
    BY <1>14 DEF ListOk, ListDenied, ListFailed
  <2> QED
    BY <2>1, <2>2, AnswerHandled
<1>15. ASSUME CycleEnds \/ SilencePasses PROVE ConfirmInv'
  BY <1>1, <1>15 DEF CycleEnds, SilencePasses
<1>16. CASE UNCHANGED vars
  BY <1>1, <1>16 DEF vars
<1> QED
  BY <1>2, <1>3, <1>4, <1>6, <1>7, <1>8, <1>9, <1>10, <1>11, <1>12, <1>13,
     <1>14, <1>15, <1>16 DEF Next, Answer, SessionStep

(***************************************************************************)
(* The confirm button is disabled only while the answer to a confirmation  *)
(* is due, for any number of requests in flight and sessions: polls clear  *)
(* the mark of an alert they remove and late answers the mark of another   *)
(* alert, but nothing sets it without a request to clear it.               *)
(***************************************************************************)
THEOREM ConfirmationAnswered == Spec => []ConfirmationOutstanding
<1>1. Init => ConfirmInv
  <2> SUFFICES ASSUME Init PROVE ConfirmInv
    OBVIOUS
  <2>1. "kind" \in DOMAIN NoRequest
    BY DEF NoRequest
  <2>2. request = [i \in Requests |-> NoRequest] /\ busy = FALSE
    BY DEF Init
  <2> QED
    BY <2>1, <2>2 DEF ConfirmInv, ConfirmationOutstanding
<1>2. ConfirmInv => ConfirmationOutstanding
  BY DEF ConfirmInv
<1> QED
  BY <1>1, <1>2, ConfirmStep, PTL DEF Spec
-----------------------------------------------------------------------------
(***************************************************************************)
(* Filtered sequences.  The library's induction theorem takes an operator; *)
(* the least element of a set of numbers, which well-foundedness gives,    *)
(* does without.                                                           *)
(***************************************************************************)
Below == {ij \in Nat \X Nat : ij[1] < ij[2]}

LEMMA LeastNat ==
  ASSUME NEW T \in SUBSET Nat, T # {}
  PROVE \E n \in T : \A m \in T : n <= m
<1>1. IsWellFoundedOn(Below, Nat)
  BY NatLessThanWellFounded DEF OpToRel, Below
<1>2. PICK n \in T : \A y \in T : ~ (<<y, n>> \in Below)
  BY <1>1, WFMin
<1>3. ASSUME NEW m \in T PROVE n <= m
  <2>1. m \in Nat /\ n \in Nat /\ <<m, n>> \in Nat \X Nat
    OBVIOUS
  <2>2. ~(<<m, n>> \in Below)
    BY <1>2
  <2>3. ~(m < n)
    BY <2>1, <2>2 DEF Below
  <2> QED
    BY <2>1, <2>3
<1> QED BY <1>3

LEMMA SetInduction ==
  ASSUME NEW S \in SUBSET Nat, 0 \in S, \A n \in S : n + 1 \in S
  PROVE S = Nat
<1> SUFFICES ASSUME S # Nat PROVE FALSE
  OBVIOUS
<1>1. PICK n \in Nat \ S : \A m \in Nat \ S : n <= m
  BY LeastNat
<1>2. n # 0 /\ n - 1 \in Nat
  BY <1>1
<1>3. n - 1 \in S
  BY <1>1, <1>2
<1> QED BY <1>1, <1>2, <1>3

Upto(q, S, n) == 
  \E f : f = [i \in 0..n |-> IF i = 0 THEN <<>>
        ELSE IF q[i] \in S THEN Append(f[i - 1], q[i]) ELSE f[i - 1]]

LEMMA KeptEquation ==
  ASSUME NEW q, Len(q) \in Nat, NEW S
  PROVE  Kept(q, S) = [i \in 0..Len(q) |->
     IF i = 0 THEN <<>> ELSE IF q[i] \in S THEN Append(Kept(q, S)[i - 1], q[i]) ELSE Kept(q, S)[i - 1]]
<1> DEFINE P == {n \in Nat : Upto(q, S, n)}
<1>1. 0 \in P
  <2> DEFINE f == [i \in 0..0 |-> <<>>]
  <2>1. f = [i \in 0..0 |-> IF i = 0 THEN <<>>
        ELSE IF q[i] \in S THEN Append(f[i - 1], q[i]) ELSE f[i - 1]]
    OBVIOUS
  <2> QED BY <2>1 DEF Upto
<1>2. ASSUME NEW n \in P PROVE n + 1 \in P
  <2>1. PICK f : f = [i \in 0..n |-> IF i = 0 THEN <<>>
        ELSE IF q[i] \in S THEN Append(f[i - 1], q[i]) ELSE f[i - 1]]
    BY DEF Upto
  <2> DEFINE g == [i \in 0..(n+1) |-> IF i <= n THEN f[i] ELSE 
                   IF q[i] \in S THEN Append(f[i - 1], q[i]) ELSE f[i - 1]]
  <2>2. \A i \in 0..n : f[i] = IF i = 0 THEN <<>>
        ELSE IF q[i] \in S THEN Append(f[i - 1], q[i]) ELSE f[i - 1]
    BY <2>1
  <2>3. \A i \in 0..(n+1) : g[i] = IF i = 0 THEN <<>>
        ELSE IF q[i] \in S THEN Append(g[i - 1], q[i]) ELSE g[i - 1]
    BY <2>2
  <2>4. g = [i \in 0..(n+1) |-> IF i = 0 THEN <<>>
        ELSE IF q[i] \in S THEN Append(g[i - 1], q[i]) ELSE g[i - 1]]
    BY <2>3
  <2> HIDE DEF g
  <2> QED BY <2>4 DEF Upto
<1>3. P = Nat
  <2> HIDE DEF P
  <2>1. P \in SUBSET Nat
    BY DEF P
  <2> QED BY <1>1, <1>2, <2>1, SetInduction
<1>4. Upto(q, S, Len(q))
  BY <1>3
<1> QED BY <1>4, Zenon DEF Kept, Upto

LEMMA UptoInduction ==
  ASSUME NEW n \in Nat, NEW S, 0 \in S,
         \A i \in 0..n : i \in S /\ i < n => i + 1 \in S
  PROVE  \A i \in 0..n : i \in S
<1> DEFINE T == {i \in Nat : i <= n => i \in S}
<1>1. 0 \in T
  OBVIOUS
<1>2. \A i \in T : i + 1 \in T
  <2> SUFFICES ASSUME NEW i \in Nat, i <= n => i \in S, i + 1 <= n
               PROVE  i + 1 \in S
    OBVIOUS
  <2> QED
    OBVIOUS
<1>3. T = Nat
  <2> HIDE DEF T
  <2>1. T \in SUBSET Nat
    BY DEF T
  <2> QED
    BY <1>1, <1>2, <2>1, SetInduction
<1>4. \A i \in Nat : i <= n => i \in S
  BY <1>3
<1> QED
  BY <1>4

\* What is kept of the first i elements.
LEMMA KeptSteps ==
  ASSUME NEW X, NEW q \in Seq(X), NEW S
  PROVE  /\ Kept(q, S)[0] = <<>>
         /\ \A i \in 0..Len(q) : i < Len(q) =>
              Kept(q, S)[i + 1] = IF q[i + 1] \in S
                                   THEN Append(Kept(q, S)[i], q[i + 1])
                                   ELSE Kept(q, S)[i]
<1>1. Len(q) \in Nat
  OBVIOUS
<1>2. Kept(q, S) = [i \in 0..Len(q) |->
        IF i = 0 THEN <<>>
        ELSE IF q[i] \in S THEN Append(Kept(q, S)[i - 1], q[i])
                           ELSE Kept(q, S)[i - 1]]
  BY <1>1, KeptEquation
<1>3. Kept(q, S)[0] = <<>>
  BY <1>1, <1>2
<1>4. ASSUME NEW i \in 0..Len(q), i < Len(q)
      PROVE  Kept(q, S)[i + 1] = IF q[i + 1] \in S
                                   THEN Append(Kept(q, S)[i], q[i + 1])
                                   ELSE Kept(q, S)[i]
  <2> DEFINE k == Kept(q, S)
  <2>1. k = [j \in 0..Len(q) |->
               IF j = 0 THEN <<>>
               ELSE IF q[j] \in S THEN Append(k[j - 1], q[j]) ELSE k[j - 1]]
    BY <1>2
  <2>2. i + 1 \in 0..Len(q) /\ i + 1 # 0 /\ i + 1 - 1 = i
    BY <1>1, <1>4
  <2> HIDE DEF k
  <2>3. k[i + 1] = IF i + 1 = 0 THEN <<>>
                   ELSE IF q[i + 1] \in S THEN Append(k[i + 1 - 1], q[i + 1])
                                         ELSE k[i + 1 - 1]
    <3> DEFINE F(j) == IF j = 0 THEN <<>>
                       ELSE IF q[j] \in S THEN Append(k[j - 1], q[j]) ELSE k[j - 1]
    <3>1. k = [j \in 0..Len(q) |-> F(j)]
      BY <2>1
    <3> HIDE DEF F
    <3>2. k[i + 1] = F(i + 1)
      BY <2>2, <3>1
    <3> QED
      BY <3>2 DEF F
  <2>4. k[i + 1] = IF q[i + 1] \in S THEN Append(k[i], q[i + 1]) ELSE k[i]
    BY <2>2, <2>3, Zenon
  <2> QED
    BY <2>4 DEF k
<1> QED
  BY <1>3, <1>4

\* An induction over the beginnings of a sequence.
LEMMA FilterType ==
  ASSUME NEW X, NEW q \in Seq(X), NEW S
  PROVE  /\ Filter(q, S) \in Seq(X)
         /\ \A j \in 1..Len(Filter(q, S)) :
              Filter(q, S)[j] \in S /\ \E m \in 1..Len(q) : Filter(q, S)[j] = q[m]
<1> DEFINE k == Kept(q, S)
           P == {n \in Nat : /\ k[n] \in Seq(X)
                             /\ \A j \in 1..Len(k[n]) :
                                  k[n][j] \in S /\ \E m \in 1..n : k[n][j] = q[m]}
<1>0. /\ k[0] = <<>>
      /\ \A i \in 0..Len(q) : i < Len(q) =>
           k[i + 1] = IF q[i + 1] \in S THEN Append(k[i], q[i + 1]) ELSE k[i]
  BY KeptSteps
<1> HIDE DEF k
<1>1. 0 \in P
  <2>1. <<>> \in Seq(X) /\ Len(<<>>) = 0
    OBVIOUS
  <2>2. k[0] \in Seq(X) /\ Len(k[0]) = 0
    BY <1>0, <2>1, Zenon
  <2> QED
    BY <2>2
<1>2. ASSUME NEW i \in 0..Len(q), i \in P, i < Len(q) PROVE i + 1 \in P
  <2>0. i \in Nat /\ i + 1 \in 1..Len(q) /\ q[i + 1] \in X
    BY <1>2
  <2>1. k[i + 1] = IF q[i + 1] \in S THEN Append(k[i], q[i + 1]) ELSE k[i]
    BY <1>0, <1>2
  <2>2. k[i] \in Seq(X)
    BY <1>2, <2>0
  <2>3. CASE q[i + 1] \in S
    <3>1. k[i + 1] = Append(k[i], q[i + 1])
      BY <2>1, <2>3
    <3>2. /\ Len(k[i + 1]) = Len(k[i]) + 1 /\ k[i + 1][Len(k[i]) + 1] = q[i + 1]
          /\ \A j \in 1..Len(k[i]) : k[i + 1][j] = k[i][j]
          /\ k[i + 1] \in Seq(X)
      BY <2>0, <2>2, <3>1
    <3>3. ASSUME NEW j \in 1..Len(k[i + 1])
          PROVE  k[i + 1][j] \in S /\ \E m \in 1..i + 1 : k[i + 1][j] = q[m]
      <4>1. CASE j \in 1..Len(k[i])
        BY <1>2, <2>0, <3>2, <4>1, SMTT(30)
      <4>2. CASE j = Len(k[i]) + 1
        BY <2>0, <2>3, <3>2, <4>2
      <4> QED
        BY <2>2, <3>2, <4>1, <4>2
    <3> QED
      BY <2>0, <3>2, <3>3
  <2>4. CASE q[i + 1] \notin S
    BY <1>2, <2>0, <2>1, <2>4
  <2> QED
    BY <2>3, <2>4
<1>3. Len(q) \in P
  <2> HIDE DEF P
  <2>1. Len(q) \in Nat /\ Len(q) \in 0..Len(q)
    OBVIOUS
  <2>2. \A i \in 0..Len(q) : i \in P
    BY <1>1, <1>2, <2>1, UptoInduction
  <2> QED
    BY <2>1, <2>2
<1>4. Filter(q, S) = k[Len(q)]
  BY DEF Filter, k
<1> QED
  BY <1>3, <1>4

\* An element that occurs once is kept at most once.
LEMMA FilterDistinct ==
  ASSUME NEW X, NEW q \in Seq(X), NEW S, IsInjective(q)
  PROVE  IsInjective(Filter(q, S))
<1> DEFINE k == Kept(q, S)
           P == {n \in Nat : /\ k[n] \in Seq(X)
                             /\ \A j \in 1..Len(k[n]) : \E m \in 1..n : k[n][j] = q[m]
                             /\ \A j, m \in 1..Len(k[n]) : k[n][j] = k[n][m] => j = m}
<1>0. /\ k[0] = <<>>
      /\ \A i \in 0..Len(q) : i < Len(q) =>
           k[i + 1] = IF q[i + 1] \in S THEN Append(k[i], q[i + 1]) ELSE k[i]
  BY KeptSteps
<1>q. \A j, m \in 1..Len(q) : q[j] = q[m] => j = m
  BY DEF IsInjective
<1> HIDE DEF k
<1>1. 0 \in P
  <2>1. <<>> \in Seq(X) /\ Len(<<>>) = 0
    OBVIOUS
  <2>2. k[0] \in Seq(X) /\ Len(k[0]) = 0
    BY <1>0, <2>1, Zenon
  <2> QED
    BY <2>2
<1>2. ASSUME NEW i \in 0..Len(q), i \in P, i < Len(q) PROVE i + 1 \in P
  <2>0. i \in Nat /\ i + 1 \in 1..Len(q) /\ q[i + 1] \in X
    BY <1>2
  <2>1. k[i + 1] = IF q[i + 1] \in S THEN Append(k[i], q[i + 1]) ELSE k[i]
    BY <1>0, <1>2
  <2>2. k[i] \in Seq(X) /\ Len(k[i]) \in Nat
    BY <1>2, <2>0
  <2>3. CASE q[i + 1] \in S
    <3>1. k[i + 1] = Append(k[i], q[i + 1])
      BY <2>1, <2>3
    <3>2. /\ Len(k[i + 1]) = Len(k[i]) + 1 /\ k[i + 1][Len(k[i]) + 1] = q[i + 1]
          /\ \A j \in 1..Len(k[i]) : k[i + 1][j] = k[i][j]
          /\ k[i + 1] \in Seq(X)
      BY <2>0, <2>2, <3>1
    <3>3. ASSUME NEW j \in 1..Len(k[i + 1])
          PROVE  \E m \in 1..i + 1 : k[i + 1][j] = q[m]
      <4>1. CASE j \in 1..Len(k[i])
        BY <1>2, <2>0, <3>2, <4>1
      <4>2. CASE j = Len(k[i]) + 1
        BY <2>0, <3>2, <4>2
      <4> QED
        BY <2>2, <3>2, <4>1, <4>2
    <3>4. \A j \in 1..Len(k[i]) : k[i][j] # q[i + 1]
      <4> SUFFICES ASSUME NEW j \in 1..Len(k[i]) PROVE k[i][j] # q[i + 1]
        OBVIOUS
      <4>1. PICK m \in 1..i : k[i][j] = q[m]
        BY <1>2
      <4>2. m \in 1..Len(q) /\ m # i + 1
        BY <1>2, <2>0
      <4> QED
        BY <1>q, <2>0, <4>1, <4>2
    <3>5. ASSUME NEW j \in 1..Len(k[i + 1]), NEW m \in 1..Len(k[i + 1]),
                 k[i + 1][j] = k[i + 1][m]
          PROVE  j = m
      <4>1. j \in 1..Len(k[i]) \/ j = Len(k[i]) + 1
        BY <2>2, <3>2
      <4>2. m \in 1..Len(k[i]) \/ m = Len(k[i]) + 1
        BY <2>2, <3>2
      <4>3. \A a, b \in 1..Len(k[i]) : k[i][a] = k[i][b] => a = b
        BY <1>2
      <4> QED
        BY <3>2, <3>4, <3>5, <4>1, <4>2, <4>3
    <3> QED
      BY <2>0, <3>2, <3>3, <3>5
  <2>4. CASE q[i + 1] \notin S
    BY <1>2, <2>0, <2>1, <2>4, SMTT(30)
  <2> QED
    BY <2>3, <2>4
<1>3. Len(q) \in P
  <2> HIDE DEF P
  <2>1. Len(q) \in Nat /\ Len(q) \in 0..Len(q)
    OBVIOUS
  <2>2. \A i \in 0..Len(q) : i \in P
    BY <1>1, <1>2, <2>1, UptoInduction
  <2> QED
    BY <2>1, <2>2
<1>4. Filter(q, S) = k[Len(q)]
  BY DEF Filter, k
<1> QED
  BY <1>3, <1>4 DEF IsInjective

\* Only what the condition says of the elements of q matters.
LEMMA FilterSame ==
  ASSUME NEW X, NEW q \in Seq(X), NEW S, NEW T,
         \A i \in 1..Len(q) : q[i] \in S <=> q[i] \in T
  PROVE  Filter(q, S) = Filter(q, T)
<1> DEFINE k == Kept(q, S)
           l == Kept(q, T)
           P == {n \in Nat : k[n] = l[n]}
<1>0. /\ k[0] = <<>>
      /\ \A i \in 0..Len(q) : i < Len(q) =>
           k[i + 1] = IF q[i + 1] \in S THEN Append(k[i], q[i + 1]) ELSE k[i]
  BY KeptSteps
<1>9. /\ l[0] = <<>>
      /\ \A i \in 0..Len(q) : i < Len(q) =>
           l[i + 1] = IF q[i + 1] \in T THEN Append(l[i], q[i + 1]) ELSE l[i]
  BY KeptSteps
<1> HIDE DEF k, l
<1>1. 0 \in P
  BY <1>0, <1>9
<1>2. ASSUME NEW i \in 0..Len(q), i \in P, i < Len(q) PROVE i + 1 \in P
  <2>0. i \in Nat /\ i + 1 \in 1..Len(q)
    BY <1>2
  <2> QED
    BY <1>0, <1>9, <1>2, <2>0
<1>3. Len(q) \in P
  <2> HIDE DEF P
  <2>1. Len(q) \in Nat /\ Len(q) \in 0..Len(q)
    OBVIOUS
  <2>2. \A i \in 0..Len(q) : i \in P
    BY <1>1, <1>2, <2>1, UptoInduction
  <2> QED
    BY <2>1, <2>2
<1>4. Filter(q, S) = k[Len(q)] /\ Filter(q, T) = l[Len(q)]
  BY DEF Filter, k, l
<1> QED
  BY <1>3, <1>4

\* A condition that every element meets keeps the sequence.
LEMMA FilterAll ==
  ASSUME NEW X, NEW q \in Seq(X), NEW S, \A i \in 1..Len(q) : q[i] \in S
  PROVE  Filter(q, S) = q
<1> DEFINE k == Kept(q, S)
           P == {n \in Nat : n <= Len(q) => k[n] \in Seq(X) /\ Len(k[n]) = n
                                 /\ \A j \in 1..n : k[n][j] = q[j]}
<1>0. /\ k[0] = <<>>
      /\ \A i \in 0..Len(q) : i < Len(q) =>
           k[i + 1] = IF q[i + 1] \in S THEN Append(k[i], q[i + 1]) ELSE k[i]
  BY KeptSteps
<1> HIDE DEF k
<1>1. 0 \in P
  <2>1. <<>> \in Seq(X) /\ Len(<<>>) = 0
    OBVIOUS
  <2>2. k[0] \in Seq(X) /\ Len(k[0]) = 0
    BY <1>0, <2>1, Zenon
  <2> QED
    BY <2>2
<1>2. ASSUME NEW i \in 0..Len(q), i \in P, i < Len(q) PROVE i + 1 \in P
  <2>0. i \in Nat /\ i + 1 \in 1..Len(q) /\ q[i + 1] \in X
    BY <1>2
  <2>1. k[i + 1] = Append(k[i], q[i + 1])
    BY <1>0, <1>2, <2>0
  <2>2. k[i] \in Seq(X) /\ Len(k[i]) = i /\ \A j \in 1..i : k[i][j] = q[j]
    BY <1>2, <2>0
  <2>3. /\ Len(k[i + 1]) = i + 1 /\ k[i + 1][i + 1] = q[i + 1]
        /\ \A j \in 1..i : k[i + 1][j] = k[i][j]
        /\ k[i + 1] \in Seq(X)
    BY <2>0, <2>1, <2>2
  <2>4. ASSUME NEW j \in 1..i + 1 PROVE k[i + 1][j] = q[j]
    BY <2>0, <2>2, <2>3
  <2> QED
    BY <2>0, <2>3, <2>4
<1>3. Len(q) \in P
  <2> HIDE DEF P
  <2>1. Len(q) \in Nat /\ Len(q) \in 0..Len(q)
    OBVIOUS
  <2>2. \A i \in 0..Len(q) : i \in P
    BY <1>1, <1>2, <2>1, UptoInduction
  <2> QED
    BY <2>1, <2>2
<1>4. Filter(q, S) = k[Len(q)]
  BY DEF Filter, k
<1>5. k[Len(q)] = q
  BY <1>3
<1> QED
  BY <1>4, <1>5

LEMMA AppendConcat ==
  ASSUME NEW X, NEW a \in X, NEW s \in Seq(X), NEW b \in X
  PROVE  Append(<<a>> \o s, b) = <<a>> \o Append(s, b)
OBVIOUS

\* The first element is kept or not; the rest is filtered by itself.
LEMMA FilterCons ==
  ASSUME NEW X, NEW q \in Seq(X), NEW a \in X, NEW S
  PROVE  Filter(<<a>> \o q, S) = IF a \in S THEN <<a>> \o Filter(q, S)
                                            ELSE Filter(q, S)
<1> DEFINE all == <<a>> \o q
           k == Kept(q, S)
           l == Kept(all, S)
           P == {n \in Nat : n <= Len(q) => k[n] \in Seq(X) /\
                    l[n + 1] = IF a \in S THEN <<a>> \o k[n] ELSE k[n]}
<1>0. /\ all \in Seq(X) /\ Len(all) = Len(q) + 1 /\ Len(q) \in Nat
      /\ all[1] = a /\ \A i \in 1..Len(q) : all[i + 1] = q[i]
  OBVIOUS
<1> HIDE DEF all
<1>8. /\ k[0] = <<>>
      /\ \A i \in 0..Len(q) : i < Len(q) =>
           k[i + 1] = IF q[i + 1] \in S THEN Append(k[i], q[i + 1]) ELSE k[i]
  BY KeptSteps
<1>9. /\ l[0] = <<>>
      /\ \A i \in 0..Len(all) : i < Len(all) =>
           l[i + 1] = IF all[i + 1] \in S THEN Append(l[i], all[i + 1]) ELSE l[i]
  BY <1>0, KeptSteps
<1>f. Filter(q, S) = k[Len(q)] /\ Filter(all, S) = l[Len(q) + 1]
  BY <1>0, Zenon DEF Filter
<1> HIDE DEF k, l
<1>1. 0 \in P
  <2>4. 0 \in 0..Len(all) /\ 0 < Len(all) /\ 0 + 1 = 1
    BY <1>0
  <2>5. l[0 + 1] = IF all[0 + 1] \in S THEN Append(l[0], all[0 + 1]) ELSE l[0]
    BY <1>9, <2>4, Zenon
  <2>1. l[1] = IF a \in S THEN Append(<<>>, a) ELSE <<>>
    BY <1>0, <1>9, <2>4, <2>5, Zenon
  <2>3. <<>> \in Seq(X) /\ Len(<<>>) = 0
    OBVIOUS
  <2>2. Append(<<>>, a) = <<a>> /\ <<a>> \o <<>> = <<a>>
    OBVIOUS
  <2> QED
    <3>1. k[0] \in Seq(X) /\ <<a>> \o k[0] = <<a>>
      BY <1>8, <2>2, <2>3, Zenon
    <3>3. l[1] = IF a \in S THEN <<a>> \o k[0] ELSE k[0]
      BY <1>8, <2>1, <2>2, <3>1, Zenon
    <3>2. l[0 + 1] = IF a \in S THEN <<a>> \o k[0] ELSE k[0]
      BY <3>3
    <3> QED
      BY <3>1, <3>2
<1>2. ASSUME NEW i \in 0..Len(q), i \in P, i < Len(q) PROVE i + 1 \in P
  <2>0. /\ i \in Nat /\ i + 1 \in 1..Len(q) /\ i + 1 \in 0..Len(all)
        /\ i + 1 < Len(all) /\ q[i + 1] \in X
    BY <1>0, <1>2
  <2>1. k[i + 1] = IF q[i + 1] \in S THEN Append(k[i], q[i + 1]) ELSE k[i]
    BY <1>8, <1>2
  <2>2. l[i + 1 + 1] = IF q[i + 1] \in S THEN Append(l[i + 1], q[i + 1]) ELSE l[i + 1]
    BY <1>0, <1>9, <2>0
  <2>3. k[i] \in Seq(X) /\ l[i + 1] = IF a \in S THEN <<a>> \o k[i] ELSE k[i]
    BY <1>2, <2>0
  <2>4. Append(<<a>> \o k[i], q[i + 1]) = <<a>> \o Append(k[i], q[i + 1])
    <3>1. PICK s \in Seq(X), b \in X : s = k[i] /\ b = q[i + 1]
      BY <2>0, <2>3
    <3>2. Append(<<a>> \o s, b) = <<a>> \o Append(s, b)
      BY AppendConcat
    <3> QED
      BY Zenon, <3>1, <3>2
  <2>5. k[i + 1] \in Seq(X)
    BY <2>0, <2>1, <2>3
  <2>6. l[i + 1 + 1] = IF a \in S THEN <<a>> \o k[i + 1] ELSE k[i + 1]
    <3>1. CASE q[i + 1] \in S
      BY Zenon, <2>1, <2>2, <2>3, <2>4, <3>1
    <3>2. CASE q[i + 1] \notin S
      BY Zenon, <2>1, <2>2, <2>3, <3>2
    <3> QED
      BY <3>1, <3>2
  <2> QED
    BY <2>0, <2>5, <2>6
<1>3. Len(q) \in P
  <2> HIDE DEF P
  <2>1. Len(q) \in Nat /\ Len(q) \in 0..Len(q)
    BY <1>0
  <2>2. \A i \in 0..Len(q) : i \in P
    BY <1>1, <1>2, <2>1, UptoInduction
  <2> QED
    BY <2>1, <2>2
<1>4. l[Len(q) + 1] = IF a \in S THEN <<a>> \o k[Len(q)] ELSE k[Len(q)]
  BY <1>0, <1>3
<1> QED
  BY <1>4, <1>f DEF all

\* Two sequences without a repetition, and without a common element.
LEMMA ConcatInjective ==
  ASSUME NEW X, NEW p \in Seq(X), NEW q \in Seq(X),
         IsInjective(p), IsInjective(q),
         \A i \in 1..Len(p), j \in 1..Len(q) : p[i] # q[j]
  PROVE  IsInjective(p \o q)
<1> DEFINE c == p \o q
<1>1. /\ Len(p) \in Nat /\ Len(q) \in Nat /\ Len(c) = Len(p) + Len(q)
      /\ c \in Seq(X)
      /\ \A i \in 1..Len(p) : c[i] = p[i]
      /\ \A i \in (Len(p) + 1)..Len(c) : i - Len(p) \in 1..Len(q) /\ c[i] = q[i - Len(p)]
  OBVIOUS
<1>2. /\ \A i, j \in 1..Len(p) : p[i] = p[j] => i = j
      /\ \A i, j \in 1..Len(q) : q[i] = q[j] => i = j
  BY DEF IsInjective
<1> HIDE DEF c
<1>3. ASSUME NEW i \in 1..Len(c), NEW j \in 1..Len(c), c[i] = c[j] PROVE i = j
  <2>1. i \in 1..Len(p) \/ i \in (Len(p) + 1)..Len(c)
    BY <1>1
  <2>2. j \in 1..Len(p) \/ j \in (Len(p) + 1)..Len(c)
    BY <1>1
  <2>3. CASE i \in 1..Len(p) /\ j \in 1..Len(p)
    BY <1>1, <1>2, <1>3, <2>3
  <2>4. CASE i \in (Len(p) + 1)..Len(c) /\ j \in (Len(p) + 1)..Len(c)
    <3>1. q[i - Len(p)] = q[j - Len(p)]
      BY <1>1, <1>3, <2>4
    <3>2. i - Len(p) = j - Len(p)
      BY <1>1, <1>2, <2>4, <3>1
    <3> QED
      BY <1>1, <2>4, <3>2
  <2>5. CASE i \in 1..Len(p) /\ j \in (Len(p) + 1)..Len(c)
    BY <1>1, <1>3, <2>5
  <2>6. CASE i \in (Len(p) + 1)..Len(c) /\ j \in 1..Len(p)
    BY <1>1, <1>3, <2>6
  <2> QED
    BY <2>1, <2>2, <2>3, <2>4, <2>5, <2>6
<1>4. DOMAIN c = 1..Len(c)
  BY <1>1
<1> QED
  BY <1>3, <1>4 DEF IsInjective, c

\* The permutations of a finite set are sequences of its elements.
LEMMA PermutationType ==
  ASSUME NEW S, IsFiniteSet(S), NEW o \in SetToSeqs(S)
  PROVE  o \in Seq(S) /\ IsInjective(o)
<1>1. Cardinality(S) \in Nat
  BY FS_CardinalityType
<1>2. /\ o \in [1..Cardinality(S) -> S]
      /\ \A i, j \in 1..Cardinality(S) : i # j => o[i] # o[j]
  BY DEF SetToSeqs
<1>3. o \in Seq(S)
  BY <1>1, <1>2
<1> QED
  BY <1>2, <1>3 DEF IsInjective

\* The alerts that a poll raises are for records that raise one, each once.
LEMMA BatchType ==
  ASSUME NEW o \in Orderings(Orders), NEW v \in Orderings(Reservations)
  PROVE  /\ o \in Seq(Alerting) /\ v \in Seq(Alerting)
         /\ o \o v \in Seq(Alerting) /\ IsInjective(o \o v)
<1>1. /\ IsFiniteSet(Alerting \cap Orders)
      /\ IsFiniteSet(Alerting \cap Reservations)
  BY FS_Subset, RecordsAssumption
<1>2. /\ o \in Seq(Alerting \cap Orders) /\ IsInjective(o)
      /\ v \in Seq(Alerting \cap Reservations) /\ IsInjective(v)
  BY <1>1, PermutationType DEF Orderings
<1>3. o \in Seq(Alerting) /\ v \in Seq(Alerting)
  BY <1>2
<1>4. \A i \in 1..Len(o), j \in 1..Len(v) : o[i] # v[j]
  BY <1>2, RecordsAssumption
<1>5. o \o v \in Seq(Alerting)
  BY <1>3
<1> QED
  BY <1>2, <1>3, <1>4, <1>5, ConcatInjective
-----------------------------------------------------------------------------
(***************************************************************************)
(* Types.                                                                  *)
(***************************************************************************)
RequestType == [kind : {"none", "confirm", "list"}, rec : Records \cup {None},
                tok : Tokens, st : {"none", "sent", "ok", "denied"}]

LEMMA BasicTypes ==
  /\ Nothing \in [Records -> Statuses]
  /\ NoRequest \in RequestType /\ NoCall \in CallType
  /\ NoPoll \in [st : {"idle", "sent", "loaded", "denied", "failed"},
                 tok : Tokens, reply : [Records -> Statuses]]
  /\ 0 \in Tokens /\ <<>> \in Seq(Records)
<1>1. 0 \in Tokens
  BY PairingsAssumption DEF Tokens
<1> QED
  BY <1>1 DEF Nothing, NoRequest, NoCall, NoPoll, RequestType, CallType,
     Statuses

\* The queue, the loop and the mark after a removal have their types.
LEMMA SettleType ==
  ASSUME NEW left \in Records \cup {None}, NEW waiting \in Seq(Records),
         Settle(left, waiting), loop \in {"off", "playing", "silent"}
  PROVE  /\ active' \in Records \cup {None} /\ pending' \in Seq(Records)
         /\ loop' \in {"off", "playing", "silent"}
         /\ active' = None => pending' = <<>>
<1>1. CASE left = None /\ waiting # <<>>
  <2>1. Head(waiting) \in Records /\ Tail(waiting) \in Seq(Records)
    BY <1>1
  <2> QED
    BY <1>1, <2>1, RecordsAssumption DEF Settle, StartLoop
<1>2. CASE ~(left = None /\ waiting # <<>>)
  BY <1>2 DEF Settle
<1> QED
  BY <1>1, <1>2

\* The alerts that a poll leaves waiting.
LEMMA WaitingType ==
  ASSUME TypeOK, NEW o \in Orderings(Orders), NEW v \in Orderings(Reservations)
  PROVE  /\ pending \o (o \o v) \in Seq(Records)
         /\ Filter(pending \o (o \o v), StillOpen) \in Seq(Records)
<1>1. o \o v \in Seq(Alerting) /\ Alerting \subseteq Records
  BY BatchType DEF Alerting, Unseen, Present
<1>2. pending \in Seq(Records) /\ o \o v \in Seq(Records)
  BY <1>1 DEF TypeOK
<1>3. pending \o (o \o v) \in Seq(Records)
  BY <1>2
<1> QED
  BY <1>3, FilterType

\* One request changes, to one of its type.
LEMMA RequestTypeKept ==
  ASSUME request \in [Requests -> RequestType], NEW i \in Requests,
         NEW new \in RequestType, request' = [request EXCEPT ![i] = new]
  PROVE  request' \in [Requests -> RequestType]
  OBVIOUS

\* One call begins, moves on or ends.
LEMMA CallTypeKept ==
  ASSUME call \in [Calls -> CallType], NEW i \in Calls,
         NEW new \in CallType, call' = [call EXCEPT ![i] = new]
  PROVE  call' \in [Calls -> CallType]
  OBVIOUS

LEMMA AskType ==
  ASSUME call \in [Calls -> CallType], NEW tok \in Tokens,
         NEW kind \in {"submit", "verify", "validate", "unpair"}, Ask(kind, tok)
  PROVE  call' \in [Calls -> CallType]
<1>1. [kind |-> kind, tok |-> tok] \in CallType
  BY DEF CallType
<1> QED
  BY <1>1, CallTypeKept DEF Ask

\* A step of the session gives its own variables their types.
LEMMA SessionType ==
  ASSUME TypeOK, SessionStep
  PROVE  /\ valid' \in Tokens /\ pairings' \in Tokens /\ token' \in Tokens
         /\ mode' \in Modes /\ call' \in [Calls -> CallType]
         /\ ticking' \in BOOLEAN
<1> USE BasicTypes DEF Modes
<1> DEFINE Typed ==
             /\ valid' \in Tokens /\ pairings' \in Tokens /\ token' \in Tokens
             /\ mode' \in Modes /\ call' \in [Calls -> CallType]
             /\ ticking' \in BOOLEAN
<1>t. /\ valid \in Tokens /\ pairings \in Tokens /\ token \in Tokens
      /\ mode \in Modes /\ call \in [Calls -> CallType] /\ ticking \in BOOLEAN
  BY DEF TypeOK
<1>1. ASSUME Revoke \/ PairingTimesOut \/ PairingCancelled \/ ResetToken
      PROVE  Typed
  BY <1>1, <1>t DEF Revoke, PairingTimesOut, PairingCancelled, ResetToken,
     EnterNotPaired
<1>2. ASSUME Boot \/ Submit \/ PollPairing \/ RetryValidation \/ Unpair
      PROVE  Typed
  <2>1. call' \in [Calls -> CallType]
    <3>1. \/ call' = call \/ Ask("validate", token) \/ Ask("submit", 0)
          \/ Ask("verify", 0) \/ Ask("unpair", token)
      BY <1>2 DEF Boot, Submit, PollPairing, RetryValidation, Unpair
    <3> QED
      BY <1>t, <3>1, AskType
  <2>2. mode' \in Modes
    BY <1>2, <1>t DEF Boot, Submit, PollPairing, RetryValidation, Unpair,
       EnterNotPaired
  <2> QED
    BY <1>2, <1>t, <2>1, <2>2 DEF Boot, Submit, PollPairing, RetryValidation,
       Unpair
<1>3. ASSUME NEW i \in Calls, Ends(i) PROVE call' \in [Calls -> CallType]
  BY <1>3, <1>t, CallTypeKept DEF Ends
<1>4. ASSUME NEW i \in Calls,
             \/ SubmitFails(i) \/ StartPairing(i) \/ StillWaiting(i)
             \/ PairingExpires(i) \/ Unpaired(i) \/ UnpairFails(i)
      PROVE  Typed
  BY <1>3, <1>4, <1>t DEF SubmitFails, StartPairing, StillWaiting,
     PairingExpires, Unpaired, UnpairFails, EnterNotPaired
<1>5. ASSUME NEW i \in Calls, PairingServed(i) PROVE Typed
  <2>1. pairings + 1 \in Tokens
    BY <1>5, <1>t, PairingsAssumption DEF PairingServed, Tokens
  <2>2. [kind |-> "paired", tok |-> pairings + 1] \in CallType
    BY <2>1 DEF CallType
  <2> QED
    BY <1>5, <1>t, <2>1, <2>2, CallTypeKept DEF PairingServed
<1>6. ASSUME NEW i \in Calls, Paired(i) PROVE Typed
  <2>1. call[i] \in CallType
    BY <1>t
  <2>2. call[i].tok \in Tokens /\ [call[i] EXCEPT !.kind = "enter"] \in CallType
    BY <2>1 DEF CallType
  <2>3. call' = [call EXCEPT ![i] = [call[i] EXCEPT !.kind = "enter"]]
    BY <1>6 DEF Paired
  <2>4. call' \in [Calls -> CallType]
    BY <1>t, <2>2, <2>3, CallTypeKept
  <2> QED
    BY <1>6, <1>t, <2>2, <2>4 DEF Paired
<1>7. ASSUME NEW i \in Calls, Validated(i) PROVE Typed
  BY <1>3, <1>7, <1>t DEF Validated, EnterNotPaired
<1>8. ASSUME NEW i \in Calls, UnpairServed(i) PROVE Typed
  <2>1. [kind |-> "unpaired", tok |-> 0] \in CallType
    BY DEF CallType
  <2> QED
    BY <1>8, <1>t, <2>1, CallTypeKept DEF UnpairServed
<1> QED
  BY <1>1, <1>2, <1>4, <1>5, <1>6, <1>7, <1>8 DEF SessionStep, CallMoves

LEMMA TypeStep == TypeOK /\ [Next]_vars => TypeOK'
<1> SUFFICES ASSUME TypeOK, [Next]_vars PROVE TypeOK'
  OBVIOUS
<1> USE BasicTypes DEF Modes
<1>r. request \in [Requests -> RequestType]
  BY DEF TypeOK, RequestType
<1>1. ASSUME NEW r \in Records, RecordArrives(r) \/ HandledElsewhere(r)
      PROVE  TypeOK'
  BY <1>1 DEF RecordArrives, HandledElsewhere, TypeOK, Statuses, session,
     screen, alerts
<1>2. ASSUME SessionStep PROVE TypeOK'
  <2>1. /\ valid' \in Tokens /\ pairings' \in Tokens /\ token' \in Tokens
        /\ mode' \in Modes /\ call' \in [Calls -> CallType]
        /\ ticking' \in BOOLEAN
    BY <1>2, SessionType
  <2>2. UNCHANGED <<status, poll, enabled, busy, request>>
    BY <1>2, SessionOutcome
  <2>3. /\ view' \in [Records -> Statuses] /\ seen' \subseteq Records
        /\ hydrated' \in BOOLEAN /\ active' \in Records \cup {None}
        /\ pending' \in Seq(Records) /\ loop' \in {"off", "playing", "silent"}
        /\ active' = None => pending' = <<>>
    BY <1>2, SessionOutcome DEF EnterNotPaired, ResetQueue, TypeOK, screen,
       alerts
  <2> QED
    BY <2>1, <2>2, <2>3 DEF TypeOK
<1>3. ASSUME PageDies PROVE TypeOK'
  <2>1. request' \in [Requests -> RequestType]
    BY <1>3 DEF PageDies
  <2>2. call' \in [Calls -> CallType] /\ ticking' \in BOOLEAN /\ mode' \in Modes
    BY <1>3 DEF PageDies
  <2>3. /\ active' \in Records \cup {None} /\ pending' \in Seq(Records)
        /\ loop' \in {"off", "playing", "silent"}
        /\ active' = None => pending' = <<>>
    BY <1>3 DEF PageDies, ResetQueue
  <2>4. /\ UNCHANGED <<status, valid, pairings, token, enabled>>
        /\ poll' = NoPoll /\ view' = Nothing /\ seen' = {}
        /\ hydrated' = FALSE /\ busy' = FALSE
    BY <1>3 DEF PageDies
  <2> QED
    BY <2>1, <2>2, <2>3, <2>4 DEF TypeOK, RequestType
<1>8. ASSUME PollSend \/ PollServed \/ PollFails \/ PollFailed PROVE TypeOK'
  <2> DEFINE PollType == [st : {"idle", "sent", "loaded", "denied", "failed"},
                          tok : Tokens, reply : [Records -> Statuses]]
  <2>1. NoPoll \in PollType /\ token \in Tokens /\ 0 \in Tokens
        /\ status \in [Records -> Statuses]
    BY DEF TypeOK
  <2>2. /\ [NoPoll EXCEPT !.st = "sent", !.tok = token] \in PollType
        /\ [st |-> "loaded", tok |-> 0, reply |-> status] \in PollType
        /\ [NoPoll EXCEPT !.st = "denied"] \in PollType
        /\ [NoPoll EXCEPT !.st = "failed"] \in PollType
    BY <2>1
  <2>3. poll' \in PollType
    BY <1>8, <2>1, <2>2, Zenon DEF PollSend, PollServed, PollFails, PollFailed
  <2>4. UNCHANGED <<status, session, screen, alerts, enabled, busy, request>>
    BY <1>8 DEF PollSend, PollServed, PollFails, PollFailed
  <2> QED
    BY <2>3, <2>4 DEF TypeOK, session, screen, alerts
<1>9. ASSUME PollUnpaired \/ PollDenied PROVE TypeOK'
  BY <1>9 DEF PollUnpaired, PollDenied, EnterNotPaired, ResetQueue, TypeOK
<1>10. ASSUME PollLoaded PROVE TypeOK'
  <2> DEFINE Left == IF active \in StillOpen THEN active ELSE None
  <2>1. PICK o \in Orderings(Orders), v \in Orderings(Reservations) :
          Settle(Left, Filter(pending \o (o \o v), StillOpen))
    BY <1>10, Zenon DEF PollLoaded
  <2>2. Left \in Records \cup {None}
    BY DEF TypeOK
  <2>3. busy' \in BOOLEAN
    BY <1>10 DEF PollLoaded
  <2>4. Filter(pending \o (o \o v), StillOpen) \in Seq(Records)
    BY WaitingType
  <2> HIDE DEF Left
  <2>5. /\ active' \in Records \cup {None} /\ pending' \in Seq(Records)
        /\ loop' \in {"off", "playing", "silent"}
        /\ active' = None => pending' = <<>>
    BY <2>1, <2>2, <2>4, SettleType DEF TypeOK
  <2>6. seen' \subseteq Records /\ hydrated' = TRUE
    BY <1>10 DEF PollLoaded, Present, TypeOK
  <2>7. /\ view' = poll.reply /\ poll' = NoPoll
        /\ UNCHANGED <<status, session, enabled, request>>
    BY <1>10 DEF PollLoaded
  <2> QED
    BY <2>3, <2>5, <2>6, <2>7 DEF TypeOK, session
<1>11. ASSUME NEW kind \in {"confirm", "list"}, NEW r \in Records, Send(kind, r)
       PROVE  request' \in [Requests -> RequestType]
  <2>1. PICK i \in Requests : request' = [request EXCEPT ![i] =
                  [kind |-> kind, rec |-> r, tok |-> token, st |-> "sent"]]
    BY <1>11 DEF Send
  <2>2. [kind |-> kind, rec |-> r, tok |-> token, st |-> "sent"] \in RequestType
    BY DEF RequestType, TypeOK
  <2> QED
    BY <1>r, <2>1, <2>2, RequestTypeKept
<1>12. ASSUME Confirm PROVE TypeOK'
  <2>1. active \in Records /\ Send("confirm", active)
    BY <1>12 DEF Confirm, TypeOK
  <2>2. request' \in [Requests -> RequestType]
    BY <1>11, <2>1
  <2> QED
    BY <1>12, <2>2 DEF Confirm, TypeOK, RequestType, session, screen, alerts
<1>13. ASSUME ConfirmUnpaired PROVE TypeOK'
  BY <1>13 DEF ConfirmUnpaired, EnterNotPaired, ResetQueue, TypeOK
<1>14. ASSUME NEW r \in Records, ListButton(r) PROVE TypeOK'
  <2>1. Send("list", r)
    BY <1>14 DEF ListButton
  <2>2. request' \in [Requests -> RequestType]
    BY <1>11, <2>1
  <2> QED
    BY <1>14, <2>2 DEF ListButton, TypeOK, RequestType, session, screen, alerts
<1>15. ASSUME NEW s \in Settings, Toggle(s) PROVE TypeOK'
  <2>1. enabled' \in [Settings -> BOOLEAN]
    BY <1>15 DEF Toggle, TypeOK
  <2>2. loop' \in {"off", "playing", "silent"}
    BY <1>15 DEF Toggle, TypeOK
  <2> QED
    BY <1>15, <2>1, <2>2 DEF Toggle, TypeOK, session, screen
<1>16. ASSUME NEW i \in Requests, RequestServed(i) PROVE TypeOK'
  <2>1. PICK st \in {"ok", "denied"} : Answered(i, st)
    BY <1>16 DEF RequestServed
  <2>2. [request[i] EXCEPT !.st = st, !.tok = 0] \in RequestType
    BY <1>r DEF RequestType
  <2>3. request' \in [Requests -> RequestType]
    BY <1>r, <2>1, <2>2, RequestTypeKept DEF Answered
  <2>4. status' \in [Records -> Statuses]
    BY <1>16 DEF RequestServed, TypeOK, Statuses
  <2> QED
    BY <1>16, <2>3, <2>4 DEF RequestServed, TypeOK, RequestType, session,
       screen, alerts
<1>18. ASSUME NEW i \in Requests, NEW kind, NEW st, Done(i, kind, st)
       PROVE  request' \in [Requests -> RequestType]
  BY <1>18, <1>r, RequestTypeKept DEF Done
<1>19. ASSUME NEW r, ShowHandled(r) PROVE view' \in [Records -> Statuses]
  BY <1>19 DEF ShowHandled, TypeOK, Statuses
<1>20. ASSUME NEW i \in Requests, ConfirmOk(i) PROVE TypeOK'
  <2>1. request' \in [Requests -> RequestType] /\ view' \in [Records -> Statuses]
    BY <1>18, <1>19, <1>20 DEF ConfirmOk
  <2>2. /\ active' \in Records \cup {None} /\ pending' \in Seq(Records)
        /\ loop' \in {"off", "playing", "silent"}
        /\ active' = None => pending' = <<>>
    <3>1. CASE active = request[i].rec
      <4>1. Settle(None, pending)
        BY <1>20, <3>1 DEF ConfirmOk
      <4> QED
        BY <4>1, SettleType DEF TypeOK
    <3>2. CASE active # request[i].rec
      BY <1>20, <3>2 DEF ConfirmOk, TypeOK, alerts
    <3> QED
      BY <3>1, <3>2
  <2> QED
    BY <1>20, <2>1, <2>2 DEF ConfirmOk, TypeOK, RequestType, session
<1>21. ASSUME NEW i \in Requests, ConfirmDenied(i) PROVE TypeOK'
  <2>1. request' \in [Requests -> RequestType]
    BY <1>18, <1>21 DEF ConfirmDenied
  <2> QED
    BY <1>21, <2>1 DEF ConfirmDenied, EnterNotPaired, ResetQueue, TypeOK,
       RequestType
<1>22. ASSUME NEW i \in Requests, ConfirmFailed(i) \/ ListDenied(i) \/ ListFailed(i)
       PROVE  TypeOK'
  <2>1. request' \in [Requests -> RequestType]
    BY <1>18, <1>22 DEF ConfirmFailed, ListDenied, ListFailed, Fails
  <2> QED
    BY <1>22, <2>1 DEF ConfirmFailed, ListDenied, ListFailed, TypeOK,
       RequestType, session, screen, alerts
<1>23. ASSUME NEW i \in Requests, ListOk(i) PROVE TypeOK'
  <2>1. request' \in [Requests -> RequestType]
    BY <1>18, <1>23 DEF ListOk
  <2>2. view' \in [Records -> Statuses]
    <3>1. ShowHandled(request[i].rec) \/ view' = view
      BY <1>23 DEF ListOk
    <3> QED
      BY <1>19, <3>1 DEF TypeOK
  <2> QED
    BY <1>23, <2>1, <2>2 DEF ListOk, TypeOK, RequestType, session, alerts
<1>24. ASSUME CycleEnds \/ SilencePasses PROVE TypeOK'
  BY <1>24 DEF CycleEnds, SilencePasses, TypeOK, session, screen
<1>25. CASE UNCHANGED vars
  BY <1>25 DEF vars, session, screen, alerts, TypeOK
<1> QED
  BY <1>1, <1>2, <1>3, <1>8, <1>9, <1>10, <1>12, <1>13, <1>14, <1>15, <1>16,
     <1>20, <1>21, <1>22, <1>23, <1>24, <1>25 DEF Next, Answer, SessionStep

LEMMA TypeInit == Init => TypeOK
<1> SUFFICES ASSUME Init PROVE TypeOK
  OBVIOUS
<1>1. request \in [Requests -> RequestType]
  BY BasicTypes DEF Init
<1> QED
  BY <1>1, BasicTypes DEF Init, TypeOK, RequestType, Modes

(***************************************************************************)
(* Every variable keeps its type, and no alert waits behind an empty       *)
(* screen: a poll, a confirmation or the end of a session that takes the   *)
(* active alert away puts the next one in its place or leaves none.        *)
(***************************************************************************)
THEOREM TypesHold == Spec => []TypeOK
  BY TypeInit, TypeStep, PTL DEF Spec
-----------------------------------------------------------------------------
(***************************************************************************)
(* The queue.  What makes "the alert on the screen is open" inductive is a *)
(* chain: a waiting alert is for a record of this session (seen) that the  *)
(* page shows open; what has been seen exists, for the server and in an    *)
(* answer that is still to be handled; and a request in flight is for a    *)
(* record that exists, whose alert no poll can raise again.                *)
(***************************************************************************)
Waits(r) == r = active \/ \E j \in 1..Len(pending) : r = pending[j]

QueueInv ==
  /\ active = None => pending = <<>>
  /\ IsInjective(pending)
  /\ \A j \in 1..Len(pending) : pending[j] # active
  /\ \A r \in Records : Waits(r) => r \in seen /\ view[r] = "open"
  /\ ~hydrated => seen = {}

SeenInv ==
  \A r \in Records :
    /\ view[r] # "absent" => r \in seen
    /\ r \in seen => status[r] # "absent"
    /\ poll.st = "loaded" =>
         /\ r \in seen => poll.reply[r] # "absent"
         /\ poll.reply[r] # "absent" => status[r] # "absent"
         /\ poll.reply[r] = "handled" => status[r] = "handled"

\* What is known of a request of a kind for a record, in a state.
Sound(q) ==
  /\ q.rec \in Records
  /\ status[q.rec] # "absent"
  /\ hydrated => q.rec \in seen
  /\ poll.st = "loaded" => poll.reply[q.rec] # "absent"
  /\ q.st = "ok" => status[q.rec] = "handled"
  /\ q.kind = "confirm" => \A j \in 1..Len(pending) : pending[j] # q.rec
  /\ q.kind = "list" /\ q.rec \in Reservations => ~Waits(q.rec)

RequestInv ==
  \A i \in Requests : /\ request[i].kind # "none" => Sound(request[i])
                      /\ request[i].kind = "none" => request[i].st = "none"

AlertInv == QueueInv /\ SeenInv /\ RequestInv

\* A status only moves on; a request in flight stays as it is, ends, or gets
\* an answer, which is "ok" only when the record is handled.
Onward ==
  \A r \in Records : /\ status[r] # "absent" => status'[r] # "absent"
                     /\ status[r] = "handled" => status'[r] = "handled"

Fewer ==
  \A i \in Requests :
    /\ request'[i].kind # "none" =>
         /\ request'[i].kind = request[i].kind /\ request'[i].rec = request[i].rec
         /\ request'[i].st = "ok" => \/ request[i].st = "ok"
                                     \/ status'[request[i].rec] = "handled"
    /\ request'[i].kind = "none" => request'[i].st = "none"

\* Steps that leave the page alone.
LEMMA PageUntouched ==
  ASSUME AlertInv, UNCHANGED <<view, seen, hydrated, active, pending>>, Onward,
         Fewer,
         \/ poll' = poll
         \/ poll'.st # "loaded"
         \/ poll'.reply = status /\ status' = status
  PROVE  AlertInv'
<1>1. QueueInv'
  BY DEF AlertInv, QueueInv, Waits
<1>2. SeenInv'
  BY DEF AlertInv, SeenInv, Onward
<1>3. ASSUME NEW i \in Requests, request'[i].kind # "none" PROVE Sound(request[i])'
  <2>1. /\ request'[i].kind = request[i].kind /\ request'[i].rec = request[i].rec
        /\ request'[i].st = "ok" => \/ request[i].st = "ok"
                                    \/ status'[request[i].rec] = "handled"
    BY <1>3 DEF Fewer
  <2>2. Sound(request[i])
    BY <1>3, <2>1 DEF AlertInv, RequestInv
  <2>3. /\ request[i].rec \in Records /\ status'[request[i].rec] # "absent"
        /\ request[i].st = "ok" => status'[request[i].rec] = "handled"
    BY <2>2 DEF Sound, Onward
  <2>4. (poll.st = "loaded" => poll.reply[request[i].rec] # "absent")'
    BY <2>1, <2>2 DEF Sound
  <2>5. Waits(request[i].rec)' <=> Waits(request[i].rec)
    BY <2>1 DEF Waits
  <2> QED
    BY <2>1, <2>2, <2>3, <2>4, <2>5 DEF Sound
<1> QED
  BY <1>1, <1>2, <1>3 DEF AlertInv, RequestInv, Fewer

\* The queue is emptied, with the lists (enterNotPairedState, a page that
\* dies) or without them (startPairingPolling).
LEMMA QueueEmptied ==
  ASSUME TypeOK, AlertInv, active' = None, pending' = <<>>, status' = status, Fewer,
         poll' = poll \/ poll'.st # "loaded",
         \/ UNCHANGED <<view, seen, hydrated>>
         \/ view' = Nothing /\ seen' = {} /\ hydrated' = FALSE
  PROVE  AlertInv'
<1>1. \A r \in Records : ~Waits(r)'
  BY RecordsAssumption DEF Waits
<1>2. QueueInv'
  BY <1>1 DEF AlertInv, QueueInv, IsInjective
<1>3. SeenInv'
  BY DEF AlertInv, SeenInv, Nothing
<1>4. ASSUME NEW i \in Requests, request'[i].kind # "none" PROVE Sound(request[i])'
  <2>1. /\ request'[i].kind = request[i].kind /\ request'[i].rec = request[i].rec
        /\ request'[i].st = "ok" => \/ request[i].st = "ok"
                                    \/ status'[request[i].rec] = "handled"
    BY <1>4 DEF Fewer
  <2>2. Sound(request[i])
    BY <1>4, <2>1 DEF AlertInv, RequestInv
  <2>3. (hydrated => request[i].rec \in seen)'
    <3>1. CASE UNCHANGED <<view, seen, hydrated>>
      <4>1. hydrated' = hydrated /\ seen' = seen
        BY <3>1
      <4> QED
        BY <2>1, <2>2, <4>1, Zenon DEF Sound
    <3>2. CASE view' = Nothing /\ seen' = {} /\ hydrated' = FALSE
      BY <3>2
    <3> QED
      BY <3>1, <3>2
  <2>4. (poll.st = "loaded" => poll.reply[request[i].rec] # "absent")'
    BY <2>1, <2>2 DEF Sound
  <2> QED
    BY <1>1, <2>1, <2>2, <2>3, <2>4 DEF Sound
<1> QED
  BY <1>2, <1>3, <1>4 DEF AlertInv, RequestInv, Fewer

LEMMA SameIsFewer == AlertInv /\ request' = request => Fewer
  BY DEF Fewer, AlertInv, RequestInv

LEMMA SameIsOnward == status' = status => Onward
  BY DEF Onward

\* A request is forgotten.
LEMMA DoneIsFewer ==
  ASSUME TypeOK, AlertInv, NEW i \in Requests, NEW kind, NEW st, Done(i, kind, st)
  PROVE  /\ Fewer
         /\ request'[i].kind = "none" /\ request'[i].st = "none"
         /\ \A j \in Requests \ {i} : request'[j] = request[j]
<1>1. request' = [j \in Requests |-> IF j = i THEN NoRequest ELSE request[j]]
  BY DEF Done, TypeOK
<1> QED
  BY <1>1 DEF Fewer, NoRequest, AlertInv, RequestInv

\* A request gets the answer st.
LEMMA AnswerIsFewer ==
  ASSUME TypeOK, AlertInv, NEW i \in Requests, request[i].kind # "none", NEW st,
         Answered(i, st),
         st = "ok" => status'[request[i].rec] = "handled"
  PROVE  Fewer
<1>1. /\ request'[i] = [request[i] EXCEPT !.st = st, !.tok = 0]
      /\ \A j \in Requests \ {i} : request'[j] = request[j]
  BY DEF TypeOK, Answered
<1>2. request[i] \in RequestType
  BY DEF TypeOK, RequestType
<1>3. /\ request'[i].kind = request[i].kind /\ request'[i].rec = request[i].rec
      /\ request'[i].st = st
  BY <1>1, <1>2 DEF RequestType
<1> QED
  BY <1>1, <1>3 DEF Fewer, AlertInv, RequestInv

\* A request is sent for a record that exists and has been seen.
LEMMA RequestIsSound ==
  ASSUME TypeOK, AlertInv, NEW kind \in {"confirm", "list"}, NEW r \in Records,
         Send(kind, r), r \in seen,
         kind = "confirm" => \A j \in 1..Len(pending) : pending[j] # r,
         kind = "list" => ~Waits(r),
         UNCHANGED <<status, poll, view, seen, hydrated, active, pending>>
  PROVE  AlertInv'
<1>1. PICK i \in Requests : request' = [request EXCEPT ![i] =
                 [kind |-> kind, rec |-> r, tok |-> token, st |-> "sent"]]
  BY DEF Send
<1>2. QueueInv' /\ SeenInv'
  BY DEF AlertInv, QueueInv, SeenInv, Waits
<1>3. /\ request'[i].kind = kind /\ request'[i].rec = r /\ request'[i].st = "sent"
      /\ \A j \in Requests \ {i} : request'[j] = request[j]
  BY <1>1 DEF TypeOK
<1>4. \A q : Waits(q)' <=> Waits(q)
  BY DEF Waits
<1>5. Sound(request[i])'
  <2>1. status[r] # "absent" /\ (poll.st = "loaded" => poll.reply[r] # "absent")
    BY DEF AlertInv, SeenInv
  <2>2. /\ status' = status /\ poll' = poll /\ hydrated' = hydrated /\ seen' = seen
        /\ pending' = pending
    OBVIOUS
  <2>3. "sent" # "ok"
    OBVIOUS
  <2> QED
    BY <1>3, <1>4, <2>1, <2>2, <2>3 DEF Sound
<1>6. ASSUME NEW j \in Requests \ {i}, request'[j].kind # "none" PROVE Sound(request[j])'
  <2>1. Sound(request[j]) /\ request'[j] = request[j]
    BY <1>3, <1>6 DEF AlertInv, RequestInv
  <2> QED
    BY <1>4, <2>1 DEF Sound
<1> QED
  BY <1>2, <1>3, <1>5, <1>6 DEF AlertInv, RequestInv

\* A removal: what is left, and what waits, was there before and is without
\* a repetition.
LEMMA SettleQueue ==
  ASSUME NEW left \in Records \cup {None}, NEW waiting \in Seq(Records),
         IsInjective(waiting), \A j \in 1..Len(waiting) : waiting[j] # left,
         Settle(left, waiting)
  PROVE  /\ active' = None => pending' = <<>>
         /\ IsInjective(pending')
         /\ \A j \in 1..Len(pending') : pending'[j] # active'
         /\ \A r \in Records : Waits(r)' => r = left \/ \E j \in 1..Len(waiting) : r = waiting[j]
         /\ \A j \in 1..Len(pending') : \E m \in 1..Len(waiting) : pending'[j] = waiting[m]
         /\ Queue' = IF left = None THEN waiting ELSE <<left>> \o waiting
<1>1. CASE left = None /\ waiting # <<>>
  <2>1. active' = Head(waiting) /\ pending' = Tail(waiting)
    BY <1>1 DEF Settle
  <2>2. /\ Len(waiting) \in Nat /\ Len(waiting) >= 1
        /\ Head(waiting) = waiting[1] /\ waiting[1] \in Records
        /\ Tail(waiting) \in Seq(Records)
        /\ Len(Tail(waiting)) = Len(waiting) - 1
        /\ \A j \in 1..Len(Tail(waiting)) : Tail(waiting)[j] = waiting[j + 1]
        /\ <<Head(waiting)>> \o Tail(waiting) = waiting
    BY <1>1
  <2>3. \A j, m \in 1..Len(waiting) : waiting[j] = waiting[m] => j = m
    BY DEF IsInjective
  <2>4. active' # None
    BY <2>1, <2>2, RecordsAssumption
  <2>5. IsInjective(pending')
    BY <2>1, <2>2, <2>3 DEF IsInjective
  <2>6. \A j \in 1..Len(pending') : pending'[j] # active'
    BY <2>1, <2>2, <2>3
  <2>7. \A j \in 1..Len(pending') : \E m \in 1..Len(waiting) : pending'[j] = waiting[m]
    BY <2>1, <2>2
  <2>8. Queue' = waiting
    BY <2>1, <2>2, <2>4 DEF Queue
  <2>9. \A r \in Records : Waits(r)' => \E j \in 1..Len(waiting) : r = waiting[j]
    BY <2>1, <2>2, <2>7 DEF Waits
  <2> QED
    BY <1>1, <2>4, <2>5, <2>6, <2>7, <2>8, <2>9
<1>2. CASE ~(left = None /\ waiting # <<>>)
  <2>1. active' = left /\ pending' = waiting
    BY <1>2 DEF Settle
  <2>2. Queue' = IF left = None THEN waiting ELSE <<left>> \o waiting
    BY <1>2, <2>1 DEF Queue
  <2> QED
    BY <1>2, <2>1, <2>2 DEF Waits
<1> QED
  BY <1>1, <1>2

LEMMA QueuedIsWaiting ==
  ASSUME TypeOK, NEW r \in Records, active = None => pending = <<>>
  PROVE  Queued(r) <=> Waits(r)
<1>1. CASE active = None
  <2>1. Queue = <<>>
    BY <1>1 DEF Queue
  <2>2. ToSet(<<>>) = {}
    BY DEF ToSet
  <2> QED
    BY <1>1, <2>1, <2>2, RecordsAssumption DEF Queued, Waits
<1>2. CASE active # None
  <2>1. pending \in Seq(Records) /\ active \in Records
    BY <1>2 DEF TypeOK
  <2>2. Queue = <<active>> \o pending
    BY <1>2 DEF Queue
  <2>3. /\ Len(<<active>> \o pending) = Len(pending) + 1 /\ Len(pending) \in Nat
        /\ (<<active>> \o pending)[1] = active
        /\ \A j \in 1..Len(pending) : (<<active>> \o pending)[j + 1] = pending[j]
        /\ DOMAIN (<<active>> \o pending) = 1..(Len(pending) + 1)
    BY <2>1
  <2> DEFINE q == <<active>> \o pending
  <2> HIDE DEF q
  <2>4. Queued(r) <=> \E j \in 1..Len(pending) + 1 : r = q[j]
    BY <2>2, <2>3 DEF Queued, ToSet, q
  <2>5. (\E j \in 1..Len(pending) + 1 : r = q[j]) <=> r = q[1] \/ \E j \in 1..Len(pending) : r = q[j + 1]
    <3>1. ASSUME NEW j \in 1..Len(pending) + 1, r = q[j]
          PROVE  r = q[1] \/ \E m \in 1..Len(pending) : r = q[m + 1]
      <4>1. CASE j = 1
        BY <3>1, <4>1
      <4>2. CASE j # 1
        <5>1. j - 1 \in 1..Len(pending) /\ (j - 1) + 1 = j
          BY <2>3, <4>2
        <5> QED
          BY <3>1, <5>1
      <4> QED
        BY <4>1, <4>2
    <3>2. 1 \in 1..Len(pending) + 1 /\ \A j \in 1..Len(pending) : j + 1 \in 1..Len(pending) + 1
      BY <2>3
    <3> QED
      BY <3>1, <3>2
  <2> QED
    BY <2>3, <2>4, <2>5 DEF Waits, q
<1> QED
  BY <1>1, <1>2

\* The alerts that a poll leaves waiting: open ones, of the pending alerts and
\* the new ones, without a repetition and without the one on the screen.
LEMMA PollQueue ==
  ASSUME TypeOK, AlertInv, NEW o \in Orderings(Orders), NEW v \in Orderings(Reservations),
         NEW waiting, waiting = Filter(pending \o (o \o v), StillOpen)
  PROVE  /\ waiting \in Seq(Records) /\ IsInjective(waiting)
         /\ \A j \in 1..Len(waiting) :
              /\ waiting[j] \in StillOpen /\ waiting[j] # active
              /\ waiting[j] \in Alerting \/ \E m \in 1..Len(pending) : waiting[j] = pending[m]
<1> DEFINE batch == o \o v
           all == pending \o batch
<1>1. /\ pending \in Seq(Records) /\ IsInjective(pending)
      /\ \A j \in 1..Len(pending) : pending[j] # active /\ Waits(pending[j])
  BY DEF TypeOK, AlertInv, QueueInv, Waits
<1>2. batch \in Seq(Alerting) /\ IsInjective(batch) /\ Alerting \subseteq Records
  BY BatchType DEF Alerting, Unseen, Present
<1>3. \A r \in Alerting : ~Waits(r)
  BY <1>2, QueuedIsWaiting DEF Alerting, AlertInv, QueueInv
<1> HIDE DEF batch
<1>4. batch \in Seq(Records) /\ Len(batch) \in Nat /\ Len(pending) \in Nat
  BY <1>1, <1>2
<1>5. \A i \in 1..Len(pending), j \in 1..Len(batch) : pending[i] # batch[j]
  BY <1>1, <1>2, <1>3
<1>6. all \in Seq(Records) /\ IsInjective(all)
  BY <1>1, <1>2, <1>4, <1>5, ConcatInjective
<1>7. ASSUME NEW i \in 1..Len(all)
      PROVE  all[i] \in Alerting \/ \E m \in 1..Len(pending) : all[i] = pending[m]
  <2>1. \/ i \in 1..Len(pending) /\ all[i] = pending[i]
        \/ i - Len(pending) \in 1..Len(batch) /\ all[i] = batch[i - Len(pending)]
    BY <1>1, <1>4
  <2> HIDE DEF all
  <2> QED
    BY <1>2, <2>1
<1>8. \A i \in 1..Len(all) : all[i] # active
  BY <1>1, <1>3, <1>7 DEF Waits
<1>9. waiting = Filter(all, StillOpen)
  BY DEF batch
<1> HIDE DEF all
<1>10. /\ waiting \in Seq(Records)
       /\ \A j \in 1..Len(waiting) :
            waiting[j] \in StillOpen /\ \E m \in 1..Len(all) : waiting[j] = all[m]
  BY <1>6, <1>9, FilterType
<1>11. IsInjective(waiting)
  BY <1>6, <1>9, FilterDistinct
<1> QED
  BY <1>7, <1>8, <1>10, <1>11

LEMMA PollLoadedKeeps ==
  ASSUME TypeOK, AlertInv, PollLoaded
  PROVE  AlertInv'
<1> DEFINE Left == IF active \in StillOpen THEN active ELSE None
<1>1. PICK o \in Orderings(Orders), v \in Orderings(Reservations) :
        Settle(Left, Filter(pending \o (o \o v), StillOpen))
  BY Zenon DEF PollLoaded
<1> DEFINE waiting == Filter(pending \o (o \o v), StillOpen)
<1>2. /\ poll.st = "loaded" /\ seen' = seen \cup Present /\ hydrated' = TRUE
      /\ view' = poll.reply /\ poll' = NoPoll /\ status' = status /\ request' = request
  BY DEF PollLoaded
<1>3. /\ waiting \in Seq(Records) /\ IsInjective(waiting)
      /\ \A j \in 1..Len(waiting) :
           /\ waiting[j] \in StillOpen /\ waiting[j] # active
           /\ waiting[j] \in Alerting \/ \E m \in 1..Len(pending) : waiting[j] = pending[m]
  BY PollQueue
<1>4. Settle(Left, waiting)
  BY <1>1
<1> HIDE DEF waiting
<1>5. Left \in Records \cup {None} /\ \A j \in 1..Len(waiting) : waiting[j] # Left
  BY <1>3, RecordsAssumption DEF TypeOK, StillOpen
<1>6. /\ active' = None => pending' = <<>>
      /\ IsInjective(pending')
      /\ \A j \in 1..Len(pending') : pending'[j] # active'
      /\ \A r \in Records : Waits(r)' => r = Left \/ \E j \in 1..Len(waiting) : r = waiting[j]
      /\ \A j \in 1..Len(pending') : \E m \in 1..Len(waiting) : pending'[j] = waiting[m]
  <2> HIDE DEF Left
  <2> QED
    BY <1>3, <1>4, <1>5, SettleQueue
<1>7. \A r \in Records : Waits(r)' => r \in StillOpen
  BY <1>3, <1>6, RecordsAssumption
<1>8. \A r \in StillOpen : r \in seen' /\ view'[r] = "open"
  BY <1>2 DEF StillOpen, Present
<1>9. QueueInv'
  BY <1>2, <1>6, <1>7, <1>8 DEF QueueInv
<1>10. SeenInv'
  BY <1>2 DEF AlertInv, SeenInv, Present, NoPoll
<1>11. ASSUME NEW i \in Requests, request'[i].kind # "none" PROVE Sound(request[i])'
  <2>0. PICK rec : rec = request[i].rec
    OBVIOUS
  <2>1. Sound(request[i]) /\ request'[i] = request[i]
    BY <1>2, <1>11 DEF AlertInv, RequestInv
  <2>2. rec \in Present
    BY <1>2, <2>0, <2>1 DEF Sound, Present
  <2>3. rec \notin Alerting
    BY <2>0, <2>1 DEF Sound, Alerting, Unseen
  <2>4. ASSUME request[i].kind = "confirm"
        PROVE  \A j \in 1..Len(pending') : pending'[j] # rec
    BY <1>3, <1>6, <2>0, <2>1, <2>3, <2>4 DEF Sound
  <2>5. ASSUME request[i].kind = "list", rec \in Reservations
        PROVE  ~Waits(rec)'
    <3>1. ~Waits(rec) /\ rec \in Records
      BY <2>0, <2>1, <2>5 DEF Sound
    <3>2. rec # Left
      BY <3>1, RecordsAssumption DEF Waits
    <3>3. \A j \in 1..Len(waiting) : rec # waiting[j]
      BY <1>3, <2>3, <3>1 DEF Waits
    <3> QED
      BY <1>6, <3>1, <3>2, <3>3
  <2>6. poll'.st # "loaded"
    BY <1>2 DEF NoPoll
  <2>7. /\ rec \in Records /\ status'[rec] # "absent" /\ rec \in seen'
        /\ request[i].st = "ok" => status'[rec] = "handled"
    BY <1>2, <2>0, <2>1, <2>2 DEF Sound
  <2>8. request'[i].rec = rec
    BY <2>0, <2>1
  <2> QED
    BY <2>0, <2>1, <2>4, <2>5, <2>6, <2>7, <2>8 DEF Sound
<1> QED
  BY <1>2, <1>9, <1>10, <1>11 DEF AlertInv, RequestInv

\* The answer to a request is handled: its record shows as handled, and its
\* alert is no longer waiting.
LEMMA ShownAsHandled ==
  ASSUME TypeOK, AlertInv, NEW i \in Requests, NEW kind, NEW st, Done(i, kind, st),
         NEW rec, rec = request[i].rec, ShowHandled(rec), ~Waits(rec)',
         UNCHANGED <<status, poll, seen, hydrated>>,
         active' = None => pending' = <<>>, IsInjective(pending'),
         \A j \in 1..Len(pending') : /\ pending'[j] # active'
                                     /\ \E m \in 1..Len(pending) : pending'[j] = pending[m],
         \A r \in Records : Waits(r)' => Waits(r)
  PROVE  AlertInv'
<1>1. /\ request'[i].kind = "none" /\ request'[i].st = "none"
      /\ \A j \in Requests \ {i} : request'[j] = request[j]
  BY DoneIsFewer
<1>2. \A r \in Records : r # rec => view'[r] = view[r]
  BY DEF ShowHandled, TypeOK
<1>3. \A r \in Records : view[r] = "absent" => view'[r] = "absent"
  BY DEF ShowHandled, TypeOK
<1>4. QueueInv'
  <2>1. \A r \in Records : Waits(r)' => r \in seen' /\ view'[r] = "open"
    BY <1>2 DEF AlertInv, QueueInv
  <2>2. (~hydrated => seen = {})'
    BY Zenon DEF AlertInv, QueueInv
  <2> QED
    BY <2>1, <2>2 DEF QueueInv
<1>5. SeenInv'
  BY <1>3 DEF AlertInv, SeenInv
<1>6. ASSUME NEW j \in Requests, request'[j].kind # "none" PROVE Sound(request[j])'
  <2>1. Sound(request[j]) /\ request'[j] = request[j]
    BY <1>1, <1>6 DEF AlertInv, RequestInv
  <2>2. request[j].kind = "confirm" => \A m \in 1..Len(pending') : pending'[m] # request[j].rec
    BY <2>1 DEF Sound
  <2>3. request[j].kind = "list" /\ request[j].rec \in Reservations => ~Waits(request[j].rec)'
    BY <2>1 DEF Sound
  <2>4. /\ status' = status /\ poll' = poll /\ seen' = seen /\ hydrated' = hydrated
    OBVIOUS
  <2> QED
    BY <2>1, <2>2, <2>3, <2>4 DEF Sound
<1> QED
  BY <1>1, <1>4, <1>5, <1>6 DEF AlertInv, RequestInv

\* The alert confirmed leaves the screen, or had left it before.
LEMMA ConfirmOkKeeps ==
  ASSUME TypeOK, AlertInv, NEW i \in Requests, ConfirmOk(i)
  PROVE  /\ AlertInv'
         /\ active = request[i].rec => Queue' = pending
<1>0. PICK rec : rec = request[i].rec
  OBVIOUS
<1>1. /\ Done(i, "confirm", {"ok"}) /\ ShowHandled(rec)
      /\ UNCHANGED <<status, poll, seen, hydrated>>
  BY <1>0 DEF ConfirmOk
<1>2. Sound(request[i]) /\ request[i].kind = "confirm"
  BY <1>0, <1>1 DEF Done, AlertInv, RequestInv
<1>3. /\ pending \in Seq(Records) /\ IsInjective(pending)
      /\ \A j \in 1..Len(pending) : pending[j] # rec /\ pending[j] # None /\ pending[j] # active
  BY <1>0, <1>2, RecordsAssumption DEF TypeOK, AlertInv, QueueInv, Sound
<1>4. CASE active = rec
  <2>1. Settle(None, pending)
    BY <1>0, <1>4 DEF ConfirmOk
  <2>2. /\ active' = None => pending' = <<>>
        /\ IsInjective(pending')
        /\ \A j \in 1..Len(pending') : pending'[j] # active'
        /\ \A r \in Records : Waits(r)' => r = None \/ \E j \in 1..Len(pending) : r = pending[j]
        /\ \A j \in 1..Len(pending') : \E m \in 1..Len(pending) : pending'[j] = pending[m]
        /\ Queue' = pending
    BY <1>3, <2>1, SettleQueue
  <2>3. /\ \A r \in Records : Waits(r)' => Waits(r)
        /\ ~Waits(rec)'
    BY <1>0, <1>2, <1>3, <1>4, <2>2, RecordsAssumption DEF Waits, Sound
  <2> QED
    BY <1>0, <1>1, <2>2, <2>3, ShownAsHandled
<1>5. CASE active # rec
  <2>1. active' = active /\ pending' = pending
    BY <1>0, <1>5 DEF ConfirmOk, alerts
  <2>2. ~Waits(rec)' /\ \A r \in Records : Waits(r)' => Waits(r)
    BY <1>3, <1>5, <2>1 DEF Waits
  <2>3. /\ active' = None => pending' = <<>>
        /\ IsInjective(pending')
        /\ \A j \in 1..Len(pending') : /\ pending'[j] # active'
                                       /\ \E m \in 1..Len(pending) : pending'[j] = pending[m]
    BY <1>3, <2>1 DEF AlertInv, QueueInv
  <2> QED
    BY <1>0, <1>1, <1>5, <2>2, <2>3, ShownAsHandled
<1> QED
  BY <1>4, <1>5

LEMMA ListOkKeeps ==
  ASSUME TypeOK, AlertInv, NEW i \in Requests, ListOk(i)
  PROVE  AlertInv'
<1>0. PICK rec : rec = request[i].rec
  OBVIOUS
<1>1. Done(i, "list", {"ok"}) /\ UNCHANGED <<status, poll, seen, hydrated, active, pending>>
  BY DEF ListOk, alerts
<1>2. Sound(request[i]) /\ request[i].kind = "list"
  BY <1>0, <1>1 DEF Done, AlertInv, RequestInv
<1>3. CASE rec \in Reservations
  <2>1. ShowHandled(rec)
    BY <1>0, <1>3 DEF ListOk
  <2>2. ~Waits(rec)' /\ \A r \in Records : Waits(r)' => Waits(r)
    BY <1>0, <1>1, <1>2, <1>3 DEF Sound, Waits
  <2>3. /\ active' = None => pending' = <<>>
        /\ IsInjective(pending')
        /\ \A j \in 1..Len(pending') : /\ pending'[j] # active'
                                       /\ \E m \in 1..Len(pending) : pending'[j] = pending[m]
    BY <1>1 DEF AlertInv, QueueInv
  <2> QED
    BY <1>0, <1>1, <2>1, <2>2, <2>3, ShownAsHandled
<1>4. CASE rec \notin Reservations
  <2>1. view' = view
    BY <1>0, <1>4 DEF ListOk
  <2> QED
    BY <1>1, <2>1, DoneIsFewer, SameIsOnward, PageUntouched
<1> QED
  BY <1>3, <1>4

LEMMA AlertStep == TypeOK /\ AlertInv /\ [Next]_vars => AlertInv'
<1> SUFFICES ASSUME TypeOK, AlertInv, [Next]_vars PROVE AlertInv'
  OBVIOUS
<1>1. ASSUME UNCHANGED <<view, seen, hydrated, active, pending>>, Onward, Fewer,
             poll' = poll \/ poll'.st # "loaded"
      PROVE  AlertInv'
  BY <1>1, PageUntouched
<1>2. ASSUME UNCHANGED <<screen, active, pending, status, request>>,
             poll' = poll \/ poll'.st # "loaded"
      PROVE  AlertInv'
  BY <1>1, <1>2, SameIsFewer, SameIsOnward DEF screen
<1>3. ASSUME EnterNotPaired, status' = status, Fewer, poll' = poll \/ poll'.st # "loaded"
      PROVE  AlertInv'
  BY <1>3, QueueEmptied DEF EnterNotPaired, ResetQueue
<1>4. ASSUME NEW r \in Records, RecordArrives(r) \/ HandledElsewhere(r)
      PROVE  AlertInv'
  <2>1. Onward
    BY <1>4 DEF RecordArrives, HandledElsewhere, Onward, TypeOK
  <2> QED
    BY <1>1, <1>4, <2>1, SameIsFewer DEF RecordArrives, HandledElsewhere,
       screen, alerts
<1>5. ASSUME SessionStep PROVE AlertInv'
  <2>1. UNCHANGED <<status, poll, request>> /\ Fewer
    BY <1>5, SessionOutcome, SameIsFewer
  <2>2. CASE UNCHANGED <<screen, alerts>>
    BY <1>2, <2>1, <2>2 DEF alerts
  <2>3. CASE EnterNotPaired
    BY <1>3, <2>1, <2>3
  <2>4. CASE ResetQueue /\ UNCHANGED screen
    BY <2>1, <2>4, QueueEmptied DEF ResetQueue, screen
  <2> QED
    BY <1>5, <2>2, <2>3, <2>4, SessionOutcome
<1>6. ASSUME PageDies PROVE AlertInv'
  <2>1. \A i \in Requests : request'[i].kind = "none"
    BY <1>6 DEF PageDies, NoRequest
  <2>2. Fewer /\ poll'.st # "loaded"
    BY <1>6, <2>1 DEF PageDies, Fewer, NoPoll, NoRequest
  <2>3. /\ active' = None /\ pending' = <<>> /\ status' = status
        /\ view' = Nothing /\ seen' = {} /\ hydrated' = FALSE
    BY <1>6 DEF PageDies, ResetQueue
  <2> QED
    BY <2>2, <2>3, QueueEmptied
<1>10. ASSUME PollSend \/ PollFails \/ PollFailed PROVE AlertInv'
  <2> DEFINE p == NoPoll
  <2>0. "st" \in DOMAIN p /\ p.st = "idle" /\ "tok" \in DOMAIN p
    BY DEF NoPoll
  <2>1. poll'.st # "loaded"
    <3> HIDE DEF p
    <3>1. \/ poll' = p \/ poll' = [p EXCEPT !.st = "failed"]
          \/ poll' = [p EXCEPT !.st = "sent", !.tok = token]
      BY <1>10 DEF PollSend, PollFails, PollFailed, p
    <3> QED
      BY <2>0, <3>1
  <2> QED
    BY <1>2, <1>10, <2>1 DEF PollSend, PollFails, PollFailed, alerts
<1>11. ASSUME PollUnpaired \/ PollDenied PROVE AlertInv'
  <2>1. poll' = poll \/ poll'.st # "loaded"
    BY <1>11 DEF PollUnpaired, PollDenied, NoPoll
  <2> QED
    BY <1>3, <1>11, <2>1, SameIsFewer DEF PollUnpaired, PollDenied
<1>12. ASSUME PollServed PROVE AlertInv'
  <2>1. poll'.st # "loaded" \/ poll'.reply = status
    BY <1>12 DEF PollServed, TypeOK
  <2>2. UNCHANGED <<status, view, seen, hydrated, active, pending, request>>
    BY <1>12 DEF PollServed, screen, alerts
  <2> QED
    BY <2>1, <2>2, SameIsFewer, SameIsOnward, PageUntouched
<1>13. ASSUME PollLoaded PROVE AlertInv'
  BY <1>13, PollLoadedKeeps
<1>14. ASSUME Confirm PROVE AlertInv'
  <2>1. active \in Records /\ Send("confirm", active)
    BY <1>14 DEF Confirm, TypeOK
  <2>2. active \in seen /\ \A j \in 1..Len(pending) : pending[j] # active
    BY <2>1 DEF AlertInv, QueueInv, Waits
  <2>3. UNCHANGED <<status, poll, view, seen, hydrated, active, pending>>
    BY <1>14 DEF Confirm, screen, alerts
  <2> QED
    BY <2>1, <2>2, <2>3, RequestIsSound
<1>15. ASSUME ConfirmUnpaired PROVE AlertInv'
  BY <1>3, <1>15, SameIsFewer DEF ConfirmUnpaired
<1>16. ASSUME NEW r \in Records, ListButton(r) PROVE AlertInv'
  <2>1. Send("list", r) /\ view[r] # "absent" /\ active = None
    BY <1>16 DEF ListButton
  <2>2. r \in seen
    BY <2>1 DEF AlertInv, SeenInv
  <2>3. ~Waits(r)
    BY <2>1, RecordsAssumption DEF AlertInv, QueueInv, Waits
  <2>4. UNCHANGED <<status, poll, view, seen, hydrated, active, pending>>
    BY <1>16 DEF ListButton, screen, alerts
  <2> QED
    BY <2>1, <2>2, <2>3, <2>4, RequestIsSound
<1>17. ASSUME NEW s \in Settings, Toggle(s) PROVE AlertInv'
  BY <1>2, <1>17 DEF Toggle
<1>18. ASSUME NEW i \in Requests, RequestServed(i) PROVE AlertInv'
  <2>1. PICK st : /\ Answered(i, st)
                  /\ \/ status' = [status EXCEPT ![request[i].rec] = "handled"]
                     \/ status' = status /\ st # "ok"
    BY <1>18 DEF RequestServed
  <2>2. request[i].kind # "none" /\ request[i].rec \in Records
    BY <1>18 DEF RequestServed, AlertInv, RequestInv, Sound
  <2>3. Onward
    BY <2>1, <2>2 DEF Onward, TypeOK
  <2>4. Fewer
    BY <2>1, <2>2, AnswerIsFewer DEF TypeOK
  <2> QED
    BY <1>1, <1>18, <2>3, <2>4 DEF RequestServed, screen, alerts
<1>20. ASSUME NEW i \in Requests, ConfirmOk(i) PROVE AlertInv'
  BY <1>20, ConfirmOkKeeps
<1>21. ASSUME NEW i \in Requests, ConfirmDenied(i) PROVE AlertInv'
  BY <1>3, <1>21, DoneIsFewer DEF ConfirmDenied
<1>22. ASSUME NEW i \in Requests, ConfirmFailed(i) \/ ListDenied(i) \/ ListFailed(i)
       PROVE  AlertInv'
  <2>1. Fewer
    BY <1>22, DoneIsFewer DEF ConfirmFailed, ListDenied, ListFailed, Fails
  <2> QED
    BY <1>1, <1>22, <2>1, SameIsOnward DEF ConfirmFailed, ListDenied, ListFailed,
       screen, alerts
<1>23. ASSUME NEW i \in Requests, ListOk(i) PROVE AlertInv'
  BY <1>23, ListOkKeeps
<1>24. ASSUME CycleEnds \/ SilencePasses PROVE AlertInv'
  BY <1>2, <1>24 DEF CycleEnds, SilencePasses
<1>25. CASE UNCHANGED vars
  BY <1>2, <1>25 DEF vars, alerts
<1> QED
  BY <1>4, <1>5, <1>6, <1>10, <1>11, <1>12, <1>13, <1>14, <1>15, <1>16,
     <1>17, <1>18, <1>20, <1>21, <1>22, <1>23, <1>24, <1>25
     DEF Next, Answer, SessionStep

LEMMA AlertInit == Init => AlertInv
  BY RecordsAssumption DEF Init, AlertInv, QueueInv, SeenInv, RequestInv, Waits, Nothing,
     NoPoll, NoRequest, IsInjective

LEMMA AlertsInvariant == Spec => [](TypeOK /\ AlertInv)
<1>1. Init => TypeOK /\ AlertInv
  BY TypeInit, AlertInit
<1>2. (TypeOK /\ AlertInv) /\ [Next]_vars => (TypeOK /\ AlertInv)'
  BY TypeStep, AlertStep
<1> QED
  BY <1>1, <1>2, PTL DEF Spec

(***************************************************************************)
(* The alert on the screen is never one that the page knows to be handled, *)
(* for any records, requests and sessions: a late answer to a request of   *)
(* this session or of an earlier one, a poll that overlaps it and an alert *)
(* that takes the place of another never leave a handled record there.     *)
(***************************************************************************)
THEOREM ShownIsOpen == Spec => []ShownAlertIsOpen
<1>1. TypeOK /\ AlertInv => ShownAlertIsOpen
  BY DEF TypeOK, AlertInv, QueueInv, Waits, ShownAlertIsOpen
<1> QED
  BY <1>1, AlertsInvariant, PTL
-----------------------------------------------------------------------------
(***************************************************************************)
(* The alerts implement the queue.                                         *)
(***************************************************************************)
NextQueue == AlertQueue!Next \/ UNCHANGED <<status, seen, Queue, OnDuty>>

\* Steps that leave queue and records alone; the screen may change.
LEMMA OtherScreen ==
  ASSUME UNCHANGED <<status, seen, active, pending>>
  PROVE  NextQueue
<1>1. UNCHANGED <<status, seen, Queue>>
  BY DEF Queue
<1>2. OnDuty' \in BOOLEAN
  BY DEF OnDuty
<1> QED
  BY <1>1, <1>2 DEF NextQueue, AlertQueue!Next, AlertQueue!ChangeScreen

\* Steps by which the records move on, one at a time.
LEMMA RecordMoves ==
  ASSUME TypeOK, UNCHANGED <<seen, active, pending, mode>>, NEW r \in Records,
         \/ status[r] = "absent" /\ status' = [status EXCEPT ![r] = "open"]
         \/ status[r] = "open" /\ status' = [status EXCEPT ![r] = "handled"]
  PROVE  NextQueue
<1>1. UNCHANGED <<seen, Queue, OnDuty>>
  BY DEF Queue, OnDuty
<1>2. AlertQueue!Records = Records
  BY DEF AlertQueue!Records, Records
<1> QED
  BY <1>1, <1>2 DEF NextQueue, AlertQueue!Next, AlertQueue!Environment

\* Steps that empty the queue end on another screen.
LEMMA SessionEnds ==
  ASSUME active' = None, seen' \in {seen, {}}, status' = status,
         mode' # "receiver_loaded"
  PROVE  NextQueue
<1>1. Queue' = <<>> /\ OnDuty' = FALSE
  BY DEF Queue, OnDuty
<1> QED
  BY <1>1 DEF NextQueue, AlertQueue!Next, AlertQueue!EndSession

\* The queue while an alert is on the screen, and while none is.
LEMMA QueueForm ==
  ASSUME TypeOK, AlertInv
  PROVE  /\ Queue \in Seq(Records)
         /\ active = None => Queue = <<>> /\ pending = <<>>
         /\ active # None => active \in Records /\ Queue = <<active>> \o pending
<1>1. CASE active = None
  BY <1>1 DEF Queue, AlertInv, QueueInv, TypeOK
<1>2. CASE active # None
  BY <1>2 DEF Queue, TypeOK
<1> QED
  BY <1>1, <1>2

\* A removal, with what has been found before it.
LEMMA FoundAndGone ==
  ASSUME NEW found \in SUBSET {r \in Records \ seen : status[r] # "absent"},
         NEW gone \in SUBSET {r \in Records : status[r] = "handled"},
         NEW alerted \in SUBSET found,
         NEW o \in SetToSeqs(alerted \cap Orders),
         NEW v \in SetToSeqs(alerted \cap Reservations),
         seen' = seen \cup found, Queue' = Filter(Queue \o o \o v, Records \ gone),
         status' = status, OnDuty' = OnDuty
  PROVE  NextQueue
<1>1. \A q, S : AlertQueue!Filter(q, S) = Filter(q, S)
  BY DEF AlertQueue!Filter, AlertQueue!Kept, Filter, Kept
<1>2. \A S : AlertQueue!SetToSeqs(S) = SetToSeqs(S)
  BY Zenon DEF AlertQueue!SetToSeqs, SetToSeqs, AlertQueue!Cardinality, Cardinality
<1>3. AlertQueue!Records = Records
  BY DEF AlertQueue!Records, Records
<1>4. AlertQueue!Find
  BY <1>1, <1>2, <1>3 DEF AlertQueue!Find
<1> QED
  BY <1>4 DEF NextQueue, AlertQueue!Next

\* An answer to a poll: records are found, some raise alerts, and the alerts
\* go that the answer no longer lists as open.
LEMMA PollFinds ==
  ASSUME TypeOK, AlertInv, PollLoaded
  PROVE  NextQueue
<1> DEFINE Left == IF active \in StillOpen THEN active ELSE None
           found == Present \ seen
           gone == {r \in Records : poll.reply[r] = "handled"}
<1>1. PICK o \in Orderings(Orders), v \in Orderings(Reservations) :
        Settle(Left, Filter(pending \o (o \o v), StillOpen))
  BY Zenon DEF PollLoaded
<1> DEFINE all == pending \o (o \o v)
           waiting == Filter(all, StillOpen)
<1>2. /\ poll.st = "loaded" /\ seen' = seen \cup Present
      /\ status' = status /\ mode' = mode
  BY DEF PollLoaded, session
<1>3. /\ waiting \in Seq(Records) /\ IsInjective(waiting)
      /\ \A j \in 1..Len(waiting) : waiting[j] \in StillOpen /\ waiting[j] # active
  BY PollQueue
<1>4. Left \in Records \cup {None} /\ \A j \in 1..Len(waiting) : waiting[j] # Left
  <2> HIDE DEF waiting
  <2> QED
    BY <1>3, RecordsAssumption DEF TypeOK, StillOpen
<1>5. Queue' = IF Left = None THEN waiting ELSE <<Left>> \o waiting
  <2> HIDE DEF Left
  <2>1. Settle(Left, waiting)
    BY <1>1
  <2> HIDE DEF waiting
  <2> QED
    BY <1>3, <1>4, <2>1, SettleQueue
<1>6. /\ found \in SUBSET {r \in Records \ seen : status[r] # "absent"}
      /\ gone \in SUBSET {r \in Records : status[r] = "handled"}
      /\ Alerting \in SUBSET found
  BY <1>2 DEF AlertInv, SeenInv, Present, Alerting, Unseen
<1>7. /\ o \in Seq(Alerting) /\ v \in Seq(Alerting) /\ o \o v \in Seq(Alerting)
      /\ Alerting \subseteq Records
  BY BatchType DEF Alerting, Unseen, Present
<1>8. /\ pending \in Seq(Records) /\ Queue \in Seq(Records)
      /\ o \in Seq(Records) /\ v \in Seq(Records)
      /\ all \in Seq(Records)
      /\ active = None => Queue = <<>> /\ pending = <<>>
      /\ active # None => active \in Records /\ Queue = <<active>> \o pending
  BY <1>7, QueueForm DEF TypeOK
<1> DEFINE line == Queue \o o \o v
<1>9. line = IF active = None THEN all ELSE <<active>> \o all
  <2>1. CASE active = None
    <3>1. Queue = <<>> /\ pending = <<>>
      BY <1>8, <2>1
    <3>2. line = o \o v /\ all = o \o v
      BY <1>8, <3>1
    <3> HIDE DEF line, all
    <3> QED
      BY <2>1, <3>2
  <2>2. CASE active # None
    <3>1. Queue = <<active>> \o pending /\ active \in Records
      BY <1>8, <2>2
    <3>2. line = <<active>> \o all
      BY <1>8, <3>1, SMTT(30)
    <3> HIDE DEF line, all
    <3> QED
      BY <2>2, <3>2
  <2> QED
    BY <2>1, <2>2
<1>10. Filter(line, StillOpen) = IF Left = None THEN waiting ELSE <<Left>> \o waiting
  <2>1. CASE active = None
    <3>1. Left = None
      BY <2>1
    <3> QED
      BY <1>9, <2>1, <3>1
  <2>2. CASE active # None
    <3>1. Filter(<<active>> \o all, StillOpen)
            = IF active \in StillOpen THEN <<active>> \o waiting ELSE waiting
      <4> HIDE DEF all
      <4> QED
        BY <1>8, <2>2, FilterCons
    <3>2. Left = None <=> active \notin StillOpen
      BY <2>2
    <3> HIDE DEF all, waiting, line
    <3> QED
      BY <1>9, <2>2, <3>1, <3>2
  <2> QED
    BY <2>1, <2>2
<1>11. \A r \in Records : Waits(r) \/ r \in Alerting => (r \in StillOpen <=> r \in Records \ gone)
  <2>1. \A r \in Records : Waits(r) \/ r \in Alerting => poll.reply[r] # "absent"
    BY <1>2 DEF AlertInv, QueueInv, SeenInv, Alerting, Unseen, Present
  <2> QED
    BY <2>1 DEF StillOpen, TypeOK, Statuses
<1>12. Filter(line, StillOpen) = Filter(line, Records \ gone)
  <2>1. \A i \in 1..Len(line) : line[i] \in Records /\ (Waits(line[i]) \/ line[i] \in Alerting)
    <3>1. ASSUME NEW i \in 1..Len(all) PROVE Waits(all[i]) \/ all[i] \in Alerting
      <4> DEFINE batch == o \o v
      <4>1. batch \in Seq(Records) /\ batch \in Seq(Alerting)
        BY <1>7, <1>8
      <4> HIDE DEF batch
      <4>2. \/ i \in 1..Len(pending) /\ all[i] = pending[i]
            \/ i - Len(pending) \in 1..Len(batch) /\ all[i] = batch[i - Len(pending)]
        BY <1>8, <4>1 DEF batch
      <4> HIDE DEF all
      <4> QED
        BY <4>1, <4>2 DEF Waits
    <3>2. \A i \in 1..Len(all) : all[i] \in Records
      BY <1>8
    <3> HIDE DEF all
    <3>3. CASE active = None
      <4>1. line = all
        BY <1>9, <3>3
      <4> QED
        BY <3>1, <3>2, <4>1
    <3>4. CASE active # None
      <4>1. line = <<active>> \o all
        BY <1>9, <3>4
      <4>2. /\ active \in Records /\ Waits(active)
            /\ Len(line) = Len(all) + 1 /\ Len(all) \in Nat /\ line[1] = active
            /\ \A i \in 1..Len(all) : line[i + 1] = all[i]
        BY <1>8, <3>4, <4>1 DEF Waits
      <4> HIDE DEF line
      <4>3. ASSUME NEW i \in 1..Len(line)
            PROVE  line[i] \in Records /\ (Waits(line[i]) \/ line[i] \in Alerting)
        <5>1. CASE i = 1
          BY <4>2, <5>1
        <5>2. CASE i # 1
          <6>1. i - 1 \in 1..Len(all) /\ (i - 1) + 1 = i
            BY <4>2, <5>2
          <6> QED
            BY <3>1, <3>2, <4>2, <6>1
        <5> QED
          BY <5>1, <5>2
      <4> QED
        BY <4>3
    <3> QED
      BY <3>3, <3>4
  <2>2. line \in Seq(Records)
    BY <1>8
  <2>3. \A i \in 1..Len(line) : line[i] \in StillOpen <=> line[i] \in Records \ gone
    <3> HIDE DEF line, gone
    <3> QED
      BY <1>11, <2>1
  <2> HIDE DEF line, gone
  <2> QED
    BY <2>2, <2>3, FilterSame
<1>13. Queue' = Filter(line, Records \ gone)
  <2> HIDE DEF line, gone, waiting, Left
  <2> QED
    BY <1>5, <1>10, <1>12
<1>14. /\ o \in SetToSeqs(Alerting \cap Orders)
       /\ v \in SetToSeqs(Alerting \cap Reservations)
  BY DEF Orderings
<1>15. seen' = seen \cup found /\ status' = status /\ OnDuty' = OnDuty
  BY <1>2 DEF OnDuty
<1> HIDE DEF found, gone
<1> QED
  BY <1>6, <1>13, <1>14, <1>15, FoundAndGone

\* The answer to a confirmation: the alert goes of a record that is handled.
LEMMA ConfirmRemoves ==
  ASSUME TypeOK, AlertInv, NEW i \in Requests, ConfirmOk(i)
  PROVE  NextQueue
<1>0. PICK rec : rec = request[i].rec
  OBVIOUS
<1>1. status' = status /\ seen' = seen /\ OnDuty' = OnDuty
  BY DEF ConfirmOk, session, OnDuty
<1>2. Sound(request[i]) /\ request[i].kind = "confirm" /\ request[i].st = "ok"
  BY DEF ConfirmOk, Done, AlertInv, RequestInv
<1>3. /\ rec \in Records /\ status[rec] = "handled"
      /\ \A j \in 1..Len(pending) : pending[j] # rec
  BY <1>0, <1>2 DEF Sound
<1>4. CASE active # rec
  BY <1>0, <1>1, <1>4, OtherScreen DEF ConfirmOk, alerts
<1>5. CASE active = rec
  <2>1. Queue' = pending
    BY <1>0, <1>5, ConfirmOkKeeps
  <2>2. pending \in Seq(Records) /\ Queue = <<active>> \o pending /\ active \in Records
    BY <1>3, <1>5, QueueForm, RecordsAssumption DEF TypeOK
  <2>3. Filter(<<active>> \o pending, Records \ {rec}) = Filter(pending, Records \ {rec})
    BY <1>5, <2>2, FilterCons
  <2>4. Filter(pending, Records \ {rec}) = pending
    <3>1. \A j \in 1..Len(pending) : pending[j] \in Records \ {rec}
      BY <1>3, <2>2
    <3> QED
      BY <2>2, <3>1, FilterAll
  <2>5. Queue \o <<>> \o <<>> = <<active>> \o pending
    BY <2>2
  <2>6. <<>> \in SetToSeqs({})
    <3>1. Cardinality({}) = 0
      BY FS_EmptySet
    <3> QED
      BY <3>1 DEF SetToSeqs
  <2>7. Queue' = Filter(Queue \o <<>> \o <<>>, Records \ {rec})
    BY <2>1, <2>3, <2>4, <2>5
  <2>8. /\ {} \in SUBSET {r \in Records \ seen : status[r] # "absent"}
        /\ {rec} \in SUBSET {r \in Records : status[r] = "handled"}
        /\ {} \cap Orders = {} /\ {} \cap Reservations = {} /\ seen' = seen \cup {}
    BY <1>1, <1>3
  <2> QED
    BY <1>1, <2>6, <2>7, <2>8, FoundAndGone
<1> QED
  BY <1>4, <1>5

LEMMA RefinementStep == TypeOK /\ AlertInv /\ [Next]_vars => NextQueue
<1> SUFFICES ASSUME TypeOK, AlertInv, [Next]_vars PROVE NextQueue
  OBVIOUS
<1>1. ASSUME NEW r \in Records, RecordArrives(r) \/ HandledElsewhere(r)
      PROVE  NextQueue
  BY <1>1, RecordMoves DEF RecordArrives, HandledElsewhere, session, screen, alerts
<1>3. ASSUME EnterNotPaired, status' = status PROVE NextQueue
  BY <1>3, SessionEnds DEF EnterNotPaired, ResetQueue
<1>4. ASSUME PageDies PROVE NextQueue
  BY <1>4, SessionEnds DEF PageDies, ResetQueue
<1>5. ASSUME PollUnpaired \/ PollDenied \/ ConfirmUnpaired PROVE NextQueue
  BY <1>3, <1>5 DEF PollUnpaired, PollDenied, ConfirmUnpaired
<1>6. ASSUME SessionStep PROVE NextQueue
  <2>1. CASE UNCHANGED <<screen, alerts>>
    BY <1>6, <2>1, SessionOutcome, OtherScreen DEF screen, alerts
  <2>2. CASE EnterNotPaired
    BY <1>3, <1>6, <2>2, SessionOutcome
  <2>3. CASE ResetQueue /\ UNCHANGED screen /\ mode' = "pairing_waiting"
    BY <1>6, <2>3, SessionOutcome, SessionEnds DEF ResetQueue, screen
  <2> QED
    BY <1>6, <2>1, <2>2, <2>3, SessionOutcome
<1>7. ASSUME PollSend \/ PollServed \/ PollFails \/ PollFailed PROVE NextQueue
  BY <1>7, OtherScreen DEF PollSend, PollServed, PollFails, PollFailed, screen, alerts
<1>8. ASSUME PollLoaded PROVE NextQueue
  BY <1>8, PollFinds
<1>9. ASSUME Confirm PROVE NextQueue
  BY <1>9, OtherScreen DEF Confirm, screen, alerts
<1>10. ASSUME NEW r \in Records, ListButton(r) PROVE NextQueue
  BY <1>10, OtherScreen DEF ListButton, screen, alerts
<1>11. ASSUME NEW s \in Settings, Toggle(s) PROVE NextQueue
  BY <1>11, OtherScreen DEF Toggle, screen
<1>12. ASSUME NEW i \in Requests, RequestServed(i) PROVE NextQueue
  <2>1. /\ status' = [status EXCEPT ![request[i].rec] = "handled"] \/ status' = status
        /\ UNCHANGED <<seen, active, pending, mode>>
    BY <1>12 DEF RequestServed, session, screen, alerts
  <2>2. request[i].rec \in Records /\ status[request[i].rec] # "absent"
    BY <1>12 DEF RequestServed, AlertInv, RequestInv, Sound
  <2>3. CASE status[request[i].rec] = "open"
    <3>1. CASE status' = status
      BY <2>1, <3>1, OtherScreen
    <3>2. CASE status' = [status EXCEPT ![request[i].rec] = "handled"]
      BY <2>1, <2>2, <2>3, <3>2, RecordMoves
    <3> QED
      BY <2>1, <3>1, <3>2
  <2>4. CASE status[request[i].rec] = "handled"
    <3>1. status' = status
      BY <2>1, <2>2, <2>4 DEF TypeOK
    <3> QED
      BY <2>1, <3>1, OtherScreen
  <2> QED
    BY <2>2, <2>3, <2>4 DEF TypeOK, Statuses
<1>14. ASSUME NEW i \in Requests, ConfirmOk(i) PROVE NextQueue
  BY <1>14, ConfirmRemoves
<1>15. ASSUME NEW i \in Requests, ConfirmDenied(i) PROVE NextQueue
  BY <1>3, <1>15 DEF ConfirmDenied
<1>16. ASSUME NEW i \in Requests,
              ConfirmFailed(i) \/ ListOk(i) \/ ListDenied(i) \/ ListFailed(i)
       PROVE  NextQueue
  BY <1>16, OtherScreen DEF ConfirmFailed, ListOk, ListDenied, ListFailed, screen, alerts
<1>17. ASSUME CycleEnds \/ SilencePasses PROVE NextQueue
  BY <1>17, OtherScreen DEF CycleEnds, SilencePasses, screen
<1>18. CASE UNCHANGED vars
  BY <1>18, OtherScreen DEF vars, screen, alerts
<1> QED
  BY <1>1, <1>4, <1>5, <1>6, <1>7, <1>8, <1>9, <1>10, <1>11, <1>12, <1>14,
     <1>15, <1>16, <1>17, <1>18 DEF Next, Answer, SessionStep

(***************************************************************************)
(* The alerts of the receiver are the queue that they promise: records are *)
(* alerted in the order in which they are found, none twice, and an alert  *)
(* goes only because its record has been handled or the session is over,   *)
(* whatever polls, confirmations and sessions overlap.                     *)
(***************************************************************************)
THEOREM AlertsAreAQueue == Spec => ImplementsAlertQueue
<1>1. Init => AlertQueue!Init
  BY DEF Init, AlertQueue!Init, AlertQueue!Records, Records, Nothing, Queue, OnDuty
<1>2. TypeOK /\ AlertInv /\ [Next]_vars => [AlertQueue!Next]_(AlertQueue!vars)
  BY RefinementStep DEF NextQueue, AlertQueue!vars
<1> QED
  BY <1>1, <1>2, AlertsInvariant, PTL DEF Spec, ImplementsAlertQueue, AlertQueue!Spec
=============================================================================
