---------------------------- MODULE AttentionAlerts ----------------------------
(***************************************************************************)
(* The receiver page of the terminal (sunmi/src/main.js with               *)
(* alerts/attentionAlertController.js and services/receiverService.js):    *)
(* the poll that brings orders and reservations, the queue of attention    *)
(* alerts, the beep loop, the operator's confirmation, and the session     *)
(* they live in.                                                           *)
(*                                                                         *)
(* The page is single-threaded, but every request is awaited: an answer is *)
(* handled in whatever state the page has reached by then.  One action is  *)
(* the code between two awaits; the server's side of a request is an       *)
(* action of its own, so a request can be served and its answer be lost.   *)
(*                                                                         *)
(* A record (an order or a reservation) is "absent", "open" (new, pending) *)
(* or "handled" (anything after that).  Pairings are numbered: a token is  *)
(* the number of the pairing that issued it, 0 is no token.                *)
(***************************************************************************)
EXTENDS Naturals, Sequences, SequencesExt, SequenceFilter

CONSTANTS
  Orders, Reservations,
  None,
  MaxPairings,   \* pairings the operator makes; bounds the model
  MaxRequests    \* requests but polls outstanding at once; bounds the model

Records  == Orders \cup Reservations
Requests == 1..MaxRequests
Calls    == 1..MaxRequests

ASSUME RecordsAssumption  == /\ Orders \cap Reservations = {}
                             /\ None \notin Records
                             /\ IsFiniteSet(Orders) /\ IsFiniteSet(Reservations)
ASSUME PairingsAssumption == MaxPairings \in Nat
ASSUME RequestsAssumption == MaxRequests \in Nat

VARIABLES
  status,    \* server: each record
  valid,     \* server: the pairing it honours, 0 once revoked
  pairings,  \* pairings made so far
  token,     \* tokenStore
  mode,      \* state.mode; "down" while there is no page
  call,      \* submissions, verifications, validations and unpairings in flight
  ticking,   \* state.pairingInFlight
  poll,      \* the poll in flight (receiverInFlight) and its answer
  view,      \* state.orders and state.reservations: the status shown
  seen,      \* seenOrderIds and seenReservationIds
  hydrated,  \* hasHydratedOperationalBaseline
  active,    \* the queue's active alert, state.activeAttentionAlert
  pending,   \* the queue's pending alerts
  enabled,   \* alertSettings: soundEnabled, orderEnabled, reservationEnabled
  loop,      \* the playback controller: off, playing a cycle, in the silence
  busy,      \* attentionConfirmation.inFlight
  request    \* status requests in flight

session == <<valid, pairings, token, mode, call, ticking>>
screen  == <<view, seen, hydrated>>
alerts  == <<active, pending, loop>>
vars    == <<status, session, poll, screen, alerts, enabled, busy, request>>
-----------------------------------------------------------------------------
TypeOf(r) == IF r \in Orders THEN "order" ELSE "reservation"

\* The switches that some record's alert reads.
Settings == {"sound"} \cup {TypeOf(r) : r \in Records}

\* isAttentionSoundEnabled
SoundEnabled(r) == enabled["sound"] /\ enabled[TypeOf(r)]

Nothing == [r \in Records |-> "absent"]

NoPoll == [st |-> "idle", tok |-> 0, reply |-> Nothing]
NoRequest == [kind |-> "none", rec |-> None, tok |-> 0, st |-> "none"]
NoCall == [kind |-> "none", tok |-> 0]

\* The bound on what is outstanding.
MayAsk ==
  Cardinality({i \in Calls : call[i] # NoCall})
    + Cardinality({i \in Requests : request[i] # NoRequest}) < MaxRequests

\* The playback controller's start: it stops the loop of before and begins a
\* cycle if there is an alert and it may sound.
StartLoop(r) == IF r # None /\ SoundEnabled(r) THEN "playing" ELSE "off"

\* The queue as one sequence, the alert on the screen first.
Queue == IF active = None THEN <<>> ELSE <<active>> \o pending
Queued(r) == r \in ToSet(Queue)

\* Mutant of Settle: the alert goes and activateNext is not called.
SettleWithoutNext(left, waiting) ==
  /\ active' = left /\ pending' = waiting
  /\ loop'   = IF left = None THEN "off" ELSE loop

(***************************************************************************)
(* The queue after a removal: what is left of the active alert (or None)   *)
(* and of the pending ones.  activateNext and the callbacks onActivate and *)
(* onDeactivate, which start and stop the loop.                            *)
(***************************************************************************)
Settle(left, waiting) ==
  IF left = None /\ waiting # <<>>
    THEN /\ active'  = Head(waiting)
         /\ pending' = Tail(waiting)
         /\ loop'    = StartLoop(Head(waiting))
    ELSE /\ active'  = left
         /\ pending' = waiting
         /\ loop'    = IF left = None THEN "off" ELSE loop

\* Mutant of ResetQueue: the alerts go, the playback is not stopped.
ResetWithoutStop == active' = None /\ pending' = <<>> /\ loop' = loop

\* attentionAlertQueue.reset
ResetQueue == active' = None /\ pending' = <<>> /\ loop' = "off"

\* enterNotPairedState with resetOperationalState.  The confirmation in
\* flight and the poll in flight are not touched.
EnterNotPaired ==
  /\ mode'     = "not_paired"
  /\ view'     = Nothing
  /\ seen'     = {}
  /\ hydrated' = FALSE
  /\ ResetQueue
-----------------------------------------------------------------------------
Init ==
  /\ status = Nothing /\ valid = 0 /\ pairings = 0 /\ token = 0
  /\ mode = "down" /\ poll = NoPoll
  /\ call = [i \in Calls |-> NoCall] /\ ticking = FALSE
  /\ view = Nothing /\ seen = {} /\ hydrated = FALSE
  /\ active = None /\ pending = <<>> /\ loop = "off"
  /\ enabled = [s \in Settings |-> TRUE]
  /\ busy = FALSE /\ request = [i \in Requests |-> NoRequest]

(***************************************************************************)
(* Around the terminal.                                                    *)
(***************************************************************************)
RecordArrives(r) ==
  /\ status[r] = "absent"
  /\ status' = [status EXCEPT ![r] = "open"]
  /\ UNCHANGED <<session, poll, screen, alerts, enabled, busy, request>>

\* By the back office, the customer, or another terminal.
HandledElsewhere(r) ==
  /\ status[r] = "open"
  /\ status' = [status EXCEPT ![r] = "handled"]
  /\ UNCHANGED <<session, poll, screen, alerts, enabled, busy, request>>

\* An administrator revokes the device.
Revoke ==
  /\ valid # 0
  /\ valid' = 0
  /\ UNCHANGED <<status, pairings, token, mode, call, ticking, poll, screen,
                 alerts, enabled, busy, request>>
-----------------------------------------------------------------------------
(***************************************************************************)
(* The session.                                                            *)
(***************************************************************************)

\* A call begins, in the first free place; a call ends.
Ask(kind, tok) ==
  /\ MayAsk
  /\ \E i \in Calls :
       /\ call[i] = NoCall /\ \A j \in Calls : j < i => call[j] # NoCall
       /\ call' = [call EXCEPT ![i] = [kind |-> kind, tok |-> tok]]

Ends(i) == call' = [call EXCEPT ![i] = NoCall]

\* boot: a stored token is validated first.
Boot ==
  /\ mode = "down"
  /\ IF token = 0 THEN mode' = "not_paired" /\ UNCHANGED call
                  ELSE mode' = "verifying" /\ Ask("validate", token)
  /\ UNCHANGED <<status, valid, pairings, token, ticking, poll, screen, alerts,
                 enabled, busy, request>>

\* The page is closed or killed: memory goes, token and settings are stored.
PageDies ==
  /\ mode # "down"
  /\ mode' = "down" /\ poll' = NoPoll
  /\ call' = [i \in Calls |-> NoCall] /\ ticking' = FALSE
  /\ view' = Nothing /\ seen' = {} /\ hydrated' = FALSE
  /\ ResetQueue
  /\ busy' = FALSE /\ request' = [i \in Requests |-> NoRequest]
  /\ UNCHANGED <<status, valid, pairings, token, enabled>>

(***************************************************************************)
(* The pairing dialogue.  Its calls are answered in whatever mode the page *)
(* has reached, and the answers set the mode all the same: a submission or *)
(* a verification of a dialogue that was cancelled, or that a late answer  *)
(* overtook, may come when the terminal is paired and at work.  That the   *)
(* poll runs while the page waits is WaitingIsTimed of DevicePairing.      *)
(***************************************************************************)

\* startPairingSubmit, until its await.
Submit ==
  /\ mode = "not_paired"
  /\ mode' = "pairing_submitting"
  /\ Ask("submit", 0)
  /\ UNCHANGED <<status, valid, pairings, token, ticking, poll, screen, alerts,
                 enabled, busy, request>>

SubmitFails(i) ==
  /\ call[i].kind = "submit"
  /\ Ends(i)
  /\ mode' = "not_paired"
  /\ UNCHANGED <<status, valid, pairings, token, ticking, poll, screen, alerts,
                 enabled, busy, request>>

\* startPairingPolling, which empties the queue only.
StartPairing(i) ==
  /\ call[i].kind = "submit"
  /\ Ends(i)
  /\ mode' = "pairing_waiting" /\ ticking' = FALSE
  /\ ResetQueue
  /\ UNCHANGED <<status, valid, pairings, token, poll, screen, enabled, busy,
                 request>>

\* A tick of the pairing poll.
PollPairing ==
  /\ mode = "pairing_waiting" /\ ~ticking
  /\ ticking' = TRUE
  /\ Ask("verify", 0)
  /\ UNCHANGED <<status, valid, pairings, token, mode, poll, screen, alerts,
                 enabled, busy, request>>

\* The administrator has confirmed, and verify issues the token.
PairingServed(i) ==
  /\ call[i].kind = "verify" /\ pairings < MaxPairings
  /\ pairings' = pairings + 1 /\ valid' = pairings + 1
  /\ call' = [call EXCEPT ![i] = [kind |-> "paired", tok |-> pairings + 1]]
  /\ UNCHANGED <<status, token, mode, ticking, poll, screen, alerts, enabled,
                 busy, request>>

\* The verification is answered: wait, or an error; its answer may be lost.
StillWaiting(i) ==
  /\ call[i].kind \in {"verify", "paired"}
  /\ Ends(i)
  /\ ticking' = FALSE
  /\ UNCHANGED <<status, valid, pairings, token, mode, poll, screen, alerts,
                 enabled, busy, request>>

\* The request has expired or has been revoked.
PairingExpires(i) ==
  /\ call[i].kind = "verify"
  /\ Ends(i)
  /\ mode' = "not_paired" /\ ticking' = FALSE
  /\ UNCHANGED <<status, valid, pairings, token, poll, screen, alerts, enabled,
                 busy, request>>

\* The token is stored, and validated within the tick.
Paired(i) ==
  /\ call[i].kind = "paired"
  /\ token' = call[i].tok
  /\ mode'  = "verifying"
  /\ call'  = [call EXCEPT ![i].kind = "enter"]
  /\ UNCHANGED <<status, valid, pairings, ticking, poll, screen, alerts,
                 enabled, busy, request>>

\* The ten-minute timer.
PairingTimesOut ==
  /\ mode = "pairing_waiting"
  /\ mode' = "not_paired"
  /\ UNCHANGED <<status, valid, pairings, token, call, ticking, poll, screen,
                 alerts, enabled, busy, request>>

PairingCancelled ==
  /\ mode = "pairing_waiting"
  /\ EnterNotPaired
  /\ UNCHANGED <<status, valid, pairings, token, call, ticking, poll, enabled,
                 busy, request>>

\* "Réinitialiser le token local" of the pairing screen.
ResetToken ==
  /\ mode \in {"not_paired", "pairing_submitting"}
  /\ token' = 0
  /\ EnterNotPaired
  /\ UNCHANGED <<status, valid, pairings, call, ticking, poll, enabled, busy,
                 request>>

\* validateDeviceOnceAndEnterReceiver, its answer; after a pairing, the tick
\* ends with it (its first refresh is PollSend).
Validated(i) ==
  /\ call[i].kind \in {"validate", "enter"}
  /\ Ends(i)
  /\ ticking' = (ticking /\ call[i].kind # "enter")
  /\ \/ /\ call[i].tok = valid
        /\ mode' = "receiver_loaded"
        /\ UNCHANGED <<token, screen, alerts>>
     \/ call[i].tok # valid /\ token' = 0 /\ EnterNotPaired
     \/ mode' = "server_error" /\ UNCHANGED <<token, screen, alerts>>
  /\ UNCHANGED <<status, valid, pairings, poll, enabled, busy, request>>

\* The retry button of the error screen.
RetryValidation ==
  /\ mode = "server_error"
  /\ IF token = 0 THEN EnterNotPaired /\ UNCHANGED call
                  ELSE /\ mode' = "verifying" /\ Ask("validate", token)
                       /\ UNCHANGED <<screen, alerts>>
  /\ UNCHANGED <<status, valid, pairings, token, ticking, poll, enabled, busy,
                 request>>

\* "Désassocier cet appareil".
Unpair ==
  /\ mode = "receiver_loaded"
  /\ IF token = 0 THEN EnterNotPaired /\ UNCHANGED call
                  ELSE /\ Ask("unpair", token)
                       /\ UNCHANGED <<mode, screen, alerts>>
  /\ UNCHANGED <<status, valid, pairings, token, ticking, poll, enabled, busy,
                 request>>

\* The server revokes the device, or had done so.
UnpairServed(i) ==
  /\ call[i].kind = "unpair"
  /\ valid' = IF call[i].tok = valid THEN 0 ELSE valid
  /\ call'  = [call EXCEPT ![i] = [kind |-> "unpaired", tok |-> 0]]
  /\ UNCHANGED <<status, pairings, token, mode, ticking, poll, screen, alerts,
                 enabled, busy, request>>

Unpaired(i) ==
  /\ call[i].kind = "unpaired"
  /\ Ends(i)
  /\ token' = 0
  /\ EnterNotPaired
  /\ UNCHANGED <<status, valid, pairings, ticking, poll, enabled, busy,
                 request>>

\* An error is shown, whether the server has revoked the device or not.
UnpairFails(i) ==
  /\ call[i].kind \in {"unpair", "unpaired"}
  /\ Ends(i)
  /\ UNCHANGED <<status, valid, pairings, token, mode, ticking, poll, screen,
                 alerts, enabled, busy, request>>
-----------------------------------------------------------------------------
(***************************************************************************)
(* refreshOperations.                                                      *)
(***************************************************************************)
PollSend ==
  /\ mode = "receiver_loaded" /\ poll.st = "idle" /\ token # 0
  /\ poll' = [NoPoll EXCEPT !.st = "sent", !.tok = token]
  /\ UNCHANGED <<status, session, screen, alerts, enabled, busy, request>>

\* loadOperationalData finds no token: nothing is sent.
PollUnpaired ==
  /\ mode = "receiver_loaded" /\ poll.st = "idle" /\ token = 0
  /\ EnterNotPaired
  /\ UNCHANGED <<status, valid, pairings, token, call, ticking, poll, enabled,
                 busy, request>>

PollServed ==
  /\ poll.st = "sent"
  /\ poll' = IF poll.tok = valid
               THEN [st |-> "loaded", tok |-> 0, reply |-> status]
               ELSE [NoPoll EXCEPT !.st = "denied"]
  /\ UNCHANGED <<status, session, screen, alerts, enabled, busy, request>>

\* The network or the server fails, before or after serving it.
PollFails ==
  /\ poll.st = "sent"
  /\ poll' = [NoPoll EXCEPT !.st = "failed"]
  /\ UNCHANGED <<status, session, screen, alerts, enabled, busy, request>>

\* detectUnseenAttentionRecords: what the answer brings for the first time.
Present == {r \in Records : poll.reply[r] # "absent"}
Unseen  == IF hydrated THEN Present \ seen ELSE {}

\* The new records that raise an alert, and the orders in which the API may
\* have listed them.
Alerting  == {r \in Unseen : enabled[TypeOf(r)] /\ ~Queued(r)}
Orderings(type) == SetToSeqs(Alerting \cap type)

\* The records whose alert removeWhere leaves in the queue.
StillOpen == {r \in Records : poll.reply[r] = "open"}

\* Mutant of PollLoaded: removeWhere is applied to the pending alerts only.
PollKeepsActive ==
  /\ poll.st = "loaded"
  /\ \E o \in Orderings(Orders), v \in Orderings(Reservations) :
       Settle(active, Filter(pending \o o \o v, StillOpen))
  /\ seen' = seen \cup Present /\ hydrated' = TRUE
  /\ view' = poll.reply /\ poll' = NoPoll
  /\ UNCHANGED <<status, session, enabled, busy, request>>

\* detectAndTriggerNewEventAlerts, then removeWhere with its reset of the
\* confirmation.  The first answer of a session is the silent baseline.
PollLoaded ==
  /\ poll.st = "loaded"
  /\ \E o \in Orderings(Orders), v \in Orderings(Reservations) :
       LET batch == o \o v
           shown == IF active = None /\ batch # <<>> THEN Head(batch)
                                                     ELSE active
           left  == IF active \in StillOpen THEN active ELSE None
       IN  /\ Settle(left, Filter(pending \o batch, StillOpen))
           /\ busy' = (busy /\ (shown = None \/ shown \in StillOpen))
  /\ seen'     = seen \cup Present
  /\ hydrated' = TRUE
  /\ view'     = poll.reply
  /\ poll'     = NoPoll
  /\ UNCHANGED <<status, session, enabled, request>>

\* Mutant of PollFailed: receiverInFlight is not reset.
PollStaysInFlight == poll.st = "failed" /\ UNCHANGED vars

\* The page is left as it is.
PollFailed ==
  /\ poll.st = "failed"
  /\ poll' = NoPoll
  /\ UNCHANGED <<status, session, screen, alerts, enabled, busy, request>>

PollDenied ==
  /\ poll.st = "denied"
  /\ poll'  = NoPoll
  /\ token' = 0
  /\ EnterNotPaired
  /\ UNCHANGED <<status, valid, pairings, call, ticking, enabled, busy,
                 request>>
-----------------------------------------------------------------------------
(***************************************************************************)
(* The operator.                                                           *)
(***************************************************************************)

Send(kind, r) ==
  /\ MayAsk
  /\ \E i \in Requests :
       /\ request[i] = NoRequest
       /\ \A j \in Requests : j < i => request[j] # NoRequest
       /\ request' = [request EXCEPT ![i] = [kind |-> kind, rec |-> r,
                                             tok |-> token, st |-> "sent"]]

\* confirmIncomingAttention, the button of the alert on the screen.  Its
\* branch for a record that the page already shows as handled is left out:
\* ShownAlertIsOpen says that it is never taken.
Confirm ==
  /\ mode = "receiver_loaded" /\ active # None /\ ~busy
  /\ token # 0
  /\ busy' = TRUE
  /\ Send("confirm", active)
  /\ UNCHANGED <<status, session, poll, screen, alerts, enabled>>

\* There is no token left: changeOrderStatus answers without a request.
ConfirmUnpaired ==
  /\ mode = "receiver_loaded" /\ active # None /\ ~busy
  /\ token = 0
  /\ EnterNotPaired
  /\ UNCHANGED <<status, valid, pairings, token, call, ticking, poll, enabled,
                 busy, request>>

\* The buttons of the lists, which the alert covers: confirm or cancel a
\* pending reservation, move an accepted order on.
ListButton(r) ==
  /\ mode = "receiver_loaded" /\ active = None /\ token # 0
  /\ view[r] = IF r \in Orders THEN "handled" ELSE "open"
  /\ r \in Reservations =>
       ~\E i \in Requests : request[i].kind = "list" /\ request[i].rec = r
  /\ Send("list", r)
  /\ UNCHANGED <<status, session, poll, screen, alerts, enabled, busy>>

\* toggle-alert.
Toggle(s) ==
  /\ mode = "receiver_loaded"
  /\ LET changed == [enabled EXCEPT ![s] = ~@]
         sounds  == changed["sound"] /\ changed[TypeOf(active)]
     IN  /\ enabled' = changed
         /\ loop' = IF active = None THEN loop
                    ELSE IF ~sounds THEN "off"
                    ELSE IF s \in {"sound", TypeOf(active)} /\ changed[s]
                      THEN "playing" ELSE loop
  /\ UNCHANGED <<status, session, poll, screen, active, pending, busy, request>>
-----------------------------------------------------------------------------
(***************************************************************************)
(* Status requests.                                                        *)
(***************************************************************************)
Answered(i, st) ==
  request' = [request EXCEPT ![i] = [request[i] EXCEPT !.st = st, !.tok = 0]]

RequestServed(i) ==
  /\ request[i].st = "sent"
  /\ IF request[i].tok = valid
       THEN /\ status' = [status EXCEPT ![request[i].rec] = "handled"]
            /\ Answered(i, "ok")
       ELSE Answered(i, "denied") /\ UNCHANGED status
  /\ UNCHANGED <<session, poll, screen, alerts, enabled, busy>>

Done(i, kind, answers) ==
  /\ request[i].kind = kind /\ request[i].st \in answers
  /\ request' = [request EXCEPT ![i] = NoRequest]

\* It fails before the server has done anything, or its answer is lost.
Fails(i, kind) == Done(i, kind, {"sent", "ok", "denied"})

\* The list shows the record as handled, if it shows it.
ShowHandled(r) ==
  view' = IF view[r] = "absent" THEN view ELSE [view EXCEPT ![r] = "handled"]

\* Mutant of ConfirmOk: acknowledge does not compare the key.
ConfirmSkips(i) ==
  /\ Done(i, "confirm", {"ok"})
  /\ ShowHandled(request[i].rec)
  /\ busy' = FALSE
  /\ Settle(None, pending)
  /\ UNCHANGED <<status, session, poll, seen, hydrated, enabled>>

\* Mutant of ConfirmFailed: the error is shown, the mark is not cleared.
FailureKeepsBusy(i) ==
  /\ Fails(i, "confirm")
  /\ UNCHANGED <<status, session, poll, screen, alerts, enabled, busy>>

\* The rest of confirmIncomingAttention: acknowledge advances the queue only
\* if the alert is still the active one.  The ticket and a poll follow.
ConfirmOk(i) ==
  /\ Done(i, "confirm", {"ok"})
  /\ ShowHandled(request[i].rec)
  /\ busy' = FALSE
  /\ IF active = request[i].rec THEN Settle(None, pending) ELSE UNCHANGED alerts
  /\ UNCHANGED <<status, session, poll, seen, hydrated, enabled>>

ConfirmDenied(i) ==
  /\ Done(i, "confirm", {"denied"})
  /\ busy'  = FALSE
  /\ token' = 0
  /\ EnterNotPaired
  /\ UNCHANGED <<status, valid, pairings, call, ticking, poll, enabled>>

ConfirmFailed(i) ==
  /\ Fails(i, "confirm")
  /\ busy' = FALSE
  /\ UNCHANGED <<status, session, poll, screen, alerts, enabled>>

\* handleReservationStatusAction and the order buttons, their answers.  A
\* refused token leaves the receiver screen without the reset.
ListOk(i) ==
  /\ Done(i, "list", {"ok"})
  /\ IF request[i].rec \in Reservations THEN ShowHandled(request[i].rec)
                                        ELSE UNCHANGED view
  /\ UNCHANGED <<status, session, poll, seen, hydrated, alerts, enabled, busy>>

ListDenied(i) ==
  /\ Done(i, "list", {"denied"})
  /\ token' = 0
  /\ mode'  = "not_paired"
  /\ UNCHANGED <<status, valid, pairings, call, ticking, poll, screen, alerts,
                 enabled, busy>>

ListFailed(i) ==
  /\ Fails(i, "list")
  /\ UNCHANGED <<status, session, poll, screen, alerts, enabled, busy>>
-----------------------------------------------------------------------------
(***************************************************************************)
(* The beep loop: a cycle ends, the silence passes, the next one starts if *)
(* the alert is still current and may sound.                               *)
(***************************************************************************)
Current == active # None /\ SoundEnabled(active)

CycleEnds ==
  /\ loop = "playing"
  /\ loop' = IF Current THEN "silent" ELSE "off"
  /\ UNCHANGED <<status, session, poll, screen, active, pending, enabled, busy,
                 request>>

SilencePasses ==
  /\ loop = "silent"
  /\ loop' = IF Current THEN "playing" ELSE "off"
  /\ UNCHANGED <<status, session, poll, screen, active, pending, enabled, busy,
                 request>>
-----------------------------------------------------------------------------
Answer(i) == \/ ConfirmOk(i) \/ ConfirmDenied(i) \/ ConfirmFailed(i)
             \/ ListOk(i) \/ ListDenied(i) \/ ListFailed(i)

CallMoves(i) ==
  \/ SubmitFails(i) \/ StartPairing(i)
  \/ PairingServed(i) \/ StillWaiting(i) \/ PairingExpires(i) \/ Paired(i)
  \/ Validated(i) \/ UnpairServed(i) \/ Unpaired(i) \/ UnpairFails(i)

Next ==
  \/ (\E r \in Records : RecordArrives(r) \/ HandledElsewhere(r))
  \/ Revoke \/ Boot \/ PageDies
  \/ Submit \/ PollPairing \/ PairingTimesOut \/ PairingCancelled \/ ResetToken
  \/ RetryValidation \/ Unpair
  \/ (\E i \in Calls : CallMoves(i))
  \/ PollSend \/ PollUnpaired \/ PollServed \/ PollFails
  \/ PollLoaded \/ PollDenied \/ PollFailed
  \/ Confirm \/ ConfirmUnpaired
  \/ (\E r \in Records : ListButton(r))
  \/ (\E s \in Settings : Toggle(s))
  \/ (\E i \in Requests : RequestServed(i) \/ Answer(i))
  \/ CycleEnds \/ SilencePasses

Spec == Init /\ [][Next]_vars

(***************************************************************************)
(* Fairness.  Polls are sent every few seconds and requests are answered.  *)
(* For liveness the disturbances are assumed to end: nobody obliges the    *)
(* network to recover or the operator to press anything.                   *)
(***************************************************************************)
Disturbance ==
  \/ PollFails \/ PageDies \/ Revoke
  \/ (\E s \in Settings : Toggle(s))

Fairness ==
  /\ WF_vars(PollSend \/ PollUnpaired)
  /\ WF_vars(PollServed) /\ WF_vars(PollLoaded \/ PollDenied \/ PollFailed)
  /\ \A i \in Requests : WF_vars(RequestServed(i)) /\ WF_vars(Answer(i))

FairSpec == Spec /\ Fairness /\ <>[][~Disturbance]_vars
-----------------------------------------------------------------------------
Statuses == {"absent", "open", "handled"}
Tokens   == 0..MaxPairings
Modes    == {"down", "not_paired", "pairing_submitting", "pairing_waiting",
             "verifying", "receiver_loaded", "server_error"}
CallType == [kind : {"none", "submit", "verify", "paired", "enter", "validate",
                     "unpair", "unpaired"}, tok : Tokens]

\* Types; and no alert waits behind an empty screen.
TypeOK ==
  /\ status \in [Records -> Statuses]
  /\ valid \in Tokens /\ pairings \in Tokens /\ token \in Tokens
  /\ mode \in Modes /\ call \in [Calls -> CallType] /\ ticking \in BOOLEAN
  /\ poll \in [st : {"idle", "sent", "loaded", "denied", "failed"},
               tok : Tokens, reply : [Records -> Statuses]]
  /\ view \in [Records -> Statuses]
  /\ seen \subseteq Records /\ hydrated \in BOOLEAN
  /\ active \in Records \cup {None} /\ pending \in Seq(Records)
  /\ enabled \in [Settings -> BOOLEAN]
  /\ loop \in {"off", "playing", "silent"}
  /\ busy \in BOOLEAN
  /\ active = None => pending = <<>>
  /\ request \in [Requests -> [kind : {"none", "confirm", "list"},
                               rec : Records \cup {None}, tok : Tokens,
                               st : {"none", "sent", "ok", "denied"}]]

\* The beep loop runs exactly while there is an active alert that may sound,
\* across settings changed in the middle of a cycle, alerts removed by a poll,
\* late answers and the end of the session: an alert is never mute, and the
\* terminal never beeps for nothing.
SoundTracksAlert ==
  loop # "off" <=> active # None /\ SoundEnabled(active)

\* The alert on the screen is never one that the page itself knows to be
\* handled: a record that is not listed counts as it was when its alert was
\* made.
ShownAlertIsOpen == active # None => view[active] \in {"absent", "open"}

\* The confirm button never stays disabled for ever: while a confirmation is
\* marked in flight, a request of a confirmation is outstanding, although the
\* mark belongs to whichever alert was confirmed last and polls and late
\* answers clear it.
ConfirmationOutstanding ==
  busy => \E i \in Requests : request[i].kind = "confirm"

\* The alerts implement the queue promised: first in first out, no record
\* twice, no alert lost while its record is open and the session lasts.
OnDuty == mode = "receiver_loaded"
AlertQueue == INSTANCE AttentionQueue WITH known <- seen, queue <- Queue,
                                           duty <- OnDuty
ImplementsAlertQueue == AlertQueue!Spec

\* A record that arrives after the baseline raises its alert, if its type is
\* enabled, unless it is handled first or the terminal leaves the receiver
\* screen.
ArrivalsAlerted ==
  \A r \in Records :
    status[r] = "open" /\ hydrated /\ r \notin seen
      ~> Queued(r) \/ status[r] = "handled" \/ ~enabled[TypeOf(r)] \/ ~OnDuty

\* The alert of a record that someone has handled goes, wherever it is in the
\* queue and whatever became of the answer to the confirmation.
HandledAlertsGo ==
  \A r \in Records : Queued(r) /\ status[r] = "handled" ~> ~Queued(r) \/ ~OnDuty

\* Every confirmation ends: the operator gets the button back.
ConfirmationEnds == busy ~> ~busy

\* "disables confirmation in flight": there are never two confirmations of
\* one record in flight.  The code breaks this: a late answer for an alert
\* that a poll has removed clears the mark of the next one.
OneConfirmationPerRecord ==
  \A i, j \in Requests :
    request[i].kind = "confirm" /\ request[j].kind = "confirm"
      /\ request[i].rec = request[j].rec => i = j
=============================================================================
