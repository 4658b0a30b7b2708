------------------------------- MODULE MCTerminal -------------------------------
(***************************************************************************)
(* TLC instance of the two dialogues of the receiver page: its pairing     *)
(* with the back end and its tracking of printed tickets.  They share no   *)
(* state; a behaviour follows the one that focus names.                    *)
(***************************************************************************)
EXTENDS DevicePairing, PrintTracking

VARIABLE focus

terminalVars == <<pairingVars, trackingVars, focus>>

TerminalInit ==
  /\ PairingInit /\ TrackingInit /\ focus \in {"pairing", "tracking"}
  /\ focus = "pairing" => ~v2s

Pairs(A)  == focus = "pairing" /\ A /\ UNCHANGED <<trackingVars, focus>>
Tracks(A) == focus = "tracking" /\ A /\ UNCHANGED <<pairingVars, focus>>

TerminalNext ==
  \/ Pairs(\E c \in Codes : CreateCode(c))
  \/ Pairs(\E r \in Requests : ReadCode(r) \/ ExpireCode(r) \/ CreateRequest(r))
  \/ Pairs(\E r \in Requests : Submit(r) \/ SubmitFails(r) \/ Submitted(r))
  \/ Pairs(\E h \in Handlers, r \in Requests : ConfirmBegin(h, r) \/ RevokeBegin(h, r))
  \/ Pairs(\E h \in Handlers : ListDevices(h) \/ RevokeRow(h) \/ RevokeItsRequest(h))
  \/ Pairs(\E h \in Handlers : CreateDevice(h) \/ ConfirmRow(h) \/ ConfirmCode(h))
  \/ Pairs(\E h \in Handlers : HandlerStops(h))
  \/ Pairs(\E v \in Verifiers : VerifyRead(v) \/ VerifyStore(v) \/ VerifyFinish(v))
  \/ Pairs(\E v \in Verifiers : VerifyStops(v) \/ VerifyLost(v) \/ PollPairing(v))
  \/ Pairs(\E v \in Verifiers : HeardPaired(v) \/ HeardOther(v))
  \/ Pairs(\E c \in checks : Validated(c))
  \/ Pairs(Cancel \/ TimesOut \/ Revalidate \/ SessionRefused \/ ResetToken \/ Reload)
  \/ Tracks(ServiceMoves \/ PollStatuses)
  \/ Tracks(\E o \in Orders : RetryTicket(o) \/ \E j \in Jobs : DispatchTicket(o, j))
  \/ Tracks(\E j \in Jobs : PrintReservation(j))
  \/ Tracks(SessionEnds \/ ReceiverLeft \/ SessionBegins \/ ReloadPage)
  \/ Tracks(BootValidated \/ ErrorRetried \/ Reconcile)

\* In the initial states neither fairness asks for a step, so that each binds
\* the behaviours of its own dialogue only.
TerminalSpec ==
  /\ TerminalInit /\ [][TerminalNext]_terminalVars
  /\ PairingFairness /\ TrackingFairness

\* Both modules keep their types.
TerminalTypeOK == PairingTypeOK /\ TrackingTypeOK

\* The page gets on in both dialogues: a pairing ends, whatever answers are lost,
\* and a ticket that needs the operator is shown, whichever calls fail.
DialoguesAdvance == PairingEnds /\ AttentionIsShown
=============================================================================
