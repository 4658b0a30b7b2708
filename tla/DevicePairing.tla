----------------------------- MODULE DevicePairing -----------------------------
(***************************************************************************)
(* How a terminal gets its token: the pairing handlers of the back end     *)
(* (device-pairing.service.ts, device-auth.guard.ts) and the pairing       *)
(* dialogue of the receiver page (main.js, services/pairingService.js),    *)
(* for the terminals that share one installation identifier.               *)
(*                                                                         *)
(* The handlers are sequences of database statements without a             *)
(* transaction: one action is one statement, so that two handlers          *)
(* interleave, or one stops, between any two of them.  The page awaits its *)
(* submissions, verifications and validations and handles each answer in   *)
(* whatever mode it has reached.                                           *)
(*                                                                         *)
(* There is at most one device row per request (its pairingRequestId is    *)
(* unique), so a device is named by its request.  Tokens are numbered in   *)
(* the order verify issues them; 0 is no token, and the hash of the token  *)
(* that confirmRequest generates and nobody ever sees.                     *)
(***************************************************************************)
EXTENDS Naturals

CONSTANTS
  Codes, Requests,
  Handlers,    \* administrators' calls that may run at once
  Verifiers,   \* verifications that may be in flight at once
  NoRequest,
  MaxTokens,   \* tokens issued; bounds the model
  MaxFaults    \* failures, lost answers and page reloads; bounds the model

ASSUME PairingConstants ==
  NoRequest \notin Requests /\ MaxTokens \in Nat /\ MaxFaults \in Nat

VARIABLES
  code,      \* code[c]: status of the DevicePairingCode row, "none" before it
  request,   \* request[r]: status of the DevicePairingRequest row
  codeOf,    \* the code each request was made with
  device,    \* device[r]: status of the Device row made for request r
  hash,      \* hash[r]: the token its tokenHash stands for
  issued,    \* tokens issued so far
  task,      \* task[h]: the confirmation or revocation handler h is running
  call,      \* call[v]: a verification, on the page and on the server
  submit,    \* submit[r]: the page's submission that request r answers
  page,      \* the page: mode, pairingRequestId, pairingInFlight, timers
  token,     \* tokenStore
  checks,    \* device validations in flight
  faults,    \* faults so far
  approved,  \* history: requests an administrator has confirmed
  mishap     \* history: a handler overlapped another one or stopped half-way

pairingTables  == <<code, request, codeOf, device, hash, issued>>
pairingServer  == <<pairingTables, task>>
pairingPage    == <<submit, page, token, checks>>
pairingHistory == <<approved, mishap>>
pairingVars    == <<pairingServer, call, pairingPage, faults, pairingHistory>>
-----------------------------------------------------------------------------
Idle   == [at |-> "idle", req |-> NoRequest, todo |-> {}, dev |-> NoRequest]
NoCall == [at |-> "idle", req |-> NoRequest, tok |-> 0, ans |-> "none",
           kept |-> FALSE]

\* A handler is between two statements.
Running == \/ \E h \in Handlers : task[h].at # "idle"
           \/ \E v \in Verifiers : call[v].at \in {"confirmed", "stored"}

\* DeviceAuthGuard.canActivate.
Honoured(t) ==
  t # 0 /\ \E r \in Requests : hash[r] = t /\ device[r] = "device_active"

\* stopPairingPolling.
Stopped(p) == [p EXCEPT !.polling = FALSE, !.timer = FALSE]

\* enterNotPairedState.
NotPaired(p) == [Stopped(p) EXCEPT !.mode = "not_paired"]

\* Something breaks.
Fault == faults < MaxFaults /\ faults' = faults + 1

PairingInit ==
  /\ code = [c \in Codes |-> "none"]
  /\ request = [r \in Requests |-> "none"] /\ codeOf \in [Requests -> Codes]
  /\ device = [r \in Requests |-> "none"] /\ hash = [r \in Requests |-> 0]
  /\ issued = 0
  /\ task = [h \in Handlers |-> Idle] /\ call = [v \in Verifiers |-> NoCall]
  /\ submit = [r \in Requests |-> "none"]
  /\ page = [mode |-> "not_paired", req |-> NoRequest, busy |-> FALSE,
             polling |-> FALSE, timer |-> FALSE]
  /\ token = 0 /\ checks = {} /\ faults = 0
  /\ approved = {} /\ mishap = FALSE
-----------------------------------------------------------------------------
(***************************************************************************)
(* Codes and requests.                                                     *)
(***************************************************************************)
CreateCode(c) ==
  /\ code[c] = "none"
  /\ code' = [code EXCEPT ![c] = "code_created"]
  /\ UNCHANGED <<request, codeOf, device, hash, issued, task, call,
                 pairingPage, faults, pairingHistory>>

\* createPairingRequest: the look-up of the code, which may be too old by then.
ReadCode(r) ==
  /\ submit[r] = "sent"
  /\ \E found \in {"found", "late"} :
       submit' = [submit EXCEPT ![r] = IF code[codeOf[r]] = "code_created" THEN found
                                                                        ELSE "refused"]
  /\ UNCHANGED <<pairingServer, call, page, token, checks, faults, pairingHistory>>

\* A code found after its ten minutes never counts again, whatever has become
\* of it since it was read.
ExpireCode(r) ==
  /\ submit[r] = "late"
  /\ code' = [code EXCEPT ![codeOf[r]] = "device_expired"]
  /\ submit' = [submit EXCEPT ![r] = "refused"]
  /\ UNCHANGED <<request, codeOf, device, hash, issued, task, call, page,
                 token, checks, faults, pairingHistory>>

CreateRequest(r) ==
  /\ submit[r] = "found"
  /\ request' = [request EXCEPT ![r] = "request_pending"]
  /\ submit'  = [submit EXCEPT ![r] = "made"]
  /\ UNCHANGED <<code, codeOf, device, hash, issued, task, call, page,
                 token, checks, faults, pairingHistory>>
-----------------------------------------------------------------------------
(***************************************************************************)
(* confirmRequest: the read, the devices of the installation, their        *)
(* revocation one by one, the new device, the request, the code.           *)
(***************************************************************************)
Begin(h, row) ==
  /\ task[h] = Idle /\ h = (CHOOSE g \in Handlers : task[g] = Idle)
  /\ task' = [task EXCEPT ![h] = row]
  /\ mishap' = (mishap \/ Running)

ConfirmBegin(h, r) ==
  /\ request[r] = "request_pending"
  /\ Begin(h, [Idle EXCEPT !.at = "list", !.req = r])
  /\ approved' = approved \cup {r}
  /\ UNCHANGED <<pairingTables, call, pairingPage, faults>>

\* Mutant of ListDevices: nothing is looked up.
ListNothing(h) ==
  /\ task[h].at = "list"
  /\ task' = [task EXCEPT ![h].at = "evict"]
  /\ UNCHANGED <<pairingTables, call, pairingPage, faults, pairingHistory>>

ListDevices(h) ==
  /\ task[h].at = "list"
  /\ task' = [task EXCEPT ![h].at = "evict",
                ![h].todo = {d \in Requests : device[d] = "device_active"}]
  /\ UNCHANGED <<pairingTables, call, pairingPage, faults, pairingHistory>>

\* revokeDeviceRecord, its two updates: for each device found, or for the one
\* device of revokeDevice and revokeCurrentDevice.
RevokeRow(h) ==
  /\ task[h].at = "evict"
  /\ \E d \in task[h].todo :
       /\ device' = [device EXCEPT ![d] = "device_revoked"]
       /\ task' = [task EXCEPT ![h].at = "evicted", ![h].dev = d]
  /\ UNCHANGED <<code, request, codeOf, hash, issued, call, pairingPage, faults,
                 pairingHistory>>

RevokeItsRequest(h) ==
  /\ task[h].at = "evicted"
  /\ request' = [request EXCEPT ![task[h].dev] = "device_revoked"]
  /\ LET rest == task[h].todo \ {task[h].dev}
     IN  task' = [task EXCEPT ![h] =
           IF rest = {} /\ @.req = NoRequest THEN Idle
           ELSE [@ EXCEPT !.at = "evict", !.todo = rest, !.dev = NoRequest]]
  /\ UNCHANGED <<code, codeOf, device, hash, issued, call, pairingPage, faults,
                 pairingHistory>>

\* A second device for the request breaks the unique pairingRequestId.
CreateDevice(h) ==
  LET r == task[h].req
  IN  /\ task[h].at = "evict" /\ task[h].todo = {}
      /\ IF device[r] = "none"
           THEN /\ device' = [device EXCEPT ![r] = "device_active"]
                /\ task' = [task EXCEPT ![h].at = "confirm"]
           ELSE task' = [task EXCEPT ![h] = Idle] /\ UNCHANGED device
      /\ UNCHANGED <<code, request, codeOf, hash, issued, call,
                     pairingPage, faults, pairingHistory>>

ConfirmRow(h) ==
  /\ task[h].at = "confirm"
  /\ request' = [request EXCEPT ![task[h].req] = "request_confirmed"]
  /\ task' = [task EXCEPT ![h].at = "code"]
  /\ UNCHANGED <<code, codeOf, device, hash, issued, call, pairingPage, faults,
                 pairingHistory>>

ConfirmCode(h) ==
  /\ task[h].at = "code"
  /\ code' = [code EXCEPT ![codeOf[task[h].req]] = "request_confirmed"]
  /\ task' = [task EXCEPT ![h] = Idle]
  /\ UNCHANGED <<request, codeOf, device, hash, issued, call, pairingPage, faults,
                 pairingHistory>>

\* revokeDevice, whatever the status of the device, and revokeCurrentDevice
\* for a terminal that unpairs itself; what its page does then is
\* SessionRefused.
RevokeBegin(h, d) ==
  /\ device[d] # "none"
  /\ Begin(h, [Idle EXCEPT !.at = "evict", !.todo = {d}])
  /\ UNCHANGED <<pairingTables, call, pairingPage, faults, approved>>

\* A statement fails or the process stops: the rest of the handler is not run.
HandlerStops(h) ==
  /\ task[h].at # "idle"
  /\ task' = [task EXCEPT ![h] = Idle]
  /\ mishap' = TRUE
  /\ Fault
  /\ UNCHANGED <<pairingTables, call, pairingPage, approved>>
-----------------------------------------------------------------------------
(***************************************************************************)
(* verify.  A confirmed request has a device, so that the look-up of the   *)
(* device cannot fail and is one with the read of the request.             *)
(***************************************************************************)
\* The server answers: nobody may be listening any more.
Answer(v, c) == call' = [call EXCEPT ![v] = IF @.kept THEN c ELSE NoCall]

Verdict(r) ==
  CASE request[r] = "request_confirmed" -> "none"
    [] request[r] = "device_revoked"    -> "expired"
    [] OTHER                            -> "waiting"

\* Mutant of VerifyRead: a revoked request is taken up again.
VerifyReadsAny(v) ==
  /\ call[v].at = "sent"
  /\ IF request[call[v].req] \in {"request_confirmed", "device_revoked"}
       THEN /\ call' = [call EXCEPT ![v].at = "confirmed"]
            /\ mishap' = (mishap \/ Running)
       ELSE /\ Answer(v, [call[v] EXCEPT !.at = "answered",
                                         !.ans = Verdict(call[v].req)])
            /\ UNCHANGED mishap
  /\ UNCHANGED <<pairingServer, pairingPage, faults, approved>>

\* Mutant of VerifyRead: a request is not waited for.
VerifyReadsPending(v) ==
  /\ call[v].at = "sent"
  /\ IF request[call[v].req] \in {"request_confirmed", "request_pending"}
       THEN /\ call' = [call EXCEPT ![v].at = "confirmed"]
            /\ mishap' = (mishap \/ Running)
       ELSE /\ Answer(v, [call[v] EXCEPT !.at = "answered",
                                         !.ans = Verdict(call[v].req)])
            /\ UNCHANGED mishap
  /\ UNCHANGED <<pairingServer, pairingPage, faults, approved>>

VerifyRead(v) ==
  /\ call[v].at = "sent"
  /\ IF request[call[v].req] = "request_confirmed"
       THEN /\ call' = [call EXCEPT ![v].at = "confirmed"]
            /\ mishap' = (mishap \/ Running)
       ELSE /\ Answer(v, [call[v] EXCEPT !.at = "answered",
                                         !.ans = Verdict(call[v].req)])
            /\ UNCHANGED mishap
  /\ UNCHANGED <<pairingServer, pairingPage, faults, approved>>

VerifyStore(v) ==
  /\ call[v].at = "confirmed" /\ issued < MaxTokens
  /\ issued' = issued + 1
  /\ hash'   = [hash EXCEPT ![call[v].req] = issued + 1]
  /\ device' = [device EXCEPT ![call[v].req] = "device_active"]
  /\ call'   = [call EXCEPT ![v].at = "stored", ![v].tok = issued + 1]
  /\ UNCHANGED <<code, request, codeOf, task, pairingPage, faults, pairingHistory>>

VerifyFinish(v) ==
  /\ call[v].at = "stored"
  /\ request' = [request EXCEPT ![call[v].req] = "device_active"]
  /\ Answer(v, [call[v] EXCEPT !.at = "answered", !.ans = "paired"])
  /\ UNCHANGED <<code, codeOf, device, hash, issued, task, pairingPage, faults,
                 pairingHistory>>

\* The server stops half-way, and the page sees an error.
VerifyStops(v) ==
  /\ call[v].at \in {"sent", "confirmed", "stored"}
  /\ Answer(v, [call[v] EXCEPT !.at = "answered", !.ans = "error"])
  /\ mishap' = (mishap \/ call[v].at # "sent")
  /\ Fault
  /\ UNCHANGED <<pairingServer, pairingPage, approved>>

\* The answer does not reach the page, which takes it for an error.
VerifyLost(v) ==
  /\ call[v].at # "idle" /\ call[v].kept
  /\ call' = [call EXCEPT ![v] = IF @.at = "answered" THEN NoCall
                                 ELSE [@ EXCEPT !.kept = FALSE]]
  /\ page' = [page EXCEPT !.busy = FALSE]
  /\ Fault
  /\ UNCHANGED <<pairingServer, submit, token, checks, pairingHistory>>
-----------------------------------------------------------------------------
(***************************************************************************)
(* The dialogue of the page.                                               *)
(***************************************************************************)

\* startPairingSubmit, until its await.
Submit(r) ==
  /\ page.mode = "not_paired" /\ submit[r] = "none"
  /\ submit' = [submit EXCEPT ![r] = "sent"]
  /\ page' = [page EXCEPT !.mode = "pairing_submitting"]
  /\ UNCHANGED <<pairingServer, call, token, checks, faults, pairingHistory>>

\* The request is refused or fails, or is made and its answer lost.
SubmitFails(r) ==
  /\ \/ submit[r] = "refused" /\ UNCHANGED faults
     \/ submit[r] \in {"sent", "found", "late", "made"} /\ Fault
  /\ submit' = [submit EXCEPT ![r] = "over"]
  /\ page' = [page EXCEPT !.mode = "not_paired"]
  /\ UNCHANGED <<pairingServer, call, token, checks, pairingHistory>>

\* Mutant of Submitted: the ten-minute timer is not set.
SubmittedUntimed(r) ==
  /\ submit[r] = "made"
  /\ submit' = [submit EXCEPT ![r] = "over"]
  /\ page' = [mode |-> "pairing_waiting", req |-> r, busy |-> FALSE,
              polling |-> TRUE, timer |-> FALSE]
  /\ UNCHANGED <<pairingServer, call, token, checks, faults, pairingHistory>>

\* startPairingPolling.
Submitted(r) ==
  /\ submit[r] = "made"
  /\ submit' = [submit EXCEPT ![r] = "over"]
  /\ page' = [mode |-> "pairing_waiting", req |-> r, busy |-> FALSE,
              polling |-> TRUE, timer |-> TRUE]
  /\ UNCHANGED <<pairingServer, call, token, checks, faults, pairingHistory>>

\* A tick of the pairing poll.
PollPairing(v) ==
  /\ page.polling /\ page.mode = "pairing_waiting" /\ ~page.busy
  /\ call[v] = NoCall /\ v = (CHOOSE w \in Verifiers : call[w] = NoCall)
  /\ call' = [call EXCEPT ![v].at = "sent", ![v].req = page.req, ![v].kept = TRUE]
  /\ page' = [page EXCEPT !.busy = TRUE]
  /\ UNCHANGED <<pairingServer, submit, token, checks, faults, pairingHistory>>

\* checkPairingStatus has its answer: the token is stored and the tick goes
\* on, in whatever mode the page is by now.
HeardPaired(v) ==
  /\ call[v].at = "answered" /\ call[v].kept /\ call[v].ans = "paired"
  /\ token'  = call[v].tok
  /\ page'   = [Stopped(page) EXCEPT !.mode = "verifying"]
  /\ checks' = checks \cup {[tok |-> call[v].tok, pairing |-> TRUE]}
  /\ call'   = [call EXCEPT ![v] = NoCall]
  /\ UNCHANGED <<pairingServer, submit, faults, pairingHistory>>

HeardOther(v) ==
  /\ call[v].at = "answered" /\ call[v].kept /\ call[v].ans # "paired"
  /\ page' = IF call[v].ans = "expired" THEN [NotPaired(page) EXCEPT !.busy = FALSE]
                                        ELSE [page EXCEPT !.busy = FALSE]
  /\ call' = [call EXCEPT ![v] = NoCall]
  /\ UNCHANGED <<pairingServer, submit, token, checks, faults, pairingHistory>>

\* pairing-cancel-btn: the verification in flight is not called back.
Cancel ==
  /\ page.mode = "pairing_waiting"
  /\ page' = NotPaired(page)
  /\ UNCHANGED <<pairingServer, call, submit, token, checks, faults,
                 pairingHistory>>

\* Mutant of TimesOut: the timer lets a verification in flight finish first.
TimesOutWhenIdle ==
  /\ page.timer /\ ~page.busy
  /\ page' = IF page.mode = "pairing_waiting" THEN NotPaired(page)
                                              ELSE Stopped(page)
  /\ UNCHANGED <<pairingServer, call, submit, token, checks, faults,
                 pairingHistory>>

\* The ten-minute timer of startPairingPolling.
TimesOut ==
  /\ page.timer
  /\ page' = IF page.mode = "pairing_waiting" THEN NotPaired(page)
                                              ELSE Stopped(page)
  /\ UNCHANGED <<pairingServer, call, submit, token, checks, faults,
                 pairingHistory>>
-----------------------------------------------------------------------------
(***************************************************************************)
(* The session that follows.                                               *)
(***************************************************************************)

\* validateDeviceOnceAndEnterReceiver, its answer; after a pairing, the end
\* of the tick that began it.
Validated(c) ==
  /\ c \in checks
  /\ checks' = checks \ {c}
  /\ LET done == IF c.pairing THEN [page EXCEPT !.busy = FALSE] ELSE page
     IN  \/ /\ Honoured(c.tok)
            /\ page' = [done EXCEPT !.mode = "receiver_loaded"]
            /\ UNCHANGED <<token, faults>>
         \/ /\ ~Honoured(c.tok)
            /\ page' = NotPaired(done) /\ token' = 0
            /\ UNCHANGED faults
         \/ /\ page' = [done EXCEPT !.mode = "server_error"]
            /\ Fault /\ UNCHANGED token
  /\ UNCHANGED <<pairingServer, call, submit, pairingHistory>>

\* The retry button of the error screen.
Revalidate ==
  /\ page.mode = "server_error"
  /\ IF token = 0 THEN page' = NotPaired(page) /\ UNCHANGED checks
     ELSE /\ page'   = [page EXCEPT !.mode = "verifying"]
          /\ checks' = checks \cup {[tok |-> token, pairing |-> FALSE]}
  /\ UNCHANGED <<pairingServer, call, submit, token, faults, pairingHistory>>

\* A poll of the receiver is refused, or finds no token.
SessionRefused ==
  /\ page.mode = "receiver_loaded" /\ ~Honoured(token)
  /\ page' = NotPaired(page) /\ token' = 0
  /\ UNCHANGED <<pairingServer, call, submit, checks, faults, pairingHistory>>

\* reset-token-btn of the pairing screen, which also shows while a submission
\* is under way.
ResetToken ==
  /\ page.mode \in {"not_paired", "pairing_submitting"}
  /\ page' = NotPaired(page) /\ token' = 0
  /\ UNCHANGED <<pairingServer, call, submit, checks, faults, pairingHistory>>

\* The page is closed and booted again: only the token is stored.
Reload ==
  /\ Fault
  /\ page' = [mode |-> IF token = 0 THEN "not_paired" ELSE "verifying",
              req |-> NoRequest, busy |-> FALSE, polling |-> FALSE, timer |-> FALSE]
  /\ checks' = IF token = 0 THEN {} ELSE {[tok |-> token, pairing |-> FALSE]}
  /\ call' = [v \in Verifiers |-> [call[v] EXCEPT !.kept = FALSE]]
  /\ submit' = [r \in Requests |-> IF submit[r] = "none" THEN "none" ELSE "over"]
  /\ UNCHANGED <<pairingServer, token, pairingHistory>>
-----------------------------------------------------------------------------
PairingNext ==
  \/ \E c \in Codes : CreateCode(c)
  \/ \E r \in Requests : ReadCode(r) \/ ExpireCode(r) \/ CreateRequest(r)
                           \/ Submit(r) \/ SubmitFails(r) \/ Submitted(r)
  \/ \E h \in Handlers :
       \/ \E r \in Requests : ConfirmBegin(h, r) \/ RevokeBegin(h, r)
       \/ ListDevices(h) \/ RevokeRow(h) \/ RevokeItsRequest(h)
       \/ CreateDevice(h) \/ ConfirmRow(h) \/ ConfirmCode(h) \/ HandlerStops(h)
  \/ \E v \in Verifiers :
       \/ VerifyRead(v) \/ VerifyStore(v) \/ VerifyFinish(v) \/ VerifyStops(v)
       \/ VerifyLost(v) \/ PollPairing(v) \/ HeardPaired(v) \/ HeardOther(v)
  \/ Cancel \/ TimesOut
  \/ \E c \in checks : Validated(c)
  \/ Revalidate \/ SessionRefused \/ ResetToken \/ Reload

PairingSpec == PairingInit /\ [][PairingNext]_pairingVars

\* Submissions and validations are answered or fail, and timers fire.  Nothing
\* is asked of verifications, of the administrator or of the operator.
PairingFairness ==
  /\ \A r \in Requests :
       WF_pairingVars(\/ ReadCode(r) \/ ExpireCode(r) \/ CreateRequest(r)
                      \/ Submitted(r)
                      \/ submit[r] = "refused" /\ SubmitFails(r))
  /\ WF_pairingVars(TimesOut)
  /\ WF_pairingVars(\E c \in checks : Validated(c))

PairingFairSpec == PairingSpec /\ PairingFairness
-----------------------------------------------------------------------------
Tokens == 0..MaxTokens
Rows   == Requests \cup {NoRequest}

CodeStates == {"none", "code_created", "request_confirmed", "device_expired"}
RequestStates == {"none", "request_pending", "request_confirmed", "device_active",
                  "device_revoked"}
DeviceStates == {"none", "device_active", "device_revoked"}
SubmitStates == {"none", "sent", "found", "late", "made", "refused", "over"}

HandlerTask == [at : {"idle", "list", "evict", "evicted", "confirm", "code"},
                req : Rows, todo : SUBSET Requests, dev : Rows]
Verification == [at : {"idle", "sent", "confirmed", "stored", "answered"},
                 req : Rows, tok : Tokens,
                 ans : {"none", "waiting", "paired", "expired", "error"},
                 kept : BOOLEAN]
Page == [mode : {"not_paired", "pairing_submitting", "pairing_waiting",
                 "verifying", "receiver_loaded", "server_error"},
         req : Rows, busy : BOOLEAN, polling : BOOLEAN, timer : BOOLEAN]
Check == [tok : Tokens, pairing : BOOLEAN]

PairingTypeOK ==
  /\ code \in [Codes -> CodeStates] /\ codeOf \in [Requests -> Codes]
  /\ request \in [Requests -> RequestStates]
  /\ device \in [Requests -> DeviceStates]
  /\ hash \in [Requests -> Tokens] /\ issued \in Tokens
  /\ task \in [Handlers -> HandlerTask] /\ call \in [Verifiers -> Verification]
  /\ submit \in [Requests -> SubmitStates] /\ page \in Page
  /\ token \in Tokens /\ checks \subseteq Check
  /\ faults \in 0..MaxFaults
  /\ approved \subseteq Requests /\ mishap \in BOOLEAN

\* A token is never issued for a request that no administrator has confirmed,
\* whatever handlers overlap, stop half-way or are repeated: verify believes
\* the status of the request alone.
TokenNeedsApproval == \A r \in Requests : hash[r] # 0 => r \in approved

\* One installation has one active device, as long as the handlers run one
\* after the other and to their end: confirmRequest revokes the earlier ones
\* first, and a verification of an earlier request cannot bring its device
\* back.  (With handlers that overlap or stop half-way it does not hold.)
OneActiveDevice ==
  ~mishap => \A r, s \in Requests :
    device[r] = "device_active" /\ device[s] = "device_active" => r = s

\* A handler is past the read on which its remaining writes for r rest.
Pending(r) ==
  \/ \E h \in Handlers : task[h].at = "confirm" /\ task[h].req = r
  \/ \E v \in Verifiers : call[v].at \in {"confirmed", "stored"} /\ call[v].req = r

\* A revocation is final: once both rows say so and no handler that read them
\* before is still running, no verification, confirmation, retry or late
\* write ever brings the device back.
RevocationFinal ==
  [][\A r \in Requests :
       /\ request[r] = "device_revoked" /\ device[r] = "device_revoked"
       /\ ~Pending(r)
       => request'[r] = "device_revoked" /\ device'[r] = "device_revoked"
          /\ ~Pending(r)']_pairingVars

\* The page never waits for a confirmation without the poll and the timer that
\* end the wait, although a late answer of an earlier dialogue stops whichever
\* timers are running.
WaitingIsTimed ==
  page.mode = "pairing_waiting" => page.polling /\ page.timer

\* Every pairing dialogue ends, whatever is refused, lost or cancelled.
PairingEnds ==
  page.mode \in {"pairing_submitting", "pairing_waiting", "verifying"}
    ~> page.mode \in {"not_paired", "receiver_loaded", "server_error"}
=============================================================================
