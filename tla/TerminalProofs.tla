---------------------------- MODULE TerminalProofs ----------------------------
(***************************************************************************)
(* Proofs about the two dialogues of the receiver page: DevicePairing, for *)
(* any number of codes, requests, handlers and verifications, of tokens    *)
(* and of faults, and PrintTracking, for any number of orders, commands    *)
(* and failed calls.                                                       *)
(***************************************************************************)
EXTENDS MCTerminal, TLAPS

USE PairingConstants
-----------------------------------------------------------------------------
(***************************************************************************)
(* The records, as the actions change them.                                *)
(***************************************************************************)
LEMMA TaskRecords ==
  /\ Idle \in HandlerTask
  /\ \A t \in HandlerTask :
       /\ \A r \in Requests : [Idle EXCEPT !.at = "list", !.req = r] \in HandlerTask
       /\ \A d \in Requests : [Idle EXCEPT !.at = "evict", !.todo = {d}] \in HandlerTask
       /\ \A S \in SUBSET Requests :
            [t EXCEPT !.at = "evict", !.todo = S] \in HandlerTask
       /\ \A d \in Requests : [t EXCEPT !.at = "evicted", !.dev = d] \in HandlerTask
       /\ \A S \in SUBSET Requests :
            [t EXCEPT !.at = "evict", !.todo = S, !.dev = NoRequest] \in HandlerTask
       /\ [t EXCEPT !.at = "confirm"] \in HandlerTask
       /\ [t EXCEPT !.at = "code"] \in HandlerTask
BY DEF HandlerTask, Idle, Rows

LEMMA CallRecords ==
  /\ NoCall \in Verification
  /\ \A c \in Verification :
       /\ [c EXCEPT !.at = "confirmed"] \in Verification
       /\ \A k \in Tokens : [c EXCEPT !.at = "stored", !.tok = k] \in Verification
       /\ \A a \in {"none", "waiting", "paired", "expired", "error"} :
            [c EXCEPT !.at = "answered", !.ans = a] \in Verification
       /\ [c EXCEPT !.kept = FALSE] \in Verification
       /\ \A r \in Rows :
            [c EXCEPT !.at = "sent", !.req = r, !.kept = TRUE] \in Verification
<1>1. NoCall \in Verification
  BY DEF Verification, NoCall, Rows, Tokens
<1> SUFFICES ASSUME NEW c \in Verification
    PROVE  /\ [c EXCEPT !.at = "confirmed"] \in Verification
           /\ \A k \in Tokens : [c EXCEPT !.at = "stored", !.tok = k] \in Verification
           /\ \A a \in {"none", "waiting", "paired", "expired", "error"} :
                [c EXCEPT !.at = "answered", !.ans = a] \in Verification
           /\ [c EXCEPT !.kept = FALSE] \in Verification
           /\ \A r \in Rows :
                [c EXCEPT !.at = "sent", !.req = r, !.kept = TRUE] \in Verification
  BY <1>1
<1> QED
  BY DEF Verification

LEMMA PageRecords ==
  \A p \in Page :
    /\ Stopped(p) \in Page /\ NotPaired(p) \in Page
    /\ [p EXCEPT !.busy = FALSE] \in Page /\ [p EXCEPT !.busy = TRUE] \in Page
    /\ \A m \in {"not_paired", "pairing_submitting", "verifying", "receiver_loaded",
                 "server_error"} : [p EXCEPT !.mode = m] \in Page
<1> TAKE p \in Page
<1>1. Stopped(p) \in Page
  BY DEF Page, Stopped
<1>2. NotPaired(p) \in Page
  BY <1>1 DEF Page, NotPaired
<1> QED
  BY <1>1, <1>2 DEF Page

LEMMA NewPages ==
  /\ \A r \in Requests :
       [mode |-> "pairing_waiting", req |-> r, busy |-> FALSE, polling |-> TRUE,
        timer |-> TRUE] \in Page
  /\ \A m \in {"not_paired", "verifying"} :
       [mode |-> m, req |-> NoRequest, busy |-> FALSE, polling |-> FALSE,
        timer |-> FALSE] \in Page
BY DEF Page, Rows

LEMMA NoToken == 0 \in Tokens
BY DEF Tokens

\* A fault is counted below its bound.
LEMMA FaultCounted == Fault /\ faults \in 0..MaxFaults => faults' \in 0..MaxFaults
BY DEF Fault
-----------------------------------------------------------------------------
(***************************************************************************)
(* Types.                                                                  *)
(***************************************************************************)
LEMMA TypeStep == PairingTypeOK /\ [PairingNext]_pairingVars => PairingTypeOK'
<1> SUFFICES ASSUME PairingTypeOK, [PairingNext]_pairingVars PROVE PairingTypeOK'
  OBVIOUS
<1> USE DEF PairingTypeOK, pairingTables, pairingServer, pairingPage, pairingHistory
<1>1. ASSUME NEW c \in Codes, CreateCode(c) PROVE PairingTypeOK'
  BY <1>1 DEF CreateCode, CodeStates
<1>2. ASSUME NEW r \in Requests, ReadCode(r) \/ ExpireCode(r) PROVE PairingTypeOK'
  BY <1>2 DEF ReadCode, ExpireCode, CodeStates, SubmitStates
<1>3. ASSUME NEW r \in Requests, CreateRequest(r) PROVE PairingTypeOK'
  BY <1>3 DEF CreateRequest, RequestStates, SubmitStates
<1>4. ASSUME NEW r \in Requests, Submit(r) PROVE PairingTypeOK'
  BY <1>4, PageRecords, FaultCounted DEF Submit, SubmitStates
<1>5. ASSUME NEW r \in Requests, SubmitFails(r) PROVE PairingTypeOK'
  BY <1>5, PageRecords, FaultCounted DEF SubmitFails, SubmitStates
<1>6. ASSUME NEW r \in Requests, Submitted(r) PROVE PairingTypeOK'
  BY <1>6, NewPages DEF Submitted, SubmitStates
<1>7. ASSUME NEW h \in Handlers, NEW r \in Requests, ConfirmBegin(h, r) PROVE PairingTypeOK'
  BY <1>7, TaskRecords DEF ConfirmBegin, Begin
<1>8. ASSUME NEW h \in Handlers, NEW r \in Requests, RevokeBegin(h, r) PROVE PairingTypeOK'
  BY <1>8, TaskRecords DEF RevokeBegin, Begin
<1>9. ASSUME NEW h \in Handlers, ListDevices(h) PROVE PairingTypeOK'
  <2> DEFINE S == {d \in Requests : device[d] = "device_active"}
  <2>1. task' = [task EXCEPT ![h] = [task[h] EXCEPT !.at = "evict", !.todo = S]]
    BY <1>9 DEF ListDevices
  <2>2. task[h] \in HandlerTask /\ S \in SUBSET Requests
    OBVIOUS
  <2>3. [task[h] EXCEPT !.at = "evict", !.todo = S] \in HandlerTask
    BY <2>2, TaskRecords
  <2> HIDE DEF S
  <2>4. task' \in [Handlers -> HandlerTask]
    BY <2>1, <2>3
  <2> QED
    BY <2>4, <1>9 DEF ListDevices
<1>10. ASSUME NEW h \in Handlers, RevokeRow(h) PROVE PairingTypeOK'
  <2>1. task[h] \in HandlerTask /\ task[h].todo \in SUBSET Requests
    BY DEF HandlerTask
  <2>2. PICK d \in task[h].todo :
         /\ device' = [device EXCEPT ![d] = "device_revoked"]
         /\ task' = [task EXCEPT ![h] = [task[h] EXCEPT !.at = "evicted", !.dev = d]]
    BY <1>10 DEF RevokeRow
  <2>3. task' \in [Handlers -> HandlerTask]
    BY <2>1, <2>2, TaskRecords
  <2> QED
    BY <2>1, <2>2, <2>3, <1>10 DEF RevokeRow, DeviceStates
<1>11. ASSUME NEW h \in Handlers, RevokeItsRequest(h) PROVE PairingTypeOK'
  <2> DEFINE rest == task[h].todo \ {task[h].dev}
  <2>1. task[h] \in HandlerTask /\ rest \in SUBSET Requests
    BY DEF HandlerTask
  <2>2. \/ task' = [task EXCEPT ![h] = Idle]
       \/ task' = [task EXCEPT ![h] = [task[h] EXCEPT !.at = "evict", !.todo = rest,
                                         !.dev = NoRequest]]
    BY <1>11 DEF RevokeItsRequest
  <2>3. task' \in [Handlers -> HandlerTask]
    <3>1. [task[h] EXCEPT !.at = "evict", !.todo = rest, !.dev = NoRequest]
            \in HandlerTask
      BY <2>1, TaskRecords
    <3> QED
      BY <2>1, <2>2, <3>1, TaskRecords
  <2> QED
    BY <2>3, <1>11 DEF RevokeItsRequest, RequestStates
<1>12. ASSUME NEW h \in Handlers, CreateDevice(h) PROVE PairingTypeOK'
  <2>1. task[h] \in HandlerTask
    OBVIOUS
  <2>2. \/ task' = [task EXCEPT ![h] = Idle]
       \/ task' = [task EXCEPT ![h] = [task[h] EXCEPT !.at = "confirm"]]
    BY <1>12 DEF CreateDevice
  <2>4. Idle \in HandlerTask /\ [task[h] EXCEPT !.at = "confirm"] \in HandlerTask
    BY <2>1, TaskRecords
  <2>3. task' \in [Handlers -> HandlerTask]
    BY <2>2, <2>4
  <2> QED
    BY <2>3, <1>12 DEF CreateDevice, DeviceStates
<1>13. ASSUME NEW h \in Handlers, ConfirmRow(h) PROVE PairingTypeOK'
  <2>1. task[h] \in HandlerTask
    OBVIOUS
  <2>2. task' = [task EXCEPT ![h] = [task[h] EXCEPT !.at = "code"]]
    BY <1>13 DEF ConfirmRow
  <2>3. task' \in [Handlers -> HandlerTask]
    BY <2>1, <2>2, TaskRecords
  <2> QED
    BY <2>3, <1>13 DEF ConfirmRow, RequestStates
<1>14. ASSUME NEW h \in Handlers, ConfirmCode(h) PROVE PairingTypeOK'
  BY <1>14, TaskRecords DEF ConfirmCode, CodeStates
<1>15. ASSUME NEW h \in Handlers, HandlerStops(h) PROVE PairingTypeOK'
  BY <1>15, TaskRecords, FaultCounted DEF HandlerStops
<1>16. ASSUME NEW v \in Verifiers, VerifyRead(v) PROVE PairingTypeOK'
  <2> DEFINE answer == Verdict(call[v].req)
  <2>1. call[v] \in Verification /\ answer \in {"none", "waiting", "expired"}
    BY DEF Verdict
  <2>2. \/ call' = [call EXCEPT ![v] = [call[v] EXCEPT !.at = "confirmed"]]
        \/ call' = [call EXCEPT ![v] = NoCall]
        \/ call' = [call EXCEPT ![v] = [call[v] EXCEPT !.at = "answered",
                                                       !.ans = answer]]
    BY <1>16 DEF VerifyRead, Answer
  <2> HIDE DEF answer
  <2>3. [call[v] EXCEPT !.at = "answered", !.ans = answer] \in Verification
    BY <2>1, CallRecords
  <2>5. NoCall \in Verification
        /\ [call[v] EXCEPT !.at = "confirmed"] \in Verification
    BY <2>1, CallRecords
  <2>4. call' \in [Verifiers -> Verification]
    BY <2>2, <2>3, <2>5
  <2> QED
    BY <2>4, <1>16 DEF VerifyRead
<1>17. ASSUME NEW v \in Verifiers, VerifyStore(v) PROVE PairingTypeOK'
  <2>1. call[v] \in Verification
    OBVIOUS
  <2>0. issued + 1 \in Tokens
    BY <1>17 DEF VerifyStore, Tokens
  <2>2. \/ call' = [call EXCEPT ![v] = [call[v] EXCEPT !.at = "stored", !.tok = issued + 1]]
    BY <1>17 DEF VerifyStore, Answer
  <2>4. [call[v] EXCEPT !.at = "stored", !.tok = issued + 1] \in Verification
    BY <2>1, CallRecords, <2>0
  <2>3. call' \in [Verifiers -> Verification]
    BY <2>2, <2>4
  <2> QED
    BY <2>0, <2>3, <1>17 DEF VerifyStore, DeviceStates
<1>18. ASSUME NEW v \in Verifiers, VerifyFinish(v) PROVE PairingTypeOK'
  <2>1. call[v] \in Verification
    OBVIOUS
  <2>2. \/ call' = [call EXCEPT ![v] = NoCall]
       \/ call' = [call EXCEPT ![v] = [call[v] EXCEPT !.at = "answered", !.ans = "paired"]]
    BY <1>18 DEF VerifyFinish, Answer
  <2>4. /\ NoCall \in Verification
          /\ [call[v] EXCEPT !.at = "answered", !.ans = "paired"] \in Verification
    BY <2>1, CallRecords
  <2>3. call' \in [Verifiers -> Verification]
    BY <2>2, <2>4
  <2> QED
    BY <2>3, <1>18 DEF VerifyFinish, RequestStates
<1>19. ASSUME NEW v \in Verifiers, VerifyStops(v) PROVE PairingTypeOK'
  <2>1. call[v] \in Verification
    OBVIOUS
  <2>2. \/ call' = [call EXCEPT ![v] = NoCall]
       \/ call' = [call EXCEPT ![v] = [call[v] EXCEPT !.at = "answered", !.ans = "error"]]
    BY <1>19 DEF VerifyStops, Answer
  <2>4. /\ NoCall \in Verification
          /\ [call[v] EXCEPT !.at = "answered", !.ans = "error"] \in Verification
    BY <2>1, CallRecords
  <2>3. call' \in [Verifiers -> Verification]
    BY <2>2, <2>4
  <2> QED
    BY FaultCounted, <2>3, <1>19 DEF VerifyStops
<1>20. ASSUME NEW v \in Verifiers, VerifyLost(v) PROVE PairingTypeOK'
  <2>1. call[v] \in Verification
    OBVIOUS
  <2>2. \/ call' = [call EXCEPT ![v] = NoCall]
       \/ call' = [call EXCEPT ![v] = [call[v] EXCEPT !.kept = FALSE]]
    BY <1>20 DEF VerifyLost, Answer
  <2>4. NoCall \in Verification /\ [call[v] EXCEPT !.kept = FALSE] \in Verification
    BY <2>1, CallRecords
  <2>3. call' \in [Verifiers -> Verification]
    BY <2>2, <2>4
  <2> QED
    BY PageRecords, FaultCounted, <2>3, <1>20 DEF VerifyLost
<1>21. ASSUME NEW v \in Verifiers, PollPairing(v) PROVE PairingTypeOK'
  <2>1. page.req \in Rows
    BY DEF Page
  <2>2. call' = [call EXCEPT ![v] = [call[v] EXCEPT !.at = "sent", !.req = page.req,
                                                    !.kept = TRUE]]
    BY <1>21 DEF PollPairing
  <2>3. call' \in [Verifiers -> Verification]
    BY <2>1, <2>2, CallRecords
  <2> QED
    BY <2>3, <1>21, PageRecords DEF PollPairing
<1>22. ASSUME NEW v \in Verifiers, HeardPaired(v) PROVE PairingTypeOK'
  <2>1. call[v].tok \in Tokens
    BY DEF Verification
  <2>2. [Stopped(page) EXCEPT !.mode = "verifying"] \in Page
    BY PageRecords
  <2>3. [tok |-> call[v].tok, pairing |-> TRUE] \in Check
    BY <2>1 DEF Check
  <2> QED
    BY <2>1, <2>2, <2>3, <1>22, CallRecords DEF HeardPaired
<1>23. ASSUME NEW v \in Verifiers, HeardOther(v) PROVE PairingTypeOK'
  <2>1. NotPaired(page) \in Page
    BY PageRecords
  <2> QED
    BY <2>1, <1>23, PageRecords, CallRecords DEF HeardOther
<1>24. ASSUME Cancel PROVE PairingTypeOK'
  BY <1>24, PageRecords DEF Cancel
<1>25. ASSUME TimesOut PROVE PairingTypeOK'
  BY <1>25, PageRecords DEF TimesOut
<1>26. ASSUME NEW c \in checks, Validated(c) PROVE PairingTypeOK'
  <2> DEFINE done == IF c.pairing THEN [page EXCEPT !.busy = FALSE] ELSE page
  <2>1. done \in Page
    BY PageRecords
  <2>2. NotPaired(done) \in Page /\ [done EXCEPT !.mode = "receiver_loaded"] \in Page
        /\ [done EXCEPT !.mode = "server_error"] \in Page
    BY <2>1, PageRecords
  <2>3. page' \in Page
    BY <2>2, <1>26 DEF Validated
  <2> QED
    BY <2>3, FaultCounted, NoToken, <1>26 DEF Validated
<1>27. ASSUME Revalidate PROVE PairingTypeOK'
  <2>1. [tok |-> token, pairing |-> FALSE] \in Check
    BY DEF Check
  <2> QED
    BY <2>1, <1>27, PageRecords DEF Revalidate
<1>28. ASSUME SessionRefused PROVE PairingTypeOK'
  BY <1>28, PageRecords, NoToken DEF SessionRefused
<1>29. ASSUME ResetToken PROVE PairingTypeOK'
  BY <1>29, PageRecords, NoToken DEF ResetToken
<1>30. ASSUME Reload PROVE PairingTypeOK'
  <2>1. [tok |-> token, pairing |-> FALSE] \in Check
    BY DEF Check
  <2>2. call' \in [Verifiers -> Verification]
    BY <1>30, CallRecords DEF Reload
  <2>3. page' \in Page
    BY <1>30, NewPages DEF Reload
  <2>4. submit' \in [Requests -> SubmitStates]
    BY <1>30 DEF Reload, SubmitStates
  <2> QED
    BY <2>1, <2>2, <2>3, <2>4, FaultCounted, <1>30 DEF Reload
<1>31. ASSUME UNCHANGED pairingVars PROVE PairingTypeOK'
  BY <1>31 DEF pairingVars
<1> QED
  BY <1>1, <1>2, <1>3, <1>4, <1>5, <1>6, <1>7, <1>8, <1>9, <1>10, <1>11,
     <1>12, <1>13, <1>14, <1>15, <1>16, <1>17, <1>18, <1>19, <1>20, <1>21,
     <1>22, <1>23, <1>24, <1>25, <1>26, <1>27, <1>28, <1>29, <1>30, <1>31
     DEF PairingNext

-----------------------------------------------------------------------------
(***************************************************************************)
(* What each call rests on.                                                *)
(***************************************************************************)

\* A request is in whatever is under way.
ShapeInv ==
  /\ \A h \in Handlers :
       /\ task[h].at \in {"list", "confirm", "code"} => task[h].req \in Requests
       /\ task[h].at = "evict" /\ task[h].todo = {} => task[h].req \in Requests
       /\ task[h].at = "evicted" => task[h].dev \in Requests
  /\ \A v \in Verifiers : call[v].at # "idle" => call[v].req \in Requests
  /\ page.mode = "pairing_waiting" => page.req \in Requests

\* An administrator has confirmed whatever may lead to a token.
ApprovedInv ==
  /\ \A h \in Handlers : task[h].req \in Requests => task[h].req \in approved
  /\ \A r \in Requests : request[r] = "request_confirmed" => r \in approved
  /\ \A v \in Verifiers :
       call[v].at \in {"confirmed", "stored"} => call[v].req \in approved
  /\ TokenNeedsApproval

\* Nothing is under way for a request that is not there yet.
KnownInv ==
  /\ \A r \in Requests :
       /\ submit[r] \in {"none", "sent", "found", "late", "refused"} => request[r] = "none"
       /\ device[r] # "none" => request[r] # "none"
  /\ \A h \in Handlers :
       /\ task[h].req \in Requests => request[task[h].req] # "none"
       /\ \A d \in task[h].todo : request[d] # "none"
       /\ task[h].dev \in Requests => request[task[h].dev] # "none"
  /\ \A v \in Verifiers :
       call[v].at \in {"confirmed", "stored"} => request[call[v].req] # "none"

LEMMA ShapeStep == PairingTypeOK /\ ShapeInv /\ [PairingNext]_pairingVars => ShapeInv'
<1> SUFFICES ASSUME PairingTypeOK /\ ShapeInv, [PairingNext]_pairingVars PROVE ShapeInv'
  OBVIOUS
<1> USE DEF PairingTypeOK, ShapeInv, HandlerTask, Verification, Page, Rows, pairingTables, pairingServer, pairingPage, pairingHistory
<1>1. ASSUME NEW c \in Codes, CreateCode(c) PROVE ShapeInv'
  BY <1>1 DEF CreateCode
<1>2. ASSUME NEW r \in Requests, ReadCode(r) \/ ExpireCode(r) PROVE ShapeInv'
  BY <1>2 DEF ReadCode, ExpireCode
<1>3. ASSUME NEW r \in Requests, CreateRequest(r) PROVE ShapeInv'
  BY <1>3 DEF CreateRequest
<1>4. ASSUME NEW r \in Requests, Submit(r) PROVE ShapeInv'
  BY <1>4 DEF Submit
<1>5. ASSUME NEW r \in Requests, SubmitFails(r) PROVE ShapeInv'
  BY <1>5 DEF SubmitFails, Fault
<1>6. ASSUME NEW r \in Requests, Submitted(r) PROVE ShapeInv'
  BY <1>6 DEF Submitted
<1>7. ASSUME NEW h \in Handlers, NEW r \in Requests, ConfirmBegin(h, r) PROVE ShapeInv'
  BY <1>7 DEF ConfirmBegin, Begin, Idle
<1>8. ASSUME NEW h \in Handlers, NEW r \in Requests, RevokeBegin(h, r) PROVE ShapeInv'
  BY <1>8 DEF RevokeBegin, Begin, Idle
<1>9. ASSUME NEW h \in Handlers, ListDevices(h) PROVE ShapeInv'
  BY <1>9 DEF ListDevices
<1>10. ASSUME NEW h \in Handlers, RevokeRow(h) PROVE ShapeInv'
  BY <1>10 DEF RevokeRow
<1>11. ASSUME NEW h \in Handlers, RevokeItsRequest(h) PROVE ShapeInv'
  BY <1>11 DEF RevokeItsRequest, Idle
<1>12. ASSUME NEW h \in Handlers, CreateDevice(h) PROVE ShapeInv'
  <2>1. task[h].at = "evict" /\ task[h].todo = {} /\ task[h].req \in Requests
    BY <1>12 DEF CreateDevice
  <2>2. UNCHANGED <<request, call, hash, pairingPage, approved>>
    BY <1>12 DEF CreateDevice
  <2>3. CASE task' = [task EXCEPT ![h] = Idle] /\ UNCHANGED device
    BY <2>1, <2>2, <2>3 DEF Idle
  <2>4. CASE /\ task' = [task EXCEPT ![h] = [task[h] EXCEPT !.at = "confirm"]]
             /\ device' = [device EXCEPT ![task[h].req] = "device_active"]
    BY <2>1, <2>2, <2>4
  <2> QED
    BY <2>3, <2>4, <1>12 DEF CreateDevice
<1>13. ASSUME NEW h \in Handlers, ConfirmRow(h) PROVE ShapeInv'
  BY <1>13 DEF ConfirmRow
<1>14. ASSUME NEW h \in Handlers, ConfirmCode(h) PROVE ShapeInv'
  BY <1>14 DEF ConfirmCode, Idle
<1>15. ASSUME NEW h \in Handlers, HandlerStops(h) PROVE ShapeInv'
  BY <1>15 DEF HandlerStops, Idle, Fault
<1>16. ASSUME NEW v \in Verifiers, VerifyRead(v) PROVE ShapeInv'
  <2> DEFINE answer == Verdict(call[v].req)
  <2>1. \/ /\ call' = [call EXCEPT ![v] = [call[v] EXCEPT !.at = "confirmed"]]
           /\ request[call[v].req] = "request_confirmed"
        \/ call' = [call EXCEPT ![v] = NoCall]
        \/ call' = [call EXCEPT ![v] = [call[v] EXCEPT !.at = "answered",
                                                       !.ans = answer]]
    BY <1>16 DEF VerifyRead, Answer
  <2> HIDE DEF answer
  <2>2. call[v].req \in Requests
    BY <1>16 DEF VerifyRead
  <2>3. UNCHANGED <<pairingServer, pairingPage, approved>>
    BY <1>16 DEF VerifyRead
  <2>4. CASE call' = [call EXCEPT ![v] = NoCall]
    BY <2>3, <2>4 DEF NoCall
  <2>5. CASE call' = [call EXCEPT ![v] = [call[v] EXCEPT !.at = "answered",
                                                       !.ans = answer]]
    BY <2>2, <2>3, <2>5
  <2>6. CASE /\ call' = [call EXCEPT ![v] = [call[v] EXCEPT !.at = "confirmed"]]
             /\ request[call[v].req] = "request_confirmed"
    BY <2>2, <2>3, <2>6
  <2> QED
    BY <2>1, <2>4, <2>5, <2>6
<1>17. ASSUME NEW v \in Verifiers, VerifyStore(v) PROVE ShapeInv'
  BY <1>17 DEF VerifyStore
<1>18. ASSUME NEW v \in Verifiers, VerifyFinish(v) PROVE ShapeInv'
  BY <1>18 DEF VerifyFinish, Answer, NoCall
<1>19. ASSUME NEW v \in Verifiers, VerifyStops(v) PROVE ShapeInv'
  BY <1>19 DEF VerifyStops, Answer, NoCall, Fault
<1>20. ASSUME NEW v \in Verifiers, VerifyLost(v) PROVE ShapeInv'
  BY <1>20 DEF VerifyLost, NoCall, Fault
<1>21. ASSUME NEW v \in Verifiers, PollPairing(v) PROVE ShapeInv'
  BY <1>21 DEF PollPairing, NoCall
<1>22. ASSUME NEW v \in Verifiers, HeardPaired(v) PROVE ShapeInv'
  BY <1>22 DEF HeardPaired, NoCall, Stopped
<1>23. ASSUME NEW v \in Verifiers, HeardOther(v) PROVE ShapeInv'
  BY <1>23 DEF HeardOther, NoCall, NotPaired, Stopped
<1>24. ASSUME Cancel PROVE ShapeInv'
  BY <1>24 DEF Cancel, NotPaired, Stopped
<1>25. ASSUME TimesOut PROVE ShapeInv'
  BY <1>25 DEF TimesOut, NotPaired, Stopped
<1>26. ASSUME NEW c \in checks, Validated(c) PROVE ShapeInv'
  <2>1. page'.mode \in {"receiver_loaded", "not_paired", "server_error"}
    BY <1>26 DEF Validated, NotPaired, Stopped
  <2> QED
    BY <2>1, <1>26 DEF Validated
<1>27. ASSUME Revalidate PROVE ShapeInv'
  BY <1>27 DEF Revalidate, NotPaired, Stopped
<1>28. ASSUME SessionRefused PROVE ShapeInv'
  BY <1>28 DEF SessionRefused, NotPaired, Stopped
<1>29. ASSUME ResetToken PROVE ShapeInv'
  BY <1>29 DEF ResetToken, NotPaired, Stopped
<1>30. ASSUME Reload PROVE ShapeInv'
  <2>1. \A v \in Verifiers : call'[v].at = call[v].at /\ call'[v].req = call[v].req
    BY <1>30 DEF Reload
  <2>2. page'.mode \in {"not_paired", "verifying"}
    BY <1>30 DEF Reload
  <2>3. \A r \in Requests : submit'[r] \in {"none", "over"}
                             /\ (submit'[r] = "none" => submit[r] = "none")
    BY <1>30 DEF Reload
  <2>4. UNCHANGED <<pairingServer, approved>>
    BY <1>30 DEF Reload
  <2> QED
    BY <2>1, <2>2, <2>3, <2>4
<1>31. ASSUME UNCHANGED pairingVars PROVE ShapeInv'
  BY <1>31 DEF pairingVars
<1> QED
  BY <1>1, <1>2, <1>3, <1>4, <1>5, <1>6, <1>7, <1>8, <1>9, <1>10, <1>11,
     <1>12, <1>13, <1>14, <1>15, <1>16, <1>17, <1>18, <1>19, <1>20, <1>21,
     <1>22, <1>23, <1>24, <1>25, <1>26, <1>27, <1>28, <1>29, <1>30, <1>31
     DEF PairingNext

LEMMA ApprovedStep == PairingTypeOK /\ ShapeInv /\ ApprovedInv /\ [PairingNext]_pairingVars => ApprovedInv'
<1> SUFFICES ASSUME PairingTypeOK /\ ShapeInv /\ ApprovedInv, [PairingNext]_pairingVars PROVE ApprovedInv'
  OBVIOUS
<1> USE DEF PairingTypeOK, ShapeInv, ApprovedInv, TokenNeedsApproval, HandlerTask, Verification, Rows, Tokens, pairingTables, pairingServer, pairingPage, pairingHistory
<1>1. ASSUME NEW c \in Codes, CreateCode(c) PROVE ApprovedInv'
  BY <1>1 DEF CreateCode
<1>2. ASSUME NEW r \in Requests, ReadCode(r) \/ ExpireCode(r) PROVE ApprovedInv'
  BY <1>2 DEF ReadCode, ExpireCode
<1>3. ASSUME NEW r \in Requests, CreateRequest(r) PROVE ApprovedInv'
  BY <1>3 DEF CreateRequest
<1>4. ASSUME NEW r \in Requests, Submit(r) PROVE ApprovedInv'
  BY <1>4 DEF Submit
<1>5. ASSUME NEW r \in Requests, SubmitFails(r) PROVE ApprovedInv'
  BY <1>5 DEF SubmitFails, Fault
<1>6. ASSUME NEW r \in Requests, Submitted(r) PROVE ApprovedInv'
  BY <1>6 DEF Submitted
<1>7. ASSUME NEW h \in Handlers, NEW r \in Requests, ConfirmBegin(h, r) PROVE ApprovedInv'
  BY <1>7 DEF ConfirmBegin, Begin, Idle
<1>8. ASSUME NEW h \in Handlers, NEW r \in Requests, RevokeBegin(h, r) PROVE ApprovedInv'
  BY <1>8 DEF RevokeBegin, Begin, Idle
<1>9. ASSUME NEW h \in Handlers, ListDevices(h) PROVE ApprovedInv'
  BY <1>9 DEF ListDevices
<1>10. ASSUME NEW h \in Handlers, RevokeRow(h) PROVE ApprovedInv'
  BY <1>10 DEF RevokeRow
<1>11. ASSUME NEW h \in Handlers, RevokeItsRequest(h) PROVE ApprovedInv'
  BY <1>11 DEF RevokeItsRequest, Idle
<1>12. ASSUME NEW h \in Handlers, CreateDevice(h) PROVE ApprovedInv'
  <2>1. task[h].at = "evict" /\ task[h].todo = {} /\ task[h].req \in Requests
    BY <1>12 DEF CreateDevice
  <2>2. UNCHANGED <<request, call, hash, pairingPage, approved>>
    BY <1>12 DEF CreateDevice
  <2>3. CASE task' = [task EXCEPT ![h] = Idle] /\ UNCHANGED device
    BY <2>1, <2>2, <2>3 DEF Idle
  <2>4. CASE /\ task' = [task EXCEPT ![h] = [task[h] EXCEPT !.at = "confirm"]]
             /\ device' = [device EXCEPT ![task[h].req] = "device_active"]
    BY <2>1, <2>2, <2>4
  <2> QED
    BY <2>3, <2>4, <1>12 DEF CreateDevice
<1>13. ASSUME NEW h \in Handlers, ConfirmRow(h) PROVE ApprovedInv'
  BY <1>13 DEF ConfirmRow
<1>14. ASSUME NEW h \in Handlers, ConfirmCode(h) PROVE ApprovedInv'
  BY <1>14 DEF ConfirmCode, Idle
<1>15. ASSUME NEW h \in Handlers, HandlerStops(h) PROVE ApprovedInv'
  BY <1>15 DEF HandlerStops, Idle, Fault
<1>16. ASSUME NEW v \in Verifiers, VerifyRead(v) PROVE ApprovedInv'
  <2> DEFINE answer == Verdict(call[v].req)
  <2>1. \/ /\ call' = [call EXCEPT ![v] = [call[v] EXCEPT !.at = "confirmed"]]
           /\ request[call[v].req] = "request_confirmed"
        \/ call' = [call EXCEPT ![v] = NoCall]
        \/ call' = [call EXCEPT ![v] = [call[v] EXCEPT !.at = "answered",
                                                       !.ans = answer]]
    BY <1>16 DEF VerifyRead, Answer
  <2> HIDE DEF answer
  <2>2. call[v].req \in Requests
    BY <1>16 DEF VerifyRead
  <2>3. UNCHANGED <<pairingServer, pairingPage, approved>>
    BY <1>16 DEF VerifyRead
  <2>4. CASE call' = [call EXCEPT ![v] = NoCall]
    BY <2>3, <2>4 DEF NoCall
  <2>5. CASE call' = [call EXCEPT ![v] = [call[v] EXCEPT !.at = "answered",
                                                       !.ans = answer]]
    BY <2>2, <2>3, <2>5
  <2>6. CASE /\ call' = [call EXCEPT ![v] = [call[v] EXCEPT !.at = "confirmed"]]
             /\ request[call[v].req] = "request_confirmed"
    BY <2>2, <2>3, <2>6
  <2> QED
    BY <2>1, <2>4, <2>5, <2>6
<1>17. ASSUME NEW v \in Verifiers, VerifyStore(v) PROVE ApprovedInv'
  BY <1>17 DEF VerifyStore
<1>18. ASSUME NEW v \in Verifiers, VerifyFinish(v) PROVE ApprovedInv'
  BY <1>18 DEF VerifyFinish, Answer, NoCall
<1>19. ASSUME NEW v \in Verifiers, VerifyStops(v) PROVE ApprovedInv'
  BY <1>19 DEF VerifyStops, Answer, NoCall, Fault
<1>20. ASSUME NEW v \in Verifiers, VerifyLost(v) PROVE ApprovedInv'
  BY <1>20 DEF VerifyLost, NoCall, Fault
<1>21. ASSUME NEW v \in Verifiers, PollPairing(v) PROVE ApprovedInv'
  BY <1>21 DEF PollPairing, NoCall
<1>22. ASSUME NEW v \in Verifiers, HeardPaired(v) PROVE ApprovedInv'
  BY <1>22 DEF HeardPaired, NoCall, Stopped
<1>23. ASSUME NEW v \in Verifiers, HeardOther(v) PROVE ApprovedInv'
  BY <1>23 DEF HeardOther, NoCall, NotPaired, Stopped
<1>24. ASSUME Cancel PROVE ApprovedInv'
  BY <1>24 DEF Cancel, NotPaired, Stopped
<1>25. ASSUME TimesOut PROVE ApprovedInv'
  BY <1>25 DEF TimesOut, NotPaired, Stopped
<1>26. ASSUME NEW c \in checks, Validated(c) PROVE ApprovedInv'
  BY <1>26 DEF Validated
<1>27. ASSUME Revalidate PROVE ApprovedInv'
  BY <1>27 DEF Revalidate, NotPaired, Stopped
<1>28. ASSUME SessionRefused PROVE ApprovedInv'
  BY <1>28 DEF SessionRefused, NotPaired, Stopped
<1>29. ASSUME ResetToken PROVE ApprovedInv'
  BY <1>29 DEF ResetToken, NotPaired, Stopped
<1>30. ASSUME Reload PROVE ApprovedInv'
  <2>1. \A v \in Verifiers : call'[v].at = call[v].at /\ call'[v].req = call[v].req
    BY <1>30 DEF Reload
  <2>3. \A r \in Requests : submit'[r] \in {"none", "over"}
                             /\ (submit'[r] = "none" => submit[r] = "none")
    BY <1>30 DEF Reload
  <2>4. UNCHANGED <<pairingServer, approved>>
    BY <1>30 DEF Reload
  <2> QED
    BY <2>1, <2>3, <2>4
<1>31. ASSUME UNCHANGED pairingVars PROVE ApprovedInv'
  BY <1>31 DEF pairingVars
<1> QED
  BY <1>1, <1>2, <1>3, <1>4, <1>5, <1>6, <1>7, <1>8, <1>9, <1>10, <1>11,
     <1>12, <1>13, <1>14, <1>15, <1>16, <1>17, <1>18, <1>19, <1>20, <1>21,
     <1>22, <1>23, <1>24, <1>25, <1>26, <1>27, <1>28, <1>29, <1>30, <1>31
     DEF PairingNext

LEMMA KnownStep == PairingTypeOK /\ ShapeInv /\ KnownInv /\ [PairingNext]_pairingVars => KnownInv'
<1> SUFFICES ASSUME PairingTypeOK /\ ShapeInv /\ KnownInv, [PairingNext]_pairingVars PROVE KnownInv'
  OBVIOUS
<1> USE DEF PairingTypeOK, ShapeInv, KnownInv, HandlerTask, Verification, Rows, RequestStates, DeviceStates, SubmitStates, pairingTables, pairingServer, pairingPage, pairingHistory
<1>1. ASSUME NEW c \in Codes, CreateCode(c) PROVE KnownInv'
  BY <1>1 DEF CreateCode
<1>2. ASSUME NEW r \in Requests, ReadCode(r) \/ ExpireCode(r) PROVE KnownInv'
  BY <1>2 DEF ReadCode, ExpireCode
<1>3. ASSUME NEW r \in Requests, CreateRequest(r) PROVE KnownInv'
  BY <1>3 DEF CreateRequest
<1>4. ASSUME NEW r \in Requests, Submit(r) PROVE KnownInv'
  BY <1>4 DEF Submit
<1>5. ASSUME NEW r \in Requests, SubmitFails(r) PROVE KnownInv'
  BY <1>5 DEF SubmitFails, Fault
<1>6. ASSUME NEW r \in Requests, Submitted(r) PROVE KnownInv'
  BY <1>6 DEF Submitted
<1>7. ASSUME NEW h \in Handlers, NEW r \in Requests, ConfirmBegin(h, r) PROVE KnownInv'
  <2>1. /\ \A g \in Handlers \ {h} : task'[g] = task[g]
        /\ task'[h].req = r /\ task'[h].todo = {} /\ task'[h].dev = NoRequest
        /\ UNCHANGED <<request, device, call, submit>>
    BY <1>7 DEF ConfirmBegin, Begin, Idle
  <2>2. request[r] # "none"
    BY <1>7 DEF ConfirmBegin
  <2> QED
    BY <2>1, <2>2
<1>8. ASSUME NEW h \in Handlers, NEW r \in Requests, RevokeBegin(h, r) PROVE KnownInv'
  <2>1. /\ \A g \in Handlers \ {h} : task'[g] = task[g]
        /\ task'[h].req = NoRequest /\ task'[h].todo = {r}
        /\ task'[h].dev = NoRequest
        /\ UNCHANGED <<request, device, call, submit>>
    BY <1>8 DEF RevokeBegin, Begin, Idle
  <2>2. request[r] # "none"
    BY <1>8 DEF RevokeBegin
  <2> QED
    BY <2>1, <2>2
<1>9. ASSUME NEW h \in Handlers, ListDevices(h) PROVE KnownInv'
  BY <1>9 DEF ListDevices
<1>10. ASSUME NEW h \in Handlers, RevokeRow(h) PROVE KnownInv'
  BY <1>10 DEF RevokeRow
<1>11. ASSUME NEW h \in Handlers, RevokeItsRequest(h) PROVE KnownInv'
  BY <1>11 DEF RevokeItsRequest, Idle
<1>12. ASSUME NEW h \in Handlers, CreateDevice(h) PROVE KnownInv'
  <2>1. task[h].at = "evict" /\ task[h].todo = {} /\ task[h].req \in Requests
    BY <1>12 DEF CreateDevice
  <2>2. UNCHANGED <<request, call, hash, pairingPage, approved>>
    BY <1>12 DEF CreateDevice
  <2>3. CASE task' = [task EXCEPT ![h] = Idle] /\ UNCHANGED device
    BY <2>1, <2>2, <2>3 DEF Idle
  <2>4. CASE /\ task' = [task EXCEPT ![h] = [task[h] EXCEPT !.at = "confirm"]]
             /\ device' = [device EXCEPT ![task[h].req] = "device_active"]
    BY <2>1, <2>2, <2>4
  <2> QED
    BY <2>3, <2>4, <1>12 DEF CreateDevice
<1>13. ASSUME NEW h \in Handlers, ConfirmRow(h) PROVE KnownInv'
  BY <1>13 DEF ConfirmRow
<1>14. ASSUME NEW h \in Handlers, ConfirmCode(h) PROVE KnownInv'
  BY <1>14 DEF ConfirmCode, Idle
<1>15. ASSUME NEW h \in Handlers, HandlerStops(h) PROVE KnownInv'
  BY <1>15 DEF HandlerStops, Idle, Fault
<1>16. ASSUME NEW v \in Verifiers, VerifyRead(v) PROVE KnownInv'
  <2> DEFINE answer == Verdict(call[v].req)
  <2>1. \/ /\ call' = [call EXCEPT ![v] = [call[v] EXCEPT !.at = "confirmed"]]
           /\ request[call[v].req] = "request_confirmed"
        \/ call' = [call EXCEPT ![v] = NoCall]
        \/ call' = [call EXCEPT ![v] = [call[v] EXCEPT !.at = "answered",
                                                       !.ans = answer]]
    BY <1>16 DEF VerifyRead, Answer
  <2> HIDE DEF answer
  <2>2. call[v].req \in Requests
    BY <1>16 DEF VerifyRead
  <2>3. UNCHANGED <<pairingServer, pairingPage, approved>>
    BY <1>16 DEF VerifyRead
  <2>4. CASE call' = [call EXCEPT ![v] = NoCall]
    BY <2>3, <2>4 DEF NoCall
  <2>5. CASE call' = [call EXCEPT ![v] = [call[v] EXCEPT !.at = "answered",
                                                       !.ans = answer]]
    BY <2>2, <2>3, <2>5
  <2>6. CASE /\ call' = [call EXCEPT ![v] = [call[v] EXCEPT !.at = "confirmed"]]
             /\ request[call[v].req] = "request_confirmed"
    BY <2>2, <2>3, <2>6
  <2> QED
    BY <2>1, <2>4, <2>5, <2>6
<1>17. ASSUME NEW v \in Verifiers, VerifyStore(v) PROVE KnownInv'
  BY <1>17 DEF VerifyStore
<1>18. ASSUME NEW v \in Verifiers, VerifyFinish(v) PROVE KnownInv'
  BY <1>18 DEF VerifyFinish, Answer, NoCall
<1>19. ASSUME NEW v \in Verifiers, VerifyStops(v) PROVE KnownInv'
  BY <1>19 DEF VerifyStops, Answer, NoCall, Fault
<1>20. ASSUME NEW v \in Verifiers, VerifyLost(v) PROVE KnownInv'
  BY <1>20 DEF VerifyLost, NoCall, Fault
<1>21. ASSUME NEW v \in Verifiers, PollPairing(v) PROVE KnownInv'
  <2> HIDE DEF HandlerTask, Verification, ShapeInv, KnownInv
  <2>1. /\ call' = [call EXCEPT ![v] = [call[v] EXCEPT !.at = "sent", !.req = page.req,
                                                       !.kept = TRUE]]
        /\ UNCHANGED <<pairingServer, submit>>
    BY <1>21 DEF PollPairing
  <2>2. \A w \in Verifiers : call'[w].at \in {"confirmed", "stored"} =>
          call[w].at \in {"confirmed", "stored"} /\ call'[w].req = call[w].req
    BY <2>1 DEF Verification
  <2> USE DEF HandlerTask, Verification, ShapeInv, KnownInv
  <2> QED
    BY <2>1, <2>2
<1>22. ASSUME NEW v \in Verifiers, HeardPaired(v) PROVE KnownInv'
  BY <1>22 DEF HeardPaired, NoCall, Stopped
<1>23. ASSUME NEW v \in Verifiers, HeardOther(v) PROVE KnownInv'
  BY <1>23 DEF HeardOther, NoCall, NotPaired, Stopped
<1>24. ASSUME Cancel PROVE KnownInv'
  BY <1>24 DEF Cancel, NotPaired, Stopped
<1>25. ASSUME TimesOut PROVE KnownInv'
  BY <1>25 DEF TimesOut, NotPaired, Stopped
<1>26. ASSUME NEW c \in checks, Validated(c) PROVE KnownInv'
  BY <1>26 DEF Validated
<1>27. ASSUME Revalidate PROVE KnownInv'
  BY <1>27 DEF Revalidate, NotPaired, Stopped
<1>28. ASSUME SessionRefused PROVE KnownInv'
  BY <1>28 DEF SessionRefused, NotPaired, Stopped
<1>29. ASSUME ResetToken PROVE KnownInv'
  BY <1>29 DEF ResetToken, NotPaired, Stopped
<1>30. ASSUME Reload PROVE KnownInv'
  <2>1. \A v \in Verifiers : call'[v].at = call[v].at /\ call'[v].req = call[v].req
    BY <1>30 DEF Reload
  <2>3. \A r \in Requests : submit'[r] \in {"none", "over"}
                             /\ (submit'[r] = "none" => submit[r] = "none")
    BY <1>30 DEF Reload
  <2>4. UNCHANGED <<pairingServer, approved>>
    BY <1>30 DEF Reload
  <2> QED
    BY <2>1, <2>3, <2>4
<1>31. ASSUME UNCHANGED pairingVars PROVE KnownInv'
  BY <1>31 DEF pairingVars
<1> QED
  BY <1>1, <1>2, <1>3, <1>4, <1>5, <1>6, <1>7, <1>8, <1>9, <1>10, <1>11,
     <1>12, <1>13, <1>14, <1>15, <1>16, <1>17, <1>18, <1>19, <1>20, <1>21,
     <1>22, <1>23, <1>24, <1>25, <1>26, <1>27, <1>28, <1>29, <1>30, <1>31
     DEF PairingNext

LEMMA BeginsKnown ==
  PairingInit => PairingTypeOK /\ ShapeInv /\ ApprovedInv /\ KnownInv
<1> SUFFICES ASSUME PairingInit
    PROVE  PairingTypeOK /\ ShapeInv /\ ApprovedInv /\ KnownInv
  OBVIOUS
<1>1. PairingTypeOK
  <2>1. page \in Page /\ task \in [Handlers -> HandlerTask]
        /\ call \in [Verifiers -> Verification]
    BY TaskRecords, CallRecords, NewPages DEF PairingInit
  <2>2. faults \in 0..MaxFaults
    BY DEF PairingInit
  <2> QED
    BY <2>1, <2>2, NoToken DEF PairingInit, PairingTypeOK, CodeStates,
       RequestStates, DeviceStates, SubmitStates
<1>2. ShapeInv
  BY DEF PairingInit, ShapeInv, Idle, NoCall
<1>3. ApprovedInv
  BY DEF PairingInit, ApprovedInv, TokenNeedsApproval, Idle, NoCall
<1>4. KnownInv
  BY DEF PairingInit, KnownInv, Idle, NoCall
<1> QED
  BY <1>1, <1>2, <1>3, <1>4

LEMMA PairingReached ==
  PairingSpec => [](PairingTypeOK /\ ShapeInv /\ ApprovedInv /\ KnownInv)
<1>1. PairingTypeOK /\ ShapeInv /\ ApprovedInv /\ KnownInv /\ [PairingNext]_pairingVars
        => PairingTypeOK' /\ ShapeInv' /\ ApprovedInv' /\ KnownInv'
  BY TypeStep, ShapeStep, ApprovedStep, KnownStep
<1> QED
  BY <1>1, BeginsKnown, PTL DEF PairingSpec

\* Types: what the rows, the handlers, the calls and the page hold, for any
\* number of them.
THEOREM PairingTyped == PairingSpec => []PairingTypeOK
BY PairingReached, PTL

\* Whatever handlers overlap, stop or are repeated, a token is issued only
\* for a request that an administrator has confirmed.
THEOREM TokensApproved == PairingSpec => []TokenNeedsApproval
<1>1. ApprovedInv => TokenNeedsApproval
  BY DEF ApprovedInv
<1> QED
  BY <1>1, PairingReached, PTL
-----------------------------------------------------------------------------
(***************************************************************************)
(* Revocations.                                                            *)
(***************************************************************************)

\* Request r and its device are revoked, and nothing that read them before
\* is still running.
Revoked(r) ==
  request[r] = "device_revoked" /\ device[r] = "device_revoked" /\ ~Pending(r)

LEMMA RevokedStep ==
  ASSUME PairingTypeOK, KnownInv, [PairingNext]_pairingVars, NEW q \in Requests,
         Revoked(q)
  PROVE  Revoked(q)'
<1> USE DEF PairingTypeOK, Revoked, Pending, HandlerTask, Verification, pairingTables, pairingServer, pairingPage, pairingHistory
<1>1. ASSUME NEW c \in Codes, CreateCode(c) PROVE Revoked(q)'
  BY <1>1 DEF CreateCode
<1>2. ASSUME NEW r \in Requests, ReadCode(r) \/ ExpireCode(r) PROVE Revoked(q)'
  BY <1>2 DEF ReadCode, ExpireCode
<1>3. ASSUME NEW r \in Requests, CreateRequest(r) PROVE Revoked(q)'
  BY <1>3 DEF CreateRequest, KnownInv
<1>4. ASSUME NEW r \in Requests, Submit(r) PROVE Revoked(q)'
  BY <1>4 DEF Submit
<1>5. ASSUME NEW r \in Requests, SubmitFails(r) PROVE Revoked(q)'
  BY <1>5 DEF SubmitFails
<1>6. ASSUME NEW r \in Requests, Submitted(r) PROVE Revoked(q)'
  BY <1>6 DEF Submitted
<1>7. ASSUME NEW h \in Handlers, NEW r \in Requests, ConfirmBegin(h, r) PROVE Revoked(q)'
  BY <1>7 DEF ConfirmBegin, Begin, Idle
<1>8. ASSUME NEW h \in Handlers, NEW r \in Requests, RevokeBegin(h, r) PROVE Revoked(q)'
  BY <1>8 DEF RevokeBegin, Begin, Idle
<1>9. ASSUME NEW h \in Handlers, ListDevices(h) PROVE Revoked(q)'
  BY <1>9 DEF ListDevices
<1>10. ASSUME NEW h \in Handlers, RevokeRow(h) PROVE Revoked(q)'
  BY <1>10 DEF RevokeRow
<1>11. ASSUME NEW h \in Handlers, RevokeItsRequest(h) PROVE Revoked(q)'
  BY <1>11 DEF RevokeItsRequest, Idle
<1>12. ASSUME NEW h \in Handlers, CreateDevice(h) PROVE Revoked(q)'
  <2>1. task[h].at = "evict" /\ task[h].todo = {}
    BY <1>12 DEF CreateDevice
  <2>2. UNCHANGED <<request, call, hash, pairingPage, approved>>
    BY <1>12 DEF CreateDevice
  <2>3. CASE task' = [task EXCEPT ![h] = Idle] /\ UNCHANGED device
    BY <2>1, <2>2, <2>3 DEF Idle
  <2>4. CASE /\ device[task[h].req] = "none"
             /\ task' = [task EXCEPT ![h] = [task[h] EXCEPT !.at = "confirm"]]
             /\ device' = [device EXCEPT ![task[h].req] = "device_active"]
    BY <2>1, <2>2, <2>4
  <2> QED
    BY <2>3, <2>4, <1>12 DEF CreateDevice
<1>13. ASSUME NEW h \in Handlers, ConfirmRow(h) PROVE Revoked(q)'
  BY <1>13 DEF ConfirmRow
<1>14. ASSUME NEW h \in Handlers, ConfirmCode(h) PROVE Revoked(q)'
  BY <1>14 DEF ConfirmCode, Idle
<1>15. ASSUME NEW h \in Handlers, HandlerStops(h) PROVE Revoked(q)'
  BY <1>15 DEF HandlerStops, Idle
<1>16. ASSUME NEW v \in Verifiers, VerifyRead(v) PROVE Revoked(q)'
  <2> DEFINE answer == Verdict(call[v].req)
  <2>1. \/ /\ call' = [call EXCEPT ![v] = [call[v] EXCEPT !.at = "confirmed"]]
           /\ request[call[v].req] = "request_confirmed"
        \/ call' = [call EXCEPT ![v] = NoCall]
        \/ call' = [call EXCEPT ![v] = [call[v] EXCEPT !.at = "answered",
                                                       !.ans = answer]]
    BY <1>16 DEF VerifyRead, Answer
  <2> HIDE DEF answer
  <2>3. UNCHANGED <<pairingServer, pairingPage, approved>>
    BY <1>16 DEF VerifyRead
  <2>4. CASE call' = [call EXCEPT ![v] = NoCall]
    BY <2>3, <2>4 DEF NoCall
  <2>5. CASE call' = [call EXCEPT ![v] = [call[v] EXCEPT !.at = "answered",
                                                       !.ans = answer]]
    BY <2>3, <2>5
  <2>6. CASE /\ call' = [call EXCEPT ![v] = [call[v] EXCEPT !.at = "confirmed"]]
             /\ request[call[v].req] = "request_confirmed"
    BY <2>3, <2>6
  <2> QED
    BY <2>1, <2>4, <2>5, <2>6
<1>17. ASSUME NEW v \in Verifiers, VerifyStore(v) PROVE Revoked(q)'
  BY <1>17 DEF VerifyStore
<1>18. ASSUME NEW v \in Verifiers, VerifyFinish(v) PROVE Revoked(q)'
  BY <1>18 DEF VerifyFinish, Answer, NoCall
<1>19. ASSUME NEW v \in Verifiers, VerifyStops(v) PROVE Revoked(q)'
  BY <1>19 DEF VerifyStops, Answer, NoCall
<1>20. ASSUME NEW v \in Verifiers, VerifyLost(v) PROVE Revoked(q)'
  BY <1>20 DEF VerifyLost, NoCall
<1>21. ASSUME NEW v \in Verifiers, PollPairing(v) PROVE Revoked(q)'
  BY <1>21 DEF PollPairing, NoCall
<1>22. ASSUME NEW v \in Verifiers, HeardPaired(v) PROVE Revoked(q)'
  BY <1>22 DEF HeardPaired, NoCall
<1>23. ASSUME NEW v \in Verifiers, HeardOther(v) PROVE Revoked(q)'
  BY <1>23 DEF HeardOther, NoCall
<1>24. ASSUME Cancel PROVE Revoked(q)'
  BY <1>24 DEF Cancel
<1>25. ASSUME TimesOut PROVE Revoked(q)'
  BY <1>25 DEF TimesOut
<1>26. ASSUME NEW c \in checks, Validated(c) PROVE Revoked(q)'
  BY <1>26 DEF Validated
<1>27. ASSUME Revalidate PROVE Revoked(q)'
  BY <1>27 DEF Revalidate
<1>28. ASSUME SessionRefused PROVE Revoked(q)'
  BY <1>28 DEF SessionRefused
<1>29. ASSUME ResetToken PROVE Revoked(q)'
  BY <1>29 DEF ResetToken
<1>30. ASSUME Reload PROVE Revoked(q)'
  <2>1. \A v \in Verifiers : call'[v].at = call[v].at /\ call'[v].req = call[v].req
    BY <1>30 DEF Reload
  <2>4. UNCHANGED <<pairingServer, approved>>
    BY <1>30 DEF Reload
  <2> QED
    BY <2>1, <2>4
<1>31. ASSUME UNCHANGED pairingVars PROVE Revoked(q)'
  BY <1>31 DEF pairingVars
<1> QED
  BY <1>1, <1>2, <1>3, <1>4, <1>5, <1>6, <1>7, <1>8, <1>9, <1>10, <1>11,
     <1>12, <1>13, <1>14, <1>15, <1>16, <1>17, <1>18, <1>19, <1>20, <1>21,
     <1>22, <1>23, <1>24, <1>25, <1>26, <1>27, <1>28, <1>29, <1>30, <1>31
     DEF PairingNext

\* A revocation is final, for any number of devices and of handlers: no
\* verification, confirmation, retry or late write brings the device back.
THEOREM RevocationsFinal == PairingSpec => RevocationFinal
<1>1. PairingTypeOK /\ KnownInv /\ [PairingNext]_pairingVars
        => [\A r \in Requests :
              /\ request[r] = "device_revoked" /\ device[r] = "device_revoked"
              /\ ~Pending(r)
              => request'[r] = "device_revoked" /\ device'[r] = "device_revoked"
                 /\ ~Pending(r)']_pairingVars
  <2> SUFFICES ASSUME PairingTypeOK, KnownInv, [PairingNext]_pairingVars,
                      NEW r \in Requests, Revoked(r)
               PROVE  Revoked(r)'
    BY DEF Revoked
  <2> QED
    BY RevokedStep
<1> QED
  BY <1>1, PairingReached, PTL DEF RevocationFinal, PairingSpec
-----------------------------------------------------------------------------
(***************************************************************************)
(* The page.                                                               *)
(***************************************************************************)
LEMMA TimedStep ==
  ASSUME page \in Page, WaitingIsTimed, [PairingNext]_pairingVars
  PROVE  WaitingIsTimed'
<1> USE DEF WaitingIsTimed, Page, Stopped, NotPaired, pairingTables, pairingServer, pairingPage, pairingHistory
<1>1. ASSUME NEW r \in Requests, Submit(r) PROVE WaitingIsTimed'
  BY <1>1 DEF Submit
<1>2. ASSUME NEW r \in Requests, SubmitFails(r) PROVE WaitingIsTimed'
  BY <1>2 DEF SubmitFails
<1>3. ASSUME NEW r \in Requests, Submitted(r) PROVE WaitingIsTimed'
  BY <1>3 DEF Submitted
<1>4. ASSUME NEW v \in Verifiers, VerifyLost(v) PROVE WaitingIsTimed'
  BY <1>4 DEF VerifyLost
<1>5. ASSUME NEW v \in Verifiers, PollPairing(v) PROVE WaitingIsTimed'
  BY <1>5 DEF PollPairing
<1>6. ASSUME NEW v \in Verifiers, HeardPaired(v) PROVE WaitingIsTimed'
  BY <1>6 DEF HeardPaired
<1>7. ASSUME NEW v \in Verifiers, HeardOther(v) PROVE WaitingIsTimed'
  BY <1>7 DEF HeardOther
<1>8. ASSUME Cancel PROVE WaitingIsTimed'
  BY <1>8 DEF Cancel
<1>9. ASSUME TimesOut PROVE WaitingIsTimed'
  BY <1>9 DEF TimesOut
<1>10. ASSUME NEW c \in checks, Validated(c) PROVE WaitingIsTimed'
  <2>1. page'.mode \in {"receiver_loaded", "not_paired", "server_error"}
    BY <1>10 DEF Validated
  <2> QED
    BY <2>1
<1>11. ASSUME Revalidate PROVE WaitingIsTimed'
  BY <1>11 DEF Revalidate
<1>12. ASSUME SessionRefused PROVE WaitingIsTimed'
  BY <1>12 DEF SessionRefused
<1>13. ASSUME ResetToken PROVE WaitingIsTimed'
  BY <1>13 DEF ResetToken
<1>14. ASSUME Reload PROVE WaitingIsTimed'
  BY <1>14 DEF Reload
<1>15. ASSUME NEW c \in Codes, CreateCode(c) PROVE WaitingIsTimed'
  BY <1>15 DEF CreateCode
<1>16. ASSUME NEW r \in Requests, ReadCode(r) \/ ExpireCode(r) \/ CreateRequest(r)
     PROVE WaitingIsTimed'
  BY <1>16 DEF ReadCode, ExpireCode, CreateRequest
<1>17. ASSUME NEW h \in Handlers,
            \/ \E r \in Requests : ConfirmBegin(h, r) \/ RevokeBegin(h, r)
            \/ ListDevices(h) \/ RevokeRow(h) \/ RevokeItsRequest(h)
            \/ CreateDevice(h) \/ ConfirmRow(h) \/ ConfirmCode(h) \/ HandlerStops(h)
     PROVE WaitingIsTimed'
  BY <1>17 DEF ConfirmBegin, RevokeBegin, ListDevices, RevokeRow, RevokeItsRequest,
     CreateDevice, ConfirmRow, ConfirmCode, HandlerStops
<1>18. ASSUME NEW v \in Verifiers,
            VerifyRead(v) \/ VerifyStore(v) \/ VerifyFinish(v) \/ VerifyStops(v)
     PROVE WaitingIsTimed'
  BY <1>18 DEF VerifyRead, VerifyStore, VerifyFinish, VerifyStops
<1>19. ASSUME UNCHANGED pairingVars PROVE WaitingIsTimed'
  BY <1>19 DEF pairingVars
<1> QED
  BY <1>1, <1>2, <1>3, <1>4, <1>5, <1>6, <1>7, <1>8, <1>9, <1>10, <1>11,
     <1>12, <1>13, <1>14, <1>15, <1>16, <1>17, <1>18, <1>19 DEF PairingNext

\* The page never waits without the timer that ends the wait, although
\* verifications of earlier dialogues answer at any time.
THEOREM WaitsTimed == PairingSpec => []WaitingIsTimed
<1>1. PairingInit => WaitingIsTimed
  BY DEF PairingInit, WaitingIsTimed
<1>2. PairingTypeOK /\ WaitingIsTimed /\ [PairingNext]_pairingVars => WaitingIsTimed'
  BY TimedStep DEF PairingTypeOK
<1> QED
  BY <1>1, <1>2, PairingReached, PTL DEF PairingSpec
-----------------------------------------------------------------------------
(***************************************************************************)
(* One active device.                                                      *)
(***************************************************************************)
Busy(h)  == task[h].at # "idle"
Begun(v) == call[v].at \in {"confirmed", "stored"}

\* Without a mishap at most one handler runs.
SoloInv ==
  ~mishap =>
    /\ \A h, g \in Handlers : Busy(h) /\ Busy(g) => h = g
    /\ \A v, w \in Verifiers : Begun(v) /\ Begun(w) => v = w
    /\ \A h \in Handlers : \A v \in Verifiers : ~(Busy(h) /\ Begun(v))

\* And each finds what its next statement rests on.
ActiveInv ==
  ~mishap =>
    /\ \A r, s \in Requests :
         device[r] = "device_active" /\ device[s] = "device_active" => r = s
    /\ \A r \in Requests : request[r] = "request_confirmed" =>
         \/ device[r] = "device_active"
         \/ \E h \in Handlers : task[h].at = "evicted" /\ task[h].dev = r
    /\ \A h \in Handlers :
         /\ task[h].at \in {"evict", "evicted"} /\ task[h].req \in Requests =>
              \A d \in Requests : device[d] = "device_active" => d \in task[h].todo
         /\ task[h].at = "evicted" => device[task[h].dev] = "device_revoked"
         /\ task[h].at = "confirm" => device[task[h].req] = "device_active"
    /\ \A v \in Verifiers : Begun(v) => request[call[v].req] = "request_confirmed"

LEMMA SoloStep == PairingTypeOK /\ ShapeInv /\ SoloInv /\ [PairingNext]_pairingVars => SoloInv'
<1> SUFFICES ASSUME PairingTypeOK /\ ShapeInv /\ SoloInv, [PairingNext]_pairingVars PROVE SoloInv'
  OBVIOUS
<1> USE DEF PairingTypeOK, ShapeInv, SoloInv, Busy, Begun, HandlerTask, Verification, pairingTables, pairingServer, pairingPage, pairingHistory
<1>1. ASSUME NEW c \in Codes, CreateCode(c) PROVE SoloInv'
  BY <1>1 DEF CreateCode
<1>2. ASSUME NEW r \in Requests, ReadCode(r) \/ ExpireCode(r) PROVE SoloInv'
  BY <1>2 DEF ReadCode, ExpireCode
<1>3. ASSUME NEW r \in Requests, CreateRequest(r) PROVE SoloInv'
  BY <1>3 DEF CreateRequest
<1>4. ASSUME NEW r \in Requests, Submit(r) PROVE SoloInv'
  BY <1>4 DEF Submit
<1>5. ASSUME NEW r \in Requests, SubmitFails(r) PROVE SoloInv'
  BY <1>5 DEF SubmitFails, Fault
<1>6. ASSUME NEW r \in Requests, Submitted(r) PROVE SoloInv'
  BY <1>6 DEF Submitted
<1>7. ASSUME NEW h \in Handlers, NEW r \in Requests, ConfirmBegin(h, r) PROVE SoloInv'
  BY <1>7 DEF ConfirmBegin, Begin, Idle, Running
<1>8. ASSUME NEW h \in Handlers, NEW r \in Requests, RevokeBegin(h, r) PROVE SoloInv'
  BY <1>8 DEF RevokeBegin, Begin, Idle, Running
<1>9. ASSUME NEW h \in Handlers, ListDevices(h) PROVE SoloInv'
  BY <1>9 DEF ListDevices
<1>10. ASSUME NEW h \in Handlers, RevokeRow(h) PROVE SoloInv'
  BY <1>10 DEF RevokeRow
<1>11. ASSUME NEW h \in Handlers, RevokeItsRequest(h) PROVE SoloInv'
  BY <1>11 DEF RevokeItsRequest, Idle
<1>12. ASSUME NEW h \in Handlers, CreateDevice(h) PROVE SoloInv'
  <2>1. task[h].at = "evict" /\ task[h].todo = {} /\ task[h].req \in Requests
    BY <1>12 DEF CreateDevice
  <2>2. UNCHANGED <<request, call, mishap>>
    BY <1>12 DEF CreateDevice
  <2>3. CASE task' = [task EXCEPT ![h] = Idle] /\ UNCHANGED device
    BY <2>1, <2>2, <2>3 DEF Idle
  <2>4. CASE /\ task' = [task EXCEPT ![h] = [task[h] EXCEPT !.at = "confirm"]]
             /\ device' = [device EXCEPT ![task[h].req] = "device_active"]
    BY <2>1, <2>2, <2>4
  <2> QED
    BY <2>3, <2>4, <1>12 DEF CreateDevice
<1>13. ASSUME NEW h \in Handlers, ConfirmRow(h) PROVE SoloInv'
  BY <1>13 DEF ConfirmRow
<1>14. ASSUME NEW h \in Handlers, ConfirmCode(h) PROVE SoloInv'
  BY <1>14 DEF ConfirmCode, Idle
<1>15. ASSUME NEW h \in Handlers, HandlerStops(h) PROVE SoloInv'
  BY <1>15 DEF HandlerStops, Idle, Fault
<1>16. ASSUME NEW v \in Verifiers, VerifyRead(v) PROVE SoloInv'
  <2> DEFINE answer == Verdict(call[v].req)
  <2>1. \/ /\ call' = [call EXCEPT ![v] = [call[v] EXCEPT !.at = "confirmed"]]
           /\ request[call[v].req] = "request_confirmed"
           /\ mishap' = (mishap \/ Running)
        \/ call' = [call EXCEPT ![v] = NoCall] /\ UNCHANGED mishap
        \/ /\ call' = [call EXCEPT ![v] = [call[v] EXCEPT !.at = "answered",
                                                         !.ans = answer]]
           /\ UNCHANGED mishap
    BY <1>16 DEF VerifyRead, Answer
  <2> HIDE DEF answer
  <2>3. UNCHANGED pairingServer
    BY <1>16 DEF VerifyRead
  <2>4. CASE call' = [call EXCEPT ![v] = NoCall] /\ UNCHANGED mishap
    BY <2>3, <2>4 DEF NoCall
  <2>5. CASE /\ call' = [call EXCEPT ![v] = [call[v] EXCEPT !.at = "answered",
                                                          !.ans = answer]]
             /\ UNCHANGED mishap
    BY <2>3, <2>5
  <2>6. CASE /\ call' = [call EXCEPT ![v] = [call[v] EXCEPT !.at = "confirmed"]]
             /\ request[call[v].req] = "request_confirmed"
             /\ mishap' = (mishap \/ Running)
    BY <2>3, <2>6 DEF Running
  <2> QED
    BY <2>1, <2>4, <2>5, <2>6
<1>17. ASSUME NEW v \in Verifiers, VerifyStore(v) PROVE SoloInv'
  BY <1>17 DEF VerifyStore
<1>18. ASSUME NEW v \in Verifiers, VerifyFinish(v) PROVE SoloInv'
  BY <1>18 DEF VerifyFinish, Answer, NoCall
<1>19. ASSUME NEW v \in Verifiers, VerifyStops(v) PROVE SoloInv'
  BY <1>19 DEF VerifyStops, Answer, NoCall, Fault
<1>20. ASSUME NEW v \in Verifiers, VerifyLost(v) PROVE SoloInv'
  BY <1>20 DEF VerifyLost, NoCall, Fault
<1>21. ASSUME NEW v \in Verifiers, PollPairing(v) PROVE SoloInv'
  <2> HIDE DEF HandlerTask, Verification, ShapeInv, SoloInv, ActiveInv
  <2>1. /\ call' = [call EXCEPT ![v] = [call[v] EXCEPT !.at = "sent", !.req = page.req,
                                                       !.kept = TRUE]]
        /\ call[v] = NoCall
    BY <1>21 DEF PollPairing
  <2>2. \A w \in Verifiers :
          Begun(w)' => Begun(w) /\ call'[w].req = call[w].req
    BY <2>1 DEF NoCall, Verification
  <2>3. UNCHANGED <<pairingServer, mishap>>
    BY <1>21 DEF PollPairing
  <2> HIDE DEF Begun
  <2> USE DEF HandlerTask, Verification, ShapeInv, SoloInv, ActiveInv
  <2> QED
    BY <2>2, <2>3
<1>22. ASSUME NEW v \in Verifiers, HeardPaired(v) PROVE SoloInv'
  BY <1>22 DEF HeardPaired, NoCall, Stopped
<1>23. ASSUME NEW v \in Verifiers, HeardOther(v) PROVE SoloInv'
  BY <1>23 DEF HeardOther, NoCall, NotPaired, Stopped
<1>24. ASSUME Cancel PROVE SoloInv'
  BY <1>24 DEF Cancel, NotPaired, Stopped
<1>25. ASSUME TimesOut PROVE SoloInv'
  BY <1>25 DEF TimesOut, NotPaired, Stopped
<1>26. ASSUME NEW c \in checks, Validated(c) PROVE SoloInv'
  BY <1>26 DEF Validated
<1>27. ASSUME Revalidate PROVE SoloInv'
  BY <1>27 DEF Revalidate, NotPaired, Stopped
<1>28. ASSUME SessionRefused PROVE SoloInv'
  BY <1>28 DEF SessionRefused, NotPaired, Stopped
<1>29. ASSUME ResetToken PROVE SoloInv'
  BY <1>29 DEF ResetToken, NotPaired, Stopped
<1>30. ASSUME Reload PROVE SoloInv'
  <2>1. \A v \in Verifiers : call'[v].at = call[v].at /\ call'[v].req = call[v].req
    BY <1>30 DEF Reload
  <2>2. UNCHANGED <<pairingServer, mishap>>
    BY <1>30 DEF Reload
  <2> QED
    BY <2>1, <2>2
<1>31. ASSUME UNCHANGED pairingVars PROVE SoloInv'
  BY <1>31 DEF pairingVars
<1> QED
  BY <1>1, <1>2, <1>3, <1>4, <1>5, <1>6, <1>7, <1>8, <1>9, <1>10, <1>11,
     <1>12, <1>13, <1>14, <1>15, <1>16, <1>17, <1>18, <1>19, <1>20, <1>21,
     <1>22, <1>23, <1>24, <1>25, <1>26, <1>27, <1>28, <1>29, <1>30, <1>31
     DEF PairingNext

LEMMA ActiveStep ==
  PairingTypeOK /\ ShapeInv /\ KnownInv /\ SoloInv /\ ActiveInv
    /\ [PairingNext]_pairingVars => ActiveInv'
<1> SUFFICES ASSUME PairingTypeOK /\ ShapeInv /\ KnownInv /\ SoloInv /\ ActiveInv, [PairingNext]_pairingVars PROVE ActiveInv'
  OBVIOUS
<1> USE DEF PairingTypeOK, ShapeInv, SoloInv, ActiveInv, Busy, Begun, HandlerTask, Verification, Rows, pairingTables, pairingServer, pairingPage, pairingHistory
<1>1. ASSUME NEW c \in Codes, CreateCode(c) PROVE ActiveInv'
  BY <1>1 DEF CreateCode
<1>2. ASSUME NEW r \in Requests, ReadCode(r) \/ ExpireCode(r) PROVE ActiveInv'
  BY <1>2 DEF ReadCode, ExpireCode
<1>3. ASSUME NEW r \in Requests, CreateRequest(r) PROVE ActiveInv'
  BY <1>3 DEF CreateRequest, KnownInv
<1>4. ASSUME NEW r \in Requests, Submit(r) PROVE ActiveInv'
  BY <1>4 DEF Submit
<1>5. ASSUME NEW r \in Requests, SubmitFails(r) PROVE ActiveInv'
  BY <1>5 DEF SubmitFails, Fault
<1>6. ASSUME NEW r \in Requests, Submitted(r) PROVE ActiveInv'
  BY <1>6 DEF Submitted
<1>7. ASSUME NEW h \in Handlers, NEW r \in Requests, ConfirmBegin(h, r) PROVE ActiveInv'
  <2>1. ~mishap' =>
          ~mishap /\ \A g \in Handlers : ~Busy(g) /\ \A v \in Verifiers : ~Begun(v)
    BY <1>7 DEF ConfirmBegin, Begin, Running
  <2>2. /\ \A g \in Handlers \ {h} : task'[g] = task[g]
        /\ task'[h].at = "list"
    BY <1>7 DEF ConfirmBegin, Begin, Idle
  <2>3. UNCHANGED <<pairingTables, call>>
    BY <1>7 DEF ConfirmBegin
  <2> QED
    BY <2>1, <2>2, <2>3
<1>8. ASSUME NEW h \in Handlers, NEW r \in Requests, RevokeBegin(h, r) PROVE ActiveInv'
  <2>1. ~mishap' =>
          ~mishap /\ \A g \in Handlers : ~Busy(g) /\ \A v \in Verifiers : ~Begun(v)
    BY <1>8 DEF RevokeBegin, Begin, Running
  <2>2. /\ \A g \in Handlers \ {h} : task'[g] = task[g]
        /\ task'[h].at = "evict" /\ task'[h].req \notin Requests
    BY <1>8 DEF RevokeBegin, Begin, Idle
  <2>3. UNCHANGED <<pairingTables, call>>
    BY <1>8 DEF RevokeBegin
  <2> QED
    BY <2>1, <2>2, <2>3
<1>9. ASSUME NEW h \in Handlers, ListDevices(h) PROVE ActiveInv'
  <2>1. /\ \A g \in Handlers \ {h} : task'[g] = task[g]
        /\ task'[h].at = "evict"
        /\ task'[h].todo = {d \in Requests : device[d] = "device_active"}
    BY <1>9 DEF ListDevices
  <2>2. task[h].at = "list" /\ UNCHANGED <<pairingTables, call, mishap>>
    BY <1>9 DEF ListDevices
  <2> QED
    BY <2>1, <2>2
<1>10. ASSUME NEW h \in Handlers, RevokeRow(h) PROVE ActiveInv'
  <2> HIDE DEF HandlerTask, ShapeInv, SoloInv, ActiveInv
  <2>1. PICK d \in task[h].todo :
          /\ device' = [device EXCEPT ![d] = "device_revoked"]
          /\ task' = [task EXCEPT ![h] = [task[h] EXCEPT !.at = "evicted", !.dev = d]]
    BY <1>10 DEF RevokeRow
  <2>2. task[h].at = "evict" /\ UNCHANGED <<request, call, mishap>>
    BY <1>10 DEF RevokeRow
  <2> USE DEF HandlerTask, ShapeInv, SoloInv, ActiveInv
  <2> QED
    BY <2>1, <2>2
<1>11. ASSUME NEW h \in Handlers, RevokeItsRequest(h) PROVE ActiveInv'
  BY <1>11 DEF RevokeItsRequest, Idle
<1>12. ASSUME NEW h \in Handlers, CreateDevice(h) PROVE ActiveInv'
  <2>1. task[h].at = "evict" /\ task[h].todo = {} /\ task[h].req \in Requests
    BY <1>12 DEF CreateDevice
  <2>2. UNCHANGED <<request, call, mishap>>
    BY <1>12 DEF CreateDevice
  <2>3. CASE task' = [task EXCEPT ![h] = Idle] /\ UNCHANGED device
    BY <2>1, <2>2, <2>3 DEF Idle
  <2>4. CASE /\ task' = [task EXCEPT ![h] = [task[h] EXCEPT !.at = "confirm"]]
             /\ device' = [device EXCEPT ![task[h].req] = "device_active"]
    BY <2>1, <2>2, <2>4
  <2> QED
    BY <2>3, <2>4, <1>12 DEF CreateDevice
<1>13. ASSUME NEW h \in Handlers, ConfirmRow(h) PROVE ActiveInv'
  BY <1>13 DEF ConfirmRow
<1>14. ASSUME NEW h \in Handlers, ConfirmCode(h) PROVE ActiveInv'
  BY <1>14 DEF ConfirmCode, Idle
<1>15. ASSUME NEW h \in Handlers, HandlerStops(h) PROVE ActiveInv'
  BY <1>15 DEF HandlerStops, Idle, Fault
<1>16. ASSUME NEW v \in Verifiers, VerifyRead(v) PROVE ActiveInv'
  <2> DEFINE answer == Verdict(call[v].req)
  <2>1. \/ /\ call' = [call EXCEPT ![v] = [call[v] EXCEPT !.at = "confirmed"]]
           /\ request[call[v].req] = "request_confirmed"
           /\ mishap' = (mishap \/ Running)
        \/ call' = [call EXCEPT ![v] = NoCall] /\ UNCHANGED mishap
        \/ /\ call' = [call EXCEPT ![v] = [call[v] EXCEPT !.at = "answered",
                                                         !.ans = answer]]
           /\ UNCHANGED mishap
    BY <1>16 DEF VerifyRead, Answer
  <2> HIDE DEF answer
  <2>3. UNCHANGED pairingServer
    BY <1>16 DEF VerifyRead
  <2>4. CASE call' = [call EXCEPT ![v] = NoCall] /\ UNCHANGED mishap
    BY <2>3, <2>4 DEF NoCall
  <2>5. CASE /\ call' = [call EXCEPT ![v] = [call[v] EXCEPT !.at = "answered",
                                                          !.ans = answer]]
             /\ UNCHANGED mishap
    BY <2>3, <2>5
  <2>6. CASE /\ call' = [call EXCEPT ![v] = [call[v] EXCEPT !.at = "confirmed"]]
             /\ request[call[v].req] = "request_confirmed"
             /\ mishap' = (mishap \/ Running)
    BY <2>3, <2>6 DEF Running
  <2> QED
    BY <2>1, <2>4, <2>5, <2>6
<1>17. ASSUME NEW v \in Verifiers, VerifyStore(v) PROVE ActiveInv'
  BY <1>17 DEF VerifyStore
<1>18. ASSUME NEW v \in Verifiers, VerifyFinish(v) PROVE ActiveInv'
  BY <1>18 DEF VerifyFinish, Answer, NoCall
<1>19. ASSUME NEW v \in Verifiers, VerifyStops(v) PROVE ActiveInv'
  BY <1>19 DEF VerifyStops, Answer, NoCall, Fault
<1>20. ASSUME NEW v \in Verifiers, VerifyLost(v) PROVE ActiveInv'
  BY <1>20 DEF VerifyLost, NoCall, Fault
<1>21. ASSUME NEW v \in Verifiers, PollPairing(v) PROVE ActiveInv'
  <2> HIDE DEF HandlerTask, Verification, ShapeInv, SoloInv, ActiveInv
  <2>1. /\ call' = [call EXCEPT ![v] = [call[v] EXCEPT !.at = "sent", !.req = page.req,
                                                       !.kept = TRUE]]
        /\ call[v] = NoCall
    BY <1>21 DEF PollPairing
  <2>2. \A w \in Verifiers :
          Begun(w)' => Begun(w) /\ call'[w].req = call[w].req
    BY <2>1 DEF NoCall, Verification
  <2>3. UNCHANGED <<pairingServer, mishap>>
    BY <1>21 DEF PollPairing
  <2> HIDE DEF Begun
  <2> USE DEF HandlerTask, Verification, ShapeInv, SoloInv, ActiveInv
  <2> QED
    BY <2>2, <2>3
<1>22. ASSUME NEW v \in Verifiers, HeardPaired(v) PROVE ActiveInv'
  BY <1>22 DEF HeardPaired, NoCall, Stopped
<1>23. ASSUME NEW v \in Verifiers, HeardOther(v) PROVE ActiveInv'
  BY <1>23 DEF HeardOther, NoCall, NotPaired, Stopped
<1>24. ASSUME Cancel PROVE ActiveInv'
  BY <1>24 DEF Cancel, NotPaired, Stopped
<1>25. ASSUME TimesOut PROVE ActiveInv'
  BY <1>25 DEF TimesOut, NotPaired, Stopped
<1>26. ASSUME NEW c \in checks, Validated(c) PROVE ActiveInv'
  BY <1>26 DEF Validated
<1>27. ASSUME Revalidate PROVE ActiveInv'
  BY <1>27 DEF Revalidate, NotPaired, Stopped
<1>28. ASSUME SessionRefused PROVE ActiveInv'
  BY <1>28 DEF SessionRefused, NotPaired, Stopped
<1>29. ASSUME ResetToken PROVE ActiveInv'
  BY <1>29 DEF ResetToken, NotPaired, Stopped
<1>30. ASSUME Reload PROVE ActiveInv'
  <2>1. \A v \in Verifiers : call'[v].at = call[v].at /\ call'[v].req = call[v].req
    BY <1>30 DEF Reload
  <2>2. UNCHANGED <<pairingServer, mishap>>
    BY <1>30 DEF Reload
  <2> QED
    BY <2>1, <2>2
<1>31. ASSUME UNCHANGED pairingVars PROVE ActiveInv'
  BY <1>31 DEF pairingVars
<1> QED
  BY <1>1, <1>2, <1>3, <1>4, <1>5, <1>6, <1>7, <1>8, <1>9, <1>10, <1>11,
     <1>12, <1>13, <1>14, <1>15, <1>16, <1>17, <1>18, <1>19, <1>20, <1>21,
     <1>22, <1>23, <1>24, <1>25, <1>26, <1>27, <1>28, <1>29, <1>30, <1>31
     DEF PairingNext

\* One installation has one active device, however many handlers there are,
\* as long as each runs alone and to its end.
THEOREM OneDevice == PairingSpec => []OneActiveDevice
<1>1. PairingInit => SoloInv /\ ActiveInv
  BY DEF PairingInit, SoloInv, ActiveInv, Busy, Begun, Idle, NoCall
<1>2. PairingTypeOK /\ ShapeInv /\ KnownInv /\ SoloInv /\ ActiveInv
        /\ [PairingNext]_pairingVars => SoloInv' /\ ActiveInv'
  BY SoloStep, ActiveStep
<1>3. ActiveInv => OneActiveDevice
  BY DEF ActiveInv, OneActiveDevice
<1> QED
  BY <1>1, <1>2, <1>3, PairingReached, PTL DEF PairingSpec

-----------------------------------------------------------------------------
(***************************************************************************)
(* Tickets.  A command is tracked by one order at most, and is one that    *)
(* was handed out; so a retry changes what one entry says.                 *)
(***************************************************************************)
Entry == [job : Jobs \cup {NoJob}, native : Queue!States \cup {"none"},
          ui : {"none", "QUEUED", "NEEDS_ATTENTION"}, blind : BOOLEAN, blocked : BOOLEAN]

\* The entries es track commands that were handed out, each one of its own.
OneEach(es, handed) ==
  /\ \A o \in Orders : es[o].job # NoJob => es[o].job \in handed
  /\ \A o, p \in Orders : es[o].job = es[p].job /\ es[o].job # NoJob => o = p

\* An entry that asks for the operator, under commands cs.
True(e, cs) == e.ui = "NEEDS_ATTENTION" /\ e.job # NoJob => cs[e.job] = "NEEDS_ATTENTION"

TrackInv == TrackingTypeOK /\ OneEach(tracked, dispatched) /\ AttentionIsTrue

\* The same with the names that are used here.
LEMMA TrackParts ==
  /\ TrackingTypeOK <=>
       /\ command \in [Jobs -> Queue!States] /\ dispatched \subseteq Jobs
       /\ tracked \in [Orders -> Entry]
       /\ mode \in {"boot", "listed", "loaded", "error", "not_paired"}
       /\ pollDue \in BOOLEAN /\ v2s \in BOOLEAN
       /\ pageFaults \in 0..MaxPageFaults /\ inherited \subseteq Orders
  /\ AttentionIsTrue <=> \A o \in Orders \ inherited : True(tracked[o], command)
<1>1. AttentionIsTrue <=> \A o \in Orders \ inherited : True(tracked[o], command)
  BY DEF AttentionIsTrue, True
<1> QED
  BY <1>1 DEF TrackingTypeOK, Entry

\* What is read of a command is true of it, unless the entry kept the state of an
\* earlier ticket before and still does.
LEMMA ReadIsTrue ==
  ASSUME TrackingTypeOK, NEW o \in Orders, tracked[o].job # NoJob,
         o \notin inherited => True(tracked[o], command)
  PROVE  /\ Read(tracked[o]) \in Entry /\ Read(tracked[o]).job = tracked[o].job
         /\ \/ True(Read(tracked[o]), command)
            \/ /\ o \in inherited
               /\ Read(tracked[o]).ui # Shown(command[tracked[o].job])
<1> DEFINE e == tracked[o]
           c == command[e.job]
<1>1. /\ e \in Entry /\ e.job \in Jobs /\ c \in Queue!States
  BY TrackParts DEF Entry
<1>2. /\ Shown(c) \in {"QUEUED", "NEEDS_ATTENTION", "none"}
      /\ Shown(c) = "NEEDS_ATTENTION" <=> c = "NEEDS_ATTENTION"
  BY DEF Shown
<1> HIDE DEF e, c
<1>3. CASE c = "ABSENT"
  <2>1. Read(e) = [e EXCEPT !.blind = TRUE]
    BY <1>3 DEF Read, c
  <2>2. Read(e) \in Entry /\ Read(e).job = e.job /\ Read(e).ui = e.ui
    BY <1>1, <2>1 DEF Entry
  <2>3. Shown(c) = "none" /\ c # "NEEDS_ATTENTION"
    BY <1>3 DEF Shown
  <2> QED
    BY <2>2, <2>3 DEF True, e, c
<1>4. CASE c # "ABSENT"
  <2> DEFINE shown == IF Shown(c) = "none" THEN e.ui ELSE Shown(c)
  <2>1. Read(e) = [e EXCEPT !.native = c, !.blind = FALSE, !.ui = shown]
    BY <1>4 DEF Read, c
  <2>2. shown \in {"none", "QUEUED", "NEEDS_ATTENTION"}
    BY <1>1, <1>2 DEF Entry
  <2> HIDE DEF shown
  <2>3. Read(e) \in Entry /\ Read(e).job = e.job /\ Read(e).ui = shown
    BY <1>1, <2>1, <2>2 DEF Entry
  <2>4. shown = "NEEDS_ATTENTION" /\ c # "NEEDS_ATTENTION" => e.ui = "NEEDS_ATTENTION"
    BY <1>2 DEF shown
  <2> QED
    BY <1>2, <2>3, <2>4 DEF True, e, c
<1> QED
  BY <1>3, <1>4

\* Entries of the same commands, or none, keep the commands apart.
LEMMA SameCommands ==
  ASSUME NEW es, NEW fs, NEW handed, OneEach(es, handed),
         \A o \in Orders : fs[o].job \in {es[o].job, NoJob}
  PROVE  OneEach(fs, handed)
BY DEF OneEach

\* The clean-up of entries leaves each as it is or none.
LEMMA KeptEntries ==
  ASSUME NEW es \in [Orders -> Entry], NEW old
  PROVE  /\ Kept(es, old) \in [Orders -> Entry]
         /\ \A o \in Orders : Kept(es, old)[o] = es[o] \/ Kept(es, old)[o] = NoEntry
         /\ NoEntry \in Entry /\ NoEntry.job = NoJob
<1>1. NoEntry \in Entry /\ NoEntry.job = NoJob
  BY DEF NoEntry, Entry
<1> QED
  BY <1>1 DEF Kept

\* Every step keeps the invariant.
LEMMA TrackStep == TrackInv /\ [TrackingNext]_trackingVars => TrackInv'
<1> SUFFICES ASSUME TrackInv, [TrackingNext]_trackingVars PROVE TrackInv'
  OBVIOUS
<1>t. /\ command \in [Jobs -> Queue!States] /\ dispatched \subseteq Jobs
      /\ tracked \in [Orders -> Entry] /\ NoJob \notin Jobs
      /\ mode \in {"boot", "listed", "loaded", "error", "not_paired"}
      /\ pollDue \in BOOLEAN /\ v2s \in BOOLEAN
      /\ pageFaults \in 0..MaxPageFaults /\ inherited \subseteq Orders
      /\ MaxPageFaults \in Nat
  BY TrackParts, TrackingConstants DEF TrackInv
<1>o. OneEach(tracked, dispatched) /\ \A o \in Orders \ inherited : True(tracked[o], command)
  BY TrackParts DEF TrackInv
<1>p. /\ TrackingTypeOK' <=>
           /\ command' \in [Jobs -> Queue!States] /\ dispatched' \subseteq Jobs
           /\ tracked' \in [Orders -> Entry]
           /\ mode' \in {"boot", "listed", "loaded", "error", "not_paired"}
           /\ pollDue' \in BOOLEAN /\ v2s' \in BOOLEAN
           /\ pageFaults' \in 0..MaxPageFaults /\ inherited' \subseteq Orders
      /\ AttentionIsTrue' <=> \A o \in Orders \ inherited' : True(tracked'[o], command')
  <2>1. AttentionIsTrue' <=> \A o \in Orders \ inherited' : True(tracked'[o], command')
    BY DEF AttentionIsTrue, True
  <2> QED
    BY <2>1 DEF TrackingTypeOK, Entry
<1>q. ASSUME TrackingTypeOK', OneEach(tracked', dispatched'),
             \A o \in Orders \ inherited' : True(tracked'[o], command')
      PROVE  TrackInv'
  BY <1>p, <1>q DEF TrackInv, OneEach
<1>f. PageFault => pageFaults' \in 0..MaxPageFaults
  BY <1>t DEF PageFault
<1>1. ASSUME UNCHANGED <<service, dispatched, tracked, v2s, inherited>>,
             mode' \in {"boot", "listed", "loaded", "error", "not_paired"},
             pollDue' \in BOOLEAN, pageFaults' \in 0..MaxPageFaults
      PROVE  TrackInv'
  BY <1>1, <1>t, <1>o, <1>p, <1>q DEF service
<1>2. CASE ServiceMoves
  <2>1. PICK j \in Jobs : \/ Queue!Dispatch(j) \/ Queue!PrintCleanly(j)
                          \/ Queue!Accept(j) \/ Queue!Requeue(j) \/ Queue!GiveUp(j)
    BY <1>2 DEF ServiceMoves
  <2>2. /\ command' \in [Jobs -> Queue!States] /\ command[j] # "NEEDS_ATTENTION"
        /\ \A k \in Jobs \ {j} : command'[k] = command[k]
    BY <2>1, <1>t DEF Queue!Dispatch, Queue!PrintCleanly, Queue!Accept, Queue!Requeue,
                      Queue!GiveUp, Queue!States
  <2>3. /\ TrackingTypeOK' /\ UNCHANGED <<dispatched, tracked, inherited>>
    BY <1>2, <2>2, <1>t, <1>p DEF ServiceMoves
  <2>4. ASSUME NEW o \in Orders \ inherited PROVE True(tracked[o], command')
    BY <1>o, <1>t, <2>2 DEF True, Entry
  <2> QED
    BY <2>3, <2>4, <1>o, <1>q
<1>3. ASSUME NEW o \in Orders, NEW j \in Jobs, DispatchTicket(o, j)
      PROVE  TrackInv'
  <2> DEFINE e == Ensured(tracked[o], j)
  <2>1. e \in Entry /\ e.job = j /\ (e.ui = "NEEDS_ATTENTION" => tracked[o].ui = "NEEDS_ATTENTION")
    <3>1. tracked[o] \in Entry
      BY <1>t
    <3> QED
      BY <3>1 DEF Ensured, Entry, Queue!States
  <2> HIDE DEF e
  <2>2. /\ j \notin dispatched /\ dispatched' = dispatched \cup {j}
        /\ tracked' = [tracked EXCEPT ![o] = e] /\ UNCHANGED <<mode, v2s>> /\ pollDue' = TRUE
        /\ inherited' = IF tracked[o].ui \in {"none", "QUEUED"} THEN inherited
                                                           ELSE inherited \cup {o}
        /\ pageFaults' \in 0..MaxPageFaults
    BY <1>3, <1>f, <1>t DEF DispatchTicket, Fresh, e
  <2>3. /\ command' \in [Jobs -> Queue!States]
        /\ \A k \in Jobs : command[k] = "NEEDS_ATTENTION" => command'[k] = command[k]
    BY <1>3, <1>t DEF DispatchTicket, Queue!Submit, Queue!States, service
  <2>4. TrackingTypeOK'
    BY <2>1, <2>2, <2>3, <1>t, <1>p
  <2>5. OneEach(tracked', dispatched')
    BY <2>1, <2>2, <1>t, <1>o DEF OneEach
  <2>6. ASSUME NEW p \in Orders \ inherited' PROVE True(tracked'[p], command')
    <3>1. CASE p = o
      BY <2>1, <2>2, <2>6, <3>1, <1>t DEF True, Entry
    <3>2. CASE p # o
      BY <2>2, <2>3, <2>6, <3>2, <1>t, <1>o DEF True, Entry
    <3> QED
      BY <3>1, <3>2
  <2> QED
    BY <2>4, <2>5, <2>6, <1>q
<1>4. ASSUME NEW j \in Jobs, PrintReservation(j)
      PROVE  TrackInv'
  <2>1. /\ dispatched' = dispatched \cup {j}
        /\ UNCHANGED <<tracked, mode, pollDue, v2s, pageFaults, inherited>>
    BY <1>4 DEF PrintReservation
  <2>2. /\ command' \in [Jobs -> Queue!States]
        /\ \A k \in Jobs : command[k] = "NEEDS_ATTENTION" => command'[k] = command[k]
    BY <1>4, <1>t DEF PrintReservation, Queue!Submit, Queue!States
  <2>3. TrackingTypeOK' /\ OneEach(tracked', dispatched')
    BY <2>1, <2>2, <1>t, <1>o, <1>p DEF OneEach
  <2>4. ASSUME NEW o \in Orders \ inherited PROVE True(tracked[o], command')
    BY <2>2, <1>t, <1>o DEF True, Entry
  <2> QED
    BY <2>1, <2>3, <2>4, <1>q
<1>5. ASSUME NEW o \in Orders, RetryTicket(o)
      PROVE  TrackInv'
  <2> DEFINE j == tracked[o].job
  <2>1. /\ j \in Jobs /\ UNCHANGED <<dispatched, mode, v2s, pageFaults>> /\ pollDue' = TRUE
        /\ tracked[o] \in Entry
    BY <1>5, <1>t DEF RetryTicket, Entry
  <2>2. CASE Queue!Retry(j) /\ tracked' = [tracked EXCEPT ![o] = Requeued(@)]
             /\ inherited' = inherited \ {o}
    <3> DEFINE e == Requeued(tracked[o])
    <3>1. e \in Entry /\ e.job = j /\ e.ui = "QUEUED"
      BY <2>1 DEF Requeued, Entry, Queue!States
    <3>2. tracked' = [tracked EXCEPT ![o] = e]
      BY <2>2
    <3> HIDE DEF e
    <3>3. /\ command' \in [Jobs -> Queue!States]
          /\ \A k \in Jobs \ {j} : command'[k] = command[k]
      BY <2>1, <2>2, <1>t DEF Queue!Retry, Queue!States
    <3>4. TrackingTypeOK'
      BY <2>1, <2>2, <3>1, <3>2, <3>3, <1>t, <1>p
    <3>5. OneEach(tracked', dispatched')
      BY <2>1, <3>1, <3>2, <1>t, <1>o DEF OneEach
    <3>6. ASSUME NEW p \in Orders \ inherited' PROVE True(tracked'[p], command')
      <4>1. CASE p = o
        BY <3>1, <3>2, <4>1, <1>t DEF True
      <4>2. CASE p # o
        <5>1. p \in Orders \ inherited /\ tracked'[p] = tracked[p] /\ tracked[p] \in Entry
          BY <2>2, <3>2, <4>2, <1>t
        <5>2. tracked[p].job # j
          BY <2>1, <4>2, <1>t, <1>o DEF OneEach
        <5> QED
          BY <3>3, <5>1, <5>2, <1>o DEF True, Entry
      <4> QED
        BY <4>1, <4>2
    <3> QED
      BY <3>4, <3>5, <3>6, <1>q
  <2>3. CASE tracked' = [tracked EXCEPT ![o] = IF v2s THEN Blocked ELSE @]
             /\ UNCHANGED <<service, inherited>>
    <3>1. Blocked \in Entry /\ Blocked.job = NoJob
      BY DEF Blocked, Entry, Queue!States
    <3>2. \A p \in Orders : tracked'[p] = tracked[p] \/ tracked'[p] = Blocked
      BY <2>3, <1>t
    <3>3. tracked' \in [Orders -> Entry]
      BY <2>3, <3>1, <1>t
    <3>4. TrackingTypeOK'
      BY <2>1, <2>3, <3>3, <1>t, <1>p DEF service
    <3>5. OneEach(tracked', dispatched')
      BY <2>1, <3>1, <3>2, <1>o, SameCommands
    <3>6. ASSUME NEW p \in Orders \ inherited' PROVE True(tracked'[p], command')
      BY <2>3, <3>1, <3>2, <1>o DEF True, service
    <3> QED
      BY <3>4, <3>5, <3>6, <1>q
  <2> QED
    BY <1>5, <2>2, <2>3 DEF RetryTicket
<1>6. CASE PollStatuses
  <2>1. PICK unread \in SUBSET Polled :
          /\ IF unread = {} THEN UNCHANGED pageFaults ELSE PageFault
          /\ tracked' = [o \in Orders |->
               CASE o \in unread -> [tracked[o] EXCEPT !.blind = TRUE]
                 [] o \in Polled \ unread -> Read(tracked[o])
                 [] OTHER -> tracked[o]]
          /\ inherited' = StillInherited(Polled \ unread)
    BY <1>6 DEF PollStatuses
  <2>2. /\ pollDue' = FALSE /\ UNCHANGED <<command, dispatched, mode, v2s>>
        /\ pageFaults' \in 0..MaxPageFaults /\ inherited' \subseteq inherited
    BY <1>6, <2>1, <1>f, <1>t DEF PollStatuses, service, StillInherited
  <2>3. ASSUME NEW o \in Orders
        PROVE  /\ tracked'[o] \in Entry /\ tracked'[o].job = tracked[o].job
               /\ o \notin inherited' => True(tracked'[o], command)
    <3>1. CASE o \in unread
      <4>1. tracked'[o] = [tracked[o] EXCEPT !.blind = TRUE] /\ tracked[o] \in Entry
        BY <2>1, <3>1, <1>t
      <4>2. o \in inherited' <=> o \in inherited
        BY <2>1, <3>1, <1>t DEF StillInherited
      <4>3. /\ tracked'[o] \in Entry /\ tracked'[o].job = tracked[o].job
            /\ tracked'[o].ui = tracked[o].ui
        BY <4>1 DEF Entry
      <4> QED
        BY <4>2, <4>3, <1>o DEF True
    <3>2. CASE o \in Polled \ unread
      <4>1. tracked'[o] = Read(tracked[o]) /\ tracked[o].job # NoJob
        BY <2>1, <3>2 DEF Polled
      <4>2. /\ Read(tracked[o]) \in Entry /\ Read(tracked[o]).job = tracked[o].job
            /\ \/ True(Read(tracked[o]), command)
               \/ /\ o \in inherited
                  /\ Read(tracked[o]).ui # Shown(command[tracked[o].job])
        BY <4>1, <1>o, ReadIsTrue DEF TrackInv
      <4> QED
        BY <2>1, <4>1, <4>2 DEF StillInherited
    <3>3. CASE o \notin Polled
      <4>1. tracked'[o] = tracked[o] /\ tracked[o] \in Entry
        BY <2>1, <3>3, <1>t
      <4>2. o \in inherited' <=> o \in inherited
        BY <2>1, <3>3, <1>t DEF StillInherited
      <4> QED
        BY <4>1, <4>2, <1>o
    <3> QED
      BY <3>1, <3>2, <3>3
  <2>4. DOMAIN tracked' = Orders /\ tracked' = [o \in Orders |-> tracked'[o]]
    BY <2>1
  <2>5. tracked' \in [Orders -> Entry]
    BY <2>3, <2>4
  <2>6. TrackingTypeOK'
    BY <2>2, <2>5, <1>t, <1>p
  <2>7. OneEach(tracked', dispatched')
    BY <2>2, <2>3, <1>o, SameCommands
  <2> QED
    BY <2>2, <2>3, <2>6, <2>7, <1>q
<1>7. CASE SessionEnds
  <2>1. /\ tracked' = [o \in Orders |-> NoEntry] /\ inherited' = {} /\ mode' = "not_paired"
        /\ UNCHANGED <<service, dispatched, pollDue, v2s, pageFaults>>
    BY <1>7 DEF SessionEnds
  <2>2. NoEntry \in Entry /\ NoEntry.job = NoJob
    BY DEF NoEntry, Entry
  <2>3. TrackingTypeOK'
    BY <2>1, <2>2, <1>t, <1>p DEF service
  <2>4. OneEach(tracked', dispatched') /\ \A o \in Orders : True(tracked'[o], command')
    BY <2>1, <2>2 DEF OneEach, True
  <2> QED
    BY <2>3, <2>4, <1>q
<1>8. CASE ReceiverLeft \/ SessionBegins \/ BootValidated \/ ErrorRetried
  BY <1>8, <1>1, <1>t DEF ReceiverLeft, SessionBegins, BootValidated, ErrorRetried
<1>9. CASE ReloadPage
  <2>1. PICK old \in SUBSET Orders : tracked' = Kept(Hydrated, old)
    BY <1>9 DEF ReloadPage
  <2>2. /\ pageFaults' \in 0..MaxPageFaults /\ pollDue' = FALSE
        /\ mode' \in {"boot", "not_paired"}
        /\ UNCHANGED <<command, dispatched, v2s, inherited>>
    BY <1>9, <1>f DEF ReloadPage, service
  <2>3. Hydrated \in [Orders -> Entry]
    BY <1>t, ZenonT(60) DEF Hydrated, Entry, NoEntry
  <2>4. ASSUME NEW o \in Orders
        PROVE  \/ Hydrated[o].job = NoJob
               \/ Hydrated[o].job = tracked[o].job /\ Hydrated[o].ui = tracked[o].ui
    <3>1. tracked[o] \in Entry
      BY <1>t
    <3> QED
      BY <3>1 DEF Hydrated, Entry, NoEntry
  <2>5. /\ tracked' \in [Orders -> Entry]
        /\ \A o \in Orders : \/ tracked'[o].job = NoJob
                             \/ tracked'[o].job = tracked[o].job /\ tracked'[o].ui = tracked[o].ui
    BY <2>1, <2>3, <2>4, KeptEntries
  <2>6. TrackingTypeOK'
    BY <2>2, <2>5, <1>t, <1>p
  <2>7. OneEach(tracked', dispatched')
    BY <2>2, <2>5, <1>o, SameCommands
  <2>8. \A o \in Orders \ inherited' : True(tracked'[o], command')
    BY <2>2, <2>5, <1>o DEF True
  <2> QED
    BY <2>6, <2>7, <2>8, <1>q
<1>10. CASE Reconcile
  <2> DEFINE known == {o \in Orders : tracked[o].job # NoJob}
             fresh == [o \in Orders |-> IF o \in known THEN Read(tracked[o]) ELSE tracked[o]]
  <2>1. PICK old \in SUBSET Orders : tracked' = Kept(fresh, old)
    BY <1>10 DEF Reconcile
  <2>2. /\ inherited' = StillInherited(known) /\ mode' = "loaded"
        /\ UNCHANGED <<command, dispatched, pollDue, v2s, pageFaults>>
    BY <1>10 DEF Reconcile, service
  <2>3. ASSUME NEW o \in Orders
        PROVE  /\ fresh[o] \in Entry /\ fresh[o].job = tracked[o].job
               /\ o \notin inherited' => True(fresh[o], command)
    <3>1. CASE tracked[o].job = NoJob
      BY <3>1, <1>t DEF True
    <3>2. CASE tracked[o].job # NoJob
      <4>1. /\ Read(tracked[o]) \in Entry /\ Read(tracked[o]).job = tracked[o].job
            /\ \/ True(Read(tracked[o]), command)
               \/ /\ o \in inherited
                  /\ Read(tracked[o]).ui # Shown(command[tracked[o].job])
        BY <3>2, <1>o, ReadIsTrue DEF TrackInv
      <4>2. fresh[o] = Read(tracked[o])
        BY <3>2
      <4> HIDE DEF fresh
      <4> QED
        BY <2>2, <4>1, <4>2, <3>2 DEF StillInherited
    <3> QED
      BY <3>1, <3>2
  <2>4. fresh = [o \in Orders |-> fresh[o]]
    OBVIOUS
  <2>5. inherited' \subseteq inherited
    BY <2>2 DEF StillInherited
  <2> HIDE DEF fresh, known
  <2>6. fresh \in [Orders -> Entry]
    BY <2>3, <2>4
  <2>7. /\ tracked' \in [Orders -> Entry] /\ NoEntry.job = NoJob
        /\ \A o \in Orders : tracked'[o] = fresh[o] \/ tracked'[o] = NoEntry
    BY <2>1, <2>6, KeptEntries
  <2>8. TrackingTypeOK'
    BY <2>2, <2>5, <2>7, <1>t, <1>p
  <2>9. OneEach(tracked', dispatched')
    BY <2>2, <2>3, <2>7, <1>o, SameCommands
  <2>10. \A o \in Orders \ inherited' : True(tracked'[o], command')
    BY <2>2, <2>3, <2>7 DEF True
  <2> QED
    BY <2>8, <2>9, <2>10, <1>q
<1>11. CASE UNCHANGED trackingVars
  BY <1>11, <1>1, <1>t DEF trackingVars
<1> QED
  BY <1>2, <1>3, <1>4, <1>5, <1>6, <1>7, <1>8, <1>9, <1>10, <1>11 DEF TrackingNext

\* The invariant holds.
LEMMA TrackInvariant == TrackingSpec => []TrackInv
<1>1. TrackingInit => TrackInv
  <2> SUFFICES ASSUME TrackingInit PROVE TrackInv
    OBVIOUS
  <2>1. /\ tracked = [o \in Orders |-> NoEntry] /\ NoEntry \in Entry /\ NoEntry.job = NoJob
        /\ command = [c \in Jobs |-> "ABSENT"] /\ 0 \in 0..MaxPageFaults
    BY TrackingConstants DEF TrackingInit, Queue!Init, NoEntry, Entry
  <2>2. TrackingTypeOK
    BY <2>1, TrackParts DEF TrackingInit, Queue!States
  <2>3. OneEach(tracked, dispatched) /\ AttentionIsTrue
    BY <2>1 DEF OneEach, AttentionIsTrue
  <2> QED
    BY <2>2, <2>3 DEF TrackInv
<1> QED
  BY <1>1, TrackStep, PTL DEF TrackingSpec

\* The types of what the page tracks, in every reachable state.
THEOREM TicketsTracked == TrackingSpec => []TrackingTypeOK
<1>1. TrackInv => TrackingTypeOK
  BY DEF TrackInv
<1> QED
  BY <1>1, TrackInvariant, PTL

\* An order that asks for the operator names a command that needs one, for any
\* number of orders, commands and failed calls of the bridge.
THEOREM AlarmsTrue == TrackingSpec => []AttentionIsTrue
<1>1. TrackInv => AttentionIsTrue
  BY DEF TrackInv
<1> QED
  BY <1>1, TrackInvariant, PTL

-----------------------------------------------------------------------------
(***************************************************************************)
(* Both dialogues, as TLC runs them: a behaviour is one of each, whichever *)
(* of them it follows.                                                     *)
(***************************************************************************)
LEMMA TerminalParts == TerminalSpec => PairingSpec /\ TrackingSpec
<1>1. TerminalInit => PairingInit /\ TrackingInit
  BY DEF TerminalInit
<1>2. TerminalNext => [PairingNext]_pairingVars /\ [TrackingNext]_trackingVars
  BY DEF TerminalNext, Pairs, Tracks, PairingNext, TrackingNext
<1>3. UNCHANGED terminalVars => UNCHANGED pairingVars /\ UNCHANGED trackingVars
  BY DEF terminalVars
<1> QED
  BY <1>1, <1>2, <1>3, PTL DEF TerminalSpec, PairingSpec, TrackingSpec

\* The types of both dialogues.
THEOREM TerminalTyped == TerminalSpec => []TerminalTypeOK
<1>1. PairingTypeOK /\ TrackingTypeOK => TerminalTypeOK
  BY DEF TerminalTypeOK
<1> QED
  BY <1>1, TerminalParts, PairingTyped, TicketsTracked, PTL

\* What the page of the receiver keeps, in both dialogues.
THEOREM TerminalKeeps ==
  TerminalSpec => /\ [](TokenNeedsApproval /\ OneActiveDevice /\ WaitingIsTimed)
                  /\ RevocationFinal /\ []AttentionIsTrue
BY TerminalParts, TokensApproved, OneDevice, WaitsTimed, RevocationsFinal, AlarmsTrue, PTL
=============================================================================
