----------------------------- MODULE PrintTracking -----------------------------
(***************************************************************************)
(* What the receiver page believes about the tickets it sent to the native *)
(* print service (main.js, boundaries/printerAdapter.js), over what that   *)
(* service promises: the commands move as PrintCommandLifecycle says,      *)
(* which NativePrintQueue implements.                                      *)
(*                                                                         *)
(* The bridge is called synchronously, so a handler of the page runs in    *)
(* one go; but the worker of the service moves on between the dispatch or  *)
(* the retry and the poll of the statuses that ends the handler.           *)
(*                                                                         *)
(* Every change of an entry is written to the local storage at once, with  *)
(* the entries that have a job: what a reload finds there is Hydrated.     *)
(***************************************************************************)
EXTENDS Naturals

CONSTANTS
  Orders,
  Jobs,             \* commands the page may submit; bounds the model
  NoJob,
  JobAttempts,      \* attempts of one command
  MaxPageFaults     \* failed calls of the bridge and reloads; bounds the model

ASSUME TrackingConstants ==
  NoJob \notin Jobs /\ JobAttempts \in Nat \ {0} /\ MaxPageFaults \in Nat

VARIABLES
  command, attempts, printed,   \* the print service
  dispatched,   \* jobs handed out
  tracked,      \* printJobsByOrderId
  mode,         \* "boot", "listed" (boot has yet to reconcile), "loaded",
                \* "error" or "not_paired"
  pollDue,      \* the handler still has to poll
  v2s,          \* the device is a V2s: every error says it is unsuitable
  pageFaults,
  inherited     \* history: orders that show the state of an earlier ticket

service      == <<command, attempts, printed>>
trackingVars == <<service, dispatched, tracked, mode, pollDue, v2s,
                  pageFaults, inherited>>

Queue == INSTANCE PrintCommandLifecycle WITH
           Commands <- Jobs, MaxAttempts <- JobAttempts, state <- command

NoEntry == [job |-> NoJob, native |-> "none", ui |-> "none", blind |-> FALSE,
            blocked |-> FALSE]

\* PRINT_TERMINAL_STATES.
Final(e) == e.native \in {"PRINTED", "NEEDS_ATTENTION"}

\* Mutant of Shown: a state is shown as it is.
ShownAsIs(s) == s

\* normalizePrintUiState, "none" for what it does not know: of the states of
\* the print service it knows two.
Shown(s) == IF s \in {"QUEUED", "NEEDS_ATTENTION"} THEN s ELSE "none"

TrackingInit ==
  /\ Queue!Init
  /\ dispatched = {} /\ tracked = [o \in Orders |-> NoEntry]
  /\ mode = "loaded" /\ pollDue = FALSE /\ v2s \in BOOLEAN
  /\ pageFaults = 0 /\ inherited = {}

PageFault == pageFaults < MaxPageFaults /\ pageFaults' = pageFaults + 1

\* The service works on by itself; it never prints again unless asked.
ServiceMoves ==
  /\ \E j \in Jobs : \/ Queue!Dispatch(j) \/ Queue!PrintCleanly(j)
                     \/ Queue!Accept(j) \/ Queue!Requeue(j) \/ Queue!GiveUp(j)
  /\ UNCHANGED <<dispatched, tracked, mode, pollDue, v2s, pageFaults, inherited>>
-----------------------------------------------------------------------------
\* ensurePrintJobTracking: what is known of an earlier ticket is kept.
Ensured(e, j) ==
  [job |-> j, native |-> IF e.native = "none" THEN "QUEUED" ELSE e.native,
   ui |-> IF e.ui = "none" THEN "QUEUED" ELSE e.ui, blind |-> FALSE,
   blocked |-> FALSE]

Fresh(j) == j \notin dispatched /\ j = (CHOOSE k \in Jobs : k \notin dispatched)

\* printOrderTicket.  A ticket that is not a reprint is refused for fifteen
\* seconds after the last; a reprint never is, and does the same: one action
\* stands for both.  The service answers that the command is accepted even when
\* its insert has failed.
DispatchTicket(o, j) ==
  /\ mode \in {"listed", "loaded"} /\ ~pollDue /\ Fresh(j)
  /\ \/ Queue!Submit(j) /\ UNCHANGED pageFaults
     \/ PageFault /\ UNCHANGED service
  /\ dispatched' = dispatched \cup {j}
  /\ tracked' = [tracked EXCEPT ![o] = Ensured(@, j)]
  /\ inherited' = IF tracked[o].ui \in {"none", "QUEUED"} THEN inherited
                                                     ELSE inherited \cup {o}
  /\ pollDue' = TRUE
  /\ UNCHANGED <<mode, v2s>>

\* printReservationTicket: its command is tracked by no entry.
PrintReservation(j) ==
  /\ mode \in {"listed", "loaded"} /\ ~pollDue /\ Fresh(j)
  /\ Queue!Submit(j) /\ dispatched' = dispatched \cup {j}
  /\ UNCHANGED <<tracked, mode, pollDue, v2s, pageFaults, inherited>>

\* What a status does to an entry; the errors of the service leave it, found
\* or not, with the remark that the status cannot be had.
Read(e) ==
  IF command[e.job] = "ABSENT" THEN [e EXCEPT !.blind = TRUE]
  ELSE [e EXCEPT !.native = command[e.job], !.blind = FALSE,
          !.ui = IF Shown(command[e.job]) = "none" THEN @ ELSE Shown(command[e.job])]

\* The orders whose entries are among those read for os, but show nothing the
\* job itself has said.
StillInherited(os) ==
  {o \in inherited : o \notin os \/ Read(tracked[o]).ui # Shown(command[tracked[o].job])}

\* Mutant of Polled: an entry that could not be read once is left alone.
PolledNotBlind ==
  {o \in Orders : tracked[o].job # NoJob /\ ~Final(tracked[o]) /\ ~tracked[o].blind}

Polled == {o \in Orders : tracked[o].job # NoJob /\ ~Final(tracked[o])}

\* pollPrintStatusesOnce, on its timer or at the end of a handler.
PollStatuses ==
  /\ pollDue \/ mode = "loaded"
  /\ \E unread \in SUBSET Polled :
       /\ IF unread = {} THEN UNCHANGED pageFaults ELSE PageFault
       /\ tracked' = [o \in Orders |->
            CASE o \in unread -> [tracked[o] EXCEPT !.blind = TRUE]
              [] o \in Polled \ unread -> Read(tracked[o])
              [] OTHER -> tracked[o]]
       /\ inherited' = StillInherited(Polled \ unread)
  /\ pollDue' = FALSE
  /\ UNCHANGED <<service, dispatched, mode, v2s>>
-----------------------------------------------------------------------------
\* Mutant of Requeued: only the native state is reset.
RequeuedSilently(e) == [e EXCEPT !.native = "QUEUED", !.blind = FALSE]

\* The entry of a ticket that was put back in the queue.
Requeued(e) == [e EXCEPT !.native = "QUEUED", !.ui = "QUEUED", !.blind = FALSE]

\* applyBlockedPrintState, for an error that names no job.
Blocked == [job |-> NoJob, native |-> "NEEDS_ATTENTION", ui |-> "NEEDS_ATTENTION",
            blind |-> FALSE, blocked |-> TRUE]

\* retry-print.  A command may also need attention and not be retryable.
RetryTicket(o) ==
  LET j == tracked[o].job
  IN  /\ mode \in {"listed", "loaded"} /\ ~pollDue
      /\ j # NoJob /\ tracked[o].ui = "NEEDS_ATTENTION" /\ ~tracked[o].blocked
      /\ \/ /\ Queue!Retry(j)
            /\ tracked' = [tracked EXCEPT ![o] = Requeued(@)]
            /\ inherited' = inherited \ {o}
         \/ /\ tracked' = [tracked EXCEPT ![o] = IF v2s THEN Blocked ELSE @]
            /\ UNCHANGED <<service, inherited>>
      /\ pollDue' = TRUE
      /\ UNCHANGED <<dispatched, mode, v2s, pageFaults>>

\* resetOperationalState, when the session ends.
SessionEnds ==
  /\ mode \in {"boot", "listed", "loaded", "error"} /\ ~pollDue
  /\ mode' = "not_paired"
  /\ tracked' = [o \in Orders |-> NoEntry] /\ inherited' = {}
  /\ UNCHANGED <<service, dispatched, pollDue, v2s, pageFaults>>

\* A list button of an order or a reservation is refused: the receiver is left
\* as resetOperationalState would, but the page keeps its lists.
ReceiverLeft ==
  /\ mode \in {"listed", "loaded"} /\ ~pollDue /\ mode' = "not_paired"
  /\ UNCHANGED <<service, dispatched, tracked, pollDue, v2s, pageFaults, inherited>>

SessionBegins ==
  /\ mode = "not_paired" /\ mode' = "loaded"
  /\ UNCHANGED <<service, dispatched, tracked, pollDue, v2s, pageFaults, inherited>>

\* cleanupStaleTrackedPrintJobs: final entries, when they are old enough.
Kept(entries, old) ==
  [o \in Orders |-> IF o \in old /\ Final(entries[o]) THEN NoEntry ELSE entries[o]]

\* hydratePrintJobTrackingFromStorage; what it shows of a state it does not
\* know is what was shown before.
Hydrated ==
  [o \in Orders |-> IF tracked[o].job = NoJob THEN NoEntry
                    ELSE [tracked[o] EXCEPT !.blind = FALSE]]

ReloadPage ==
  /\ PageFault
  /\ mode' = IF mode = "not_paired" THEN mode ELSE "boot"
  /\ \E old \in SUBSET Orders : tracked' = Kept(Hydrated, old)
  /\ pollDue' = FALSE /\ UNCHANGED <<service, dispatched, v2s, inherited>>

\* The validation of boot: an error screen, whose retry button does not
\* reconcile, or the orders, which then wait for the reconciliation.
BootValidated ==
  /\ mode = "boot" /\ mode' \in {"listed", "error"}
  /\ UNCHANGED <<service, dispatched, tracked, pollDue, v2s, pageFaults, inherited>>

ErrorRetried ==
  /\ mode = "error" /\ mode' = "loaded"
  /\ UNCHANGED <<service, dispatched, tracked, pollDue, v2s, pageFaults, inherited>>

\* reconcilePrintJobTrackingWithNative: every entry, the final ones too.  The
\* service never answers PRINT_JOB_NOT_FOUND, on which an entry is deleted.
Reconcile ==
  /\ mode = "listed" /\ ~pollDue
  /\ LET known == {o \in Orders : tracked[o].job # NoJob}
         fresh == [o \in Orders |-> IF o \in known THEN Read(tracked[o]) ELSE tracked[o]]
     IN  /\ \E old \in SUBSET Orders : tracked' = Kept(fresh, old)
         /\ inherited' = StillInherited(known)
  /\ mode' = "loaded"
  /\ UNCHANGED <<service, dispatched, pollDue, v2s, pageFaults>>
-----------------------------------------------------------------------------
TrackingNext ==
  \/ ServiceMoves
  \/ \E o \in Orders : RetryTicket(o) \/ \E j \in Jobs : DispatchTicket(o, j)
  \/ \E j \in Jobs : PrintReservation(j)
  \/ PollStatuses \/ SessionEnds \/ ReceiverLeft \/ SessionBegins
  \/ ReloadPage \/ BootValidated \/ ErrorRetried \/ Reconcile

TrackingSpec == TrackingInit /\ [][TrackingNext]_trackingVars

\* The timer of the polls runs while the receiver is loaded.
TrackingFairness == WF_trackingVars(PollStatuses)

TrackingFairSpec == TrackingSpec /\ TrackingFairness
-----------------------------------------------------------------------------
TrackingTypeOK ==
  /\ command \in [Jobs -> Queue!States]
  /\ dispatched \subseteq Jobs
  /\ tracked \in [Orders -> [job : Jobs \cup {NoJob}, native : Queue!States \cup {"none"},
                             ui : {"none", "QUEUED", "NEEDS_ATTENTION"},
                             blind : BOOLEAN, blocked : BOOLEAN]]
  /\ mode \in {"boot", "listed", "loaded", "error", "not_paired"}
  /\ pollDue \in BOOLEAN /\ v2s \in BOOLEAN
  /\ pageFaults \in 0..MaxPageFaults /\ inherited \subseteq Orders

\* An order that asks for the operator names a command that needs one: neither
\* retries, reloads nor the reconciliation of boot leave an alarm behind, as
\* long as it is not the alarm of an earlier ticket that a reprint has kept.
AttentionIsTrue ==
  \A o \in Orders :
    tracked[o].ui = "NEEDS_ATTENTION" /\ tracked[o].job # NoJob /\ o \notin inherited
      => command[tracked[o].job] = "NEEDS_ATTENTION"

\* A tracked command that needs attention comes to be shown, whatever calls of
\* the bridge have failed, unless the page leaves the receiver.
AttentionIsShown ==
  \A o \in Orders, j \in Jobs :
    tracked[o].job = j /\ command[j] = "NEEDS_ATTENTION" /\ mode = "loaded"
      ~> \/ tracked[o].job # j \/ command[j] # "NEEDS_ATTENTION" \/ mode # "loaded"
         \/ tracked[o].ui = "NEEDS_ATTENTION"
=============================================================================
