----------------------------- MODULE AttentionQueue -----------------------------
(***************************************************************************)
(* What the attention alerts of the receiver promise, whatever requests    *)
(* are in flight: new records are queued in the order in which they were   *)
(* found, none twice, and an alert leaves the queue only because its       *)
(* record has been handled or because the receiver session is over.        *)
(***************************************************************************)
EXTENDS SequencesExt, SequenceFilter

CONSTANTS Orders, Reservations
Records == Orders \cup Reservations

VARIABLES
  status,  \* what the server holds of each record
  known,   \* records found since the session began, alerted or not
  queue,   \* alerts, first in first out; the first is on the screen
  duty     \* the terminal shows the receiver screen
vars == <<status, known, queue, duty>>

Init ==
  /\ status = [r \in Records |-> "absent"]
  /\ known  = {}
  /\ queue  = <<>>
  /\ duty   = FALSE

\* The storefront's and everybody's part: records arrive and are handled.
Environment ==
  /\ \E r \in Records :
       \/ status[r] = "absent" /\ status' = [status EXCEPT ![r] = "open"]
       \/ status[r] = "open"   /\ status' = [status EXCEPT ![r] = "handled"]
  /\ UNCHANGED <<known, queue, duty>>

\* Records are found; some raise alerts, orders before reservations, and
\* alerts of handled records go.
Find ==
  \E found \in SUBSET {r \in Records \ known : status[r] # "absent"},
     gone \in SUBSET {r \in Records : status[r] = "handled"} :
    \E alerted \in SUBSET found :
      \E o \in SetToSeqs(alerted \cap Orders),
         v \in SetToSeqs(alerted \cap Reservations) :
        /\ known' = known \cup found
        /\ queue' = Filter(queue \o o \o v, Records \ gone)
        /\ UNCHANGED <<status, duty>>

ChangeScreen ==
  /\ duty' \in BOOLEAN
  /\ UNCHANGED <<status, known, queue>>

\* The queue is emptied only on the way to, or on, another screen.
EndSession ==
  /\ queue' = <<>>
  /\ duty'  = FALSE
  /\ known' \in {known, {}}
  /\ UNCHANGED status

Next == Environment \/ Find \/ ChangeScreen \/ EndSession
Spec == Init /\ [][Next]_vars
=============================================================================
