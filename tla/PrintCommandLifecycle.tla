------------------------ MODULE PrintCommandLifecycle ------------------------
(***************************************************************************)
(* What the native print service promises about one print command,        *)
(* whatever threads and restarts stand behind it: the states named in      *)
(* NATIVE_PRINT_SERVICE_DECISION.md ("State semantics (strict)") and the   *)
(* moves NativePrintQueueManager makes between them.                       *)
(*                                                                         *)
(* The promise has two parts a caller relies on: a command is printed      *)
(* cleanly at most once for every time an operator asks for it, and it is  *)
(* never reported as accepted unless it was.                               *)
(***************************************************************************)
EXTENDS Integers

CONSTANTS Commands,      \* identifiers of print commands
          MaxAttempts    \* dispatches one request may use

VARIABLES state,         \* the state shown for each command
          attempts,      \* dispatches begun since the last request
          printed        \* clean prints since the last request

vars == <<state, attempts, printed>>

States == {"ABSENT", "QUEUED", "DISPATCHING", "ACCEPTED_BY_NATIVE",
           "PRINTED_IF_CONFIRMABLE", "NEEDS_ATTENTION", "FAILED"}

Init == /\ state    = [c \in Commands |-> "ABSENT"]
        /\ attempts = [c \in Commands |-> 0]
        /\ printed  = [c \in Commands |-> 0]

Submit(c) == /\ state[c] = "ABSENT"
             /\ state' = [state EXCEPT ![c] = "QUEUED"]
             /\ UNCHANGED <<attempts, printed>>

\* The worker takes the command; an attempt is spent.
Dispatch(c) == /\ state[c] = "QUEUED"
               /\ attempts[c] < MaxAttempts
               /\ state'    = [state EXCEPT ![c] = "DISPATCHING"]
               /\ attempts' = [attempts EXCEPT ![c] = @ + 1]
               /\ UNCHANGED printed

\* The printer runs the whole sequence without an error.
PrintCleanly(c) == /\ state[c] = "DISPATCHING"
                   /\ printed[c] = 0
                   /\ printed' = [printed EXCEPT ![c] = 1]
                   /\ UNCHANGED <<state, attempts>>

\* The only way to a success state is through a clean print.
Accept(c) == /\ state[c] = "DISPATCHING"
             /\ printed[c] = 1
             /\ \E s \in {"ACCEPTED_BY_NATIVE", "PRINTED_IF_CONFIRMABLE"} :
                   state' = [state EXCEPT ![c] = s]
             /\ UNCHANGED <<attempts, printed>>

\* An automatic retry: never after a clean print, never over budget.
Requeue(c) == /\ state[c] = "DISPATCHING"
              /\ printed[c] = 0
              /\ attempts[c] < MaxAttempts
              /\ state' = [state EXCEPT ![c] = "QUEUED"]
              /\ UNCHANGED <<attempts, printed>>

\* Handing the command to the operator is always allowed: after an error,
\* or because a restart found it in flight and cannot tell.
GiveUp(c) == /\ state[c] = "DISPATCHING"
             /\ \/ state' = [state EXCEPT ![c] = "NEEDS_ATTENTION"]
                \/ /\ printed[c] = 0
                   /\ state' = [state EXCEPT ![c] = "FAILED"]
             /\ UNCHANGED <<attempts, printed>>

\* The operator asks again: a new request, with a new budget.
Retry(c) == /\ state[c] = "NEEDS_ATTENTION"
            /\ state'    = [state EXCEPT ![c] = "QUEUED"]
            /\ attempts' = [attempts EXCEPT ![c] = 0]
            /\ printed'  = [printed EXCEPT ![c] = 0]

Next == \E c \in Commands :
           Submit(c) \/ Dispatch(c) \/ PrintCleanly(c) \/ Accept(c)
             \/ Requeue(c) \/ GiveUp(c) \/ Retry(c)

Spec == Init /\ [][Next]_vars
=============================================================================
