--------------------------- MODULE LegacyPrintQueue ---------------------------
(***************************************************************************)
(* The print queue behind SunmiBridge.printReceipt                         *)
(* (com.alalouche.sunmibridge.printservice): the table print_jobs, whose   *)
(* rows change only by conditional updates along PrintJobState, and the    *)
(* PrintQueueOrchestrator of every live activity with its single-thread    *)
(* executor.  It has no start-up reconciliation and no start-up drain.     *)
(*                                                                         *)
(* updateState reads the row and then runs UPDATE ... WHERE state =        *)
(* expected, so the test that decides is made by the database in the same  *)
(* step as the write: an updateState is one action.                        *)
(***************************************************************************)
EXTENDS Integers

CONSTANTS
  NumJobs,       \* jobs the page prints; bounds the model
  Managers,      \* PrintQueueOrchestrator instances alive at once
  NoManager,
  MaxAttempts    \* DEFAULT_MAX_ATTEMPTS

ASSUME JobsAssumption == NumJobs \in Nat
ASSUME ManagersAssumption == NoManager \notin Managers
ASSUME AttemptsAssumption == MaxAttempts \in Nat \ {0}

Jobs == 1..NumJobs     \* in created_at order
NoJob == 0

VARIABLES
  job,        \* print_jobs: state, attempts and next attempt of each row
  submitted,  \* jobs inserted so far
  up,         \* the process is running
  cur,        \* the orchestrator behind the page's bridge
  draining, pending, pc,   \* per manager, as in NativePrintQueue
  held,       \* per manager: the row as its drain loop read it
  bridge,     \* the manager a bridge call is about to schedule, or NoManager
  fresh,      \* history: jobs queued since the process started
  printed,    \* history: successful executions since the last request, capped
  paper       \* history: tickets that came out since the last request

prints  == <<printed, paper>>
disk    == <<job, submitted, prints>>
threads == <<draining, pending, pc, held>>
vars    == <<disk, up, cur, threads, bridge, fresh>>
-----------------------------------------------------------------------------
States == {"ABSENT", "QUEUED", "PRINTING", "PRINTED", "RETRY_SCHEDULED",
           "NEEDS_ATTENTION"}

Row == [state : States, attempts : 0..MaxAttempts,
        next : {"none", "later", "due"}]

NoRow == [state |-> "ABSENT", attempts |-> 0, next |-> "none"]

\* What a drain loop keeps of the row it read.
HeldRow == [id : Jobs \cup {NoJob}, state : States, attempts : 0..MaxAttempts]
NotHeld == [id |-> NoJob, state |-> "ABSENT", attempts |-> 0]

CanTransition(s, t) ==
  \/ s = t
  \/ s = "QUEUED"          /\ t \in {"PRINTING", "NEEDS_ATTENTION"}
  \/ s = "PRINTING"        /\ t \in {"PRINTED", "RETRY_SCHEDULED",
                                     "NEEDS_ATTENTION"}
  \/ s = "RETRY_SCHEDULED" /\ t \in {"PRINTING", "NEEDS_ATTENTION"}
  \/ s = "NEEDS_ATTENTION" /\ t \in {"QUEUED", "PRINTING"}

\* Mutant of Updates: the update is not conditional on the expected state.
UpdatesAnyway(j, expected, new) == job[j].state # "ABSENT"

\* updateState succeeds.
Updates(j, expected, new) ==
  job[j].state = expected /\ CanTransition(expected, new)

Runnable == {j \in Jobs : job[j].state \in {"QUEUED", "RETRY_SCHEDULED"}
                           /\ job[j].next \in {"none", "due"}}
NextRunnable(j) == j \in Runnable /\ \A i \in Runnable : j <= i

\* Mutant of CanRetry: exhausted jobs go round again.
CanRetryOnceMore(n) == n <= MaxAttempts

\* `active.attemptCount + 1 < active.maxAttempts`, where active was read back
\* after its attempt was counted.
CanRetry(n) == n + 1 < MaxAttempts
-----------------------------------------------------------------------------
Init ==
  /\ job = [j \in Jobs |-> NoRow] /\ submitted = 0
  /\ printed = [j \in Jobs |-> 0] /\ paper = [j \in Jobs |-> 0]
  /\ up = FALSE /\ cur = NoManager /\ bridge = NoManager /\ fresh = {}
  /\ draining = [m \in Managers |-> FALSE]
  /\ pending  = [m \in Managers |-> FALSE]
  /\ pc       = [m \in Managers |-> "idle"]
  /\ held     = [m \in Managers |-> NotHeld]

ScheduleDrain(m) ==
  IF draining[m]
    THEN UNCHANGED <<draining, pending>>
    ELSE /\ draining' = [draining EXCEPT ![m] = TRUE]
         /\ pending'  = [pending EXCEPT ![m] = TRUE]

StartProcess ==
  /\ ~up
  /\ up' = TRUE
  /\ \E m \in Managers : cur' = m
  /\ UNCHANGED <<disk, threads, bridge, fresh>>

\* release() closes the database helper and leaves the executor running; the
\* helper opens again at its next use.
RecreateActivity(m) ==
  /\ up
  /\ pc[m] = "idle" /\ ~pending[m] /\ bridge # m
  /\ cur' = m
  /\ UNCHANGED <<disk, up, threads, bridge, fresh>>

Crash ==
  /\ up
  /\ up' = FALSE /\ cur' = NoManager /\ bridge' = NoManager /\ fresh' = {}
  /\ draining' = [m \in Managers |-> FALSE]
  /\ pending'  = [m \in Managers |-> FALSE]
  /\ pc'       = [m \in Managers |-> "idle"]
  /\ held'     = [m \in Managers |-> NotHeld]
  /\ UNCHANGED disk
-----------------------------------------------------------------------------
BridgeFree == up /\ bridge = NoManager

\* printReceipt: insert, then scheduleDrain.
PrintReceipt ==
  /\ BridgeFree
  /\ submitted < NumJobs
  /\ submitted' = submitted + 1
  /\ job'    = [job EXCEPT ![submitted + 1].state = "QUEUED"]
  /\ fresh'  = fresh \cup {submitted + 1}
  /\ bridge' = cur
  /\ UNCHANGED <<prints, up, cur, threads>>

\* retryPrint: the conditional update, then scheduleDrain.
RetryPrint(j) ==
  /\ BridgeFree
  /\ Updates(j, "NEEDS_ATTENTION", "QUEUED")
  /\ job'     = [job EXCEPT ![j] = [state |-> "QUEUED", attempts |-> 0,
                                    next |-> "none"]]
  /\ printed' = [printed EXCEPT ![j] = 0]
  /\ paper'   = [paper EXCEPT ![j] = 0]
  /\ fresh'   = fresh \cup {j}
  /\ bridge'  = cur
  /\ UNCHANGED <<submitted, up, cur, threads>>

BridgeSchedule ==
  /\ bridge # NoManager
  /\ ScheduleDrain(bridge)
  /\ bridge' = NoManager
  /\ UNCHANGED <<disk, up, cur, pc, held, fresh>>
-----------------------------------------------------------------------------
Goto(m, from, to) == pc[m] = from /\ pc' = [pc EXCEPT ![m] = to]

BeginDrain(m) ==
  /\ pending[m]
  /\ Goto(m, "idle", "query")
  /\ pending' = [pending EXCEPT ![m] = FALSE]
  /\ UNCHANGED <<disk, up, cur, draining, held, bridge, fresh>>

PickJob(m) ==
  /\ Goto(m, "query", "lock")
  /\ \E j \in Jobs :
       /\ NextRunnable(j)
       /\ held' = [held EXCEPT ![m] = [id |-> j, state |-> job[j].state,
                                       attempts |-> job[j].attempts]]
  /\ UNCHANGED <<disk, up, cur, draining, pending, bridge, fresh>>

NothingRunnable(m) ==
  /\ Runnable = {}
  /\ Goto(m, "query", "finish")
  /\ UNCHANGED <<disk, up, cur, draining, pending, held, bridge, fresh>>

\* The conditional update that takes the job, and the row read back: nobody
\* else writes a PRINTING row, so it is what was written.
LockJob(m) ==
  LET h == held[m] IN
  /\ Goto(m, "lock", "execute")
  /\ Updates(h.id, h.state, "PRINTING")
  /\ job'  = [job EXCEPT ![h.id] = [state |-> "PRINTING", next |-> "none",
                                    attempts |-> h.attempts + 1]]
  /\ held' = [held EXCEPT ![m].attempts = @ + 1]
  /\ UNCHANGED <<submitted, prints, up, cur, draining, pending, bridge, fresh>>

\* Someone else took it first: round the loop again.
LockLost(m) ==
  /\ Goto(m, "lock", "query")
  /\ ~Updates(held[m].id, held[m].state, "PRINTING")
  /\ held' = [held EXCEPT ![m] = NotHeld]
  /\ UNCHANGED <<disk, up, cur, draining, pending, bridge, fresh>>

TicketComesOut(j) == paper' = [paper EXCEPT ![j] = @ + 1]

\* The transport prints; or it answers an error or throws, and the ticket may
\* be out all the same: the errors that the service reports are looked at
\* after the text has been sent.  The state to record follows from its answer
\* and from the attempts read before.
Execute(m) ==
  /\ Goto(m, "execute", "record")
  /\ \/ /\ held' = [held EXCEPT ![m].state = "PRINTED"]
        /\ printed' = [printed EXCEPT ![held[m].id] = IF @ < 2 THEN @ + 1 ELSE @]
        /\ TicketComesOut(held[m].id)
     \/ /\ held' = [held EXCEPT ![m].state =
                      IF CanRetry(held[m].attempts) THEN "RETRY_SCHEDULED"
                                                    ELSE "NEEDS_ATTENTION"]
        /\ TicketComesOut(held[m].id) \/ UNCHANGED paper
        /\ UNCHANGED printed
  /\ UNCHANGED <<job, submitted, up, cur, draining, pending, bridge, fresh>>

\* The conditional update that records it.
RecordResult(m) ==
  LET h == held[m] IN
  /\ Goto(m, "record", "query")
  /\ job' = IF Updates(h.id, "PRINTING", h.state)
              THEN [job EXCEPT ![h.id].state = h.state,
                               ![h.id].next = IF h.state = "RETRY_SCHEDULED"
                                                THEN "later" ELSE "none"]
              ELSE job
  /\ held' = [held EXCEPT ![m] = NotHeld]
  /\ UNCHANGED <<submitted, prints, up, cur, draining, pending, bridge, fresh>>

FinishDrain(m) ==
  /\ Goto(m, "finish", "recheck")
  /\ draining' = [draining EXCEPT ![m] = FALSE]
  /\ UNCHANGED <<disk, up, cur, pending, held, bridge, fresh>>

\* Mutant of Recheck: the second look at the table is dropped.
RecheckNothing(m) ==
  /\ Goto(m, "recheck", "idle")
  /\ UNCHANGED <<disk, up, cur, draining, pending, held, bridge, fresh>>

Recheck(m) ==
  /\ Goto(m, "recheck", IF Runnable = {} THEN "idle" ELSE "reschedule")
  /\ UNCHANGED <<disk, up, cur, draining, pending, held, bridge, fresh>>

Reschedule(m) ==
  /\ Goto(m, "reschedule", "idle")
  /\ ScheduleDrain(m)
  /\ UNCHANGED <<disk, up, cur, held, bridge, fresh>>

Worker(m) == \/ BeginDrain(m) \/ PickJob(m) \/ NothingRunnable(m)
             \/ LockJob(m) \/ LockLost(m) \/ Execute(m) \/ RecordResult(m)
             \/ FinishDrain(m) \/ Recheck(m) \/ Reschedule(m)

BackoffElapses(j) ==
  /\ job[j].next = "later"
  /\ job' = [job EXCEPT ![j].next = "due"]
  /\ UNCHANGED <<submitted, prints, up, cur, threads, bridge, fresh>>

Next ==
  \/ StartProcess \/ Crash \/ (\E m \in Managers : RecreateActivity(m))
  \/ PrintReceipt \/ (\E j \in Jobs : RetryPrint(j)) \/ BridgeSchedule
  \/ (\E m \in Managers : Worker(m))
  \/ (\E j \in Jobs : BackoffElapses(j))

Spec == Init /\ [][Next]_vars

\* Fairness as in NativePrintQueue: threads run, time passes, the terminal is
\* started again; crashes, recreations and retries stop.
Disturbance == \/ Crash \/ (\E m \in Managers : RecreateActivity(m))
               \/ (\E j \in Jobs : RetryPrint(j))

Fairness == /\ WF_vars(StartProcess) /\ WF_vars(BridgeSchedule)
            /\ \A m \in Managers : WF_vars(Worker(m))
            /\ \A j \in Jobs : WF_vars(BackoffElapses(j))

FairSpec == Spec /\ Fairness /\ <>[][~Disturbance]_vars
-----------------------------------------------------------------------------
PCs == {"idle", "query", "lock", "execute", "record", "finish", "recheck",
        "reschedule"}

\* Types.
TypeOK ==
  /\ job \in [Jobs -> Row]
  /\ submitted \in 0..NumJobs
  /\ up \in BOOLEAN
  /\ cur \in Managers \cup {NoManager}
  /\ bridge \in Managers \cup {NoManager}
  /\ draining \in [Managers -> BOOLEAN]
  /\ pending \in [Managers -> BOOLEAN]
  /\ pc \in [Managers -> PCs]
  /\ held \in [Managers -> HeldRow]
  /\ fresh \in SUBSET Jobs
  /\ printed \in [Jobs -> 0..2] /\ paper \in [Jobs -> Nat]

Executing(m, j) == pc[m] \in {"execute", "record"} /\ held[m].id = j

\* "Worker locked the job": whatever managers are alive, at most one executes
\* a job, and the row stays PRINTING until that one has recorded the result.
\* The conditional update is what makes this true where NativePrintQueue
\* fails (OneWorkerPerCommand).
OneExecutor ==
  \A j \in Jobs : \A m \in Managers :
    Executing(m, j) => /\ job[j].state = "PRINTING"
                       /\ \A n \in Managers : Executing(n, j) => n = m

\* From one request to the next one execution at most succeeds, a job is shown
\* as printed only after it, and none of a job that waits or failed did.  That
\* is not to say that there is one ticket: an attempt that fails may have
\* brought one out, and is retried.  But every ticket is an attempt that its
\* row counts, whatever managers race for it and wherever one crashes; for the
\* three attempts of the code.  With more, a manager that read the row before
\* an attempt of another one would put the lower count back.
PrintsAreCounted ==
  \A j \in Jobs :
    /\ printed[j] <= 1
    /\ job[j].state = "PRINTED" => printed[j] = 1
    /\ job[j].state \in {"QUEUED", "RETRY_SCHEDULED", "NEEDS_ATTENTION"}
         => printed[j] = 0
    /\ MaxAttempts <= 3 => paper[j] <= job[j].attempts

\* No lost wake-up, but only within one life of the process: a job queued
\* since it started has a drain under way or about to be scheduled.
FreshJobsAreSeen ==
  \A j \in fresh :
    job[j].state = "QUEUED" =>
      \/ bridge # NoManager
      \/ \E m \in Managers : pending[m] \/ pc[m] # "idle"

\* "A job is never shown as ambiguous (e.g., spinner forever)": a job shown
\* as printing eventually is not.  The code breaks this: nothing ever looks
\* at a row that a crash left PRINTING.
PrintingEnds == \A j \in Jobs : job[j].state = "PRINTING" ~>
                                  job[j].state # "PRINTING"
=============================================================================
