--------------------------- MODULE NativePrintQueue ---------------------------
(***************************************************************************)
(* The native print queue of the receiver terminal                         *)
(* (com.alalouche.sunmibridge.nativeprint): the table native_print_jobs,   *)
(* the NativePrintQueueManager of every live activity with its             *)
(* single-thread executor, the JavaBridge thread that runs the calls of    *)
(* the web page, the start-up reconciliation and the printer worker.       *)
(*                                                                         *)
(* The table survives the process; everything else dies with it.  A        *)
(* manager is created with the activity, and release() does not stop its   *)
(* executor, so a recreated activity leaves the old drain running beside   *)
(* the new one: Managers is the set of managers that can be alive at once. *)
(*                                                                         *)
(* Time is abstracted to what the queue reads of it: a backed-off row is   *)
(* "later" until its delay has passed and "due" from then on.              *)
(***************************************************************************)
EXTENDS Integers, DispatchReports

CONSTANTS
  NumCommands,   \* commands the page submits; bounds the model
  Managers,      \* NativePrintQueueManager instances alive at once
  NoManager,
  MaxAttempts,   \* DEFAULT_MAX_ATTEMPTS
  PrinterPath    \* ACTIVE_PRINTER_PATH of the build

ASSUME CommandsAssumption == NumCommands \in Nat
ASSUME ManagersAssumption == NoManager \notin Managers
ASSUME AttemptsAssumption == MaxAttempts \in Nat \ {0}
ASSUME PathAssumption ==
  PrinterPath \in {"OFFICIAL_LIBRARY_PATH", "LEGACY_AIDL_PATH"}

\* Commands are numbered in submission order, which is created_at order.
Commands == 1..NumCommands
NoCommand == 0

VARIABLES
  job,        \* native_print_jobs: the row of each command (on disk)
  submitted,  \* commands submitted so far
  up,         \* the process is running
  cur,        \* the manager behind the current page's bridge
  draining,   \* per manager: the AtomicBoolean
  pending,    \* per manager: a drain task waits in its executor
  pc,         \* per manager: where its executor thread is
  cmd,        \* per manager: the command in its drain loop
  row,        \* per manager: its local copy of that command's row
  bridge,     \* the JavaBridge thread: the call it is running
  snap,       \* rows the reconciliation has read and not yet rewritten
  recon,      \* the reconciliation of cur is running
  printed     \* history: clean prints since the operator last asked, capped

disk    == <<job, submitted, printed>>
threads == <<draining, pending, pc, cmd, row>>
vars    == <<disk, up, cur, threads, bridge, snap, recon>>
-----------------------------------------------------------------------------
States == {"ABSENT", "QUEUED", "DISPATCHING", "ACCEPTED_BY_NATIVE",
           "PRINTED_IF_CONFIRMABLE", "NEEDS_ATTENTION", "FAILED"}

Row == [state : States, attempts : 0..MaxAttempts, retryable : BOOLEAN,
        next : {"none", "later", "due"}]

NoRow == [state |-> "ABSENT", attempts |-> 0, retryable |-> FALSE,
          next |-> "none"]

\* The row submitPrintCommand builds.
NewRow == [state |-> "QUEUED", attempts |-> 0, retryable |-> TRUE,
           next |-> "none"]

\* Rows getNextRunnableJob selects from.
Runnable == {c \in Commands : job[c].state = "QUEUED"
                               /\ job[c].next \in {"none", "due"}}

\* The one it returns: ORDER BY created_at_ms ASC LIMIT 1.
NextRunnable(c) == c \in Runnable /\ \A d \in Runnable : c <= d

InFlight(c) == job[c].state = "DISPATCHING"

IdleBridge == [pc |-> "idle", mgr |-> NoManager, cmd |-> NoCommand,
               row |-> NoRow]
-----------------------------------------------------------------------------
\* What a dispatch may report on the path of the build.
Reports == IF PrinterPath = "OFFICIAL_LIBRARY_PATH" THEN OfficialReports
                                                    ELSE LegacyReports

\* Mutant of Verdict: the budget compared with <= instead of <.
VerdictOverBudget(n, rep) ==
  IF rep.accepted THEN "ACCEPTED_BY_NATIVE"
  ELSE IF rep.retryable /\ n <= MaxAttempts THEN "QUEUED"
  ELSE "NEEDS_ATTENTION"

\* The `when` over the report: the state a dispatch leaves the job in after
\* its n-th attempt, first match wins.
Verdict(n, rep) ==
  IF rep.accepted /\ rep.completed /\ rep.confirmed
    THEN "PRINTED_IF_CONFIRMABLE"
  ELSE IF rep.accepted /\ rep.attempted THEN "ACCEPTED_BY_NATIVE"
  ELSE IF rep.retryable /\ n < MaxAttempts THEN "QUEUED"
  ELSE IF rep.retryable \/ rep.attempted \/ rep.entered THEN "NEEDS_ATTENTION"
  ELSE "FAILED"

\* The row persisted for that verdict; a requeued row backs off.
Outcome(r, rep) ==
  LET s == Verdict(r.attempts, rep)
  IN  [state     |-> s,
       attempts  |-> r.attempts,
       retryable |-> s \in {"QUEUED", "NEEDS_ATTENTION"},
       next      |-> IF s = "QUEUED" THEN "later" ELSE "none"]
-----------------------------------------------------------------------------
Init ==
  /\ job       = [c \in Commands |-> NoRow]
  /\ submitted = 0
  /\ up        = FALSE
  /\ cur       = NoManager
  /\ draining  = [m \in Managers |-> FALSE]
  /\ pending   = [m \in Managers |-> FALSE]
  /\ pc        = [m \in Managers |-> "idle"]
  /\ cmd       = [m \in Managers |-> NoCommand]
  /\ row       = [m \in Managers |-> NoRow]
  /\ bridge    = IdleBridge
  /\ snap      = [c \in Commands |-> NoRow]
  /\ recon     = FALSE
  /\ printed   = [c \in Commands |-> 0]

(***************************************************************************)
(* scheduleDrain of manager m: the compare-and-set, then the executor.     *)
(***************************************************************************)
ScheduleDrain(m) ==
  IF draining[m]
    THEN UNCHANGED <<draining, pending>>
    ELSE /\ draining' = [draining EXCEPT ![m] = TRUE]
         /\ pending'  = [pending EXCEPT ![m] = TRUE]
-----------------------------------------------------------------------------
(***************************************************************************)
(* Activity and process lifecycle.                                         *)
(***************************************************************************)
ExecutorIdle(m) == pc[m] = "idle" /\ ~pending[m]

\* Mutant of ConstructManager: DISPATCHING rows are not read.
ConstructWithoutReconcile(m) ==
  cur' = m /\ snap' = [c \in Commands |-> NoRow] /\ recon' = TRUE

\* A manager is constructed and reconcileUnfinishedOnStartup reads the rows
\* found DISPATCHING.
ConstructManager(m) ==
  /\ cur'   = m
  /\ snap'  = [c \in Commands |-> IF InFlight(c) THEN job[c] ELSE NoRow]
  /\ recon' = TRUE

StartProcess ==
  /\ ~up
  /\ up' = TRUE
  /\ \E m \in Managers : ConstructManager(m)
  /\ UNCHANGED <<disk, threads, bridge>>

\* The activity is destroyed and created again in the same process.  The old
\* manager's executor and a bridge call in flight go on.
RecreateActivity(m) ==
  /\ up /\ ~recon
  /\ ExecutorIdle(m) /\ bridge.mgr # m
  /\ ConstructManager(m)
  /\ UNCHANGED <<disk, up, threads, bridge>>

\* The process is killed or crashes between any two steps.
Crash ==
  /\ up
  /\ up'       = FALSE
  /\ cur'      = NoManager
  /\ draining' = [m \in Managers |-> FALSE]
  /\ pending'  = [m \in Managers |-> FALSE]
  /\ pc'       = [m \in Managers |-> "idle"]
  /\ cmd'      = [m \in Managers |-> NoCommand]
  /\ row'      = [m \in Managers |-> NoRow]
  /\ bridge'   = IdleBridge
  /\ snap'     = [c \in Commands |-> NoRow]
  /\ recon'    = FALSE
  /\ UNCHANGED disk

\* Mutant of ReconcileJob: an in-flight job is put back in the queue.
ReconcileRequeues(c) ==
  /\ recon /\ snap[c].state = "DISPATCHING"
  /\ job'  = [job EXCEPT ![c] = [snap[c] EXCEPT !.state = "QUEUED",
                !.attempts = @ - 1, !.next = "none"]]
  /\ snap' = [snap EXCEPT ![c] = NoRow]
  /\ UNCHANGED <<submitted, printed, up, cur, threads, bridge, recon>>

\* One round of the reconciliation loop: the whole row, as it was read.
ReconcileJob(c) ==
  /\ recon
  /\ snap[c].state = "DISPATCHING"
  /\ \A d \in Commands : snap[d].state = "DISPATCHING" => c <= d
  /\ job'  = [job EXCEPT ![c] =
                [snap[c] EXCEPT !.state = "NEEDS_ATTENTION",
                                !.retryable = TRUE, !.next = "none"]]
  /\ snap' = [snap EXCEPT ![c] = NoRow]
  /\ UNCHANGED <<submitted, printed, up, cur, threads, bridge, recon>>

\* Mutant of ReconcileResume: queued rows are left for the next submission.
ReconcileForgetsQueue ==
  /\ recon /\ \A c \in Commands : snap[c].state # "DISPATCHING"
  /\ recon' = FALSE
  /\ UNCHANGED <<disk, up, cur, threads, bridge, snap>>

\* Its end: queued rows, backed off or not, make it schedule a drain.
ReconcileResume ==
  /\ recon
  /\ \A c \in Commands : snap[c].state # "DISPATCHING"
  /\ recon' = FALSE
  /\ IF \E c \in Commands : job[c].state = "QUEUED"
       THEN ScheduleDrain(cur)
       ELSE UNCHANGED <<draining, pending>>
  /\ UNCHANGED <<disk, up, cur, pc, cmd, row, bridge, snap>>
-----------------------------------------------------------------------------
(***************************************************************************)
(* Calls of the page, one at a time on the JavaBridge thread.              *)
(***************************************************************************)
BridgeFree == up /\ ~recon /\ bridge.pc = "idle"

\* submitPrintCommand: enqueue inserts the row and goes on to scheduleDrain,
\* or the insert fails and enqueue returns without scheduling.
SubmitPrintCommand ==
  /\ BridgeFree
  /\ submitted < NumCommands
  /\ submitted' = submitted + 1
  /\ \/ /\ job'    = [job EXCEPT ![submitted + 1] = NewRow]
        /\ bridge' = [IdleBridge EXCEPT !.pc = "schedule", !.mgr = cur]
     \/ UNCHANGED <<job, bridge>>
  /\ UNCHANGED <<printed, up, cur, threads, snap, recon>>

\* Mutant of RetryRead: any finished command can be retried.
RetryReadAny(c) ==
  /\ BridgeFree /\ job[c].state \in {"NEEDS_ATTENTION", "ACCEPTED_BY_NATIVE"}
  /\ bridge' = [pc |-> "write", mgr |-> cur, cmd |-> c, row |-> job[c]]
  /\ UNCHANGED <<disk, up, cur, threads, snap, recon>>

\* retry reads the row and goes on only if an operator may retry it.
RetryRead(c) ==
  /\ BridgeFree
  /\ job[c].state = "NEEDS_ATTENTION"
  /\ job[c].retryable
  /\ bridge' = [pc |-> "write", mgr |-> cur, cmd |-> c, row |-> job[c]]
  /\ UNCHANGED <<disk, up, cur, threads, snap, recon>>

RetryWrite ==
  /\ bridge.pc = "write"
  /\ job' = [job EXCEPT ![bridge.cmd] =
               [bridge.row EXCEPT !.state = "QUEUED", !.attempts = 0,
                                  !.next = "none"]]
  /\ printed' = [printed EXCEPT ![bridge.cmd] = 0]
  /\ bridge'  = [IdleBridge EXCEPT !.pc = "schedule", !.mgr = bridge.mgr]
  /\ UNCHANGED <<submitted, up, cur, threads, snap, recon>>

BridgeSchedule ==
  /\ bridge.pc = "schedule"
  /\ ScheduleDrain(bridge.mgr)
  /\ bridge' = IdleBridge
  /\ UNCHANGED <<disk, up, cur, pc, cmd, row, snap, recon>>
-----------------------------------------------------------------------------
(***************************************************************************)
(* The executor thread of manager m.                                       *)
(***************************************************************************)
Goto(m, from, to) == pc[m] = from /\ pc' = [pc EXCEPT ![m] = to]

BeginDrain(m) ==
  /\ pending[m]
  /\ Goto(m, "idle", "query")
  /\ pending' = [pending EXCEPT ![m] = FALSE]
  /\ UNCHANGED <<disk, up, cur, draining, cmd, row, bridge, snap, recon>>

\* getNextRunnableJob finds a row; the copy to persist is made from it.
PickJob(m) ==
  /\ Goto(m, "query", "mark")
  /\ \E c \in Commands :
       /\ NextRunnable(c)
       /\ cmd' = [cmd EXCEPT ![m] = c]
       /\ row' = [row EXCEPT ![m] =
                    [job[c] EXCEPT !.state = "DISPATCHING",
                                   !.attempts = @ + 1]]
  /\ UNCHANGED <<disk, up, cur, draining, pending, bridge, snap, recon>>

\* It finds none: drainLoop returns.
NothingRunnable(m) ==
  /\ Runnable = {}
  /\ Goto(m, "query", "finish")
  /\ UNCHANGED <<disk, up, cur, draining, pending, cmd, row, bridge, snap,
                 recon>>

MarkDispatching(m) ==
  /\ Goto(m, "mark", "dispatch")
  /\ job' = [job EXCEPT ![cmd[m]] = row[m]]
  /\ UNCHANGED <<submitted, printed, up, cur, draining, pending, cmd, row,
                 bridge, snap, recon>>

\* worker.dispatch: the paper comes out before anything is written down.
Dispatch(m) ==
  /\ Goto(m, "dispatch", "persist")
  /\ \E rep \in Reports :
       /\ row' = [row EXCEPT ![m] = Outcome(@, rep)]
       /\ printed' = IF rep.accepted /\ printed[cmd[m]] < 2
                       THEN [printed EXCEPT ![cmd[m]] = @ + 1] ELSE printed
  /\ UNCHANGED <<job, submitted, up, cur, draining, pending, cmd, bridge,
                 snap, recon>>

\* The result is persisted over the row, whatever the row has become.
PersistResult(m) ==
  /\ Goto(m, "persist", "query")
  /\ job' = [job EXCEPT ![cmd[m]] = row[m]]
  /\ cmd' = [cmd EXCEPT ![m] = NoCommand]
  /\ row' = [row EXCEPT ![m] = NoRow]
  /\ UNCHANGED <<submitted, printed, up, cur, draining, pending, bridge, snap,
                 recon>>

\* Mutant of FinishDrain: the flag is never cleared.
FinishWithoutClear(m) ==
  /\ Goto(m, "finish", "recheck")
  /\ UNCHANGED <<disk, up, cur, draining, pending, cmd, row, bridge, snap,
                 recon>>

\* Mutant of Recheck: the second look at the table is dropped.
RecheckNothing(m) ==
  /\ Goto(m, "recheck", "idle")
  /\ UNCHANGED <<disk, up, cur, draining, pending, cmd, row, bridge, snap,
                 recon>>

\* The finally block: clear the flag, look once more, schedule if needed.
FinishDrain(m) ==
  /\ Goto(m, "finish", "recheck")
  /\ draining' = [draining EXCEPT ![m] = FALSE]
  /\ UNCHANGED <<disk, up, cur, pending, cmd, row, bridge, snap, recon>>

Recheck(m) ==
  /\ Goto(m, "recheck", IF Runnable = {} THEN "idle" ELSE "reschedule")
  /\ UNCHANGED <<disk, up, cur, draining, pending, cmd, row, bridge, snap,
                 recon>>

Reschedule(m) ==
  /\ Goto(m, "reschedule", "idle")
  /\ ScheduleDrain(m)
  /\ UNCHANGED <<disk, up, cur, cmd, row, bridge, snap, recon>>

Worker(m) == \/ BeginDrain(m) \/ PickJob(m) \/ NothingRunnable(m)
             \/ MarkDispatching(m) \/ Dispatch(m) \/ PersistResult(m)
             \/ FinishDrain(m) \/ Recheck(m) \/ Reschedule(m)
-----------------------------------------------------------------------------
\* RETRY_BACKOFF_MS pass.  Nothing in the process is told.
BackoffElapses(c) ==
  /\ job[c].next = "later"
  /\ job' = [job EXCEPT ![c].next = "due"]
  /\ UNCHANGED <<submitted, printed, up, cur, threads, bridge, snap, recon>>

Next ==
  \/ StartProcess \/ Crash \/ (\E m \in Managers : RecreateActivity(m))
  \/ (\E c \in Commands : ReconcileJob(c)) \/ ReconcileResume
  \/ SubmitPrintCommand \/ (\E c \in Commands : RetryRead(c))
  \/ RetryWrite \/ BridgeSchedule
  \/ (\E m \in Managers : Worker(m))
  \/ (\E c \in Commands : BackoffElapses(c))

Spec == Init /\ [][Next]_vars

(***************************************************************************)
(* Fairness.  The executor, the JavaBridge thread and the UI thread run    *)
(* what they were given, a dispatch returns (its waits have timeouts, the  *)
(* printer calls are assumed to return), time passes, and the terminal is  *)
(* started again after a crash.  Nobody is obliged to press a button, and  *)
(* crashes, recreations and retries are assumed to stop: a process that    *)
(* dies again and again prints nothing.                                    *)
(***************************************************************************)
Disturbance == \/ Crash \/ (\E m \in Managers : RecreateActivity(m))
               \/ (\E c \in Commands : RetryRead(c))

Fairness ==
  /\ WF_vars(StartProcess)
  /\ WF_vars(ReconcileResume) /\ WF_vars(\E c \in Commands : ReconcileJob(c))
  /\ WF_vars(RetryWrite) /\ WF_vars(BridgeSchedule)
  /\ \A m \in Managers : WF_vars(Worker(m))
  /\ \A c \in Commands : WF_vars(BackoffElapses(c))

FairSpec == Spec /\ Fairness /\ <>[][~Disturbance]_vars
-----------------------------------------------------------------------------
PCs == {"idle", "query", "mark", "dispatch", "persist", "finish", "recheck",
        "reschedule"}

\* Types.  The bound on attempts in Row is part of it: no dispatch is ever
\* begun beyond MaxAttempts, across automatic retries, operator retries and
\* restarts.
TypeOK ==
  /\ job \in [Commands -> Row]
  /\ submitted \in 0..NumCommands
  /\ up \in BOOLEAN
  /\ cur \in Managers \cup {NoManager}
  /\ draining \in [Managers -> BOOLEAN]
  /\ pending \in [Managers -> BOOLEAN]
  /\ pc \in [Managers -> PCs]
  /\ cmd \in [Managers -> Commands \cup {NoCommand}]
  /\ row \in [Managers -> Row]
  /\ bridge \in [pc : {"idle", "write", "schedule"},
                 mgr : Managers \cup {NoManager},
                 cmd : Commands \cup {NoCommand}, row : Row]
  /\ snap \in [Commands -> Row]
  /\ recon \in BOOLEAN
  /\ printed \in [Commands -> 0..2]

\* Someone who has yet to look at the table after this moment.
DrainComing ==
  \/ \E m \in Managers : pending[m] \/ pc[m] # "idle"
  \/ bridge.pc = "schedule"
  \/ recon

\* No lost wake-up: while the process runs, a queued job that is not backed
\* off always has a drain under way or about to be scheduled, although
\* scheduleDrain does nothing when the draining flag is already set.
NoLostWakeup ==
  \A c \in Commands :
    up /\ job[c].state = "QUEUED" /\ job[c].next = "none" => DrainComing

\* Worker m is executing command c.
Owns(m, c) == pc[m] \in {"dispatch", "persist"} /\ cmd[m] = c

\* "DISPATCHING: worker owns command execution": a row found DISPATCHING in a
\* running process has a live worker that will write its result, or is about
\* to be handed to the operator by the reconciliation.  No job is left
\* DISPATCHING by a crash, a recreated activity or an overwritten row.
WorkerOwnsDispatching ==
  \A c \in Commands :
    up /\ InFlight(c) => \/ \E m \in Managers : Owns(m, c)
                         \/ recon /\ snap[c].state = "DISPATCHING"

\* One clean print per request: from one submission or operator retry to the
\* next the printer runs the whole receipt without error at most once, a job
\* shown as accepted was printed exactly once, and one that was printed is
\* never queued again by itself -- whatever crashes fall between the paper
\* coming out and the row being written.
PrintedOncePerRequest ==
  \A c \in Commands :
    /\ printed[c] <= 1
    /\ job[c].state = "ACCEPTED_BY_NATIVE" => printed[c] = 1
    /\ job[c].state = "QUEUED" => printed[c] = 0

\* The queue implements the life cycle promised for each command.
Lifecycle == INSTANCE PrintCommandLifecycle WITH
               state    <- [c \in Commands |-> job[c].state],
               attempts <- [c \in Commands |-> job[c].attempts]
ImplementsLifecycle == Lifecycle!Spec

\* Every command that waits for nothing but the queue is served: a job queued
\* without back-off, or being dispatched when the process died, leaves those
\* states.
Waiting(c) == \/ InFlight(c)
              \/ job[c].state = "QUEUED" /\ job[c].next = "none"
EveryCommandServed == \A c \in Commands : Waiting(c) ~> ~Waiting(c)

\* "`QUEUED` jobs are resumed": no job stays queued for ever, a backed-off
\* automatic retry included.  The code breaks this: nothing wakes the queue
\* when the delay has passed.
QueuedJobsAreResumed ==
  \A c \in Commands : job[c].state = "QUEUED" ~> job[c].state # "QUEUED"

\* "Deterministic single-thread queue drain": a command is executed by one
\* worker at a time.  The code breaks this when the activity is recreated
\* while the old manager drains.
OneWorkerPerCommand ==
  \A c \in Commands : \A m, n \in Managers : Owns(m, c) /\ Owns(n, c) => m = n
=============================================================================
