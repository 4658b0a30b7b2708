------------------------ MODULE LegacyPrintQueueProofs ------------------------
(***************************************************************************)
(* Proofs about the legacy path: about LegacyPrintQueue, for any number of *)
(* jobs, attempts and live managers, about ReceiptTransport, for any       *)
(* number of managers, strategies and failed calls, and about the instance *)
(* that TLC checks the two in.                                             *)
(***************************************************************************)
EXTENDS MCLegacyPrintQueue, TLAPS

USE JobsAssumption, ManagersAssumption, AttemptsAssumption DEF prints

-----------------------------------------------------------------------------
(***************************************************************************)
(* The inductive invariant, in named parts.                                *)
(***************************************************************************)
Busy == {"lock", "execute", "record"}

\* What a thread holds between its steps.
HeldInv ==
  /\ up => cur \in Managers
  /\ \A j \in Jobs : j > submitted => job[j] = NoRow
  /\ \A m \in Managers :
       /\ pc[m] \in Busy => held[m].id \in Jobs
       /\ pc[m] = "lock" => held[m].state \in {"QUEUED", "RETRY_SCHEDULED"}
       /\ pc[m] = "record" => held[m].state \in {"PRINTED", "RETRY_SCHEDULED",
                                                "NEEDS_ATTENTION"}

\* A job that may be taken has an attempt left, also as a thread read it.
BudgetInv ==
  /\ \A j \in Jobs : job[j].state \in {"QUEUED", "RETRY_SCHEDULED"}
                      => job[j].attempts < MaxAttempts
  /\ \A m \in Managers :
       /\ pc[m] = "lock" => held[m].attempts < MaxAttempts
       /\ pc[m] \in {"execute", "record"} =>
            held[m].attempts = job[held[m].id].attempts
       /\ pc[m] = "record" /\ held[m].state = "RETRY_SCHEDULED" =>
            held[m].attempts < MaxAttempts

\* How many executions of the current request have succeeded, at each point
\* of the loop.
PaperInv ==
  /\ \A j \in Jobs :
       /\ printed[j] \in {0, 1}
       /\ job[j].state = "PRINTED" => printed[j] = 1
       /\ job[j].state \notin {"PRINTING", "PRINTED"} => printed[j] = 0
  /\ \A m \in Managers :
       /\ pc[m] = "execute" => printed[held[m].id] = 0
       /\ pc[m] = "record" => printed[held[m].id] =
                                 IF held[m].state = "PRINTED" THEN 1 ELSE 0

\* The tickets on paper against the attempts counted.  With three attempts a
\* job waits for its first one with none counted, or for its second one with
\* one counted: so the count that a thread read with the state that its update
\* expects is the one in the row.
CountInv ==
  MaxAttempts <= 3 =>
    /\ \A j \in Jobs :
         /\ paper[j] <= job[j].attempts
         /\ job[j].state = "QUEUED" => job[j].attempts = 0
         /\ job[j].state = "RETRY_SCHEDULED" => job[j].attempts = 1
    /\ \A m \in Managers :
         /\ pc[m] = "lock" =>
              /\ held[m].state = "QUEUED" => held[m].attempts = 0
              /\ held[m].state = "RETRY_SCHEDULED" => held[m].attempts = 1
         /\ pc[m] = "execute" => paper[held[m].id] < job[held[m].id].attempts
         /\ pc[m] = "record" /\ held[m].state = "RETRY_SCHEDULED" =>
              held[m].attempts = 1

QueueInv == /\ TypeOK /\ HeldInv /\ OneExecutor /\ BudgetInv /\ PaperInv
            /\ CountInv
-----------------------------------------------------------------------------
LEMMA RowConstants == NoRow \in Row
BY DEF NoRow, Row, States

LEMMA HeldConstants == NotHeld \in HeldRow
BY DEF NotHeld, HeldRow, States

LEMMA QueueInit == Init => QueueInv
<1> SUFFICES ASSUME Init PROVE QueueInv
  OBVIOUS
<1>1. TypeOK
  <2>1. job \in [Jobs -> Row]
    BY RowConstants DEF Init
  <2>2. held \in [Managers -> HeldRow]
    BY HeldConstants DEF Init
  <2>3. /\ submitted \in 0..NumJobs /\ printed \in [Jobs -> 0..2]
        /\ paper \in [Jobs -> Nat]
    BY DEF Init
  <2> QED
    BY <2>1, <2>2, <2>3 DEF Init, TypeOK, PCs
<1>2. HeldInv /\ OneExecutor /\ BudgetInv
  BY DEF Init, HeldInv, OneExecutor, Executing, BudgetInv, NoRow, Busy
<1>3. PaperInv /\ CountInv
  BY DEF Init, PaperInv, CountInv, NoRow
<1> QED
  BY <1>1, <1>2, <1>3 DEF QueueInv

-----------------------------------------------------------------------------
LEMMA TypeStep == QueueInv /\ [Next]_vars => TypeOK'
<1> SUFFICES ASSUME QueueInv, [Next]_vars PROVE TypeOK'
  OBVIOUS
<1>0. TypeOK /\ HeldInv /\ OneExecutor /\ BudgetInv /\ PaperInv /\ CountInv
  BY DEF QueueInv
<1>1. ASSUME StartProcess PROVE TypeOK'
  BY <1>1, <1>0 DEF TypeOK, PCs, HeldRow, Row, States, StartProcess, disk,
     threads
<1>2. ASSUME Crash PROVE TypeOK'
  BY <1>2, <1>0, HeldConstants DEF TypeOK, PCs, Crash, disk
<1>3. ASSUME NEW m \in Managers, RecreateActivity(m) PROVE TypeOK'
  BY <1>3, <1>0 DEF TypeOK, PCs, HeldRow, Row, States, RecreateActivity,
     disk, threads
<1>4. ASSUME PrintReceipt PROVE TypeOK'
  <2>1. submitted + 1 \in Jobs /\ submitted' \in 0..NumJobs
    BY <1>4, <1>0 DEF TypeOK, PrintReceipt, Jobs
  <2>2. job' \in [Jobs -> Row]
    BY <1>4, <1>0, <2>1 DEF TypeOK, PrintReceipt, Row, States
  <2> QED
    BY <1>4, <1>0, <2>1, <2>2 DEF TypeOK, PrintReceipt, threads
<1>5. ASSUME NEW j \in Jobs, RetryPrint(j) PROVE TypeOK'
  BY <1>5, <1>0 DEF TypeOK, PCs, HeldRow, Row, States, RetryPrint, threads,
     BridgeFree, HeldInv
<1>6. ASSUME BridgeSchedule PROVE TypeOK'
  BY <1>6, <1>0 DEF TypeOK, PCs, HeldRow, Row, States, BridgeSchedule,
     ScheduleDrain, disk
<1>7. ASSUME NEW m \in Managers, BeginDrain(m) PROVE TypeOK'
  BY <1>7, <1>0 DEF TypeOK, PCs, HeldRow, Row, States, BeginDrain, Goto, disk
<1>8. ASSUME NEW m \in Managers, PickJob(m) PROVE TypeOK'
  BY <1>8, <1>0 DEF TypeOK, PCs, HeldRow, Row, States, PickJob, Goto, disk,
     NextRunnable, Runnable
<1>9. ASSUME NEW m \in Managers, NothingRunnable(m) PROVE TypeOK'
  BY <1>9, <1>0 DEF TypeOK, PCs, HeldRow, Row, States, NothingRunnable, Goto,
     disk
<1>10. ASSUME NEW m \in Managers, LockJob(m) PROVE TypeOK'
  BY <1>10, <1>0 DEF TypeOK, PCs, HeldRow, Row, States, LockJob, Goto,
     Updates, HeldInv, BudgetInv, Busy
<1>11. ASSUME NEW m \in Managers, LockLost(m) PROVE TypeOK'
  BY <1>11, <1>0 DEF TypeOK, PCs, HeldRow, Row, States, LockLost, Goto, disk,
     NotHeld, HeldInv
<1>12. ASSUME NEW m \in Managers, Execute(m) PROVE TypeOK'
  <2>1. held[m].id \in Jobs /\ held[m] \in HeldRow
    BY <1>12, <1>0 DEF TypeOK, HeldInv, Busy, Execute, Goto
  <2>2. held' \in [Managers -> HeldRow]
    <3>1. \A s \in States : [held[m] EXCEPT !.state = s] \in HeldRow
      BY <2>1 DEF HeldRow
    <3>2. \E s \in States : held' = [held EXCEPT ![m].state = s]
      BY <1>12 DEF Execute, States
    <3>3. PICK s \in States : held' = [held EXCEPT ![m] = [held[m] EXCEPT !.state = s]]
      BY <3>2
    <3> QED
      BY <1>0, <3>1, <3>3 DEF TypeOK
  <2>3. printed' \in [Jobs -> 0..2]
    <3>1. printed[held[m].id] \in 0..2
      BY <1>0, <2>1 DEF TypeOK
    <3>2. (IF printed[held[m].id] < 2 THEN printed[held[m].id] + 1
                                      ELSE printed[held[m].id]) \in 0..2
      BY <3>1
    <3> QED
      BY <1>12, <1>0, <3>2 DEF TypeOK, Execute
  <2>4. paper' \in [Jobs -> Nat]
    <3>1. paper[held[m].id] + 1 \in Nat
      BY <1>0, <2>1 DEF TypeOK
    <3>2. paper' = [paper EXCEPT ![held[m].id] = paper[held[m].id] + 1] \/ paper' = paper
      BY <1>12 DEF Execute, TicketComesOut
    <3> QED
      BY <1>0, <3>1, <3>2 DEF TypeOK
  <2> QED
    BY <1>12, <1>0, <2>2, <2>3, <2>4 DEF TypeOK, PCs, Execute, Goto
<1>13. ASSUME NEW m \in Managers, RecordResult(m) PROVE TypeOK'
  BY <1>13, <1>0 DEF TypeOK, PCs, HeldRow, Row, States, RecordResult, Goto,
     Updates, NotHeld, HeldInv, Busy
<1>14. ASSUME NEW m \in Managers, FinishDrain(m) PROVE TypeOK'
  BY <1>14, <1>0 DEF TypeOK, PCs, HeldRow, Row, States, FinishDrain, Goto,
     disk
<1>15. ASSUME NEW m \in Managers, Recheck(m) PROVE TypeOK'
  BY <1>15, <1>0 DEF TypeOK, PCs, HeldRow, Row, States, Recheck, Goto, disk
<1>16. ASSUME NEW m \in Managers, Reschedule(m) PROVE TypeOK'
  BY <1>16, <1>0 DEF TypeOK, PCs, HeldRow, Row, States, Reschedule, Goto,
     ScheduleDrain, disk
<1>17. ASSUME NEW j \in Jobs, BackoffElapses(j) PROVE TypeOK'
  BY <1>17, <1>0 DEF TypeOK, PCs, HeldRow, Row, States, BackoffElapses,
     threads
<1>18. CASE UNCHANGED vars
  BY <1>0, <1>18 DEF TypeOK, PCs, HeldRow, Row, States, vars, disk, threads
<1> QED
  BY <1>1, <1>2, <1>3, <1>4, <1>5, <1>6, <1>7, <1>8, <1>9, <1>10, <1>11,
     <1>12, <1>13, <1>14, <1>15, <1>16, <1>17, <1>18 DEF Next, Worker
-----------------------------------------------------------------------------
LEMMA HeldStep == QueueInv /\ [Next]_vars => HeldInv'
<1> SUFFICES ASSUME QueueInv, [Next]_vars PROVE HeldInv'
  OBVIOUS
<1>0. TypeOK /\ HeldInv /\ OneExecutor /\ BudgetInv /\ PaperInv /\ CountInv
  BY DEF QueueInv
<1>1. ASSUME StartProcess PROVE HeldInv'
  BY <1>1, <1>0 DEF HeldInv, TypeOK, Busy, StartProcess, disk, threads
<1>2. ASSUME Crash PROVE HeldInv'
  BY <1>2, <1>0 DEF HeldInv, TypeOK, Busy, Crash, disk, NotHeld
<1>3. ASSUME NEW m \in Managers, RecreateActivity(m) PROVE HeldInv'
  BY <1>3, <1>0 DEF HeldInv, TypeOK, Busy, RecreateActivity, disk, threads
<1>4. ASSUME PrintReceipt PROVE HeldInv'
  BY <1>4, <1>0 DEF HeldInv, TypeOK, Busy, PrintReceipt, threads, Jobs
<1>5. ASSUME NEW j \in Jobs, RetryPrint(j) PROVE HeldInv'
  BY <1>5, <1>0 DEF HeldInv, TypeOK, Busy, RetryPrint, threads, Updates,
     NoRow
<1>6. ASSUME BridgeSchedule PROVE HeldInv'
  BY <1>6, <1>0 DEF HeldInv, TypeOK, Busy, BridgeSchedule, ScheduleDrain,
     disk
<1>7. ASSUME NEW m \in Managers, BeginDrain(m) PROVE HeldInv'
  BY <1>7, <1>0 DEF HeldInv, TypeOK, Busy, BeginDrain, Goto, disk
<1>8. ASSUME NEW m \in Managers, PickJob(m) PROVE HeldInv'
  BY <1>8, <1>0 DEF HeldInv, TypeOK, Busy, PickJob, Goto, disk, NextRunnable,
     Runnable
<1>9. ASSUME NEW m \in Managers, NothingRunnable(m) PROVE HeldInv'
  BY <1>9, <1>0 DEF HeldInv, TypeOK, Busy, NothingRunnable, Goto, disk
<1>10. ASSUME NEW m \in Managers, LockJob(m) PROVE HeldInv'
  BY <1>10, <1>0 DEF HeldInv, TypeOK, Busy, LockJob, Goto, Updates, NoRow
<1>11. ASSUME NEW m \in Managers, LockLost(m) PROVE HeldInv'
  BY <1>11, <1>0 DEF HeldInv, TypeOK, Busy, LockLost, Goto, disk
<1>12. ASSUME NEW m \in Managers, Execute(m) PROVE HeldInv'
  BY <1>12, <1>0 DEF HeldInv, TypeOK, Busy, Execute, Goto, HeldRow
<1>13. ASSUME NEW m \in Managers, RecordResult(m) PROVE HeldInv'
  BY <1>13, <1>0 DEF HeldInv, TypeOK, Busy, RecordResult, Goto, Updates,
     NoRow, OneExecutor, Executing
<1>14. ASSUME NEW m \in Managers, FinishDrain(m) PROVE HeldInv'
  BY <1>14, <1>0 DEF HeldInv, TypeOK, Busy, FinishDrain, Goto, disk
<1>15. ASSUME NEW m \in Managers, Recheck(m) PROVE HeldInv'
  BY <1>15, <1>0 DEF HeldInv, TypeOK, Busy, Recheck, Goto, disk
<1>16. ASSUME NEW m \in Managers, Reschedule(m) PROVE HeldInv'
  BY <1>16, <1>0 DEF HeldInv, TypeOK, Busy, Reschedule, Goto, ScheduleDrain,
     disk
<1>17. ASSUME NEW j \in Jobs, BackoffElapses(j) PROVE HeldInv'
  BY <1>17, <1>0 DEF HeldInv, TypeOK, Busy, BackoffElapses, threads, NoRow
<1>18. CASE UNCHANGED vars
  BY <1>0, <1>18 DEF HeldInv, TypeOK, Busy, vars, disk, threads
<1> QED
  BY <1>1, <1>2, <1>3, <1>4, <1>5, <1>6, <1>7, <1>8, <1>9, <1>10, <1>11,
     <1>12, <1>13, <1>14, <1>15, <1>16, <1>17, <1>18 DEF Next, Worker
-----------------------------------------------------------------------------
LEMMA OwnerStep == QueueInv /\ [Next]_vars => OneExecutor'
<1> SUFFICES ASSUME QueueInv, [Next]_vars PROVE OneExecutor'
  OBVIOUS
<1>0. TypeOK /\ HeldInv /\ OneExecutor /\ BudgetInv /\ PaperInv /\ CountInv
  BY DEF QueueInv
<1>1. ASSUME StartProcess PROVE OneExecutor'
  BY <1>1, <1>0 DEF OneExecutor, Executing, HeldInv, TypeOK, Busy,
     StartProcess, disk, threads
<1>2. ASSUME Crash PROVE OneExecutor'
  BY <1>2, <1>0 DEF OneExecutor, Executing, HeldInv, TypeOK, Busy, Crash,
     disk, NotHeld
<1>3. ASSUME NEW m \in Managers, RecreateActivity(m) PROVE OneExecutor'
  BY <1>3, <1>0 DEF OneExecutor, Executing, HeldInv, TypeOK, Busy,
     RecreateActivity, disk, threads
<1>4. ASSUME PrintReceipt PROVE OneExecutor'
  BY <1>4, <1>0 DEF OneExecutor, Executing, HeldInv, TypeOK, Busy,
     PrintReceipt, threads, Jobs, NoRow
<1>5. ASSUME NEW j \in Jobs, RetryPrint(j) PROVE OneExecutor'
  BY <1>5, <1>0 DEF OneExecutor, Executing, HeldInv, TypeOK, Busy,
     RetryPrint, threads, Updates
<1>6. ASSUME BridgeSchedule PROVE OneExecutor'
  BY <1>6, <1>0 DEF OneExecutor, Executing, HeldInv, TypeOK, Busy,
     BridgeSchedule, ScheduleDrain, disk
<1>7. ASSUME NEW m \in Managers, BeginDrain(m) PROVE OneExecutor'
  BY <1>7, <1>0 DEF OneExecutor, Executing, HeldInv, TypeOK, Busy,
     BeginDrain, Goto, disk
<1>8. ASSUME NEW m \in Managers, PickJob(m) PROVE OneExecutor'
  BY <1>8, <1>0 DEF OneExecutor, Executing, HeldInv, TypeOK, Busy, PickJob,
     Goto, disk, NextRunnable, Runnable
<1>9. ASSUME NEW m \in Managers, NothingRunnable(m) PROVE OneExecutor'
  BY <1>9, <1>0 DEF OneExecutor, Executing, HeldInv, TypeOK, Busy,
     NothingRunnable, Goto, disk
<1>10. ASSUME NEW m \in Managers, LockJob(m) PROVE OneExecutor'
  BY <1>10, <1>0 DEF OneExecutor, Executing, HeldInv, TypeOK, Busy, LockJob,
     Goto, Updates
<1>11. ASSUME NEW m \in Managers, LockLost(m) PROVE OneExecutor'
  BY <1>11, <1>0 DEF OneExecutor, Executing, HeldInv, TypeOK, Busy, LockLost,
     Goto, disk
<1>12. ASSUME NEW m \in Managers, Execute(m) PROVE OneExecutor'
  BY <1>12, <1>0 DEF OneExecutor, Executing, HeldInv, TypeOK, Busy, Execute,
     Goto, HeldRow
<1>13. ASSUME NEW m \in Managers, RecordResult(m) PROVE OneExecutor'
  BY <1>13, <1>0 DEF OneExecutor, Executing, HeldInv, TypeOK, Busy,
     RecordResult, Goto, Updates, Updates
<1>14. ASSUME NEW m \in Managers, FinishDrain(m) PROVE OneExecutor'
  BY <1>14, <1>0 DEF OneExecutor, Executing, HeldInv, TypeOK, Busy,
     FinishDrain, Goto, disk
<1>15. ASSUME NEW m \in Managers, Recheck(m) PROVE OneExecutor'
  BY <1>15, <1>0 DEF OneExecutor, Executing, HeldInv, TypeOK, Busy, Recheck,
     Goto, disk
<1>16. ASSUME NEW m \in Managers, Reschedule(m) PROVE OneExecutor'
  BY <1>16, <1>0 DEF OneExecutor, Executing, HeldInv, TypeOK, Busy,
     Reschedule, Goto, ScheduleDrain, disk
<1>17. ASSUME NEW j \in Jobs, BackoffElapses(j) PROVE OneExecutor'
  BY <1>17, <1>0 DEF OneExecutor, Executing, HeldInv, TypeOK, Busy,
     BackoffElapses, threads
<1>18. CASE UNCHANGED vars
  BY <1>0, <1>18 DEF OneExecutor, Executing, HeldInv, TypeOK, Busy, vars, disk, threads
<1> QED
  BY <1>1, <1>2, <1>3, <1>4, <1>5, <1>6, <1>7, <1>8, <1>9, <1>10, <1>11,
     <1>12, <1>13, <1>14, <1>15, <1>16, <1>17, <1>18 DEF Next, Worker
-----------------------------------------------------------------------------
LEMMA BudgetStep == QueueInv /\ [Next]_vars => BudgetInv'
<1> SUFFICES ASSUME QueueInv, [Next]_vars PROVE BudgetInv'
  OBVIOUS
<1>0. TypeOK /\ HeldInv /\ OneExecutor /\ BudgetInv /\ PaperInv /\ CountInv
  BY DEF QueueInv
<1>1. ASSUME StartProcess PROVE BudgetInv'
  BY <1>1, <1>0 DEF BudgetInv, OneExecutor, Executing, HeldInv, TypeOK, Busy,
     StartProcess, disk, threads
<1>2. ASSUME Crash PROVE BudgetInv'
  BY <1>2, <1>0 DEF BudgetInv, OneExecutor, Executing, HeldInv, TypeOK, Busy,
     Crash, disk, NotHeld
<1>3. ASSUME NEW m \in Managers, RecreateActivity(m) PROVE BudgetInv'
  BY <1>3, <1>0 DEF BudgetInv, OneExecutor, Executing, HeldInv, TypeOK, Busy,
     RecreateActivity, disk, threads
<1>4. ASSUME PrintReceipt PROVE BudgetInv'
  BY <1>4, <1>0 DEF BudgetInv, OneExecutor, Executing, HeldInv, TypeOK, Busy,
     PrintReceipt, threads, Jobs, NoRow
<1>5. ASSUME NEW j \in Jobs, RetryPrint(j) PROVE BudgetInv'
  BY <1>5, <1>0 DEF BudgetInv, OneExecutor, Executing, HeldInv, TypeOK, Busy,
     RetryPrint, threads, Updates
<1>6. ASSUME BridgeSchedule PROVE BudgetInv'
  BY <1>6, <1>0 DEF BudgetInv, OneExecutor, Executing, HeldInv, TypeOK, Busy,
     BridgeSchedule, ScheduleDrain, disk
<1>7. ASSUME NEW m \in Managers, BeginDrain(m) PROVE BudgetInv'
  BY <1>7, <1>0 DEF BudgetInv, OneExecutor, Executing, HeldInv, TypeOK, Busy,
     BeginDrain, Goto, disk
<1>8. ASSUME NEW m \in Managers, PickJob(m) PROVE BudgetInv'
  BY <1>8, <1>0 DEF BudgetInv, OneExecutor, Executing, HeldInv, TypeOK, Busy,
     PickJob, Goto, disk, NextRunnable, Runnable
<1>9. ASSUME NEW m \in Managers, NothingRunnable(m) PROVE BudgetInv'
  BY <1>9, <1>0 DEF BudgetInv, OneExecutor, Executing, HeldInv, TypeOK, Busy,
     NothingRunnable, Goto, disk
<1>10. ASSUME NEW m \in Managers, LockJob(m) PROVE BudgetInv'
  BY <1>10, <1>0 DEF BudgetInv, OneExecutor, Executing, HeldInv, TypeOK,
     Busy, LockJob, Goto, Updates
<1>11. ASSUME NEW m \in Managers, LockLost(m) PROVE BudgetInv'
  BY <1>11, <1>0 DEF BudgetInv, OneExecutor, Executing, HeldInv, TypeOK,
     Busy, LockLost, Goto, disk
<1>12. ASSUME NEW m \in Managers, Execute(m) PROVE BudgetInv'
  BY <1>12, <1>0 DEF BudgetInv, OneExecutor, Executing, HeldInv, TypeOK,
     Busy, Execute, Goto, CanRetry, HeldRow
<1>13. ASSUME NEW m \in Managers, RecordResult(m) PROVE BudgetInv'
  BY <1>13, <1>0 DEF BudgetInv, OneExecutor, Executing, HeldInv, TypeOK,
     Busy, RecordResult, Goto, Updates, Updates
<1>14. ASSUME NEW m \in Managers, FinishDrain(m) PROVE BudgetInv'
  BY <1>14, <1>0 DEF BudgetInv, OneExecutor, Executing, HeldInv, TypeOK,
     Busy, FinishDrain, Goto, disk
<1>15. ASSUME NEW m \in Managers, Recheck(m) PROVE BudgetInv'
  BY <1>15, <1>0 DEF BudgetInv, OneExecutor, Executing, HeldInv, TypeOK,
     Busy, Recheck, Goto, disk
<1>16. ASSUME NEW m \in Managers, Reschedule(m) PROVE BudgetInv'
  BY <1>16, <1>0 DEF BudgetInv, OneExecutor, Executing, HeldInv, TypeOK,
     Busy, Reschedule, Goto, ScheduleDrain, disk
<1>17. ASSUME NEW j \in Jobs, BackoffElapses(j) PROVE BudgetInv'
  BY <1>17, <1>0 DEF BudgetInv, OneExecutor, Executing, HeldInv, TypeOK,
     Busy, BackoffElapses, threads
<1>18. CASE UNCHANGED vars
  BY <1>0, <1>18 DEF BudgetInv, OneExecutor, Executing, HeldInv, TypeOK, Busy, vars, disk, threads
<1> QED
  BY <1>1, <1>2, <1>3, <1>4, <1>5, <1>6, <1>7, <1>8, <1>9, <1>10, <1>11,
     <1>12, <1>13, <1>14, <1>15, <1>16, <1>17, <1>18 DEF Next, Worker
-----------------------------------------------------------------------------
LEMMA PaperStep == QueueInv /\ [Next]_vars => PaperInv'
<1> SUFFICES ASSUME QueueInv, [Next]_vars PROVE PaperInv'
  OBVIOUS
<1>0. TypeOK /\ HeldInv /\ OneExecutor /\ BudgetInv /\ PaperInv /\ CountInv
  BY DEF QueueInv
<1>1. ASSUME StartProcess PROVE PaperInv'
  BY <1>1, <1>0 DEF PaperInv, OneExecutor, Executing, HeldInv, TypeOK, Busy,
     StartProcess, disk, threads
<1>2. ASSUME Crash PROVE PaperInv'
  BY <1>2, <1>0 DEF PaperInv, OneExecutor, Executing, HeldInv, TypeOK, Busy,
     Crash, disk, NotHeld
<1>3. ASSUME NEW m \in Managers, RecreateActivity(m) PROVE PaperInv'
  BY <1>3, <1>0 DEF PaperInv, OneExecutor, Executing, HeldInv, TypeOK, Busy,
     RecreateActivity, disk, threads
<1>4. ASSUME PrintReceipt PROVE PaperInv'
  BY <1>4, <1>0 DEF PaperInv, OneExecutor, Executing, HeldInv, TypeOK, Busy,
     PrintReceipt, threads, Jobs, NoRow
<1>5. ASSUME NEW j \in Jobs, RetryPrint(j) PROVE PaperInv'
  BY <1>5, <1>0 DEF PaperInv, OneExecutor, Executing, HeldInv, TypeOK, Busy,
     RetryPrint, threads, Updates
<1>6. ASSUME BridgeSchedule PROVE PaperInv'
  BY <1>6, <1>0 DEF PaperInv, OneExecutor, Executing, HeldInv, TypeOK, Busy,
     BridgeSchedule, ScheduleDrain, disk
<1>7. ASSUME NEW m \in Managers, BeginDrain(m) PROVE PaperInv'
  BY <1>7, <1>0 DEF PaperInv, OneExecutor, Executing, HeldInv, TypeOK, Busy,
     BeginDrain, Goto, disk
<1>8. ASSUME NEW m \in Managers, PickJob(m) PROVE PaperInv'
  BY <1>8, <1>0 DEF PaperInv, OneExecutor, Executing, HeldInv, TypeOK, Busy,
     PickJob, Goto, disk, NextRunnable, Runnable
<1>9. ASSUME NEW m \in Managers, NothingRunnable(m) PROVE PaperInv'
  BY <1>9, <1>0 DEF PaperInv, OneExecutor, Executing, HeldInv, TypeOK, Busy,
     NothingRunnable, Goto, disk
<1>10. ASSUME NEW m \in Managers, LockJob(m) PROVE PaperInv'
  BY <1>10, <1>0 DEF PaperInv, OneExecutor, Executing, HeldInv, TypeOK, Busy,
     LockJob, Goto, Updates
<1>11. ASSUME NEW m \in Managers, LockLost(m) PROVE PaperInv'
  BY <1>11, <1>0 DEF PaperInv, OneExecutor, Executing, HeldInv, TypeOK, Busy,
     LockLost, Goto, disk
<1>12. ASSUME NEW m \in Managers, Execute(m) PROVE PaperInv'
  <2>1. /\ pc[m] = "execute" /\ held[m].id \in Jobs
        /\ printed[held[m].id] = 0 /\ Executing(m, held[m].id)
        /\ job[held[m].id].state = "PRINTING"
    BY <1>12, <1>0 DEF Execute, Goto, HeldInv, Busy, PaperInv, OneExecutor,
       Executing
  <2>2. \A n \in Managers : n # m /\ pc[n] \in {"execute", "record"} =>
                             held[n].id # held[m].id
    BY <1>0, <2>1 DEF OneExecutor, Executing
  <2>3. /\ \A n \in Managers : n # m => pc'[n] = pc[n] /\ held'[n] = held[n]
        /\ pc'[m] = "record" /\ held'[m].id = held[m].id /\ job' = job
    BY <1>12, <1>0 DEF Execute, Goto, TypeOK, HeldRow
  <2>4. CASE /\ held' = [held EXCEPT ![m].state = "PRINTED"]
             /\ printed' = [printed EXCEPT ![held[m].id] = IF @ < 2 THEN @ + 1 ELSE @]
    <3>1. /\ held'[m].state = "PRINTED"
          /\ printed' = [printed EXCEPT ![held[m].id] = 1]
      BY <1>0, <2>1, <2>4 DEF TypeOK, HeldRow
    <3>2. /\ printed'[held[m].id] = 1
          /\ \A j \in Jobs : j # held[m].id => printed'[j] = printed[j]
      BY <1>0, <2>1, <3>1 DEF TypeOK
    <3>3. \A n \in Managers : pc[n] \in {"execute", "record"} => held[n].id \in Jobs
      BY <1>0 DEF HeldInv, Busy
    <3> QED
      BY <1>0, <2>1, <2>2, <2>3, <3>1, <3>2, <3>3 DEF PaperInv
  <2>5. CASE /\ held'[m].state \in {"RETRY_SCHEDULED", "NEEDS_ATTENTION"}
             /\ printed' = printed
    BY <1>0, <2>1, <2>3, <2>5 DEF PaperInv
  <2>6. ASSUME NEW s, held' = [held EXCEPT ![m].state = s] PROVE held'[m].state = s
    BY <1>0, <2>6 DEF TypeOK, HeldRow
  <2> QED
    BY <1>12, <2>4, <2>5, <2>6 DEF Execute
<1>13. ASSUME NEW m \in Managers, RecordResult(m) PROVE PaperInv'
  BY <1>13, <1>0 DEF PaperInv, OneExecutor, Executing, HeldInv, TypeOK, Busy,
     RecordResult, Goto, Updates, Updates
<1>14. ASSUME NEW m \in Managers, FinishDrain(m) PROVE PaperInv'
  BY <1>14, <1>0 DEF PaperInv, OneExecutor, Executing, HeldInv, TypeOK, Busy,
     FinishDrain, Goto, disk
<1>15. ASSUME NEW m \in Managers, Recheck(m) PROVE PaperInv'
  BY <1>15, <1>0 DEF PaperInv, OneExecutor, Executing, HeldInv, TypeOK, Busy,
     Recheck, Goto, disk
<1>16. ASSUME NEW m \in Managers, Reschedule(m) PROVE PaperInv'
  BY <1>16, <1>0 DEF PaperInv, OneExecutor, Executing, HeldInv, TypeOK, Busy,
     Reschedule, Goto, ScheduleDrain, disk
<1>17. ASSUME NEW j \in Jobs, BackoffElapses(j) PROVE PaperInv'
  BY <1>17, <1>0 DEF PaperInv, OneExecutor, Executing, HeldInv, TypeOK, Busy,
     BackoffElapses, threads
<1>18. CASE UNCHANGED vars
  BY <1>0, <1>18 DEF PaperInv, OneExecutor, Executing, HeldInv, TypeOK, Busy, vars, disk, threads
<1> QED
  BY <1>1, <1>2, <1>3, <1>4, <1>5, <1>6, <1>7, <1>8, <1>9, <1>10, <1>11,
     <1>12, <1>13, <1>14, <1>15, <1>16, <1>17, <1>18 DEF Next, Worker
-----------------------------------------------------------------------------
LEMMA CountStep == QueueInv /\ [Next]_vars => CountInv'
<1> SUFFICES ASSUME QueueInv, [Next]_vars PROVE CountInv'
  OBVIOUS
<1>0. TypeOK /\ HeldInv /\ OneExecutor /\ BudgetInv /\ PaperInv /\ CountInv
  BY DEF QueueInv
<1>1. ASSUME StartProcess PROVE CountInv'
  BY <1>1, <1>0 DEF CountInv, PaperInv, OneExecutor, Executing, HeldInv, TypeOK, Busy,
     StartProcess, disk, threads
<1>2. ASSUME Crash PROVE CountInv'
  BY <1>2, <1>0 DEF CountInv, PaperInv, OneExecutor, Executing, HeldInv, TypeOK, Busy,
     Crash, disk, NotHeld
<1>3. ASSUME NEW m \in Managers, RecreateActivity(m) PROVE CountInv'
  BY <1>3, <1>0 DEF CountInv, PaperInv, OneExecutor, Executing, HeldInv, TypeOK, Busy,
     RecreateActivity, disk, threads
<1>4. ASSUME PrintReceipt PROVE CountInv'
  BY <1>4, <1>0 DEF CountInv, PaperInv, OneExecutor, Executing, HeldInv, TypeOK, Busy,
     PrintReceipt, threads, Jobs, NoRow
<1>5. ASSUME NEW j \in Jobs, RetryPrint(j) PROVE CountInv'
  BY <1>5, <1>0 DEF CountInv, PaperInv, OneExecutor, Executing, HeldInv, TypeOK, Busy,
     RetryPrint, threads, Updates
<1>6. ASSUME BridgeSchedule PROVE CountInv'
  BY <1>6, <1>0 DEF CountInv, PaperInv, OneExecutor, Executing, HeldInv, TypeOK, Busy,
     BridgeSchedule, ScheduleDrain, disk
<1>7. ASSUME NEW m \in Managers, BeginDrain(m) PROVE CountInv'
  BY <1>7, <1>0 DEF CountInv, PaperInv, OneExecutor, Executing, HeldInv, TypeOK, Busy,
     BeginDrain, Goto, disk
<1>8. ASSUME NEW m \in Managers, PickJob(m) PROVE CountInv'
  BY <1>8, <1>0 DEF CountInv, PaperInv, OneExecutor, Executing, HeldInv, TypeOK, Busy,
     PickJob, Goto, disk, NextRunnable, Runnable
<1>9. ASSUME NEW m \in Managers, NothingRunnable(m) PROVE CountInv'
  BY <1>9, <1>0 DEF CountInv, PaperInv, OneExecutor, Executing, HeldInv, TypeOK, Busy,
     NothingRunnable, Goto, disk
<1>10. ASSUME NEW m \in Managers, LockJob(m) PROVE CountInv'
  BY <1>10, <1>0 DEF CountInv, PaperInv, OneExecutor, Executing, HeldInv, TypeOK, Busy,
     LockJob, Goto, Updates
<1>11. ASSUME NEW m \in Managers, LockLost(m) PROVE CountInv'
  BY <1>11, <1>0 DEF CountInv, PaperInv, OneExecutor, Executing, HeldInv, TypeOK, Busy,
     LockLost, Goto, disk
<1>12. ASSUME NEW m \in Managers, Execute(m) PROVE CountInv'
  <2> SUFFICES ASSUME MaxAttempts <= 3 PROVE CountInv'
    BY DEF CountInv
  <2> DEFINE h == held[m].id
  <2>1. /\ pc[m] = "execute" /\ h \in Jobs /\ Executing(m, h)
        /\ job[h].state = "PRINTING" /\ job[h].attempts \in 0..MaxAttempts
        /\ held[m].attempts = job[h].attempts
        /\ paper[h] \in Nat /\ paper[h] < job[h].attempts
    BY <1>12, <1>0 DEF Execute, Goto, HeldInv, Busy, CountInv, BudgetInv,
       OneExecutor, Executing, TypeOK, Row
  <2>2. \A n \in Managers : n # m /\ pc[n] \in {"execute", "record"} =>
                             held[n].id # h
    BY <1>0, <2>1 DEF OneExecutor, Executing
  <2>3. /\ \A n \in Managers : n # m => pc'[n] = pc[n] /\ held'[n] = held[n]
        /\ pc'[m] = "record" /\ held'[m].id = h /\ job' = job
        /\ held'[m].attempts = held[m].attempts
    BY <1>12, <1>0 DEF Execute, Goto, TypeOK, HeldRow
  <2>4. /\ paper'[h] \in {paper[h], paper[h] + 1}
        /\ \A j \in Jobs : j # h => paper'[j] = paper[j]
    <3>1. paper' = [paper EXCEPT ![h] = paper[h] + 1] \/ paper' = paper
      BY <1>12 DEF Execute, TicketComesOut
    <3> QED
      BY <1>0, <2>1, <3>1 DEF TypeOK
  <2>5. held'[m].state = "RETRY_SCHEDULED" => held[m].attempts = 1
    <3>1. ASSUME NEW s, held' = [held EXCEPT ![m].state = s] PROVE held'[m].state = s
      BY <1>0, <3>1 DEF TypeOK, HeldRow
    <3>2. CASE held' = [held EXCEPT ![m].state = "PRINTED"]
      BY <3>1, <3>2
    <3>3. CASE held' = [held EXCEPT ![m].state =
                      IF CanRetry(held[m].attempts) THEN "RETRY_SCHEDULED"
                                                    ELSE "NEEDS_ATTENTION"]
      <4>1. held'[m].state = "RETRY_SCHEDULED" => CanRetry(held[m].attempts)
        BY <3>1, <3>3
      <4> QED
        BY <2>1, <4>1 DEF CanRetry
    <3> QED
      BY <1>12, <3>2, <3>3 DEF Execute
  <2>6. \A j \in Jobs : /\ paper'[j] <= job[j].attempts
                        /\ job[j].state = "QUEUED" => job[j].attempts = 0
                        /\ job[j].state = "RETRY_SCHEDULED" => job[j].attempts = 1
    BY <1>0, <2>1, <2>4 DEF CountInv
  <2>7. ASSUME NEW n \in Managers
        PROVE  /\ pc'[n] = "lock" =>
                    /\ held'[n].state = "QUEUED" => held'[n].attempts = 0
                    /\ held'[n].state = "RETRY_SCHEDULED" => held'[n].attempts = 1
               /\ pc'[n] = "execute" => paper'[held'[n].id] < job[held'[n].id].attempts
               /\ pc'[n] = "record" /\ held'[n].state = "RETRY_SCHEDULED" =>
                    held'[n].attempts = 1
    <3>1. CASE n = m
      BY <2>3, <2>5, <3>1
    <3>2. CASE n # m
      <4>1. pc[n] = "execute" => held[n].id \in Jobs /\ held[n].id # h
        BY <1>0, <2>2, <3>2 DEF HeldInv, Busy
      <4> HIDE DEF h
      <4> QED
        BY <1>0, <2>3, <2>4, <3>2, <4>1 DEF CountInv
    <3> QED
      BY <3>1, <3>2
  <2> HIDE DEF h
  <2> QED
    BY <2>3, <2>6, <2>7 DEF CountInv
<1>13. ASSUME NEW m \in Managers, RecordResult(m) PROVE CountInv'
  <2> SUFFICES ASSUME MaxAttempts <= 3 PROVE CountInv'
    BY DEF CountInv
  <2> DEFINE h == held[m].id
  <2>1. /\ pc[m] = "record" /\ h \in Jobs /\ Executing(m, h)
        /\ held[m].state \in {"PRINTED", "RETRY_SCHEDULED", "NEEDS_ATTENTION"}
        /\ held[m].attempts = job[h].attempts
        /\ held[m].state = "RETRY_SCHEDULED" => job[h].attempts = 1
    BY <1>13, <1>0 DEF RecordResult, Goto, HeldInv, Busy, CountInv, BudgetInv,
       Executing
  <2>2. \A n \in Managers : n # m /\ pc[n] \in {"execute", "record"} =>
                             held[n].id # h
    BY <1>0, <2>1 DEF OneExecutor, Executing
  <2>3. /\ \A n \in Managers : n # m => pc'[n] = pc[n] /\ held'[n] = held[n]
        /\ pc'[m] = "query" /\ paper' = paper
    BY <1>13, <1>0 DEF RecordResult, Goto, TypeOK
  <2>4. /\ \A j \in Jobs : job'[j].attempts = job[j].attempts
        /\ job'[h].state \in {job[h].state, held[m].state}
        /\ \A j \in Jobs : j # h => job'[j] = job[j]
    BY <1>13, <1>0, <2>1 DEF RecordResult, TypeOK, Row
  <2>5. ASSUME NEW j \in Jobs
        PROVE  /\ paper'[j] <= job'[j].attempts
               /\ job'[j].state = "QUEUED" => job'[j].attempts = 0
               /\ job'[j].state = "RETRY_SCHEDULED" => job'[j].attempts = 1
    <3>1. /\ paper[j] <= job[j].attempts
          /\ job[j].state = "QUEUED" => job[j].attempts = 0
          /\ job[j].state = "RETRY_SCHEDULED" => job[j].attempts = 1
      BY <1>0 DEF CountInv
    <3> HIDE DEF h
    <3> QED
      BY <2>1, <2>3, <2>4, <3>1
  <2>6. ASSUME NEW n \in Managers
        PROVE  /\ pc'[n] = "lock" =>
                    /\ held'[n].state = "QUEUED" => held'[n].attempts = 0
                    /\ held'[n].state = "RETRY_SCHEDULED" => held'[n].attempts = 1
               /\ pc'[n] = "execute" => paper'[held'[n].id] < job'[held'[n].id].attempts
               /\ pc'[n] = "record" /\ held'[n].state = "RETRY_SCHEDULED" =>
                    held'[n].attempts = 1
    <3>1. CASE n = m
      BY <2>3, <3>1
    <3>2. CASE n # m
      <4>1. pc[n] = "execute" => held[n].id \in Jobs
        BY <1>0 DEF HeldInv, Busy
      <4> HIDE DEF h
      <4> QED
        BY <1>0, <2>3, <2>4, <3>2, <4>1 DEF CountInv
    <3> QED
      BY <3>1, <3>2
  <2> HIDE DEF h
  <2> QED
    BY <2>5, <2>6 DEF CountInv
<1>14. ASSUME NEW m \in Managers, FinishDrain(m) PROVE CountInv'
  BY <1>14, <1>0 DEF CountInv, PaperInv, OneExecutor, Executing, HeldInv, TypeOK, Busy,
     FinishDrain, Goto, disk
<1>15. ASSUME NEW m \in Managers, Recheck(m) PROVE CountInv'
  BY <1>15, <1>0 DEF CountInv, PaperInv, OneExecutor, Executing, HeldInv, TypeOK, Busy,
     Recheck, Goto, disk
<1>16. ASSUME NEW m \in Managers, Reschedule(m) PROVE CountInv'
  BY <1>16, <1>0 DEF CountInv, PaperInv, OneExecutor, Executing, HeldInv, TypeOK, Busy,
     Reschedule, Goto, ScheduleDrain, disk
<1>17. ASSUME NEW j \in Jobs, BackoffElapses(j) PROVE CountInv'
  BY <1>17, <1>0 DEF CountInv, PaperInv, OneExecutor, Executing, HeldInv, TypeOK, Busy,
     BackoffElapses, threads
<1>18. CASE UNCHANGED vars
  BY <1>0, <1>18 DEF CountInv, PaperInv, OneExecutor, Executing, HeldInv, TypeOK, Busy, vars, disk, threads
<1> QED
  BY <1>1, <1>2, <1>3, <1>4, <1>5, <1>6, <1>7, <1>8, <1>9, <1>10, <1>11,
     <1>12, <1>13, <1>14, <1>15, <1>16, <1>17, <1>18 DEF Next, Worker
-----------------------------------------------------------------------------
LEMMA QueueStep == QueueInv /\ [Next]_vars => QueueInv'
BY TypeStep, HeldStep, OwnerStep, BudgetStep, PaperStep, CountStep
   DEF QueueInv

(***************************************************************************)
(* Exclusive execution: however many orchestrators are alive, a job is     *)
(* executed by one at a time and its row stays PRINTING until that one has *)
(* recorded the result.                                                    *)
(***************************************************************************)
THEOREM Exclusive == Spec => []OneExecutor
<1>1. QueueInv => OneExecutor
  BY DEF QueueInv
<1> QED
  BY <1>1, QueueInit, QueueStep, PTL DEF Spec

(***************************************************************************)
(* From one request to the next one execution at most succeeds, a job is   *)
(* shown as printed only after it, and none of a job that waits or failed  *)
(* did; the tickets on paper, those of failed attempts included, are no    *)
(* more than the attempts that the row counts: with any number of          *)
(* orchestrators and a crash at any step.                                  *)
(***************************************************************************)
THEOREM PrintsCounted == Spec => []PrintsAreCounted
<1>1. QueueInv => PrintsAreCounted
  BY DEF QueueInv, PaperInv, CountInv, PrintsAreCounted
<1> QED
  BY <1>1, QueueInit, QueueStep, PTL DEF Spec

\* Types, with the attempt budget in the type of a row.
THEOREM TypeCorrect == Spec => []TypeOK
<1>1. QueueInv => TypeOK
  BY DEF QueueInv
<1> QED
  BY <1>1, QueueInit, QueueStep, PTL DEF Spec

-----------------------------------------------------------------------------
(***************************************************************************)
(* No lost wake-up within a life of the process.                           *)
(***************************************************************************)
Draining == {"query", "lock", "execute", "record", "finish"}

\* The flag of a manager is set only while a drain of its own waits or runs; a
\* queued job waits for no time; and a job that was queued in this life of the
\* process is seen.
WakeInv ==
  /\ \A m \in Managers : draining[m] => pending[m] \/ pc[m] \in Draining
  /\ \A j \in Jobs : job[j].state = "QUEUED" => job[j].next # "later"
  /\ FreshJobsAreSeen

\* Steps of a thread that end nowhere but in the loop, and leave the queued jobs
\* alone.
LEMMA StaysAwake ==
  ASSUME TypeOK, WakeInv, NEW m \in Managers,
         fresh' = fresh, bridge' = bridge,
         \A j \in Jobs : job'[j].state = "QUEUED" => job'[j] = job[j],
         \A n \in Managers : n # m => pc'[n] = pc[n] /\ pending'[n] = pending[n]
                                      /\ draining'[n] = draining[n],
         pc'[m] # "idle",
         draining'[m] => pc'[m] \in Draining \/ pending'[m]
  PROVE  WakeInv'
<1>1. \A n \in Managers : draining'[n] => pending'[n] \/ pc'[n] \in Draining
  BY DEF WakeInv
<1>2. \A j \in Jobs : job'[j].state = "QUEUED" => job'[j].next # "later"
  BY DEF WakeInv
<1>3. FreshJobsAreSeen'
  BY DEF FreshJobsAreSeen
<1> QED
  BY <1>1, <1>2, <1>3 DEF WakeInv

LEMMA WakeStep == QueueInv /\ WakeInv /\ [Next]_vars => WakeInv'
<1> SUFFICES ASSUME QueueInv, WakeInv, [Next]_vars PROVE WakeInv'
  OBVIOUS
<1>0. TypeOK /\ HeldInv /\ OneExecutor
  BY DEF QueueInv
<1>k. \A m \in Managers : m # NoManager
  OBVIOUS
<1>1. ASSUME StartProcess PROVE WakeInv'
  BY <1>1 DEF WakeInv, FreshJobsAreSeen, StartProcess, disk, threads
<1>2. ASSUME Crash PROVE WakeInv'
  BY <1>2 DEF WakeInv, FreshJobsAreSeen, Crash, disk
<1>3. ASSUME NEW m \in Managers, RecreateActivity(m) PROVE WakeInv'
  BY <1>3 DEF WakeInv, FreshJobsAreSeen, RecreateActivity, disk, threads
<1>4. ASSUME PrintReceipt PROVE WakeInv'
  <2>1. submitted + 1 \in Jobs => job[submitted + 1] = NoRow
    BY <1>0 DEF HeldInv, TypeOK
  <2>2. bridge' # NoManager
    BY <1>0, <1>4 DEF PrintReceipt, BridgeFree, HeldInv
  <2>3. \A j \in Jobs : job'[j].state = "QUEUED" => job'[j].next # "later"
    BY <1>0, <1>4, <2>1 DEF PrintReceipt, WakeInv, TypeOK, NoRow, Row
  <2> QED
    BY <1>4, <2>2, <2>3 DEF PrintReceipt, WakeInv, FreshJobsAreSeen, threads
<1>5. ASSUME NEW j \in Jobs, RetryPrint(j) PROVE WakeInv'
  <2>1. bridge' # NoManager
    BY <1>0, <1>5 DEF RetryPrint, BridgeFree, HeldInv
  <2>2. \A i \in Jobs : job'[i].state = "QUEUED" => job'[i].next # "later"
    BY <1>0, <1>5 DEF RetryPrint, WakeInv, TypeOK
  <2> QED
    BY <1>5, <2>1, <2>2 DEF RetryPrint, WakeInv, FreshJobsAreSeen, threads
<1>6. ASSUME BridgeSchedule PROVE WakeInv'
  <2>1. PICK m \in Managers : m = bridge
    BY <1>0, <1>6 DEF BridgeSchedule, TypeOK
  <2>2. ScheduleDrain(m) /\ job' = job /\ pc' = pc /\ fresh' = fresh
    BY <1>6, <2>1 DEF BridgeSchedule, disk
  <2>3. pending'[m] \/ pc'[m] # "idle"
    BY <1>0, <2>2 DEF ScheduleDrain, WakeInv, Draining, TypeOK
  <2>4. \A n \in Managers : draining'[n] => pending'[n] \/ pc'[n] \in Draining
    BY <1>0, <2>2 DEF ScheduleDrain, WakeInv, TypeOK
  <2> QED
    BY <2>2, <2>3, <2>4 DEF WakeInv, FreshJobsAreSeen
<1>7. ASSUME NEW m \in Managers, BeginDrain(m) PROVE WakeInv'
  BY <1>0, <1>7, StaysAwake DEF BeginDrain, Goto, disk, WakeInv, Draining, TypeOK
<1>8. ASSUME NEW m \in Managers, PickJob(m) PROVE WakeInv'
  BY <1>0, <1>8, StaysAwake DEF PickJob, Goto, disk, WakeInv, Draining, TypeOK
<1>9. ASSUME NEW m \in Managers, NothingRunnable(m) PROVE WakeInv'
  BY <1>0, <1>9, StaysAwake DEF NothingRunnable, Goto, disk, WakeInv, Draining, TypeOK
<1>10. ASSUME NEW m \in Managers, LockJob(m) PROVE WakeInv'
  <2>1. held[m].id \in Jobs
    BY <1>0, <1>10 DEF LockJob, Goto, HeldInv, Busy
  <2>2. \A j \in Jobs : job'[j].state = "QUEUED" => job'[j] = job[j]
    BY <1>0, <1>10, <2>1 DEF LockJob, TypeOK
  <2> QED
    BY <1>0, <1>10, <2>2, StaysAwake DEF LockJob, Goto, WakeInv, Draining, TypeOK
<1>11. ASSUME NEW m \in Managers, LockLost(m) PROVE WakeInv'
  BY <1>0, <1>11, StaysAwake DEF LockLost, Goto, disk, WakeInv, Draining, TypeOK
<1>12. ASSUME NEW m \in Managers, Execute(m) PROVE WakeInv'
  BY <1>0, <1>12, StaysAwake DEF Execute, Goto, WakeInv, Draining, TypeOK
<1>13. ASSUME NEW m \in Managers, RecordResult(m) PROVE WakeInv'
  <2>1. held[m].id \in Jobs /\ held[m].state # "QUEUED"
    BY <1>0, <1>13 DEF RecordResult, Goto, HeldInv, Busy
  <2>2. \A j \in Jobs : job'[j].state = "QUEUED" => job'[j] = job[j]
    BY <1>0, <1>13, <2>1 DEF RecordResult, TypeOK, Row
  <2> QED
    BY <1>0, <1>13, <2>2, StaysAwake
    DEF RecordResult, Goto, WakeInv, Draining, TypeOK
<1>14. ASSUME NEW m \in Managers, FinishDrain(m) PROVE WakeInv'
  BY <1>0, <1>14, StaysAwake DEF FinishDrain, Goto, disk, WakeInv, Draining, TypeOK
<1>15. ASSUME NEW m \in Managers, Recheck(m) PROVE WakeInv'
  <2>1. CASE Runnable # {}
    BY <1>0, <1>15, <2>1, StaysAwake DEF Recheck, Goto, WakeInv, Draining, TypeOK, disk
  <2>2. CASE Runnable = {}
    <3>1. \A j \in Jobs : job[j].state # "QUEUED"
      BY <1>0, <2>2 DEF Runnable, WakeInv, TypeOK, Row
    <3>2. \A n \in Managers : draining'[n] => pending'[n] \/ pc'[n] \in Draining
      BY <1>0, <1>15 DEF Recheck, Goto, WakeInv, Draining, TypeOK
    <3> QED
      BY <1>0, <1>15, <3>1, <3>2 DEF Recheck, WakeInv, FreshJobsAreSeen, TypeOK, disk
  <2> QED
    BY <2>1, <2>2
<1>16. ASSUME NEW m \in Managers, Reschedule(m) PROVE WakeInv'
  <2>1. pending'[m]
    BY <1>0, <1>16 DEF Reschedule, Goto, ScheduleDrain, WakeInv, Draining, TypeOK
  <2>2. \A n \in Managers : draining'[n] => pending'[n] \/ pc'[n] \in Draining
    BY <1>0, <1>16, <2>1
    DEF Reschedule, Goto, ScheduleDrain, WakeInv, Draining, TypeOK
  <2> QED
    BY <1>16, <2>1, <2>2 DEF Reschedule, WakeInv, FreshJobsAreSeen, disk
<1>17. ASSUME NEW j \in Jobs, BackoffElapses(j) PROVE WakeInv'
  <2>1. job[j].next = "later" /\ job[j].state # "QUEUED"
    BY <1>17 DEF BackoffElapses, WakeInv
  <2>2. \A i \in Jobs : job'[i].state = job[i].state
    BY <1>0, <1>17 DEF BackoffElapses, TypeOK, Row
  <2>3. \A i \in Jobs : job'[i].state = "QUEUED" => job'[i] = job[i]
    BY <1>0, <1>17, <2>1, <2>2 DEF BackoffElapses, TypeOK
  <2>4. \A i \in fresh : i \in Jobs
    BY <1>0 DEF TypeOK
  <2> QED
    BY <1>17, <2>2, <2>3, <2>4 DEF BackoffElapses, WakeInv, FreshJobsAreSeen, threads
<1>18. CASE UNCHANGED vars
  BY <1>18 DEF WakeInv, FreshJobsAreSeen, vars, disk, threads
<1> QED
  BY <1>1, <1>2, <1>3, <1>4, <1>5, <1>6, <1>7, <1>8, <1>9, <1>10, <1>11, <1>12,
     <1>13, <1>14, <1>15, <1>16, <1>17, <1>18 DEF Next, Worker

(***************************************************************************)
(* No lost wake-up, within one life of the process: a job queued since it  *)
(* started has a drain under way or about to be scheduled, for any number  *)
(* of jobs and of managers alive at once.                                  *)
(***************************************************************************)
THEOREM FreshSeen == Spec => []FreshJobsAreSeen
<1>1. Init => WakeInv
  BY DEF Init, WakeInv, FreshJobsAreSeen, NoRow
<1>2. WakeInv => FreshJobsAreSeen
  BY DEF WakeInv
<1> QED
  BY <1>1, <1>2, QueueInit, QueueStep, WakeStep, PTL DEF Spec

-----------------------------------------------------------------------------
(***************************************************************************)
(* Tickets between their pick-up and their result.  Besides the types:     *)
(* who is not sending has no calls left, the buffer is entered in its own  *)
(* leg only, and that leg has no call that is tried only or substituted.   *)
(***************************************************************************)
LinkRecord == [service : BOOLEAN, binding : BOOLEAN, bound : BOOLEAN, open : BOOLEAN]
Codes == {"none", "REFUSED", "SUNMI_SERVICE_UNAVAILABLE", "SUNMI_PRINT_BUSY",
          "INVALID_PRINT_JOB_CONTENT", "INVALID_OUTPUT_STRATEGY",
          "BITMAP_SYNTHETIC_TEST_FAILED", "OFFICIAL_PARITY_FAILED",
          "NONBUFFER_SAFE_FALLBACK_FAILED", "SUNMI_PRINT_FAILED", "PRINTER_NOT_READY",
          "SUNMI_PRINT_CALLBACK_ERROR", "PRINT_SENT"}
Waiting == {"idle", "binding", "found"}
Legs == {"prelude", "text", "image", "buffered", "safe"}
ReceiptRecord ==
  [at : Waiting \cup {"claimed"} \cup Legs, strategy : Strategies, whole : BOOLEAN,
   todo : Seq(Calls), errors : BOOLEAN, code : Codes]

\* Call c is still to be made.
ToMake(c, calls) == \E i \in 1..Len(calls) : calls[i] = c

Ordered(r) ==
  /\ r.at \in Waiting \cup {"claimed"} => r.todo = <<>>
  /\ r.at # "buffered" => ~ToMake("enter", r.todo)
  /\ r.at = "buffered" => ~ToMake("tryInit", r.todo) /\ ~ToMake("feed", r.todo)

TicketTypes ==
  /\ link \in [Printers -> LinkRecord] /\ receipt \in [Printers -> ReceiptRecord]
  /\ tool \in [Printers -> {"idle", "binding", "calls"}]
  /\ inProgress \in BOOLEAN /\ crashSeen \in BOOLEAN /\ leaked \in BOOLEAN
  /\ upsets \in 0..MaxUpsets

\* The parts of OneTicketAtATime.
Alone     == \A m, n \in Printers : Sending(m) /\ Sending(n) => m = n
Flagged   == \A m \in Printers : Sending(m) => inProgress
Explained == inProgress => leaked \/ \E m \in Printers : Sending(m)
NotAgain  == \A m \in Printers : ToMake("enter", receipt[m].todo) => ~crashSeen

TicketInv ==
  /\ TicketTypes /\ \A m \in Printers : Ordered(receipt[m])
  /\ Alone /\ Flagged /\ Explained /\ NotAgain

\* The strategies, and the calls of their legs.
LEMMA StrategyNames ==
  /\ DOMAIN TextLegs = {"block", "sections", "mixed", "wrapped"}
  /\ DOMAIN ImageLegs = {"image", "chunks", "test"}
  /\ InUse \subseteq Strategies /\ "block" \in Strategies
<1>1. /\ DOMAIN TextLegs = {"block", "sections", "mixed", "wrapped"}
      /\ DOMAIN ImageLegs = {"image", "chunks", "test"}
  BY DEF TextLegs, ImageLegs
<1> QED
  BY <1>1, ReceiptConstants DEF Strategies

\* What a concatenation holds.
LEMMA JoinedCalls ==
  ASSUME NEW a \in Seq(Calls), NEW b \in Seq(Calls), NEW c
  PROVE  /\ a \o b \in Seq(Calls)
         /\ ToMake(c, a \o b) <=> (ToMake(c, a) \/ ToMake(c, b))
<1>1. /\ a \o b \in Seq(Calls) /\ Len(a \o b) = Len(a) + Len(b)
      /\ \A i \in 1..Len(a) : (a \o b)[i] = a[i]
      /\ \A i \in 1..Len(b) : (a \o b)[Len(a) + i] = b[i]
      /\ Len(a) \in Nat /\ Len(b) \in Nat
  OBVIOUS
<1>2. ASSUME ToMake(c, a \o b) PROVE ToMake(c, a) \/ ToMake(c, b)
  <2>1. PICK i \in 1..Len(a \o b) : (a \o b)[i] = c
    BY <1>2 DEF ToMake
  <2>2. CASE i <= Len(a)
    BY <1>1, <2>1, <2>2 DEF ToMake
  <2>3. CASE i > Len(a)
    <3>1. /\ i - Len(a) \in 1..Len(b) /\ Len(a) + (i - Len(a)) = i
      BY <1>1, <2>1, <2>3
    <3>2. b[i - Len(a)] = c
      BY <1>1, <2>1, <3>1
    <3> QED
      BY <3>1, <3>2 DEF ToMake
  <2> QED
    BY <1>1, <2>1, <2>2, <2>3
<1>3. ASSUME ToMake(c, a) PROVE ToMake(c, a \o b)
  BY <1>1, <1>3 DEF ToMake
<1>4. ASSUME ToMake(c, b) PROVE ToMake(c, a \o b)
  <2>1. PICK i \in 1..Len(b) : b[i] = c
    BY <1>4 DEF ToMake
  <2>2. Len(a) + i \in 1..Len(a \o b) /\ (a \o b)[Len(a) + i] = c
    BY <1>1, <2>1
  <2> QED
    BY <2>2 DEF ToMake
<1> QED
  BY <1>1, <1>2, <1>3, <1>4

\* What is left after a call.
LEMMA CallsLeft ==
  ASSUME NEW calls \in Seq(Calls), calls # <<>>
  PROVE  /\ Tail(calls) \in Seq(Calls)
         /\ <<"wrap">> \o Tail(calls) \in Seq(Calls)
         /\ ToMake(Head(calls), calls)
         /\ \A c : ToMake(c, Tail(calls)) => ToMake(c, calls)
         /\ \A c : c # "wrap" /\ ToMake(c, <<"wrap">> \o Tail(calls)) => ToMake(c, calls)
<1>1. /\ Tail(calls) \in Seq(Calls) /\ Len(Tail(calls)) = Len(calls) - 1
      /\ \A i \in 1..Len(Tail(calls)) : Tail(calls)[i] = calls[i + 1]
      /\ Len(calls) \in Nat \ {0} /\ Head(calls) = calls[1]
  OBVIOUS
<1>2. ToMake(Head(calls), calls)
  BY <1>1 DEF ToMake
<1>3. ASSUME NEW c, ToMake(c, Tail(calls)) PROVE ToMake(c, calls)
  <2>1. PICK i \in 1..Len(Tail(calls)) : Tail(calls)[i] = c
    BY <1>3 DEF ToMake
  <2>2. i + 1 \in 1..Len(calls) /\ calls[i + 1] = c
    BY <1>1, <2>1
  <2> QED
    BY <2>2 DEF ToMake
<1>4. /\ <<"wrap">> \in Seq(Calls)
      /\ \A c : ToMake(c, <<"wrap">>) => c = "wrap"
  BY DEF Calls, ToMake
<1>5. ASSUME NEW c, c # "wrap", ToMake(c, <<"wrap">> \o Tail(calls))
      PROVE  ToMake(c, calls)
  BY <1>1, <1>3, <1>4, <1>5, JoinedCalls
<1>6. <<"wrap">> \o Tail(calls) \in Seq(Calls)
  BY <1>1, <1>4, JoinedCalls
<1> QED
  BY <1>1, <1>2, <1>3, <1>5, <1>6

\* The legs are made of calls; only the buffered one enters the buffer.
LEMMA LegCalls ==
  /\ Aligned \in Seq(Calls) /\ ~ToMake("enter", Aligned)
  /\ SafeLeg \in Seq(Calls) /\ ~ToMake("enter", SafeLeg)
  /\ BufferedLeg \in Seq(Calls)
  /\ ~ToMake("tryInit", BufferedLeg) /\ ~ToMake("feed", BufferedLeg)
  /\ \A s \in DOMAIN TextLegs :
       TextLegs[s] \in Seq(Calls) /\ ~ToMake("enter", TextLegs[s])
  /\ \A s \in DOMAIN ImageLegs :
       ImageLegs[s] \in Seq(Calls) /\ ~ToMake("enter", ImageLegs[s])
<1>1. /\ Aligned \in Seq(Calls) /\ ~ToMake("enter", Aligned)
      /\ SafeLeg \in Seq(Calls) /\ ~ToMake("enter", SafeLeg)
  BY DEF Aligned, SafeLeg, Calls, ToMake
<1>2. /\ BufferedLeg \in Seq(Calls)
      /\ ~ToMake("tryInit", BufferedLeg) /\ ~ToMake("feed", BufferedLeg)
  BY DEF BufferedLeg, Calls, ToMake
<1>3. /\ Sections \in Seq(Calls) /\ ~ToMake("enter", Sections)
      /\ ReceiptImage \in Seq(Calls) /\ ~ToMake("enter", ReceiptImage)
      /\ <<"feed">> \in Seq(Calls) /\ ~ToMake("enter", <<"feed">>)
      /\ <<"wrap">> \in Seq(Calls) /\ ~ToMake("enter", <<"wrap">>)
      /\ <<"align">> \in Seq(Calls) /\ ~ToMake("enter", <<"align">>)
  BY DEF Sections, ReceiptImage, Calls, ToMake
<1>4. /\ TextLegs.block \in Seq(Calls) /\ ~ToMake("enter", TextLegs.block)
      /\ TextLegs.mixed \in Seq(Calls) /\ ~ToMake("enter", TextLegs.mixed)
  BY DEF TextLegs, Calls, ToMake
<1>5. TextLegs.sections \in Seq(Calls) /\ ~ToMake("enter", TextLegs.sections)
  <2>1. <<"align">> \o Sections \in Seq(Calls) /\ ~ToMake("enter", <<"align">> \o Sections)
    BY <1>3, JoinedCalls
  <2> DEFINE first == <<"align">> \o Sections
  <2>2. TextLegs.sections = first \o <<"feed">>
    BY DEF TextLegs
  <2> HIDE DEF first
  <2>3. first \in Seq(Calls) /\ ~ToMake("enter", first)
    BY <2>1 DEF first
  <2>4. first \o <<"feed">> \in Seq(Calls) /\ ~ToMake("enter", first \o <<"feed">>)
    BY <1>3, <2>3, JoinedCalls
  <2> QED
    BY <2>2, <2>4
<1>6. TextLegs.wrapped \in Seq(Calls) /\ ~ToMake("enter", TextLegs.wrapped)
  <2>1. <<"align">> \o Sections \in Seq(Calls) /\ ~ToMake("enter", <<"align">> \o Sections)
    BY <1>3, JoinedCalls
  <2> DEFINE first == <<"align">> \o Sections
  <2>2. TextLegs.wrapped = first \o <<"wrap">>
    BY DEF TextLegs
  <2> HIDE DEF first
  <2>3. first \in Seq(Calls) /\ ~ToMake("enter", first)
    BY <2>1 DEF first
  <2>4. first \o <<"wrap">> \in Seq(Calls) /\ ~ToMake("enter", first \o <<"wrap">>)
    BY <1>3, <2>3, JoinedCalls
  <2> QED
    BY <2>2, <2>4
<1> DEFINE One == Aligned \o ReceiptImage
           Two == One \o ReceiptImage
<1>7. One \in Seq(Calls) /\ ~ToMake("enter", One)
  BY <1>1, <1>3, JoinedCalls
<1> HIDE DEF One
<1>8. Two \in Seq(Calls) /\ ~ToMake("enter", Two)
  BY <1>3, <1>7, JoinedCalls
<1>9. /\ ImageLegs.image = One \o <<"feed">>
      /\ ImageLegs.chunks = Two \o <<"feed">>
      /\ ImageLegs.test = Two \o <<"feed">>
  BY DEF ImageLegs, One
<1> HIDE DEF Two
<1>10. /\ One \o <<"feed">> \in Seq(Calls) /\ ~ToMake("enter", One \o <<"feed">>)
       /\ Two \o <<"feed">> \in Seq(Calls) /\ ~ToMake("enter", Two \o <<"feed">>)
  <2>1. One \o <<"feed">> \in Seq(Calls) /\ ~ToMake("enter", One \o <<"feed">>)
    BY <1>3, <1>7, JoinedCalls
  <2>2. Two \o <<"feed">> \in Seq(Calls) /\ ~ToMake("enter", Two \o <<"feed">>)
    BY <1>3, <1>8, JoinedCalls
  <2> QED
    BY <2>1, <2>2
<1>11. \A s \in DOMAIN TextLegs :
         TextLegs[s] \in Seq(Calls) /\ ~ToMake("enter", TextLegs[s])
  BY <1>4, <1>5, <1>6, StrategyNames
<1>12. \A s \in DOMAIN ImageLegs :
         ImageLegs[s] \in Seq(Calls) /\ ~ToMake("enter", ImageLegs[s])
  BY <1>9, <1>10, StrategyNames
<1> QED
  BY <1>1, <1>2, <1>11, <1>12

\* The invariant says what the property says.
LEMMA TicketParts == TicketInv => OneTicketAtATime
BY DEF TicketInv, Alone, Flagged, Explained, NotAgain, ToMake, OneTicketAtATime

\* What the types come to.
LEMMA TicketTyped == TicketTypes => ReceiptsTypeOK
<1> SUFFICES ASSUME TicketTypes PROVE ReceiptsTypeOK
  OBVIOUS
<1>1. ASSUME NEW m \in Printers
      PROVE  /\ receipt[m].at \in {"idle", "binding", "found", "claimed", "prelude",
                                  "text", "image", "buffered", "safe"}
             /\ receipt[m].strategy \in Strategies /\ receipt[m].todo \in Seq(Calls)
             /\ tool[m] \in {"idle", "binding", "calls"}
  <2>1. receipt[m] \in ReceiptRecord /\ tool[m] \in {"idle", "binding", "calls"}
    BY DEF TicketTypes
  <2>2. /\ receipt[m].at \in Waiting \cup {"claimed"} \cup Legs
        /\ receipt[m].strategy \in Strategies /\ receipt[m].todo \in Seq(Calls)
    BY <2>1 DEF ReceiptRecord
  <2> QED
    BY <2>1, <2>2 DEF Waiting, Legs
<1> QED
  BY <1>1 DEF TicketTypes, ReceiptsTypeOK, LinkRecord

\* One attempt moves: it claims the flag, goes on with it, or ends, and gives it
\* back unless it leaks; a crash is confirmed by who sends.
LEMMA TicketMoves ==
  ASSUME TicketInv, NEW m \in Printers, NEW r \in ReceiptRecord, Ordered(r),
         receipt' = [receipt EXCEPT ![m] = r], UNCHANGED tool,
         link' \in [Printers -> LinkRecord], upsets' \in 0..MaxUpsets,
         inProgress' \in BOOLEAN, crashSeen' \in BOOLEAN, leaked' \in BOOLEAN,
         leaked => leaked',
         r.at \notin Waiting => \/ Sending(m) /\ inProgress' = inProgress
                                \/ ~inProgress /\ inProgress',
         r.at \in Waiting => \/ ~Sending(m) /\ inProgress' = inProgress
                             \/ Sending(m) /\ (~inProgress' \/ leaked'),
         crashSeen' => crashSeen \/ Sending(m),
         ToMake("enter", r.todo) => ~crashSeen'
  PROVE  TicketInv'
<1>1. TicketTypes'
  BY DEF TicketInv, TicketTypes
<1>2. receipt[m]' = r /\ \A n \in Printers \ {m} : receipt[n]' = receipt[n]
  BY DEF TicketInv, TicketTypes
<1>3. /\ \A n \in Printers \ {m} : Sending(n)' <=> Sending(n)
      /\ Sending(m)' <=> r.at \notin Waiting
  <2>1. Sending(m)' <=> r.at \in {"claimed", "prelude", "text", "image", "buffered", "safe"}
    BY <1>2 DEF Sending
  <2>2. r.at \in Waiting \cup {"claimed"} \cup Legs
    BY DEF ReceiptRecord
  <2> QED
    BY <1>2, <2>1, <2>2 DEF Sending, Waiting, Legs
<1>4. \A n \in Printers : Ordered(receipt[n])'
  <2>1. ASSUME NEW n \in Printers PROVE Ordered(receipt[n]')
    BY <1>2 DEF TicketInv
  <2> QED
    BY <2>1 DEF Ordered, ToMake
<1>5. Alone' /\ Flagged' /\ Explained'
  <2>1. CASE r.at \notin Waiting
    BY <2>1, <1>3 DEF TicketInv, Alone, Flagged, Explained
  <2>2. CASE r.at \in Waiting
    BY <2>2, <1>3 DEF TicketInv, Alone, Flagged, Explained
  <2> QED
    BY <2>1, <2>2
<1>6. ASSUME NEW n \in Printers, ToMake("enter", receipt[n]'.todo) PROVE ~crashSeen'
  <2>1. CASE n = m
    BY <1>2, <1>6, <2>1
  <2>2. CASE n # m
    <3>1. ToMake("enter", receipt[n].todo) /\ ~crashSeen
      BY <1>2, <1>6, <2>2 DEF TicketInv, NotAgain
    <3>2. Sending(n)
      <4>1. ToMake("enter", <<>>) => FALSE
        BY DEF ToMake
      <4>2. receipt[n] \in ReceiptRecord /\ Ordered(receipt[n])
        BY DEF TicketInv, TicketTypes
      <4> QED
        BY <3>1, <4>1, <4>2 DEF Ordered, ReceiptRecord, Waiting, Legs, Sending
    <3> QED
      BY <2>2, <3>1, <3>2 DEF TicketInv, Alone
  <2> QED
    BY <2>1, <2>2
<1>7. NotAgain'
  BY <1>6 DEF NotAgain, ToMake
<1> QED
  BY <1>1, <1>4, <1>5, <1>7 DEF TicketInv

\* The attempt of m, and the end of it.
LEMMA EndsKeep ==
  ASSUME TicketInv, NEW m \in Printers, NEW code \in Codes, Ended(m, code), UNCHANGED tool,
         link' \in [Printers -> LinkRecord], upsets' \in 0..MaxUpsets,
         crashSeen' \in BOOLEAN, leaked' \in BOOLEAN, leaked => leaked',
         receipt[m].at = "claimed" => leaked', crashSeen' => crashSeen \/ Sending(m)
  PROVE  TicketInv'
<1> DEFINE r == [NoReceipt EXCEPT !.strategy = receipt[m].strategy, !.code = code]
<1>1. receipt[m] \in ReceiptRecord /\ inProgress \in BOOLEAN
  BY DEF TicketInv, TicketTypes
<1>2. /\ r.at = "idle" /\ r.todo = <<>>
      /\ receipt[m].strategy \in Strategies /\ <<>> \in Seq(Calls) => r \in ReceiptRecord
  BY DEF NoReceipt, ReceiptRecord, Waiting
<1>3. r \in ReceiptRecord /\ r.at \in Waiting /\ Ordered(r) /\ ~ToMake("enter", r.todo)
  <2>1. receipt[m].strategy \in Strategies /\ <<>> \in Seq(Calls)
    BY <1>1 DEF ReceiptRecord
  <2>2. r \in ReceiptRecord
    BY <1>2, <2>1
  <2>3. \A c : ~ToMake(c, <<>>)
    BY DEF ToMake
  <2> HIDE DEF r
  <2>4. r.at \in Waiting /\ r.at # "buffered"
    BY <1>2 DEF Waiting
  <2> QED
    BY <1>2, <2>2, <2>3, <2>4 DEF Ordered
<1>4. receipt' = [receipt EXCEPT ![m] = r]
  BY DEF Ended
<1>5. /\ inProgress' \in BOOLEAN
      /\ \/ ~Sending(m) /\ inProgress' = inProgress
         \/ Sending(m) /\ (~inProgress' \/ leaked')
  <2>1. inProgress' = (inProgress /\ ~(Sending(m) /\ receipt[m].at # "claimed"))
    BY DEF Ended
  <2>2. CASE receipt[m].at = "claimed"
    <3>1. Sending(m) /\ leaked'
      BY <2>2 DEF Sending
    <3> QED
      BY <3>1, <2>1
  <2>3. CASE receipt[m].at # "claimed"
    BY <1>1, <2>1, <2>3
  <2> QED
    BY <2>2, <2>3
<1> HIDE DEF r
<1>6. /\ r.at \notin Waiting => \/ Sending(m) /\ inProgress' = inProgress
                                \/ ~inProgress /\ inProgress'
      /\ r.at \in Waiting => \/ ~Sending(m) /\ inProgress' = inProgress
                             \/ Sending(m) /\ (~inProgress' \/ leaked')
      /\ ToMake("enter", r.todo) => ~crashSeen'
  BY <1>3, <1>5
<1> QED
  BY <1>3, <1>4, <1>5, <1>6, TicketMoves, Zenon

\* It goes on with other calls.
LEMMA GoesKeeps ==
  ASSUME TicketInv, NEW m \in Printers, NEW leg \in Waiting \cup Legs,
         NEW calls \in Seq(Calls), Goes(m, leg, calls), UNCHANGED tool,
         link' \in [Printers -> LinkRecord], upsets' \in 0..MaxUpsets,
         crashSeen' \in BOOLEAN, leaked' \in BOOLEAN, leaked => leaked',
         leg \in Waiting <=> ~Sending(m), leg \in Waiting => calls = <<>>,
         leg # "buffered" => ~ToMake("enter", calls),
         leg = "buffered" => ~ToMake("tryInit", calls) /\ ~ToMake("feed", calls),
         crashSeen' => crashSeen \/ Sending(m), ToMake("enter", calls) => ~crashSeen'
  PROVE  TicketInv'
<1> DEFINE r == [receipt[m] EXCEPT !.at = leg, !.todo = calls]
<1>1. receipt[m] \in ReceiptRecord /\ receipt \in [Printers -> ReceiptRecord]
      /\ inProgress \in BOOLEAN
  BY DEF TicketInv, TicketTypes
<1>2. r \in ReceiptRecord /\ r.at = leg /\ r.todo = calls
  BY <1>1 DEF ReceiptRecord
<1>3. receipt' = [receipt EXCEPT ![m] = r] /\ inProgress' = inProgress
  BY <1>1 DEF Goes
<1> HIDE DEF r
<1>4. Ordered(r)
  BY <1>2 DEF Ordered, Legs, Waiting
<1>5. /\ r.at \notin Waiting => \/ Sending(m) /\ inProgress' = inProgress
                                \/ ~inProgress /\ inProgress'
      /\ r.at \in Waiting => \/ ~Sending(m) /\ inProgress' = inProgress
                             \/ Sending(m) /\ (~inProgress' \/ leaked')
      /\ ToMake("enter", r.todo) => ~crashSeen'
      /\ inProgress' \in BOOLEAN
  BY <1>1, <1>2, <1>3
<1> QED
  BY <1>2, <1>3, <1>4, <1>5, TicketMoves, Zenon

\* The same for an attempt that goes on sending.
LEMMA SendsOn ==
  ASSUME TicketInv, NEW m \in Printers, NEW leg \in Legs, NEW calls \in Seq(Calls),
         Goes(m, leg, calls), Sending(m), UNCHANGED <<link, tool, leaked>>,
         upsets' \in 0..MaxUpsets, crashSeen' \in BOOLEAN,
         leg # "buffered" => ~ToMake("enter", calls),
         leg = "buffered" => ~ToMake("tryInit", calls) /\ ~ToMake("feed", calls),
         ToMake("enter", calls) => ~crashSeen'
  PROVE  TicketInv'
<1>1. leg \in Waiting \cup Legs /\ leg \notin Waiting
  BY DEF Waiting, Legs
<1>2. /\ link' \in [Printers -> LinkRecord] /\ leaked' \in BOOLEAN /\ UNCHANGED tool
      /\ leaked => leaked'
  BY DEF TicketInv, TicketTypes
<1>3. /\ leg \in Waiting <=> ~Sending(m)
      /\ leg \in Waiting => calls = <<>>
      /\ crashSeen' => crashSeen \/ Sending(m)
  BY <1>1
<1> QED
  BY <1>1, <1>2, <1>3, GoesKeeps, Zenon

\* Every step keeps the invariant.
LEMMA TicketStep == TicketInv /\ [ReceiptsNext]_receiptVars => TicketInv'
<1> SUFFICES ASSUME TicketInv, [ReceiptsNext]_receiptVars PROVE TicketInv'
  OBVIOUS
<1>t. /\ link \in [Printers -> LinkRecord] /\ receipt \in [Printers -> ReceiptRecord]
      /\ tool \in [Printers -> {"idle", "binding", "calls"}]
      /\ inProgress \in BOOLEAN /\ crashSeen \in BOOLEAN /\ leaked \in BOOLEAN
      /\ upsets \in 0..MaxUpsets /\ MaxUpsets \in Nat
  BY ReceiptBounds DEF TicketInv, TicketTypes
<1>u. Upset => upsets' \in 0..MaxUpsets
  BY <1>t DEF Upset
<1>l. ASSUME UNCHANGED <<receipt, inProgress, crashSeen, leaked>>,
             link' \in [Printers -> LinkRecord], upsets' \in 0..MaxUpsets,
             tool' \in [Printers -> {"idle", "binding", "calls"}]
      PROVE  TicketInv'
  BY <1>l DEF TicketInv, TicketTypes, Alone, Flagged, Explained, NotAgain, Sending
<1>b. \A m \in Printers : Binds(link[m]) \subseteq LinkRecord
  BY <1>t, ZenonT(60) DEF Binds, LinkRecord
<1>o. \A m \in Printers : Ordered(receipt[m]) /\ receipt[m] \in ReceiptRecord
  BY <1>t DEF TicketInv
<1>x. ASSUME NEW m \in Printers, ToText(m), Sending(m), receipt[m].at # "claimed",
             UNCHANGED <<link, tool, leaked>>, upsets' \in 0..MaxUpsets,
             crashSeen' \in BOOLEAN
      PROVE  TicketInv'
  <2> DEFINE calls == TextLegs[receipt[m].strategy]
  <2>1. CASE receipt[m].strategy \in DOMAIN TextLegs /\ Goes(m, "text", calls)
    <3>1. "text" \in Legs /\ calls \in Seq(Calls) /\ ~ToMake("enter", calls)
      BY <2>1, LegCalls DEF Legs
    <3> HIDE DEF calls
    <3> QED
      BY <1>x, <2>1, <3>1, SendsOn
  <2>2. CASE Ended(m, "INVALID_OUTPUT_STRATEGY")
    <3>1. "INVALID_OUTPUT_STRATEGY" \in Codes
      BY DEF Codes
    <3> QED
      BY <1>x, <1>t, <2>2, <3>1, EndsKeep
  <2> QED
    BY <1>x, <2>1, <2>2 DEF ToText
<1>i. ASSUME NEW m \in Printers, ImageFails(m), Sending(m), receipt[m].at # "claimed",
             UNCHANGED <<link, tool, leaked>>, upsets' \in 0..MaxUpsets,
             crashSeen' \in BOOLEAN
      PROVE  TicketInv'
  <2>1. "BITMAP_SYNTHETIC_TEST_FAILED" \in Codes
    BY DEF Codes
  <2>2. CASE Ended(m, "BITMAP_SYNTHETIC_TEST_FAILED")
    BY <1>i, <1>t, <2>1, <2>2, EndsKeep
  <2> QED
    BY <1>i, <1>x, <2>2 DEF ImageFails
<1>1. CASE UNCHANGED receiptVars
  BY <1>1, <1>l, <1>t DEF receiptVars
<1>2. CASE ProcessDies
  <2>1. Unlinked \in LinkRecord
    BY DEF Unlinked, LinkRecord
  <2>2. NoReceipt \in ReceiptRecord /\ NoReceipt.at = "idle" /\ NoReceipt.todo = <<>>
    BY StrategyNames DEF NoReceipt, ReceiptRecord, Waiting, Codes
  <2>3. \A m \in Printers : receipt'[m] = NoReceipt
    BY <1>2 DEF ProcessDies
  <2>4. TicketTypes'
    BY <1>2, <1>u, <2>1, <2>2 DEF ProcessDies, TicketTypes
  <2>5. Ordered(NoReceipt) /\ \A c : ~ToMake(c, NoReceipt.todo)
    BY <2>2 DEF Ordered, ToMake
  <2>6. \A m \in Printers : Ordered(receipt[m])'
    BY <2>3, <2>5 DEF Ordered, ToMake
  <2>7. \A m \in Printers : ~Sending(m)'
    BY <2>2, <2>3 DEF Sending
  <2>8. NotAgain'
    BY <2>3, <2>5 DEF NotAgain, ToMake
  <2> QED
    BY <1>2, <2>4, <2>6, <2>7, <2>8
       DEF ProcessDies, TicketInv, Alone, Flagged, Explained
<1>3. ASSUME NEW m \in Printers, ServiceConnected(m) \/ ServiceGone(m) \/ Release(m)
      PROVE  TicketInv'
  <2>1. link' \in [Printers -> LinkRecord]
    <3>1. link[m] \in LinkRecord
      BY <1>t
    <3>2. /\ [link[m] EXCEPT !.service = TRUE, !.binding = FALSE] \in LinkRecord
          /\ [link[m] EXCEPT !.service = FALSE, !.binding = FALSE] \in LinkRecord
          /\ [Unlinked EXCEPT !.open = FALSE] \in LinkRecord
      BY <3>1 DEF Unlinked, LinkRecord
    <3>3. CASE ServiceConnected(m)
      BY <3>2, <3>3, <1>t DEF ServiceConnected
    <3>4. CASE ServiceGone(m)
      BY <3>2, <3>4, <1>t DEF ServiceGone
    <3>5. CASE Release(m)
      BY <3>2, <3>5, <1>t DEF Release
    <3> QED
      BY <1>3, <3>3, <3>4, <3>5
  <2> QED
    BY <1>3, <2>1, <1>l, <1>t, <1>u DEF ServiceConnected, ServiceGone, Release
<1>4. ASSUME NEW m \in Printers, BeginTool(m) \/ UseTool(m) \/ EndTool(m)
      PROVE  TicketInv'
  <2>1. link' \in [Printers -> LinkRecord]
    BY <1>4, <1>t, <1>b DEF BeginTool, UseTool, EndTool
  <2> QED
    BY <1>4, <2>1, <1>l, <1>t DEF BeginTool, UseTool, EndTool
<1>5. ASSUME NEW m \in Printers, NEW s \in InUse, NEW whole \in BOOLEAN,
             BeginReceipt(m, s, whole)
      PROVE  TicketInv'
  <2> DEFINE refused == [NoReceipt EXCEPT !.code = "REFUSED"]
             begun == [NoReceipt EXCEPT !.at = "binding", !.strategy = s, !.whole = whole]
  <2>1. /\ refused \in ReceiptRecord /\ refused.at = "idle" /\ refused.todo = <<>>
        /\ begun \in ReceiptRecord /\ begun.at = "binding" /\ begun.todo = <<>>
    <3>1. /\ s \in Strategies /\ "block" \in Strategies /\ <<>> \in Seq(Calls)
          /\ {"none", "REFUSED"} \subseteq Codes
          /\ {"idle", "binding"} \subseteq Waiting \cup {"claimed"} \cup Legs
      BY StrategyNames DEF Codes, Waiting
    <3>2. refused \in ReceiptRecord /\ begun \in ReceiptRecord
      BY <3>1 DEF NoReceipt, ReceiptRecord
    <3>3. /\ refused.at = "idle" /\ refused.todo = <<>>
          /\ begun.at = "binding" /\ begun.todo = <<>>
      BY DEF NoReceipt
    <3> QED
      BY <3>2, <3>3
  <2>2. PICK r \in {refused, begun} : receipt' = [receipt EXCEPT ![m] = r]
    BY <1>5 DEF BeginReceipt
  <2>3. /\ r \in ReceiptRecord /\ r.at \in Waiting /\ r.at # "buffered" /\ r.todo = <<>>
    BY <2>1, <2>2 DEF Waiting
  <2> HIDE DEF refused, begun
  <2>4. \A c : ~ToMake(c, <<>>)
    BY DEF ToMake
  <2>5. Ordered(r)
    BY <2>3, <2>4 DEF Ordered
  <2>6. /\ link' \in [Printers -> LinkRecord] /\ ~Sending(m)
        /\ UNCHANGED <<tool, inProgress, crashSeen, upsets, leaked>>
    BY <1>5, <1>t, <1>b DEF BeginReceipt, Sending
  <2> QED
    BY <1>t, <2>2, <2>3, <2>4, <2>5, <2>6, TicketMoves
<1>6. ASSUME NEW m \in Printers, FindService(m)
      PROVE  TicketInv'
  <2>1. /\ ~Sending(m) /\ receipt[m].at # "claimed"
        /\ UNCHANGED <<link, tool, crashSeen, upsets, leaked>>
    BY <1>6 DEF FindService, Sending
  <2>2. CASE Goes(m, "found", <<>>)
    <3>1. /\ "found" \in Waiting \cup Legs /\ "found" \in Waiting /\ <<>> \in Seq(Calls)
          /\ \A c : ~ToMake(c, <<>>)
      BY DEF Waiting, ToMake
    <3> QED
      BY <1>t, <2>1, <2>2, <3>1, GoesKeeps
  <2>3. CASE Ended(m, "SUNMI_SERVICE_UNAVAILABLE")
    <3>1. "SUNMI_SERVICE_UNAVAILABLE" \in Codes
      BY DEF Codes
    <3> QED
      BY <1>t, <2>1, <2>3, <3>1, EndsKeep
  <2> QED
    BY <1>6, <2>2, <2>3 DEF FindService
<1>7. ASSUME NEW m \in Printers, Claim(m)
      PROVE  TicketInv'
  <2>1. /\ ~Sending(m) /\ receipt[m].at = "found" /\ receipt[m].todo = <<>>
        /\ UNCHANGED <<link, tool, crashSeen, upsets, leaked>>
    BY <1>7, <1>o DEF Claim, Sending, Ordered, Waiting
  <2>2. CASE inProgress
    <3>1. "SUNMI_PRINT_BUSY" \in Codes /\ Ended(m, "SUNMI_PRINT_BUSY")
      BY <1>7, <2>2 DEF Codes, Claim
    <3> QED
      BY <1>t, <2>1, <3>1, EndsKeep
  <2>3. CASE ~inProgress
    <3> DEFINE r == [receipt[m] EXCEPT !.at = "claimed"]
    <3>1. r \in ReceiptRecord /\ r.at = "claimed" /\ r.todo = <<>>
      BY <1>o, <2>1 DEF ReceiptRecord
    <3>2. receipt' = [receipt EXCEPT ![m] = r] /\ inProgress' = TRUE
      BY <1>7, <1>t, <2>3 DEF Claim
    <3> HIDE DEF r
    <3>3. r.at \notin Waiting /\ \A c : ~ToMake(c, r.todo)
      BY <3>1 DEF Waiting, ToMake
    <3>4. Ordered(r)
      BY <3>1, <3>3 DEF Ordered
    <3> QED
      BY <1>t, <2>1, <2>3, <3>1, <3>2, <3>3, <3>4, TicketMoves
  <2> QED
    BY <2>2, <2>3, Zenon
<1>8. ASSUME NEW m \in Printers, ReadJob(m)
      PROVE  TicketInv'
  <2>1. /\ Sending(m) /\ receipt[m].at = "claimed"
        /\ UNCHANGED <<link, tool, crashSeen, upsets>> /\ leaked' \in BOOLEAN
        /\ leaked => leaked'
    BY <1>8, <1>t DEF ReadJob, Sending
  <2>2. CASE Goes(m, "prelude", Aligned)
    <3>1. "prelude" \in Waiting \cup Legs /\ "prelude" \notin Waiting
      BY DEF Waiting, Legs
    <3> QED
      BY <1>t, <2>1, <2>2, <3>1, LegCalls, GoesKeeps
  <2>3. CASE Ended(m, "INVALID_PRINT_JOB_CONTENT") /\ leaked'
    <3>1. "INVALID_PRINT_JOB_CONTENT" \in Codes
      BY DEF Codes
    <3> QED
      BY <1>t, <2>1, <2>3, <3>1, EndsKeep
  <2> QED
    BY <1>8, <2>2, <2>3 DEF ReadJob
<1>9. ASSUME NEW m \in Printers, CallReturns(m)
      PROVE  TicketInv'
  <2> DEFINE calls == receipt[m].todo
  <2>1. /\ Sending(m) /\ calls # <<>> /\ calls \in Seq(Calls)
        /\ receipt[m].at \notin Waiting \cup {"claimed"}
        /\ UNCHANGED <<link, tool, inProgress, crashSeen, upsets, leaked>>
    BY <1>9, <1>o DEF CallReturns, Ordered, ReceiptRecord
  <2>2. receipt' = [receipt EXCEPT ![m].todo = Tail(calls)]
    BY <1>9 DEF CallReturns
  <2>3. Goes(m, receipt[m].at, Tail(calls))
    BY <2>1, <2>2, <1>t DEF Goes, ReceiptRecord
  <2>4. /\ Tail(calls) \in Seq(Calls)
        /\ \A c : ToMake(c, Tail(calls)) => ToMake(c, calls)
    BY <2>1, CallsLeft
  <2>5. receipt[m].at \in Waiting \cup Legs /\ receipt[m].at \notin Waiting
    BY <2>1, <1>o DEF ReceiptRecord
  <2>6. /\ receipt[m].at # "buffered" => ~ToMake("enter", calls)
        /\ receipt[m].at = "buffered" => ~ToMake("tryInit", calls) /\ ~ToMake("feed", calls)
        /\ ToMake("enter", calls) => ~crashSeen
    BY <1>o DEF Ordered, TicketInv, NotAgain
  <2> HIDE DEF calls
  <2>7. /\ receipt[m].at # "buffered" => ~ToMake("enter", Tail(calls))
        /\ receipt[m].at = "buffered" =>
             ~ToMake("tryInit", Tail(calls)) /\ ~ToMake("feed", Tail(calls))
        /\ ToMake("enter", Tail(calls)) => ~crashSeen
    BY <2>4, <2>6
  <2> DEFINE left == Tail(calls)
             leg == receipt[m].at
  <2>8. /\ left \in Seq(Calls) /\ leg \in Legs /\ Goes(m, leg, left)
        /\ leg # "buffered" => ~ToMake("enter", left)
        /\ leg = "buffered" => ~ToMake("tryInit", left) /\ ~ToMake("feed", left)
        /\ ToMake("enter", left) => ~crashSeen'
    BY <2>1, <2>3, <2>4, <2>5, <2>7
  <2>9. Sending(m) /\ UNCHANGED <<link, tool, leaked>>
    BY <2>1
  <2>10. upsets' \in 0..MaxUpsets /\ crashSeen' \in BOOLEAN
    BY <1>t, <2>1
  <2> HIDE DEF left, leg
  <2> QED
    BY <2>8, <2>9, <2>10, SendsOn
<1>10. ASSUME NEW m \in Printers, CallThrows(m)
       PROVE  TicketInv'
  <2> DEFINE calls == receipt[m].todo
             leg == receipt[m].at
  <2>1. /\ Sending(m) /\ calls # <<>> /\ calls \in Seq(Calls)
        /\ leg \notin Waiting \cup {"claimed"} /\ leg \in Legs
        /\ upsets' \in 0..MaxUpsets /\ crashSeen' \in BOOLEAN
        /\ UNCHANGED <<link, tool, leaked>>
        /\ crashSeen' => crashSeen \/ Sending(m)
        /\ leg # "buffered" => crashSeen' = crashSeen
    BY <1>10, <1>o, <1>u, <1>t DEF CallThrows, Ordered, ReceiptRecord
  <2>2. /\ leg # "buffered" => ~ToMake("enter", calls)
        /\ leg = "buffered" => ~ToMake("tryInit", calls) /\ ~ToMake("feed", calls)
    BY <1>o DEF Ordered
  <2>3. /\ Tail(calls) \in Seq(Calls) /\ <<"wrap">> \o Tail(calls) \in Seq(Calls)
        /\ ToMake(Head(calls), calls)
        /\ ToMake("enter", Tail(calls)) => ToMake("enter", calls)
        /\ ToMake("enter", <<"wrap">> \o Tail(calls)) => ToMake("enter", calls)
    BY <2>1, CallsLeft
  <2>4. /\ Head(calls) = "tryInit" => Goes(m, leg, Tail(calls))
        /\ Head(calls) = "feed" => Goes(m, leg, <<"wrap">> \o Tail(calls))
        /\ Head(calls) \notin {"tryInit", "feed"} =>
             \/ ImageFails(m) /\ leg = "image"
             \/ Ended(m, "OFFICIAL_PARITY_FAILED")
             \/ Ended(m, "NONBUFFER_SAFE_FALLBACK_FAILED") \/ Ended(m, "SUNMI_PRINT_FAILED")
    BY <1>10 DEF CallThrows
  <2> HIDE DEF calls
  <2>5. CASE Head(calls) = "tryInit"
    <3> DEFINE left == Tail(calls)
    <3>1. leg # "buffered" /\ left \in Seq(Calls) /\ ~ToMake("enter", left) /\ Goes(m, leg, left)
      BY <2>2, <2>3, <2>4, <2>5
    <3> HIDE DEF left, leg
    <3> QED
      BY <2>1, <3>1, SendsOn
  <2>6. CASE Head(calls) = "feed"
    <3> DEFINE left == <<"wrap">> \o Tail(calls)
    <3>1. leg # "buffered" /\ left \in Seq(Calls) /\ ~ToMake("enter", left) /\ Goes(m, leg, left)
      BY <2>2, <2>3, <2>4, <2>6
    <3> HIDE DEF left, leg
    <3> QED
      BY <2>1, <3>1, SendsOn
  <2> HIDE DEF leg
  <2>7. CASE Head(calls) \notin {"tryInit", "feed"}
    <3>1. ASSUME NEW code \in Codes, Ended(m, code) PROVE TicketInv'
      BY <1>t, <2>1, <3>1, EndsKeep DEF leg
    <3>2. ASSUME ImageFails(m) PROVE TicketInv'
      BY <1>i, <2>1, <3>2 DEF leg
    <3>3. {"OFFICIAL_PARITY_FAILED", "NONBUFFER_SAFE_FALLBACK_FAILED", "SUNMI_PRINT_FAILED"}
             \subseteq Codes
      BY DEF Codes
    <3> QED
      BY <2>4, <2>7, <3>1, <3>2, <3>3
  <2> QED
    BY <2>5, <2>6, <2>7
<1>11. ASSUME NEW m \in Printers, CallbackReports(m)
       PROVE  TicketInv'
  <2> DEFINE r == [receipt[m] EXCEPT !.errors = TRUE]
  <2>1. /\ Sending(m) /\ receipt[m].at \in {"prelude", "text", "image"}
        /\ receipt' = [receipt EXCEPT ![m] = r] /\ upsets' \in 0..MaxUpsets
        /\ UNCHANGED <<link, tool, inProgress, crashSeen, leaked>>
    BY <1>11, <1>u, <1>t DEF CallbackReports, Sending
  <2>2. r \in ReceiptRecord /\ r.at = receipt[m].at /\ r.todo = receipt[m].todo
    BY <1>o DEF ReceiptRecord
  <2> HIDE DEF r
  <2>3. Ordered(r) /\ r.at \notin Waiting /\ ~ToMake("enter", r.todo)
    BY <1>o, <2>1, <2>2 DEF Ordered, Waiting
  <2> QED
    BY <1>t, <2>1, <2>2, <2>3, TicketMoves
<1>12. ASSUME NEW m \in Printers, LegEnds(m)
       PROVE  TicketInv'
  <2> DEFINE leg == receipt[m].at
             strategy == receipt[m].strategy
  <2>1. /\ Sending(m) /\ leg # "claimed"
        /\ UNCHANGED <<link, tool, crashSeen, upsets, leaked>>
    BY <1>12 DEF LegEnds
  <2>2. ASSUME NEW code \in Codes, Ended(m, code) PROVE TicketInv'
    BY <1>t, <2>1, <2>2, EndsKeep
  <2>3. ASSUME ImageFails(m) \/ ToText(m) PROVE TicketInv'
    BY <1>i, <1>x, <1>t, <2>1, <2>3
  <2>4. ASSUME ParityBegins(m) PROVE TicketInv'
    <3>1. CASE crashSeen /\ Goes(m, "safe", SafeLeg)
      <4>1. "safe" \in Legs
        BY DEF Legs
      <4> QED
        BY <1>t, <2>1, <3>1, <4>1, LegCalls, SendsOn
    <3>2. CASE ~crashSeen /\ Goes(m, "buffered", BufferedLeg)
      <4>1. "buffered" \in Legs
        BY DEF Legs
      <4> QED
        BY <1>t, <2>1, <3>2, <4>1, LegCalls, SendsOn
    <3>3. CASE Ended(m, "PRINTER_NOT_READY")
      BY <2>2, <3>3 DEF Codes
    <3> QED
      BY <2>4, <3>1, <3>2, <3>3, Zenon DEF ParityBegins
  <2>5. ASSUME strategy \in DOMAIN ImageLegs, Goes(m, "image", ImageLegs[strategy])
        PROVE  TicketInv'
    <3> DEFINE calls == ImageLegs[strategy]
    <3>1. "image" \in Legs /\ calls \in Seq(Calls) /\ ~ToMake("enter", calls)
      BY <2>5, LegCalls DEF Legs
    <3> HIDE DEF calls
    <3> QED
      BY <1>t, <2>1, <2>5, <3>1, SendsOn DEF calls
  <2>6. \/ ParityBegins(m) \/ ImageFails(m) \/ ToText(m)
        \/ strategy \in DOMAIN ImageLegs /\ Goes(m, "image", ImageLegs[strategy])
        \/ Ended(m, "SUNMI_PRINT_CALLBACK_ERROR") \/ Ended(m, "PRINT_SENT")
    BY <1>12 DEF LegEnds
  <2>7. {"SUNMI_PRINT_CALLBACK_ERROR", "PRINT_SENT"} \subseteq Codes
    BY DEF Codes
  <2> QED
    BY <2>2, <2>3, <2>4, <2>5, <2>6, <2>7
<1> QED
  BY <1>1, <1>2, <1>3, <1>4, <1>5, <1>6, <1>7, <1>8, <1>9, <1>10, <1>11, <1>12
     DEF ReceiptsNext

\* The invariant holds.
LEMMA TicketInvariant == ReceiptsSpec => []TicketInv
<1>1. ReceiptsInit => TicketInv
  <2> SUFFICES ASSUME ReceiptsInit PROVE TicketInv
    OBVIOUS
  <2>1. Unlinked \in LinkRecord
    BY DEF Unlinked, LinkRecord
  <2>2. NoReceipt \in ReceiptRecord /\ NoReceipt.at = "idle" /\ NoReceipt.todo = <<>>
    BY StrategyNames DEF NoReceipt, ReceiptRecord, Waiting, Codes
  <2>3. Ordered(NoReceipt) /\ ~ToMake("enter", NoReceipt.todo)
    BY <2>2 DEF Ordered, ToMake
  <2>4. \A m \in Printers : receipt[m] = NoReceipt
    BY DEF ReceiptsInit
  <2>5. TicketTypes
    <3>1. 0 \in 0..MaxUpsets
      BY ReceiptBounds
    <3>2. /\ link \in [Printers -> LinkRecord] /\ receipt \in [Printers -> ReceiptRecord]
          /\ tool \in [Printers -> {"idle", "binding", "calls"}]
      BY <2>1, <2>2 DEF ReceiptsInit
    <3> QED
      BY <3>1, <3>2 DEF ReceiptsInit, TicketTypes
  <2> QED
    BY <2>2, <2>3, <2>4, <2>5
       DEF ReceiptsInit, TicketInv, Alone, Flagged, Explained, NotAgain, Sending
<1> QED
  BY <1>1, TicketStep, PTL DEF ReceiptsSpec

\* The types of the connections, the attempts and the calls of the bridge hold in
\* every reachable state.
THEOREM TicketsTyped == ReceiptsSpec => []ReceiptsTypeOK
<1>1. TicketInv => TicketTypes
  BY DEF TicketInv
<1> QED
  BY <1>1, TicketInvariant, TicketTyped, PTL

\* One ticket at a time is sent, the flag is set without a sender only after a
\* job that was refused for its content, and the buffer that crashed the service
\* is not entered again: for any number of managers, strategies and upsets.
THEOREM TicketsAlone == ReceiptsSpec => []OneTicketAtATime
BY TicketInvariant, TicketParts, PTL

-----------------------------------------------------------------------------
(***************************************************************************)
(* The two together, as TLC runs them: a behaviour is one of each,         *)
(* whichever of them it follows.                                           *)
(***************************************************************************)
LEMMA LegacyParts == LegacySpec => Spec /\ ReceiptsSpec
<1>1. LegacyInit => Init /\ ReceiptsInit
  BY DEF LegacyInit
<1>2. [LegacyNext]_legacyVars => [Next]_vars /\ [ReceiptsNext]_receiptVars
  BY DEF LegacyNext, legacyVars
<1> QED
  BY <1>1, <1>2, PTL DEF LegacySpec, Spec, ReceiptsSpec

\* The types of both.
THEOREM LegacyTyped == LegacySpec => []LegacyTypeOK
<1>1. TypeOK /\ ReceiptsTypeOK => LegacyTypeOK
  BY DEF LegacyTypeOK
<1> QED
  BY <1>1, LegacyParts, TypeCorrect, TicketsTyped, PTL

\* What the queue and its printers keep, together.
THEOREM LegacyKeeps ==
  LegacySpec => [](OneExecutor /\ PrintsAreCounted /\ FreshJobsAreSeen /\ OneTicketAtATime)
BY LegacyParts, Exclusive, PrintsCounted, FreshSeen, TicketsAlone, PTL
=============================================================================
