-------------------------- MODULE WorkerQueueProofs --------------------------
(***************************************************************************)
(* What holds of the job queue for any number of jobs, names, attempts,    *)
(* restarts and database errors.  The inductive invariant says who may     *)
(* hold a job and when: a record is in the hands of one goroutine, of a    *)
(* live process whose poll loop is past its reset, and it agrees with the  *)
(* row; all the rest follows from that.                                    *)
(***************************************************************************)
EXTENDS WorkerQueue, FiniteSetTheorems, TLAPS

\* A job is held only while the process lives and after resetOrphaned, and
\* records are in flight to the poll loop only while it is claiming.
HoldersFollowReset ==
  /\ loop = "off" <=> process = "down"
  /\ process # "down" => starts # 0
  /\ \A j \in Jobs, l \in Lanes : exec[j][l].stage # "idle" =>
       loop \notin {"off", "reset"}
  /\ \A j \in Jobs, l \in Lanes : exec[j][l].stage = "fetched" => loop = "claiming"

\* A row in the queue has an attempt left, a job not yet seen has made none.
AttemptLeft ==
  /\ \A j \in Jobs : attempts[j] <= MaxAttempts
  /\ \A j \in Jobs : status[j] # "absent" => attempts[j] < MaxAttempts
  /\ \A j \in Jobs \ (history \cup graveyard) : status[j] = "absent" => attempts[j] = 0

\* The attempts on the books were all made, and an executor that is about to
\* write a verdict has seen Run return accordingly.
AttemptsMade ==
  /\ \A j \in Jobs : status[j] # "absent" => attempts[j] <= failures[j]
  /\ \A j \in Jobs, l \in Lanes : exec[j][l].stage = "ok" => succeeded[j] # 0
  /\ \A j \in Jobs, l \in Lanes : exec[j][l].stage = "failed" =>
       exec[j][l].attempts + 1 <= failures[j]

IInv ==
  /\ TypeOK
  /\ ExclusiveExecution
  /\ HeldRecordIsCurrent
  /\ OneTable
  /\ HoldersFollowReset
  /\ AttemptLeft
  /\ AttemptsMade
  /\ VerdictsEarned

-----------------------------------------------------------------------------
\* Every step keeps every variable in its type.
LEMMA TypePreserved == TypeOK /\ [Next]_vars => TypeOK'
<1> SUFFICES ASSUME TypeOK, [Next]_vars PROVE TypeOK'
  OBVIOUS
<1> USE DEF TypeOK, Stages, Idle, Open, Live, lifecycle, tables, ghosts
<1>1. CASE Start
  BY <1>1 DEF Start
<1>2. CASE Cancel
  BY <1>2 DEF Cancel, SignalArrives
<1>3. CASE CloseDatabases
  BY <1>3 DEF CloseDatabases
<1>4. CASE Exit
  BY <1>4 DEF Exit, Vanish
<1>5. CASE Crash
  BY <1>5 DEF Crash, Vanish
<1>6. CASE ResetOrphaned
  BY <1>6 DEF ResetOrphaned, Requeue, ResetWrites
<1>7. CASE ResetFails
  BY <1>7 DEF ResetFails, DatabaseFails
<1>8. CASE ClaimPending
  BY <1>8 DEF ClaimPending, Pending
<1>9. CASE SpawnExecutors
  BY <1>9 DEF SpawnExecutors
<1>10. CASE ClaimFails
  BY <1>10 DEF ClaimFails, DatabaseFails
<1>11. CASE PollLoopExits
  BY <1>11 DEF PollLoopExits
<1>12. CASE \E j \in Jobs : Enqueue(j)
  BY <1>12 DEF Enqueue, UnknownName
<1>13. ASSUME NEW j \in Jobs, NEW l \in Lanes, Execute(j, l)
      PROVE  TypeOK'
  <2>1. CASE BeginRun(j, l)
    BY <2>1 DEF BeginRun, Move
  <2>2. CASE RunSucceeds(j, l)
    BY <2>2 DEF RunSucceeds, Move
  <2>3. CASE RunFails(j, l)
    <3>1. failures' \in [Jobs -> Nat]
      BY <2>3 DEF RunFails
    <3>2. exec' \in [Jobs -> [Lanes -> [stage : Stages, attempts : Nat]]]
      BY <2>3 DEF RunFails, Move
    <3> QED
      BY <2>3, <3>1, <3>2 DEF RunFails
  <2>4. CASE Complete(j, l)
    BY <2>4 DEF Complete, FileDone, DeleteRow, Finishes, Return, AtStage, NewAttempts
  <2>5. CASE BuryUnknown(j, l)
    BY <2>5 DEF BuryUnknown, FileBuried, DeleteRow, Finishes, Return, AtStage, UnknownName
  <2>6. CASE BuryExhausted(j, l)
    BY <2>6 DEF BuryExhausted, FileBuried, DeleteRow, Finishes, Return, AtStage, NewAttempts
  <2>7. CASE Retry(j, l)
    <3>1. NewAttempts(j, l) \in Nat
      BY DEF NewAttempts
    <3>2. status' \in [Jobs -> {"absent", "pending", "running"}] /\ attempts' \in [Jobs -> Nat]
      BY <2>7, <3>1 DEF Retry, UpdateRow
    <3>3. exec' \in [Jobs -> [Lanes -> [stage : Stages, attempts : Nat]]]
      BY <2>7 DEF Retry, Finishes, Return
    <3> QED
      BY <2>7, <3>2, <3>3 DEF Retry, UpdateRow, Finishes
  <2>8. CASE FinishFails(j, l)
    BY <2>8 DEF FinishFails, DatabaseFails, Return, AtStage, UnknownName
  <2> QED
    BY <1>13, <2>1, <2>2, <2>3, <2>4, <2>5, <2>6, <2>7, <2>8 DEF Execute
<1>14. CASE UNCHANGED vars
  BY <1>14 DEF vars
<1> QED
  BY <1>1, <1>2, <1>3, <1>4, <1>5, <1>6, <1>7, <1>8, <1>9, <1>10, <1>11, <1>12, <1>13, <1>14 DEF Next, PollLoop

\* The variables of the queue keep their types.
THEOREM TypeCorrect == Spec => []TypeOK
<1>1. Init => TypeOK
  BY DEF Init, TypeOK, Stages, Idle
<1> QED
  BY <1>1, TypePreserved, PTL DEF Spec

-----------------------------------------------------------------------------
\* What an executor may rely on about the job it holds.
LEMMA HeldJob ==
  ASSUME IInv, NEW j \in Jobs, NEW l \in Lanes, exec[j][l].stage # "idle"
  PROVE  /\ status[j] = "running"
         /\ attempts[j] = exec[j][l].attempts
         /\ attempts[j] \in Nat /\ failures[j] \in Nat /\ MaxAttempts \in Nat
         /\ attempts[j] < MaxAttempts
         /\ exec[j][l].stage = "failed" => attempts[j] + 1 <= failures[j]
<1>1. status[j] = "running" /\ attempts[j] = exec[j][l].attempts
  BY DEF IInv, HeldRecordIsCurrent
<1>2. attempts[j] \in Nat /\ failures[j] \in Nat /\ MaxAttempts \in Nat
  BY MaxAttemptsAssumption DEF IInv, TypeOK
<1>3. attempts[j] < MaxAttempts
  BY <1>1 DEF IInv, AttemptLeft
<1>4. exec[j][l].stage = "failed" => attempts[j] + 1 <= failures[j]
  BY <1>1 DEF IInv, AttemptsMade
<1> QED
  BY <1>1, <1>2, <1>3, <1>4

\* The invariant falls into two groups: who holds what, and what the tables
\* and the counts mean.
Holders == ExclusiveExecution /\ HeldRecordIsCurrent /\ HoldersFollowReset

Books == OneTable /\ AttemptLeft /\ AttemptsMade /\ VerdictsEarned

\* No step gives a job to a second goroutine, or leaves one with a stale record.
LEMMA HoldersPreserved == IInv /\ [Next]_vars => Holders'
<1> SUFFICES ASSUME IInv, [Next]_vars PROVE Holders'
  OBVIOUS
<1> Holders /\ TypeOK
  BY DEF IInv, Holders
<1> USE DEF Holders, ExclusiveExecution, HeldRecordIsCurrent, HoldersFollowReset, TypeOK,
            Idle, Open, Live, AtStage, NewAttempts, lifecycle, tables, ghosts
<1>1. CASE Start
  BY <1>1 DEF Start
<1>2. CASE Cancel
  BY <1>2 DEF Cancel, SignalArrives
<1>3. CASE CloseDatabases
  BY <1>3 DEF CloseDatabases
<1>4. CASE Exit
  BY <1>4 DEF Exit, Vanish
<1>5. CASE Crash
  BY <1>5 DEF Crash, Vanish
<1>6. CASE ResetOrphaned
  BY <1>6 DEF ResetOrphaned, Requeue, ResetWrites
<1>7. CASE ResetFails
  BY <1>7 DEF ResetFails
<1>8. CASE ClaimPending
  BY <1>8 DEF ClaimPending, Pending
<1>9. CASE SpawnExecutors
  BY <1>9 DEF SpawnExecutors
<1>10. CASE ClaimFails
  BY <1>10 DEF ClaimFails
<1>11. CASE PollLoopExits
  BY <1>11 DEF PollLoopExits
<1>12. CASE \E j \in Jobs : Enqueue(j)
  BY <1>12 DEF Enqueue
<1>13. ASSUME NEW j \in Jobs, NEW l \in Lanes, Execute(j, l)
      PROVE  Holders'
  <2>1. CASE BeginRun(j, l)
    BY <2>1 DEF BeginRun, Move
  <2>2. CASE RunSucceeds(j, l)
    BY <2>2 DEF RunSucceeds, Move
  <2>3. CASE RunFails(j, l)
    BY <2>3 DEF RunFails, Move
  <2>4. CASE Complete(j, l)
    BY <2>4 DEF Complete, FileDone, DeleteRow, Finishes, Return
  <2>5. CASE BuryUnknown(j, l)
    BY <2>5 DEF BuryUnknown, FileBuried, DeleteRow, Finishes, Return
  <2>6. CASE BuryExhausted(j, l)
    BY <2>6 DEF BuryExhausted, FileBuried, DeleteRow, Finishes, Return
  <2>7. CASE Retry(j, l)
    BY <2>7 DEF Retry, MayRetry, UpdateRow, Finishes, Return
  <2>8. CASE FinishFails(j, l)
    BY <2>8 DEF FinishFails, Return
  <2> QED
    BY <1>13, <2>1, <2>2, <2>3, <2>4, <2>5, <2>6, <2>7, <2>8 DEF Execute
<1>14. CASE UNCHANGED vars
  BY <1>14 DEF vars
<1> QED
  BY <1>1, <1>2, <1>3, <1>4, <1>5, <1>6, <1>7,
     <1>8, <1>9, <1>10, <1>11, <1>12, <1>13, <1>14 DEF Next, PollLoop

\* No step files a job twice, beyond its attempts or against what its Runs returned.
LEMMA BooksPreserved == IInv /\ [Next]_vars => Books'
<1> SUFFICES ASSUME IInv, [Next]_vars PROVE Books'
  OBVIOUS
<1> Books /\ HeldRecordIsCurrent /\ TypeOK
  BY DEF IInv, Books
<1> USE MaxAttemptsAssumption DEF Books, OneTable, AttemptLeft, AttemptsMade, VerdictsEarned,
        HeldRecordIsCurrent, TypeOK, Idle, Open, Live, AtStage, NewAttempts, lifecycle,
        tables, ghosts
<1>1. CASE Start
  BY <1>1 DEF Start
<1>2. CASE Cancel
  BY <1>2 DEF Cancel, SignalArrives
<1>3. CASE CloseDatabases
  BY <1>3 DEF CloseDatabases
<1>4. CASE Exit
  BY <1>4 DEF Exit, Vanish
<1>5. CASE Crash
  BY <1>5 DEF Crash, Vanish
<1>6. CASE ResetOrphaned
  BY <1>6 DEF ResetOrphaned, Requeue, ResetWrites
<1>7. CASE ResetFails
  BY <1>7 DEF ResetFails
<1>8. CASE ClaimPending
  BY <1>8 DEF ClaimPending, Pending
<1>9. CASE SpawnExecutors
  BY <1>9 DEF SpawnExecutors
<1>10. CASE ClaimFails
  BY <1>10 DEF ClaimFails
<1>11. CASE PollLoopExits
  BY <1>11 DEF PollLoopExits
<1>12. CASE \E j \in Jobs : Enqueue(j)
  BY <1>12 DEF Enqueue
<1>13. ASSUME NEW j \in Jobs, NEW l \in Lanes, Execute(j, l)
      PROVE  Books'
  <2>1. CASE BeginRun(j, l)
    BY <2>1 DEF BeginRun, Move
  <2>2. CASE RunSucceeds(j, l)
    <3>1. exec[j][l].stage # "idle"
      BY <2>2 DEF RunSucceeds
    <3>2. starts # 0
      BY <3>1 DEF IInv, HoldersFollowReset
    <3>3. /\ exec' = [exec EXCEPT ![j][l] = [stage |-> "ok", attempts |-> exec[j][l].attempts]]
          /\ succeeded' = [succeeded EXCEPT ![j] = starts]
          /\ UNCHANGED <<status, attempts, history, graveyard, lastError, failures>>
      BY <2>2 DEF RunSucceeds, Move
    <3>4. \A k \in Jobs : succeeded[k] # 0 => succeeded'[k] # 0
      BY <3>2, <3>3
    <3>5. OneTable' /\ AttemptLeft'
      BY <3>3
    <3>6. AttemptsMade'
      BY <3>2, <3>3, <3>4
    <3>7. VerdictsEarned'
      BY <3>3, <3>4
    <3> QED
      BY <3>5, <3>6, <3>7
  <2>3. CASE RunFails(j, l)
    <3>1. exec[j][l].stage # "idle"
      BY <2>3 DEF RunFails
    <3>2. /\ status[j] = "running" /\ attempts[j] = exec[j][l].attempts
          /\ attempts[j] \in Nat /\ failures[j] \in Nat /\ attempts[j] <= failures[j]
      BY <3>1
    <3>3. /\ exec' = [exec EXCEPT ![j][l] = [stage |-> "failed", attempts |-> exec[j][l].attempts]]
          /\ failures' = [failures EXCEPT ![j] = failures[j] + 1]
          /\ UNCHANGED <<status, attempts, history, graveyard, lastError, succeeded>>
      BY <2>3 DEF RunFails, Move
    <3>4. \A k \in Jobs : failures'[k] \in Nat /\ failures'[k] >= failures[k]
      BY <3>3
    <3>5. OneTable' /\ AttemptLeft'
      BY <3>3
    <3>6. AttemptsMade'
      <4>1. \A k \in Jobs : status'[k] # "absent" => attempts'[k] <= failures'[k]
        BY <3>3, <3>4
      <4>2. \A k \in Jobs, m \in Lanes : exec'[k][m].stage = "ok" => succeeded'[k] # 0
        BY <3>3
      <4>3. \A k \in Jobs, m \in Lanes : exec'[k][m].stage = "failed" =>
              exec'[k][m].attempts + 1 <= failures'[k]
        BY <3>2, <3>3, <3>4
      <4> QED
        BY <4>1, <4>2, <4>3
    <3>7. VerdictsEarned'
      BY <3>3, <3>4
    <3> QED
      BY <3>5, <3>6, <3>7
  <2>4. CASE Complete(j, l)
    <3> USE <2>4 DEF Complete, FileDone, DeleteRow, Finishes, Return
    <3>1. /\ status[j] = "running" /\ attempts[j] = exec[j][l].attempts
          /\ attempts[j] \in Nat /\ failures[j] \in Nat /\ MaxAttempts \in Nat
          /\ attempts[j] < MaxAttempts
          /\ exec[j][l].stage = "failed" => attempts[j] + 1 <= failures[j]
      <4>1. exec[j][l].stage # "idle"
        OBVIOUS
      <4> QED
        BY ONLY IInv, <4>1, HeldJob
    <3>2. attempts' = [attempts EXCEPT ![j] = attempts[j] + 1]
      BY <3>1
    <3>3. OneTable'
      BY <3>1
    <3>4. AttemptLeft'
      BY <3>1, <3>2
    <3>5. AttemptsMade'
      BY <3>1, <3>2
    <3>6. VerdictsEarned'
      BY <3>1, <3>2
    <3> QED
      BY <3>3, <3>4, <3>5, <3>6
  <2>5. CASE BuryUnknown(j, l)
    BY <2>5 DEF BuryUnknown, FileBuried, DeleteRow, Finishes, Return
  <2>6. CASE BuryExhausted(j, l)
    <3> USE <2>6 DEF BuryExhausted, FileBuried, DeleteRow, Finishes, Return
    <3>1. /\ status[j] = "running" /\ attempts[j] = exec[j][l].attempts
          /\ attempts[j] \in Nat /\ failures[j] \in Nat /\ MaxAttempts \in Nat
          /\ attempts[j] < MaxAttempts
          /\ exec[j][l].stage = "failed" => attempts[j] + 1 <= failures[j]
      <4>1. exec[j][l].stage # "idle"
        OBVIOUS
      <4> QED
        BY ONLY IInv, <4>1, HeldJob
    <3>2. attempts' = [attempts EXCEPT ![j] = attempts[j] + 1]
      BY <3>1
    <3>3. OneTable'
      BY <3>1
    <3>4. AttemptLeft'
      BY <3>1, <3>2
    <3>5. AttemptsMade'
      BY <3>1, <3>2
    <3>6. VerdictsEarned'
      BY <3>1, <3>2
    <3> QED
      BY <3>3, <3>4, <3>5, <3>6
  <2>7. CASE Retry(j, l)
    <3> USE <2>7 DEF Retry, MayRetry, UpdateRow, Finishes, Return
    <3>1. /\ status[j] = "running" /\ attempts[j] = exec[j][l].attempts
          /\ attempts[j] \in Nat /\ failures[j] \in Nat /\ MaxAttempts \in Nat
          /\ attempts[j] < MaxAttempts
          /\ exec[j][l].stage = "failed" => attempts[j] + 1 <= failures[j]
      <4>1. exec[j][l].stage # "idle"
        OBVIOUS
      <4> QED
        BY ONLY IInv, <4>1, HeldJob
    <3>2. attempts' = [attempts EXCEPT ![j] = attempts[j] + 1]
      BY <3>1
    <3>3. OneTable'
      BY <3>1
    <3>4. AttemptLeft'
      BY <3>1, <3>2
    <3>5. AttemptsMade'
      BY <3>1, <3>2
    <3>6. VerdictsEarned'
      BY <3>1, <3>2
    <3> QED
      BY <3>3, <3>4, <3>5, <3>6
  <2>8. CASE FinishFails(j, l)
    BY <2>8 DEF FinishFails, Return
  <2> QED
    BY <1>13, <2>1, <2>2, <2>3, <2>4, <2>5, <2>6, <2>7, <2>8 DEF Execute
<1>14. CASE UNCHANGED vars
  BY <1>14 DEF vars
<1> QED
  BY <1>1, <1>2, <1>3, <1>4, <1>5, <1>6, <1>7,
     <1>8, <1>9, <1>10, <1>11, <1>12, <1>13, <1>14 DEF Next, PollLoop

\* The inductive invariant holds of every reachable state.
THEOREM Invariant == Spec => []IInv
<1>1. Init => IInv
  BY MaxAttemptsAssumption
     DEF Init, IInv, TypeOK, Idle, Stages, ExclusiveExecution, HeldRecordIsCurrent, OneTable,
         HoldersFollowReset, AttemptLeft, AttemptsMade, VerdictsEarned
<1>2. IInv /\ [Next]_vars => IInv'
  BY TypePreserved, HoldersPreserved, BooksPreserved DEF IInv, Holders, Books
<1> QED
  BY <1>1, <1>2, PTL DEF Spec

-----------------------------------------------------------------------------
(***************************************************************************)
(* The safety properties, for every value of the constants.                *)
(***************************************************************************)

\* No job is ever in the hands of two goroutines.
THEOREM Exclusive == Spec => []ExclusiveExecution
<1>1. IInv => ExclusiveExecution
  BY DEF IInv
<1> QED
  BY Invariant, <1>1, PTL

\* Whoever holds a job holds its current record.
THEOREM Current == Spec => []HeldRecordIsCurrent
<1>1. IInv => HeldRecordIsCurrent
  BY DEF IInv
<1> QED
  BY Invariant, <1>1, PTL

\* A job is never in two tables.
THEOREM Partition == Spec => []OneTable
<1>1. IInv => OneTable
  BY DEF IInv
<1> QED
  BY Invariant, <1>1, PTL

\* History means success, burial for errors means MaxAttempts failed Runs.
THEOREM Earned == Spec => []VerdictsEarned
<1>1. IInv => VerdictsEarned
  BY DEF IInv
<1> QED
  BY Invariant, <1>1, PTL

-----------------------------------------------------------------------------
(***************************************************************************)
(* Stranded jobs.                                                          *)
(***************************************************************************)

\* The strengthening of StrandedOnlyByFault: it also holds of the poll loop
\* between its UPDATE and the start of the executors.
NoneStranded ==
  loop \in {"wait", "claiming"} /\ Open /\ Live /\ faults = 0 =>
    \A j \in Jobs : status[j] = "running" => \E l \in Lanes : exec[j][l].stage # "idle"

\* No step strands a job, unless a statement fails.
LEMMA NoneStrandedPreserved == NoneStranded /\ IInv /\ [Next]_vars => NoneStranded'
<1> SUFFICES ASSUME NoneStranded, IInv, [Next]_vars PROVE NoneStranded'
  OBVIOUS
<1> TypeOK /\ HeldRecordIsCurrent
  BY DEF IInv
<1> USE DEF NoneStranded, TypeOK, HeldRecordIsCurrent, Idle, Open, Live, AtStage,
            lifecycle, tables, ghosts
<1>1. CASE Start
  BY <1>1 DEF Start
<1>2. CASE Cancel
  BY <1>2 DEF Cancel, SignalArrives
<1>3. CASE CloseDatabases
  BY <1>3 DEF CloseDatabases
<1>4. CASE Exit
  BY <1>4 DEF Exit, Vanish
<1>5. CASE Crash
  BY <1>5 DEF Crash, Vanish
<1>6. CASE ResetOrphaned
  BY <1>6 DEF ResetOrphaned, Requeue, ResetWrites
<1>7. CASE ResetFails
  BY <1>7 DEF ResetFails, DatabaseFails
<1>8. CASE ClaimPending
  BY <1>8 DEF ClaimPending, Pending
<1>9. CASE SpawnExecutors
  BY <1>9 DEF SpawnExecutors
<1>10. CASE ClaimFails
  BY <1>10 DEF ClaimFails, DatabaseFails
<1>11. CASE PollLoopExits
  BY <1>11 DEF PollLoopExits
<1>12. CASE \E j \in Jobs : Enqueue(j)
  BY <1>12 DEF Enqueue
<1>13. ASSUME NEW j \in Jobs, NEW l \in Lanes, Execute(j, l)
      PROVE  NoneStranded'
  <2>1. CASE BeginRun(j, l)
    BY <2>1 DEF BeginRun, Move
  <2>2. CASE RunSucceeds(j, l)
    BY <2>2 DEF RunSucceeds, Move
  <2>3. CASE RunFails(j, l)
    BY <2>3 DEF RunFails, Move
  <2>4. CASE Complete(j, l)
    BY <2>4 DEF Complete, FileDone, DeleteRow, Finishes, Return
  <2>5. CASE BuryUnknown(j, l)
    BY <2>5 DEF BuryUnknown, FileBuried, DeleteRow, Finishes, Return
  <2>6. CASE BuryExhausted(j, l)
    BY <2>6 DEF BuryExhausted, FileBuried, DeleteRow, Finishes, Return
  <2>7. CASE Retry(j, l)
    BY <2>7 DEF Retry, MayRetry, UpdateRow, Finishes, Return
  <2>8. CASE FinishFails(j, l)
    BY <2>8 DEF FinishFails, Return, DatabaseFails
  <2> QED
    BY <1>13, <2>1, <2>2, <2>3, <2>4, <2>5, <2>6, <2>7, <2>8 DEF Execute
<1>14. CASE UNCHANGED vars
  BY <1>14 DEF vars
<1> QED
  BY <1>1, <1>2, <1>3, <1>4, <1>5, <1>6, <1>7,
     <1>8, <1>9, <1>10, <1>11, <1>12, <1>13, <1>14 DEF Next, PollLoop

\* A running row that nobody holds is the trace of a database error.
THEOREM Stranded == Spec => []StrandedOnlyByFault
<1>1. Init => NoneStranded
  BY DEF Init, NoneStranded
<1>2. NoneStranded => StrandedOnlyByFault
  BY DEF NoneStranded, StrandedOnlyByFault
<1> QED
  BY <1>1, <1>2, NoneStrandedPreserved, Invariant, PTL DEF Spec

-----------------------------------------------------------------------------
(***************************************************************************)
(* Finality and the ledger.                                                *)
(***************************************************************************)

\* A step files at most one job, never unfiles one, and leaves the attempts
\* of a filed job alone.
Append ==
  /\ history \subseteq history' /\ graveyard \subseteq graveyard'
  /\ \A j \in history \cup graveyard : attempts'[j] = attempts[j]

\* Filed jobs stay as they were filed.
LEMMA StepsAppend == IInv /\ [Next]_vars => Append
<1> SUFFICES ASSUME IInv, [Next]_vars PROVE Append
  OBVIOUS
<1> TypeOK /\ HeldRecordIsCurrent /\ OneTable
  BY DEF IInv
<1> USE DEF Append, TypeOK, HeldRecordIsCurrent, OneTable, AtStage, lifecycle, tables, ghosts
<1>1. CASE Start
  BY <1>1 DEF Start
<1>2. CASE Cancel
  BY <1>2 DEF Cancel, SignalArrives
<1>3. CASE CloseDatabases
  BY <1>3 DEF CloseDatabases
<1>4. CASE Exit
  BY <1>4 DEF Exit, Vanish
<1>5. CASE Crash
  BY <1>5 DEF Crash, Vanish
<1>6. CASE ResetOrphaned
  BY <1>6 DEF ResetOrphaned, Requeue, ResetWrites
<1>7. CASE ResetFails
  BY <1>7 DEF ResetFails
<1>8. CASE ClaimPending
  BY <1>8 DEF ClaimPending, Pending
<1>9. CASE SpawnExecutors
  BY <1>9 DEF SpawnExecutors
<1>10. CASE ClaimFails
  BY <1>10 DEF ClaimFails
<1>11. CASE PollLoopExits
  BY <1>11 DEF PollLoopExits
<1>12. CASE \E j \in Jobs : Enqueue(j)
  BY <1>12 DEF Enqueue
<1>13. ASSUME NEW j \in Jobs, NEW l \in Lanes, Execute(j, l)
      PROVE  Append
  <2>1. CASE BeginRun(j, l)
    BY <2>1 DEF BeginRun, Move
  <2>2. CASE RunSucceeds(j, l)
    BY <2>2 DEF RunSucceeds, Move
  <2>3. CASE RunFails(j, l)
    BY <2>3 DEF RunFails, Move
  <2>4. CASE Complete(j, l)
    BY <2>4 DEF Complete, FileDone, DeleteRow, Finishes, Return
  <2>5. CASE BuryUnknown(j, l)
    BY <2>5 DEF BuryUnknown, FileBuried, DeleteRow, Finishes, Return
  <2>6. CASE BuryExhausted(j, l)
    BY <2>6 DEF BuryExhausted, FileBuried, DeleteRow, Finishes, Return
  <2>7. CASE Retry(j, l)
    BY <2>7 DEF Retry, MayRetry, UpdateRow, Finishes, Return
  <2>8. CASE FinishFails(j, l)
    BY <2>8 DEF FinishFails, Return
  <2> QED
    BY <1>13, <2>1, <2>2, <2>3, <2>4, <2>5, <2>6, <2>7, <2>8 DEF Execute
<1>14. CASE UNCHANGED vars
  BY <1>14 DEF vars
<1> QED
  BY <1>1, <1>2, <1>3, <1>4, <1>5, <1>6, <1>7,
     <1>8, <1>9, <1>10, <1>11, <1>12, <1>13, <1>14 DEF Next, PollLoop

\* A filed job keeps its verdict and its attempts, and is never held again.
THEOREM Final == Spec => VerdictIsFinal
<1> DEFINE Kept == \A j \in history \cup graveyard :
                     /\ j \in history <=> j \in history'
                     /\ j \in graveyard <=> j \in graveyard'
                     /\ attempts'[j] = attempts[j]
                     /\ status'[j] = "absent"
                     /\ \A l \in Lanes : exec'[j][l].stage = "idle"
<1>1. IInv /\ IInv' /\ [Next]_vars => Kept
  <2> SUFFICES ASSUME IInv, IInv', [Next]_vars, NEW j \in history \cup graveyard
               PROVE  /\ j \in history <=> j \in history'
                      /\ j \in graveyard <=> j \in graveyard'
                      /\ attempts'[j] = attempts[j]
                      /\ status'[j] = "absent"
                      /\ \A l \in Lanes : exec'[j][l].stage = "idle"
    OBVIOUS
  <2>1. Append /\ j \in Jobs
    BY StepsAppend DEF IInv, TypeOK
  <2>2. (history \cap graveyard) = {} /\ (history' \cap graveyard') = {}
    BY DEF IInv, OneTable
  <2>3. status'[j] = "absent"
    BY <2>1 DEF IInv, OneTable, Append
  <2>4. \A l \in Lanes : exec'[j][l].stage = "idle"
    BY <2>1, <2>3 DEF IInv, HeldRecordIsCurrent
  <2> QED
    BY <2>1, <2>2, <2>3, <2>4 DEF Append
<1>2. IInv /\ IInv' /\ [Next]_vars => [Kept]_vars
  BY <1>1
<1>3. Spec => [][Kept]_vars
  BY <1>2, Invariant, PTL DEF Spec
<1> QED
  BY <1>3 DEF VerdictIsFinal

\* Every step of the queue is a step of the ledger, on the same job, or none.
LEMMA LedgerStep == IInv /\ [Next]_vars => [Ledger!Next]_(Ledger!vars)
<1> SUFFICES ASSUME IInv, [Next]_vars PROVE Ledger!Next \/ UNCHANGED Ledger!vars
  OBVIOUS
<1> TypeOK /\ HeldRecordIsCurrent /\ OneTable /\ AttemptLeft
  BY DEF IInv
<1> USE MaxAttemptsAssumption DEF TypeOK, HeldRecordIsCurrent, OneTable, AttemptLeft, Verdict, AtStage, NewAttempts,
        lifecycle, tables, ghosts, Ledger!vars
<1>1. CASE Start
  BY <1>1 DEF Start
<1>2. CASE Cancel
  BY <1>2 DEF Cancel, SignalArrives
<1>3. CASE CloseDatabases
  BY <1>3 DEF CloseDatabases
<1>4. CASE Exit
  BY <1>4 DEF Exit, Vanish
<1>5. CASE Crash
  BY <1>5 DEF Crash, Vanish
<1>6. CASE ResetOrphaned
  BY <1>6 DEF ResetOrphaned, Requeue, ResetWrites
<1>7. CASE ResetFails
  BY <1>7 DEF ResetFails
<1>8. CASE ClaimPending
  BY <1>8 DEF ClaimPending, Pending
<1>9. CASE SpawnExecutors
  BY <1>9 DEF SpawnExecutors
<1>10. CASE ClaimFails
  BY <1>10 DEF ClaimFails
<1>11. CASE PollLoopExits
  BY <1>11 DEF PollLoopExits
<1>12. ASSUME NEW j \in Jobs, Enqueue(j)
      PROVE  Ledger!Next
  <2> USE <1>12 DEF Enqueue
  <2>1. Verdict[j] = "none" /\ Verdict' = [Verdict EXCEPT ![j] = "open"]
    OBVIOUS
  <2>2. UNCHANGED attempts
    OBVIOUS
  <2>3. Ledger!Accept(j)
    BY <2>1, <2>2 DEF Ledger!Accept
  <2> QED
    BY <2>3 DEF Ledger!Next
<1>13. ASSUME NEW j \in Jobs, NEW l \in Lanes, Execute(j, l)
      PROVE  Ledger!Next \/ UNCHANGED Ledger!vars
  <2>1. CASE BeginRun(j, l)
    BY <2>1 DEF BeginRun, Move
  <2>2. CASE RunSucceeds(j, l)
    BY <2>2 DEF RunSucceeds, Move
  <2>3. CASE RunFails(j, l)
    BY <2>3 DEF RunFails, Move
  <2>4. CASE Complete(j, l)
    <3> USE <2>4 DEF Complete, FileDone, DeleteRow, Finishes, Return
    <3>1. exec[j][l].stage # "idle"
      OBVIOUS
    <3>2. /\ status[j] = "running" /\ attempts[j] = exec[j][l].attempts
          /\ attempts[j] \in Nat /\ MaxAttempts \in Nat /\ attempts[j] < MaxAttempts
      BY ONLY IInv, <3>1, HeldJob
    <3>3. Verdict[j] = "open" /\ Verdict' = [Verdict EXCEPT ![j] = "done"]
      BY <3>2
    <3>4. attempts' = [attempts EXCEPT ![j] = attempts[j] + 1]
      BY <3>2
    <3>5. Ledger!Succeed(j)
      BY <3>2, <3>3, <3>4 DEF Ledger!Succeed
    <3> QED
      BY <3>5 DEF Ledger!Next
  <2>5. CASE BuryUnknown(j, l)
    <3> USE <2>5 DEF BuryUnknown, FileBuried, DeleteRow, Finishes, Return
    <3>1. exec[j][l].stage # "idle"
      OBVIOUS
    <3>2. /\ status[j] = "running" /\ attempts[j] = exec[j][l].attempts
          /\ attempts[j] \in Nat /\ MaxAttempts \in Nat /\ attempts[j] < MaxAttempts
      BY ONLY IInv, <3>1, HeldJob
    <3>3. Verdict[j] = "open" /\ Verdict' = [Verdict EXCEPT ![j] = "buried"]
      BY <3>2
    <3>4. UNCHANGED attempts
      BY <3>2
    <3>5. Ledger!GiveUp(j)
      BY <3>2, <3>3, <3>4 DEF Ledger!GiveUp
    <3> QED
      BY <3>5 DEF Ledger!Next
  <2>6. CASE BuryExhausted(j, l)
    <3> USE <2>6 DEF BuryExhausted, FileBuried, DeleteRow, Finishes, Return
    <3>1. exec[j][l].stage # "idle"
      OBVIOUS
    <3>2. /\ status[j] = "running" /\ attempts[j] = exec[j][l].attempts
          /\ attempts[j] \in Nat /\ MaxAttempts \in Nat /\ attempts[j] < MaxAttempts
      BY ONLY IInv, <3>1, HeldJob
    <3>3. Verdict[j] = "open" /\ Verdict' = [Verdict EXCEPT ![j] = "buried"]
      BY <3>2
    <3>4. attempts' = [attempts EXCEPT ![j] = attempts[j] + 1]
      BY <3>2
    <3>5. Ledger!Exhaust(j)
      BY <3>2, <3>3, <3>4 DEF Ledger!Exhaust
    <3> QED
      BY <3>5 DEF Ledger!Next
  <2>7. CASE Retry(j, l)
    <3> USE <2>7 DEF Retry, MayRetry, UpdateRow, Finishes, Return
    <3>1. exec[j][l].stage # "idle"
      OBVIOUS
    <3>2. /\ status[j] = "running" /\ attempts[j] = exec[j][l].attempts
          /\ attempts[j] \in Nat /\ MaxAttempts \in Nat /\ attempts[j] < MaxAttempts
      BY ONLY IInv, <3>1, HeldJob
    <3>3. Verdict[j] = "open" /\ Verdict' = Verdict
      BY <3>2
    <3>4. attempts' = [attempts EXCEPT ![j] = attempts[j] + 1]
      BY <3>2
    <3>5. Ledger!Fail(j)
      BY <3>2, <3>3, <3>4 DEF Ledger!Fail
    <3> QED
      BY <3>5 DEF Ledger!Next
  <2>8. CASE FinishFails(j, l)
    BY <2>8 DEF FinishFails, Return
  <2> QED
    BY <1>13, <2>1, <2>2, <2>3, <2>4, <2>5, <2>6, <2>7, <2>8 DEF Execute
<1>14. CASE UNCHANGED vars
  BY <1>14 DEF vars
<1> QED
  BY <1>1, <1>2, <1>3, <1>4, <1>5, <1>6, <1>7,
     <1>8, <1>9, <1>10, <1>11, <1>12, <1>13, <1>14 DEF Next, PollLoop

\* The queue implements the ledger.
THEOREM ImplementsLedger == Spec => LedgerSpec
<1>1. Init => Ledger!Init
  BY DEF Init, Ledger!Init, Verdict
<1> QED
  BY <1>1, LedgerStep, Invariant, PTL DEF Spec, LedgerSpec, Ledger!Spec

-----------------------------------------------------------------------------
(***************************************************************************)
(* Failed Runs and repeated Runs.                                          *)
(***************************************************************************)

\* A failed Run of j is about to be booked; j is held.
Booking(j) == \E l \in Lanes : exec[j][l].stage = "failed"

Held(j) == \E l \in Lanes : exec[j][l].stage # "idle"

\* The one Run that the present life of the process may still lose: until its
\* end while it is up, until the goroutine that holds j has tried to write its
\* verdict once the databases are closed.
MayLose(j) == ~Booking(j) /\ (process = "up" \/ (process = "closed" /\ Held(j)))

\* Every life of the process loses one failed Run of a job at most, every
\* database error another one; a process that is there has been started.
LossesCounted ==
  /\ process # "down" => starts > 0
  /\ \A j \in Jobs :
       failures[j] + (IF MayLose(j) THEN 1 ELSE 0) <= attempts[j] + starts + faults

\* A process that is there has been started.
LEMMA StartsCounted ==
  ASSUME IInv, process # "down" => starts > 0, [Next]_vars
  PROVE  process' # "down" => starts' > 0
<1>1. CASE Start
  BY <1>1 DEF Start, IInv, TypeOK
<1>2. CASE ~Start
  <2>1. starts' = starts /\ (process' # "down" => process # "down")
    BY <1>2 DEF Next, Cancel, SignalArrives, CloseDatabases, Exit, Crash, Vanish, Open, Enqueue,
                PollLoop, ResetOrphaned, ResetWrites, ResetFails, ClaimPending, SpawnExecutors,
                ClaimFails, PollLoopExits, Execute, BeginRun, RunSucceeds, RunFails, Complete,
                BuryUnknown, BuryExhausted, Retry, Finishes, FinishFails, lifecycle, vars
  <2> QED
    BY <2>1
<1> QED
  BY <1>1, <1>2

\* What the present life may lose is all that a step can add to the losses.
Balanced(j) ==
  \/ /\ failures'[j] = failures[j] /\ attempts'[j] = attempts[j] /\ starts' = starts
     /\ faults' = faults \/ faults' = faults + 1
     /\ MayLose(j)' => MayLose(j)
  \/ /\ failures'[j] = failures[j]
     /\ \/ attempts'[j] = attempts[j] + 1 /\ starts' = starts /\ faults' = faults
        \/ attempts'[j] = attempts[j] /\ starts' = starts + 1 /\ faults' = faults
        \/ attempts'[j] = attempts[j] /\ starts' = starts /\ faults' = faults + 1
  \/ /\ failures'[j] = failures[j] + 1 /\ attempts'[j] = attempts[j]
     /\ starts' = starts /\ faults' = faults
     /\ MayLose(j) /\ ~MayLose(j)'

\* Every step is balanced: an attempt, a start or an error of the database pays
\* for the failed Run that goes by unbooked.
LEMMA StepsBalanced ==
  ASSUME IInv, [Next]_vars PROVE \A j \in Jobs : Balanced(j)
<1> DEFINE Goal == \A j \in Jobs : Balanced(j)
<1> TypeOK /\ HeldRecordIsCurrent /\ ExclusiveExecution
  BY DEF IInv
<1>0. /\ \A j \in Jobs \ (history \cup graveyard) : status[j] = "absent" => attempts[j] = 0
      /\ process = "down" => \A j \in Jobs, l \in Lanes : exec[j][l].stage = "idle"
  BY DEF IInv, AttemptLeft, HoldersFollowReset
<1> USE DEF Balanced, MayLose, Booking, Held, TypeOK, Idle, Open, Live, AtStage, lifecycle,
            tables, ghosts
<1>1. CASE Start
  BY <1>1 DEF Start
<1>2. CASE Cancel
  BY <1>2 DEF Cancel, SignalArrives
<1>3. CASE CloseDatabases
  BY <1>3 DEF CloseDatabases
<1>4. CASE Exit
  BY <1>4 DEF Exit, Vanish
<1>5. CASE Crash
  BY <1>5 DEF Crash, Vanish
<1>6. CASE ResetOrphaned
  BY <1>6 DEF ResetOrphaned, Requeue, ResetWrites
<1>7. CASE ResetFails
  BY <1>7 DEF ResetFails, DatabaseFails
<1>8. CASE ClaimPending
  BY <1>8 DEF ClaimPending, Pending
<1>9. CASE SpawnExecutors
  BY <1>9 DEF SpawnExecutors
<1>10. CASE ClaimFails
  BY <1>10 DEF ClaimFails, DatabaseFails
<1>11. CASE PollLoopExits
  BY <1>11 DEF PollLoopExits
<1>12. ASSUME NEW j \in Jobs, Enqueue(j) PROVE Goal
  <2>1. attempts' = attempts
    BY <1>0, <1>12 DEF Enqueue
  <2> QED
    BY <1>12, <2>1 DEF Enqueue
<1>13. ASSUME NEW j \in Jobs, NEW l \in Lanes, Execute(j, l)
      PROVE  Goal
  <2>1. exec[j][l].stage \notin {"idle", "fetched"}
    BY <1>13 DEF Execute, BeginRun, RunSucceeds, RunFails, Complete, BuryUnknown, BuryExhausted,
                 Retry, MayRetry, FinishFails
  <2>2. \A m \in Lanes : m # l => exec[j][m].stage = "idle"
    BY <2>1 DEF ExclusiveExecution
  <2>3. /\ status[j] = "running" /\ attempts[j] = exec[j][l].attempts
        /\ Booking(j) <=> exec[j][l].stage = "failed"
        /\ Held(j)
    BY <2>1, <2>2 DEF HeldRecordIsCurrent
  <2>4. ASSUME NEW r, exec' = [exec EXCEPT ![j][l] = r]
        PROVE  /\ Booking(j)' <=> r.stage = "failed"
               /\ Held(j)' <=> r.stage # "idle"
               /\ \A k \in Jobs : k # j => Booking(k)' = Booking(k) /\ Held(k)' = Held(k)
    <3>1. exec'[j][l] = r /\ \A m \in Lanes : m # l => exec'[j][m].stage = "idle"
      BY <2>2, <2>4
    <3>2. \A k \in Jobs : k # j => exec'[k] = exec[k]
      BY <2>4
    <3> QED
      BY <3>1, <3>2
  <2> USE DEF NewAttempts
  <2>5. CASE BeginRun(j, l) \/ RunSucceeds(j, l)
    <3>1. PICK r : r.stage \in {"running", "ok"} /\ exec' = [exec EXCEPT ![j][l] = r]
      BY <2>5 DEF BeginRun, RunSucceeds, Move
    <3>2. ~Booking(j)' /\ Held(j)' /\ \A k \in Jobs : k # j => Booking(k)' = Booking(k) /\ Held(k)' = Held(k)
      BY <2>4, <3>1
    <3>3. ~Booking(j) /\ UNCHANGED <<failures, attempts, starts, faults, process>>
      BY <2>3, <2>5 DEF BeginRun, RunSucceeds
    <3> HIDE DEF Booking, Held
    <3> QED
      BY ONLY <2>3, <3>2, <3>3 DEF Goal, Balanced, MayLose
  <2>6. CASE RunFails(j, l)
    <3>1. PICK r : r.stage = "failed" /\ exec' = [exec EXCEPT ![j][l] = r]
      BY <2>6 DEF RunFails, Move
    <3>2. Booking(j)' /\ \A k \in Jobs : k # j => Booking(k)' = Booking(k) /\ Held(k)' = Held(k)
      BY <2>4, <3>1
    <3>3. /\ ~Booking(j) /\ UNCHANGED <<attempts, starts, faults, process>>
          /\ failures'[j] = failures[j] + 1
          /\ \A k \in Jobs : k # j => failures'[k] = failures[k]
      BY <2>3, <2>6 DEF RunFails
    <3>4. process # "down"
      BY <1>0, <2>1
    <3>5. process = "up" \/ process = "closed"
      BY <3>4
    <3> QED
      BY ONLY <2>3, <3>2, <3>3, <3>5 DEF Goal, Balanced, MayLose
  <2>7. ASSUME Return(j, l), UNCHANGED <<failures, starts, process>>,
               \A k \in Jobs : k # j => attempts'[k] = attempts[k],
               \/ attempts'[j] = attempts[j] + 1 /\ faults' = faults
               \/ attempts' = attempts /\ faults' = faults + 1
               \/ /\ attempts' = attempts /\ faults' = faults
                  /\ exec[j][l].stage # "failed" \/ process = "closed"
        PROVE  Goal
    <3>1. PICK r : r.stage = "idle" /\ exec' = [exec EXCEPT ![j][l] = r]
      BY <2>7 DEF Return
    <3>2. ~Booking(j)' /\ ~Held(j)' /\ \A k \in Jobs : k # j => Booking(k)' = Booking(k) /\ Held(k)' = Held(k)
      BY <2>4, <3>1
    <3>3. \A k \in Jobs : k # j => MayLose(k)' = MayLose(k)
      BY ONLY <2>7, <3>2 DEF MayLose
    <3>4. exec[j][l].stage # "failed" \/ process = "closed" => (MayLose(j)' => MayLose(j))
      BY ONLY <2>3, <2>7, <3>2 DEF MayLose
    <3> HIDE DEF MayLose, Booking, Held
    <3>5. Balanced(j)
      BY <2>7, <3>4
    <3>6. \A k \in Jobs : k # j => Balanced(k)
      BY <2>7, <3>3
    <3> QED
      BY <3>5, <3>6
  <2>8. CASE Complete(j, l)
    BY <2>3, <2>7, <2>8 DEF Complete, FileDone, Finishes
  <2>9. CASE BuryUnknown(j, l)
    BY <2>3, <2>7, <2>9 DEF BuryUnknown, FileBuried, Finishes
  <2>10. CASE BuryExhausted(j, l)
    BY <2>3, <2>7, <2>10 DEF BuryExhausted, FileBuried, Finishes
  <2>11. CASE Retry(j, l)
    BY <2>3, <2>7, <2>11 DEF Retry, UpdateRow, Finishes
  <2>12. CASE FinishFails(j, l)
    BY <2>3, <2>7, <2>12 DEF FinishFails, DatabaseFails
  <2> QED
    BY <1>13, <2>5, <2>6, <2>8, <2>9, <2>10, <2>11, <2>12 DEF Execute
<1>14. CASE UNCHANGED vars
  BY <1>14 DEF vars
<1> QED
  BY <1>1, <1>2, <1>3, <1>4, <1>5, <1>6, <1>7,
     <1>8, <1>9, <1>10, <1>11, <1>12, <1>13, <1>14 DEF Next, PollLoop

\* No life of the process loses two failed Runs of a job.
LEMMA LossesPreserved == LossesCounted /\ IInv /\ [Next]_vars => LossesCounted'
<1> SUFFICES ASSUME LossesCounted, IInv, [Next]_vars PROVE LossesCounted'
  OBVIOUS
<1>1. ASSUME NEW j \in Jobs
      PROVE  failures'[j] + (IF MayLose(j)' THEN 1 ELSE 0) <= attempts'[j] + starts' + faults'
  <2>1. failures[j] \in Nat /\ attempts[j] \in Nat /\ starts \in Nat /\ faults \in Nat
    BY DEF IInv, TypeOK
  <2>2. failures[j] + (IF MayLose(j) THEN 1 ELSE 0) <= attempts[j] + starts + faults
    BY DEF LossesCounted
  <2>3. Balanced(j)
    BY StepsBalanced
  <2> QED
    BY <2>1, <2>2, <2>3 DEF Balanced
<1>2. process' # "down" => starts' > 0
  BY StartsCounted DEF LossesCounted
<1> QED
  BY <1>1, <1>2 DEF LossesCounted

\* A job that succeeded in this life of the process is filed, or its row is
\* still running, past the reset, with nobody to hold it but the executor that
\* is about to file it.
FiledOrInterrupted ==
  \A j \in Jobs :
    /\ succeeded[j] <= starts
    /\ process # "down" /\ succeeded[j] = starts =>
         \/ j \in history
         \/ /\ status[j] = "running"
            /\ loop # "reset"
            /\ \A l \in Lanes : exec[j][l].stage \in {"idle", "ok"}

\* Only the next start of the process opens a job again that has succeeded.
LEMMA FiledPreserved == FiledOrInterrupted /\ IInv /\ [Next]_vars => FiledOrInterrupted'
<1> SUFFICES ASSUME FiledOrInterrupted, IInv, [Next]_vars PROVE FiledOrInterrupted'
  OBVIOUS
<1> TypeOK /\ ExclusiveExecution /\ HeldRecordIsCurrent /\ HoldersFollowReset
  BY DEF IInv
<1> USE DEF FiledOrInterrupted, TypeOK, Idle, Open, Live, AtStage, lifecycle, tables, ghosts
<1>1. CASE Start
  BY <1>1 DEF Start
<1>2. CASE Cancel
  BY <1>2 DEF Cancel, SignalArrives
<1>3. CASE CloseDatabases
  BY <1>3 DEF CloseDatabases
<1>4. CASE Exit
  BY <1>4 DEF Exit, Vanish
<1>5. CASE Crash
  BY <1>5 DEF Crash, Vanish
<1>6. CASE ResetOrphaned
  BY <1>6 DEF ResetOrphaned, Requeue, ResetWrites
<1>7. CASE ResetFails
  BY <1>7 DEF ResetFails, DatabaseFails
<1>8. CASE ClaimPending
  BY <1>8 DEF ClaimPending, Pending
<1>9. CASE SpawnExecutors
  BY <1>9 DEF SpawnExecutors
<1>10. CASE ClaimFails
  BY <1>10 DEF ClaimFails, DatabaseFails
<1>11. CASE PollLoopExits
  BY <1>11 DEF PollLoopExits
<1>12. CASE \E j \in Jobs : Enqueue(j)
  BY <1>12 DEF Enqueue
<1>13. ASSUME NEW j \in Jobs, NEW l \in Lanes, Execute(j, l)
      PROVE  FiledOrInterrupted'
  <2>1. CASE BeginRun(j, l)
    BY <2>1 DEF BeginRun, Move
  <2>2. CASE RunSucceeds(j, l)
    BY <2>2 DEF RunSucceeds, Move, ExclusiveExecution, HeldRecordIsCurrent, HoldersFollowReset
  <2>3. CASE RunFails(j, l)
    BY <2>3 DEF RunFails, Move
  <2>4. CASE Complete(j, l)
    BY <2>4 DEF Complete, FileDone, DeleteRow, Finishes, Return
  <2>5. CASE BuryUnknown(j, l)
    BY <2>5 DEF BuryUnknown, FileBuried, DeleteRow, Finishes, Return
  <2>6. CASE BuryExhausted(j, l)
    BY <2>6 DEF BuryExhausted, FileBuried, DeleteRow, Finishes, Return
  <2>7. CASE Retry(j, l)
    BY <2>7 DEF Retry, MayRetry, UpdateRow, Finishes, Return
  <2>8. CASE FinishFails(j, l)
    BY <2>8 DEF FinishFails, Return, DatabaseFails
  <2> QED
    BY <1>13, <2>1, <2>2, <2>3, <2>4, <2>5, <2>6, <2>7, <2>8 DEF Execute
<1>14. CASE UNCHANGED vars
  BY <1>14 DEF vars
<1> QED
  BY <1>1, <1>2, <1>3, <1>4, <1>5, <1>6, <1>7,
     <1>8, <1>9, <1>10, <1>11, <1>12, <1>13, <1>14 DEF Next, PollLoop

\* Failing Runs are counted: a job that keeps failing is buried after as many
\* Runs as it has attempts and the process has been interrupted (executeQueued,
\* worker.go), whatever the number of jobs and of restarts.
THEOREM Booked == Spec => []FailuresBooked
<1>1. Init => LossesCounted
  BY DEF Init, LossesCounted, MayLose
<1>2. ASSUME LossesCounted, IInv PROVE FailuresBooked
  <2>1. ASSUME NEW j \in Jobs
        PROVE  failures[j] <= attempts[j] + Interruptions
                              + Cardinality({l \in Lanes : exec[j][l].stage = "failed"})
    <3> DEFINE F == {l \in Lanes : exec[j][l].stage = "failed"}
    <3>1. /\ failures[j] \in Nat /\ attempts[j] \in Nat /\ starts \in Nat /\ faults \in Nat
          /\ failures[j] + (IF MayLose(j) THEN 1 ELSE 0) <= attempts[j] + starts + faults
          /\ process = "up" => starts > 0
      BY <1>2 DEF IInv, TypeOK, LossesCounted
    <3>2. CASE Booking(j)
      <4>1. PICK l \in Lanes : exec[j][l].stage = "failed"
        BY <3>2 DEF Booking
      <4>2. F = {l}
        BY <1>2, <4>1 DEF IInv, ExclusiveExecution
      <4>3. Cardinality(F) = 1
        BY <4>2, FS_Singleton
      <4> QED
        BY <3>1, <4>3 DEF Interruptions
    <3>3. CASE ~Booking(j)
      <4>1. F = {}
        BY <3>3 DEF Booking
      <4>2. Cardinality(F) = 0
        BY <4>1, FS_EmptySet
      <4>3. process = "up" => MayLose(j)
        BY <3>3 DEF MayLose
      <4> QED
        BY <3>1, <4>2, <4>3 DEF Interruptions
    <3> QED
      BY <3>2, <3>3
  <2> QED
    BY <2>1 DEF FailuresBooked
<1> QED
  BY <1>1, <1>2, LossesPreserved, Invariant, PTL DEF Spec

\* A job that has succeeded is not run again by the process it succeeded in,
\* whatever statements fail: only a later one may (resetOrphaned, worker.go).
THEOREM RunOnce == Spec => RepeatOnlyIfInterrupted
<1> DEFINE Once == \A j \in Jobs, l \in Lanes :
                     AtStage(j, l, "claimed") /\ exec'[j][l].stage = "running"
                       => succeeded[j] < starts
<1>1. Init => FiledOrInterrupted
  BY DEF Init, FiledOrInterrupted
<1>2. FiledOrInterrupted /\ IInv => Once
  <2> SUFFICES ASSUME FiledOrInterrupted, IInv,
                      NEW j \in Jobs, NEW l \in Lanes, AtStage(j, l, "claimed")
               PROVE  succeeded[j] < starts
    OBVIOUS
  <2>1. process # "down" /\ status[j] = "running"
    BY DEF IInv, HeldRecordIsCurrent, HoldersFollowReset, AtStage
  <2>2. j \notin history
    BY <2>1 DEF IInv, OneTable
  <2>3. succeeded[j] # starts
    BY <2>1, <2>2 DEF FiledOrInterrupted, AtStage
  <2>4. succeeded[j] \in Nat /\ starts \in Nat
    BY DEF IInv, TypeOK
  <2> QED
    BY <2>3, <2>4 DEF FiledOrInterrupted
<1>3. Spec => [][Once]_vars
  BY <1>1, <1>2, FiledPreserved, Invariant, PTL DEF Spec
<1> QED
  BY <1>3 DEF RepeatOnlyIfInterrupted
=============================================================================
