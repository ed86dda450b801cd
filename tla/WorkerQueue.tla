----------------------------- MODULE WorkerQueue -----------------------------
(***************************************************************************)
(* The database-backed job queue of internal/platform/worker: the tables   *)
(* job_queue, job_history and job_graveyard, the poll loop that claims     *)
(* rows, one executor goroutine per claimed row, and the life of the       *)
(* server process around them (start, SIGTERM, closed databases, crash).   *)
(*                                                                         *)
(* The worker database has a single connection (db.go, SetMaxOpenConns),   *)
(* so a statement or a transaction of the queue is one atomic step.  What  *)
(* the code does between two statements is a step of its own.              *)
(*                                                                         *)
(* The payload of a job plays no part: it was produced by json.Marshal in  *)
(* enqueue, so the error branch of json.Unmarshal is not reachable.        *)
(***************************************************************************)
EXTENDS Naturals, FiniteSets

CONSTANTS Jobs,          \* ids (uuids) of the rows Enqueue inserts
          Lanes,         \* per job, places for its executor goroutines
          Names,         \* job names
          NameOf,        \* the name each job is enqueued under
          MaxAttempts,   \* maxAttempts of queue.go
          MaxStarts,     \* bound: starts of the process
          MaxFaults      \* bound: database errors while the database is open

ASSUME NameOfAssumption == NameOf \in [Jobs -> Names]
ASSUME MaxAttemptsAssumption == MaxAttempts \in Nat \ {0}
ASSUME BoundsAssumption == MaxStarts \in Nat /\ MaxFaults \in Nat

VARIABLES
  process,     \* "down", "up", or "closed": databases closed, process not yet gone
  context,     \* the context given to JobRunner.Start: "live" or "cancelled"
  loop,        \* pollLoop: "off", "reset", "wait", "claiming", "exited"
  registered,  \* names in jobMap of the running build
  status,      \* job_queue.status, "absent" when there is no row
  attempts,    \* the attempts column, in whichever table holds the job
  history,     \* ids in job_history
  graveyard,   \* ids in job_graveyard
  lastError,   \* job_graveyard.last_error: "unknown" (job) or "error" (of Run)
  exec,        \* exec[j][l]: the record a poll or an executor of j holds, and its stage
  succeeded,   \* history variable: the start in whose life a Run of the job last returned nil, or 0
  failures,    \* history variable: how many Runs of the job have returned an error
  starts,      \* starts of the process so far
  faults       \* database errors so far

lifecycle == <<process, context, registered, starts>>
tables    == <<status, attempts, history, graveyard, lastError>>
ghosts    == <<succeeded, failures>>
vars      == <<lifecycle, tables, ghosts, loop, exec, faults>>

Stages == {"idle", "fetched", "claimed", "running", "ok", "failed"}

Idle == [stage |-> "idle", attempts |-> 0]

TypeOK ==
  /\ process \in {"down", "up", "closed"}
  /\ context \in {"live", "cancelled"}
  /\ loop \in {"off", "reset", "wait", "claiming", "exited"}
  /\ registered \subseteq Names
  /\ status \in [Jobs -> {"absent", "pending", "running"}]
  /\ attempts \in [Jobs -> Nat]
  /\ history \subseteq Jobs
  /\ graveyard \subseteq Jobs
  /\ lastError \in [Jobs -> {"none", "unknown", "error"}]
  /\ exec \in [Jobs -> [Lanes -> [stage : Stages, attempts : Nat]]]
  /\ succeeded \in [Jobs -> Nat]
  /\ failures \in [Jobs -> Nat]
  /\ starts \in Nat
  /\ faults \in Nat

Init ==
  /\ process = "down"
  /\ context = "live"
  /\ loop = "off"
  /\ registered = {}
  /\ status = [j \in Jobs |-> "absent"]
  /\ attempts = [j \in Jobs |-> 0]
  /\ history = {}
  /\ graveyard = {}
  /\ lastError = [j \in Jobs |-> "none"]
  /\ exec = [j \in Jobs |-> [l \in Lanes |-> Idle]]
  /\ succeeded = [j \in Jobs |-> 0]
  /\ failures = [j \in Jobs |-> 0]
  /\ starts = 0
  /\ faults = 0

-----------------------------------------------------------------------------
(***************************************************************************)
(* The database as the queue sees it.                                      *)
(***************************************************************************)
Open == process = "up"

Live == context = "live"

\* A statement fails: the database was closed under it, or an I/O error of
\* which there are at most MaxFaults.
DatabaseFails ==
  \/ process = "closed" /\ UNCHANGED faults
  \/ Open /\ faults < MaxFaults /\ faults' = faults + 1

Pending == {j \in Jobs : status[j] = "pending"}

UnknownName(j) == NameOf[j] \notin registered

\* The goroutine in lane l of job j returns.
Return(j, l) == exec' = [exec EXCEPT ![j][l] = Idle]

-----------------------------------------------------------------------------
(***************************************************************************)
(* Life of the process (cmd/server/main.go, Server.Start).                 *)
(***************************************************************************)

\* The process starts, possibly as a new build with other jobs registered;
\* JobRunner.Start spawns pollLoop before the HTTP server accepts requests.
Start ==
  /\ process = "down"
  /\ starts < MaxStarts
  /\ process' = "up"
  /\ context' = "live"
  /\ \E names \in SUBSET Names : registered' = names
  /\ starts' = starts + 1
  /\ loop' = "reset"
  /\ UNCHANGED <<tables, ghosts, exec, faults>>

SignalArrives == /\ Open /\ Live
                 /\ starts < MaxStarts
                 /\ context' = "cancelled"
                 /\ UNCHANGED <<process, registered, starts, attempts, history, graveyard,
                                lastError, ghosts, loop, exec, faults>>

\* Bug: a shutdown hands running jobs back at once, executors notwithstanding.
BugCancelRequeues ==
  /\ SignalArrives
  /\ status' = [j \in Jobs |-> IF status[j] = "running" THEN "pending" ELSE status[j]]

\* SIGINT or SIGTERM: shutdownContext is cancelled, requests are drained.
Cancel == SignalArrives /\ UNCHANGED status

\* End of Server.Start, after the drain or, with the context still live,
\* after ListenAndServe failed: the databases are closed under whatever
\* goroutine is still running.
CloseDatabases ==
  /\ Open
  /\ starts < MaxStarts
  /\ process' = "closed"
  /\ UNCHANGED <<context, registered, starts, tables, ghosts, loop, exec, faults>>

\* The process is gone, and every goroutine with it.
Vanish ==
  /\ process' = "down"
  /\ loop' = "off"
  /\ exec' = [j \in Jobs |-> [l \in Lanes |-> Idle]]
  /\ UNCHANGED <<context, registered, starts, tables, ghosts, faults>>

Exit == process = "closed" /\ Vanish

Crash == Open /\ starts < MaxStarts /\ Vanish

-----------------------------------------------------------------------------
(***************************************************************************)
(* Enqueue.                                                                *)
(***************************************************************************)

\* Enqueue of a registered name; an unknown name and a failed insert return
\* an error and store nothing.
Enqueue(j) ==
  /\ Open
  /\ ~UnknownName(j)
  /\ status[j] = "absent" /\ j \notin history \cup graveyard
  /\ status' = [status EXCEPT ![j] = "pending"]
  /\ attempts' = [attempts EXCEPT ![j] = 0]
  /\ UNCHANGED <<lifecycle, history, graveyard, lastError, ghosts, loop, exec, faults>>

-----------------------------------------------------------------------------
(***************************************************************************)
(* pollLoop.                                                               *)
(***************************************************************************)
\* The UPDATE of resetOrphaned.
Requeue(to) == status' = [j \in Jobs |-> IF status[j] = "running" THEN to ELSE status[j]]

ResetWrites == /\ Open /\ Live
               /\ loop' = "wait"
               /\ UNCHANGED <<lifecycle, attempts, history, graveyard, lastError, ghosts, exec, faults>>

\* Bug: orphans are reset on every tick, not only before the first claim.
BugResetEveryTick == loop \in {"reset", "wait"} /\ Requeue("pending") /\ ResetWrites

\* Bug: polling starts without the reset.
BugNoReset == loop = "reset" /\ UNCHANGED status /\ ResetWrites

\* Bug: the reset writes a status no other statement knows.
BugResetStatus == loop = "reset" /\ Requeue("queued") /\ ResetWrites

\* resetOrphaned, once, before the first claim.
ResetOrphaned == loop = "reset" /\ Requeue("pending") /\ ResetWrites

\* The error of resetOrphaned is only logged; polling starts all the same.
ResetFails ==
  /\ loop = "reset"
  /\ \/ ~Live /\ UNCHANGED faults
     \/ DatabaseFails
  /\ loop' = "wait"
  /\ UNCHANGED <<lifecycle, tables, ghosts, exec>>

\* The UPDATE ... RETURNING of claimPending: every pending row becomes
\* running, and its record is on its way to the poll loop.
ClaimPending ==
  /\ loop = "wait"
  /\ Open /\ Live
  /\ \E lane \in [Pending -> Lanes] :
       /\ \A j \in Pending : exec[j][lane[j]].stage = "idle"
       /\ exec' = [j \in Jobs |-> [l \in Lanes |->
                     IF j \in Pending /\ l = lane[j]
                       THEN [stage |-> "fetched", attempts |-> attempts[j]]
                       ELSE exec[j][l]]]
  /\ status' = [j \in Jobs |-> IF j \in Pending THEN "running" ELSE status[j]]
  /\ loop' = "claiming"
  /\ UNCHANGED <<lifecycle, attempts, history, graveyard, lastError, ghosts, faults>>

\* processQueue: claimPending returned its records, one goroutine for each.
SpawnExecutors ==
  /\ loop = "claiming"
  /\ exec' = [j \in Jobs |-> [l \in Lanes |->
                IF exec[j][l].stage = "fetched"
                  THEN [stage |-> "claimed", attempts |-> exec[j][l].attempts]
                  ELSE exec[j][l]]]
  /\ loop' = "wait"
  /\ UNCHANGED <<lifecycle, tables, ghosts, faults>>

\* The iteration over the returned rows fails (the context is cancelled, the
\* database is closed, an error): the rows stay running and nobody holds them.
ClaimFails ==
  /\ loop = "claiming"
  /\ \/ ~Live /\ UNCHANGED faults
     \/ DatabaseFails
  /\ exec' = [j \in Jobs |-> [l \in Lanes |->
                IF exec[j][l].stage = "fetched" THEN Idle ELSE exec[j][l]]]
  /\ loop' = "wait"
  /\ UNCHANGED <<lifecycle, tables, ghosts>>

PollLoopExits ==
  /\ loop = "wait"
  /\ ~Live
  /\ loop' = "exited"
  /\ UNCHANGED <<lifecycle, tables, ghosts, exec, faults>>

-----------------------------------------------------------------------------
(***************************************************************************)
(* executeQueued, in lane l of job j.                                      *)
(***************************************************************************)
AtStage(j, l, stage) == exec[j][l].stage = stage

\* The executor goes on with the record it holds.
Move(j, l, stage) ==
  exec' = [exec EXCEPT ![j][l] = [stage |-> stage, attempts |-> exec[j][l].attempts]]

NewAttempts(j, l) == exec[j][l].attempts + 1

\* The name is registered: job.Run is called.
BeginRun(j, l) ==
  /\ AtStage(j, l, "claimed")
  /\ ~UnknownName(j)
  /\ Move(j, l, "running")
  /\ UNCHANGED <<lifecycle, tables, ghosts, loop, faults>>

RunSucceeds(j, l) ==
  /\ AtStage(j, l, "running")
  /\ Move(j, l, "ok")
  /\ succeeded' = [succeeded EXCEPT ![j] = starts]
  /\ UNCHANGED <<lifecycle, tables, failures, loop, faults>>

\* Run returns an error, its own or that of a cancelled context.
RunFails(j, l) ==
  /\ AtStage(j, l, "running")
  /\ Move(j, l, "failed")
  /\ failures' = [failures EXCEPT ![j] = @ + 1]
  /\ UNCHANGED <<lifecycle, tables, succeeded, loop, faults>>

\* The last statement of executeQueued: a write to the worker database, after
\* which the goroutine returns.
Finishes(j, l) == /\ Open
                  /\ Return(j, l)
                  /\ UNCHANGED <<lifecycle, ghosts, loop, faults>>

\* INSERT INTO job_history and INSERT INTO job_graveyard.
FileDone(j, l) == /\ j \notin history
                  /\ history' = history \cup {j}
                  /\ attempts' = [attempts EXCEPT ![j] = NewAttempts(j, l)]
                  /\ UNCHANGED <<graveyard, lastError>>

FileBuried(j, count, reason) == /\ j \notin graveyard
                                /\ graveyard' = graveyard \cup {j}
                                /\ attempts' = [attempts EXCEPT ![j] = count]
                                /\ lastError' = [lastError EXCEPT ![j] = reason]
                                /\ UNCHANGED history

\* DELETE of the row of j from job_queue.
DeleteRow(j) == status' = [status EXCEPT ![j] = "absent"]

\* UPDATE of the row of j, which does nothing when there is none.
UpdateRow(j, to, count) ==
  /\ IF status[j] = "absent"
       THEN UNCHANGED <<status, attempts>>
       ELSE /\ status' = [status EXCEPT ![j] = to]
            /\ attempts' = [attempts EXCEPT ![j] = count]
  /\ UNCHANGED <<history, graveyard, lastError>>

\* Bug: complete files the job but does not delete its row.
BugCompleteKeepsRow(j, l) ==
  AtStage(j, l, "ok") /\ FileDone(j, l) /\ UNCHANGED status /\ Finishes(j, l)

\* complete: the transaction that moves the row to job_history.
Complete(j, l) ==
  AtStage(j, l, "ok") /\ FileDone(j, l) /\ DeleteRow(j) /\ Finishes(j, l)

\* Bug: an attempt that never ran is counted.
BugUnknownCounts(j, l) ==
  /\ AtStage(j, l, "claimed") /\ UnknownName(j)
  /\ FileBuried(j, NewAttempts(j, l), "unknown")
  /\ DeleteRow(j) /\ Finishes(j, l)

\* bury without a Run: the transaction that moves the row to job_graveyard.
BuryUnknown(j, l) ==
  /\ AtStage(j, l, "claimed") /\ UnknownName(j)
  /\ FileBuried(j, exec[j][l].attempts, "unknown")
  /\ DeleteRow(j) /\ Finishes(j, l)

\* Bug: off by one, the job is buried with an attempt to spare.
BugBuryEarly(j, l) ==
  /\ AtStage(j, l, "failed") /\ NewAttempts(j, l) + 1 >= MaxAttempts
  /\ FileBuried(j, NewAttempts(j, l), "error")
  /\ DeleteRow(j) /\ Finishes(j, l)

\* bury after the last attempt.
BuryExhausted(j, l) ==
  /\ AtStage(j, l, "failed") /\ NewAttempts(j, l) >= MaxAttempts
  /\ FileBuried(j, NewAttempts(j, l), "error")
  /\ DeleteRow(j) /\ Finishes(j, l)

MayRetry(j, l) == AtStage(j, l, "failed") /\ NewAttempts(j, l) < MaxAttempts

\* Bug: retry writes the count the record was read with.
BugRetryForgetsAttempt(j, l) ==
  MayRetry(j, l) /\ UpdateRow(j, "pending", exec[j][l].attempts) /\ Finishes(j, l)

\* Bug: retry updates the count and leaves the row running.
BugRetryStaysRunning(j, l) ==
  MayRetry(j, l) /\ UpdateRow(j, "running", NewAttempts(j, l)) /\ Finishes(j, l)

\* retry: the row is pending again, with the attempt counted.
Retry(j, l) ==
  MayRetry(j, l) /\ UpdateRow(j, "pending", NewAttempts(j, l)) /\ Finishes(j, l)

\* The final write of executeQueued fails and is only logged.
FinishFails(j, l) ==
  /\ \/ exec[j][l].stage \in {"ok", "failed"}
     \/ AtStage(j, l, "claimed") /\ UnknownName(j)
  /\ DatabaseFails
  /\ Return(j, l)
  /\ UNCHANGED <<lifecycle, tables, ghosts, loop>>

Execute(j, l) ==
  \/ BeginRun(j, l) \/ RunSucceeds(j, l) \/ RunFails(j, l)
  \/ Complete(j, l) \/ BuryUnknown(j, l) \/ BuryExhausted(j, l)
  \/ Retry(j, l) \/ FinishFails(j, l)

PollLoop == ResetOrphaned \/ ResetFails \/ ClaimPending \/ SpawnExecutors \/ ClaimFails \/ PollLoopExits

-----------------------------------------------------------------------------
Next ==
  \/ Start \/ Cancel \/ CloseDatabases \/ Exit \/ Crash
  \/ \E j \in Jobs : Enqueue(j)
  \/ PollLoop
  \/ \E j \in Jobs, l \in Lanes : Execute(j, l)

Spec == Init /\ [][Next]_vars

\* systemd restarts the process (Restart=always), a cancelled one closes its
\* databases after the drain (30 s at most) and exits, the ticker keeps firing,
\* and the Go scheduler runs every executor; a Run is a handful of SQL
\* statements and file removals, and returns.
Fairness ==
  /\ WF_vars(Start) /\ WF_vars(~Live /\ CloseDatabases) /\ WF_vars(Exit)
  /\ WF_vars(PollLoop)
  /\ \A j \in Jobs, l \in Lanes : WF_vars(Execute(j, l))

FairSpec == Spec /\ Fairness

-----------------------------------------------------------------------------
(***************************************************************************)
(* Properties.                                                             *)
(***************************************************************************)
Interruptions == starts - (IF process = "up" THEN 1 ELSE 0) + faults

\* Two goroutines never hold the same job, whatever crashes, resets and
\* retries came before: pollLoop resets orphans only before its first claim.
ExclusiveExecution ==
  \A j \in Jobs : \A l, m \in Lanes :
    exec[j][l].stage # "idle" /\ exec[j][m].stage # "idle" => l = m

\* The record a goroutine acts on is current: while it holds the job the row
\* is marked running and its attempts column is the one the record was read
\* with, so the verdict it writes is based on no stale count.
HeldRecordIsCurrent ==
  \A j \in Jobs, l \in Lanes : exec[j][l].stage # "idle" =>
    status[j] = "running" /\ attempts[j] = exec[j][l].attempts

\* A job is in one table at most: complete and bury move a row, they never
\* copy it, and no retry revives a job that has its verdict.
OneTable ==
  /\ history \cap graveyard = {}
  /\ \A j \in Jobs : status[j] # "absent" => j \notin history \cup graveyard

\* A verdict is earned: job_history holds only jobs a Run of which returned
\* nil, and a job is buried for errors only after MaxAttempts of its Runs
\* failed, crashes and lost writes notwithstanding.
VerdictsEarned ==
  /\ \A j \in history : succeeded[j] # 0
  /\ \A j \in graveyard : lastError[j] = "error" =>
       attempts[j] = MaxAttempts /\ failures[j] >= MaxAttempts

\* A failing job is not retried for ever: every failed Run is on the books,
\* but for one per restart or failed write (and the one being booked).
FailuresBooked ==
  \A j \in Jobs :
    failures[j] <= attempts[j] + Interruptions
                   + Cardinality({l \in Lanes : exec[j][l].stage = "failed"})

\* A live poll loop has no stranded job: past the reset, a running row that
\* nobody holds is the trace of a database error, never of a crash, of a
\* shutdown or of a claim cut short by one.
StrandedOnlyByFault ==
  loop = "wait" /\ Open /\ Live /\ faults = 0 =>
    \A j \in Jobs : status[j] = "running" => \E l \in Lanes : exec[j][l].stage # "idle"

\* A verdict is final: whatever the process does later, the job stays in its
\* table with the attempts it was filed with and never runs again.
VerdictIsFinal ==
  [][\A j \in history \cup graveyard :
       /\ j \in history <=> j \in history'
       /\ j \in graveyard <=> j \in graveyard'
       /\ attempts'[j] = attempts[j]
       /\ status'[j] = "absent"
       /\ \A l \in Lanes : exec'[j][l].stage = "idle"]_vars

\* A job that has succeeded is run again only in a later life of the process
\* than the one it succeeded in: when complete failed, its row stays running
\* and out of reach of claimPending until the next process resets it, so that
\* database errors alone never repeat a Run that returned nil.
RepeatOnlyIfInterrupted ==
  [][\A j \in Jobs, l \in Lanes :
       AtStage(j, l, "claimed") /\ exec'[j][l].stage = "running" => succeeded[j] < starts]_vars

\* Every accepted job gets its verdict, if restarts end and no write fails.
JobsSettle ==
  \A j \in Jobs : status[j] = "pending" ~> (j \in history \cup graveyard \/ faults > 0)

-----------------------------------------------------------------------------
(***************************************************************************)
(* The queue implements JobLedger: the verdict is the table that holds the *)
(* job, the attempts entered are the attempts column.                      *)
(***************************************************************************)
Verdict ==
  [j \in Jobs |-> IF j \in history THEN "done"
                  ELSE IF j \in graveyard THEN "buried"
                  ELSE IF status[j] = "absent" THEN "none" ELSE "open"]

Ledger == INSTANCE JobLedger WITH verdict <- Verdict, entered <- attempts

\* Every step of the queue is one step of the ledger or none.
LedgerSpec == Ledger!Spec
=============================================================================
