---------------------------- MODULE JobScheduler ----------------------------
(***************************************************************************)
(* The scheduled runs of the background jobs: one goroutine per job with an *)
(* interval runs it once at the start and then whenever its ticker has      *)
(* fired, until the context is cancelled.  TriggerJob runs a job besides,   *)
(* with a context of its own.  The queue of jobs is WorkerQueue's.          *)
(*                                                                         *)
(* time.Ticker is modelled from its use: its channel holds one tick, a      *)
(* tick that finds it full is dropped.                                      *)
(***************************************************************************)
EXTENDS Naturals

CONSTANTS Jobs,          \* the names registered with an interval
          MaxTriggered   \* bound: direct runs of one job at a time

ASSUME MaxTriggeredOK == MaxTriggered \in Nat

VARIABLES
    loop,       \* the goroutine of each job
    ticking,    \* does its ticker exist?
    tick,       \* does the ticker's channel hold a tick?
    cancelled,  \* ctx is cancelled
    triggered   \* the direct runs in progress

schedulerVars == <<loop, ticking, tick, cancelled, triggered>>

SchedulerInit ==
    /\ loop = [j \in Jobs |-> "off"]
    /\ ticking = [j \in Jobs |-> FALSE] /\ tick = [j \in Jobs |-> FALSE]
    /\ cancelled = FALSE
    /\ triggered = [j \in Jobs |-> 0]

Become(j, s) == loop' = [loop EXCEPT ![j] = s]

\* JobRunner.Start spawns runJob, which runs the job at once.
Start ==
    /\ \A j \in Jobs : loop[j] = "off"
    /\ loop' = [j \in Jobs |-> "running"]
    /\ UNCHANGED <<ticking, tick, cancelled, triggered>>

\* runOnce returns, whether the job failed or not; the first time the ticker
\* is made, and the loop waits for it.
BugNoTicker(j) ==
    /\ loop[j] = "running"
    /\ Become(j, "waiting")
    /\ UNCHANGED <<ticking, tick, cancelled, triggered>>
RunEnds(j) ==
    /\ loop[j] = "running"
    /\ Become(j, "waiting")
    /\ ticking' = [ticking EXCEPT ![j] = TRUE]
    /\ UNCHANGED <<tick, cancelled, triggered>>

TickerFires(j) ==
    /\ ticking[j] /\ loop[j] # "gone"
    /\ tick' = [tick EXCEPT ![j] = TRUE]
    /\ UNCHANGED <<loop, ticking, cancelled, triggered>>

\* select takes either case that is ready, the tick even after the cancellation.
TakeTick(j) ==
    /\ loop[j] = "waiting" /\ tick[j]
    /\ tick' = [tick EXCEPT ![j] = FALSE]
    /\ Become(j, "running")
    /\ UNCHANGED <<ticking, cancelled, triggered>>
BugTicksFirst(j) ==
    /\ loop[j] = "waiting" /\ cancelled /\ ~tick[j]
    /\ Become(j, "gone")
    /\ UNCHANGED <<ticking, tick, cancelled, triggered>>
SeeDone(j) ==
    /\ loop[j] = "waiting" /\ cancelled
    /\ Become(j, "gone")
    /\ UNCHANGED <<ticking, tick, cancelled, triggered>>

Cancel ==
    /\ ~cancelled
    /\ \A j \in Jobs : loop[j] # "off"
    /\ cancelled' = TRUE
    /\ UNCHANGED <<loop, ticking, tick, triggered>>

\* TriggerJob: a goroutine with context.Background().
TriggerJob(j) ==
    /\ triggered[j] < MaxTriggered
    /\ triggered' = [triggered EXCEPT ![j] = @ + 1]
    /\ UNCHANGED <<loop, ticking, tick, cancelled>>
TriggeredEnds(j) ==
    /\ triggered[j] > 0
    /\ triggered' = [triggered EXCEPT ![j] = @ - 1]
    /\ UNCHANGED <<loop, ticking, tick, cancelled>>

SchedulerNext == Start \/ Cancel \/ \E j \in Jobs :
            \/ RunEnds(j) \/ TickerFires(j) \/ TakeTick(j) \/ SeeDone(j)
            \/ TriggerJob(j) \/ TriggeredEnds(j)

SchedulerSpec == SchedulerInit /\ [][SchedulerNext]_schedulerVars

-----------------------------------------------------------------------------

\* The types; a goroutine whose ticker holds a tick has made it.
SchedulerTypeOK ==
    /\ loop \in [Jobs -> {"off", "running", "waiting", "gone"}]
    /\ ticking \in [Jobs -> BOOLEAN] /\ tick \in [Jobs -> BOOLEAN]
    /\ \A j \in Jobs : loop[j] \in {"waiting", "gone"} => ticking[j]
    /\ cancelled \in BOOLEAN
    /\ triggered \in [Jobs -> 0..MaxTriggered]

\* Until the context is cancelled every job runs again and again, failed runs
\* or not: what expires is swept some time.
JobsRunAgain ==
    \A j \in Jobs : loop[j] # "off" ~> (loop[j] = "running" \/ cancelled)

\* "All goroutines exit when ctx is cancelled" (worker.go:69), though a job that
\* takes longer than its interval always finds a tick waiting.
LoopsEnd == cancelled ~> \A j \in Jobs : loop[j] = "gone"

\* runJob neither stops before it is told to nor goes on after it.
JobsRunUntilCancelled == JobsRunAgain /\ LoopsEnd
=============================================================================
