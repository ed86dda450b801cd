------------------------------ MODULE JobLedger ------------------------------
(***************************************************************************)
(* What the job queue promises to whoever enqueues a job, without a word   *)
(* about processes, goroutines or SQL: a job that was accepted is on the   *)
(* books until exactly one verdict is entered for it, each failed attempt  *)
(* is entered at most once and in order, and the book never shows more     *)
(* than MaxAttempts attempts.  A job may also be given up without a        *)
(* further attempt: that is what happens to a job whose name the running   *)
(* build no longer registers.                                              *)
(*                                                                         *)
(* WorkerQueue implements this specification (WorkerQueue!LedgerSpec).     *)
(***************************************************************************)
EXTENDS Naturals

CONSTANTS Jobs,          \* ids of the jobs
          MaxAttempts    \* attempts after which a failing job is given up

VARIABLES verdict,   \* verdict[j]: "none", "open", "done" or "buried"
          entered    \* entered[j]: attempts entered in the book for j

vars == <<verdict, entered>>

Init == /\ verdict = [j \in Jobs |-> "none"]
        /\ entered = [j \in Jobs |-> 0]

Accept(j) == /\ verdict[j] = "none"
             /\ verdict' = [verdict EXCEPT ![j] = "open"]
             /\ UNCHANGED entered

\* A failed attempt is entered and the job stays open.
Fail(j) == /\ verdict[j] = "open"
           /\ entered[j] + 1 < MaxAttempts
           /\ entered' = [entered EXCEPT ![j] = @ + 1]
           /\ UNCHANGED verdict

Succeed(j) == /\ verdict[j] = "open"
              /\ entered[j] < MaxAttempts
              /\ verdict' = [verdict EXCEPT ![j] = "done"]
              /\ entered' = [entered EXCEPT ![j] = @ + 1]

\* The last allowed attempt failed.
Exhaust(j) == /\ verdict[j] = "open"
              /\ entered[j] + 1 = MaxAttempts
              /\ verdict' = [verdict EXCEPT ![j] = "buried"]
              /\ entered' = [entered EXCEPT ![j] = @ + 1]

\* The job is given up without another attempt.
GiveUp(j) == /\ verdict[j] = "open"
             /\ verdict' = [verdict EXCEPT ![j] = "buried"]
             /\ UNCHANGED entered

Next == \E j \in Jobs : Accept(j) \/ Fail(j) \/ Succeed(j) \/ Exhaust(j) \/ GiveUp(j)

Spec == Init /\ [][Next]_vars
=============================================================================
