---------------------------- MODULE MCWorkerQueue ----------------------------
(***************************************************************************)
(* WorkerQueue for TLC: two jobs under two names, two places per job, so   *)
(* that a second executor of a job would be seen.                          *)
(***************************************************************************)
EXTENDS WorkerQueue, TLC

CONSTANTS j1, j2, n1, n2, l1, l2

MCJobs   == {j1, j2}
MCLanes  == {l1, l2}
MCNames  == {n1, n2}
MCNameOf == (j1 :> n1) @@ (j2 :> n2)

=============================================================================
