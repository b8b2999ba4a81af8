---------------------------- MODULE MCScheduler ----------------------------
(***************************************************************************)
(* Small instances of Scheduler for TLC.  Jobs and workers are model       *)
(* values; one job is larger than the others and one is more urgent.       *)
(***************************************************************************)
EXTENDS Scheduler, TLC

CONSTANTS j1, j2, j3, w1, w2, BigJob, BigBytes

MCBytes == [j \in Jobs |-> IF j = BigJob THEN BigBytes ELSE 1]
MCPriority == [j \in Jobs |-> IF j = j2 THEN 1 ELSE 0]

MCOneJob == {j1}
MCTwoJobs == {j1, j2}
MCThreeJobs == {j1, j2, j3}
MCOneWorker == {w1}
MCTwoWorkers == {w1, w2}

MCWorkerSymmetry == Permutations(Workers)

\* j1 and j3 differ in nothing when BigBytes is 1.
MCJobSymmetry == Permutations({j1, j3})

MCGpuPresent == {FALSE}
MCGpuMayVanish == {FALSE, TRUE}
=============================================================================
