----------------------------- MODULE MCDaemon -----------------------------
(***************************************************************************)
(* The daemon with a few jobs for TLC.                                     *)
(***************************************************************************)
EXTENDS Daemon

CONSTANTS j1, j2, w1, BigJob, BigBytes

MCJobs == {j1, j2}
MCWorkers == {w1}
MCBytes == [j \in Jobs |-> IF j = BigJob THEN BigBytes ELSE 1]
MCPriority == [j \in Jobs |-> 0]
MCGpuPresent == {FALSE}

\* A generator beside the status server, and a replay without it.
MCModes == {<<FALSE, TRUE>>, <<TRUE, FALSE>>}
=============================================================================
