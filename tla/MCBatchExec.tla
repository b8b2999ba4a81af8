---------------------------- MODULE MCBatchExec ----------------------------
(***************************************************************************)
(* A small device: jobs of three and five units, blocks of two.            *)
(***************************************************************************)
EXTENDS BatchExec

CONSTANTS j1, j3, w1, w2

MCJobs == {j1, j3}
MCWorkers == {w1, w2}
MCShape == [j \in Jobs |-> IF j = j3 THEN <<1, 1, 2>> ELSE <<1, 1, 1>>]
MCBytes == [j \in Jobs |-> IF j = j3 THEN 5 ELSE 3]
MCPriority == [j \in Jobs |-> 0]
=============================================================================
