---------------------------- MODULE MCPackJobs ----------------------------
(***************************************************************************)
(* Four jobs of 1, 1, 2 and 3 units for PackJobs; the largest is urgent.   *)
(***************************************************************************)
EXTENDS PackJobs, TLC

CONSTANTS j1, j2, j3, j4

MCJobs == {j1, j2, j3, j4}
MCBytes == j1 :> 1 @@ j2 :> 1 @@ j3 :> 2 @@ j4 :> 3
MCPriority == j1 :> 0 @@ j2 :> 1 @@ j3 :> 0 @@ j4 :> 2
=============================================================================
