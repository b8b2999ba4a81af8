---------------------------- MODULE MCBindings ----------------------------
(***************************************************************************)
(* Two threads that submit, one of which starts and one stops the          *)
(* scheduler, and one that reads its statistics.                           *)
(***************************************************************************)
EXTENDS Bindings

CONSTANTS t1, t2, t3

MCThreads == {t1, t2, t3}
MCInstances == 1..4
MCGpuPresent == {TRUE, FALSE}

MCCalls ==
  [t \in PyThreads |->
     CASE t = t1 -> {"start", "submit_job"}
       [] t = t2 -> {"stop", "submit_job"}
       [] t = t3 -> {"stats", "batched_gemm"}]
=============================================================================
