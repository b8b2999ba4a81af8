---------------------------- MODULE JobService ----------------------------
(***************************************************************************)
(* What BatchScheduler promises to its callers (scheduler.hpp, class       *)
(* BatchScheduler), without threads, queues or locks.  A job is submitted  *)
(* once, at any time; while the service is running, accepted jobs settle,  *)
(* a batch at a time, and each settles once: as "ok" in a batch that       *)
(* respects the batch cap and the memory budget, or as "failed".           *)
(* Nothing settles while the service is not running.                       *)
(* Scheduler.tla implements this module.                                   *)
(***************************************************************************)
CONSTANTS
  Jobs,      \* the jobs that clients may submit
  Runnable   \* the sets of jobs that may execute as one batch

VARIABLES
  status,    \* status[j]: "new", "accepted", "ok" or "failed"
  serving    \* between start() and the return of stop()

vars == <<status, serving>>

Accepted == {j \in Jobs : status[j] = "accepted"}

Init ==
  /\ status = [j \in Jobs |-> "new"]
  /\ serving = FALSE

\* submit() does not ask whether the scheduler runs.
Submit(j) ==
  /\ status[j] = "new"
  /\ status' = [status EXCEPT ![j] = "accepted"]
  /\ UNCHANGED serving

Settle(S, outcome) ==
  /\ serving
  /\ S # {}
  /\ S \subseteq Accepted
  /\ outcome = "ok" => S \in Runnable
  /\ status' = [j \in Jobs |-> IF j \in S THEN outcome ELSE status[j]]
  /\ UNCHANGED serving

Start ==
  /\ ~serving
  /\ serving' = TRUE
  /\ UNCHANGED status

Stop ==
  /\ serving
  /\ serving' = FALSE
  /\ UNCHANGED status

Next ==
  \/ \E j \in Jobs : Submit(j)
  \/ \E S \in SUBSET Jobs, outcome \in {"ok", "failed"} : Settle(S, outcome)
  \/ Start
  \/ Stop

Spec == Init /\ [][Next]_vars
=============================================================================
