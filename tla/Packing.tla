------------------------------ MODULE Packing ------------------------------
(***************************************************************************)
(* The packing rule of pack_jobs (src/sched/scheduler.cpp): the order in   *)
(* which a drained set of jobs is considered and the set the greedy sweep  *)
(* selects under a memory budget and a batch cap.  This module is pure: it *)
(* holds the jobs and their sizes as constants and the rule as operators.  *)
(* PackJobs.tla models the sweep itself, step by step, and shows that it   *)
(* computes the set that Packs describes.                                  *)
(***************************************************************************)
EXTENDS Integers, FiniteSets

CONSTANTS
  Jobs,       \* the jobs that clients may submit
  Bytes,      \* Bytes[j] = job.bytes_required()
  Priority,   \* Priority[j] = job.priority
  MaxBatch    \* Options::max_batch; 0 or less means no cap

ASSUME JobsAssumption ==
  /\ IsFiniteSet(Jobs)
  /\ Bytes \in [Jobs -> Nat]
  /\ Priority \in [Jobs -> Int]
  /\ MaxBatch \in Int

(***************************************************************************)
(* The memory of a set of jobs.  Each job j owns Bytes[j] units; the need  *)
(* of a set is the number of units of its members, that is, the sum the    *)
(* code accumulates in `used` and `batch_bytes`.  Written with a           *)
(* cardinality so that it can be reasoned about for every set of jobs.     *)
(***************************************************************************)
Units(S) == UNION {{j} \X (1..Bytes[j]) : j \in S}

Need(S) == Cardinality(Units(S))

\* Mutants of Before: largest first; the order without age buckets.
BeforeLargestFirst(bucket, seq, i, j) ==
  \/ bucket[i] > bucket[j]
  \/ bucket[i] = bucket[j] /\ Bytes[i] > Bytes[j]
  \/ bucket[i] = bucket[j] /\ Bytes[i] = Bytes[j] /\ seq[i] < seq[j]

BeforeAgeless(bucket, seq, i, j) ==
  \/ Bytes[i] < Bytes[j]
  \/ Bytes[i] = Bytes[j] /\ Priority[i] > Priority[j]
  \/ Bytes[i] = Bytes[j] /\ Priority[i] = Priority[j] /\ seq[i] < seq[j]

(***************************************************************************)
(* The comparator given to std::stable_sort: older age bucket first, then  *)
(* fewer bytes, then higher priority, then submission order.  bucket and   *)
(* seq are functions of the jobs compared.  seq is unique, so the order is *)
(* total and the order in which the priority queue yields the jobs, all of *)
(* which the dispatcher drains, has no effect on it.                       *)
(***************************************************************************)
Before(bucket, seq, i, j) ==
  \/ bucket[i] > bucket[j]
  \/ /\ bucket[i] = bucket[j]
     /\ \/ Bytes[i] < Bytes[j]
        \/ /\ Bytes[i] = Bytes[j]
           /\ \/ Priority[i] > Priority[j]
              \/ Priority[i] = Priority[j] /\ seq[i] < seq[j]

\* S respects the batch cap and the budget.
Fits(S, budget) ==
  /\ MaxBatch > 0 => Cardinality(S) =< MaxBatch
  /\ Need(S) =< budget

(***************************************************************************)
(* S is what the greedy sweep over candidates selects: a job is selected   *)
(* exactly when it still fits beside the selected jobs sorted before it.   *)
(***************************************************************************)
Packs(S, candidates, bucket, seq, budget) ==
  /\ S \subseteq candidates
  /\ Fits(S, budget)
  /\ \A j \in candidates :
       j \in S <=> Fits({i \in S : Before(bucket, seq, i, j)} \cup {j}, budget)
=============================================================================
