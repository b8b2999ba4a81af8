----------------------------- MODULE PackJobs -----------------------------
(***************************************************************************)
(* pack_jobs (src/sched/scheduler.cpp): one call, from its arguments to    *)
(* its two result vectors.  The call sorts the candidates and sweeps over  *)
(* them once, one step of this module per iteration.  Scheduler.tla takes  *)
(* the whole call as one step that selects a set with Packs; here that is  *)
(* shown to be what the sweep computes.                                    *)
(*                                                                         *)
(* Abstracted: the clock, read once at the start of the call, as one age   *)
(* bucket per candidate.                                                   *)
(***************************************************************************)
EXTENDS Packing

CONSTANTS
  MaxBucket,   \* bound: the largest age bucket
  MaxBudget    \* bound: the largest budget_bytes argument

ASSUME PackJobsAssumption ==
  /\ MaxBucket \in Nat
  /\ MaxBudget \in Nat

VARIABLES
  \* the arguments, and what age_bucket and job.seq say of the candidates
  candidates, budget, bucket, seq,
  \* the locals
  sorted,      \* the candidates in sweep order; <<>> before the sort
  next,        \* the index in sorted of the job the loop looks at
  used,
  selected, remaining

inputs == <<candidates, budget, bucket, seq>>
vars == <<inputs, sorted, next, used, selected, remaining>>

N == Cardinality(candidates)

Init ==
  /\ candidates \in SUBSET Jobs
  /\ budget \in 0..MaxBudget
  /\ bucket \in [candidates -> 0..MaxBucket]
  /\ seq \in [candidates -> 0..(Cardinality(candidates) - 1)]
  /\ \A i, j \in candidates : i # j => seq[i] # seq[j]
  /\ sorted = <<>>
  /\ next = 0
  /\ used = 0
  /\ selected = {}
  /\ remaining = {}

\* std::stable_sort; next = 1 is the first iteration.
Sort ==
  /\ next = 0
  /\ \E s \in [1..N -> candidates] :
       /\ \A i, k \in 1..N : i < k => Before(bucket, seq, s[i], s[k])
       /\ sorted' = s
  /\ next' = 1
  /\ UNCHANGED <<inputs, used, selected, remaining>>

Sweeping == next \in 1..N

\* Mutant of BatchFull: off by one.
BatchOverfull == MaxBatch > 0 /\ Cardinality(selected) > MaxBatch

BatchFull == MaxBatch > 0 /\ Cardinality(selected) >= MaxBatch

\* Mutant of TooBig: the jobs already selected are not counted.
TooBigAlone(j) == Bytes[j] > budget

TooBig(j) == Bytes[j] > budget \/ used + Bytes[j] > budget

Leave ==
  /\ Sweeping
  /\ BatchFull \/ TooBig(sorted[next])
  /\ remaining' = remaining \cup {sorted[next]}
  /\ next' = next + 1
  /\ UNCHANGED <<inputs, sorted, used, selected>>

Select ==
  /\ Sweeping
  /\ ~BatchFull
  /\ ~TooBig(sorted[next])
  /\ selected' = selected \cup {sorted[next]}
  /\ used' = used + Bytes[sorted[next]]
  /\ next' = next + 1
  /\ UNCHANGED <<inputs, sorted, remaining>>

Done == next = N + 1

Next == Sort \/ Leave \/ Select \/ (Done /\ UNCHANGED vars)

Spec == Init /\ [][Next]_vars

-----------------------------------------------------------------------------
TypeOK ==
  /\ candidates \subseteq Jobs
  /\ budget \in 0..MaxBudget
  /\ bucket \in [candidates -> 0..MaxBucket]
  /\ seq \in [candidates -> Nat]
  /\ next \in 0..(N + 1)
  /\ sorted \in IF next = 0 THEN {<<>>} ELSE [1..N -> candidates]
  /\ used \in Nat
  /\ selected \subseteq candidates
  /\ remaining \subseteq candidates

(***************************************************************************)
(* The sweep in every round: the jobs looked at so far are split between   *)
(* the two result vectors, `used` is the memory of the selected ones, and  *)
(* they respect the budget and the cap.                                    *)
(***************************************************************************)
SweepBounded ==
  /\ next > 0 => selected \cup remaining = {sorted[i] : i \in 1..(next - 1)}
  /\ selected \cap remaining = {}
  /\ used = Need(selected)
  /\ Fits(selected, budget)

(***************************************************************************)
(* The call computes the set Packs describes, and no other set fits that   *)
(* description: the dispatcher's step in Scheduler.tla is this loop.       *)
(***************************************************************************)
ComputesPacks ==
  Done =>
    /\ {S \in SUBSET candidates : Packs(S, candidates, bucket, seq, budget)}
         = {selected}
    /\ remaining = candidates \ selected

(***************************************************************************)
(* Among jobs of one age bucket the sweep packs as many jobs as the budget *)
(* and the cap allow (docs/DESIGN.md calls this an approximation).         *)
(***************************************************************************)
MaximizesCount(C) ==
  \A S \in SUBSET C :
    Fits(S, budget) => Cardinality(S) =< Cardinality(selected)

SameAgeIsOptimal ==
  Done /\ (\A i, j \in candidates : bucket[i] = bucket[j])
    => MaximizesCount(candidates)

(***************************************************************************)
(* An older job is left behind only if it does not fit beside the selected *)
(* jobs that are at least as old: a younger job never takes its place.     *)
(* This is what the aging buckets are for.                                 *)
(***************************************************************************)
YoungerNeverDisplaces ==
  Done =>
    \A j \in remaining :
      ~Fits({i \in selected : bucket[i] >= bucket[j]} \cup {j}, budget)
=============================================================================
