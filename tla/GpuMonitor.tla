----------------------------- MODULE GpuMonitor -----------------------------
(***************************************************************************)
(* GpuMonitor (src/sched/gpu_monitor.cpp): the thread that samples the     *)
(* utilization, one per monitor, and the calls that start and stop it.     *)
(* Every scheduler owns one monitor, so the two share their names here.    *)
(*                                                                         *)
(* Abstracted: what NVML or the CUDA runtime answer, and the two sums the  *)
(* sampler adds to under stat_mutex_, which nobody resets.                 *)
(***************************************************************************)
EXTENDS Integers, FiniteSets

CONSTANTS
  Instances,   \* schedulers, and so monitors, that may be made
  GpuPresent   \* the values gpu_present_ may take

ASSUME GpuMonitorAssumption ==
  /\ IsFiniteSet(Instances)
  /\ GpuPresent \subseteq BOOLEAN

VARIABLES
  gpu_present_,  \* found by every constructor of the process
  sampling_,     \* sampling_[i]: the flag of monitor i
  sampler_       \* sampler_[i]: "none" (not joinable), "test", "sample",
                 \*   "returned" (to be joined)

monitorVars == <<gpu_present_, sampling_, sampler_>>

MonitorInit ==
  /\ gpu_present_ \in GpuPresent
  /\ sampling_ = [i \in Instances |-> FALSE]
  /\ sampler_ = [i \in Instances |-> "none"]

\* start_sampling(): sampling_.exchange(true) lets one caller make the thread.
StartSampling(i) ==
  /\ sampling_' = [sampling_ EXCEPT ![i] = gpu_present_]
  /\ sampler_' = IF gpu_present_ /\ ~sampling_[i]
                 THEN [sampler_ EXCEPT ![i] = "test"]
                 ELSE sampler_
  /\ UNCHANGED gpu_present_

\* stop_sampling(), before the join ...
ClearSampling(i) ==
  /\ sampling_' = [sampling_ EXCEPT ![i] = FALSE]
  /\ UNCHANGED <<gpu_present_, sampler_>>

\* Mutant of JoinSampler: the thread is detached instead.
DetachSampler(i) == UNCHANGED monitorVars

\* ... and the join, if there is a thread to join.
JoinSampler(i) ==
  /\ sampler_[i] \in {"none", "returned"}
  /\ sampler_' = [sampler_ EXCEPT ![i] = "none"]
  /\ UNCHANGED <<gpu_present_, sampling_>>

\* The loop of the sampling thread: test the flag, sample, sleep.
SamplerTest(i) ==
  /\ sampler_[i] = "test"
  /\ sampler_' = [sampler_ EXCEPT ![i] =
                    IF sampling_[i] THEN "sample" ELSE "returned"]
  /\ UNCHANGED <<gpu_present_, sampling_>>

SamplerSample(i) ==
  /\ sampler_[i] = "sample"
  /\ sampler_' = [sampler_ EXCEPT ![i] = "test"]
  /\ UNCHANGED <<gpu_present_, sampling_>>

SamplerStep(i) == SamplerTest(i) \/ SamplerSample(i)
=============================================================================
