----------------------------- MODULE Scheduler -----------------------------
(***************************************************************************)
(* BatchScheduler (src/sched/scheduler.hpp, scheduler.cpp): clients that   *)
(* call submit(), one dispatcher thread that packs queued jobs into        *)
(* batches against the memory budget, worker threads that execute them,    *)
(* and the thread that calls start() and stop().                           *)
(*                                                                         *)
(* One action is one critical section, one atomic operation or one         *)
(* notification.  A wait on a condition variable is three actions: the     *)
(* predicate is found false with the mutex held (WaitBlock), the thread    *)
(* joins the wait set and the mutex is released in one step (WaitSleep),   *)
(* and a notification or a spurious wakeup makes the thread compete for    *)
(* the mutex and evaluate the predicate again.  The gap between the first  *)
(* two is real: stop() writes shutdown_ and notifies without the mutexes   *)
(* the waiters hold.                                                       *)
(*                                                                         *)
(* Abstracted: the clock (the age bucket of a job is any value, drawn      *)
(* afresh for each packing), the bytes other processes use (the sampled    *)
(* free memory is any value), and what happens on the GPU (a batch         *)
(* succeeds, fails, or cannot even create its streams).                    *)
(***************************************************************************)
EXTENDS Packing, Sequences

CONSTANTS
  Workers,         \* the worker threads; Options::num_workers of them
  Dispatcher,      \* the dispatcher thread
  FixedBudget,     \* Options::fixed_budget_bytes; 0: use the monitor
  TotalMem,        \* total_mem_bytes_ as start() finds it; 0: unknown
  SafetyMargin,    \* Options::safety_margin_bytes
  GpuAbsent,       \* the values gpu_absent_ may take at a start()
  SetupMayThrow,   \* creating streams or events may throw
  SpuriousWakeups, \* a wait may return without a notification
  MaxBucket,       \* bound: the largest age bucket
  MaxStarts,       \* bound: number of calls to start()
  MaxStops         \* bound: number of calls to stop()

ASSUME SchedulerAssumption ==
  /\ IsFiniteSet(Workers)
  /\ Dispatcher \notin Workers
  /\ FixedBudget \in Nat
  /\ TotalMem \in Nat
  /\ SafetyMargin \in Nat
  /\ GpuAbsent \subseteq BOOLEAN
  /\ SetupMayThrow \in BOOLEAN
  /\ SpuriousWakeups \in BOOLEAN
  /\ MaxBucket \in Nat
  /\ MaxStarts \in Nat
  /\ MaxStops \in Nat

VARIABLES
  \* submit(): queue_ under queue_mutex_, and each client's progress
  queue_,          \* the jobs in queue_
  seq,             \* seq[j] = job.seq, once submitted
  next_seq_,
  submitted_,
  submitPc,        \* "new", "count", "notify", "done"
  \* the threads of the scheduler
  pc,              \* pc[t]: where thread t is; "exited" also before start()
  nap,             \* nap[t]: "awake", "blocking" (predicate false, mutex
                   \*   held), "asleep" (in the wait set of the cv of pc[t])
  \* dispatcher_loop(): its locals, empty outside their scope
  candidates,
  base,            \* the base of budget_bytes(), sampled before reserved
  selected,
  remaining,
  \* batches
  batch_queue_,    \* under batch_mutex_
  batch,           \* batch[w]: worker w's batch until it is released
  reserved_bytes_, \* under budget_mutex_
  \* outcomes
  metrics_,        \* metrics_[j]: the `ok` flags of job j's records, in order
  completed_,
  rejected_jobs_,
  \* lifecycle
  started_,
  shutdown_,
  gpu_absent_,
  stopPc,          \* stop(): "idle" or the step it is at
  starts, stops,   \* calls so far, for the bounds
  terminated       \* std::terminate: an exception left a worker thread

submitVars == <<seq, next_seq_, submitted_, submitPc>>
packVars   == <<candidates, base, selected, remaining>>
batchVars  == <<batch_queue_, batch, reserved_bytes_>>
recordVars == <<metrics_, completed_, rejected_jobs_>>
lifeVars   == <<started_, shutdown_, gpu_absent_, stopPc, starts, stops,
                terminated>>
vars == <<queue_, submitVars, pc, nap, packVars, batchVars, recordVars,
          lifeVars>>

Threads == Workers \cup {Dispatcher}

SubmitPcs == {"new", "count", "notify", "done"}

DispatcherPcs == {"exited", "space", "queue", "triage", "sample", "pack",
                  "requeue", "reserve", "push", "notify"}

WorkerPcs == {"exited", "take", "notify_space", "run", "count", "release"}

StopPcs == {"idle", "queue", "take", "space", "join"}

\* dispatcher_loop: max(2, 2 * num_workers)
MaxQueueDepth == IF Cardinality(Workers) = 0 THEN 2 ELSE 2 * Cardinality(Workers)

\* max_job_bytes(): 0 when the total is unknown or within the margin.
MaxJobBytes == IF TotalMem > SafetyMargin THEN TotalMem - SafetyMargin ELSE 0

\* The largest base budget_bytes() can start from.
Capacity == IF FixedBudget > 0 THEN FixedBudget ELSE MaxJobBytes

Init ==
  /\ queue_ = {}
  /\ seq = [j \in Jobs |-> 0]
  /\ next_seq_ = 0
  /\ submitted_ = 0
  /\ submitPc = [j \in Jobs |-> "new"]
  /\ pc = [t \in Threads |-> "exited"]
  /\ nap = [t \in Threads |-> "awake"]
  /\ candidates = {}
  /\ base = 0
  /\ selected = {}
  /\ remaining = {}
  /\ batch_queue_ = <<>>
  /\ batch = [w \in Workers |-> {}]
  /\ reserved_bytes_ = 0
  /\ metrics_ = [j \in Jobs |-> <<>>]
  /\ completed_ = 0
  /\ rejected_jobs_ = 0
  /\ started_ = FALSE
  /\ shutdown_ = FALSE
  /\ gpu_absent_ = FALSE
  /\ stopPc = "idle"
  /\ starts = 0
  /\ stops = 0
  /\ terminated = FALSE

-----------------------------------------------------------------------------
(***************************************************************************)
(* Condition variables.  Each is named by the pc of the threads that wait  *)
(* on it: "space" is batch_space_cv_ (batch_mutex_), "queue" is queue_cv_  *)
(* (queue_mutex_), "take" is batch_cv_ (batch_mutex_).                     *)
(***************************************************************************)
Holding(places) == {t \in Threads : pc[t] \in places /\ nap[t] = "blocking"}

QueueMutexFree == Holding({"queue"}) = {}
BatchMutexFree == Holding({"space", "take"}) = {}

MutexFree(place) == IF place = "queue" THEN QueueMutexFree ELSE BatchMutexFree

\* Mutants of WaitOver: one batch too many; waits that ignore a shutdown.
WaitOverOffByOne(place) ==
  \/ shutdown_
  \/ place = "space" /\ Len(batch_queue_) =< MaxQueueDepth
  \/ place = "queue" /\ queue_ # {}
  \/ place = "take"  /\ batch_queue_ # <<>>

WaitOverWithoutShutdown(place) ==
  \/ place = "space" /\ Len(batch_queue_) < MaxQueueDepth
  \/ place = "queue" /\ queue_ # {}
  \/ place = "take"  /\ batch_queue_ # <<>>

\* The predicates the three waits are given.
WaitOver(place) ==
  \/ shutdown_
  \/ place = "space" /\ Len(batch_queue_) < MaxQueueDepth
  \/ place = "queue" /\ queue_ # {}
  \/ place = "take"  /\ batch_queue_ # <<>>

Asleep(place) == {t \in Threads : pc[t] = place /\ nap[t] = "asleep"}

NotifyOne(place) ==
  \/ /\ Asleep(place) = {}
     /\ UNCHANGED nap
  \/ \E t \in Asleep(place) : nap' = [nap EXCEPT ![t] = "awake"]

NotifyAll(place) ==
  nap' = [t \in Threads |-> IF t \in Asleep(place) THEN "awake" ELSE nap[t]]

\* Thread t is at place, holds the mutex, and its predicate is true.
PassesWait(t, place) ==
  /\ pc[t] = place
  /\ nap[t] = "awake"
  /\ MutexFree(place)
  /\ WaitOver(place)

WaitBlock(t) ==
  /\ pc[t] \in {"space", "queue", "take"}
  /\ nap[t] = "awake"
  /\ MutexFree(pc[t])
  /\ ~WaitOver(pc[t])
  /\ nap' = [nap EXCEPT ![t] = "blocking"]
  /\ UNCHANGED <<queue_, submitVars, pc, packVars, batchVars, recordVars,
                 lifeVars>>

WaitSleep(t) ==
  /\ nap[t] = "blocking"
  /\ nap' = [nap EXCEPT ![t] = "asleep"]
  /\ UNCHANGED <<queue_, submitVars, pc, packVars, batchVars, recordVars,
                 lifeVars>>

SpuriousWakeup(t) ==
  /\ SpuriousWakeups
  /\ nap[t] = "asleep"
  /\ nap' = [nap EXCEPT ![t] = "awake"]
  /\ UNCHANGED <<queue_, submitVars, pc, packVars, batchVars, recordVars,
                 lifeVars>>

Goto(t, place) == pc' = [pc EXCEPT ![t] = place]

-----------------------------------------------------------------------------
(***************************************************************************)
(* submit(), called from any thread, before start() and after stop() too.  *)
(***************************************************************************)
SubmitEnqueue(j) ==
  /\ submitPc[j] = "new"
  /\ QueueMutexFree
  /\ seq' = [seq EXCEPT ![j] = next_seq_]
  /\ next_seq_' = next_seq_ + 1
  /\ queue_' = queue_ \cup {j}
  /\ submitPc' = [submitPc EXCEPT ![j] = "count"]
  /\ UNCHANGED <<submitted_, pc, nap, packVars, batchVars, recordVars,
                 lifeVars>>

SubmitCount(j) ==
  /\ submitPc[j] = "count"
  /\ submitted_' = submitted_ + 1
  /\ submitPc' = [submitPc EXCEPT ![j] = "notify"]
  /\ UNCHANGED <<queue_, seq, next_seq_, pc, nap, packVars, batchVars,
                 recordVars, lifeVars>>

\* Mutant of SubmitNotify: the notification is missing.
SubmitSilently(j) ==
  /\ submitPc[j] = "notify"
  /\ submitPc' = [submitPc EXCEPT ![j] = "done"]
  /\ UNCHANGED <<queue_, seq, next_seq_, submitted_, pc, nap, packVars,
                 batchVars, recordVars, lifeVars>>

SubmitNotify(j) ==
  /\ submitPc[j] = "notify"
  /\ NotifyOne("queue")
  /\ submitPc' = [submitPc EXCEPT ![j] = "done"]
  /\ UNCHANGED <<queue_, seq, next_seq_, submitted_, pc, packVars, batchVars,
                 recordVars, lifeVars>>

-----------------------------------------------------------------------------
(***************************************************************************)
(* start() and stop().  start() is one step: the threads it creates do not *)
(* exist before its end and submit() reads nothing it writes.              *)
(***************************************************************************)
Start ==
  /\ starts < MaxStarts
  /\ ~started_
  /\ started_' = TRUE
  /\ shutdown_' = FALSE
  /\ gpu_absent_' \in GpuAbsent
  /\ pc' = [t \in Threads |-> IF t = Dispatcher THEN "space" ELSE "take"]
  /\ starts' = starts + 1
  /\ UNCHANGED <<queue_, submitVars, nap, packVars, batchVars, recordVars,
                 stopPc, stops, terminated>>

StopFlag ==
  /\ stops < MaxStops
  /\ stopPc = "idle"
  /\ started_
  /\ shutdown_' = TRUE
  /\ stopPc' = "queue"
  /\ stops' = stops + 1
  /\ UNCHANGED <<queue_, submitVars, pc, nap, packVars, batchVars, recordVars,
                 started_, gpu_absent_, starts, terminated>>

\* The three notify_all calls, in the code's order, without any mutex.
StopNotify ==
  /\ stopPc \in {"queue", "take", "space"}
  /\ NotifyAll(stopPc)
  /\ stopPc' = CASE stopPc = "queue" -> "take"
                 [] stopPc = "take"  -> "space"
                 [] stopPc = "space" -> "join"
  /\ UNCHANGED <<queue_, submitVars, pc, packVars, batchVars, recordVars,
                 started_, shutdown_, gpu_absent_, starts, stops, terminated>>

\* Mutant of StopJoin: only the dispatcher is joined.
StopJoinDispatcher ==
  /\ stopPc = "join"
  /\ pc[Dispatcher] = "exited"
  /\ started_' = FALSE
  /\ stopPc' = "idle"
  /\ UNCHANGED <<queue_, submitVars, pc, nap, packVars, batchVars, recordVars,
                 shutdown_, gpu_absent_, starts, stops, terminated>>

StopJoin ==
  /\ stopPc = "join"
  /\ \A t \in Threads : pc[t] = "exited"
  /\ started_' = FALSE
  /\ stopPc' = "idle"
  /\ UNCHANGED <<queue_, submitVars, pc, nap, packVars, batchVars, recordVars,
                 shutdown_, gpu_absent_, starts, stops, terminated>>

-----------------------------------------------------------------------------
(***************************************************************************)
(* Outcomes: one record per job, appended under metrics_mutex_.            *)
(***************************************************************************)
Record(S, ok) ==
  metrics_' = [j \in Jobs |-> IF j \in S THEN Append(metrics_[j], ok)
                                         ELSE metrics_[j]]

\* Mutant of FailBatch: the caller adds to completed_ too, as on success.
FailBatchCountedTwice(S) ==
  /\ Record(S, FALSE)
  /\ completed_' = completed_ + 2 * Cardinality(S)

\* fail_batch: records and counter in one critical section.
FailBatch(S) ==
  /\ Record(S, FALSE)
  /\ completed_' = completed_ + Cardinality(S)

-----------------------------------------------------------------------------
(***************************************************************************)
(* dispatcher_loop().                                                      *)
(***************************************************************************)
DispatcherSpace ==
  /\ PassesWait(Dispatcher, "space")
  /\ Goto(Dispatcher, IF shutdown_ THEN "exited" ELSE "queue")
  /\ UNCHANGED <<queue_, submitVars, nap, packVars, batchVars, recordVars,
                 lifeVars>>

\* Either leaves at shutdown with the queue as it is, or drains all of it.
DispatcherQuit ==
  /\ PassesWait(Dispatcher, "queue")
  /\ shutdown_
  /\ Goto(Dispatcher, "exited")
  /\ UNCHANGED <<queue_, submitVars, nap, packVars, batchVars, recordVars,
                 lifeVars>>

DispatcherDrain ==
  /\ PassesWait(Dispatcher, "queue")
  /\ ~shutdown_
  /\ candidates' = queue_
  /\ queue_' = {}
  /\ Goto(Dispatcher, "triage")
  /\ UNCHANGED <<submitVars, nap, base, selected, remaining, batchVars,
                 recordVars, lifeVars>>

DispatcherNoGpu ==
  /\ pc[Dispatcher] = "triage"
  /\ gpu_absent_
  /\ FailBatch(candidates)
  /\ candidates' = {}
  /\ Goto(Dispatcher, "space")
  /\ UNCHANGED <<queue_, submitVars, nap, base, selected, remaining,
                 batchVars, rejected_jobs_, lifeVars>>

Oversized == {j \in candidates : MaxJobBytes > 0 /\ Bytes[j] > MaxJobBytes}

DispatcherReject ==
  /\ pc[Dispatcher] = "triage"
  /\ ~gpu_absent_
  /\ candidates' = candidates \ Oversized
  /\ rejected_jobs_' = rejected_jobs_ + Cardinality(Oversized)
  /\ FailBatch(Oversized)
  /\ Goto(Dispatcher, "sample")
  /\ UNCHANGED <<queue_, submitVars, nap, base, selected, remaining,
                 batchVars, lifeVars>>

\* Mutant of BaseBudget: the margin is subtracted without saturating.
BaseUnsaturated(free) == free - SafetyMargin

BaseBudget(free) == IF free > SafetyMargin THEN free - SafetyMargin ELSE 0

\* budget_bytes(), first half: free memory is read before reserved_bytes_.
DispatcherSample ==
  /\ pc[Dispatcher] = "sample"
  /\ \/ /\ FixedBudget > 0
        /\ base' = FixedBudget
     \/ /\ FixedBudget = 0
        /\ \E free \in 0..TotalMem : base' = BaseBudget(free)
  /\ Goto(Dispatcher, "pack")
  /\ UNCHANGED <<queue_, submitVars, nap, candidates, selected, remaining,
                 batchVars, recordVars, lifeVars>>

\* Mutant of Budget: a fresh sample is taken for the whole budget.
BudgetWithoutReserved == base

\* budget_bytes(), second half.
Budget == IF base > reserved_bytes_ THEN base - reserved_bytes_ ELSE 0

DispatcherPack ==
  /\ pc[Dispatcher] = "pack"
  /\ \E bucket \in [candidates -> 0..MaxBucket], S \in SUBSET candidates :
       /\ Packs(S, candidates, bucket, seq, Budget)
       /\ selected' = S
       /\ remaining' = candidates \ S
  /\ candidates' = {}
  /\ base' = 0
  /\ Goto(Dispatcher, "requeue")
  /\ UNCHANGED <<queue_, submitVars, nap, batchVars, recordVars, lifeVars>>

\* Mutant of DispatcherRequeue: what did not fit is forgotten.
DispatcherForget ==
  /\ pc[Dispatcher] = "requeue"
  /\ remaining' = {}
  /\ Goto(Dispatcher, IF selected = {} THEN "space" ELSE "reserve")
  /\ UNCHANGED <<queue_, submitVars, nap, candidates, base, selected,
                 batchVars, recordVars, lifeVars>>

\* With nothing selected the loop naps for 5 ms and starts over.
DispatcherRequeue ==
  /\ pc[Dispatcher] = "requeue"
  /\ queue_' = queue_ \cup remaining
  /\ remaining' = {}
  /\ Goto(Dispatcher, IF selected = {} THEN "space" ELSE "reserve")
  /\ UNCHANGED <<submitVars, nap, candidates, base, selected, batchVars,
                 recordVars, lifeVars>>

DispatcherReserve ==
  /\ pc[Dispatcher] = "reserve"
  /\ reserved_bytes_' = reserved_bytes_ + Need(selected)
  /\ Goto(Dispatcher, "push")
  /\ UNCHANGED <<queue_, submitVars, nap, packVars, batch_queue_, batch,
                 recordVars, lifeVars>>

DispatcherPush ==
  /\ pc[Dispatcher] = "push"
  /\ BatchMutexFree
  /\ batch_queue_' = Append(batch_queue_, selected)
  /\ selected' = {}
  /\ Goto(Dispatcher, "notify")
  /\ UNCHANGED <<queue_, submitVars, nap, candidates, base, remaining, batch,
                 reserved_bytes_, recordVars, lifeVars>>

\* Mutant of DispatcherNotify: the notification is missing.
DispatcherSilent ==
  /\ pc[Dispatcher] = "notify"
  /\ Goto(Dispatcher, "space")
  /\ UNCHANGED <<queue_, submitVars, nap, packVars, batchVars, recordVars,
                 lifeVars>>

DispatcherNotify ==
  /\ pc[Dispatcher] = "notify"
  /\ NotifyOne("take")
  /\ Goto(Dispatcher, "space")
  /\ UNCHANGED <<queue_, submitVars, packVars, batchVars, recordVars,
                 lifeVars>>

-----------------------------------------------------------------------------
(***************************************************************************)
(* worker_loop() and the outcome of execute_batch().                       *)
(***************************************************************************)
WorkerTake(w) ==
  /\ PassesWait(w, "take")
  /\ batch_queue_ # <<>>
  /\ batch' = [batch EXCEPT ![w] = Head(batch_queue_)]
  /\ batch_queue_' = Tail(batch_queue_)
  /\ Goto(w, "notify_space")
  /\ UNCHANGED <<queue_, submitVars, nap, packVars, reserved_bytes_,
                 recordVars, lifeVars>>

WorkerQuit(w) ==
  /\ PassesWait(w, "take")
  /\ shutdown_
  /\ batch_queue_ = <<>>
  /\ Goto(w, "exited")
  /\ UNCHANGED <<queue_, submitVars, nap, packVars, batchVars, recordVars,
                 lifeVars>>

WorkerNotifySpace(w) ==
  /\ pc[w] = "notify_space"
  /\ NotifyOne("space")
  /\ Goto(w, "run")
  /\ UNCHANGED <<queue_, submitVars, packVars, batchVars, recordVars,
                 lifeVars>>

\* A batch left over from before a restart that found no GPU.
WorkerNoGpu(w) ==
  /\ pc[w] = "run"
  /\ gpu_absent_
  /\ FailBatch(batch[w])
  /\ Goto(w, "release")
  /\ UNCHANGED <<queue_, submitVars, nap, packVars, batchVars,
                 rejected_jobs_, lifeVars>>

\* An exception inside execute_batch's try block fails the whole batch.
WorkerFail(w) ==
  /\ pc[w] = "run"
  /\ ~gpu_absent_
  /\ FailBatch(batch[w])
  /\ Goto(w, "release")
  /\ UNCHANGED <<queue_, submitVars, nap, packVars, batchVars,
                 rejected_jobs_, lifeVars>>

\* The batch succeeds: records first, the counter after the unlock.
WorkerSucceed(w) ==
  /\ pc[w] = "run"
  /\ ~gpu_absent_
  /\ Record(batch[w], TRUE)
  /\ Goto(w, "count")
  /\ UNCHANGED <<queue_, submitVars, nap, packVars, batchVars, completed_,
                 rejected_jobs_, lifeVars>>

WorkerCount(w) ==
  /\ pc[w] = "count"
  /\ completed_' = completed_ + Cardinality(batch[w])
  /\ Goto(w, "release")
  /\ UNCHANGED <<queue_, submitVars, nap, packVars, batchVars, metrics_,
                 rejected_jobs_, lifeVars>>

\* Mutant of Release: the bytes are released by the handler and after it.
ReleaseTwice(w) ==
  LET bytes == 2 * Need(batch[w]) IN
  /\ reserved_bytes_' = IF bytes > reserved_bytes_ THEN 0
                                                   ELSE reserved_bytes_ - bytes
  /\ batch' = [batch EXCEPT ![w] = {}]

\* release_bytes: the subtraction is clamped at zero.
Release(w) ==
  LET bytes == Need(batch[w]) IN
  /\ reserved_bytes_' = IF bytes > reserved_bytes_ THEN 0
                                                   ELSE reserved_bytes_ - bytes
  /\ batch' = [batch EXCEPT ![w] = {}]

WorkerRelease(w) ==
  /\ pc[w] = "release"
  /\ Release(w)
  /\ Goto(w, "take")
  /\ UNCHANGED <<queue_, submitVars, nap, packVars, batch_queue_, recordVars,
                 lifeVars>>

\* Streams and events are created outside execute_batch's try block: the
\* exception releases the bytes, leaves the thread and ends the process.
WorkerThrow(w) ==
  /\ SetupMayThrow
  /\ pc[w] = "run"
  /\ ~gpu_absent_
  /\ Release(w)
  /\ terminated' = TRUE
  /\ UNCHANGED <<queue_, submitVars, pc, nap, packVars, batch_queue_,
                 recordVars, started_, shutdown_, gpu_absent_, stopPc, starts,
                 stops>>

-----------------------------------------------------------------------------
SubmitStep(j) == SubmitEnqueue(j) \/ SubmitCount(j) \/ SubmitNotify(j)

WaitStep(t) == WaitBlock(t) \/ WaitSleep(t)

DispatcherStep ==
  \/ WaitStep(Dispatcher)
  \/ DispatcherSpace \/ DispatcherQuit \/ DispatcherDrain
  \/ DispatcherNoGpu \/ DispatcherReject
  \/ DispatcherSample \/ DispatcherPack \/ DispatcherRequeue
  \/ DispatcherReserve \/ DispatcherPush \/ DispatcherNotify

WorkerStep(w) ==
  \/ WaitStep(w)
  \/ WorkerTake(w) \/ WorkerQuit(w) \/ WorkerNotifySpace(w)
  \/ WorkerNoGpu(w) \/ WorkerFail(w) \/ WorkerThrow(w)
  \/ WorkerSucceed(w) \/ WorkerCount(w) \/ WorkerRelease(w)

StopStep == StopNotify \/ StopJoin

\* Nothing left to do: the process is gone, the scheduler is stopped for
\* good, or every thread waits with every queue empty.
Quiescent ==
  \/ terminated
  \/ /\ \A j \in Jobs : submitPc[j] = "done"
     /\ \/ ~started_ /\ starts = MaxStarts
        \/ /\ stops = MaxStops
           /\ ~shutdown_
           /\ queue_ = {} /\ batch_queue_ = <<>>
           /\ Asleep("queue") = {Dispatcher}
           /\ Asleep("take") = Workers

Idle == Quiescent /\ UNCHANGED vars

Next ==
  \/ /\ ~terminated
     /\ \/ \E j \in Jobs : SubmitStep(j)
        \/ Start \/ StopFlag \/ StopStep
        \/ DispatcherStep
        \/ \E w \in Workers : WorkerStep(w)
        \/ \E t \in Threads : SpuriousWakeup(t)
  \/ Idle

Spec == Init /\ [][Next]_vars

\* Every thread that can run does run, a submit() or a stop() under way goes
\* on.  Nobody has to call submit(), start() or stop(), and no wait has to
\* return without a notification.
Fairness ==
  /\ \A j \in Jobs : WF_vars(~terminated /\ (SubmitCount(j) \/ SubmitNotify(j)))
  /\ WF_vars(~terminated /\ DispatcherStep)
  /\ \A w \in Workers : WF_vars(~terminated /\ WorkerStep(w))
  /\ WF_vars(~terminated /\ StopStep)

FairSpec == Spec /\ Fairness

-----------------------------------------------------------------------------
(***************************************************************************)
(* Where jobs are.                                                         *)
(***************************************************************************)
Submitted == {j \in Jobs : submitPc[j] # "new"}

Recorded == {j \in Jobs : metrics_[j] # <<>>}

\* In a batch that waits for a worker.
Batched == {j \in Jobs : \E i \in 1..Len(batch_queue_) : j \in batch_queue_[i]}

\* In a batch that a worker has taken and not recorded yet.
Executing ==
  {j \in Jobs : \E w \in Workers :
                  j \in batch[w] /\ pc[w] \in {"notify_space", "run"}}

Somewhere == queue_ \cup candidates \cup selected \cup remaining
             \cup Batched \cup Executing \cup Recorded

\* In a batch whose bytes are reserved: from the reservation to the release.
Committed ==
  {j \in Jobs : \/ pc[Dispatcher] = "push" /\ j \in selected
                \/ j \in Batched
                \/ \E w \in Workers : j \in batch[w]}

-----------------------------------------------------------------------------
(***************************************************************************)
(* Type invariant.                                                         *)
(***************************************************************************)
TypeOK ==
  /\ queue_ \subseteq Jobs
  /\ seq \in [Jobs -> Nat]
  /\ next_seq_ \in Nat
  /\ submitted_ \in Nat
  /\ submitPc \in [Jobs -> SubmitPcs]
  /\ pc \in [Threads -> DispatcherPcs \cup WorkerPcs]
  /\ pc[Dispatcher] \in DispatcherPcs
  /\ \A w \in Workers : pc[w] \in WorkerPcs
  /\ nap \in [Threads -> {"awake", "blocking", "asleep"}]
  /\ candidates \subseteq Jobs
  /\ base \in Nat
  /\ selected \subseteq Jobs
  /\ remaining \subseteq Jobs
  /\ batch_queue_ \in Seq(SUBSET Jobs)
  /\ batch \in [Workers -> SUBSET Jobs]
  /\ reserved_bytes_ \in Nat
  /\ metrics_ \in [Jobs -> Seq(BOOLEAN)]
  /\ completed_ \in Nat
  /\ rejected_jobs_ \in Nat
  /\ started_ \in BOOLEAN
  /\ shutdown_ \in BOOLEAN
  /\ gpu_absent_ \in BOOLEAN
  /\ stopPc \in StopPcs
  /\ starts \in 0..MaxStarts
  /\ stops \in 0..MaxStops
  /\ terminated \in BOOLEAN

(***************************************************************************)
(* No job is lost, duplicated or recorded twice: while the process lives,  *)
(* a submitted job is in exactly one of the queue, the dispatcher's three  *)
(* local vectors, one waiting batch, one worker's batch, or the records,   *)
(* where it has one entry.  About the hand-overs in dispatcher_loop and    *)
(* worker_loop, which move jobs between containers under four mutexes.     *)
(***************************************************************************)
JobsConserved ==
  /\ \A j \in Jobs : Len(metrics_[j]) =< 1
  /\ \A i, k \in 1..Len(batch_queue_) :
       i # k => batch_queue_[i] \cap batch_queue_[k] = {}
  /\ \A v, w \in Workers : v # w => batch[v] \cap batch[w] = {}
  /\ queue_ \cap (candidates \cup selected \cup remaining \cup Batched
                  \cup Executing \cup Recorded) = {}
  /\ candidates \cap (selected \cup remaining \cup Batched \cup Executing
                      \cup Recorded) = {}
  /\ selected \cap (remaining \cup Batched \cup Executing \cup Recorded) = {}
  /\ remaining \cap (Batched \cup Executing \cup Recorded) = {}
  /\ Batched \cap (Executing \cup Recorded) = {}
  /\ Executing \cap Recorded = {}
  /\ Somewhere \subseteq Submitted
  /\ ~terminated => Submitted \subseteq Somewhere

(***************************************************************************)
(* reserved_bytes_ is exactly the memory of the batches packed and not yet *)
(* released: the claim of the comment on the field in scheduler.hpp.  The  *)
(* clamp in release_bytes never hides a mismatch.                          *)
(***************************************************************************)
ReservationExact == reserved_bytes_ = Need(Committed)

(***************************************************************************)
(* All batches that are waiting or running at the same time fit together   *)
(* in the largest budget the scheduler may hand out, although each one was *)
(* packed against a budget read at another moment.                         *)
(***************************************************************************)
NoOvercommit == Need(Committed) =< Capacity

(***************************************************************************)
(* Nobody sleeps through work, during a shutdown or not: if the dispatcher *)
(* is asleep on a non-empty queue, a submit() has yet to notify it; if it  *)
(* is asleep for space, the batch queue is full or a worker has yet to     *)
(* notify it; and while a worker is asleep, the waiting batches are no     *)
(* more than the workers already awake to take them and the one about to   *)
(* be woken.                                                               *)
(***************************************************************************)
NobodySleepsThroughWork ==
  /\ Dispatcher \in Asleep("queue") /\ queue_ # {} =>
       \E j \in Jobs : submitPc[j] \in {"count", "notify"}
  /\ Dispatcher \in Asleep("space") /\ Len(batch_queue_) < MaxQueueDepth =>
       \E w \in Workers : pc[w] = "notify_space"
  /\ Asleep("take") # {} =>
       Len(batch_queue_) =<
         Cardinality({w \in Workers : pc[w] = "take" /\ nap[w] = "awake"})
         + (IF pc[Dispatcher] = "notify" THEN 1 ELSE 0)

(***************************************************************************)
(* The lookahead stays small: the batch queue never exceeds its depth,     *)
(* although the dispatcher tests the size long before it pushes.           *)
(***************************************************************************)
LookaheadBounded == Len(batch_queue_) =< MaxQueueDepth

(***************************************************************************)
(* The exit test of the daemon (main.cpp) reads three counters that are    *)
(* updated at different moments.  If every submit() has returned and the   *)
(* test succeeds, every submitted job has its record.                      *)
(***************************************************************************)
DrainTest == submitted_ > 0 /\ queue_ = {} /\ completed_ >= submitted_

DrainTestSound ==
  /\ DrainTest
  /\ \A j \in Jobs : submitPc[j] \in {"new", "done"}
  => Recorded = Submitted

(***************************************************************************)
(* The scheduler implements the service its interface describes.           *)
(***************************************************************************)
Status ==
  [j \in Jobs |-> IF submitPc[j] = "new" THEN "new"
                  ELSE IF metrics_[j] = <<>> THEN "accepted"
                  ELSE IF Head(metrics_[j]) THEN "ok" ELSE "failed"]

Runnable == {S \in SUBSET Jobs : Fits(S, Capacity)}

Service == INSTANCE JobService WITH status <- Status, serving <- started_

ImplementsService == Service!Spec

(***************************************************************************)
(* With a fixed budget that every job fits, a job submitted to a running   *)
(* scheduler settles unless stop() is called.                              *)
(***************************************************************************)
EveryJobSettles ==
  \A j \in Jobs :
    (j \in Submitted /\ started_) ~> (j \in Recorded \/ shutdown_)

(***************************************************************************)
(* stop() returns once its notifications are sent and no thread was at or  *)
(* past the test of its predicate when they were.                          *)
(***************************************************************************)
StopReturnsIfWoken ==
  (stopPc = "join" /\ \A t \in Threads : nap[t] = "awake") ~> (stopPc = "idle")

(***************************************************************************)
(* docs/DESIGN.md, "Shutdown": shutdown cannot deadlock.  The dispatcher   *)
(* or a worker can test its predicate just before stop() sets shutdown_    *)
(* and start waiting just after the broadcast.                             *)
(***************************************************************************)
StopReturns == (stopPc # "idle") ~> (stopPc = "idle")

(***************************************************************************)
(* dispatcher_loop's comment on shutdown: queued work is dropped, in-flight *)
(* batches complete.  A batch packed while the workers leave stays in      *)
(* batch_queue_.                                                           *)
(***************************************************************************)
InFlightBatchesComplete ==
  (~started_ /\ ~terminated) => batch_queue_ = <<>>

(***************************************************************************)
(* A job larger than the largest budget the device can ever offer is       *)
(* rejected once instead of being re-enqueued forever.                     *)
(***************************************************************************)
OversizedJobsSettle ==
  \A j \in Jobs :
    (j \in Submitted /\ started_ /\ TotalMem > 0 /\ Bytes[j] > MaxJobBytes)
      ~> (j \in Recorded \/ shutdown_)
=============================================================================
