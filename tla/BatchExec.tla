----------------------------- MODULE BatchExec -----------------------------
(***************************************************************************)
(* BatchScheduler::execute_batch (src/sched/scheduler.cpp) as seen by the  *)
(* device memory and the result map: the dispatcher samples the free       *)
(* memory and commits batches, the workers allocate three device buffers   *)
(* per job with bounded retries, collect the results and return the        *)
(* memory, while another process (MemoryHog) takes memory from the same    *)
(* device at any moment.  Queues, locks and thread lifetimes are           *)
(* Scheduler's matter, streams and events Pipeline's.                      *)
(***************************************************************************)
EXTENDS Packing, MemoryHog, SequencesExt

CONSTANTS
  Workers,
  Shape,           \* Shape[j]: <<m, n, k>>
  TotalMem,
  SafetyMargin,    \* Options::safety_margin_bytes
  MaxRetries,      \* kMaxAllocRetries
  Faults           \* calls may fail for other reasons than memory

ASSUME ExecAssumption ==
  /\ TotalMem \in Nat /\ SafetyMargin \in Nat /\ MaxRetries \in Nat
  /\ Faults \in BOOLEAN

VARIABLES
  status,          \* status[j]: "waiting", "committed", "ok" or "failed"
  results,         \* the jobs whose result is in results_
  reserved,        \* reserved_bytes_
  base,            \* the dispatcher's sample less the margin, or NoSample
  batchQueue,      \* batch_queue_
  wpc,             \* wpc[w]: "idle", "allocate", "backoff", "execute", "failing",
                   \* "freeing" or "releasing"
  batch,           \* batch[w]: the batch being executed, <<>> if none
  got,             \* got[w]: allocations of the batch that succeeded, in order
  attempt,         \* attempt[w]
  stored,          \* stored[w]: jobs of the batch whose result was collected
  hogSampled,      \* ghost: the other process's memory in the current sample
  hogCommitted,    \* ghost: the same, in the sample of the latest commitment
                   \*   of any memory
  starved          \* ghost: some allocation failed without the other process
                   \*   having grown past the margin since that sample

execVars == <<status, results, reserved, base, batchQueue, wpc, batch, got,
              attempt, stored, hogSampled, hogCommitted, starved>>
vars == <<execVars, hogVars>>
ghostVars == <<hogSampled, hogCommitted, starved>>

NoSample == -1

(***************************************************************************)
(* The buffers of a job in the order they are allocated: da, db and dc     *)
(* (device bytes), then the pinned ones (none).                            *)
(***************************************************************************)
Pinned == 0

BufferBytes(j) ==
  LET m == Shape[j][1]  n == Shape[j][2]  k == Shape[j][3]
  IN  <<m * k, k * n, m * n, Pinned>>

ASSUME ShapeAssumption ==
  /\ Shape \in [Jobs -> Nat \X Nat \X Nat]
  /\ \A j \in Jobs : Bytes[j] = BufferBytes(j)[1] + BufferBytes(j)[2] + BufferBytes(j)[3]

\* Allocation a is for the buffer PartAt(a) of job number IndexAt(a).
IndexAt(a) == ((a - 1) \div 4) + 1
PartAt(a) == ((a - 1) % 4) + 1

Plan(w) ==
  [a \in 1..(4 * Len(batch[w])) |-> BufferBytes(batch[w][IndexAt(a)])[PartAt(a)]]

\* The device memory that allocations 1..count of worker w take, byte by byte.
Memory(w, count) == UNION {{<<w, a>>} \X (1..Plan(w)[a]) : a \in 1..count}

Held == UNION {Memory(w, got[w]) : w \in Workers}

HeldByAll == Cardinality(Held)

FreeMem == TotalMem - HeldByAll - HogBytes

Waiting == {j \in Jobs : status[j] = "waiting"}

Init ==
  /\ HogInit
  /\ status = [j \in Jobs |-> "waiting"]
  /\ results = {}
  /\ reserved = 0
  /\ base = NoSample
  /\ batchQueue = <<>>
  /\ wpc = [w \in Workers |-> "idle"]
  /\ batch = [w \in Workers |-> <<>>]
  /\ got = [w \in Workers |-> 0]
  /\ attempt = [w \in Workers |-> 0]
  /\ stored = [w \in Workers |-> 0]
  /\ hogSampled = 0
  /\ hogCommitted = 0
  /\ starved = FALSE

-----------------------------------------------------------------------------
(* Dispatcher. *)

\* Mutant: the margin is not taken off the sample.
SampleNoMargin ==
  /\ Waiting # {}
  /\ base = NoSample
  /\ base' = FreeMem
  /\ hogSampled' = HogBytes
  /\ UNCHANGED <<status, results, reserved, batchQueue, wpc, batch, got, attempt,
                 stored, hogCommitted, starved, hogVars>>

\* budget_bytes, first half: monitor_.sample() and the margin.
Sample ==
  /\ Waiting # {}
  /\ base = NoSample
  /\ base' = IF FreeMem =< SafetyMargin THEN 0 ELSE FreeMem - SafetyMargin
  /\ hogSampled' = HogBytes
  /\ UNCHANGED <<status, results, reserved, batchQueue, wpc, batch, got, attempt,
                 stored, hogCommitted, starved, hogVars>>

\* budget_bytes, second half: the reservation is read after the sample.
Budget == IF base > reserved THEN base - reserved ELSE 0

\* What a packing round may select: a set that fits and to which no waiting job
\* can be added (PackedSetIsMaximal in PackingProofs: pack_jobs selects one).
Packable(S) ==
  /\ Fits(S, Budget)
  /\ \A j \in Waiting \ S : ~Fits(S \cup {j}, Budget)

\* pack_jobs, then reserve_bytes and the push.
Commit ==
  /\ base # NoSample
  /\ \E S \in (SUBSET Waiting) \ {{}} :
       /\ Packable(S)
       /\ reserved' = reserved + Need(S)
       /\ batchQueue' = Append(batchQueue, SetToSeq(S))
       /\ status' = [j \in Jobs |-> IF j \in S THEN "committed" ELSE status[j]]
       /\ hogCommitted' = IF Need(S) > 0 THEN hogSampled ELSE hogCommitted
  /\ base' = NoSample
  /\ UNCHANGED <<results, wpc, batch, got, attempt, stored, hogSampled,
                 starved, hogVars>>

\* Mutant: the dispatcher packs against its old sample again.
NothingFitsStale ==
  /\ base # NoSample
  /\ Packable({})
  /\ UNCHANGED vars

\* Nothing fits: 5 ms pause, then a new sample.
NothingFits ==
  /\ base # NoSample
  /\ Packable({})
  /\ base' = NoSample
  /\ UNCHANGED <<status, results, reserved, batchQueue, wpc, batch, got, attempt,
                 stored, ghostVars, hogVars>>

-----------------------------------------------------------------------------
(* Worker w. *)

Take(w) ==
  /\ wpc[w] = "idle"
  /\ batchQueue # <<>>
  /\ batch' = [batch EXCEPT ![w] = Head(batchQueue)]
  /\ batchQueue' = Tail(batchQueue)
  /\ wpc' = [wpc EXCEPT ![w] = "allocate"]
  /\ attempt' = [attempt EXCEPT ![w] = 0]
  /\ UNCHANGED <<status, results, reserved, base, got, stored, ghostVars, hogVars>>

AtAllocation(w) == wpc[w] = "allocate" /\ got[w] < 4 * Len(batch[w])
NextBytes(w) == Plan(w)[got[w] + 1]

\* cudaMalloc or cudaHostAlloc succeeds.
Allocate(w) ==
  /\ AtAllocation(w)
  /\ NextBytes(w) =< FreeMem
  /\ got' = [got EXCEPT ![w] = @ + 1]
  /\ UNCHANGED <<status, results, reserved, base, batchQueue, wpc, batch, attempt,
                 stored, ghostVars, hogVars>>

\* Mutant: attempts without a limit.
AllocateOutOfMemoryForever(w) ==
  /\ AtAllocation(w)
  /\ NextBytes(w) > FreeMem
  /\ got' = [got EXCEPT ![w] = 0]
  /\ wpc' = [wpc EXCEPT ![w] = "backoff"]
  /\ attempt' = [attempt EXCEPT ![w] = -1]
  /\ UNCHANGED <<status, results, reserved, base, batchQueue, batch, stored,
                 ghostVars, hogVars>>

\* cudaMalloc reports cudaErrorMemoryAllocation: everything allocated for the
\* batch is released; another attempt after the pause, or the batch fails.
AllocateOutOfMemory(w) ==
  /\ AtAllocation(w)
  /\ NextBytes(w) > FreeMem
  /\ got' = [got EXCEPT ![w] = 0]
  /\ starved' = (starved \/ HogBytes =< hogCommitted + SafetyMargin)
  /\ wpc' = [wpc EXCEPT ![w] = IF attempt[w] < MaxRetries THEN "backoff" ELSE "failing"]
  /\ UNCHANGED <<status, results, reserved, base, batchQueue, batch, attempt, stored,
                 hogSampled, hogCommitted, hogVars>>

\* The 25 ms pause is over: next turn of the loop.
Retry(w) ==
  /\ wpc[w] = "backoff"
  /\ wpc' = [wpc EXCEPT ![w] = "allocate"]
  /\ attempt' = [attempt EXCEPT ![w] = @ + 1]
  /\ UNCHANGED <<status, results, reserved, base, batchQueue, batch, got, stored,
                 ghostVars, hogVars>>

\* Another cudaMalloc error: released, not retried.
AllocateError(w) ==
  /\ Faults
  /\ AtAllocation(w)
  /\ NextBytes(w) # Pinned
  /\ got' = [got EXCEPT ![w] = 0]
  /\ wpc' = [wpc EXCEPT ![w] = "failing"]
  /\ UNCHANGED <<status, results, reserved, base, batchQueue, batch, attempt, stored,
                 ghostVars, hogVars>>

\* cudaHostAlloc, a launch, a copy or an event wait throws: the device buffers
\* stay until the function returns.
Throw(w) ==
  /\ Faults
  /\ \/ AtAllocation(w) /\ NextBytes(w) = Pinned
     \/ wpc[w] = "execute" /\ stored[w] < Len(batch[w])
  /\ wpc' = [wpc EXCEPT ![w] = "failing"]
  /\ UNCHANGED <<status, results, reserved, base, batchQueue, batch, got, attempt,
                 stored, ghostVars, hogVars>>

Allocated(w) ==
  /\ wpc[w] = "allocate"
  /\ got[w] = 4 * Len(batch[w])
  /\ wpc' = [wpc EXCEPT ![w] = "execute"]
  /\ UNCHANGED <<status, results, reserved, base, batchQueue, batch, got, attempt,
                 stored, ghostVars, hogVars>>

\* cudaEventSynchronize(done) returns and the result is copied to results_.
CollectResult(w) ==
  /\ wpc[w] = "execute"
  /\ stored[w] < Len(batch[w])
  /\ results' = results \cup {batch[w][stored[w] + 1]}
  /\ stored' = [stored EXCEPT ![w] = @ + 1]
  /\ UNCHANGED <<status, reserved, base, batchQueue, wpc, batch, got, attempt,
                 ghostVars, hogVars>>

SettleBatch(w, outcome) ==
  status' = [j \in Jobs |-> IF j \in ToSet(batch[w]) THEN outcome ELSE status[j]]

\* Mutant: the records are written before the last result is stored.
RecordEarly(w) ==
  /\ wpc[w] = "execute"
  /\ stored[w] + 1 = Len(batch[w])
  /\ SettleBatch(w, "ok")
  /\ wpc' = [wpc EXCEPT ![w] = "freeing"]
  /\ UNCHANGED <<results, reserved, base, batchQueue, batch, got, attempt, stored,
                 ghostVars, hogVars>>

\* metrics_ and completed_, after the last result.
Record(w) ==
  /\ wpc[w] = "execute"
  /\ stored[w] = Len(batch[w])
  /\ SettleBatch(w, "ok")
  /\ wpc' = [wpc EXCEPT ![w] = "freeing"]
  /\ UNCHANGED <<results, reserved, base, batchQueue, batch, got, attempt, stored,
                 ghostVars, hogVars>>

\* The catch block: cudaDeviceSynchronize and fail_batch.
FailBatch(w) ==
  /\ wpc[w] = "failing"
  /\ SettleBatch(w, "failed")
  /\ wpc' = [wpc EXCEPT ![w] = "freeing"]
  /\ UNCHANGED <<results, reserved, base, batchQueue, batch, got, attempt, stored,
                 ghostVars, hogVars>>

\* release_bytes: never below zero.
Release(w) ==
  LET bytes == Need(ToSet(batch[w]))
  IN  reserved' = IF bytes > reserved THEN 0 ELSE reserved - bytes

\* Mutant: the reservation is returned while the buffers still exist.
ReleaseBytesFirst(w) ==
  /\ wpc[w] = "freeing"
  /\ Release(w)
  /\ wpc' = [wpc EXCEPT ![w] = "releasing"]
  /\ UNCHANGED <<status, results, base, batchQueue, batch, got, attempt, stored,
                 ghostVars, hogVars>>

\* execute_batch returns: the buffers' destructors run.
FreeBuffers(w) ==
  /\ wpc[w] = "freeing"
  /\ got' = [got EXCEPT ![w] = 0]
  /\ wpc' = [wpc EXCEPT ![w] = "releasing"]
  /\ UNCHANGED <<status, results, reserved, base, batchQueue, batch, attempt, stored,
                 ghostVars, hogVars>>

\* worker_loop: release_bytes after execute_batch.
ReleaseBytes(w) ==
  /\ wpc[w] = "releasing"
  /\ Release(w)
  /\ batch' = [batch EXCEPT ![w] = <<>>]
  /\ stored' = [stored EXCEPT ![w] = 0]
  /\ wpc' = [wpc EXCEPT ![w] = "idle"]
  /\ UNCHANGED <<status, results, base, batchQueue, got, attempt, ghostVars,
                 hogVars>>

-----------------------------------------------------------------------------
DispatcherStep == Sample \/ Commit \/ NothingFits

WorkerStep(w) ==
  \/ Take(w) \/ Allocate(w) \/ AllocateOutOfMemory(w) \/ Retry(w) \/ Allocated(w)
  \/ CollectResult(w) \/ Record(w) \/ FailBatch(w) \/ FreeBuffers(w) \/ ReleaseBytes(w)

FaultStep(w) == AllocateError(w) \/ Throw(w)

HogStep == HogNext(FreeMem) /\ UNCHANGED execVars

Next ==
  \/ DispatcherStep
  \/ \E w \in Workers : WorkerStep(w) \/ FaultStep(w)
  \/ HogStep

Spec == Init /\ [][Next]_vars

\* The scheduler's threads run; nothing is assumed of the other process.
FairSpec ==
  /\ Spec
  /\ WF_vars(DispatcherStep)
  /\ \A w \in Workers : WF_vars(WorkerStep(w))

-----------------------------------------------------------------------------
(* Properties. *)

CommittedNeed == Need((UNION {ToSet(batchQueue[i]) : i \in DOMAIN batchQueue})
                        \cup (UNION {ToSet(batch[w]) : w \in Workers}))

\* The device memory the workers hold is covered by the reservation at every
\* moment, so a budget computed from any sample cannot promise it twice: the
\* buffers are freed before their bytes are returned, and retries never hold
\* more than the batch was packed for.
HeldWithinReservation ==
  /\ reserved = CommittedNeed
  /\ HeldByAll =< reserved

\* An allocation runs out of memory only if another process has grown by more
\* than the safety margin since the sample that memory was last committed
\* against: the scheduler's own batches never overcommit the device (the comment
\* of the retry loop), however the sample and the releases interleave.
OomNeedsTenant == ~starved

\* A job recorded as completed has its result in results_ (retain_results): a
\* caller that saw it complete can get_result() it.
OkJobsHaveResults == \A j \in Jobs : status[j] = "ok" => j \in results

\* A committed batch ends whatever other processes do with the memory: the
\* retries are bounded.
EveryBatchEnds ==
  \A j \in Jobs : status[j] = "committed" ~> status[j] \in {"ok", "failed"}

\* Once the other process has exited for good, every job settles: memory lost
\* to it comes back and nothing waits for it.
JobsSettleAfterTenant ==
  hogPc = "exited" ~> \A j \in Jobs : status[j] \in {"ok", "failed"}
=============================================================================
