# GpuBatchInferenceScheduler: specifications, model checking and proofs

A TLA+ development of the batch scheduler in this repository: modules that follow
the source step by step, TLC configurations that explore small instances, and
theorems about them that TLAPS checks for every instance. Paths are relative to
the repository's root; `scheduler.cpp` is `src/sched/scheduler.cpp`.

    tlc -workers 2 -config Contention.cfg MCScheduler.tla     # one run
    tlapm SchedulerProofs.tla                                 # one proof module

`PROJECT.json` lists, in a form a script can read, the components, the runs, the
mutants, the lines each definition translates, the findings, the hazards and the
theorems.

## 1. The system

| component | state it keeps | operations |
|---|---|---|
| `BatchScheduler` (`scheduler.cpp`, `scheduler.hpp`) | `queue_`, `batch_queue_`, `reserved_bytes_`, `metrics_`, the counters, `started_`/`shutdown_` | `submit`, `start`, `stop`, `dispatcher_loop`, `worker_loop`, `fail_batch`, `budget_bytes`, `reserve_bytes`, `release_bytes`, and readers |
| packing (`pack_jobs`, `job.hpp`) | none: a function of the candidates, the budget and the clock | `pack_jobs`, `bytes_required` |
| batch execution (`execute_batch`, `core/`) | a worker's streams and event pool, the buffers of the jobs of one batch, `results_` | allocate with retry, the H2D / kernel / D2H pipeline, collect the results |
| `GpuMonitor` (`gpu_monitor.cpp`) | the utilisation samples, the sampling thread | `sample`, `start_sampling`, `stop_sampling`, `mean_utilization` |
| daemon (`main.cpp`) | the generator thread, the interrupt flag | parse, generate or replay jobs, exit loop, stop |
| HTTP status server (`http_server.cpp`) | the server thread | `/healthz`, `/metrics` |
| Python bindings (`py_module.cpp`) | the global scheduler, `g_running`, `g_mutex` | `start_scheduler`, `stop_scheduler`, `submit_job`, `stats` |
| GEMM kernels (`kernels/`) | none | tiled and cuBLAS products |
| benchmarks, scripts, deployment | none that the others see | drivers |

**How they interact.** Clients (the daemon's generator, Python threads) call
`submit()`, which pushes onto `queue_`, then counts, then notifies. The dispatcher
thread waits for room in `batch_queue_`, waits for `queue_` to be non-empty, drains
all of it into local vectors, rejects what can never fit, reads the budget, packs,
puts the rest back, reserves the bytes of the selected batch, pushes it onto
`batch_queue_` and wakes one worker. A worker pops a batch, wakes the dispatcher,
executes the batch, appends one record per job, counts, and releases the bytes.
`stop()` raises `shutdown_`, broadcasts three condition variables, and joins.
The monitor tells the dispatcher how much memory is free; the daemon, the
status server and the bindings read counters and records while all this runs.

**What is hard about it.** Four mutexes and three condition variables, with
no critical section that covers a hand-over: a job leaves one container under one
mutex and enters the next under another. Predicates and counters are tested in one
critical section and relied on in a later one (queue depth, budget, shutdown).
`stop()` writes the flag the waiters test without the mutex they hold. Every batch
can succeed, fail as a whole, or throw on the way; its bytes must be released once.
A scheduler can be restarted on what the previous run left behind.

**What makes each part correct**

* scheduler: jobs conserved; bytes reserved equal bytes committed, and never more
  than the largest budget; no lost wakeup; bounded lookahead; each job settles;
  `stop()` returns; a daemon that sees the counters agree may exit.
* packing: budget and cap respected; the result is a deterministic function of the
  candidates; maximal among jobs of one age; no job displaced by a younger one.
* batch execution: a failed attempt gives everything back; no copy or kernel
  touches a buffer before the one it depends on; a failed batch leaves nothing
  running that the next batch of the worker could meet.
* monitor: no sampling thread outlives its scheduler.
* daemon and status server: the drain test, read in several steps beside a
  generator that still submits, is sound; `stop()` is reached and runs alone; no
  page counts a waiting job as running, or more completions than records.
* bindings: no scheduler is used while it is destroyed or stopped; none runs that
  `stop()` cannot reach; the GIL and `g_mutex` do not deadlock.
* kernels: every element of `C` gets the sum of the CPU reference, whatever the
  order of the threads between the barriers; no access outside the matrices, as far as
  an `int` can index them.

## 2. Modules

| module | models | extends |
|---|---|---|
| `Packing` | the comparator, the cap and budget tests and the set `pack_jobs` selects, as operators | |
| `PackJobs` | one call of `pack_jobs`, one step per loop iteration | `Packing` |
| `JobService` | what the scheduler promises its callers: the abstract specification | |
| `Scheduler` | `BatchScheduler`: clients, dispatcher, workers, `start`/`stop` | `Packing`, instance of `JobService` |
| `Daemon` | `main()`, its generator or replay loop, SIGINT, and the `/metrics` handler, around the scheduler | `Scheduler` |
| `BatchExec` | device memory, retries, results and records of `execute_batch`, beside another process | `Packing`, `MemoryHog` |
| `MemoryHog` | the other process: `gpu_memory_hog.cpp` | |
| `Pipeline` | the host programs that drive streams: `execute_batch`, `bench_overlap`, `bench_gemm` | `CudaStreams` |
| `CudaStreams` | streams and events as the code relies on them (external) | |
| `Bindings` | the Python module: threads, GIL, `g_mutex`, the global scheduler | `GpuMonitor` |
| `GpuMonitor` | the sampling thread of a scheduler | |
| `TiledGemm` | the kernels: the tiled one thread by thread, the others as sums | |
| `PackingProofs`, `PackJobsProofs`, `SchedulerProofs`, `DaemonProofs`, `BatchExecProofs`, `PipelineProofs`, `BindingsProofs`, `TiledGemmProofs` | the theorems of section 4 | the module each is named for |
| `MCPackJobs`, `MCScheduler`, `MCDaemon`, `MCBatchExec`, `MCPipeline`, `MCBindings` | the values TLC uses | |

`Daemon` composes with the scheduler step by step: the two share every variable.
`BatchExec` and `Pipeline` look closer at what is one step of a worker in
`Scheduler` (`WorkerFail`, `WorkerSucceed`): memory, results and retries in one,
streams, events and the error path in the other. Composing all three would
multiply their states without adding an interaction: a worker's streams and
buffers are its own, and the device memory is the only thing workers share while
they execute. `BatchExec` takes a packing round as any maximal set that fits,
which `PackedSetIsMaximal` proves `pack_jobs` to select.

### Scheduler and the code

Variables carry the names of the fields (`queue_`, `batch_queue_`,
`reserved_bytes_`, `metrics_`, `completed_`, ...) and of the dispatcher's locals
(`candidates`, `selected`, `remaining`; `base` is the local of `budget_bytes`).
`pc[t]` says where thread `t` is; `batch[w]` is the local `batch` of
worker `w`, from the pop to the release of its bytes.

One action is one critical section, one atomic operation or one notification:

| code | actions |
|---|---|
| `submit` 272-282 | `SubmitEnqueue`, `SubmitCount`, `SubmitNotify` |
| `start` 212-243 | `Start` |
| `stop` 245-270 | `StopFlag`, `StopNotify` (three times), `StopJoin` |
| `dispatcher_loop` 402-422 | `DispatcherSpace`, `DispatcherQuit`, `DispatcherDrain` |
| 424-453 | `DispatcherNoGpu`, `DispatcherReject` |
| 455-463 | `DispatcherSample`, `DispatcherPack`, `DispatcherRequeue` |
| 465-478 | `DispatcherReserve`, `DispatcherPush`, `DispatcherNotify` |
| `worker_loop` 485-498 | `WorkerTake`, `WorkerQuit`, `WorkerNotifySpace` |
| 500-517, `execute_batch` | `WorkerNoGpu`, `WorkerFail`, `WorkerThrow`, `WorkerSucceed`, `WorkerCount`, `WorkerRelease` |
| any `cv.wait` | `WaitBlock`, `WaitSleep`, `SpuriousWakeup` |

A wait takes three steps because that is where the code is delicate. `WaitBlock`
finds the predicate false with the mutex held; `WaitSleep` puts the thread into the
wait set and frees the mutex; a notification makes it compete again. A notification
between the first two is lost, and only a notifier that takes the mutex cannot fall
in that gap. `submit()` and the hand-overs push under the mutex; `stop()` does not.

Abstractions, and why the properties do not notice them:

* *Clock.* A job's age bucket is any value up to `MaxBucket`, drawn again at each
  packing. More orders than a real clock gives, hence safety carries over.
* *Free memory.* With `FixedBudget = 0` the sample is any value up to the total:
  other processes take and return memory as they like.
* *Execution.* A batch succeeds, fails inside the `try` block, or throws before it
  (`SetupMayThrow`), which ends the process through `std::terminate`.
* *Memory sizes* are natural numbers; the wrap of `size_t` in `bytes_required`
  is a listed hazard.
* *`queue_` is a set.* The dispatcher always drains all of it and `pack_jobs` sorts
  by a total order (`seq` is unique), so the order of the priority queue is not
  observable. `MCPackJobs` checks that the result is unique.
* *`start()`/`stop()`* are called by one thread, as in `main.cpp`; concurrent callers
  are the matter of `Bindings`.

`Need(S)`, the memory of a set of jobs, is written as the cardinality of a set of
units, one per byte. It is the sum the code accumulates, in a form
in which additivity follows from facts about finite sets instead of an induction.

### JobService

A job is `"new"`, `"accepted"`, `"ok"` or `"failed"`. `Settle` turns a set of
accepted jobs, a batch, into `"ok"` (only when the batch respects the cap and the
budget) or `"failed"`, and only between `start()` and the return of `stop()`.
The refinement maps a job's status from `submitPc` and its record, and
`serving` from `started_`.

### Daemon

`mainPc` follows `main()`; every atomic or locked read of the drain test and of a
scrape is a step, so the scheduler moves between any two of them. The two operands
of `completed() >= submitted()` may be read in either order (C++ leaves it open).
SIGINT may come at any moment from the installation of the handler on. A
turn of the loop that fails a test goes back to its head. `MainStop`,
`MainStopNotify` and `MainStopJoin` are the scheduler's `stop()`. In replay mode the
jobs are submitted by `main()` itself before the loop; otherwise by the generator
thread beside it. What a job looks like, its pacing and the final report are left
out, and so are `--stress` and `--saturation`, which only choose the jobs.
When a worker's exception ends the process, the daemon ends with it.

### BatchExec and MemoryHog

The device memory is what the workers' buffers (`Held`, a set with one element per
byte, like `Need`), the other process (`HogBytes`) and nobody else hold. `Sample` reads it; `Commit` packs, reserves and
pushes; a worker then allocates `da`, `db`, `dc` and the pinned buffers of each job
in the order of the loop. `AllocateOutOfMemory` gives everything back and waits, at
most `MaxRetries` times (200 in the code); `AllocateError` and `Throw` are the errors
that are not retried, the second one with the buffers still held. `FreeBuffers`
(destructors) comes before `ReleaseBytes`. Three history variables remember how much
the other process held in the current sample and in the sample of the latest
commitment of any memory, and whether an allocation ever failed although it had not
grown past the margin since. (A batch of zero bytes commits none: packed from a
sample that shows nothing free, it says nothing about the batches that run.)

### Pipeline and CudaStreams

A host program is the sequence of calls the code makes for `n` jobs: fill, copy or
launch on a stream, record an event, make a stream wait, wait for an event, read a
timer, take a result. The host walks it call by call while the device executes:
streams are FIFO, different streams are not ordered, a wait captures the latest
record at the time of the call. Data is a label, the number of the round it belongs
to, and 0 while it is being written or when it mixes two rounds; reading early or
overwriting early shows as a wrong label. Events and streams survive from round to
round, the worker's buffers do not. In the worker, any checked call may fail, and
the catch block waits for the device. Durations are left out.

A loop over the jobs is `ForJobs`, which gives the call at a position by a division, so
that what a program does at any position is arithmetic. The uploads that the code issues
one turn ahead (`enqueue_h2d`) stand at the head of their own turn; the order of the calls
is the same. An item of a queue also carries the position of the call that issued it
(`at`), a ghost that no step looks at and the proofs read.

### GpuMonitor and Bindings

`pc[t]` follows Python thread `t` through the module; each access to `g_sched`,
`g_running`, the GIL and `g_mutex` is a step. A scheduler goes from `"made"` to
`"running"`, `"stopping"`, `"stopped"`, `"destroyed"`, and owns a sampling thread.
`start()` of a stopped one makes it run again (`scheduler.cpp` 215-218); only calls that
race come to that, because `start_scheduler()` makes a new one. A thread that is about
to use one that is not there, to join what another thread is joining, or to destroy one
that has been started again, ends the process (`crashed`): that is undefined behaviour
or `std::terminate`, and the model continues no further. `raced` remembers that `g_sched` was written
while another thread was in `submit_job()`. `stop()` of a scheduler is taken to
return; `stop_hangs` shows when it does not, and then the caller keeps `g_mutex`.
The unsynchronised write of `g_opts` beside `submit_job()` is not modelled.
`Instances` bounds how many schedulers are ever made: no call makes one more.

### TiledGemm

One block of `gemm_tiled_batched_kernel`, one action per thread and phase, two
barriers per tile. A value is the place it was read from, and a sum its terms by
their position in the order of addition, which for every element is `k`; the
products of the padding keep their position and add nothing (`Sum`). Equality means
the same products in the same order. (The CPU
reference adds in double precision: the terms agree, not the rounding.) `Naive`,
`Reference` and `Cublas` are what the naive kernel, the CPU reference and the cuBLAS
call compute.

Places are computed as in the code. The start of a matrix of the batch is a
`std::size_t` (`BaseA`, `BaseB`, `BaseC`); the index inside it has 32 bits: `unsigned int`
where `threadIdx` takes part (`gemm.cu` 71, 76), which wraps (`Unsigned`), and `int`
elsewhere (35, 37, 90, and the CPU reference), whose overflow is undefined: a build may
wrap or have computed in 64 bits, and `Signed` leaves the choice open (`widened`).
`IntLimit` stands for 2^31. Dimensions are assumed to leave room for one block below
it, so that rows, columns and `k0` are ints; the products of dimensions are not
limited, as nothing in the code limits them. `PlaceA`, `PlaceB`, `PlaceC`, and `Product`
made from them, are no code: they say where the elements of row-major matrices are.
`Representable` says that an `int` can index every element.

## 3. Runs

| run | instance | what it shows |
|---|---|---|
| `contention` | 3 jobs of 1, 1, 2 bytes; 2 workers; sampled budget up to 3 | `TypeOK`, `JobsConserved`, `ReservationExact`, `NoOvercommit`, `NobodySleepsThroughWork`; no deadlock; failing and throwing batches |
| `lifecycle` | 3 jobs of 1 byte, budget 3, 1 worker, batches of one, 2 starts, 1 stop, spurious wakeups, a GPU that may be gone at the restart | `LookaheadBounded`, `DrainTestSound`, `ImplementsService` |
| `settle` | 3 jobs of 1, 1, 4 bytes, budget 1 under a total of 4 less a margin of 1 | `EveryJobSettles`, by execution, failure or rejection |
| `sweep` | every call of `pack_jobs` on up to 4 jobs of 1, 1, 2, 3 bytes, two ages, every submission order, every budget 0..7, cap 3 | `SweepBounded`, `ComputesPacks`, `SameAgeIsOptimal`, `YoungerNeverDisplaces` |
| `daemon` | 2 jobs that must take turns, 1 worker; a generator beside the status server, and a replay; SIGINT; a port that may be taken | `ExitsDrained`, `GaugeCountsTakenJobs`, `PageHasRecords`, `StopIsExclusive`, `DaemonStops`, `StopReturnsIfWoken` |
| `exec` | jobs of 3 and 5 units, 2 workers, 10 units of memory, a margin of 2, 1 retry, another process that takes up to 2 blocks of 2 | `HeldWithinReservation`, `OomNeedsTenant`, `OkJobsHaveResults`, `EveryBatchEnds`, `JobsSettleAfterTenant` |
| `pipeline` | all six host programs, 1 to 3 jobs a round, 2 rounds | `ReadsAreReady`, `DeliveredIsRight`, `QuietWhenFreed`, `TimersComplete`, `ControlCaseSerial`, `ResultsArriveInOrder`, `EveryRoundEnds` |
| `bindings` | 3 Python threads of 2 calls each: one starts and submits, one stops and submits, one reads and multiplies; with and without a GPU | `MisuseNeedsRace`, `RunningIsReachable`, `NoSamplerOutlives`, `EveryCallReturns` |
| `gemm` | blocks of 2 x 2 threads, every shape up to 5 x 5 x 5, 2 batch elements, every block of the grid, ints below 16 | `AccessesInMatrix`, `TilesComplete`, `TiledIsReference`, `KernelsAgree`, `KernelEnds` |
| `stop_hangs`, `stranded_batch`, `never_fits` | the smallest instance that shows it | the findings of section 6 |

**Why the bounds are enough.** Two workers and three jobs that do not fit
together give the contention that matters: one batch running, one waiting, one job
put back; a notification that could go to either of two workers; a budget read
between another batch's reservation and its release. The batch queue has at least
two places, so filling it needs three batches of one job, which is why `lifecycle`
has `MaxBatch = 1`, one worker and three jobs: two batches wait while the
dispatcher holds a third at its test of the depth, and a budget of 3 so
that memory does not stop it first. One stop and two starts cover
every way one run's leftovers meet the next run. In `settle` the budget only ever
admits one small job at a time, so the dispatcher spins and re-queues, and the third
job is larger than the device. `sweep` crosses both limits: a cap of 3 with four
jobs, and budgets from nothing to everything, each hit with equality. The safety
properties of `contention`, and the refinement, are proved for all instances, so
for them the runs only guard against a slip in the statement.

`contention` uses the symmetry of the two workers, and `lifecycle` that of the two jobs
of equal size and priority; both check invariants and a step-by-step refinement, for
which symmetry is sound. No liveness run uses it.

`daemon`: two jobs and a budget of one make the second wait for the first's release,
and the status server can scrape at any moment; one worker is enough because the
drain test and the page read counters, not workers. `exec`: the two jobs together
leave two units, the margin, and the other process may take four: so a sample can
be right, stale within the margin, and stale beyond it, and one retry has a first,
a last and a refused attempt. `pipeline`: with three jobs the first upload, an
upload overlapping both its neighbours and the last one are all there, and the
second round meets every event recorded before. `bindings`: two submitters, one
starter, one stopper and two calls each allow a replaced scheduler, a destroyed
one, and a restart. `gemm`: with a block of 2 and dimensions 1 to 5 the last tile is
half empty, exact, or the only one, in each dimension. An `int` that ends at 15
can index a 4 x 4 matrix to its last element, and the second matrix of a batch begins
beyond it; with a 5 in two dimensions it cannot, and there only the properties that say
nothing of places remain (section 6 says what becomes of the store).

`CHECK_DEADLOCK FALSE` appears in the runs whose system ends: `daemon`, `exec`,
`pipeline`, `bindings`, `gemm`, and in violation runs that call `stop()`, which may
hang with the joined thread asleep (section 6). What must not end early is stated
there as a liveness property. `Idle` allows stuttering only in a state in which
nothing is left to do, so in the other runs a deadlock is an error. (In `lifecycle`
a spurious wakeup can always rescue a hung `stop()`, so its deadlock check says
little; `contention` is the run that shows the threads never block each other.)

### Properties

* `JobsConserved`: while the process lives, a submitted job is in exactly one of the
  queue, the dispatcher's vectors, one waiting batch, one worker's batch, or the
  records, with one record. Five actors move jobs between six places.
* `ReservationExact`: `reserved_bytes_` is the memory of the batches between their
  reservation and their release. The clamp in `release_bytes` could hide a
  mismatch for ever; this says it never acts.
* `NoOvercommit`: all waiting and running batches fit together in the largest
  budget, though each was packed against a budget read at some earlier moment.
* `NobodySleepsThroughWork`: no thread is asleep on something it should do unless a
  notification that will wake it is already under way, before, during and after a
  `stop()`.
* `LookaheadBounded`: the depth is tested in one critical section and the push
  happens in another, much later; only one thread pushes, so the bound holds.
* `DrainTestSound`: the daemon's exit test (`main.cpp` 372-381) on one state:
  if every `submit()` has returned and the counters agree, all jobs have records.
* `ImplementsService`: the refinement of `JobService`.
* `EveryJobSettles`, `StopReturnsIfWoken`: liveness, below. The second is checked in
  `daemon`, with and without a batch under way.
* `SweepBounded` is the loop invariant of `pack_jobs`; `ComputesPacks` says the loop
  computes exactly the set that `Scheduler` uses in one step; `SameAgeIsOptimal`
  compares it with every subset; `YoungerNeverDisplaces` is what aging is for.

* `ExitsDrained`: the daemon leaves its loop uninterrupted only with every job
  recorded, although the flag, the queue and the counters are read at four moments
  and `submit()` counts a job after pushing it. `DaemonStops` is the other
  direction, `StopIsExclusive` the order of the joins.
* `PageHasRecords`, `GaugeCountsTakenJobs`: what a page may show. The records shown
  are never fewer than the completions. The gauge of jobs in flight is the difference of
  counters read at other moments than the depth of the queue; still, gauge and
  completions together never exceed the jobs taken out of the queue, so that no job is
  shown both waiting and running. Both depend on the order of the handler's reads
  and of the writes of `submit()` and the workers.
* `HeldWithinReservation`, `OomNeedsTenant`: the comment of the retry loop, that
  the scheduler's own batches never overcommit. The sample may be taken while
  another worker allocates, frees or returns; it is sound because a worker frees
  before it returns and the reservation is read after the sample.
* `OkJobsHaveResults`: results are stored one by one, records written at once.
* `EveryBatchEnds` assumes nothing of the other process; `JobsSettleAfterTenant`
  only that it has exited.
* `ReadsAreReady`, `DeliveredIsRight`, `ResultsArriveInOrder`: no stream overtakes
  what it depends on; the host takes this round's results, in the order of the batch.
  `QuietWhenFreed` is why the catch block synchronises. `TimersComplete` says one
  wait on the end event is enough for all the timers of all streams;
  `ControlCaseSerial` that the two-stream configuration overlaps nothing, as
  `docs/PROFILING.md` claims of the control case.
* `MisuseNeedsRace`: whatever goes wrong in the bindings goes wrong because `g_sched`
  was replaced during a `submit_job()`. TLC does reach `crashed` then
  (section 6).
* `RunningIsReachable`: without such a race no scheduler runs that `stop()` does not
  reach.
* `TilesComplete` is why there are two barriers, `TiledIsReference` what they are for,
  `KernelEnds` why no thread may leave before them. `AccessesInMatrix` is about the loads
  and stores of global memory: guards, 32-bit index and 64-bit start together.

Each of them has a mutant of the code in `PROJECT.json`, a plausible slip (a dropped
notification, a second release, a comparison off by one) that the run catches.

### Fairness

`FairSpec` assumes weak fairness of each thread's next step (the operating system
runs a runnable thread), of a `submit()` under way, and of a `stop()` under way.
It assumes nothing of the environment: nobody has to call `submit()`, `start()` or
`stop()`, no wait has to return without a notification, and a batch may fail as
often as it likes. Weak fairness is enough for mutexes because the only steps that
hold one across a step are `WaitBlock` to `WaitSleep`. `EveryJobSettles` is stated with a
fixed budget: with a sampled one, another process may keep all memory and
no job need ever run.

In `Daemon` every thread of the process runs (`main()`, generator, HTTP thread,
dispatcher, workers); nobody has to send SIGINT or a request. In `BatchExec` the
scheduler's threads run and nothing is assumed of the other process. In `Pipeline`
the host runs and the device executes what it is given; no call has to fail. In
`Bindings` a thread inside the module and every sampling thread runs; Python code
need not call. Weak fairness suffices for `g_mutex` and the GIL because each thread
makes finitely many calls. In `TiledGemm` a launched block makes progress.

## 4. What is proved

Constants are only assumed to be what the code can be given (`JobsAssumption`,
`SchedulerAssumption`, `ExecAssumption`, `ShapeAssumption` and the like): finite sets
of jobs and workers, sizes and options in the naturals, a positive block. Nothing
bounds them. (`TiledGemm` assumes in addition that dimensions leave room for a block
below `IntLimit`.) `NamesAssumption` says that the streams, events and locations given to
`CudaStreams` include those the host programs name, and that only these six programs are
run. Every safety property the passing runs check is proved. `StoresTheProduct`,
which `WideMatrix.cfg` refutes, is proved under the condition the code would have to
test (`RepresentableProductsAreStored`).

| theorem | statement |
|---|---|
| `TypeCorrect` | `Spec => []TypeOK` |
| `JobsAreConserved` | `Spec => []JobsConserved` |
| `ReservationIsExact` | `Spec => []ReservationExact` |
| `NeverOvercommits` | `Spec => []NoOvercommit` |
| `LookaheadStaysBounded` | `Spec => []LookaheadBounded` |
| `DrainTestIsSound` | `Spec => []DrainTestSound` |
| `NoLostWakeup` | `Spec => []NobodySleepsThroughWork` |
| `SchedulerImplementsService` | `Spec => ImplementsService` |
| `DaemonRunsScheduler` | `DaemonSpec => Spec`: what is proved of the scheduler holds inside `main()` |
| `DrainLoopLeavesNothing`, `NobodyUsesAStoppedScheduler` | `DaemonSpec => []ExitsDrained`, `[]StopIsExclusive` |
| `GaugeExcludesWaiting`, `PagesAreComplete` | `DaemonSpec => GaugeCountsTakenJobs`, `[]PageHasRecords` |
| `SweepStaysBounded`, `SweepComputesPacks`, `AgeComesFirst`, `SweepIsOptimalWithinAnAge` | `Spec => []SweepBounded`, `[]ComputesPacks`, `[]YoungerNeverDisplaces`, `[]SameAgeIsOptimal` (of `PackJobs`) |
| `PackedSetIsMaximal` | `Packs(S, ...)` implies that no other candidate fits beside `S` |
| `SameAgePackIsLargest` | with candidates of one age it implies that no set that fits is larger than `S` |
| `CompletedJobsHaveResults` | `Spec => []OkJobsHaveResults` (of `BatchExec`) |
| `HeldIsCovered`, `OnlyATenantStarves` | `Spec => []HeldWithinReservation`, `[]OomNeedsTenant` (of `BatchExec`) |
| `PipelineInvariant` | `Spec => []PipelineInv` (of `Pipeline`): the order of the items and the labels of the data |
| `ReadsAlwaysReady`, `DeliveredAlwaysRight` | `Spec => []ReadsAreReady`, `[]DeliveredIsRight` (of `Pipeline`) |
| `AlwaysQuietWhenFreed`, `TimersAlwaysComplete` | `Spec => []QuietWhenFreed`, `[]TimersComplete` (of `Pipeline`) |
| `ControlCaseAlwaysSerial`, `ResultsAlwaysInOrder` | `Spec => []ControlCaseSerial`, `ResultsArriveInOrder` (of `Pipeline`) |
| `SamplersAreJoined` | `Spec => []NoSamplerOutlives` (of `Bindings`) |
| `UnracedCallsAreSafe`, `NoSchedulerIsLost` | `Spec => []MisuseNeedsRace`, `[]RunningIsReachable` (of `Bindings`) |
| `BarriersSuffice` | `Spec => []TilesComplete` (of `TiledGemm`) |
| `LoopStaysInRange` | `Spec => []TypeOK` (of `TiledGemm`) |
| `AccessesInBounds` | `Spec => []AccessesInMatrix` (of `TiledGemm`; for `Representable` matrices) |
| `TiledComputesReference`, `KernelsComputeTheProduct` | `Spec => []TiledIsReference`, `[]KernelsAgree` (places for `Representable` matrices) |
| `RepresentableProductsAreStored` | `Spec => [](Representable => StoresTheProduct)` (of `TiledGemm`) |

**The inductive invariant.** `IInv` is `TypeOK`, `Scopes`, `JobsConserved`,
`ReservationExact` and `BudgetKept`.

`JobsConserved` is not inductive alone. `DispatcherDrain` overwrites `candidates`,
`WorkerTake` overwrites `batch[w]`, `Start` resets every `pc`: each would lose jobs
if there were any there. `Scopes` says there are none, that a local is empty
outside its scope and that every thread is gone when the scheduler is not
started. It also says that a batch past its recording has records, without which
`WorkerRelease` would seem to drop jobs.

`NoOvercommit` is not inductive either, because the bytes are checked at the packing
and reserved two steps later. `BudgetKept` carries the fact across:
`reserved_bytes_ + Need(selected) =< Capacity` from the packing to the reservation.
It survives because in between reservations only shrink: one dispatcher
reserves, workers only release. A second dispatcher would break exactly this line.
`ReservationExact` then turns the bound on the counter into one on memory, and needs
disjointness from `JobsConserved` because a job in two batches would be counted once
on one side and twice on the other.

The proofs go by cases on the action (`StepCases`), with one step per action and
below it one per conjunct it can disturb. `RecordEffect`, `FailBatchEffect`,
`BatchedPush`, `BatchedPop` and `ReleaseEffect` say what the shared operators do;
`PackingProofs` supplies additivity of `Need`.

**Lookahead, counters, wakeups.** Three more invariants are proved on top of
`TypeOK` or `IInv`. `RoomAhead` says that from its test of the depth to its push the
dispatcher has a place in `batch_queue_`; with `LookaheadBounded` it is inductive, and
rests on there being one dispatcher. `CountersExact` says by how
much each counter lags: `submitted_` is the number of jobs whose `submit()` has
counted (`Announced`), `completed_` the number of records less the jobs of the batches
recorded and not yet counted (`Uncounted`). Counters that agree therefore leave no job
unrecorded.

For `NoLostWakeup` the invariant is `WaitInv`. `StillNothing` is about the gap between
`WaitBlock` and `WaitSleep`: the mutex is held, so what the thread saw is still so.
`QueueWakes`, `SpaceWakes` and `TakeWakes` say of each condition
variable who will notify: a client, a worker, the dispatcher. The
counting is in `TakeWakes`: with `notify_one`, a batch
waiting needs a worker that is awake or a notification to come *for each* batch,
because a notification may wake a worker that finds another batch first. All three are
about work, not about `shutdown_`, so they survive a `stop()`; that a thread can sleep
through the flag itself is finding `stop_hangs`.

**The refinement** adds `BatchesFit`: every batch, wherever it is, respects the cap
and the largest budget. `WorkerSucceed` is then a `Settle` with `"ok"`, the three
callers of `fail_batch` are a `Settle` with `"failed"` (or a stutter for an empty
set), and all other actions but `SubmitEnqueue`, `Start` and `StopJoin` stutter.

**Daemon.** Each step of `Daemon` is a step of `Scheduler` or leaves its variables
alone, which is `DaemonRunsScheduler`; `IInv` and `CountersExact` come with it.
`DaemonInv` adds three parts. `Control` relates `mainPc` to the generator, the status
server and the scheduler. `Draining` says what each read of the exit test has
established by the time of the next one: once the generator has been seen done, no
job will be submitted, so `submitted_` does not move, and since
`completed_` only grows and never passes it, two reads at different moments
compare as if they were one. `Scraped` bounds each field of a page by the counter it
was read from, in the order of the handler's reads. For the gauge it is enough
that the `submitted()` read first was at most the number of jobs submitted by then
(`submit()` counts after it pushes) and that later jobs only add to both sides; what the
page then subtracts is the whole queue of the moment it reads the depth
(`PageBoundsGrow`).

**The loop of `pack_jobs`.** The sweep is greedy over a sorted vector, `Packs` is a
description by each candidate's predecessors. The invariant `Decided` connects them: a
candidate already looked at is selected exactly if it fits beside the selected ones
before it, which no later turn changes. When the loop is over this is the
definition of `Packs`. `Decided` carries the converse too: every set that fits the
description agrees with the selection on the candidates already looked at, so at the
end there is only one such set and no induction over data is needed. `AgeComesFirst`
then needs only that an older job comes before a younger one.

`SameAgePackIsLargest` is an exchange argument without induction. Suppose a set `T` that
fits is larger than the packed `S`. Then `S` is below the cap, so each job of `T \ S` is at
least as large as every job of `S` and does not fit the budget beside it. Take one
such job `y`: the others of `T \ S` are as many as `S \ T` and none is smaller, so `T`
needs no less than `S` and `y` together, which is over the budget.

**Batch execution.** `OkJobsHaveResults` alone is not inductive: `Record` looks at
`stored[w]` only. `StoredInResults` says that the first `stored[w]` jobs of the batch
have results and that a worker that has not begun to collect has stored none.

For memory, `MemoryInv` is `Distinct` (no job in two places), `Holding` (`got[w]` is a
position of the plan, and 0 where nothing is held), `Promised`, `DeviceFits` and
`~starved`.
What the workers hold is a subset of what their whole plans take, and that has as
many bytes as their jobs need (`AtMostIsReserved`), which is
`HeldWithinReservation`. `Promised` is the argument of the comment in the
retry loop: reserved bytes plus what the other process held in the sample of the latest
commitment are within the device less the margin. An allocation that fails
then has the other process to thank. The first attempt at this proof failed on a
batch that needs no memory, which the commitment of section 2 now tells apart.

**Streams and events.** The proof has two halves, and `WellOrdered` is what passes between
them.

The first is about the text of a program and no state. Positions stand for calls.
`Closed(P, D, h)` says that `D` could be the set of items finished when the host is about to
make call `h`: streams are FIFO, a wait is passed after the records before it, and the host
has been through the synchronisations before `h`. `Past(P, p, h)`, that item `p` is
finished then, is that every closed set contains `p`; `Before(P, p, q)` is the same for the
moment item `q` begins. Order is so a least fixed point written as a quantifier over
sets, and a chain of it (a stream, a record, the wait for it, a stream) is a few
instantiations (`BeforeByEvent`, `PastBySync`, `PastByWait`, ...), however
many jobs the loop has. `WellOrdered` is what a program has to get right: each input
is written before its reader begins and by nobody else since, a result is
past when it is taken and a timer when it is read, nothing is left at the end,
results are in the order of the jobs, and in the control cases all is serial.
`ProgramsOrdered` shows it of all six programs for any `n`. Those with three
streams are a `Chain` per job (upload, record, wait, kernel, record, wait, download). With
one copy stream the next upload is also behind the download that waits for the kernel
(`OneCopyStreamSerial`). The others use one stream, where it is enough that every item
comes after those it needs (`InTurn`).
One event recorded again for every job (`ev_h2d`, `ev_kern`) is sound because a wait refers
to every record before it, and all records of an event are in one stream.

The second half is about the machine. `OrderInv` ties the queues to the program: every item
is what its call issued, a queue is in the program's order, and the positions no longer
queued (`Done`) are `Closed` at `pc`. The last is the invariant proper: the host's steps
preserve it because it does not pass a synchronisation early, the device's because an item
leaves its queue at the head and a wait only after its record, for which
`RecordsNumbered` and `LastRecord` relate the counters of an event to the positions of its
records. The counters never start again, although events are reused from batch to batch,
so `OrderStartRound` needs the device to be quiet, which is `QuietWhenFreed`; it holds at a
return by `EndsQuiet` and after an error by the synchronisation of the catch block. `DataInv` then says
what the memory holds: an input is this round's once it is filled, and any other location
once one of its writers is finished and none is in flight. An item that begins finds its
inputs so (`ReadyToRead`, `NotOverwritten`).

**Bindings.** `stop()` and the destructor change the state of a scheduler in the
step that joins its sampler, and the `start()` that starts a sampler makes it
`"running"` in the same step, so `SamplersAreJoined` is inductive with the types of the two arrays. It needs no
assumption on races.

The other two are about what holds until `raced`: `RaceInv` is
`raced \/ (TypeInv /\ Calm)`. `Calm` says that the threads
in `start()`, `stop()` and `stats()` hold `g_mutex` (`Locked`); that only the first two stop a
scheduler (`Aimed`); that what a thread learned of `g_sched` is still so (`Claimed`); that
one thread at a time brings a scheduler up, and it is `g_sched` (`OneLaunch`); that what a
thread stops or destroys is in the state its caller expects (`Stops`); that where nobody
brings up or stops `g_sched`, `g_running` tells its state (`Settled`); and that whatever
runs is `g_sched` or about to be stopped (`Reached`). A first `submit_job()`
launches without `g_mutex`; there it is the absence of a race that says `g_sched` is still
the one it made.

**The tiled kernel.** `InStep` says that the threads are all on one side of the first
barrier and work on the same tile, `Filled` that a thread that has arrived there
has filled its place. The barrier turns the two into `TilesComplete`. `BoundsInv` adds
that the shape is one that can be launched and that row, column and `k0` stay in
range. From that `i * width + j` is an index of the matrix (`IndexInMatrix`), so in a
`Representable` matrix it is below `IntLimit` and neither `Unsigned` nor `Signed`
changes it, whichever `widened` is chosen (`NoWrap`): the place the code computes is the
place of the row-major matrix (`PlacesRight`) and in this batch element's part of it
(`PlacesWithin`). `SumsInv` says that `acc[t]` is the products of the first
`k0` values of `k`, padding included: a tile adds `Block` of them in order, so
the sequence needs only its length and its elements, not an induction. When
`k0` has passed `K` the padded products are those with `k >= K`, and dropping them leaves
the reference (`StoresInv`). `KernelsComputeTheProduct` is the same arithmetic
without the tiles: the grids cover the matrix, and the row-major index of
a matrix is the column-major index of its transpose.

**Only model-checked**

* The liveness properties, because fairness and ENABLED are out of the prover's
  reach: `EveryJobSettles`, `StopReturnsIfWoken`, `DaemonStops`, `EveryBatchEnds`,
  `JobsSettleAfterTenant`, `EveryRoundEnds`, `EveryCallReturns`, `KernelEnds`.

## 5. Not modelled, and why

* Argument and replay-file parsing, random shapes, pacing, CSV and console output,
  latency percentiles, durations: no property is about them.
* Floating-point values: symbolic sums only. The rounding of a sum, and
  `kTolerance` of `bench_gemm`, are out of TLC's reach.
* The width of `size_t`: memory sizes are natural numbers, so the wrap of
  `bytes_required` for shapes of 2^62 elements and more stays a listed hazard.
* Dimensions within a block of 2^31, for which rows, columns and `k0` themselves would
  overflow in the kernels. The 32-bit index inside a matrix is modelled.
* Launch errors of the tiled kernel: the code does not look at them, and what a
  rejected launch leaves behind is outside `CudaStreams`; a listed hazard.
* A wall clock: ages are drawn anew at each packing. Starvation of a large job
  by small ones in flight is a listed hazard (section 7).
* NVML's answers and the mean utilisation, which nothing decides on.
* `python/`, `scripts/`, `deploy/`: sequential drivers around the above.
* cpp-httplib, pybind11, CUDA, cuBLAS and NVML are external and appear only as what
  the code relies on.

## 6. Findings

Each is a run in which TLC finds a statement of the repository's own documentation
violated by what the code does.

* `stop_hangs` (`StopReturns`). `docs/DESIGN.md` 108-111: shutdown cannot deadlock.
  The one worker, its only job recorded, tests its predicate, `stop()` sets the flag
  and broadcasts, the worker goes to sleep, and the join waits for ever.
  `StopReturnsIfWoken` shows that this gap is the only cause: if no thread was in it,
  `stop()` returns.
* `stranded_batch` (`InFlightBatchesComplete`). Comment at `scheduler.cpp` 417: queued work
  is dropped, in-flight batches complete. The workers may leave before the
  dispatcher pushes the batch it was packing; the batch stays in `batch_queue_`,
  its jobs get no record, and its bytes stay reserved across a restart.
* `never_fits` (`OversizedJobsSettle`). `docs/DESIGN.md` 35-37: a job that can
  never fit is rejected once. With a total within the margin, `max_job_bytes()` is 0,
  which is also its value for "unknown", and the job is re-enqueued for ever.

Two more statements of comments are violated where a hazard says so. Their
configurations are kept beside the runs of `PROJECT.json`:

* `tlc -config WideMatrix.cfg TiledGemm.tla` (`StoresTheProduct`). Comment at `gemm.cu`
  96: `C[b] = A[b] * B[b]`. The index `row * N + col` of the store is an `int`: from 2^31
  elements of `C` on it overflows, which in a build that wraps is a store outside `C`. No
  part of the code limits the size of a matrix; `m = n = 46341`, `k = 1` needs 8.6 GB
  and is accepted where the device has them. The instance has an `int` that ends at 5
  and a 3 x 3 `C`. For smaller matrices the statement is proved
  (`RepresentableProductsAreStored`).
* `tlc -config Unguarded.cfg MCBindings.tla` (`NeverMisused`). Comment at `py_module.cpp`
  24-25: the global scheduler is "guarded by g_mutex". `ensure_scheduler()` and the
  `submit()` after it do not take it. A thread in its first `submit_job()` makes a
  scheduler while another is in `start()`, which resets `g_sched`; the first then
  calls `start()` through a null pointer. `MisuseNeedsRace` shows that nothing else
  goes wrong.

## 7. Plan

Done: all modules of section 2 and the theorems of section 4. What is left:

1. `Aging`: a clock, an endless stream of small jobs and a large one, for the claim of
   the comment at `scheduler.cpp` 119-125.
2. The launch-error path of the tiled kernel in `Pipeline`.
