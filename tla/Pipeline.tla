------------------------------ MODULE Pipeline ------------------------------
(***************************************************************************)
(* The host programs that drive CUDA streams: the launch, collect and      *)
(* error paths of BatchScheduler::execute_batch (scheduler.cpp), the four  *)
(* configurations of bench_overlap.cpp and the timed loop of               *)
(* bench_gemm.cpp.  A program is the sequence of calls the code makes, as  *)
(* a function of the number of jobs; the host walks it one call at a time  *)
(* while the device (CudaStreams) executes what was issued.  A round is    *)
(* one batch of the worker, or one repetition of a benchmark.              *)
(***************************************************************************)
EXTENDS CudaStreams

CONSTANTS
  Configs,     \* the host programs to explore
  MaxJobs,     \* bound: jobs per round
  MaxRounds    \* bound: rounds, over which events (and bench buffers) are reused

ASSUME BoundsAssumption == MaxJobs \in Nat \ {0} /\ MaxRounds \in Nat \ {0}

VARIABLES
  config,      \* which program this host runs
  size,        \* jobs of the round
  round,
  pc,          \* the next call of the program
  status,      \* "running", "draining" (catch block) or "returned"
  failed,      \* the round ended in the catch block
  collected    \* jobs whose result the host has taken, with the label it found

hostVars == <<config, size, round, pc, status, failed, collected>>
vars == <<deviceVars, hostVars>>

JobIds == 1..MaxJobs
HostBuffers(j) == {<<"ha", j>>, <<"hb", j>>}
StreamNames == {"null", "h2d", "compute", "d2h", "copy"}
JobEvents == {"h2d_done", "kern_done", "done", "c0", "c1", "k0", "k1", "d0", "d1"}
EventNames ==
  (JobEvents \X JobIds) \cup ({"start", "end", "ev_h2d", "ev_kern"} \X {0})
LocationNames == {"ha", "hb", "hc", "da", "db", "dc"} \X JobIds
ConfigNames ==
  {"scheduler", "pageable", "single", "copy_compute", "double_buffer", "gemm"}

ASSUME NamesAssumption ==
  /\ StreamNames \subseteq Streams
  /\ EventNames \subseteq Events
  /\ LocationNames \subseteq Locations
  /\ Configs \subseteq ConfigNames

-----------------------------------------------------------------------------
(* The calls a program is made of. *)

Fill(j) == [do |-> "fill", job |-> j]
Issue(s, reads, writes) == [do |-> "issue", stream |-> s, reads |-> reads, writes |-> writes]
Mark(e, s) == [do |-> "record", event |-> e, stream |-> s]
Await(s, e) == [do |-> "wait", event |-> e, stream |-> s]
EventSync(e) == [do |-> "event_sync", event |-> e]
Sync(streams) == [do |-> "sync", streams |-> streams]
ElapsedMs(first, last) == [do |-> "elapsed", events |-> {first, last}]
Collect(j) == [do |-> "collect", job |-> j]

\* H2D of each operand, the GEMM, D2H of the result.
UploadA(s, j) == Issue(s, {<<"ha", j>>}, <<"da", j>>)
UploadB(s, j) == Issue(s, {<<"hb", j>>}, <<"db", j>>)
Gemm(s, j) == Issue(s, {<<"da", j>>, <<"db", j>>}, <<"dc", j>>)
Download(s, j) == Issue(s, {<<"dc", j>>}, <<"hc", j>>)

\* A loop over the jobs: the same number of calls for each.
ForJobs(calls) ==
  LET m == Len(calls[1])
  IN  [i \in 1..(Len(calls) * m) |-> calls[((i - 1) \div m) + 1][((i - 1) % m) + 1]]

-----------------------------------------------------------------------------
(* BatchScheduler::execute_batch, from the launch to the collection. *)

\* Mutant: the event recorded between the two copies.
EnqueueH2DRecordEarly(j) ==
  <<Fill(j), UploadA("h2d", j), Mark(<<"h2d_done", j>>, "h2d"), UploadB("h2d", j)>>

EnqueueH2D(j) ==
  <<Fill(j), UploadA("h2d", j), UploadB("h2d", j), Mark(<<"h2d_done", j>>, "h2d")>>

\* Mutants: the event recorded before the result copy; result copies spread
\* over two streams.
EnqueueJobDoneBeforeCopy(j) ==
  <<Await("compute", <<"h2d_done", j>>), Gemm("compute", j), Mark(<<"kern_done", j>>, "compute"),
    Await("d2h", <<"kern_done", j>>), Mark(<<"done", j>>, "d2h"), Download("d2h", j)>>

EnqueueJobTwoCopyStreams(j) ==
  LET s == IF j % 2 = 1 THEN "d2h" ELSE "copy" IN
  <<Await("compute", <<"h2d_done", j>>), Gemm("compute", j), Mark(<<"kern_done", j>>, "compute"),
    Await(s, <<"kern_done", j>>), Download(s, j), Mark(<<"done", j>>, s)>>

EnqueueJob(j) ==
  <<Await("compute", <<"h2d_done", j>>), Gemm("compute", j), Mark(<<"kern_done", j>>, "compute"),
    Await("d2h", <<"kern_done", j>>), Download("d2h", j), Mark(<<"done", j>>, "d2h")>>

\* The first upload precedes the loop, and each turn ends with the next one:
\* job by job, an upload and then the kernel and the download.
ExecuteBatch(n) ==
  ForJobs([j \in 1..n |-> EnqueueH2D(j) \o EnqueueJob(j)])
    \o ForJobs([j \in 1..n |-> <<EventSync(<<"done", j>>), Collect(j)>>])

-----------------------------------------------------------------------------
(* bench_overlap.cpp: one repetition of each configuration.  Every timer   *)
(* is read after the last synchronisation.                                 *)

Timers(n) ==
  ForJobs([j \in 1..n |->
    <<ElapsedMs(<<"c0", j>>, <<"c1", j>>), ElapsedMs(<<"k0", j>>, <<"k1", j>>),
      ElapsedMs(<<"d0", j>>, <<"d1", j>>)>>])
    \o <<ElapsedMs(<<"start", 0>>, <<"end", 0>>)>>

Finish(s, n) == <<Mark(<<"end", 0>>, s), EventSync(<<"end", 0>>)>> \o Timers(n)

Start(s) == <<Sync(StreamNames), Mark(<<"start", 0>>, s)>>

\* cudaMemcpy returns when the copy is done: each one is followed by a wait.
RunPageable(n) ==
  <<Sync(StreamNames)>> \o ForJobs([j \in 1..n |->
    <<UploadA("null", j), UploadB("null", j), Sync({"null"}),
      Mark(<<"k0", j>>, "null"), Gemm("null", j), Mark(<<"k1", j>>, "null"),
      EventSync(<<"k1", j>>), ElapsedMs(<<"k0", j>>, <<"k1", j>>),
      Download("null", j), Sync({"null"})>>])

\* Each step between two timed events.
TimedUpload(s, j) == <<Mark(<<"c0", j>>, s), UploadA(s, j), UploadB(s, j), Mark(<<"c1", j>>, s)>>
TimedGemm(s, j) == <<Mark(<<"k0", j>>, s), Gemm(s, j), Mark(<<"k1", j>>, s)>>
TimedDownload(s, j) == <<Mark(<<"d0", j>>, s), Download(s, j), Mark(<<"d1", j>>, s)>>

PinnedSingle(j) ==
  TimedUpload("null", j) \o TimedGemm("null", j) \o TimedDownload("null", j)

RunPinnedSingle(n) ==
  Start("null") \o ForJobs([j \in 1..n |-> PinnedSingle(j)]) \o Finish("null", n)

\* Mutant: the copy stream does not wait for the kernel.
PinnedOverlapNoWait(j) ==
  TimedUpload("copy", j) \o <<Mark(<<"ev_h2d", 0>>, "copy"), Await("compute", <<"ev_h2d", 0>>)>>
    \o TimedGemm("compute", j) \o <<Mark(<<"ev_kern", 0>>, "compute")>> \o TimedDownload("copy", j)

\* ev_h2d and ev_kern are one event each, recorded again for every job.
PinnedOverlap(j) ==
  TimedUpload("copy", j) \o <<Mark(<<"ev_h2d", 0>>, "copy"), Await("compute", <<"ev_h2d", 0>>)>>
    \o TimedGemm("compute", j)
    \o <<Mark(<<"ev_kern", 0>>, "compute"), Await("copy", <<"ev_kern", 0>>)>>
    \o TimedDownload("copy", j)

RunPinnedOverlap(n) ==
  Start("copy") \o ForJobs([j \in 1..n |-> PinnedOverlap(j)]) \o Finish("copy", n)

\* The uploads are ahead of the loop as in execute_batch.
DoubleBuffer(j) ==
  TimedUpload("h2d", j)
    \o <<Await("compute", <<"c1", j>>)>> \o TimedGemm("compute", j)
    \o <<Await("d2h", <<"k1", j>>)>> \o TimedDownload("d2h", j)

\* Mutant: the end event recorded on the compute stream.
RunDoubleBufferEndOnCompute(n) ==
  Start("h2d") \o ForJobs([j \in 1..n |-> DoubleBuffer(j)]) \o Finish("compute", n)

RunDoubleBuffer(n) ==
  Start("h2d") \o ForJobs([j \in 1..n |-> DoubleBuffer(j)]) \o Finish("d2h", n)

-----------------------------------------------------------------------------
(* bench_gemm.cpp, run_benchmark: one buffer set, n warmup calls without a *)
(* synchronisation between them, then n timed iterations that record the   *)
(* same five events: e_start, e_h2d, e_k0, e_k1 and e_end are c0, c1, k0,  *)
(* k1 and end here.                                                        *)

RunOnce == <<UploadA("null", 1), UploadB("null", 1), Gemm("null", 1), Download("null", 1)>>

TimedRun ==
  TimedUpload("null", 1) \o TimedGemm("null", 1)
    \o <<Download("null", 1), Mark(<<"end", 0>>, "null"), EventSync(<<"end", 0>>),
         ElapsedMs(<<"c0", 1>>, <<"c1", 1>>), ElapsedMs(<<"k0", 1>>, <<"k1", 1>>),
         ElapsedMs(<<"k1", 1>>, <<"end", 0>>), ElapsedMs(<<"c0", 1>>, <<"end", 0>>)>>

RunBenchmark(n) ==
  ForJobs([i \in 1..n |-> RunOnce]) \o <<Sync(StreamNames)>>
    \o ForJobs([i \in 1..n |-> TimedRun]) \o <<Collect(1)>>

-----------------------------------------------------------------------------
ProgramOf(c, n) ==
  CASE c = "scheduler" -> ExecuteBatch(n)
    [] c = "pageable" -> RunPageable(n)
    [] c = "single" -> RunPinnedSingle(n)
    [] c = "copy_compute" -> RunPinnedOverlap(n)
    [] c = "double_buffer" -> RunDoubleBuffer(n)
    [] c = "gemm" -> RunBenchmark(n)

\* Programs depend on constants only: TLC builds them once.
Programs == [c \in Configs |-> [n \in JobIds |-> ProgramOf(c, n)]]

Program == Programs[config][size]
Call == Program[pc]
AtCall(name) == status = "running" /\ pc =< Len(Program) /\ Call.do = name

\* Jobs whose result location is meaningful in this round.
RoundJobs == IF config = "gemm" THEN {1} ELSE 1..size

\* Inputs of every job: the benchmarks fill them before their first call.
AllHostBuffers == UNION {HostBuffers(j) : j \in JobIds}

Init ==
  /\ DeviceInit
  /\ config \in Configs
  /\ size \in JobIds
  /\ round = 0
  /\ pc = 1
  /\ status = "returned"
  /\ failed = FALSE
  /\ collected = {}

\* The worker's next batch has new buffers and may have another size; its
\* events are reused.  A benchmark keeps its buffers: the label of its
\* constant inputs is renewed, so that a repetition is told from the one before.
StartRound ==
  /\ status = "returned"
  /\ round < MaxRounds
  /\ round' = round + 1
  /\ pc' = 1
  /\ status' = "running"
  /\ failed' = FALSE
  /\ collected' = {}
  /\ IF config = "scheduler"
     THEN /\ size' \in JobIds
          /\ holds' = [l \in Locations |-> 0]
     ELSE /\ size' = size
          /\ holds' = [l \in Locations |-> IF l \in AllHostBuffers THEN round' ELSE holds[l]]
  /\ UNCHANGED <<config, pending, running, recorded, fired>>

Advance ==
  /\ pc' = pc + 1
  /\ UNCHANGED <<config, size, round, status, failed>>

\* fill_matrices writes the job's pinned inputs.
CallFill ==
  /\ AtCall("fill")
  /\ holds' = [l \in Locations |-> IF l \in HostBuffers(Call.job) THEN round ELSE holds[l]]
  /\ Advance
  /\ UNCHANGED <<pending, running, recorded, fired, collected>>

CallIssue ==
  /\ AtCall("issue")
  /\ Launch(Call.stream, Call.reads, Call.writes, pc)
  /\ Advance
  /\ UNCHANGED collected

CallRecord ==
  /\ AtCall("record")
  /\ RecordEvent(Call.stream, Call.event, pc)
  /\ Advance
  /\ UNCHANGED collected

CallWait ==
  /\ AtCall("wait")
  /\ WaitEvent(Call.stream, Call.event, pc)
  /\ Advance
  /\ UNCHANGED collected

CallEventSync ==
  /\ AtCall("event_sync")
  /\ Complete(Call.event)
  /\ Advance
  /\ UNCHANGED <<deviceVars, collected>>

CallSync ==
  /\ AtCall("sync")
  /\ \A s \in Call.streams : pending[s] = <<>>
  /\ Advance
  /\ UNCHANGED <<deviceVars, collected>>

CallElapsed ==
  /\ AtCall("elapsed")
  /\ Advance
  /\ UNCHANGED <<deviceVars, collected>>

CallCollect ==
  /\ AtCall("collect")
  /\ collected' = collected \cup {<<Call.job, holds[<<"hc", Call.job>>]>>}
  /\ Advance
  /\ UNCHANGED deviceVars

\* The function returns; the worker's buffers are freed by their destructors.
Return ==
  /\ status = "running"
  /\ pc > Len(Program)
  /\ status' = "returned"
  /\ UNCHANGED <<deviceVars, config, size, round, pc, failed, collected>>

\* A checked call of the worker fails and the catch block is entered.
CallFails ==
  /\ config = "scheduler"
  /\ \E name \in {"issue", "record", "wait", "event_sync"} : AtCall(name)
  /\ status' = "draining"
  /\ failed' = TRUE
  /\ UNCHANGED <<deviceVars, config, size, round, pc, collected>>

\* Mutants: the catch block without cudaDeviceSynchronize; one that waits for
\* the results of the whole batch instead.
DrainFailedAwaitsResults ==
  /\ status = "draining"
  /\ \A j \in RoundJobs : holds[<<"hc", j>>] = round
  /\ DeviceQuiet
  /\ status' = "returned"
  /\ UNCHANGED <<deviceVars, config, size, round, pc, failed, collected>>

DrainFailedNoSync ==
  /\ status = "draining"
  /\ status' = "returned"
  /\ UNCHANGED <<deviceVars, config, size, round, pc, failed, collected>>

\* cudaDeviceSynchronize in the catch block, then fail_batch and the return.
DrainFailed ==
  /\ status = "draining"
  /\ DeviceQuiet
  /\ status' = "returned"
  /\ UNCHANGED <<deviceVars, config, size, round, pc, failed, collected>>

HostStep ==
  \/ CallFill \/ CallIssue \/ CallRecord \/ CallWait
  \/ CallEventSync \/ CallSync \/ CallElapsed \/ CallCollect
  \/ StartRound \/ Return \/ DrainFailed

DeviceStep(s) == StreamStep(s) /\ UNCHANGED hostVars

Next == HostStep \/ CallFails \/ \E s \in Streams : DeviceStep(s)

Spec == Init /\ [][Next]_vars

\* The host thread runs, and the device executes what it is given.
FairSpec ==
  /\ Spec
  /\ WF_vars(HostStep)
  /\ \A s \in Streams : WF_vars(DeviceStep(s))

-----------------------------------------------------------------------------
(* Properties. *)

\* While a copy or a kernel executes, everything it reads holds this round's
\* data: no stream overtakes the transfer or the kernel it depends on, and no
\* later transfer overwrites an input in use.  The events are all that orders
\* the three streams of execute_batch, and they are reused from batch to batch.
ReadsAreReady ==
  \A s \in InFlight : \A l \in Oldest(s).reads : holds[l] = round

\* What the host takes from the pinned result buffers is this round's result,
\* and a round that returns without an error leaves every job's result in place.
DeliveredIsRight ==
  /\ \A c \in collected : c[2] = round
  /\ status = "returned" /\ ~failed /\ round > 0 =>
       \A j \in RoundJobs : holds[<<"hc", j>>] = round

\* When the function returns (the buffers are freed, the events and streams
\* go to the next batch) no stream has anything left that uses them, after an
\* error as well.
QuietWhenFreed == status = "returned" => DeviceQuiet

\* cudaEventElapsedTime fails on an event that was never recorded or has not
\* been reached: every timer the benchmarks read is complete, although they
\* wait for one event only.
TimersComplete ==
  AtCall("elapsed") => \A e \in Call.events : recorded[e] > 0 /\ Complete(e)

\* With one copy stream, or none, nothing overlaps: the upload of the next job
\* sits behind the download that waits for the kernel (PROFILING.md calls this
\* the control case).
ControlCaseSerial ==
  config \in {"pageable", "single", "copy_compute", "gemm"} =>
    \A s, t \in InFlight : s = t

\* Results of a round arrive in the order of the batch: a job's result is
\* complete only after those of the jobs before it (DESIGN.md: the D2H stream
\* serialises completions, so one wait per job is enough).
ResultsArriveInOrder ==
  [][\A i, j \in RoundJobs :
       /\ i < j /\ round' = round
       /\ holds[<<"hc", j>>] # round /\ holds'[<<"hc", j>>] = round
       => holds[<<"hc", i>>] = round]_vars

\* Every round ends, with results or in the catch block: no wait on an event
\* that nobody records, no stream waiting for itself.
EveryRoundEnds == status # "returned" ~> status = "returned"
=============================================================================
