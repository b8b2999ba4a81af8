------------------------------- MODULE Daemon -------------------------------
(***************************************************************************)
(* The process around the scheduler: main() of main.cpp (start, the        *)
(* generator thread or the replay loop, the drain test, SIGINT, shutdown)  *)
(* and the /metrics handler of http_server.cpp, composed with the          *)
(* scheduler of Scheduler.tla.  main() is the only caller of start() and   *)
(* stop(), the generator or the replay loop the only caller of submit().   *)
(* Each atomic or locked read of the scheduler is a step of its own.       *)
(***************************************************************************)
EXTENDS Scheduler

CONSTANTS
  Modes,        \* command lines: pairs of "--replay was given" and "--http-port > 0"
  BindMayFail   \* http.start() may fail to bind

ASSUME DaemonAssumption ==
  /\ Modes \subseteq BOOLEAN \X BOOLEAN
  /\ BindMayFail \in BOOLEAN

VARIABLES
  mainPc,          \* where main() is
  mode,            \* the command line: <<replay, http>>
  generator,       \* the generator thread: "none", "running", "returned"
  generator_done,
  g_interrupted,
  seen,            \* the operand of the drain test that was read first
  httpPc,          \* the HTTP thread: "off", "idle", or the next read of a scrape
  page             \* what the scrape has read so far

mainVars == <<mainPc, mode, generator, generator_done, g_interrupted, seen>>
httpVars == <<httpPc, page>>
daemonVars == <<vars, mainVars, httpVars>>

BlankPage == [submitted |-> 0, completed |-> 0, queued |-> 0, records |-> 0]
NotRead == <<"none", 0>>

DaemonInit ==
  /\ Init
  /\ mainPc = "start"
  /\ mode \in Modes
  /\ generator = "none"
  /\ generator_done = FALSE
  /\ g_interrupted = FALSE
  /\ seen = NotRead
  /\ httpPc = "off"
  /\ page = BlankPage

Replay == mode[1]
Serving == mode[2]

MainGoto(place) ==
  /\ mainPc' = place
  /\ UNCHANGED <<mode, g_interrupted>>

-----------------------------------------------------------------------------
(* Startup. *)

MainStart ==
  /\ mainPc = "start"
  /\ Start
  /\ MainGoto("bind")
  /\ UNCHANGED <<generator, generator_done, seen, httpVars>>

\* http.start(), then the generator thread or the replay loop.
MainBind ==
  /\ mainPc = "bind"
  /\ httpPc' = IF Serving THEN "idle" ELSE "off"
  /\ MainGoto(IF Replay THEN "replay" ELSE "head")
  /\ generator' = IF Replay THEN "none" ELSE "running"
  /\ UNCHANGED <<vars, generator_done, seen, page>>

MainBindFails ==
  /\ BindMayFail /\ Serving
  /\ mainPc = "bind"
  /\ MainGoto("stop")
  /\ UNCHANGED <<vars, generator, generator_done, seen, httpVars>>

\* SIGINT: the handler is installed before start().
Interrupt ==
  /\ ~g_interrupted
  /\ mainPc \notin {"start", "exited"}
  /\ g_interrupted' = TRUE
  /\ UNCHANGED <<vars, mainPc, mode, generator, generator_done, seen, httpVars>>

-----------------------------------------------------------------------------
(* The loop that submits the jobs, in the generator thread or in main(). *)

Generating == generator = "running" \/ mainPc = "replay"

NewJobs == {j \in Jobs : submitPc[j] = "new"}
InSubmit == {j \in Jobs : submitPc[j] \in {"count", "notify"}}

GeneratorSubmit ==
  /\ Generating
  /\ InSubmit = {}
  /\ NewJobs # {}
  /\ ~g_interrupted
  /\ SubmitEnqueue(CHOOSE j \in NewJobs : TRUE)
  /\ UNCHANGED <<mainVars, httpVars>>

GeneratorContinue ==
  /\ \E j \in InSubmit : SubmitCount(j) \/ SubmitNotify(j)
  /\ UNCHANGED <<mainVars, httpVars>>

GeneratorDone ==
  /\ Generating
  /\ InSubmit = {}
  /\ NewJobs = {} \/ g_interrupted
  /\ generator_done' = TRUE
  /\ generator' = IF generator = "running" THEN "returned" ELSE generator
  /\ mainPc' = IF mainPc = "replay" THEN "head" ELSE mainPc
  /\ UNCHANGED <<vars, mode, g_interrupted, seen, httpVars>>

-----------------------------------------------------------------------------
(* The drain loop.  A turn that does not get past a test sleeps 50 ms and  *)
(* starts over: it changes nothing but the place.                          *)

\* Mutants: the loop only ends by draining; a momentarily empty scheduler
\* counts as drained.
MainHeadDrainOnly ==
  /\ mainPc = "head"
  /\ generator_done /\ submitted_ > 0 /\ MainGoto("queued")
  /\ UNCHANGED <<vars, generator, generator_done, seen, httpVars>>

MainHeadAnyTime ==
  /\ mainPc = "head"
  /\ \/ g_interrupted /\ MainGoto("join")
     \/ ~g_interrupted /\ submitted_ > 0 /\ MainGoto("queued")
  /\ UNCHANGED <<vars, generator, generator_done, seen, httpVars>>

MainHead ==
  /\ mainPc = "head"
  /\ \/ g_interrupted /\ MainGoto("join")
     \/ ~g_interrupted /\ generator_done /\ submitted_ > 0 /\ MainGoto("queued")
  /\ UNCHANGED <<vars, generator, generator_done, seen, httpVars>>

\* sched.queued() == 0
MainQueued ==
  /\ mainPc = "queued"
  /\ QueueMutexFree
  /\ MainGoto(IF queue_ = {} THEN "first" ELSE "head")
  /\ UNCHANGED <<vars, generator, generator_done, seen, httpVars>>

\* sched.completed() >= sched.submitted(): the operands may be evaluated in
\* either order.
MainReadFirst ==
  /\ mainPc = "first"
  /\ seen' \in {<<"completed", completed_>>, <<"submitted", submitted_>>}
  /\ MainGoto("compare")
  /\ UNCHANGED <<vars, generator, generator_done, httpVars>>

MainCompare ==
  LET completed == IF seen[1] = "completed" THEN seen[2] ELSE completed_
      submitted == IF seen[1] = "submitted" THEN seen[2] ELSE submitted_
  IN  /\ mainPc = "compare"
      /\ seen' = NotRead
      /\ MainGoto(IF completed >= submitted THEN "join" ELSE "head")
      /\ UNCHANGED <<vars, generator, generator_done, httpVars>>

-----------------------------------------------------------------------------
(* Shutdown. *)

MainJoin ==
  /\ mainPc = "join"
  /\ generator # "running"
  /\ MainGoto("http")
  /\ UNCHANGED <<vars, generator, generator_done, seen, httpVars>>

\* http.stop(): no further request is accepted ...
MainHttpStop ==
  /\ mainPc = "http"
  /\ MainGoto("http_join")
  /\ UNCHANGED <<vars, generator, generator_done, seen, httpVars>>

\* Mutant: the HTTP thread is not joined.
MainHttpNoJoin ==
  /\ mainPc = "http_join"
  /\ MainGoto("stop")
  /\ UNCHANGED <<vars, generator, generator_done, seen, httpVars>>

\* ... the one under way is finished and the thread joined.
MainHttpJoin ==
  /\ mainPc = "http_join"
  /\ httpPc \in {"idle", "off"}
  /\ httpPc' = "off"
  /\ MainGoto("stop")
  /\ UNCHANGED <<vars, generator, generator_done, seen, page>>

MainStop ==
  /\ mainPc = "stop"
  /\ StopFlag
  /\ MainGoto("stopping")
  /\ UNCHANGED <<generator, generator_done, seen, httpVars>>

MainStopNotify ==
  /\ StopNotify
  /\ UNCHANGED <<mainVars, httpVars>>

MainStopJoin ==
  /\ StopJoin
  /\ MainGoto("exited")
  /\ UNCHANGED <<generator, generator_done, seen, httpVars>>

-----------------------------------------------------------------------------
(* GET /metrics: four reads of the scheduler, then the arithmetic. *)

ScrapeBegin ==
  /\ httpPc = "idle"
  /\ mainPc # "http_join"
  /\ page' = [page EXCEPT !.submitted = submitted_]
  /\ httpPc' = "completed"
  /\ UNCHANGED <<vars, mainVars>>

ScrapeCompleted ==
  /\ httpPc = "completed"
  /\ page' = [page EXCEPT !.completed = completed_]
  /\ httpPc' = "queued"
  /\ UNCHANGED <<vars, mainVars>>

ScrapeQueued ==
  /\ httpPc = "queued"
  /\ QueueMutexFree
  /\ page' = [page EXCEPT !.queued = Cardinality(queue_)]
  /\ httpPc' = "metrics"
  /\ UNCHANGED <<vars, mainVars>>

\* Mutant: the handler keeps the records of an earlier scrape.
ScrapeMetricsStale ==
  /\ httpPc = "metrics"
  /\ httpPc' = "render"
  /\ UNCHANGED <<vars, mainVars, page>>

ScrapeMetrics ==
  /\ httpPc = "metrics"
  /\ page' = [page EXCEPT !.records = Cardinality(Recorded)]
  /\ httpPc' = "render"
  /\ UNCHANGED <<vars, mainVars>>

ScrapeRender ==
  /\ httpPc = "render"
  /\ page' = BlankPage
  /\ httpPc' = "idle"
  /\ UNCHANGED <<vars, mainVars>>

\* Mutant: the jobs that wait in the queue count as executing.
DispatchedOrQueued ==
  IF page.submitted >= page.completed THEN page.submitted - page.completed ELSE 0

\* gbis_in_flight_jobs
Dispatched ==
  IF page.submitted >= page.completed + page.queued
  THEN page.submitted - page.completed - page.queued
  ELSE 0

-----------------------------------------------------------------------------
SchedulerStep ==
  /\ \/ DispatcherStep
     \/ \E w \in Workers : WorkerStep(w)
     \/ \E t \in Threads : SpuriousWakeup(t)
  /\ UNCHANGED <<mainVars, httpVars>>

GeneratorStep == GeneratorSubmit \/ GeneratorContinue \/ GeneratorDone

MainStep ==
  \/ MainStart \/ MainBind \/ MainBindFails
  \/ MainHead \/ MainQueued \/ MainReadFirst \/ MainCompare
  \/ MainJoin \/ MainHttpStop \/ MainHttpJoin \/ MainStop \/ MainStopNotify \/ MainStopJoin

ScrapeStep ==
  ScrapeCompleted \/ ScrapeQueued \/ ScrapeMetrics \/ ScrapeRender

\* std::terminate ends every thread of the process.
DaemonNext ==
  /\ ~terminated
  /\ \/ MainStep \/ GeneratorStep \/ Interrupt
     \/ ScrapeBegin \/ ScrapeStep \/ SchedulerStep

DaemonSpec == DaemonInit /\ [][DaemonNext]_daemonVars

Outside == UNCHANGED <<mainVars, httpVars>>

\* Every thread of the process that can run does run; nobody has to send
\* SIGINT or a request, and no wait has to wake up without a notification.
DaemonFairSpec ==
  /\ DaemonSpec
  /\ WF_daemonVars(~terminated /\ MainStep)
  /\ WF_daemonVars(~terminated /\ GeneratorStep)
  /\ WF_daemonVars(~terminated /\ ScrapeStep)
  /\ WF_daemonVars(~terminated /\ DispatcherStep /\ Outside)
  /\ \A w \in Workers : WF_daemonVars(~terminated /\ WorkerStep(w) /\ Outside)

-----------------------------------------------------------------------------
(* Properties. *)

BindFailed == generator = "none" /\ ~generator_done

Left == mainPc \in {"join", "http", "http_join", "stop", "stopping", "exited"}

\* The daemon leaves the drain loop by itself only when every job it was asked
\* to generate or replay has been submitted and recorded: the four reads of the
\* test happen at four moments, and the generator is still submitting at some
\* of them.
ExitsDrained ==
  Left /\ ~g_interrupted /\ ~BindFailed => Recorded = Jobs

\* The gauge of jobs executing on the GPU never takes a waiting job for a running
\* one: with the completed jobs of its page it counts at most the jobs that are out
\* of the queue when the handler reads the depth.  It holds because submit() pushes
\* a job before it counts it, the handler reads the count before the depth, and a
\* job that is recorded never goes back to the queue.
GaugeCountsTakenJobs ==
  [][httpPc = "queued" /\ httpPc' = "metrics"
       => Dispatched' + page'.completed =< Cardinality(Submitted \ queue_)]_daemonVars

\* A scrape never shows more completed jobs than it has records of: the workers
\* write the records before the counter, the handler reads them after it.
PageHasRecords == httpPc = "render" => page.completed =< page.records

\* No thread of the process uses the scheduler while or after stop() joins its
\* threads: no submit() under way, no scrape under way.
StopIsExclusive ==
  mainPc \in {"stopping", "exited"} => InSubmit = {} /\ httpPc = "off" /\ ~Generating

\* When every job fits, the daemon drains; interrupted, it leaves the loop at
\* once: either way stop() is called.
DaemonStops == mainPc \in {"head", "replay"} ~> mainPc \in {"stopping", "exited"}
=============================================================================
