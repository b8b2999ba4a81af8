------------------------------ MODULE Bindings ------------------------------
(***************************************************************************)
(* The Python module (src/bindings/py_module.cpp): Python threads that     *)
(* call start(), stop(), stats(), submit_job() and batched_gemm() on the   *)
(* process-global scheduler, with the GIL, g_mutex and the sampling thread *)
(* each scheduler owns.                                                    *)
(*                                                                         *)
(* start() and stop() release the GIL and then lock g_mutex; stats() locks *)
(* g_mutex with the GIL held; submit_job() releases the GIL and uses       *)
(* g_sched without g_mutex.  Every access to g_sched, g_running, the GIL   *)
(* or the mutex is a step of its own.  A thread that uses a scheduler that *)
(* is not there (any more) ends the process.                               *)
(*                                                                         *)
(* Abstracted: what a scheduler does with its jobs (Scheduler.tla), and    *)
(* the arguments of a call, valid or not.  stop() of a scheduler takes as  *)
(* long as its threads need and is taken to return.                        *)
(***************************************************************************)
EXTENDS GpuMonitor

CONSTANTS
  PyThreads,   \* the Python threads
  Calls,       \* Calls[t]: the functions thread t calls
  Nobody,      \* holder of a free lock; no instance
  MaxCalls     \* bound: calls per thread

Functions == {"start", "stop", "stats", "submit_job", "batched_gemm"}

ASSUME BindingsAssumption ==
  /\ IsFiniteSet(PyThreads)
  /\ Calls \in [PyThreads -> SUBSET Functions]
  /\ Nobody \notin PyThreads \cup Instances
  /\ MaxCalls \in Nat

VARIABLES
  gil,        \* the thread that holds the GIL in a native function
  g_mutex,    \* its owner
  g_sched,    \* the instance, or Nobody for nullptr
  g_running,
  state,      \* state[i]: "none", "made", "running", "stopping", "stopped",
              \*   "destroyed"
  pc,         \* pc[t]: where thread t is; "python" outside the module
  ref,        \* ref[t]: the instance thread t works on
  after,      \* after[t]: where thread t goes when stop() returns
  calls,      \* calls so far, for the bound
  crashed,    \* a scheduler was used that is not there
  raced       \* history: g_sched was written during a submit_job()

globals == <<g_sched, g_running, raced>>
locals == <<ref, after, calls, crashed>>
vars == <<monitorVars, gil, g_mutex, globals, state, pc, locals>>

Init ==
  /\ MonitorInit
  /\ gil = Nobody
  /\ g_mutex = Nobody
  /\ g_sched = Nobody
  /\ g_running = FALSE
  /\ state = [i \in Instances |-> "none"]
  /\ pc = [t \in PyThreads |-> "python"]
  /\ ref = [t \in PyThreads |-> Nobody]
  /\ after = [t \in PyThreads |-> "python"]
  /\ calls = [t \in PyThreads |-> 0]
  /\ crashed = FALSE
  /\ raced = FALSE

Goto(t, place) == pc' = [pc EXCEPT ![t] = place]
SetRef(t, i) == ref' = [ref EXCEPT ![t] = i]
SetState(i, s) == state' = [state EXCEPT ![i] = s]

\* Thread u is in submit_job(), which takes no mutex.
Submitting(u) ==
  \/ pc[u] \in {"ensure_make", "ensure_run", "ensure_flag", "ensure_return", "submit"}
  \/ after[u] = "ensure_replaced"

SetSched(t, i) ==
  /\ g_sched' = i
  /\ raced' = (raced \/ \E u \in PyThreads \ {t} : Submitting(u))

-----------------------------------------------------------------------------
(* The GIL and g_mutex. *)

\* A call with invalid arguments throws with the GIL held and changes nothing.
\* A valid one releases the GIL (gil_scoped_release), except stats().
Call(t, f) ==
  /\ pc[t] = "python"
  /\ f \in Calls[t]
  /\ calls[t] < MaxCalls
  /\ gil = Nobody
  /\ gil' = IF f = "stats" THEN t ELSE Nobody
  /\ calls' = [calls EXCEPT ![t] = @ + 1]
  /\ Goto(t, f)
  /\ UNCHANGED <<monitorVars, g_mutex, globals, state, ref, after, crashed>>

Lock(t) == g_mutex = Nobody /\ g_mutex' = t

\* Mutant of Unlock: the guard is declared before gil_scoped_release and outlives
\* it, so the mutex is held while the GIL is taken again.
UnlockAfterGil(t) ==
  /\ pc[t] = "unlock"
  /\ gil \in {Nobody, t}
  /\ g_mutex' = Nobody
  /\ Goto(t, "return")
  /\ UNCHANGED <<monitorVars, gil, globals, state, locals>>

\* The guards are destroyed in reverse order: first g_mutex is unlocked ...
Unlock(t) ==
  /\ pc[t] = "unlock"
  /\ g_mutex' = Nobody
  /\ Goto(t, "return")
  /\ UNCHANGED <<monitorVars, gil, globals, state, locals>>

\* ... then the GIL is taken again, to be given up by the Python code.
Return(t) ==
  /\ pc[t] = "return"
  /\ gil \in {Nobody, t}
  /\ gil' = Nobody
  /\ Goto(t, "python")
  /\ SetRef(t, Nobody)
  /\ after' = [after EXCEPT ![t] = "python"]
  /\ UNCHANGED <<monitorVars, g_mutex, globals, state, calls, crashed>>

-----------------------------------------------------------------------------
(* BatchScheduler::stop() and ~BatchScheduler(), called by thread t on     *)
(* ref[t].                                                                 *)

CallStop(t, i, place) ==
  /\ Goto(t, "stop_begin")
  /\ SetRef(t, i)
  /\ after' = [after EXCEPT ![t] = place]

\* Returns at once unless started_.  started_ stays TRUE while another thread
\* joins: two threads must not stop one scheduler (see Misuses).
StopBegin(t) ==
  /\ pc[t] = "stop_begin"
  /\ IF state[ref[t]] = "running"
     THEN SetState(ref[t], "stopping") /\ Goto(t, "stop_threads")
     ELSE Goto(t, after[t]) /\ UNCHANGED state
  /\ UNCHANGED <<monitorVars, gil, g_mutex, globals, locals>>

\* The dispatcher and the workers are joined; then stop_sampling().
StopThreads(t) ==
  /\ pc[t] = "stop_threads"
  /\ ClearSampling(ref[t])
  /\ Goto(t, "stop_sampler")
  /\ UNCHANGED <<gil, g_mutex, globals, state, locals>>

StopSampler(t) ==
  /\ pc[t] = "stop_sampler"
  /\ JoinSampler(ref[t])
  /\ SetState(ref[t], "stopped")
  /\ Goto(t, after[t])
  /\ UNCHANGED <<gil, g_mutex, globals, locals>>

\* The end of the destructor: ~GpuMonitor() finds nothing left to join.
Destroy(t, place) ==
  /\ JoinSampler(ref[t])
  /\ SetState(ref[t], "destroyed")
  /\ Goto(t, place)
  /\ UNCHANGED <<gil, g_mutex, globals, locals>>

\* g_sched.reset() in start(), and the assignment of a new scheduler where
\* there is one already.
ResetDestroy(t) == pc[t] = "start_destroy" /\ Destroy(t, "start_make")
StartReplaced(t) == pc[t] = "start_replaced" /\ Destroy(t, "start_run")
EnsureReplaced(t) == pc[t] = "ensure_replaced" /\ Destroy(t, "ensure_run")

Fresh == CHOOSE i \in Instances : state[i] = "none"

\* g_sched = std::make_unique<BatchScheduler>(g_opts).  Bound: Instances.
Make(t, run, replaced) ==
  /\ \E i \in Instances : state[i] = "none"
  /\ SetSched(t, Fresh)
  /\ SetState(Fresh, "made")
  /\ IF g_sched = Nobody
     THEN Goto(t, run) /\ UNCHANGED <<ref, after>>
     ELSE CallStop(t, g_sched, replaced)
  /\ UNCHANGED <<monitorVars, gil, g_mutex, g_running, calls, crashed>>

\* g_sched->start(): nothing if started_ already; a stopped scheduler starts
\* again.
Run(t, flag) ==
  /\ IF state[g_sched] \in {"made", "stopped"}
     THEN StartSampling(g_sched) /\ SetState(g_sched, "running")
     ELSE UNCHANGED <<monitorVars, state>>
  /\ Goto(t, flag)
  /\ UNCHANGED <<gil, g_mutex, globals, locals>>

-----------------------------------------------------------------------------
(* start_scheduler().                                                      *)

StartLock(t) ==
  /\ pc[t] = "start"
  /\ Lock(t)
  /\ Goto(t, IF g_running THEN "unlock" ELSE "start_reset")
  /\ UNCHANGED <<monitorVars, gil, globals, state, locals>>

\* g_sched.reset(): the pointer is cleared before the scheduler is destroyed.
StartReset(t) ==
  /\ pc[t] = "start_reset"
  /\ SetSched(t, Nobody)
  /\ IF g_sched = Nobody
     THEN Goto(t, "start_make") /\ UNCHANGED <<ref, after>>
     ELSE CallStop(t, g_sched, "start_destroy")
  /\ UNCHANGED <<monitorVars, gil, g_mutex, g_running, state, calls, crashed>>

StartMake(t) == pc[t] = "start_make" /\ Make(t, "start_run", "start_replaced")

StartRun(t) == pc[t] = "start_run" /\ Run(t, "start_flag")

StartFlag(t) ==
  /\ pc[t] = "start_flag"
  /\ g_running' = TRUE
  /\ Goto(t, "unlock")
  /\ UNCHANGED <<monitorVars, gil, g_mutex, g_sched, raced, state, locals>>

-----------------------------------------------------------------------------
(* stop_scheduler(): the scheduler stays in g_sched.                       *)

StopLock(t) ==
  /\ pc[t] = "stop"
  /\ Lock(t)
  /\ IF g_running
     THEN CallStop(t, g_sched, "stop_flag")
     ELSE Goto(t, "unlock") /\ UNCHANGED <<ref, after>>
  /\ UNCHANGED <<monitorVars, gil, globals, state, calls, crashed>>

StopFlag(t) ==
  /\ pc[t] = "stop_flag"
  /\ g_running' = FALSE
  /\ Goto(t, "unlock")
  /\ UNCHANGED <<monitorVars, gil, g_mutex, g_sched, raced, state, locals>>

-----------------------------------------------------------------------------
(* scheduler_stats(): waits for g_mutex with the GIL held.                 *)

\* Mutant: g_mutex is not locked.
StatsWithoutLock(t) ==
  /\ pc[t] = "stats"
  /\ SetRef(t, g_sched)
  /\ Goto(t, IF g_sched = Nobody THEN "return" ELSE "stats_read")
  /\ UNCHANGED <<monitorVars, gil, g_mutex, globals, state, after, calls, crashed>>

StatsLock(t) ==
  /\ pc[t] = "stats"
  /\ Lock(t)
  /\ SetRef(t, g_sched)
  /\ Goto(t, IF g_sched = Nobody THEN "unlock" ELSE "stats_read")
  /\ UNCHANGED <<monitorVars, gil, globals, state, after, calls, crashed>>

StatsRead(t) ==
  /\ pc[t] = "stats_read"
  /\ Goto(t, "unlock")
  /\ UNCHANGED <<monitorVars, gil, g_mutex, globals, state, locals>>

-----------------------------------------------------------------------------
(* submit_job(): ensure_scheduler() and submit() without g_mutex.          *)

EnsureTest(t) ==
  /\ pc[t] = "submit_job"
  /\ Goto(t, IF g_sched = Nobody THEN "ensure_make" ELSE "ensure_return")
  /\ UNCHANGED <<monitorVars, gil, g_mutex, globals, state, locals>>

EnsureMake(t) == pc[t] = "ensure_make" /\ Make(t, "ensure_run", "ensure_replaced")

EnsureRun(t) == pc[t] = "ensure_run" /\ Run(t, "ensure_flag")

\* Mutant: g_running is left to start().
EnsureFlagForgotten(t) ==
  /\ pc[t] = "ensure_flag"
  /\ Goto(t, "ensure_return")
  /\ UNCHANGED <<monitorVars, gil, g_mutex, globals, state, locals>>

EnsureFlag(t) ==
  /\ pc[t] = "ensure_flag"
  /\ g_running' = TRUE
  /\ Goto(t, "ensure_return")
  /\ UNCHANGED <<monitorVars, gil, g_mutex, g_sched, raced, state, locals>>

\* The pointer is read again for the reference that is returned.
EnsureReturn(t) ==
  /\ pc[t] = "ensure_return"
  /\ SetRef(t, g_sched)
  /\ Goto(t, "submit")
  /\ UNCHANGED <<monitorVars, gil, g_mutex, globals, state, after, calls, crashed>>

Submit(t) ==
  /\ pc[t] = "submit"
  /\ Goto(t, "return")
  /\ UNCHANGED <<monitorVars, gil, g_mutex, globals, state, locals>>

\* batched_gemm(): the device works with the GIL released.
BatchedGemm(t) ==
  /\ pc[t] = "batched_gemm"
  /\ Goto(t, "return")
  /\ UNCHANGED <<monitorVars, gil, g_mutex, globals, state, locals>>

-----------------------------------------------------------------------------
Alive(i) == i \in Instances /\ state[i] \notin {"none", "destroyed"}

\* The scheduler thread t is about to use.
Used(t) == IF pc[t] \in {"start_run", "ensure_run"} THEN g_sched ELSE ref[t]

\* Thread t is about to use a scheduler that is not there, to join threads that
\* another thread is joining, or to destroy threads that run again (a scheduler
\* that was started once more after the stop() of its destructor).
Misuses(t) ==
  \/ /\ pc[t] \in {"stop_begin", "stop_threads", "stop_sampler", "start_run",
                    "start_destroy", "start_replaced", "ensure_replaced",
                    "ensure_run", "stop_flag", "stats_read", "submit"}
     /\ ~Alive(Used(t))
  \/ pc[t] = "stop_begin" /\ Alive(ref[t]) /\ state[ref[t]] = "stopping"
  \/ /\ pc[t] \in {"start_destroy", "start_replaced", "ensure_replaced"}
     /\ Alive(ref[t]) /\ state[ref[t]] = "running"

Crash(t) ==
  /\ Misuses(t)
  /\ crashed' = TRUE
  /\ UNCHANGED <<monitorVars, gil, g_mutex, globals, state, pc, ref, after, calls>>

CallStep(t) ==
  \/ StopBegin(t) \/ StopThreads(t) \/ StopSampler(t)
  \/ ResetDestroy(t) \/ StartReplaced(t) \/ EnsureReplaced(t)
  \/ StartLock(t) \/ StartReset(t) \/ StartMake(t) \/ StartRun(t) \/ StartFlag(t)
  \/ StopLock(t) \/ StopFlag(t)
  \/ StatsLock(t) \/ StatsRead(t)
  \/ EnsureTest(t) \/ EnsureMake(t) \/ EnsureRun(t) \/ EnsureFlag(t)
  \/ EnsureReturn(t) \/ Submit(t)
  \/ BatchedGemm(t)
  \/ Unlock(t) \/ Return(t)

ThreadStep(t) ==
  /\ ~crashed
  /\ \/ ~Misuses(t) /\ CallStep(t)
     \/ Crash(t)

Sampling(i) ==
  /\ ~crashed
  /\ SamplerStep(i)
  /\ UNCHANGED <<gil, g_mutex, globals, state, pc, locals>>

Next ==
  \/ \E t \in PyThreads : ThreadStep(t) \/ \E f \in Functions : ~crashed /\ Call(t, f)
  \/ \E i \in Instances : Sampling(i)

Spec == Init /\ [][Next]_vars

\* Every thread inside the module and every sampling thread runs; the Python
\* code need not call anything.
FairSpec ==
  /\ Spec
  /\ \A t \in PyThreads : WF_vars(ThreadStep(t))
  /\ \A i \in Instances : WF_vars(Sampling(i))

-----------------------------------------------------------------------------
(* Properties. *)

\* submit_job() takes g_sched without g_mutex and keeps the reference while
\* other threads stop the scheduler and read its statistics.  That is safe, and
\* so is every stop() and destructor, unless some thread replaced g_sched
\* while another was in submit_job().
MisuseNeedsRace == (crashed \/ \E t \in PyThreads : Misuses(t)) => raced

\* The comment at the top of the module says of g_sched that it is "guarded by
\* g_mutex": the calls of several threads, in any order, never use a scheduler
\* that is not there.  ensure_scheduler() and submit_job() take no mutex, and
\* Unguarded.cfg shows this violated.
NeverMisused == ~crashed

\* In a call that may have changed g_sched or g_running only in part.
Changing(t) ==
  pc[t] \notin {"python", "return", "unlock", "start", "stop", "stats",
                "stats_read", "submit_job", "ensure_return", "submit",
                "batched_gemm"}

\* Between the calls that change it, g_running tells whether g_sched runs, and
\* no scheduler but g_sched runs: a start(), a stop() and a first submit_job()
\* of several threads leave no scheduler running that stop() cannot reach.
RunningIsReachable ==
  ~raced /\ (\A t \in PyThreads : ~Changing(t)) =>
     {i \in Instances : state[i] = "running"} = IF g_running THEN {g_sched} ELSE {}

\* The sampling thread uses the monitor it was started by: none is left when
\* the scheduler is stopped, let alone destroyed.
NoSamplerOutlives ==
  \A i \in Instances : state[i] \in {"stopped", "destroyed"} => sampler_[i] = "none"

\* The GIL and g_mutex are taken in both orders: stats() waits for the mutex
\* with the GIL, stop() and start() take the GIL when they return.  No call
\* waits forever, when a thread makes finitely many of them.
EveryCallReturns ==
  \A t \in PyThreads : pc[t] # "python" ~> (pc[t] = "python" \/ crashed)
=============================================================================
