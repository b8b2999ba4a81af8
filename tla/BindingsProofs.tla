--------------------------- MODULE BindingsProofs ---------------------------
(***************************************************************************)
(* No sampling thread outlives the scheduler it belongs to, for any number *)
(* of Python threads, calls and schedulers, whether or not the calls race. *)
(* Without a race, no call misuses a scheduler and none is lost.           *)
(***************************************************************************)
EXTENDS Bindings, TLAPS

SamplerStates == {"none", "test", "sample", "returned"}
States == {"none", "made", "running", "stopping", "stopped", "destroyed"}

\* A scheduler becomes "stopped" or "destroyed" in the step that joins its
\* sampler, and the start() that starts a sampler makes it "running".
IInv ==
  /\ state \in [Instances -> States]
  /\ sampler_ \in [Instances -> SamplerStates]
  /\ NoSamplerOutlives

LEMMA InitIInv == Init => IInv
BY DEF Init, MonitorInit, IInv, States, SamplerStates, NoSamplerOutlives

\* stop() and the destructor, which join the sampler.
LEMMA StopKeeps ==
  ASSUME IInv, NEW t \in PyThreads, NEW place,
         StopBegin(t) \/ StopThreads(t) \/ StopSampler(t) \/ Destroy(t, place)
  PROVE  IInv'
<1> USE DEF IInv, States, SamplerStates, NoSamplerOutlives
<1>1. CASE StopBegin(t)
  BY <1>1 DEF StopBegin, SetState, monitorVars
<1>2. CASE StopThreads(t)
  BY <1>2 DEF StopThreads, ClearSampling
<1>3. CASE StopSampler(t)
  BY <1>3 DEF StopSampler, JoinSampler, SetState
<1>4. CASE Destroy(t, place)
  BY <1>4 DEF Destroy, JoinSampler, SetState
<1> QED
  BY <1>1, <1>2, <1>3, <1>4

\* A scheduler is made.
LEMMA MakeKeeps ==
  ASSUME IInv, NEW t \in PyThreads, NEW run, NEW replaced, Make(t, run, replaced)
  PROVE  IInv'
BY DEF Make, SetState, monitorVars, IInv, States, SamplerStates, NoSamplerOutlives

\* start() of a scheduler: one that gets a sampler is "running" from then on.
LEMMA RunKeeps ==
  ASSUME IInv, NEW t \in PyThreads, NEW flag, Run(t, flag)
  PROVE  IInv'
<1> USE DEF IInv, States, SamplerStates, NoSamplerOutlives
<1>1. CASE state[g_sched] \in {"made", "stopped"}
  BY <1>1 DEF Run, StartSampling, SetState
<1>2. CASE state[g_sched] \notin {"made", "stopped"}
  BY <1>2 DEF Run, monitorVars
<1> QED
  BY <1>1, <1>2

\* The steps of a call that touch neither schedulers nor samplers.
Quiet(t) ==
  \/ StartLock(t) \/ StartReset(t) \/ StartFlag(t) \/ StopLock(t) \/ StopFlag(t)
  \/ StatsLock(t) \/ StatsRead(t) \/ EnsureTest(t) \/ EnsureFlag(t) \/ EnsureReturn(t)
  \/ Submit(t) \/ BatchedGemm(t) \/ Unlock(t) \/ Return(t) \/ Crash(t)

LEMMA QuietKeeps ==
  ASSUME IInv, NEW t \in PyThreads, Quiet(t)
  PROVE  IInv'
<1>1. UNCHANGED <<state, sampler_>>
  BY DEF Quiet, StartLock, StartReset, StartFlag, StopLock, StopFlag, StatsLock,
         StatsRead, EnsureTest, EnsureFlag, EnsureReturn, Submit, BatchedGemm, Unlock, Return,
         Crash, monitorVars
<1> QED
  BY <1>1 DEF IInv, NoSamplerOutlives

\* The sampling thread itself.
LEMMA SamplingKeeps ==
  ASSUME IInv, NEW i \in Instances, Sampling(i)
  PROVE  IInv'
BY DEF Sampling, SamplerStep, SamplerTest, SamplerSample, IInv, States,
       SamplerStates, NoSamplerOutlives

LEMMA NextIInv == IInv /\ [Next]_vars => IInv'
<1> SUFFICES ASSUME IInv, [Next]_vars PROVE IInv'
  OBVIOUS
<1>1. ASSUME NEW t \in PyThreads, ThreadStep(t) PROVE IInv'
  <2>1. CASE Quiet(t)
    BY <2>1, QuietKeeps
  <2>2. CASE StopBegin(t) \/ StopThreads(t) \/ StopSampler(t)
    BY <2>2, StopKeeps
  <2>3. CASE ResetDestroy(t) \/ StartReplaced(t) \/ EnsureReplaced(t)
    BY <2>3, StopKeeps DEF ResetDestroy, StartReplaced, EnsureReplaced
  <2>4. CASE StartMake(t) \/ EnsureMake(t)
    BY <2>4, MakeKeeps DEF StartMake, EnsureMake
  <2>5. CASE StartRun(t) \/ EnsureRun(t)
    BY <2>5, RunKeeps DEF StartRun, EnsureRun
  <2> QED
    BY <1>1, <2>1, <2>2, <2>3, <2>4, <2>5 DEF ThreadStep, CallStep, Quiet
<1>2. ASSUME NEW t \in PyThreads, NEW f \in Functions, Call(t, f) PROVE IInv'
  BY <1>2 DEF Call, monitorVars, IInv, NoSamplerOutlives
<1>3. CASE \E i \in Instances : Sampling(i)
  BY <1>3, SamplingKeeps
<1>4. CASE UNCHANGED vars
  BY <1>4 DEF vars, monitorVars, IInv, NoSamplerOutlives
<1> QED
  BY <1>1, <1>2, <1>3, <1>4 DEF Next

\* Whatever the Python threads call and in whatever order, no sampling thread
\* is left when its scheduler has been stopped or destroyed.
THEOREM SamplersAreJoined == Spec => []NoSamplerOutlives
<1>1. IInv => NoSamplerOutlives
  BY DEF IInv
<1> QED
  BY <1>1, InitIInv, NextIInv, PTL DEF Spec

-----------------------------------------------------------------------------
(***************************************************************************)
(* Without a race: the inductive invariant of the calls that share g_sched *)
(* and g_running.                                                          *)
(***************************************************************************)
Places ==
  Functions \cup
  {"python", "return", "unlock", "stop_begin", "stop_threads", "stop_sampler",
   "stop_flag", "start_reset", "start_destroy", "start_make", "start_replaced",
   "start_run", "start_flag", "stats_read", "ensure_make", "ensure_replaced",
   "ensure_run", "ensure_flag", "ensure_return", "submit"}

TypeInv ==
  /\ pc \in [PyThreads -> Places]
  /\ after \in [PyThreads -> Places]
  /\ ref \in [PyThreads -> Instances \cup {Nobody}]
  /\ g_sched \in Instances \cup {Nobody}
  /\ g_running \in BOOLEAN
  /\ raced \in BOOLEAN
  /\ state \in [Instances -> States]

\* Inside BatchScheduler::stop().
StopPcs == {"stop_begin", "stop_threads", "stop_sampler"}

\* Where a thread has g_mutex.
Holding(t) ==
  pc[t] \in StopPcs \cup
    {"unlock", "start_reset", "start_destroy", "start_make", "start_replaced",
     "start_run", "start_flag", "stop_flag", "stats_read"}

\* start(), from g_sched.reset() until there is a new scheduler.
Resetting(t) ==
  \/ pc[t] \in {"start_destroy", "start_make"}
  \/ pc[t] \in StopPcs /\ after[t] = "start_destroy"

\* start(), while it stops and destroys a scheduler the new one replaced.
Replacing(t) ==
  \/ pc[t] = "start_replaced"
  \/ pc[t] \in StopPcs /\ after[t] = "start_replaced"

\* stop(), until g_running tells that it stopped the scheduler.
Ending(t) ==
  \/ pc[t] = "stop_flag"
  \/ pc[t] \in StopPcs /\ after[t] = "stop_flag"

\* start() and a first submit_job(), between the making of a scheduler and its
\* start(), and between that and g_running.
Unrun(t) == Replacing(t) \/ pc[t] \in {"start_run", "ensure_run"}
Unflagged(t) == pc[t] \in {"start_flag", "ensure_flag"}
Launching(t) == Unrun(t) \/ Unflagged(t)

\* One thread at a time is in start(), stop() or stats().
Locked == \A t \in PyThreads : Holding(t) => g_mutex = t

\* Only start() and stop() stop a scheduler.
Aimed ==
  \A t \in PyThreads :
    /\ pc[t] \in StopPcs => after[t] \in {"start_destroy", "start_replaced", "stop_flag"}
    /\ after[t] # "ensure_replaced"
    /\ pc[t] # "ensure_replaced"

\* What a thread learned of g_sched is still so.
Claimed ==
  \A t \in PyThreads :
    /\ pc[t] = "ensure_make" => g_sched = Nobody
    /\ pc[t] = "ensure_return" => g_sched # Nobody
    /\ pc[t] \in {"submit", "stats_read"} => ref[t] = g_sched /\ g_sched # Nobody

\* One thread at a time brings up a scheduler, and it is g_sched.  A submit_job()
\* that does finds g_running FALSE, unless a start() is about to replace it.
OneLaunch ==
  \A t \in PyThreads :
    /\ Launching(t) => g_sched # Nobody /\ \A u \in PyThreads : Launching(u) => u = t
    /\ Unrun(t) => state[g_sched] = "made"
    /\ Unflagged(t) => state[g_sched] = "running"
    /\ pc[t] \in {"ensure_run", "ensure_flag"} /\ g_running =>
         \E s \in PyThreads : Resetting(s)

\* Where nobody brings up or stops g_sched, g_running tells its state.
Settled ==
  /\ g_running /\ g_sched = Nobody => \E s \in PyThreads : Resetting(s)
  /\ g_sched # Nobody /\ (\A t \in PyThreads : ~Launching(t) /\ ~Ending(t)) =>
       state[g_sched] = IF g_running THEN "running" ELSE "stopped"

\* What a thread stops or destroys is in the state its caller expects: stop()
\* stops g_sched, start() only what g_sched no longer is.
Stops ==
  \A t \in PyThreads :
    /\ pc[t] \in StopPcs \cup {"start_destroy", "start_replaced", "stop_flag"} =>
         ref[t] \in Instances
    /\ pc[t] = "stop_begin" => state[ref[t]] \in {"running", "stopped"}
    /\ pc[t] \in {"stop_threads", "stop_sampler"} => state[ref[t]] = "stopping"
    /\ pc[t] \in {"start_destroy", "start_replaced", "stop_flag"} =>
         state[ref[t]] = "stopped"
    /\ (Resetting(t) \/ Replacing(t)) /\ pc[t] # "start_make" => ref[t] # g_sched
    /\ Ending(t) => ref[t] = g_sched /\ g_running

\* A scheduler that runs is g_sched, or start() is about to stop it.
Reached ==
  \A i \in Instances : state[i] = "running" =>
    i = g_sched \/ \E t \in PyThreads : pc[t] = "stop_begin" /\ ref[t] = i

Calm ==
  /\ Locked /\ Aimed /\ Claimed /\ OneLaunch /\ Settled /\ Stops /\ Reached
  /\ ~crashed

\* A race is never forgotten, so nothing need be known once there was one.
RaceInv == raced \/ (TypeInv /\ Calm)

LEMMA InitRaceInv == Init => RaceInv
BY DEF Init, RaceInv, TypeInv, Calm, Places, States, Functions, Locked, Aimed, Claimed,
       OneLaunch, Settled, Stops, Reached,
       StopPcs, Holding, Resetting, Replacing, Ending, Unrun, Unflagged, Launching

\* The scheduler in g_sched is alive.
LEMMA SchedAlive ==
  ASSUME TypeInv, Calm, g_sched # Nobody
  PROVE  state[g_sched] \in {"made", "running", "stopping", "stopped"}
<1>1. CASE \E t \in PyThreads : Launching(t)
  BY <1>1 DEF Calm, OneLaunch, Launching
<1>2. CASE \E t \in PyThreads : Ending(t)
  BY <1>2 DEF Calm, Aimed, Stops, Ending, StopPcs
<1>3. CASE \A t \in PyThreads : ~Launching(t) /\ ~Ending(t)
  BY <1>3 DEF Calm, Settled
<1> QED
  BY <1>1, <1>2, <1>3

\* With no other thread in submit_job(), the one that has the mutex and is not
\* bringing up a scheduler finds it as g_running tells.
LEMMA SchedSettled ==
  ASSUME TypeInv, Calm, NEW t \in PyThreads, Holding(t),
         ~Launching(t), ~Ending(t), g_sched # Nobody,
         \A u \in PyThreads \ {t} : ~Submitting(u)
  PROVE  /\ state[g_sched] \in {"running", "stopped"}
         /\ \A u \in PyThreads : ~Launching(u) /\ ~Ending(u)
<1>1. \A u \in PyThreads \ {t} : ~Holding(u)
  BY DEF Calm, Locked
<1>2. \A u \in PyThreads \ {t} : ~Launching(u) /\ ~Ending(u)
  BY <1>1 DEF Launching, Unrun, Unflagged, Replacing, Ending, Holding, Submitting
<1> QED
  BY <1>2 DEF Calm, Settled

\* Whatever a thread is about to use is there, and nobody else is joining it.
LEMMA NoMisuse ==
  ASSUME TypeInv, Calm, NEW t \in PyThreads
  PROVE  ~Misuses(t)
<1>1. ASSUME pc[t] \in {"stop_begin", "stop_threads", "stop_sampler", "start_destroy",
                        "start_replaced", "stop_flag"}
      PROVE  /\ Alive(Used(t))
             /\ pc[t] = "stop_begin" => state[ref[t]] # "stopping"
             /\ pc[t] \in {"start_destroy", "start_replaced"} => state[ref[t]] # "running"
  BY <1>1 DEF Calm, Stops, StopPcs, Alive, Used
<1>2. ASSUME pc[t] \in {"start_run", "ensure_run", "stats_read", "submit"}
      PROVE  Alive(Used(t))
  <2>1. g_sched \in Instances /\ Used(t) = g_sched
    BY <1>2 DEF TypeInv, Calm, OneLaunch, Claimed, Launching, Unrun, Used
  <2> QED
    BY <2>1, SchedAlive, BindingsAssumption DEF Alive
<1> QED
  BY <1>1, <1>2 DEF Calm, Aimed, Misuses

-----------------------------------------------------------------------------
(***************************************************************************)
(* Every step that is no race keeps the invariant.                         *)
(***************************************************************************)

\* stop() and the destructor.
LEMMA StopCalm ==
  ASSUME TypeInv, Calm, NEW t \in PyThreads, ~raced',
         \/ StopBegin(t) \/ StopThreads(t) \/ StopSampler(t)
         \/ ResetDestroy(t) \/ StartReplaced(t) \/ EnsureReplaced(t)
  PROVE  TypeInv' /\ Calm'
<1> USE DEF TypeInv, Places, States, Calm, globals, locals, Goto, SetState
<1> USE DEF Locked, Aimed, Claimed, OneLaunch, Settled, Stops, Reached,
           StopPcs, Holding, Resetting, Replacing, Ending,
           Unrun, Unflagged, Launching
<1>1. CASE StopBegin(t)
  <2>1. TypeInv'
    BY <1>1 DEF StopBegin
  <2> QED
    BY <1>1, <2>1 DEF StopBegin
<1>2. CASE StopThreads(t)
  <2>1. TypeInv'
    BY <1>2 DEF StopThreads, ClearSampling
  <2> QED
    BY <1>2, <2>1 DEF StopThreads, ClearSampling
<1>3. CASE StopSampler(t)
  <2>1. TypeInv'
    BY <1>3 DEF StopSampler, JoinSampler
  <2> QED
    BY <1>3, <2>1 DEF StopSampler, JoinSampler
<1>4. CASE ResetDestroy(t)
  <2>1. TypeInv'
    BY <1>4 DEF ResetDestroy, Destroy, JoinSampler
  <2> QED
    BY <1>4, <2>1 DEF ResetDestroy, Destroy, JoinSampler
<1>5. CASE StartReplaced(t)
  <2>1. TypeInv'
    BY <1>5 DEF StartReplaced, Destroy, JoinSampler
  <2> QED
    BY <1>5, <2>1 DEF StartReplaced, Destroy, JoinSampler
<1>6. CASE EnsureReplaced(t)
  <2>1. TypeInv'
    BY <1>6 DEF EnsureReplaced, Destroy
  <2> QED
    BY <1>6, <2>1 DEF EnsureReplaced, Destroy
<1> QED
  BY <1>1, <1>2, <1>3, <1>4, <1>5, <1>6

\* start(), but for the steps that write g_sched.
LEMMA StartCalm ==
  ASSUME TypeInv, Calm, NEW t \in PyThreads, ~raced',
         StartLock(t) \/ StartRun(t) \/ StartFlag(t)
  PROVE  TypeInv' /\ Calm'
<1> USE DEF TypeInv, Places, States, Calm, globals, locals, Goto, SetState
<1> USE DEF Locked, Aimed, Claimed, OneLaunch, Settled, Stops, Reached,
           StopPcs, Holding, Resetting, Replacing, Ending,
           Unrun, Unflagged, Launching
<1>1. CASE StartLock(t)
  <2>1. TypeInv'
    BY <1>1 DEF StartLock, Lock
  <2> QED
    BY <1>1, <2>1, BindingsAssumption DEF StartLock, Lock
<1>2. CASE StartRun(t)
  <2>1. TypeInv'
    BY <1>2 DEF StartRun, Run
  <2> QED
    BY <1>2, <2>1 DEF StartRun, Run
<1>3. CASE StartFlag(t)
  <2>1. TypeInv'
    BY <1>3 DEF StartFlag
  <2> QED
    BY <1>3, <2>1 DEF StartFlag
<1> QED
  BY <1>1, <1>2, <1>3

\* stop() and stats().
LEMMA CallsCalm ==
  ASSUME TypeInv, Calm, NEW t \in PyThreads, ~raced',
         StopLock(t) \/ StopFlag(t) \/ StatsLock(t) \/ StatsRead(t)
  PROVE  TypeInv' /\ Calm'
<1> USE DEF TypeInv, Places, States, Calm, globals, locals, Goto, SetRef
<1> USE DEF Locked, Aimed, Claimed, OneLaunch, Settled, Stops, Reached,
           StopPcs, Holding, Resetting, Replacing, Ending,
           Unrun, Unflagged, Launching
<1>1. CASE StopLock(t)
  <2>1. TypeInv'
    BY <1>1 DEF StopLock, Lock, CallStop
  <2> QED
    BY <1>1, <2>1, BindingsAssumption DEF StopLock, Lock, CallStop
<1>2. CASE StopFlag(t)
  <2>1. TypeInv'
    BY <1>2 DEF StopFlag
  <2> QED
    BY <1>2, <2>1 DEF StopFlag
<1>3. CASE StatsLock(t)
  <2>1. TypeInv'
    BY <1>3 DEF StatsLock, Lock
  <2> QED
    BY <1>3, <2>1, BindingsAssumption DEF StatsLock, Lock
<1>4. CASE StatsRead(t)
  <2>1. TypeInv'
    BY <1>4 DEF StatsRead
  <2> QED
    BY <1>4, <2>1 DEF StatsRead
<1> QED
  BY <1>1, <1>2, <1>3, <1>4

\* submit_job(), but for the making of a scheduler, and batched_gemm().
LEMMA SubmitCalm ==
  ASSUME TypeInv, Calm, NEW t \in PyThreads, ~raced',
         \/ EnsureTest(t) \/ EnsureRun(t) \/ EnsureFlag(t) \/ EnsureReturn(t)
         \/ Submit(t) \/ BatchedGemm(t)
  PROVE  TypeInv' /\ Calm'
<1> USE DEF TypeInv, Places, States, Calm, globals, locals, Goto, SetRef, SetState
<1> USE DEF Locked, Aimed, Claimed, OneLaunch, Settled, Stops, Reached,
           StopPcs, Holding, Resetting, Replacing, Ending,
           Unrun, Unflagged, Launching
<1>1. CASE EnsureTest(t)
  <2>1. TypeInv'
    BY <1>1 DEF EnsureTest
  <2> QED
    BY <1>1, <2>1 DEF EnsureTest
<1>2. CASE EnsureRun(t)
  <2>1. TypeInv'
    BY <1>2 DEF EnsureRun, Run
  <2> QED
    BY <1>2, <2>1 DEF EnsureRun, Run
<1>3. CASE EnsureFlag(t)
  <2>1. TypeInv'
    BY <1>3 DEF EnsureFlag
  <2> QED
    BY <1>3, <2>1 DEF EnsureFlag
<1>4. CASE EnsureReturn(t)
  <2>1. TypeInv'
    BY <1>4 DEF EnsureReturn
  <2> QED
    BY <1>4, <2>1 DEF EnsureReturn
<1>5. CASE Submit(t)
  <2>1. TypeInv'
    BY <1>5 DEF Submit
  <2> QED
    BY <1>5, <2>1 DEF Submit
<1>6. CASE BatchedGemm(t)
  <2>1. TypeInv'
    BY <1>6 DEF BatchedGemm
  <2> QED
    BY <1>6, <2>1 DEF BatchedGemm
<1> QED
  BY <1>1, <1>2, <1>3, <1>4, <1>5, <1>6

\* The guards, and the beginning of a call.
LEMMA GuardsCalm ==
  ASSUME TypeInv, Calm, NEW t \in PyThreads, NEW f \in Functions, ~raced',
         Unlock(t) \/ Return(t) \/ Call(t, f)
  PROVE  TypeInv' /\ Calm'
<1> USE DEF TypeInv, Places, States, Functions, Calm, globals, locals, Goto, SetRef
<1> USE DEF Locked, Aimed, Claimed, OneLaunch, Settled, Stops, Reached,
           StopPcs, Holding, Resetting, Replacing, Ending,
           Unrun, Unflagged, Launching
<1>1. CASE Unlock(t)
  <2>1. TypeInv'
    BY <1>1 DEF Unlock
  <2> QED
    BY <1>1, <2>1 DEF Unlock
<1>2. CASE Return(t)
  <2>1. TypeInv'
    BY <1>2 DEF Return
  <2> QED
    BY <1>2, <2>1 DEF Return
<1>3. CASE Call(t, f)
  <2>1. TypeInv'
    BY <1>3 DEF Call
  <2> QED
    BY <1>3, <2>1 DEF Call
<1> QED
  BY <1>1, <1>2, <1>3

\* start() clears g_sched, with no thread in submit_job(): from there on it alone
\* knows the scheduler it stops.
LEMMA ResetCalm ==
  ASSUME TypeInv, Calm, NEW t \in PyThreads, ~raced', StartReset(t)
  PROVE  TypeInv' /\ Calm'
<1> USE DEF TypeInv, Places, States, Calm, globals, locals, Goto, SetRef
<1>1. TypeInv'
  BY DEF StartReset, SetSched, CallStop
<1>2. /\ pc[t] = "start_reset" /\ Holding(t)
      /\ ~Launching(t) /\ ~Ending(t)
      /\ g_sched' = Nobody
      /\ UNCHANGED <<state, g_mutex, g_running, crashed>>
  BY DEF StartReset, SetSched, CallStop, Holding, Launching, Unrun, Unflagged, Replacing,
         Ending, StopPcs
<1>3. \A u \in PyThreads \ {t} : ~Submitting(u)
  BY DEF StartReset, SetSched
<1>4. \A u \in PyThreads : ~Holding(u) \/ u = t
  BY <1>2 DEF Locked
<1>5. \A u \in PyThreads : ~Launching(u) /\ ~Ending(u)
  BY <1>2, <1>3, <1>4 DEF Launching, Unrun, Unflagged, Replacing, Ending, Holding, Submitting
<1>6. CASE g_sched = Nobody
  <2>1. pc' = [pc EXCEPT ![t] = "start_make"] /\ UNCHANGED <<ref, after>>
    BY <1>6 DEF StartReset
  <2> QED
    BY <1>1, <1>2, <1>3, <1>4, <1>5, <1>6, <2>1
       DEF Locked, Aimed, Claimed, OneLaunch, Settled, Stops, Reached,
           StopPcs, Holding, Resetting, Replacing, Ending,
           Unrun, Unflagged, Launching
<1>7. CASE g_sched # Nobody
  <2>1. /\ pc' = [pc EXCEPT ![t] = "stop_begin"]
        /\ ref' = [ref EXCEPT ![t] = g_sched]
        /\ after' = [after EXCEPT ![t] = "start_destroy"]
    BY <1>7 DEF StartReset, CallStop
  <2>2. state[g_sched] \in {"running", "stopped"}
    BY <1>2, <1>3, <1>7, SchedSettled
  <2> QED
    BY <1>1, <1>2, <1>3, <1>4, <1>5, <1>7, <2>1, <2>2, BindingsAssumption
       DEF Locked, Aimed, Claimed, OneLaunch, Settled, Stops, Reached,
           StopPcs, Holding, Resetting, Replacing, Ending,
           Unrun, Unflagged, Launching, Submitting
<1> QED
  BY <1>6, <1>7

\* The scheduler that is made is a new one: no thread and no global knows it.
LEMMA FreshIsNew ==
  ASSUME TypeInv, Calm, NEW t \in PyThreads, NEW run, NEW replaced,
         Make(t, run, replaced)
  PROVE  /\ Fresh \in Instances /\ state[Fresh] = "none" /\ Fresh # g_sched
         /\ Fresh # Nobody
         /\ state' = [state EXCEPT ![Fresh] = "made"] /\ g_sched' = Fresh
<1>1. Fresh \in Instances /\ state[Fresh] = "none"
  BY DEF Make, Fresh
<1>2. Fresh # Nobody
  BY <1>1, BindingsAssumption
<1>3. Fresh # g_sched
  BY <1>1, <1>2, SchedAlive
<1> QED
  BY <1>1, <1>2, <1>3 DEF Make, SetSched, SetState

\* start() makes a scheduler.  A submit_job() that ended since g_sched was cleared
\* may have made one, which start() then stops and destroys.
LEMMA StartMakeCalm ==
  ASSUME TypeInv, Calm, NEW t \in PyThreads, ~raced', StartMake(t)
  PROVE  TypeInv' /\ Calm'
<1> DEFINE i == Fresh
<1>0. Make(t, "start_run", "start_replaced") /\ pc[t] = "start_make"
  BY DEF StartMake
<1>1. /\ i \in Instances /\ state[i] = "none" /\ i # g_sched /\ i # Nobody
      /\ state' = [state EXCEPT ![i] = "made"] /\ g_sched' = i
  BY <1>0, FreshIsNew
<1> HIDE DEF i
<1> USE DEF TypeInv, Places, States, Calm, globals, locals, Goto, SetRef
<1>2. /\ Holding(t) /\ ~Launching(t) /\ ~Ending(t)
      /\ UNCHANGED <<g_mutex, g_running, crashed>>
  BY <1>0 DEF Make, Holding, Launching, Unrun, Unflagged, Replacing, Ending, StopPcs
<1>3. \A u \in PyThreads \ {t} : ~Submitting(u)
  BY <1>0 DEF Make, SetSched
<1>4. \A u \in PyThreads : ~Holding(u) \/ u = t
  BY <1>2 DEF Locked
<1>5. \A u \in PyThreads : ~Launching(u) /\ ~Ending(u)
  BY <1>2, <1>3, <1>4 DEF Launching, Unrun, Unflagged, Replacing, Ending, Holding, Submitting
<1>6. CASE g_sched = Nobody
  <2>1. pc' = [pc EXCEPT ![t] = "start_run"] /\ UNCHANGED <<ref, after>>
    BY <1>0, <1>6 DEF Make
  <2>2. TypeInv'
    BY <1>0, <1>1, <1>2, <2>1 DEF Make, SetSched
  <2>3. Reached'
    <3> SUFFICES ASSUME NEW j \in Instances, state'[j] = "running"
                 PROVE  \E u \in PyThreads : pc'[u] = "stop_begin" /\ ref'[u] = j
      BY DEF Reached
    <3>1. state[j] = "running" /\ j # Nobody
      BY <1>1, BindingsAssumption
    <3>2. PICK u \in PyThreads : pc[u] = "stop_begin" /\ ref[u] = j
      BY <1>6, <3>1 DEF Reached
    <3> QED
      BY <1>0, <2>1, <3>2
  <2>4. Locked' /\ Aimed' /\ Claimed' /\ OneLaunch' /\ Settled' /\ Stops'
    BY <1>0, <1>1, <1>2, <1>3, <1>4, <1>5, <1>6, <2>1, <2>2
       DEF Locked, Aimed, Claimed, OneLaunch, Settled, Stops, Reached,
           StopPcs, Holding, Resetting, Replacing, Ending,
           Unrun, Unflagged, Launching, Submitting
  <2> QED
    BY <1>2, <2>2, <2>3, <2>4
<1>7. CASE g_sched # Nobody
  <2>1. /\ pc' = [pc EXCEPT ![t] = "stop_begin"]
        /\ ref' = [ref EXCEPT ![t] = g_sched]
        /\ after' = [after EXCEPT ![t] = "start_replaced"]
    BY <1>0, <1>7 DEF Make, CallStop
  <2>2. state[g_sched] \in {"running", "stopped"}
    BY <1>2, <1>3, <1>7, SchedSettled
  <2>3. TypeInv'
    BY <1>0, <1>1, <1>2, <2>1 DEF Make, SetSched
  <2> QED
    BY <1>0, <1>1, <1>2, <1>3, <1>4, <1>5, <1>7, <2>1, <2>2, <2>3, BindingsAssumption
       DEF Locked, Aimed, Claimed, OneLaunch, Settled, Stops, Reached,
           StopPcs, Holding, Resetting, Replacing, Ending,
           Unrun, Unflagged, Launching, Submitting
<1> QED
  BY <1>6, <1>7

\* submit_job() makes a scheduler: g_sched is still nullptr, and no other thread
\* is making one.
LEMMA EnsureMakeCalm ==
  ASSUME TypeInv, Calm, NEW t \in PyThreads, ~raced', EnsureMake(t)
  PROVE  TypeInv' /\ Calm'
<1> DEFINE i == Fresh
<1>0. Make(t, "ensure_run", "ensure_replaced") /\ pc[t] = "ensure_make"
  BY DEF EnsureMake
<1>1. /\ i \in Instances /\ state[i] = "none" /\ i # g_sched /\ i # Nobody
      /\ state' = [state EXCEPT ![i] = "made"] /\ g_sched' = i
  BY <1>0, FreshIsNew
<1> HIDE DEF i
<1> USE DEF TypeInv, Places, States, Calm, globals, locals, Goto, SetRef
<1>2. g_sched = Nobody
  BY <1>0 DEF Claimed
<1>3. /\ pc' = [pc EXCEPT ![t] = "ensure_run"]
      /\ UNCHANGED <<ref, after, g_mutex, g_running, crashed>>
  BY <1>0, <1>2 DEF Make
<1>4. \A u \in PyThreads \ {t} : ~Submitting(u)
  BY <1>0 DEF Make, SetSched
<1>5. \A u \in PyThreads : ~Launching(u) /\ pc[u] # "stats_read" /\ ~Ending(u)
  BY <1>2, BindingsAssumption DEF OneLaunch, Claimed, Stops, Ending, StopPcs
<1>6. TypeInv'
  BY <1>0, <1>1, <1>3 DEF Make, SetSched
<1>7. Reached'
  <2> SUFFICES ASSUME NEW j \in Instances, state'[j] = "running"
               PROVE  \E u \in PyThreads : pc'[u] = "stop_begin" /\ ref'[u] = j
    BY DEF Reached
  <2>1. state[j] = "running" /\ j # Nobody
    BY <1>1, BindingsAssumption
  <2>2. PICK u \in PyThreads : pc[u] = "stop_begin" /\ ref[u] = j
    BY <1>2, <2>1 DEF Reached
  <2> QED
    BY <1>0, <1>3, <2>2
<1>8. Locked' /\ Aimed' /\ Claimed' /\ OneLaunch' /\ Settled' /\ Stops'
  BY <1>0, <1>1, <1>2, <1>3, <1>4, <1>5, <1>6
     DEF Locked, Aimed, Claimed, OneLaunch, Settled, Stops, Reached,
         StopPcs, Holding, Resetting, Replacing, Ending,
         Unrun, Unflagged, Launching, Submitting
<1> QED
  BY <1>3, <1>6, <1>7, <1>8

-----------------------------------------------------------------------------
(***************************************************************************)
(* The theorems.                                                           *)
(***************************************************************************)

\* A race is never forgotten.
LEMMA RacedStays ==
  ASSUME raced, [Next]_vars
  PROVE  raced'
<1> USE DEF vars, globals
<1>1. ASSUME NEW t \in PyThreads, CallStep(t) PROVE raced'
  BY <1>1 DEF CallStep, StopBegin, StopThreads, StopSampler, ResetDestroy, StartReplaced,
     EnsureReplaced, Destroy, StartLock, StartReset, StartMake, StartRun, StartFlag, StopLock,
     StopFlag, StatsLock, StatsRead, EnsureTest, EnsureMake, EnsureRun, EnsureFlag, EnsureReturn,
     Submit, BatchedGemm, Unlock, Return, Make, Run, SetSched
<1>2. ASSUME NEW t \in PyThreads, ThreadStep(t) PROVE raced'
  BY <1>1, <1>2 DEF ThreadStep, Crash
<1>3. ASSUME NEW t \in PyThreads, NEW f \in Functions, Call(t, f) PROVE raced'
  BY <1>3 DEF Call
<1>4. ASSUME NEW i \in Instances, Sampling(i) PROVE raced'
  BY <1>4 DEF Sampling
<1> QED
  BY <1>2, <1>3, <1>4 DEF Next

LEMMA NextRaceInv == RaceInv /\ [Next]_vars => RaceInv'
<1> SUFFICES ASSUME RaceInv, [Next]_vars, ~raced' PROVE TypeInv' /\ Calm'
  BY DEF RaceInv
<1>0. TypeInv /\ Calm
  BY RacedStays DEF RaceInv
<1>1. ASSUME NEW t \in PyThreads, ThreadStep(t) PROVE TypeInv' /\ Calm'
  <2>1. CallStep(t)
    BY <1>0, <1>1, NoMisuse DEF ThreadStep, Crash
  <2> QED
    BY <1>0, <2>1, StopCalm, StartCalm, ResetCalm, StartMakeCalm, CallsCalm, SubmitCalm,
       EnsureMakeCalm, GuardsCalm DEF CallStep, Functions
<1>2. ASSUME NEW t \in PyThreads, NEW f \in Functions, Call(t, f) PROVE TypeInv' /\ Calm'
  BY <1>0, <1>2, GuardsCalm
<1>3. CASE \/ \E i \in Instances : Sampling(i)
           \/ UNCHANGED vars
  <2>1. UNCHANGED <<gil, g_mutex, globals, state, pc, locals>>
    BY <1>3 DEF vars, Sampling
  <2> QED
    BY <1>0, <2>1 DEF globals, locals, TypeInv, Calm,
       Locked, Aimed, Claimed, OneLaunch, Settled, Stops, Reached,
       StopPcs, Holding, Resetting, Replacing, Ending, Unrun, Unflagged, Launching
<1> QED
  BY <1>1, <1>2, <1>3 DEF Next

LEMMA RaceInvHolds == Spec => []RaceInv
BY InitRaceInv, NextRaceInv, PTL DEF Spec

\* No thread uses a scheduler that is not there, or joins what another thread is
\* joining, unless g_sched was replaced while a submit_job() was using it.
THEOREM UnracedCallsAreSafe == Spec => []MisuseNeedsRace
<1>1. RaceInv => MisuseNeedsRace
  BY NoMisuse DEF RaceInv, Calm, MisuseNeedsRace
<1> QED
  BY <1>1, RaceInvHolds, PTL

\* Between the calls that change it g_running tells whether g_sched runs, and no
\* other scheduler runs, for any number of threads and calls, short of a race.
THEOREM NoSchedulerIsLost == Spec => []RunningIsReachable
<1>1. ASSUME RaceInv, ~raced, \A t \in PyThreads : ~Changing(t)
      PROVE  {i \in Instances : state[i] = "running"} =
               IF g_running THEN {g_sched} ELSE {}
  <2>0. TypeInv /\ Calm
    BY <1>1 DEF RaceInv
  <2>1. \A t \in PyThreads : /\ ~Launching(t) /\ ~Ending(t) /\ ~Resetting(t)
                             /\ pc[t] # "stop_begin"
    BY <1>1 DEF Changing, Launching, Unrun, Unflagged, Replacing, Ending, Resetting, StopPcs
  <2>2. \A i \in Instances : state[i] = "running" => i = g_sched
    BY <2>0, <2>1 DEF Calm, Reached
  <2>3. CASE g_sched = Nobody
    BY <2>0, <2>1, <2>2, <2>3, BindingsAssumption DEF Calm, Settled
  <2>4. CASE g_sched # Nobody
    <3>1. g_sched \in Instances /\ state[g_sched] = IF g_running THEN "running" ELSE "stopped"
      BY <2>0, <2>1, <2>4 DEF TypeInv, Calm, Settled
    <3> QED
      BY <2>2, <3>1
  <2> QED
    BY <2>3, <2>4
<1>2. RaceInv => RunningIsReachable
  BY <1>1 DEF RunningIsReachable
<1> QED
  BY <1>2, RaceInvHolds, PTL
=============================================================================
