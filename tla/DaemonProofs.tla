---------------------------- MODULE DaemonProofs ----------------------------
(***************************************************************************)
(* Theorems about Daemon.  main() and its threads use the scheduler as its *)
(* interface allows, so the theorems of SchedulerProofs carry over; from   *)
(* the counters and records they speak of follow the properties of the     *)
(* drain loop, the shutdown and the status page.                           *)
(***************************************************************************)
EXTENDS Daemon, SchedulerProofs

-----------------------------------------------------------------------------
(***************************************************************************)
(* The steps of the daemon, for proofs by cases on DaemonNext.             *)
(***************************************************************************)
LEMMA DaemonCases ==
  ASSUME [DaemonNext]_daemonVars
  PROVE  \/ MainStart \/ MainBind \/ MainBindFails \/ MainHead \/ MainQueued
         \/ MainReadFirst \/ MainCompare \/ MainJoin \/ MainHttpStop
         \/ MainHttpJoin \/ MainStop \/ MainStopNotify \/ MainStopJoin
         \/ GeneratorSubmit \/ GeneratorContinue \/ GeneratorDone
         \/ Interrupt
         \/ ScrapeBegin \/ ScrapeCompleted \/ ScrapeQueued \/ ScrapeMetrics
         \/ ScrapeRender
         \/ SchedulerStep
         \/ UNCHANGED daemonVars
BY Zenon DEF DaemonNext, MainStep, GeneratorStep, ScrapeStep

\* The job that is submitted next is one of the jobs.
LEMMA NextJob ==
  ASSUME NewJobs # {}
  PROVE  (CHOOSE j \in NewJobs : TRUE) \in Jobs
BY DEF NewJobs

\* Every step of the daemon is a step of the scheduler or leaves it alone.
LEMMA DaemonUses ==
  ASSUME [DaemonNext]_daemonVars
  PROVE  [Next]_vars
<1>1. CASE UNCHANGED daemonVars
  BY <1>1 DEF daemonVars
<1>2. CASE ~UNCHANGED daemonVars
  <2>1. ~terminated
    BY <1>2 DEF DaemonNext
  <2>2. CASE MainStart \/ MainStop \/ MainStopNotify \/ MainStopJoin
    BY <2>1, <2>2, Zenon
       DEF MainStart, MainStop, MainStopNotify, MainStopJoin, Next, StopStep
  <2>3. CASE GeneratorSubmit
    <3>1. PICK j \in Jobs : SubmitEnqueue(j)
      BY <2>3, NextJob, Zenon DEF GeneratorSubmit
    <3> QED
      BY <2>1, <3>1, Zenon DEF Next, SubmitStep
  <2>4. CASE GeneratorContinue
    <3>1. PICK j \in Jobs : SubmitCount(j) \/ SubmitNotify(j)
      BY <2>4, Zenon DEF GeneratorContinue, InSubmit
    <3> QED
      BY <2>1, <3>1, Zenon DEF Next, SubmitStep
  <2>5. CASE SchedulerStep
    BY <2>1, <2>5, Zenon DEF SchedulerStep, Next
  <2>6. CASE \/ MainBind \/ MainBindFails \/ MainHead \/ MainQueued
             \/ MainReadFirst \/ MainCompare \/ MainJoin \/ MainHttpStop
             \/ MainHttpJoin \/ GeneratorDone \/ Interrupt
    BY <2>6, Zenon
       DEF MainBind, MainBindFails, MainHead, MainQueued, MainReadFirst,
           MainCompare, MainJoin, MainHttpStop, MainHttpJoin, GeneratorDone,
           Interrupt
  <2>7. CASE \/ ScrapeBegin \/ ScrapeCompleted \/ ScrapeQueued
             \/ ScrapeMetrics \/ ScrapeRender
    BY <2>7, Zenon
       DEF ScrapeBegin, ScrapeCompleted, ScrapeQueued, ScrapeMetrics, ScrapeRender
  <2> QED
    BY <1>2, <2>2, <2>3, <2>4, <2>5, <2>6, <2>7, DaemonCases, Zenon
<1> QED
  BY <1>1, <1>2

\* main(), the generator and the status server are correct clients of the
\* scheduler: what Scheduler promises holds of the scheduler inside the daemon.
THEOREM DaemonRunsScheduler == DaemonSpec => Spec
<1>1. DaemonInit => Init
  BY DEF DaemonInit
<1>2. [DaemonNext]_daemonVars => [Next]_vars
  BY DaemonUses
<1> QED
  BY <1>1, <1>2, PTL DEF DaemonSpec, Spec
-----------------------------------------------------------------------------
(***************************************************************************)
(* What the scheduler's steps do to what the daemon reads.                 *)
(***************************************************************************)

\* Records are never taken back and the counter of completed jobs never falls.
LEMMA RecordsGrow ==
  ASSUME TypeOK, [Next]_vars
  PROVE  /\ Recorded \subseteq Recorded'
         /\ completed_ =< completed_'
<1> DEFINE Goal == Recorded \subseteq Recorded' /\ completed_ =< completed_'
<1>n. completed_ \in Nat /\ \A S \in SUBSET Jobs : Cardinality(S) \in Nat
  BY CountNat DEF TypeOK
<1>a. ASSUME UNCHANGED recordVars PROVE Goal
  BY <1>a, <1>n DEF recordVars, Recorded
<1>b. ASSUME NEW S \in SUBSET Jobs, FailBatch(S) PROVE Goal
  <2>1. Recorded' = Recorded \cup S
    BY <1>b, FailBatchEffect
  <2> QED
    BY <1>b, <1>n, <2>1 DEF FailBatch
<1>1. ASSUME NEW j \in Jobs, SubmitEnqueue(j) PROVE Goal
  BY <1>1, <1>a, Zenon DEF SubmitEnqueue
<1>2. ASSUME NEW j \in Jobs, SubmitCount(j) PROVE Goal
  BY <1>2, <1>a, Zenon DEF SubmitCount
<1>3. ASSUME NEW j \in Jobs, SubmitNotify(j) PROVE Goal
  BY <1>3, <1>a, Zenon DEF SubmitNotify
<1>4. ASSUME Start PROVE Goal
  BY <1>4, <1>a, Zenon DEF Start
<1>5. ASSUME StopFlag PROVE Goal
  BY <1>5, <1>a, Zenon DEF StopFlag
<1>6. ASSUME StopNotify PROVE Goal
  BY <1>6, <1>a, Zenon DEF StopNotify
<1>7. ASSUME StopJoin PROVE Goal
  BY <1>7, <1>a, Zenon DEF StopJoin
<1>8. ASSUME NEW t \in Threads, WaitBlock(t) PROVE Goal
  BY <1>8, <1>a, Zenon DEF WaitBlock
<1>9. ASSUME NEW t \in Threads, WaitSleep(t) PROVE Goal
  BY <1>9, <1>a, Zenon DEF WaitSleep
<1>10. ASSUME NEW t \in Threads, SpuriousWakeup(t) PROVE Goal
  BY <1>10, <1>a, Zenon DEF SpuriousWakeup
<1>11. ASSUME DispatcherSpace PROVE Goal
  BY <1>11, <1>a, Zenon DEF DispatcherSpace
<1>12. ASSUME DispatcherQuit PROVE Goal
  BY <1>12, <1>a, Zenon DEF DispatcherQuit
<1>13. ASSUME DispatcherDrain PROVE Goal
  BY <1>13, <1>a, Zenon DEF DispatcherDrain
<1>14. ASSUME DispatcherNoGpu PROVE Goal
  <2>1. candidates \in SUBSET Jobs /\ FailBatch(candidates)
    BY <1>14 DEF TypeOK, Oversized, DispatcherNoGpu
  <2> QED
    BY <2>1, <1>b
<1>15. ASSUME DispatcherReject PROVE Goal
  <2>1. Oversized \in SUBSET Jobs /\ FailBatch(Oversized)
    BY <1>15 DEF TypeOK, Oversized, DispatcherReject
  <2> QED
    BY <2>1, <1>b
<1>16. ASSUME DispatcherSample PROVE Goal
  BY <1>16, <1>a, Zenon DEF DispatcherSample
<1>17. ASSUME DispatcherPack PROVE Goal
  BY <1>17, <1>a, Zenon DEF DispatcherPack
<1>18. ASSUME DispatcherRequeue PROVE Goal
  BY <1>18, <1>a, Zenon DEF DispatcherRequeue
<1>19. ASSUME DispatcherReserve PROVE Goal
  BY <1>19, <1>a, Zenon DEF DispatcherReserve
<1>20. ASSUME DispatcherPush PROVE Goal
  BY <1>20, <1>a, Zenon DEF DispatcherPush
<1>21. ASSUME DispatcherNotify PROVE Goal
  BY <1>21, <1>a, Zenon DEF DispatcherNotify
<1>22. ASSUME NEW w \in Workers, WorkerTake(w) PROVE Goal
  BY <1>22, <1>a, Zenon DEF WorkerTake
<1>23. ASSUME NEW w \in Workers, WorkerQuit(w) PROVE Goal
  BY <1>23, <1>a, Zenon DEF WorkerQuit
<1>24. ASSUME NEW w \in Workers, WorkerNotifySpace(w) PROVE Goal
  BY <1>24, <1>a, Zenon DEF WorkerNotifySpace
<1>25. ASSUME NEW w \in Workers, WorkerNoGpu(w) PROVE Goal
  <2>1. batch[w] \in SUBSET Jobs /\ FailBatch(batch[w])
    BY <1>25 DEF TypeOK, Oversized, WorkerNoGpu
  <2> QED
    BY <2>1, <1>b
<1>26. ASSUME NEW w \in Workers, WorkerFail(w) PROVE Goal
  <2>1. batch[w] \in SUBSET Jobs /\ FailBatch(batch[w])
    BY <1>26 DEF TypeOK, Oversized, WorkerFail
  <2> QED
    BY <2>1, <1>b
<1>27. ASSUME NEW w \in Workers, WorkerThrow(w) PROVE Goal
  BY <1>27, <1>a, Zenon DEF WorkerThrow
<1>28. ASSUME NEW w \in Workers, WorkerSucceed(w) PROVE Goal
  <2>1. batch[w] \in SUBSET Jobs /\ Record(batch[w], TRUE)
    BY <1>28 DEF TypeOK, WorkerSucceed
  <2>2. Recorded' = Recorded \cup batch[w]
    BY <2>1, RecordEffect
  <2>3. completed_' = completed_
    BY <1>28 DEF WorkerSucceed
  <2> QED
    BY <1>n, <2>2, <2>3
<1>29. ASSUME NEW w \in Workers, WorkerCount(w) PROVE Goal
  <2>1. Recorded' = Recorded
    BY <1>29 DEF WorkerCount, Recorded
  <2>2. completed_' = completed_ + Cardinality(batch[w]) /\ batch[w] \in SUBSET Jobs
    BY <1>29 DEF TypeOK, WorkerCount
  <2> QED
    BY <1>n, <2>1, <2>2
<1>30. ASSUME NEW w \in Workers, WorkerRelease(w) PROVE Goal
  BY <1>30, <1>a, Zenon DEF WorkerRelease
<1>31. CASE UNCHANGED vars
  BY <1>31, <1>a DEF vars
<1> QED
  BY <1>1, <1>2, <1>3, <1>4, <1>5, <1>6, <1>7, <1>8, <1>9, <1>10, <1>11,
     <1>12, <1>13, <1>14, <1>15, <1>16, <1>17, <1>18, <1>19, <1>20,
     <1>21, <1>22, <1>23, <1>24, <1>25, <1>26, <1>27, <1>28, <1>29,
     <1>30, <1>31, StepCases

\* The threads of the scheduler submit nothing and stop nothing.
LEMMA ThreadsSubmitNothing ==
  ASSUME SchedulerStep
  PROVE  UNCHANGED <<submitVars, stopPc, mainVars, httpVars>>
<1>1. UNCHANGED <<mainVars, httpVars>>
  BY DEF SchedulerStep
<1>2. ASSUME NEW t \in Threads, WaitBlock(t) PROVE UNCHANGED <<submitVars, stopPc>>
  BY <1>2 DEF lifeVars, WaitBlock
<1>3. ASSUME NEW t \in Threads, WaitSleep(t) PROVE UNCHANGED <<submitVars, stopPc>>
  BY <1>3 DEF lifeVars, WaitSleep
<1>4. ASSUME NEW t \in Threads, SpuriousWakeup(t) PROVE UNCHANGED <<submitVars, stopPc>>
  BY <1>4 DEF lifeVars, SpuriousWakeup
<1>5. ASSUME DispatcherSpace PROVE UNCHANGED <<submitVars, stopPc>>
  BY <1>5 DEF lifeVars, DispatcherSpace
<1>6. ASSUME DispatcherQuit PROVE UNCHANGED <<submitVars, stopPc>>
  BY <1>6 DEF lifeVars, DispatcherQuit
<1>7. ASSUME DispatcherDrain PROVE UNCHANGED <<submitVars, stopPc>>
  BY <1>7 DEF lifeVars, DispatcherDrain
<1>8. ASSUME DispatcherNoGpu PROVE UNCHANGED <<submitVars, stopPc>>
  BY <1>8 DEF lifeVars, DispatcherNoGpu
<1>9. ASSUME DispatcherReject PROVE UNCHANGED <<submitVars, stopPc>>
  BY <1>9 DEF lifeVars, DispatcherReject
<1>10. ASSUME DispatcherSample PROVE UNCHANGED <<submitVars, stopPc>>
  BY <1>10 DEF lifeVars, DispatcherSample
<1>11. ASSUME DispatcherPack PROVE UNCHANGED <<submitVars, stopPc>>
  BY <1>11 DEF lifeVars, DispatcherPack
<1>12. ASSUME DispatcherRequeue PROVE UNCHANGED <<submitVars, stopPc>>
  BY <1>12 DEF lifeVars, DispatcherRequeue
<1>13. ASSUME DispatcherReserve PROVE UNCHANGED <<submitVars, stopPc>>
  BY <1>13 DEF lifeVars, DispatcherReserve
<1>14. ASSUME DispatcherPush PROVE UNCHANGED <<submitVars, stopPc>>
  BY <1>14 DEF lifeVars, DispatcherPush
<1>15. ASSUME DispatcherNotify PROVE UNCHANGED <<submitVars, stopPc>>
  BY <1>15 DEF lifeVars, DispatcherNotify
<1>16. ASSUME NEW w \in Workers, WorkerTake(w) PROVE UNCHANGED <<submitVars, stopPc>>
  BY <1>16 DEF lifeVars, WorkerTake
<1>17. ASSUME NEW w \in Workers, WorkerQuit(w) PROVE UNCHANGED <<submitVars, stopPc>>
  BY <1>17 DEF lifeVars, WorkerQuit
<1>18. ASSUME NEW w \in Workers, WorkerNotifySpace(w) PROVE UNCHANGED <<submitVars, stopPc>>
  BY <1>18 DEF lifeVars, WorkerNotifySpace
<1>19. ASSUME NEW w \in Workers, WorkerNoGpu(w) PROVE UNCHANGED <<submitVars, stopPc>>
  BY <1>19 DEF lifeVars, WorkerNoGpu
<1>20. ASSUME NEW w \in Workers, WorkerFail(w) PROVE UNCHANGED <<submitVars, stopPc>>
  BY <1>20 DEF lifeVars, WorkerFail
<1>21. ASSUME NEW w \in Workers, WorkerThrow(w) PROVE UNCHANGED <<submitVars, stopPc>>
  BY <1>21 DEF lifeVars, WorkerThrow
<1>22. ASSUME NEW w \in Workers, WorkerSucceed(w) PROVE UNCHANGED <<submitVars, stopPc>>
  BY <1>22 DEF lifeVars, WorkerSucceed
<1>23. ASSUME NEW w \in Workers, WorkerCount(w) PROVE UNCHANGED <<submitVars, stopPc>>
  BY <1>23 DEF lifeVars, WorkerCount
<1>24. ASSUME NEW w \in Workers, WorkerRelease(w) PROVE UNCHANGED <<submitVars, stopPc>>
  BY <1>24 DEF lifeVars, WorkerRelease
<1> QED
  BY <1>1, <1>2, <1>3, <1>4, <1>5, <1>6, <1>7, <1>8, <1>9, <1>10, <1>11,
     <1>12, <1>13, <1>14, <1>15, <1>16, <1>17, <1>18, <1>19, <1>20, <1>21,
     <1>22, <1>23, <1>24, Zenon
     DEF SchedulerStep, DispatcherStep, WorkerStep, WaitStep, Threads
-----------------------------------------------------------------------------
(***************************************************************************)
(* Who may use the scheduler when.                                         *)
(***************************************************************************)
Control ==
  /\ InSubmit # {} => Generating
  /\ mainPc \in {"start", "bind"} =>
       httpPc = "off" /\ generator = "none" /\ ~generator_done
  /\ mainPc = "replay" => generator = "none" /\ ~generator_done
  /\ generator = "running" => ~generator_done
  /\ mainPc \in {"queued", "first", "compare"} => generator_done
  /\ mainPc \in {"http", "http_join", "stop", "stopping", "exited"} =>
       generator # "running"
  /\ mainPc \in {"stop", "stopping", "exited"} => httpPc = "off"
  /\ stopPc # "idle" => mainPc = "stopping"

LEMMA ControlInit == DaemonInit => Control
BY DEF DaemonInit, Init, Control, InSubmit

LEMMA ControlStep ==
  ASSUME TypeOK, Control, [DaemonNext]_daemonVars
  PROVE  Control'
<1> USE DEF Control, MainGoto, mainVars, httpVars
<1>s. ASSUME submitPc' = submitPc PROVE InSubmit' = InSubmit
  BY <1>s DEF InSubmit
<1>v. ASSUME UNCHANGED vars PROVE InSubmit' = InSubmit /\ stopPc' = stopPc
  BY <1>v, <1>s DEF vars, submitVars, lifeVars
<1>g. Generating <=> generator = "running" \/ mainPc = "replay"
  BY DEF Generating
<1>h. Generating' <=> generator' = "running" \/ mainPc' = "replay"
  BY DEF Generating
<1>1. ASSUME MainStart PROVE Control'
  <2>1. InSubmit' = InSubmit
    BY <1>1, <1>s DEF MainStart, Start, submitVars
  <2> QED
    BY <1>1, <1>g, <1>h, <2>1 DEF MainStart, Start
<1>2. ASSUME MainBind PROVE Control'
  <2>1. InSubmit' = InSubmit /\ stopPc' = stopPc
    BY <1>2, <1>v DEF MainBind
  <2> QED
    BY <1>2, <1>g, <1>h, <2>1 DEF MainBind
<1>3. ASSUME MainBindFails PROVE Control'
  <2>1. InSubmit' = InSubmit /\ stopPc' = stopPc
    BY <1>3, <1>v DEF MainBindFails
  <2> QED
    BY <1>3, <1>g, <1>h, <2>1 DEF MainBindFails
<1>4. ASSUME MainHead PROVE Control'
  <2>1. InSubmit' = InSubmit /\ stopPc' = stopPc
    BY <1>4, <1>v DEF MainHead
  <2> QED
    BY <1>4, <1>g, <1>h, <2>1 DEF MainHead
<1>5. ASSUME MainQueued PROVE Control'
  <2>1. InSubmit' = InSubmit /\ stopPc' = stopPc
    BY <1>5, <1>v DEF MainQueued
  <2> QED
    BY <1>5, <1>g, <1>h, <2>1 DEF MainQueued
<1>6. ASSUME MainReadFirst PROVE Control'
  <2>1. InSubmit' = InSubmit /\ stopPc' = stopPc
    BY <1>6, <1>v DEF MainReadFirst
  <2> QED
    BY <1>6, <1>g, <1>h, <2>1 DEF MainReadFirst
<1>7. ASSUME MainCompare PROVE Control'
  <2>1. InSubmit' = InSubmit /\ stopPc' = stopPc
    BY <1>7, <1>v DEF MainCompare
  <2> QED
    BY <1>7, <1>g, <1>h, <2>1 DEF MainCompare
<1>8. ASSUME MainJoin PROVE Control'
  <2>1. InSubmit' = InSubmit /\ stopPc' = stopPc
    BY <1>8, <1>v DEF MainJoin
  <2> QED
    BY <1>8, <1>g, <1>h, <2>1 DEF MainJoin
<1>9. ASSUME MainHttpStop PROVE Control'
  <2>1. InSubmit' = InSubmit /\ stopPc' = stopPc
    BY <1>9, <1>v DEF MainHttpStop
  <2> QED
    BY <1>9, <1>g, <1>h, <2>1 DEF MainHttpStop
<1>10. ASSUME MainHttpJoin PROVE Control'
  <2>1. InSubmit' = InSubmit /\ stopPc' = stopPc
    BY <1>10, <1>v DEF MainHttpJoin
  <2> QED
    BY <1>10, <1>g, <1>h, <2>1 DEF MainHttpJoin
<1>11. ASSUME MainStop PROVE Control'
  <2>1. InSubmit' = InSubmit
    BY <1>11, <1>s DEF MainStop, StopFlag, submitVars
  <2> QED
    BY <1>11, <1>g, <1>h, <2>1 DEF MainStop, StopFlag
<1>12. ASSUME MainStopNotify PROVE Control'
  <2>1. InSubmit' = InSubmit
    BY <1>12, <1>s DEF MainStopNotify, StopNotify, submitVars
  <2> QED
    BY <1>12, <1>g, <1>h, <2>1 DEF MainStopNotify, StopNotify
<1>13. ASSUME MainStopJoin PROVE Control'
  <2>1. InSubmit' = InSubmit
    BY <1>13, <1>s DEF MainStopJoin, StopJoin, submitVars
  <2> QED
    BY <1>13, <1>g, <1>h, <2>1 DEF MainStopJoin, StopJoin
<1>14. ASSUME GeneratorSubmit PROVE Control'
  <2>1. Generating
    BY <1>14 DEF GeneratorSubmit
  <2>2. UNCHANGED <<mainPc, generator, generator_done, httpPc, stopPc>>
    BY <1>14 DEF GeneratorSubmit, SubmitEnqueue, SubmitCount, SubmitNotify, lifeVars
  <2> QED
    BY <1>g, <1>h, <2>1, <2>2
<1>15. ASSUME GeneratorContinue PROVE Control'
  <2>1. Generating
    BY <1>15 DEF GeneratorContinue
  <2>2. UNCHANGED <<mainPc, generator, generator_done, httpPc, stopPc>>
    BY <1>15 DEF GeneratorContinue, SubmitEnqueue, SubmitCount, SubmitNotify, lifeVars
  <2> QED
    BY <1>g, <1>h, <2>1, <2>2
<1>16. ASSUME GeneratorDone PROVE Control'
  <2>1. InSubmit' = InSubmit /\ stopPc' = stopPc
    BY <1>16, <1>v DEF GeneratorDone
  <2> QED
    BY <1>16, <1>g, <1>h, <2>1 DEF GeneratorDone
<1>17. ASSUME Interrupt PROVE Control'
  <2>1. InSubmit' = InSubmit /\ stopPc' = stopPc
    BY <1>17, <1>v DEF Interrupt
  <2> QED
    BY <1>17, <1>g, <1>h, <2>1 DEF Interrupt
<1>18. ASSUME ScrapeBegin PROVE Control'
  <2>1. InSubmit' = InSubmit /\ stopPc' = stopPc
    BY <1>18, <1>v DEF ScrapeBegin
  <2> QED
    BY <1>18, <1>g, <1>h, <2>1 DEF ScrapeBegin
<1>19. ASSUME ScrapeCompleted PROVE Control'
  <2>1. InSubmit' = InSubmit /\ stopPc' = stopPc
    BY <1>19, <1>v DEF ScrapeCompleted
  <2> QED
    BY <1>19, <1>g, <1>h, <2>1 DEF ScrapeCompleted
<1>20. ASSUME ScrapeQueued PROVE Control'
  <2>1. InSubmit' = InSubmit /\ stopPc' = stopPc
    BY <1>20, <1>v DEF ScrapeQueued
  <2> QED
    BY <1>20, <1>g, <1>h, <2>1 DEF ScrapeQueued
<1>21. ASSUME ScrapeMetrics PROVE Control'
  <2>1. InSubmit' = InSubmit /\ stopPc' = stopPc
    BY <1>21, <1>v DEF ScrapeMetrics
  <2> QED
    BY <1>21, <1>g, <1>h, <2>1 DEF ScrapeMetrics
<1>22. ASSUME ScrapeRender PROVE Control'
  <2>1. InSubmit' = InSubmit /\ stopPc' = stopPc
    BY <1>22, <1>v DEF ScrapeRender
  <2> QED
    BY <1>22, <1>g, <1>h, <2>1 DEF ScrapeRender
<1>23. ASSUME SchedulerStep PROVE Control'
  <2>1. submitPc' = submitPc
        /\ UNCHANGED <<mainPc, generator, generator_done, httpPc, stopPc>>
    BY <1>23, ThreadsSubmitNothing DEF submitVars
  <2> QED
    BY <1>s, <1>g, <1>h, <2>1
<1>24. CASE UNCHANGED daemonVars
  BY <1>24, <1>v, <1>g, <1>h DEF daemonVars
<1> QED
  BY <1>1, <1>2, <1>3, <1>4, <1>5, <1>6, <1>7, <1>8, <1>9, <1>10, <1>11,
     <1>12, <1>13, <1>14, <1>15, <1>16, <1>17, <1>18, <1>19, <1>20,
     <1>21, <1>22, <1>23, <1>24, DaemonCases

-----------------------------------------------------------------------------
(***************************************************************************)
(* The drain test.  Once the generator is done every submit() has          *)
(* returned, so the count of submissions no longer moves, and the count of *)
(* completions, whenever it was read, is no more than the records.         *)
(***************************************************************************)
AllDone == \A j \in Jobs : submitPc[j] = "done"

SeenRight ==
  \/ seen[1] = "completed" /\ seen[2] \in Nat /\ seen[2] =< completed_
  \/ seen[1] = "submitted" /\ seen[2] = submitted_

Draining ==
  /\ generator_done /\ ~g_interrupted => AllDone
  /\ mainPc = "compare" /\ ~g_interrupted => SeenRight
  /\ ExitsDrained

\* completed_ is no more than the records, submitted_ no more than the jobs.
LEMMA CountersBounded ==
  ASSUME IInv, CountersExact
  PROVE  /\ completed_ \in Nat /\ submitted_ \in Nat
         /\ completed_ =< Cardinality(Recorded)
         /\ submitted_ =< Cardinality(Submitted)
         /\ AllDone => submitted_ = Cardinality(Jobs)
<1>1. /\ Uncounted \in SUBSET Jobs /\ Recorded \in SUBSET Jobs
      /\ Announced \in SUBSET Jobs
  BY DEF Uncounted, Recorded, Announced
<1>2. /\ completed_ \in Nat /\ submitted_ \in Nat
      /\ Cardinality(Uncounted) \in Nat /\ Cardinality(Recorded) \in Nat
      /\ Cardinality(Jobs) \in Nat
  BY <1>1, CountNat DEF IInv, TypeOK
<1>3. Cardinality(Announced) =< Cardinality(Submitted)
  <2>1. Announced \subseteq Submitted /\ Submitted \subseteq Jobs
    BY DEF Announced, Submitted
  <2> QED
    BY <2>1, JobsAssumption, FS_Subset
<1>4. AllDone => Announced = Jobs
  BY DEF AllDone, Announced
<1> QED
  BY <1>2, <1>3, <1>4 DEF CountersExact

\* If as many jobs have completed as there are, all of them have records.
LEMMA EnoughCompleted ==
  ASSUME IInv, CountersExact, AllDone, completed_ >= submitted_
  PROVE  Recorded = Jobs
<1>1. Recorded \in SUBSET Jobs /\ Cardinality(Recorded) =< Cardinality(Jobs)
  BY JobsAssumption, FS_Subset DEF Recorded
<1>2. Cardinality(Recorded) \in Nat /\ Cardinality(Jobs) \in Nat
  BY <1>1, CountNat
<1>3. Cardinality(Recorded) = Cardinality(Jobs)
  BY <1>1, <1>2, CountersBounded
<1> QED
  BY <1>1, <1>3, JobsAssumption, FS_Subset

LEMMA DrainingInit == DaemonInit => Draining
BY DEF DaemonInit, Draining, ExitsDrained, Left

\* The steps that neither reach an end of the loop nor read for its test.
LEMMA DrainingKept ==
  ASSUME IInv, CountersExact, Draining, [Next]_vars,
         generator_done' /\ ~g_interrupted' => generator_done /\ ~g_interrupted,
         generator_done /\ ~g_interrupted => submitPc' = submitPc /\ submitted_' = submitted_,
         mainPc' = "compare" /\ ~g_interrupted' =>
           mainPc = "compare" /\ ~g_interrupted /\ seen' = seen /\ generator_done,
         Left' /\ ~g_interrupted' /\ ~BindFailed' =>
           Left /\ ~g_interrupted /\ ~BindFailed
  PROVE  Draining'
<1>1. /\ Recorded \subseteq Recorded' /\ completed_ =< completed_'
      /\ Recorded' \subseteq Jobs
      /\ completed_ \in Nat
      /\ TypeOK'
  BY RecordsGrow, TypeStep DEF IInv, Recorded, TypeOK
<1>2. completed_' \in Nat
  BY <1>1 DEF TypeOK
<1>3. generator_done' /\ ~g_interrupted' => AllDone'
  BY DEF Draining, AllDone
<1>4. mainPc' = "compare" /\ ~g_interrupted' => SeenRight'
  BY <1>1, <1>2 DEF Draining, SeenRight
<1>5. ExitsDrained'
  BY <1>1 DEF Draining, ExitsDrained
<1> QED
  BY <1>3, <1>4, <1>5 DEF Draining

LEMMA DrainingStep ==
  ASSUME IInv, CountersExact, Control, Draining, [DaemonNext]_daemonVars
  PROVE  Draining'
<1> USE DEF MainGoto, mainVars, httpVars
<1>n. [Next]_vars
  BY DaemonUses
<1>c. /\ InSubmit # {} => Generating
      /\ Generating => ~generator_done
      /\ mainPc \in {"start", "bind", "replay"} => generator = "none" /\ ~generator_done
      /\ mainPc \in {"queued", "first", "compare"} => generator_done
      /\ stopPc # "idle" => mainPc = "stopping"
  BY DEF Control, Generating
<1>l. /\ Left <=> mainPc \in {"join", "http", "http_join", "stop", "stopping", "exited"}
      /\ Left' <=> mainPc' \in {"join", "http", "http_join", "stop", "stopping", "exited"}
      /\ BindFailed <=> generator = "none" /\ ~generator_done
      /\ BindFailed' <=> generator' = "none" /\ ~generator_done'
  BY DEF Left, BindFailed
<1>v. UNCHANGED vars => submitPc' = submitPc /\ submitted_' = submitted_
  BY DEF vars, submitVars
<1>1. ASSUME MainStart PROVE Draining'
  <2>1. submitPc' = submitPc /\ submitted_' = submitted_
    BY <1>1 DEF MainStart, Start, submitVars
  <2> QED
    BY <1>1, <1>n, <1>c, <1>l, <2>1, DrainingKept DEF MainStart
<1>2. ASSUME MainBind PROVE Draining'
  BY <1>2, <1>n, <1>c, <1>l, <1>v, DrainingKept DEF MainBind
<1>3. ASSUME MainBindFails PROVE Draining'
  BY <1>3, <1>n, <1>c, <1>l, <1>v, DrainingKept DEF MainBindFails
<1>4. ASSUME MainHead PROVE Draining'
  BY <1>4, <1>n, <1>c, <1>l, <1>v, DrainingKept DEF MainHead
<1>5. ASSUME MainQueued PROVE Draining'
  BY <1>5, <1>n, <1>c, <1>l, <1>v, DrainingKept DEF MainQueued
<1>6. ASSUME MainReadFirst PROVE Draining'
  <2>1. /\ mainPc = "first" /\ mainPc' = "compare" /\ UNCHANGED vars
        /\ UNCHANGED <<generator, generator_done, g_interrupted>>
        /\ seen' \in {<<"completed", completed_>>, <<"submitted", submitted_>>}
    BY <1>6 DEF MainReadFirst
  <2>2. completed_ \in Nat /\ completed_' = completed_ /\ submitted_' = submitted_
    BY <2>1, <1>v, CountersBounded DEF vars, recordVars
  <2>3. SeenRight'
    BY <2>1, <2>2 DEF SeenRight
  <2>4. AllDone' <=> AllDone
    BY <2>1, <1>v DEF AllDone
  <2>5. ExitsDrained'
    BY <2>1, <1>l DEF ExitsDrained
  <2> QED
    BY <2>1, <2>3, <2>4, <2>5 DEF Draining
<1>7. ASSUME MainCompare PROVE Draining'
  <2>1. /\ mainPc = "compare" /\ mainPc' \in {"join", "head"} /\ UNCHANGED vars
        /\ UNCHANGED <<generator, generator_done, g_interrupted>>
    BY <1>7 DEF MainCompare
  <2>2. AllDone' <=> AllDone
    BY <2>1, <1>v DEF AllDone
  <2>3. Recorded' = Recorded
    BY <2>1 DEF vars, recordVars, Recorded
  <2>4. ASSUME mainPc' = "join", ~g_interrupted PROVE Recorded = Jobs
    <3>1. AllDone /\ SeenRight
      BY <2>1, <2>4, <1>c DEF Draining
    <3>2. completed_ >= submitted_
      <4>1. completed_ \in Nat /\ submitted_ \in Nat
        BY CountersBounded
      <4> QED
        BY <1>7, <2>4, <3>1, <4>1 DEF MainCompare, SeenRight
    <3> QED
      BY <3>1, <3>2, EnoughCompleted
  <2>5. ExitsDrained'
    BY <2>1, <2>3, <2>4, <1>l DEF ExitsDrained
  <2> QED
    BY <2>1, <2>2, <2>5 DEF Draining
<1>8. ASSUME MainJoin PROVE Draining'
  BY <1>8, <1>n, <1>c, <1>l, <1>v, DrainingKept DEF MainJoin
<1>9. ASSUME MainHttpStop PROVE Draining'
  BY <1>9, <1>n, <1>c, <1>l, <1>v, DrainingKept DEF MainHttpStop
<1>10. ASSUME MainHttpJoin PROVE Draining'
  BY <1>10, <1>n, <1>c, <1>l, <1>v, DrainingKept DEF MainHttpJoin
<1>11. ASSUME MainStop PROVE Draining'
  <2>1. submitPc' = submitPc /\ submitted_' = submitted_
    BY <1>11 DEF MainStop, StopFlag, submitVars
  <2> QED
    BY <1>11, <1>n, <1>c, <1>l, <2>1, DrainingKept DEF MainStop
<1>12. ASSUME MainStopNotify PROVE Draining'
  <2>1. submitPc' = submitPc /\ submitted_' = submitted_
    BY <1>12 DEF MainStopNotify, StopNotify, submitVars
  <2> QED
    BY <1>12, <1>n, <1>c, <1>l, <2>1, DrainingKept DEF MainStopNotify
<1>13. ASSUME MainStopJoin PROVE Draining'
  <2>1. submitPc' = submitPc /\ submitted_' = submitted_
    BY <1>13 DEF MainStopJoin, StopJoin, submitVars
  <2> QED
    BY <1>13, <1>n, <1>c, <1>l, <2>1, DrainingKept DEF MainStopJoin, StopJoin
<1>14. ASSUME GeneratorSubmit PROVE Draining'
  <2>1. ~generator_done
    BY <1>14, <1>c DEF GeneratorSubmit
  <2> QED
    BY <1>14, <1>n, <1>c, <1>l, <2>1, DrainingKept DEF GeneratorSubmit
<1>15. ASSUME GeneratorContinue PROVE Draining'
  <2>1. ~generator_done
    BY <1>15, <1>c DEF GeneratorContinue
  <2> QED
    BY <1>15, <1>n, <1>c, <1>l, <2>1, DrainingKept DEF GeneratorContinue
<1>16. ASSUME GeneratorDone PROVE Draining'
  <2>1. Generating /\ UNCHANGED <<vars, g_interrupted, seen>>
    BY <1>16 DEF GeneratorDone
  <2>2. ~g_interrupted => AllDone'
    <3>1. \A j \in Jobs : submitPc[j] \in SubmitPcs
      BY DEF IInv, TypeOK
    <3>2. ~g_interrupted => NewJobs = {} /\ InSubmit = {}
      BY <1>16 DEF GeneratorDone
    <3> QED
      BY <2>1, <3>1, <3>2, <1>v DEF AllDone, NewJobs, InSubmit, SubmitPcs
  <2>3. mainPc' # "compare"
    BY <1>16, <2>1, <1>c DEF GeneratorDone
  <2>4. Left' => Left /\ ~BindFailed
    BY <1>16, <2>1, <1>l DEF GeneratorDone, Generating
  <2>5. ExitsDrained'
    <3>1. Recorded' = Recorded
      BY <2>1 DEF vars, recordVars, Recorded
    <3> QED
      BY <2>1, <2>4, <3>1 DEF Draining, ExitsDrained
  <2> QED
    BY <2>1, <2>2, <2>3, <2>5 DEF Draining
<1>17. ASSUME Interrupt PROVE Draining'
  BY <1>17, <1>n, <1>c, <1>l, <1>v, DrainingKept DEF Interrupt
<1>18. ASSUME ScrapeBegin PROVE Draining'
  BY <1>18, <1>n, <1>c, <1>l, <1>v, DrainingKept DEF ScrapeBegin
<1>19. ASSUME ScrapeCompleted PROVE Draining'
  BY <1>19, <1>n, <1>c, <1>l, <1>v, DrainingKept DEF ScrapeCompleted
<1>20. ASSUME ScrapeQueued PROVE Draining'
  BY <1>20, <1>n, <1>c, <1>l, <1>v, DrainingKept DEF ScrapeQueued
<1>21. ASSUME ScrapeMetrics PROVE Draining'
  BY <1>21, <1>n, <1>c, <1>l, <1>v, DrainingKept DEF ScrapeMetrics
<1>22. ASSUME ScrapeRender PROVE Draining'
  BY <1>22, <1>n, <1>c, <1>l, <1>v, DrainingKept DEF ScrapeRender
<1>23. ASSUME SchedulerStep PROVE Draining'
  <2>1. /\ submitPc' = submitPc /\ submitted_' = submitted_
        /\ UNCHANGED <<mainPc, generator, generator_done, g_interrupted, seen>>
    BY <1>23, ThreadsSubmitNothing DEF submitVars
  <2> QED
    BY <1>n, <1>c, <1>l, <2>1, DrainingKept
<1>24. CASE UNCHANGED daemonVars
  BY <1>24, <1>n, <1>c, <1>l, <1>v, DrainingKept DEF daemonVars
<1> QED
  BY <1>1, <1>2, <1>3, <1>4, <1>5, <1>6, <1>7, <1>8, <1>9, <1>10, <1>11,
     <1>12, <1>13, <1>14, <1>15, <1>16, <1>17, <1>18, <1>19, <1>20,
     <1>21, <1>22, <1>23, <1>24, DaemonCases

-----------------------------------------------------------------------------
(***************************************************************************)
(* The status page.  Its counters are read at different moments, but each  *)
(* is bounded by something that only grows: the submissions by the jobs    *)
(* that have been pushed, the completions by the records.                  *)
(***************************************************************************)
Pages == [submitted : Nat, completed : Nat, queued : Nat, records : Nat]

Scraped ==
  /\ page \in Pages
  /\ httpPc \in {"completed", "queued"} => page.submitted =< Cardinality(Submitted)
  /\ httpPc \in {"queued", "metrics"} => page.completed =< Cardinality(Recorded)
  /\ PageHasRecords

LEMMA ScrapedInit == DaemonInit => Scraped
BY DEF DaemonInit, Scraped, Pages, BlankPage, PageHasRecords

\* A job that has been pushed stays submitted.
LEMMA SubmittedGrows ==
  ASSUME IInv, [DaemonNext]_daemonVars
  PROVE  Submitted \subseteq Submitted'
<1>1. submitPc \in [Jobs -> SubmitPcs]
  BY DEF IInv, TypeOK
<1>2. ASSUME submitPc' = submitPc PROVE Submitted \subseteq Submitted'
  BY <1>2 DEF Submitted
<1>3. ASSUME UNCHANGED vars PROVE Submitted \subseteq Submitted'
  BY <1>2, <1>3 DEF vars, submitVars
<1>4. CASE MainStart \/ MainStop \/ MainStopNotify \/ MainStopJoin
  <2>1. UNCHANGED submitVars
    BY <1>4 DEF MainStart, MainStop, MainStopNotify, MainStopJoin,
         Start, StopFlag, StopNotify, StopJoin
  <2> QED
    BY <1>2, <2>1 DEF submitVars
<1>5. CASE GeneratorSubmit
  <2>1. PICK j \in Jobs : SubmitEnqueue(j)
    BY <1>5, NextJob, Zenon DEF GeneratorSubmit
  <2> QED
    BY <1>1, <2>1 DEF SubmitEnqueue, Submitted
<1>6. CASE GeneratorContinue
  <2>1. PICK j \in Jobs : SubmitCount(j) \/ SubmitNotify(j)
    BY <1>6, Zenon DEF GeneratorContinue, InSubmit
  <2>2. submitPc' = [submitPc EXCEPT ![j] = "notify"]
        \/ submitPc' = [submitPc EXCEPT ![j] = "done"]
    BY <2>1 DEF SubmitCount, SubmitNotify
  <2> QED
    BY <1>1, <2>2 DEF Submitted
<1>7. CASE SchedulerStep
  BY <1>2, <1>7, ThreadsSubmitNothing DEF submitVars
<1>8. CASE \/ MainBind \/ MainBindFails \/ MainHead \/ MainQueued
           \/ MainReadFirst \/ MainCompare \/ MainJoin \/ MainHttpStop
           \/ MainHttpJoin \/ GeneratorDone \/ Interrupt \/ UNCHANGED daemonVars
           \/ ScrapeBegin \/ ScrapeCompleted \/ ScrapeQueued
           \/ ScrapeMetrics \/ ScrapeRender
  <2>1. UNCHANGED vars
    BY <1>8, Zenon
       DEF MainBind, MainBindFails, MainHead, MainQueued, MainReadFirst,
           MainCompare, MainJoin, MainHttpStop, MainHttpJoin, GeneratorDone,
           Interrupt, daemonVars, ScrapeBegin, ScrapeCompleted, ScrapeQueued,
           ScrapeMetrics, ScrapeRender
  <2> QED
    BY <1>3, <2>1
<1> QED
  BY <1>4, <1>5, <1>6, <1>7, <1>8, DaemonCases, Zenon

\* Both bounds of a page only grow.
LEMMA PageBoundsGrow ==
  ASSUME IInv, [DaemonNext]_daemonVars
  PROVE  /\ Cardinality(Recorded) \in Nat /\ Cardinality(Recorded') \in Nat
         /\ Cardinality(Submitted) \in Nat /\ Cardinality(Submitted') \in Nat
         /\ Cardinality(Recorded) =< Cardinality(Recorded')
         /\ Cardinality(Submitted) =< Cardinality(Submitted')
<1>1. /\ Recorded \in SUBSET Jobs /\ Recorded' \in SUBSET Jobs
      /\ Submitted \in SUBSET Jobs /\ Submitted' \in SUBSET Jobs
  BY DEF Recorded, Submitted
<1>2. Recorded \subseteq Recorded' /\ Submitted \subseteq Submitted'
  BY RecordsGrow, SubmittedGrows, DaemonUses DEF IInv
<1>3. IsFiniteSet(Recorded') /\ IsFiniteSet(Submitted')
  BY <1>1, JobsAssumption, FS_Subset
<1> QED
  BY <1>1, <1>2, <1>3, CountNat, FS_Subset

\* A step that reads nothing for the page.
LEMMA ScrapedKept ==
  ASSUME IInv, Scraped, [DaemonNext]_daemonVars, page' = page,
         httpPc' = httpPc \/ httpPc' \in {"idle", "off"}
  PROVE  Scraped'
<1>1. page.completed \in Nat /\ page.submitted \in Nat
  BY DEF Scraped, Pages
<1> QED
  BY <1>1, PageBoundsGrow DEF Scraped, PageHasRecords

LEMMA ScrapedStep ==
  ASSUME IInv, CountersExact, Scraped, [DaemonNext]_daemonVars
  PROVE  Scraped'
<1>n. [Next]_vars
  BY DaemonUses
<1>v. ASSUME UNCHANGED vars
      PROVE  Recorded' = Recorded /\ Submitted' = Submitted
  BY <1>v DEF vars, recordVars, submitVars, Recorded, Submitted
<1>r. Cardinality(Recorded) \in Nat
  BY PageBoundsGrow
<1>1. CASE \/ MainStart \/ MainBind \/ MainBindFails \/ MainHead \/ MainQueued
           \/ MainReadFirst \/ MainCompare \/ MainJoin \/ MainHttpStop
           \/ MainHttpJoin \/ MainStop \/ MainStopNotify \/ MainStopJoin
           \/ GeneratorSubmit \/ GeneratorContinue \/ GeneratorDone
           \/ Interrupt \/ SchedulerStep \/ UNCHANGED daemonVars
  <2>1. /\ page' = page
        /\ httpPc' = httpPc \/ httpPc' \in {"idle", "off"}
    BY <1>1 DEF MainStart, MainBind, MainBindFails, MainHead, MainQueued,
         MainReadFirst, MainCompare, MainJoin, MainHttpStop, MainHttpJoin,
         MainStop, MainStopNotify, MainStopJoin, GeneratorSubmit,
         GeneratorContinue, GeneratorDone, Interrupt, SchedulerStep,
         daemonVars, httpVars
  <2> QED
    BY <1>n, <2>1, ScrapedKept
<1>2. ASSUME ScrapeBegin PROVE Scraped'
  <2>1. /\ page' = [page EXCEPT !.submitted = submitted_]
        /\ httpPc' = "completed" /\ Submitted' = Submitted
    BY <1>2, <1>v DEF ScrapeBegin
  <2>2. submitted_ \in Nat /\ submitted_ =< Cardinality(Submitted)
    BY CountersBounded
  <2> QED
    BY <2>1, <2>2 DEF Scraped, Pages, PageHasRecords
<1>3. ASSUME ScrapeCompleted PROVE Scraped'
  <2>1. /\ page' = [page EXCEPT !.completed = completed_]
        /\ httpPc = "completed" /\ httpPc' = "queued"
        /\ Recorded' = Recorded /\ Submitted' = Submitted
    BY <1>3, <1>v DEF ScrapeCompleted
  <2>2. completed_ \in Nat /\ completed_ =< Cardinality(Recorded)
    BY CountersBounded
  <2> QED
    BY <2>1, <2>2 DEF Scraped, Pages, PageHasRecords
<1>4. ASSUME ScrapeQueued PROVE Scraped'
  <2>1. /\ page' = [page EXCEPT !.queued = Cardinality(queue_)]
        /\ httpPc = "queued" /\ httpPc' = "metrics" /\ Recorded' = Recorded
    BY <1>4, <1>v DEF ScrapeQueued
  <2>2. Cardinality(queue_) \in Nat
    BY CountNat DEF IInv, TypeOK
  <2> QED
    BY <2>1, <2>2 DEF Scraped, Pages, PageHasRecords
<1>5. ASSUME ScrapeMetrics PROVE Scraped'
  <2>1. /\ page' = [page EXCEPT !.records = Cardinality(Recorded)]
        /\ httpPc = "metrics" /\ httpPc' = "render"
    BY <1>5 DEF ScrapeMetrics
  <2> QED
    BY <1>r, <2>1 DEF Scraped, Pages, PageHasRecords
<1>6. ASSUME ScrapeRender PROVE Scraped'
  <2>1. page' = BlankPage /\ httpPc' = "idle"
    BY <1>6 DEF ScrapeRender
  <2> QED
    BY <1>r, <2>1 DEF Scraped, Pages, PageHasRecords, BlankPage
<1> QED
  BY <1>1, <1>2, <1>3, <1>4, <1>5, <1>6, DaemonCases

-----------------------------------------------------------------------------
(***************************************************************************)
(* The daemon's invariant, on top of what the scheduler promises.          *)
(***************************************************************************)
DaemonInv == Control /\ Draining /\ Scraped

\* What the theorems of SchedulerProofs say of the scheduler in the daemon.
LEMMA SchedulerInside == DaemonSpec => [](IInv /\ CountersExact)
BY DaemonRunsScheduler, InvariantHolds, CountersHold, PTL

LEMMA DaemonInvHolds == DaemonSpec => []DaemonInv
<1>1. DaemonInit => DaemonInv
  BY ControlInit, DrainingInit, ScrapedInit DEF DaemonInv
<1>2. IInv /\ CountersExact /\ DaemonInv /\ [DaemonNext]_daemonVars => DaemonInv'
  BY ControlStep, DrainingStep, ScrapedStep DEF DaemonInv, IInv
<1> QED
  BY <1>1, <1>2, SchedulerInside, PTL DEF DaemonSpec

\* main() leaves its drain loop by itself only with every job submitted and
\* recorded (the loop's test on sched.queued(), completed() and submitted()),
\* whatever the jobs did and in whichever order the counters were read.
THEOREM DrainLoopLeavesNothing == DaemonSpec => []ExitsDrained
<1>1. DaemonInv => ExitsDrained
  BY DEF DaemonInv, Draining
<1> QED
  BY <1>1, DaemonInvHolds, PTL

\* While stop() joins the scheduler's threads, and after it, no submit() and
\* no scrape is under way: main() has joined the generator and the HTTP thread.
THEOREM NobodyUsesAStoppedScheduler == DaemonSpec => []StopIsExclusive
<1>1. DaemonInv => StopIsExclusive
  BY DEF DaemonInv, Control, StopIsExclusive, Generating
<1> QED
  BY <1>1, DaemonInvHolds, PTL

\* The gauge of executing jobs on a page of /metrics and the completed jobs on it
\* are together at most the jobs that submit() has pushed and that are out of
\* queue_ when the handler reads the depth: no waiting job is taken for a running one.
THEOREM GaugeExcludesWaiting == DaemonSpec => GaugeCountsTakenJobs
<1> DEFINE Gauge ==
      httpPc = "queued" /\ httpPc' = "metrics"
        => Dispatched' + page'.completed =< Cardinality(Submitted \ queue_)
<1>1. ASSUME IInv, CountersExact, Scraped, [DaemonNext]_daemonVars,
             httpPc = "queued", httpPc' = "metrics"
      PROVE  Dispatched' + page'.completed =< Cardinality(Submitted \ queue_)
  <2>1. page' = [page EXCEPT !.queued = Cardinality(queue_)]
    <3>1. CASE ScrapeQueued
      BY <3>1 DEF ScrapeQueued
    <3>2. CASE ~ScrapeQueued
      BY <1>1, <3>2, DaemonCases
         DEF MainStart, MainBind, MainBindFails, MainHead, MainQueued,
             MainReadFirst, MainCompare, MainJoin, MainHttpStop, MainHttpJoin,
             MainStop, MainStopNotify, MainStopJoin, GeneratorSubmit,
             GeneratorContinue, GeneratorDone, Interrupt, SchedulerStep,
             ScrapeBegin, ScrapeCompleted, ScrapeMetrics, ScrapeRender,
             daemonVars, httpVars
    <3> QED
      BY <3>1, <3>2
  <2>2. /\ page.submitted \in Nat /\ page.completed \in Nat
        /\ page.submitted =< Cardinality(Submitted)
        /\ page.completed =< Cardinality(Recorded)
    BY <1>1 DEF Scraped, Pages
  <2>3. queue_ \subseteq Submitted /\ Recorded \subseteq Submitted \ queue_
    BY <1>1 DEF IInv, JobsConserved, Somewhere
  <2>4. /\ queue_ \in SUBSET Jobs /\ Recorded \in SUBSET Jobs
        /\ (Submitted \ queue_) \in SUBSET Jobs
    BY <2>3 DEF Submitted, Recorded
  <2>5. Cardinality(Submitted) = Cardinality(queue_) + Cardinality(Submitted \ queue_)
    <3>1. queue_ \cap (Submitted \ queue_) = {} /\ queue_ \cup (Submitted \ queue_) = Submitted
      BY <2>3
    <3> QED
      BY <2>4, <3>1, CountUnion
  <2>6. Cardinality(Recorded) =< Cardinality(Submitted \ queue_)
    <3>1. IsFiniteSet(Submitted \ queue_)
      BY <2>4, JobsAssumption, FS_Subset
    <3> QED
      BY <2>3, <3>1, FS_Subset
  <2>7. /\ Cardinality(queue_) \in Nat /\ Cardinality(Recorded) \in Nat
        /\ Cardinality(Submitted \ queue_) \in Nat
    BY <2>4, CountNat
  <2>8. /\ page'.submitted = page.submitted /\ page'.completed = page.completed
        /\ page'.queued = Cardinality(queue_)
    BY <1>1, <2>1 DEF Scraped, Pages
  <2> QED
    BY <2>2, <2>5, <2>6, <2>7, <2>8 DEF Dispatched
<1>2. IInv /\ CountersExact /\ DaemonInv /\ [DaemonNext]_daemonVars => [Gauge]_daemonVars
  BY <1>1 DEF DaemonInv
<1>3. DaemonSpec => [][Gauge]_daemonVars
  BY <1>2, DaemonInvHolds, SchedulerInside, PTL DEF DaemonSpec
<1> QED
  BY <1>3 DEF GaugeCountsTakenJobs

\* A /metrics page counts no completed job it has no record of: execute_batch
\* writes the records before the counter, the handler reads them after it.
THEOREM PagesAreComplete == DaemonSpec => []PageHasRecords
<1>1. DaemonInv => PageHasRecords
  BY DEF DaemonInv, Scraped
<1> QED
  BY <1>1, DaemonInvHolds, PTL
=============================================================================
