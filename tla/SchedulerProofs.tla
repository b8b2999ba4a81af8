--------------------------- MODULE SchedulerProofs ---------------------------
(***************************************************************************)
(* Theorems about Scheduler, for every number of jobs and workers, every   *)
(* job size and every option.                                              *)
(***************************************************************************)
EXTENDS Scheduler, PackingProofs

-----------------------------------------------------------------------------
(***************************************************************************)
(* The steps of the scheduler, for proofs by cases on Next.                *)
(***************************************************************************)
LEMMA StepCases ==
  ASSUME Next
  PROVE  \/ \E j \in Jobs : SubmitEnqueue(j)
         \/ \E j \in Jobs : SubmitCount(j)
         \/ \E j \in Jobs : SubmitNotify(j)
         \/ Start
         \/ StopFlag
         \/ StopNotify
         \/ StopJoin
         \/ \E t \in Threads : WaitBlock(t)
         \/ \E t \in Threads : WaitSleep(t)
         \/ \E t \in Threads : SpuriousWakeup(t)
         \/ DispatcherSpace
         \/ DispatcherQuit
         \/ DispatcherDrain
         \/ DispatcherNoGpu
         \/ DispatcherReject
         \/ DispatcherSample
         \/ DispatcherPack
         \/ DispatcherRequeue
         \/ DispatcherReserve
         \/ DispatcherPush
         \/ DispatcherNotify
         \/ \E w \in Workers : WorkerTake(w)
         \/ \E w \in Workers : WorkerQuit(w)
         \/ \E w \in Workers : WorkerNotifySpace(w)
         \/ \E w \in Workers : WorkerNoGpu(w)
         \/ \E w \in Workers : WorkerFail(w)
         \/ \E w \in Workers : WorkerThrow(w)
         \/ \E w \in Workers : WorkerSucceed(w)
         \/ \E w \in Workers : WorkerCount(w)
         \/ \E w \in Workers : WorkerRelease(w)
         \/ UNCHANGED vars
BY Zenon DEF Next, SubmitStep, StopStep, DispatcherStep, WorkerStep, WaitStep,
             Threads, Idle

-----------------------------------------------------------------------------
(***************************************************************************)
(* Type correctness.                                                       *)
(***************************************************************************)

\* fail_batch and a successful batch append Boolean flags to the records.
LEMMA RecordType ==
  ASSUME TypeOK, NEW S \in SUBSET Jobs, NEW ok \in BOOLEAN, Record(S, ok)
  PROVE  metrics_' \in [Jobs -> Seq(BOOLEAN)]
<1>1. \A j \in Jobs : metrics_[j] \in Seq(BOOLEAN)
  BY DEF TypeOK
<1>2. \A j \in Jobs : Append(metrics_[j], ok) \in Seq(BOOLEAN)
  BY <1>1
<1> QED
  BY <1>1, <1>2, Zenon DEF Record

LEMMA FailBatchType ==
  ASSUME TypeOK, NEW S \in SUBSET Jobs, FailBatch(S)
  PROVE  metrics_' \in [Jobs -> Seq(BOOLEAN)] /\ completed_' \in Nat
<1>1. Cardinality(S) \in Nat /\ completed_ \in Nat
  BY CountNat DEF TypeOK
<1>2. Record(S, FALSE) /\ completed_' = completed_ + Cardinality(S)
  BY DEF FailBatch
<1>3. FALSE \in BOOLEAN
  OBVIOUS
<1>4. metrics_' \in [Jobs -> Seq(BOOLEAN)]
  BY <1>2, <1>3, RecordType, Zenon
<1> QED
  BY <1>1, <1>2, <1>4

\* The clamp keeps reserved_bytes_ unsigned.
LEMMA ReleaseType ==
  ASSUME TypeOK, NEW w \in Workers, Release(w)
  PROVE  reserved_bytes_' \in Nat /\ batch' \in [Workers -> SUBSET Jobs]
<1>1. Need(batch[w]) \in Nat /\ reserved_bytes_ \in Nat
  BY NeedNat DEF TypeOK
<1>2. reserved_bytes_' \in Nat
  BY <1>1 DEF Release
<1>3. batch' \in [Workers -> SUBSET Jobs]
  BY DEF Release, TypeOK
<1> QED
  BY <1>2, <1>3

LEMMA TypeInit == Init => TypeOK
<1> SUFFICES ASSUME Init PROVE TypeOK
  OBVIOUS
<1>1. <<>> \in Seq(SUBSET Jobs) /\ <<>> \in Seq(BOOLEAN)
  OBVIOUS
<1>2. metrics_ \in [Jobs -> Seq(BOOLEAN)]
  BY <1>1, Zenon DEF Init
<1>3. batch_queue_ \in Seq(SUBSET Jobs)
  BY <1>1 DEF Init
<1>4. /\ pc \in [Threads -> DispatcherPcs \cup WorkerPcs]
      /\ pc[Dispatcher] \in DispatcherPcs
      /\ \A w \in Workers : pc[w] \in WorkerPcs
      /\ nap \in [Threads -> {"awake", "blocking", "asleep"}]
  BY DEF Init, Threads, DispatcherPcs, WorkerPcs
<1>5. /\ seq \in [Jobs -> Nat]
      /\ submitPc \in [Jobs -> SubmitPcs]
      /\ batch \in [Workers -> SUBSET Jobs]
  BY DEF Init, SubmitPcs
<1>6. /\ started_ \in BOOLEAN /\ shutdown_ \in BOOLEAN
      /\ gpu_absent_ \in BOOLEAN /\ terminated \in BOOLEAN
  BY Zenon DEF Init
<1>7. /\ starts \in 0..MaxStarts /\ stops \in 0..MaxStops
      /\ next_seq_ \in Nat /\ submitted_ \in Nat /\ base \in Nat
      /\ reserved_bytes_ \in Nat /\ completed_ \in Nat
      /\ rejected_jobs_ \in Nat /\ stopPc \in StopPcs
  BY SchedulerAssumption DEF Init, StopPcs
<1>8. /\ queue_ \subseteq Jobs /\ candidates \subseteq Jobs
      /\ selected \subseteq Jobs /\ remaining \subseteq Jobs
  BY DEF Init
<1> QED
  BY <1>2, <1>3, <1>4, <1>5, <1>6, <1>7, <1>8, Zenon DEF TypeOK

LEMMA TypeStep ==
  ASSUME TypeOK, [Next]_vars
  PROVE  TypeOK'
<1> USE SchedulerAssumption
    DEF TypeOK, Threads, SubmitPcs, DispatcherPcs, WorkerPcs, StopPcs,
        submitVars, packVars, batchVars, recordVars, lifeVars
<1>1. ASSUME NEW j \in Jobs, SubmitEnqueue(j) PROVE TypeOK'
  <2>1. seq' \in [Jobs -> Nat] /\ next_seq_' \in Nat
    BY <1>1 DEF SubmitEnqueue
  <2>2. queue_' \subseteq Jobs /\ submitPc' \in [Jobs -> SubmitPcs]
    BY <1>1 DEF SubmitEnqueue
  <2>3. UNCHANGED <<submitted_, pc, nap, packVars, batchVars, recordVars, lifeVars>>
    BY <1>1 DEF SubmitEnqueue
  <2> QED
    BY <2>1, <2>2, <2>3
<1>2. ASSUME NEW j \in Jobs, SubmitCount(j) PROVE TypeOK'
  BY <1>2 DEF SubmitCount
<1>3. ASSUME NEW j \in Jobs, SubmitNotify(j) PROVE TypeOK'
  <2>1. nap' \in [Threads -> {"awake", "blocking", "asleep"}]
    BY <1>3 DEF SubmitNotify, NotifyOne, Asleep
  <2>2. submitPc' \in [Jobs -> SubmitPcs]
    BY <1>3 DEF SubmitNotify
  <2> QED
    BY <1>3, <2>1, <2>2 DEF SubmitNotify
<1>4. ASSUME Start PROVE TypeOK'
  <2>1. /\ started_' \in BOOLEAN
        /\ shutdown_' \in BOOLEAN
        /\ gpu_absent_' \in BOOLEAN
    BY <1>4, Zenon DEF Start
  <2>2. /\ pc' \in [Threads -> DispatcherPcs \cup WorkerPcs]
        /\ pc'[Dispatcher] \in DispatcherPcs
        /\ \A w \in Workers : pc'[w] \in WorkerPcs
    BY <1>4 DEF Start
  <2>3. starts' \in 0..MaxStarts
    BY <1>4 DEF Start
  <2> QED
    BY <1>4, <2>1, <2>2, <2>3 DEF Start
<1>5. ASSUME StopFlag PROVE TypeOK'
  BY <1>5 DEF StopFlag
<1>6. ASSUME StopNotify PROVE TypeOK'
  <2>1. stopPc' \in StopPcs
    BY <1>6 DEF StopNotify
  <2>2. nap' \in [Threads -> {"awake", "blocking", "asleep"}]
    BY <1>6 DEF StopNotify, NotifyAll, Asleep
  <2> QED
    BY <1>6, <2>1, <2>2 DEF StopNotify
<1>7. ASSUME StopJoin PROVE TypeOK'
  BY <1>7 DEF StopJoin
<1>8. ASSUME NEW t \in Threads, WaitBlock(t) PROVE TypeOK'
  BY <1>8 DEF WaitBlock
<1>9. ASSUME NEW t \in Threads, WaitSleep(t) PROVE TypeOK'
  BY <1>9 DEF WaitSleep
<1>10. ASSUME NEW t \in Threads, SpuriousWakeup(t) PROVE TypeOK'
  BY <1>10 DEF SpuriousWakeup
<1>11. ASSUME DispatcherSpace PROVE TypeOK'
  BY <1>11 DEF DispatcherSpace, PassesWait, Goto
<1>12. ASSUME DispatcherQuit PROVE TypeOK'
  BY <1>12 DEF DispatcherQuit, PassesWait, Goto
<1>13. ASSUME DispatcherDrain PROVE TypeOK'
  BY <1>13 DEF DispatcherDrain, PassesWait, Goto
<1>14. ASSUME DispatcherNoGpu PROVE TypeOK'
  <2>1. FailBatch(candidates)
    BY <1>14 DEF DispatcherNoGpu
  <2>2. candidates \in SUBSET Jobs
    OBVIOUS
  <2>3. metrics_' \in [Jobs -> Seq(BOOLEAN)] /\ completed_' \in Nat
    BY <2>1, <2>2, FailBatchType, Zenon
  <2> QED
    BY <1>14, <2>3 DEF DispatcherNoGpu, Goto
<1>15. ASSUME DispatcherReject PROVE TypeOK'
  <2>1. FailBatch(Oversized)
    BY <1>15 DEF DispatcherReject
  <2>2. Oversized \in SUBSET Jobs
    BY DEF Oversized
  <2>3. metrics_' \in [Jobs -> Seq(BOOLEAN)] /\ completed_' \in Nat
    BY <2>1, <2>2, FailBatchType, Zenon
  <2>4. rejected_jobs_' \in Nat
    BY <1>15, <2>2, CountNat DEF DispatcherReject
  <2> QED
    BY <1>15, <2>3, <2>4 DEF DispatcherReject, Goto
<1>16. ASSUME DispatcherSample PROVE TypeOK'
  BY <1>16 DEF DispatcherSample, BaseBudget, Goto
<1>17. ASSUME DispatcherPack PROVE TypeOK'
  BY <1>17 DEF DispatcherPack, Packs, Goto
<1>18. ASSUME DispatcherRequeue PROVE TypeOK'
  BY <1>18 DEF DispatcherRequeue, Goto
<1>19. ASSUME DispatcherReserve PROVE TypeOK'
  BY <1>19, NeedNat DEF DispatcherReserve, Goto
<1>20. ASSUME DispatcherPush PROVE TypeOK'
  BY <1>20 DEF DispatcherPush, Goto
<1>21. ASSUME DispatcherNotify PROVE TypeOK'
  BY <1>21 DEF DispatcherNotify, NotifyOne, Asleep, Goto
<1>22. ASSUME NEW w \in Workers, WorkerTake(w) PROVE TypeOK'
  BY <1>22 DEF WorkerTake, PassesWait, Goto
<1>23. ASSUME NEW w \in Workers, WorkerQuit(w) PROVE TypeOK'
  BY <1>23 DEF WorkerQuit, PassesWait, Goto
<1>24. ASSUME NEW w \in Workers, WorkerNotifySpace(w) PROVE TypeOK'
  BY <1>24 DEF WorkerNotifySpace, NotifyOne, Asleep, Goto
<1>25. ASSUME NEW w \in Workers, WorkerNoGpu(w) PROVE TypeOK'
  <2>1. FailBatch(batch[w])
    BY <1>25 DEF WorkerNoGpu
  <2>2. batch[w] \in SUBSET Jobs
    OBVIOUS
  <2>3. metrics_' \in [Jobs -> Seq(BOOLEAN)] /\ completed_' \in Nat
    BY <2>1, <2>2, FailBatchType, Zenon
  <2> QED
    BY <1>25, <2>3 DEF WorkerNoGpu, Goto
<1>26. ASSUME NEW w \in Workers, WorkerFail(w) PROVE TypeOK'
  <2>1. FailBatch(batch[w])
    BY <1>26 DEF WorkerFail
  <2>2. batch[w] \in SUBSET Jobs
    OBVIOUS
  <2>3. metrics_' \in [Jobs -> Seq(BOOLEAN)] /\ completed_' \in Nat
    BY <2>1, <2>2, FailBatchType, Zenon
  <2> QED
    BY <1>26, <2>3 DEF WorkerFail, Goto
<1>27. ASSUME NEW w \in Workers, WorkerThrow(w) PROVE TypeOK'
  <2>1. reserved_bytes_' \in Nat /\ batch' \in [Workers -> SUBSET Jobs]
    BY <1>27, ReleaseType DEF WorkerThrow
  <2> QED
    BY <1>27, <2>1 DEF WorkerThrow, Goto
<1>28. ASSUME NEW w \in Workers, WorkerSucceed(w) PROVE TypeOK'
  <2>1. metrics_' \in [Jobs -> Seq(BOOLEAN)]
    BY <1>28, RecordType DEF WorkerSucceed
  <2> QED
    BY <1>28, <2>1 DEF WorkerSucceed, Goto
<1>29. ASSUME NEW w \in Workers, WorkerCount(w) PROVE TypeOK'
  <2>1. completed_' \in Nat
    BY <1>29, CountNat DEF WorkerCount
  <2> QED
    BY <1>29, <2>1 DEF WorkerCount, Goto
<1>30. ASSUME NEW w \in Workers, WorkerRelease(w) PROVE TypeOK'
  <2>1. reserved_bytes_' \in Nat /\ batch' \in [Workers -> SUBSET Jobs]
    BY <1>30, ReleaseType DEF WorkerRelease
  <2> QED
    BY <1>30, <2>1 DEF WorkerRelease, Goto
<1>31. CASE UNCHANGED vars
  BY <1>31 DEF vars
<1> QED
  BY <1>1, <1>2, <1>3, <1>4, <1>5, <1>6, <1>7, <1>8, <1>9, <1>10, <1>11,
     <1>12, <1>13, <1>14, <1>15, <1>16, <1>17, <1>18, <1>19, <1>20,
     <1>21, <1>22, <1>23, <1>24, <1>25, <1>26, <1>27, <1>28, <1>29,
     <1>30, <1>31, StepCases

\* Every variable keeps its type, whatever the threads and clients do.
THEOREM TypeCorrect == Spec => []TypeOK
<1>1. TypeOK /\ [Next]_vars => TypeOK'
  BY TypeStep
<1> QED
  BY TypeInit, <1>1, PTL DEF Spec

-----------------------------------------------------------------------------
(***************************************************************************)
(* The inductive invariant.  Scopes says when the dispatcher's locals and  *)
(* a worker's batch may be non-empty, and that a worker that is past the   *)
(* outcome of its batch has recorded it.  BudgetKept carries the budget    *)
(* from the sample to the reservation: other threads only release bytes in *)
(* between, so a budget that is stale by then is too small, never too big. *)
(***************************************************************************)
Scopes ==
  /\ candidates # {} => pc[Dispatcher] \in {"triage", "sample", "pack"}
  /\ selected # {} => pc[Dispatcher] \in {"requeue", "reserve", "push"}
  /\ remaining # {} => pc[Dispatcher] = "requeue"
  /\ \A w \in Workers :
       batch[w] # {} => pc[w] \in {"notify_space", "run", "count", "release"}
  /\ \A w \in Workers :
       pc[w] \in {"count", "release"} => batch[w] \subseteq Recorded
  /\ ~started_ => \A t \in Threads : pc[t] = "exited"

BudgetKept ==
  /\ pc[Dispatcher] = "pack" => base =< Capacity
  /\ pc[Dispatcher] \in {"requeue", "reserve"} =>
       reserved_bytes_ + Need(selected) =< Capacity
  /\ reserved_bytes_ =< Capacity

IInv == TypeOK /\ Scopes /\ JobsConserved /\ ReservationExact /\ BudgetKept

\* A record makes its jobs recorded and adds one entry to each of them.
LEMMA RecordEffect ==
  ASSUME TypeOK, NEW S \in SUBSET Jobs, NEW ok \in BOOLEAN, Record(S, ok)
  PROVE  /\ Recorded' = Recorded \cup S
         /\ \A j \in Jobs \ S : Len(metrics_'[j]) = Len(metrics_[j])
         /\ \A j \in S : Len(metrics_'[j]) = Len(metrics_[j]) + 1
<1>1. \A j \in Jobs : metrics_[j] \in Seq(BOOLEAN)
  BY DEF TypeOK
<1>2. \A j \in S : metrics_'[j] = Append(metrics_[j], ok)
  BY DEF Record
<1>3. \A j \in Jobs \ S : metrics_'[j] = metrics_[j]
  BY DEF Record
<1>4. \A j \in S : /\ Len(metrics_'[j]) = Len(metrics_[j]) + 1
                  /\ metrics_'[j] # <<>>
  BY <1>1, <1>2
<1>5. Recorded' = Recorded \cup S
  BY <1>3, <1>4 DEF Recorded
<1> QED
  BY <1>3, <1>4, <1>5

LEMMA FailBatchEffect ==
  ASSUME TypeOK, NEW S \in SUBSET Jobs, FailBatch(S)
  PROVE  /\ Recorded' = Recorded \cup S
         /\ \A j \in Jobs \ S : Len(metrics_'[j]) = Len(metrics_[j])
         /\ \A j \in S : Len(metrics_'[j]) = Len(metrics_[j]) + 1
<1>1. FALSE \in BOOLEAN
  OBVIOUS
<1> QED
  BY <1>1, RecordEffect, Zenon DEF FailBatch

LEMMA ScopesInit == Init => Scopes
BY DEF Init, Scopes, Threads

LEMMA ScopesStep ==
  ASSUME TypeOK, Scopes, [Next]_vars
  PROVE  Scopes'
<1> USE SchedulerAssumption
    DEF Scopes, Threads,
        submitVars, packVars, batchVars, recordVars, lifeVars
<1>1. ASSUME NEW j \in Jobs, SubmitEnqueue(j) PROVE Scopes'
  <2>1. Recorded' = Recorded
    BY <1>1 DEF SubmitEnqueue, Recorded
  <2> QED
    BY <1>1, <2>1 DEF TypeOK, SubmitEnqueue
<1>2. ASSUME NEW j \in Jobs, SubmitCount(j) PROVE Scopes'
  <2>1. Recorded' = Recorded
    BY <1>2 DEF SubmitCount, Recorded
  <2> QED
    BY <1>2, <2>1 DEF TypeOK, SubmitCount
<1>3. ASSUME NEW j \in Jobs, SubmitNotify(j) PROVE Scopes'
  <2>1. Recorded' = Recorded
    BY <1>3 DEF SubmitNotify, Recorded
  <2> QED
    BY <1>3, <2>1 DEF TypeOK, SubmitNotify, NotifyOne, Asleep
<1>4. ASSUME Start PROVE Scopes'
  <2>1. Recorded' = Recorded
    BY <1>4 DEF Start, Recorded
  <2> QED
    BY <1>4, <2>1 DEF TypeOK, Start
<1>5. ASSUME StopFlag PROVE Scopes'
  <2>1. Recorded' = Recorded
    BY <1>5 DEF StopFlag, Recorded
  <2> QED
    BY <1>5, <2>1 DEF TypeOK, StopFlag
<1>6. ASSUME StopNotify PROVE Scopes'
  <2>1. Recorded' = Recorded
    BY <1>6 DEF StopNotify, Recorded
  <2> QED
    BY <1>6, <2>1 DEF TypeOK, StopNotify, NotifyAll, Asleep
<1>7. ASSUME StopJoin PROVE Scopes'
  <2>1. Recorded' = Recorded
    BY <1>7 DEF StopJoin, Recorded
  <2> QED
    BY <1>7, <2>1 DEF TypeOK, StopJoin
<1>8. ASSUME NEW t \in Threads, WaitBlock(t) PROVE Scopes'
  <2>1. Recorded' = Recorded
    BY <1>8 DEF WaitBlock, Recorded
  <2> QED
    BY <1>8, <2>1 DEF TypeOK, WaitBlock
<1>9. ASSUME NEW t \in Threads, WaitSleep(t) PROVE Scopes'
  <2>1. Recorded' = Recorded
    BY <1>9 DEF WaitSleep, Recorded
  <2> QED
    BY <1>9, <2>1 DEF TypeOK, WaitSleep
<1>10. ASSUME NEW t \in Threads, SpuriousWakeup(t) PROVE Scopes'
  <2>1. Recorded' = Recorded
    BY <1>10 DEF SpuriousWakeup, Recorded
  <2> QED
    BY <1>10, <2>1 DEF TypeOK, SpuriousWakeup
<1>11. ASSUME DispatcherSpace PROVE Scopes'
  <2>1. Recorded' = Recorded
    BY <1>11 DEF DispatcherSpace, Recorded
  <2> QED
    BY <1>11, <2>1 DEF TypeOK, DispatcherSpace, PassesWait, Goto
<1>12. ASSUME DispatcherQuit PROVE Scopes'
  <2>1. Recorded' = Recorded
    BY <1>12 DEF DispatcherQuit, Recorded
  <2> QED
    BY <1>12, <2>1 DEF TypeOK, DispatcherQuit, PassesWait, Goto
<1>13. ASSUME DispatcherDrain PROVE Scopes'
  <2>1. Recorded' = Recorded
    BY <1>13 DEF DispatcherDrain, Recorded
  <2> QED
    BY <1>13, <2>1 DEF TypeOK, DispatcherDrain, PassesWait, Goto
<1>14. ASSUME DispatcherNoGpu PROVE Scopes'
  <2>1. candidates \in SUBSET Jobs
    BY DEF TypeOK
  <2>2. Recorded' = Recorded \cup candidates
    BY <1>14, <2>1, FailBatchEffect DEF DispatcherNoGpu
  <2> QED
    BY <1>14, <2>2 DEF TypeOK, DispatcherNoGpu, Goto
<1>15. ASSUME DispatcherReject PROVE Scopes'
  <2>1. Oversized \in SUBSET Jobs
    BY DEF TypeOK, Oversized
  <2>2. Recorded' = Recorded \cup Oversized
    BY <1>15, <2>1, FailBatchEffect DEF DispatcherReject
  <2> QED
    BY <1>15, <2>2 DEF TypeOK, DispatcherReject, Goto
<1>16. ASSUME DispatcherSample PROVE Scopes'
  <2>1. Recorded' = Recorded
    BY <1>16 DEF DispatcherSample, BaseBudget, Recorded
  <2> QED
    BY <1>16, <2>1 DEF TypeOK, DispatcherSample, BaseBudget, Goto
<1>17. ASSUME DispatcherPack PROVE Scopes'
  <2>1. Recorded' = Recorded
    BY <1>17 DEF DispatcherPack, Recorded
  <2> QED
    BY <1>17, <2>1 DEF TypeOK, DispatcherPack, Packs, Goto
<1>18. ASSUME DispatcherRequeue PROVE Scopes'
  <2>1. Recorded' = Recorded
    BY <1>18 DEF DispatcherRequeue, Recorded
  <2> QED
    BY <1>18, <2>1 DEF TypeOK, DispatcherRequeue, Goto
<1>19. ASSUME DispatcherReserve PROVE Scopes'
  <2>1. Recorded' = Recorded
    BY <1>19 DEF DispatcherReserve, Recorded
  <2> QED
    BY <1>19, <2>1 DEF TypeOK, DispatcherReserve, Goto
<1>20. ASSUME DispatcherPush PROVE Scopes'
  <2>1. Recorded' = Recorded
    BY <1>20 DEF DispatcherPush, Recorded
  <2> QED
    BY <1>20, <2>1 DEF TypeOK, DispatcherPush, Goto
<1>21. ASSUME DispatcherNotify PROVE Scopes'
  <2>1. Recorded' = Recorded
    BY <1>21 DEF DispatcherNotify, Recorded
  <2> QED
    BY <1>21, <2>1 DEF TypeOK, DispatcherNotify, NotifyOne, Asleep, Goto
<1>22. ASSUME NEW w \in Workers, WorkerTake(w) PROVE Scopes'
  <2>1. Recorded' = Recorded
    BY <1>22 DEF WorkerTake, Recorded
  <2> QED
    BY <1>22, <2>1 DEF TypeOK, WorkerTake, PassesWait, Goto
<1>23. ASSUME NEW w \in Workers, WorkerQuit(w) PROVE Scopes'
  <2>1. Recorded' = Recorded
    BY <1>23 DEF WorkerQuit, Recorded
  <2> QED
    BY <1>23, <2>1 DEF TypeOK, WorkerQuit, PassesWait, Goto
<1>24. ASSUME NEW w \in Workers, WorkerNotifySpace(w) PROVE Scopes'
  <2>1. Recorded' = Recorded
    BY <1>24 DEF WorkerNotifySpace, Recorded
  <2> QED
    BY <1>24, <2>1 DEF TypeOK, WorkerNotifySpace, NotifyOne, Asleep, Goto
<1>25. ASSUME NEW w \in Workers, WorkerNoGpu(w) PROVE Scopes'
  <2>1. batch[w] \in SUBSET Jobs
    BY DEF TypeOK
  <2>2. Recorded' = Recorded \cup batch[w]
    BY <1>25, <2>1, FailBatchEffect DEF WorkerNoGpu
  <2> QED
    BY <1>25, <2>2 DEF TypeOK, WorkerNoGpu, Goto
<1>26. ASSUME NEW w \in Workers, WorkerFail(w) PROVE Scopes'
  <2>1. batch[w] \in SUBSET Jobs
    BY DEF TypeOK
  <2>2. Recorded' = Recorded \cup batch[w]
    BY <1>26, <2>1, FailBatchEffect DEF WorkerFail
  <2> QED
    BY <1>26, <2>2 DEF TypeOK, WorkerFail, Goto
<1>27. ASSUME NEW w \in Workers, WorkerThrow(w) PROVE Scopes'
  <2>1. Recorded' = Recorded
    BY <1>27 DEF WorkerThrow, Recorded
  <2> QED
    BY <1>27, <2>1 DEF TypeOK, WorkerThrow, Release
<1>28. ASSUME NEW w \in Workers, WorkerSucceed(w) PROVE Scopes'
  <2>1. batch[w] \in SUBSET Jobs
    BY DEF TypeOK
  <2>2. Recorded' = Recorded \cup batch[w]
    BY <1>28, <2>1, RecordEffect DEF WorkerSucceed
  <2> QED
    BY <1>28, <2>2 DEF TypeOK, WorkerSucceed, Goto
<1>29. ASSUME NEW w \in Workers, WorkerCount(w) PROVE Scopes'
  <2>1. Recorded' = Recorded
    BY <1>29 DEF WorkerCount, Recorded
  <2> QED
    BY <1>29, <2>1 DEF TypeOK, WorkerCount, Goto
<1>30. ASSUME NEW w \in Workers, WorkerRelease(w) PROVE Scopes'
  <2>1. Recorded' = Recorded
    BY <1>30 DEF WorkerRelease, Recorded
  <2> QED
    BY <1>30, <2>1 DEF TypeOK, WorkerRelease, Release, Goto
<1>31. CASE UNCHANGED vars
  BY <1>31 DEF vars, Recorded
<1> QED
  BY <1>1, <1>2, <1>3, <1>4, <1>5, <1>6, <1>7, <1>8, <1>9, <1>10, <1>11,
     <1>12, <1>13, <1>14, <1>15, <1>16, <1>17, <1>18, <1>19, <1>20,
     <1>21, <1>22, <1>23, <1>24, <1>25, <1>26, <1>27, <1>28, <1>29,
     <1>30, <1>31, StepCases

-----------------------------------------------------------------------------
(***************************************************************************)
(* No job is lost, duplicated or recorded twice.                           *)
(***************************************************************************)

\* push_back: the pushed jobs join the waiting ones.
LEMMA BatchedPush ==
  ASSUME TypeOK, NEW S \in SUBSET Jobs, batch_queue_' = Append(batch_queue_, S)
  PROVE  /\ Batched' = Batched \cup S
         /\ Len(batch_queue_') = Len(batch_queue_) + 1
         /\ \A i \in 1..Len(batch_queue_) : batch_queue_'[i] = batch_queue_[i]
         /\ batch_queue_'[Len(batch_queue_) + 1] = S
<1>1. batch_queue_ \in Seq(SUBSET Jobs)
  BY DEF TypeOK
<1>2. /\ Len(batch_queue_') = Len(batch_queue_) + 1
      /\ \A i \in 1..Len(batch_queue_) : batch_queue_'[i] = batch_queue_[i]
      /\ batch_queue_'[Len(batch_queue_) + 1] = S
  BY <1>1
<1>3. Len(batch_queue_) \in Nat
  BY <1>1
<1>4. Batched' = Batched \cup S
  BY <1>2, <1>3 DEF Batched
<1> QED
  BY <1>2, <1>4

\* pop_front: the first batch leaves the waiting ones.
LEMMA BatchedPop ==
  ASSUME TypeOK, JobsConserved, batch_queue_ # <<>>,
         batch_queue_' = Tail(batch_queue_)
  PROVE  /\ Head(batch_queue_) \in SUBSET Jobs
         /\ Batched = Head(batch_queue_) \cup Batched'
         /\ Head(batch_queue_) \cap Batched' = {}
         /\ \A i, k \in 1..Len(batch_queue_') :
              i # k => batch_queue_'[i] \cap batch_queue_'[k] = {}
<1>1. batch_queue_ \in Seq(SUBSET Jobs)
  BY DEF TypeOK
<1>2. /\ Len(batch_queue_) \in Nat
      /\ Len(batch_queue_') = Len(batch_queue_) - 1
      /\ Len(batch_queue_) > 0
      /\ \A i \in 1..Len(batch_queue_') : batch_queue_'[i] = batch_queue_[i + 1]
      /\ Head(batch_queue_) = batch_queue_[1]
      /\ batch_queue_[1] \in SUBSET Jobs
  BY <1>1
<1>3. \A i \in 1..Len(batch_queue_') : i + 1 \in 1..Len(batch_queue_)
  BY <1>2
<1>4. \A i, k \in 1..Len(batch_queue_') :
        i # k => batch_queue_'[i] \cap batch_queue_'[k] = {}
  BY <1>2, <1>3 DEF JobsConserved
<1>5. \A i \in 1..Len(batch_queue_') :
        batch_queue_[1] \cap batch_queue_'[i] = {}
  BY <1>2, <1>3 DEF JobsConserved
<1>6. batch_queue_[1] \cap Batched' = {}
  BY <1>5 DEF Batched
<1>7. \A i \in 1..Len(batch_queue_) :
        i = 1 \/ (i - 1 \in 1..Len(batch_queue_')
                  /\ batch_queue_[i] = batch_queue_'[i - 1])
  BY <1>2
<1>8. Batched \subseteq batch_queue_[1] \cup Batched'
  BY <1>7 DEF Batched
<1>9. batch_queue_[1] \cup Batched' \subseteq Batched
  BY <1>2, <1>3 DEF Batched
<1> QED
  BY <1>2, <1>4, <1>6, <1>8, <1>9

\* The first three conjuncts of JobsConserved, which say that containers do
\* not overlap inside themselves.
NoOverlap ==
  /\ \A j \in Jobs : Len(metrics_[j]) =< 1
  /\ \A i, k \in 1..Len(batch_queue_) :
       i # k => batch_queue_[i] \cap batch_queue_[k] = {}
  /\ \A v, w \in Workers : v # w => batch[v] \cap batch[w] = {}

\* The rest, which says where each job is.
OnePlace ==
  /\ queue_ \cap (candidates \cup selected \cup remaining \cup Batched
                  \cup Executing \cup Recorded) = {}
  /\ candidates \cap (selected \cup remaining \cup Batched \cup Executing
                      \cup Recorded) = {}
  /\ selected \cap (remaining \cup Batched \cup Executing \cup Recorded) = {}
  /\ remaining \cap (Batched \cup Executing \cup Recorded) = {}
  /\ Batched \cap (Executing \cup Recorded) = {}
  /\ Executing \cap Recorded = {}
  /\ Somewhere \subseteq Submitted
  /\ ~terminated => Submitted \subseteq Somewhere

LEMMA ConservedParts == JobsConserved <=> NoOverlap /\ OnePlace
BY DEF JobsConserved, NoOverlap, OnePlace

\* Recording jobs that have no record yet gives each of them one.
LEMMA OneRecordEach ==
  ASSUME TypeOK, NoOverlap, NEW S \in SUBSET Jobs, S \cap Recorded = {},
         \A j \in Jobs \ S : Len(metrics_'[j]) = Len(metrics_[j]),
         \A j \in S : Len(metrics_'[j]) = Len(metrics_[j]) + 1
  PROVE  \A j \in Jobs : Len(metrics_'[j]) =< 1
<1>1. \A j \in S : Len(metrics_[j]) = 0
  BY DEF Recorded
<1> QED
  BY <1>1 DEF NoOverlap

\* What a worker holds is waiting for its outcome or already has it.
LEMMA HeldJobs ==
  ASSUME TypeOK, Scopes, NEW w \in Workers
  PROVE  /\ pc[w] \in {"notify_space", "run"} => batch[w] \subseteq Executing
         /\ batch[w] \subseteq Executing \cup Recorded
BY DEF TypeOK, Scopes, Executing

LEMMA ConservedInit == Init => JobsConserved
<1> SUFFICES ASSUME Init PROVE JobsConserved
  OBVIOUS
<1>1. Submitted = {} /\ Recorded = {} /\ Batched = {} /\ Executing = {}
  BY DEF Init, Submitted, Recorded, Batched, Executing
<1>2. NoOverlap
  BY DEF Init, NoOverlap
<1>3. OnePlace
  BY <1>1 DEF Init, OnePlace, Somewhere
<1> QED
  BY <1>2, <1>3, ConservedParts

LEMMA ConservedStep ==
  ASSUME TypeOK, Scopes, JobsConserved, [Next]_vars
  PROVE  JobsConserved'
<1> USE SchedulerAssumption
    DEF Threads, submitVars, packVars, batchVars, recordVars, lifeVars
<1>a. NoOverlap /\ OnePlace
  BY ConservedParts
<1>b. (NoOverlap' /\ OnePlace') => JobsConserved'
  BY DEF JobsConserved, NoOverlap, OnePlace
\* Steps that move no job.
<1>c. ASSUME UNCHANGED <<queue_, candidates, selected, remaining,
                         batch_queue_, metrics_>>,
             Submitted' = Submitted, Executing' = Executing,
             terminated' = terminated,
             \A w \in Workers : batch'[w] \subseteq batch[w]
      PROVE  JobsConserved'
  <2>1. Recorded' = Recorded /\ Batched' = Batched
    BY <1>c DEF Recorded, Batched
  <2>2. NoOverlap'
    BY <1>a, <1>c DEF NoOverlap
  <2>3. OnePlace'
    BY <1>a, <1>c, <2>1 DEF OnePlace, Somewhere
  <2> QED
    BY <2>2, <2>3, <1>b
<1>1. ASSUME NEW j \in Jobs, SubmitEnqueue(j) PROVE JobsConserved'
  <2>1. j \in Jobs \ Submitted
    BY <1>1 DEF Submitted, SubmitEnqueue
  <2>2. Submitted' = Submitted \cup {j}
    BY <1>1 DEF TypeOK, Submitted, SubmitEnqueue
  <2>3. Recorded' = Recorded /\ Batched' = Batched /\ Executing' = Executing
    BY <1>1 DEF Recorded, Batched, Executing, SubmitEnqueue
  <2>8. NoOverlap'
    BY <1>a, <1>1 DEF NoOverlap, SubmitEnqueue
  <2>9. OnePlace'
    BY <1>a, <1>1, <2>1, <2>2, <2>3 DEF OnePlace, Somewhere, SubmitEnqueue
  <2> QED
    BY <2>8, <2>9, <1>b
<1>2. ASSUME NEW j \in Jobs, SubmitCount(j) PROVE JobsConserved'
  <2>1. Submitted' = Submitted
    BY <1>2 DEF TypeOK, Submitted, SubmitCount
  <2>2. Executing' = Executing
    BY <1>2 DEF TypeOK, Scopes, Executing, SubmitCount
  <2> QED
    BY <1>2, <2>1, <2>2, <1>c DEF TypeOK, SubmitCount
<1>3. ASSUME NEW j \in Jobs, SubmitNotify(j) PROVE JobsConserved'
  <2>1. Submitted' = Submitted
    BY <1>3 DEF TypeOK, Submitted, SubmitNotify
  <2>2. Executing' = Executing
    BY <1>3 DEF TypeOK, Scopes, Executing, SubmitNotify, NotifyOne, Asleep
  <2> QED
    BY <1>3, <2>1, <2>2, <1>c DEF TypeOK, SubmitNotify, NotifyOne, Asleep
<1>4. ASSUME Start PROVE JobsConserved'
  <2>1. Submitted' = Submitted
    BY <1>4 DEF Submitted, Start
  <2>2. Executing' = Executing
    BY <1>4 DEF TypeOK, Scopes, Executing, Start
  <2> QED
    BY <1>4, <2>1, <2>2, <1>c DEF TypeOK, Start
<1>5. ASSUME StopFlag PROVE JobsConserved'
  <2>1. Submitted' = Submitted
    BY <1>5 DEF Submitted, StopFlag
  <2>2. Executing' = Executing
    BY <1>5 DEF TypeOK, Scopes, Executing, StopFlag
  <2> QED
    BY <1>5, <2>1, <2>2, <1>c DEF TypeOK, StopFlag
<1>6. ASSUME StopNotify PROVE JobsConserved'
  <2>1. Submitted' = Submitted
    BY <1>6 DEF Submitted, StopNotify
  <2>2. Executing' = Executing
    BY <1>6 DEF TypeOK, Scopes, Executing, StopNotify, NotifyAll, Asleep
  <2> QED
    BY <1>6, <2>1, <2>2, <1>c DEF TypeOK, StopNotify, NotifyAll, Asleep
<1>7. ASSUME StopJoin PROVE JobsConserved'
  <2>1. Submitted' = Submitted
    BY <1>7 DEF Submitted, StopJoin
  <2>2. Executing' = Executing
    BY <1>7 DEF TypeOK, Scopes, Executing, StopJoin
  <2> QED
    BY <1>7, <2>1, <2>2, <1>c DEF TypeOK, StopJoin
<1>8. ASSUME NEW t \in Threads, WaitBlock(t) PROVE JobsConserved'
  <2>1. Submitted' = Submitted
    BY <1>8 DEF Submitted, WaitBlock
  <2>2. Executing' = Executing
    BY <1>8 DEF TypeOK, Scopes, Executing, WaitBlock
  <2> QED
    BY <1>8, <2>1, <2>2, <1>c DEF TypeOK, WaitBlock
<1>9. ASSUME NEW t \in Threads, WaitSleep(t) PROVE JobsConserved'
  <2>1. Submitted' = Submitted
    BY <1>9 DEF Submitted, WaitSleep
  <2>2. Executing' = Executing
    BY <1>9 DEF TypeOK, Scopes, Executing, WaitSleep
  <2> QED
    BY <1>9, <2>1, <2>2, <1>c DEF TypeOK, WaitSleep
<1>10. ASSUME NEW t \in Threads, SpuriousWakeup(t) PROVE JobsConserved'
  <2>1. Submitted' = Submitted
    BY <1>10 DEF Submitted, SpuriousWakeup
  <2>2. Executing' = Executing
    BY <1>10 DEF TypeOK, Scopes, Executing, SpuriousWakeup
  <2> QED
    BY <1>10, <2>1, <2>2, <1>c DEF TypeOK, SpuriousWakeup
<1>11. ASSUME DispatcherSpace PROVE JobsConserved'
  <2>1. Submitted' = Submitted
    BY <1>11 DEF Submitted, DispatcherSpace
  <2>2. Executing' = Executing
    BY <1>11 DEF TypeOK, Scopes, Executing, DispatcherSpace, PassesWait, Goto
  <2> QED
    BY <1>11, <2>1, <2>2, <1>c DEF TypeOK, DispatcherSpace, PassesWait, Goto
<1>12. ASSUME DispatcherQuit PROVE JobsConserved'
  <2>1. Submitted' = Submitted
    BY <1>12 DEF Submitted, DispatcherQuit
  <2>2. Executing' = Executing
    BY <1>12 DEF TypeOK, Scopes, Executing, DispatcherQuit, PassesWait, Goto
  <2> QED
    BY <1>12, <2>1, <2>2, <1>c DEF TypeOK, DispatcherQuit, PassesWait, Goto
<1>13. ASSUME DispatcherDrain PROVE JobsConserved'
  <2>1. candidates = {}
    BY <1>13 DEF Scopes, DispatcherDrain, PassesWait
  <2>2. Submitted' = Submitted /\ Recorded' = Recorded /\ Batched' = Batched
    BY <1>13 DEF Submitted, Recorded, Batched, DispatcherDrain
  <2>3. Executing' = Executing
    BY <1>13 DEF TypeOK, Executing, DispatcherDrain, Goto
  <2>8. NoOverlap'
    BY <1>a, <1>13 DEF NoOverlap, DispatcherDrain
  <2>9. OnePlace'
    BY <1>a, <1>13, <2>1, <2>2, <2>3 DEF OnePlace, Somewhere, DispatcherDrain
  <2> QED
    BY <2>8, <2>9, <1>b
<1>14. ASSUME DispatcherNoGpu PROVE JobsConserved'
  <2>1. candidates \in SUBSET Jobs /\ candidates \cap Recorded = {}
    BY <1>a DEF TypeOK, OnePlace
  <2>2. /\ Recorded' = Recorded \cup candidates
        /\ \A j \in Jobs \ candidates : Len(metrics_'[j]) = Len(metrics_[j])
        /\ \A j \in candidates : Len(metrics_'[j]) = Len(metrics_[j]) + 1
    BY <1>14, <2>1, FailBatchEffect, Zenon DEF DispatcherNoGpu
  <2>3. \A j \in Jobs : Len(metrics_'[j]) =< 1
    BY <1>a, <2>1, <2>2, OneRecordEach, Zenon
  <2>4. Submitted' = Submitted /\ Batched' = Batched
    BY <1>14 DEF Submitted, Batched, DispatcherNoGpu
  <2>5. Executing' = Executing
    BY <1>14 DEF TypeOK, Executing, DispatcherNoGpu, Goto
  <2>8. NoOverlap'
    BY <1>a, <1>14, <2>3 DEF NoOverlap, DispatcherNoGpu
  <2>9. OnePlace'
    BY <1>a, <1>14, <2>2, <2>4, <2>5 DEF OnePlace, Somewhere, DispatcherNoGpu
  <2> QED
    BY <2>8, <2>9, <1>b
<1>15. ASSUME DispatcherReject PROVE JobsConserved'
  <2>1. /\ Oversized \in SUBSET Jobs
        /\ Oversized \subseteq candidates
        /\ Oversized \cap Recorded = {}
    BY <1>a DEF TypeOK, OnePlace, Oversized
  <2>2. /\ Recorded' = Recorded \cup Oversized
        /\ \A j \in Jobs \ Oversized : Len(metrics_'[j]) = Len(metrics_[j])
        /\ \A j \in Oversized : Len(metrics_'[j]) = Len(metrics_[j]) + 1
    BY <1>15, <2>1, FailBatchEffect, Zenon DEF DispatcherReject
  <2>3. \A j \in Jobs : Len(metrics_'[j]) =< 1
    BY <1>a, <2>1, <2>2, OneRecordEach, Zenon
  <2>4. Submitted' = Submitted /\ Batched' = Batched
    BY <1>15 DEF Submitted, Batched, DispatcherReject
  <2>5. Executing' = Executing
    BY <1>15 DEF TypeOK, Executing, DispatcherReject, Goto
  <2>6. candidates' = candidates \ Oversized
    BY <1>15 DEF DispatcherReject
  <2>8. NoOverlap'
    BY <1>a, <1>15, <2>3 DEF NoOverlap, DispatcherReject
  <2>9. OnePlace'
    BY <1>a, <1>15, <2>1, <2>2, <2>4, <2>5, <2>6
       DEF OnePlace, Somewhere, DispatcherReject
  <2> QED
    BY <2>8, <2>9, <1>b
<1>16. ASSUME DispatcherSample PROVE JobsConserved'
  <2>1. Submitted' = Submitted
    BY <1>16 DEF Submitted, DispatcherSample, BaseBudget
  <2>2. Executing' = Executing
    BY <1>16 DEF TypeOK, Scopes, Executing, DispatcherSample, BaseBudget, Goto
  <2> QED
    BY <1>16, <2>1, <2>2, <1>c DEF TypeOK, DispatcherSample, BaseBudget, Goto
<1>17. ASSUME DispatcherPack PROVE JobsConserved'
  <2>1. selected = {} /\ remaining = {}
    BY <1>17 DEF Scopes, DispatcherPack
  <2>2. PICK S \in SUBSET candidates :
          selected' = S /\ remaining' = candidates \ S
    BY <1>17 DEF DispatcherPack
  <2>3. Submitted' = Submitted /\ Recorded' = Recorded /\ Batched' = Batched
    BY <1>17 DEF Submitted, Recorded, Batched, DispatcherPack
  <2>4. Executing' = Executing
    BY <1>17 DEF TypeOK, Executing, DispatcherPack, Goto
  <2>5. candidates' = {} /\ queue_' = queue_ /\ terminated' = terminated
    BY <1>17 DEF DispatcherPack
  <2>8. NoOverlap'
    BY <1>a, <1>17 DEF NoOverlap, DispatcherPack
  <2>9. OnePlace'
    BY <1>a, <2>1, <2>2, <2>3, <2>4, <2>5 DEF OnePlace, Somewhere
  <2> QED
    BY <2>8, <2>9, <1>b
<1>18. ASSUME DispatcherRequeue PROVE JobsConserved'
  <2>1. Submitted' = Submitted /\ Recorded' = Recorded /\ Batched' = Batched
    BY <1>18 DEF Submitted, Recorded, Batched, DispatcherRequeue
  <2>2. Executing' = Executing
    BY <1>18 DEF TypeOK, Executing, DispatcherRequeue, Goto
  <2>8. NoOverlap'
    BY <1>a, <1>18 DEF NoOverlap, DispatcherRequeue
  <2>9. OnePlace'
    BY <1>a, <1>18, <2>1, <2>2 DEF OnePlace, Somewhere, DispatcherRequeue
  <2> QED
    BY <2>8, <2>9, <1>b
<1>19. ASSUME DispatcherReserve PROVE JobsConserved'
  <2>1. Submitted' = Submitted
    BY <1>19 DEF Submitted, DispatcherReserve
  <2>2. Executing' = Executing
    BY <1>19 DEF TypeOK, Scopes, Executing, DispatcherReserve, Goto
  <2> QED
    BY <1>19, <2>1, <2>2, <1>c DEF TypeOK, DispatcherReserve, Goto
<1>20. ASSUME DispatcherPush PROVE JobsConserved'
  <2>1. selected \in SUBSET Jobs /\ selected \cap Batched = {}
    BY <1>a DEF TypeOK, OnePlace
  <2>2. /\ Batched' = Batched \cup selected
        /\ Len(batch_queue_') = Len(batch_queue_) + 1
        /\ \A i \in 1..Len(batch_queue_) : batch_queue_'[i] = batch_queue_[i]
        /\ batch_queue_'[Len(batch_queue_) + 1] = selected
    BY <1>20, <2>1, BatchedPush DEF DispatcherPush
  <2>3. Submitted' = Submitted /\ Recorded' = Recorded
    BY <1>20 DEF Submitted, Recorded, DispatcherPush
  <2>4. Executing' = Executing
    BY <1>20 DEF TypeOK, Executing, DispatcherPush, Goto
  <2>5. \A i \in 1..Len(batch_queue_) : batch_queue_[i] \cap selected = {}
    BY <2>1 DEF Batched
  <2>6. Len(batch_queue_) \in Nat
    BY DEF TypeOK
  <2>7. \A i, k \in 1..Len(batch_queue_') :
          i # k => batch_queue_'[i] \cap batch_queue_'[k] = {}
    BY <1>a, <2>2, <2>5, <2>6 DEF NoOverlap
  <2>8. NoOverlap'
    BY <1>a, <1>20, <2>7 DEF NoOverlap, DispatcherPush
  <2>9. OnePlace'
    BY <1>a, <1>20, <2>2, <2>3, <2>4 DEF OnePlace, Somewhere, DispatcherPush
  <2> QED
    BY <2>8, <2>9, <1>b
<1>21. ASSUME DispatcherNotify PROVE JobsConserved'
  <2>1. Submitted' = Submitted
    BY <1>21 DEF Submitted, DispatcherNotify
  <2>2. Executing' = Executing
    BY <1>21 DEF TypeOK, Scopes, Executing, DispatcherNotify, NotifyOne, Asleep, Goto
  <2> QED
    BY <1>21, <2>1, <2>2, <1>c DEF TypeOK, DispatcherNotify, NotifyOne, Asleep, Goto
<1>22. ASSUME NEW w \in Workers, WorkerTake(w) PROVE JobsConserved'
  <2>1. /\ Head(batch_queue_) \in SUBSET Jobs
        /\ Batched = Head(batch_queue_) \cup Batched'
        /\ Head(batch_queue_) \cap Batched' = {}
        /\ \A i, k \in 1..Len(batch_queue_') :
             i # k => batch_queue_'[i] \cap batch_queue_'[k] = {}
    BY <1>22, BatchedPop DEF WorkerTake
  <2>2. batch[w] = {} /\ pc[w] = "take" /\ pc'[w] = "notify_space"
    BY <1>22 DEF TypeOK, Scopes, WorkerTake, PassesWait, Goto
  <2>3. \A v \in Workers \ {w} : batch'[v] = batch[v] /\ pc'[v] = pc[v]
    BY <1>22 DEF TypeOK, WorkerTake, Goto
  <2>4. batch'[w] = Head(batch_queue_)
    BY <1>22 DEF TypeOK, WorkerTake
  <2>5. Executing' = Executing \cup Head(batch_queue_)
    BY <2>1, <2>2, <2>3, <2>4 DEF Executing
  <2>6. Submitted' = Submitted /\ Recorded' = Recorded
    BY <1>22 DEF Submitted, Recorded, WorkerTake
  <2>7. \A v \in Workers : batch[v] \cap Head(batch_queue_) = {}
    BY <1>a, <2>1, HeldJobs DEF OnePlace
  <2>8. NoOverlap'
    BY <1>a, <1>22, <2>1, <2>3, <2>4, <2>7 DEF NoOverlap, WorkerTake
  <2>9. OnePlace'
    BY <1>a, <1>22, <2>1, <2>5, <2>6 DEF OnePlace, Somewhere, WorkerTake
  <2> QED
    BY <2>8, <2>9, <1>b
<1>23. ASSUME NEW w \in Workers, WorkerQuit(w) PROVE JobsConserved'
  <2>1. Submitted' = Submitted
    BY <1>23 DEF Submitted, WorkerQuit
  <2>2. Executing' = Executing
    BY <1>23 DEF TypeOK, Scopes, Executing, WorkerQuit, PassesWait, Goto
  <2> QED
    BY <1>23, <2>1, <2>2, <1>c DEF TypeOK, WorkerQuit, PassesWait, Goto
<1>24. ASSUME NEW w \in Workers, WorkerNotifySpace(w) PROVE JobsConserved'
  <2>1. Submitted' = Submitted
    BY <1>24 DEF Submitted, WorkerNotifySpace
  <2>2. Executing' = Executing
    BY <1>24 DEF TypeOK, Scopes, Executing, WorkerNotifySpace, NotifyOne, Asleep, Goto
  <2> QED
    BY <1>24, <2>1, <2>2, <1>c DEF TypeOK, WorkerNotifySpace, NotifyOne, Asleep, Goto
<1>25. ASSUME NEW w \in Workers, WorkerNoGpu(w) PROVE JobsConserved'
  <2>1. batch[w] \in SUBSET Jobs /\ pc[w] = "run"
    BY <1>25 DEF TypeOK, WorkerNoGpu
  <2>2. batch[w] \subseteq Executing /\ batch[w] \cap Recorded = {}
    BY <1>a, <2>1, HeldJobs DEF OnePlace
  <2>3. /\ Recorded' = Recorded \cup batch[w]
        /\ \A j \in Jobs \ batch[w] : Len(metrics_'[j]) = Len(metrics_[j])
        /\ \A j \in batch[w] : Len(metrics_'[j]) = Len(metrics_[j]) + 1
    BY <1>25, <2>1, FailBatchEffect, Zenon DEF WorkerNoGpu
  <2>4. \A j \in Jobs : Len(metrics_'[j]) =< 1
    BY <1>a, <2>1, <2>2, <2>3, OneRecordEach, Zenon
  <2>5. Submitted' = Submitted /\ Batched' = Batched
    BY <1>25 DEF Submitted, Batched, WorkerNoGpu
  <2>6. Executing' = Executing \ batch[w]
    BY <1>a, <1>25 DEF TypeOK, NoOverlap, Executing, WorkerNoGpu, Goto
  <2>8. NoOverlap'
    BY <1>a, <1>25, <2>4 DEF NoOverlap, WorkerNoGpu
  <2>9. OnePlace'
    BY <1>a, <1>25, <2>2, <2>3, <2>5, <2>6 DEF OnePlace, Somewhere, WorkerNoGpu
  <2> QED
    BY <2>8, <2>9, <1>b
<1>26. ASSUME NEW w \in Workers, WorkerFail(w) PROVE JobsConserved'
  <2>1. batch[w] \in SUBSET Jobs /\ pc[w] = "run"
    BY <1>26 DEF TypeOK, WorkerFail
  <2>2. batch[w] \subseteq Executing /\ batch[w] \cap Recorded = {}
    BY <1>a, <2>1, HeldJobs DEF OnePlace
  <2>3. /\ Recorded' = Recorded \cup batch[w]
        /\ \A j \in Jobs \ batch[w] : Len(metrics_'[j]) = Len(metrics_[j])
        /\ \A j \in batch[w] : Len(metrics_'[j]) = Len(metrics_[j]) + 1
    BY <1>26, <2>1, FailBatchEffect, Zenon DEF WorkerFail
  <2>4. \A j \in Jobs : Len(metrics_'[j]) =< 1
    BY <1>a, <2>1, <2>2, <2>3, OneRecordEach, Zenon
  <2>5. Submitted' = Submitted /\ Batched' = Batched
    BY <1>26 DEF Submitted, Batched, WorkerFail
  <2>6. Executing' = Executing \ batch[w]
    BY <1>a, <1>26 DEF TypeOK, NoOverlap, Executing, WorkerFail, Goto
  <2>8. NoOverlap'
    BY <1>a, <1>26, <2>4 DEF NoOverlap, WorkerFail
  <2>9. OnePlace'
    BY <1>a, <1>26, <2>2, <2>3, <2>5, <2>6 DEF OnePlace, Somewhere, WorkerFail
  <2> QED
    BY <2>8, <2>9, <1>b
<1>27. ASSUME NEW w \in Workers, WorkerThrow(w) PROVE JobsConserved'
  <2>1. pc[w] = "run" /\ pc' = pc
    BY <1>27 DEF WorkerThrow
  <2>2. batch' = [batch EXCEPT ![w] = {}]
    BY <1>27 DEF WorkerThrow, Release
  <2>3. Executing' \subseteq Executing
    BY <2>1, <2>2 DEF TypeOK, Executing
  <2>4. Submitted' = Submitted /\ Recorded' = Recorded /\ Batched' = Batched
    BY <1>27 DEF Submitted, Recorded, Batched, WorkerThrow
  <2>8. NoOverlap'
    BY <1>a, <1>27, <2>2 DEF TypeOK, NoOverlap, WorkerThrow
  <2>9. OnePlace'
    BY <1>a, <1>27, <2>3, <2>4 DEF OnePlace, Somewhere, WorkerThrow
  <2> QED
    BY <2>8, <2>9, <1>b
<1>28. ASSUME NEW w \in Workers, WorkerSucceed(w) PROVE JobsConserved'
  <2>1. batch[w] \in SUBSET Jobs /\ pc[w] = "run"
    BY <1>28 DEF TypeOK, WorkerSucceed
  <2>2. batch[w] \subseteq Executing /\ batch[w] \cap Recorded = {}
    BY <1>a, <2>1, HeldJobs DEF OnePlace
  <2>3. /\ Recorded' = Recorded \cup batch[w]
        /\ \A j \in Jobs \ batch[w] : Len(metrics_'[j]) = Len(metrics_[j])
        /\ \A j \in batch[w] : Len(metrics_'[j]) = Len(metrics_[j]) + 1
    BY <1>28, <2>1, RecordEffect DEF WorkerSucceed
  <2>4. \A j \in Jobs : Len(metrics_'[j]) =< 1
    BY <1>a, <2>1, <2>2, <2>3, OneRecordEach, Zenon
  <2>5. Submitted' = Submitted /\ Batched' = Batched
    BY <1>28 DEF Submitted, Batched, WorkerSucceed
  <2>6. Executing' = Executing \ batch[w]
    BY <1>a, <1>28 DEF TypeOK, NoOverlap, Executing, WorkerSucceed, Goto
  <2>8. NoOverlap'
    BY <1>a, <1>28, <2>4 DEF NoOverlap, WorkerSucceed
  <2>9. OnePlace'
    BY <1>a, <1>28, <2>2, <2>3, <2>5, <2>6 DEF OnePlace, Somewhere, WorkerSucceed
  <2> QED
    BY <2>8, <2>9, <1>b
<1>29. ASSUME NEW w \in Workers, WorkerCount(w) PROVE JobsConserved'
  <2>1. Submitted' = Submitted
    BY <1>29 DEF Submitted, WorkerCount
  <2>2. Executing' = Executing
    BY <1>29 DEF TypeOK, Scopes, Executing, WorkerCount, Goto
  <2> QED
    BY <1>29, <2>1, <2>2, <1>c DEF TypeOK, WorkerCount, Goto
<1>30. ASSUME NEW w \in Workers, WorkerRelease(w) PROVE JobsConserved'
  <2>1. Submitted' = Submitted
    BY <1>30 DEF Submitted, WorkerRelease
  <2>2. Executing' = Executing
    BY <1>30 DEF TypeOK, Scopes, Executing, WorkerRelease, Release, Goto
  <2> QED
    BY <1>30, <2>1, <2>2, <1>c DEF TypeOK, WorkerRelease, Release, Goto
<1>31. CASE UNCHANGED vars
  BY <1>31, <1>c DEF vars, Submitted, Executing
<1> QED
  BY <1>1, <1>2, <1>3, <1>4, <1>5, <1>6, <1>7, <1>8, <1>9, <1>10, <1>11,
     <1>12, <1>13, <1>14, <1>15, <1>16, <1>17, <1>18, <1>19, <1>20,
     <1>21, <1>22, <1>23, <1>24, <1>25, <1>26, <1>27, <1>28, <1>29,
     <1>30, <1>31, StepCases

-----------------------------------------------------------------------------
(***************************************************************************)
(* reserved_bytes_ is exact and the budget is never exceeded.              *)
(***************************************************************************)
LEMMA CommittedType == Committed \in SUBSET Jobs
BY DEF Committed

\* The dispatcher's selection and the bytes already committed are different
\* jobs, and so are one worker's batch and everything else committed.
LEMMA CommittedDisjoint ==
  ASSUME TypeOK, Scopes, JobsConserved
  PROVE  /\ pc[Dispatcher] # "push" => selected \cap Committed = {}
         /\ \A w \in Workers :
              /\ batch[w] \cap Batched = {}
              /\ pc[Dispatcher] = "push" => batch[w] \cap selected = {}
              /\ \A v \in Workers \ {w} : batch[w] \cap batch[v] = {}
<1>1. NoOverlap /\ OnePlace
  BY ConservedParts
<1>2. \A w \in Workers : batch[w] \subseteq Executing \cup Recorded
  BY HeldJobs
<1> QED
  BY <1>1, <1>2 DEF NoOverlap, OnePlace, Committed

LEMMA CapacityNat == Capacity \in Nat /\ MaxJobBytes \in Nat
BY SchedulerAssumption DEF Capacity, MaxJobBytes

LEMMA ReservationInit == Init => ReservationExact /\ BudgetKept
<1> SUFFICES ASSUME Init PROVE ReservationExact /\ BudgetKept
  OBVIOUS
<1>1. Committed = {}
  BY DEF Init, Committed, Batched, Threads
<1>2. ReservationExact
  BY <1>1, NeedEmpty DEF Init, ReservationExact
<1>3. BudgetKept
  BY CapacityNat DEF Init, BudgetKept, Threads
<1> QED
  BY <1>2, <1>3

\* release_bytes takes off exactly the bytes of the worker's batch.
LEMMA ReleaseEffect ==
  ASSUME TypeOK, Scopes, JobsConserved, ReservationExact,
         NEW w \in Workers, Release(w),
         batch_queue_' = batch_queue_, selected' = selected,
         pc'[Dispatcher] = pc[Dispatcher]
  PROVE  /\ ReservationExact'
         /\ reserved_bytes_' =< reserved_bytes_
<1>1. batch[w] \in SUBSET Committed
  BY DEF TypeOK, Committed
<1>2. Committed \in SUBSET Jobs
  BY CommittedType
<1>3. batch'[w] = {} /\ \A v \in Workers \ {w} : batch'[v] = batch[v]
  BY DEF TypeOK, Release
<1>4. Batched' = Batched
  BY DEF Batched
<1>5. Committed' = Committed \ batch[w]
  BY <1>3, <1>4, CommittedDisjoint DEF Committed
<1>6. /\ Need(Committed') = Need(Committed) - Need(batch[w])
      /\ Need(batch[w]) =< Need(Committed)
  BY <1>1, <1>2, <1>5, NeedDifference
<1>7. Need(batch[w]) \in Nat /\ Need(Committed) \in Nat
  BY <1>1, <1>2, NeedNat
<1>8. reserved_bytes_' = reserved_bytes_ - Need(batch[w])
  BY <1>6, <1>7 DEF Release, ReservationExact
<1> QED
  BY <1>6, <1>7, <1>8 DEF ReservationExact

LEMMA ReservationStep ==
  ASSUME TypeOK, Scopes, JobsConserved, ReservationExact, BudgetKept,
         [Next]_vars
  PROVE  ReservationExact' /\ BudgetKept'
<1> USE SchedulerAssumption
    DEF Threads, submitVars, packVars, batchVars, recordVars, lifeVars
<1> DEFINE Goal == ReservationExact' /\ BudgetKept'
\* Steps that commit and release nothing.
<1>a. ASSUME Committed' = Committed, reserved_bytes_' = reserved_bytes_
      PROVE  ReservationExact'
  BY <1>a DEF ReservationExact
\* Steps of other threads, and of the dispatcher after the reservation.
<1>b. ASSUME reserved_bytes_' =< reserved_bytes_, reserved_bytes_' \in Nat,
             \/ pc'[Dispatcher] \notin {"pack", "requeue", "reserve"}
             \/ UNCHANGED <<pc[Dispatcher], selected, base>>
      PROVE  BudgetKept'
  <2>1. reserved_bytes_' =< Capacity
    BY <1>b, CapacityNat DEF TypeOK, BudgetKept
  <2>2. ASSUME pc'[Dispatcher] \in {"pack", "requeue", "reserve"}
        PROVE  UNCHANGED <<pc[Dispatcher], selected, base>>
    BY <1>b, <2>2
  <2>3. ASSUME pc'[Dispatcher] = "pack" PROVE base' =< Capacity
    BY <2>2, <2>3 DEF BudgetKept
  <2>4. ASSUME pc'[Dispatcher] \in {"requeue", "reserve"}
        PROVE  reserved_bytes_' + Need(selected') =< Capacity
    <3>1. /\ reserved_bytes_ + Need(selected) =< Capacity
          /\ selected' = selected
      BY <2>2, <2>4 DEF BudgetKept
    <3>2. Need(selected) \in Nat
      BY NeedNat DEF TypeOK
    <3> QED
      BY <1>b, <3>1, <3>2, CapacityNat DEF TypeOK
  <2> QED
    BY <2>1, <2>3, <2>4 DEF BudgetKept
<1>1. ASSUME NEW j \in Jobs, SubmitEnqueue(j) PROVE Goal
  <2>1. Committed' = Committed
    BY <1>1 DEF TypeOK, Scopes, Committed, Batched, SubmitEnqueue
  <2>2. BudgetKept'
    BY <1>1, <1>b DEF TypeOK, SubmitEnqueue
  <2> QED
    BY <1>1, <1>a, <2>1, <2>2 DEF SubmitEnqueue
<1>2. ASSUME NEW j \in Jobs, SubmitCount(j) PROVE Goal
  <2>1. Committed' = Committed
    BY <1>2 DEF TypeOK, Scopes, Committed, Batched, SubmitCount
  <2>2. BudgetKept'
    BY <1>2, <1>b DEF TypeOK, SubmitCount
  <2> QED
    BY <1>2, <1>a, <2>1, <2>2 DEF SubmitCount
<1>3. ASSUME NEW j \in Jobs, SubmitNotify(j) PROVE Goal
  <2>1. Committed' = Committed
    BY <1>3 DEF TypeOK, Scopes, Committed, Batched, SubmitNotify, NotifyOne, Asleep
  <2>2. BudgetKept'
    BY <1>3, <1>b DEF TypeOK, SubmitNotify, NotifyOne, Asleep
  <2> QED
    BY <1>3, <1>a, <2>1, <2>2 DEF SubmitNotify
<1>4. ASSUME Start PROVE Goal
  <2>1. Committed' = Committed
    BY <1>4 DEF TypeOK, Scopes, Committed, Batched, Start
  <2>2. BudgetKept'
    BY <1>4, <1>b DEF TypeOK, Start
  <2> QED
    BY <1>4, <1>a, <2>1, <2>2 DEF Start
<1>5. ASSUME StopFlag PROVE Goal
  <2>1. Committed' = Committed
    BY <1>5 DEF TypeOK, Scopes, Committed, Batched, StopFlag
  <2>2. BudgetKept'
    BY <1>5, <1>b DEF TypeOK, StopFlag
  <2> QED
    BY <1>5, <1>a, <2>1, <2>2 DEF StopFlag
<1>6. ASSUME StopNotify PROVE Goal
  <2>1. Committed' = Committed
    BY <1>6 DEF TypeOK, Scopes, Committed, Batched, StopNotify, NotifyAll, Asleep
  <2>2. BudgetKept'
    BY <1>6, <1>b DEF TypeOK, StopNotify, NotifyAll, Asleep
  <2> QED
    BY <1>6, <1>a, <2>1, <2>2 DEF StopNotify
<1>7. ASSUME StopJoin PROVE Goal
  <2>1. Committed' = Committed
    BY <1>7 DEF TypeOK, Scopes, Committed, Batched, StopJoin
  <2>2. BudgetKept'
    BY <1>7, <1>b DEF TypeOK, StopJoin
  <2> QED
    BY <1>7, <1>a, <2>1, <2>2 DEF StopJoin
<1>8. ASSUME NEW t \in Threads, WaitBlock(t) PROVE Goal
  <2>1. Committed' = Committed
    BY <1>8 DEF TypeOK, Scopes, Committed, Batched, WaitBlock
  <2>2. BudgetKept'
    BY <1>8, <1>b DEF TypeOK, WaitBlock
  <2> QED
    BY <1>8, <1>a, <2>1, <2>2 DEF WaitBlock
<1>9. ASSUME NEW t \in Threads, WaitSleep(t) PROVE Goal
  <2>1. Committed' = Committed
    BY <1>9 DEF TypeOK, Scopes, Committed, Batched, WaitSleep
  <2>2. BudgetKept'
    BY <1>9, <1>b DEF TypeOK, WaitSleep
  <2> QED
    BY <1>9, <1>a, <2>1, <2>2 DEF WaitSleep
<1>10. ASSUME NEW t \in Threads, SpuriousWakeup(t) PROVE Goal
  <2>1. Committed' = Committed
    BY <1>10 DEF TypeOK, Scopes, Committed, Batched, SpuriousWakeup
  <2>2. BudgetKept'
    BY <1>10, <1>b DEF TypeOK, SpuriousWakeup
  <2> QED
    BY <1>10, <1>a, <2>1, <2>2 DEF SpuriousWakeup
<1>11. ASSUME DispatcherSpace PROVE Goal
  <2>1. Committed' = Committed
    BY <1>11 DEF TypeOK, Scopes, Committed, Batched, DispatcherSpace, PassesWait, Goto
  <2>2. BudgetKept'
    BY <1>11, <1>b DEF TypeOK, DispatcherSpace, PassesWait, Goto
  <2> QED
    BY <1>11, <1>a, <2>1, <2>2 DEF DispatcherSpace
<1>12. ASSUME DispatcherQuit PROVE Goal
  <2>1. Committed' = Committed
    BY <1>12 DEF TypeOK, Scopes, Committed, Batched, DispatcherQuit, PassesWait, Goto
  <2>2. BudgetKept'
    BY <1>12, <1>b DEF TypeOK, DispatcherQuit, PassesWait, Goto
  <2> QED
    BY <1>12, <1>a, <2>1, <2>2 DEF DispatcherQuit
<1>13. ASSUME DispatcherDrain PROVE Goal
  <2>1. Committed' = Committed
    BY <1>13 DEF TypeOK, Scopes, Committed, Batched, DispatcherDrain, PassesWait, Goto
  <2>2. BudgetKept'
    BY <1>13, <1>b DEF TypeOK, DispatcherDrain, PassesWait, Goto
  <2> QED
    BY <1>13, <1>a, <2>1, <2>2 DEF DispatcherDrain
<1>14. ASSUME DispatcherNoGpu PROVE Goal
  <2>1. Committed' = Committed
    BY <1>14 DEF TypeOK, Scopes, Committed, Batched, DispatcherNoGpu, FailBatch, Record, Goto
  <2>2. BudgetKept'
    BY <1>14, <1>b DEF TypeOK, DispatcherNoGpu, FailBatch, Record, Goto
  <2> QED
    BY <1>14, <1>a, <2>1, <2>2 DEF DispatcherNoGpu
<1>15. ASSUME DispatcherReject PROVE Goal
  <2>1. Committed' = Committed
    BY <1>15 DEF TypeOK, Scopes, Committed, Batched, DispatcherReject, FailBatch, Record, Oversized, Goto
  <2>2. BudgetKept'
    BY <1>15, <1>b DEF TypeOK, DispatcherReject, FailBatch, Record, Oversized, Goto
  <2> QED
    BY <1>15, <1>a, <2>1, <2>2 DEF DispatcherReject
<1>16. ASSUME DispatcherSample PROVE Goal
  <2>1. Committed' = Committed
    BY <1>16 DEF TypeOK, Committed, Batched, DispatcherSample, BaseBudget, Goto
  <2>2. base' =< Capacity
    BY <1>16 DEF DispatcherSample, BaseBudget, Capacity, MaxJobBytes
  <2>3. BudgetKept'
    BY <1>16, <2>2 DEF TypeOK, BudgetKept, DispatcherSample, BaseBudget, Goto
  <2> QED
    BY <1>16, <1>a, <2>1, <2>3 DEF DispatcherSample, BaseBudget
<1>17. ASSUME DispatcherPack PROVE Goal
  <2>1. Committed' = Committed
    BY <1>17 DEF TypeOK, Scopes, Committed, Batched, DispatcherPack, Goto
  <2>2. PICK bucket \in [candidates -> 0..MaxBucket], S \in SUBSET candidates :
          /\ Packs(S, candidates, bucket, seq, Budget)
          /\ selected' = S
    BY <1>17 DEF DispatcherPack
  <2>3. Need(S) =< Budget
    BY <2>2 DEF Packs, Fits
  <2>4. Need(S) \in Nat
    BY <2>2, NeedNat DEF TypeOK
  <2>5. base =< Capacity /\ reserved_bytes_ =< Capacity
    BY <1>17 DEF BudgetKept, DispatcherPack
  <2>6. reserved_bytes_ + Need(S) =< Capacity
    BY <2>3, <2>4, <2>5, CapacityNat DEF TypeOK, Budget
  <2>7. pc'[Dispatcher] = "requeue" /\ reserved_bytes_' = reserved_bytes_
    BY <1>17 DEF TypeOK, DispatcherPack, Goto
  <2>8. BudgetKept'
    BY <2>2, <2>5, <2>6, <2>7 DEF BudgetKept
  <2> QED
    BY <1>a, <2>1, <2>7, <2>8
<1>18. ASSUME DispatcherRequeue PROVE Goal
  <2>1. Committed' = Committed
    BY <1>18 DEF TypeOK, Committed, Batched, DispatcherRequeue, Goto
  <2>2. BudgetKept'
    BY <1>18 DEF TypeOK, BudgetKept, DispatcherRequeue, Goto
  <2> QED
    BY <1>18, <1>a, <2>1, <2>2 DEF DispatcherRequeue
<1>19. ASSUME DispatcherReserve PROVE Goal
  <2>1. pc[Dispatcher] = "reserve" /\ pc'[Dispatcher] = "push"
    BY <1>19 DEF TypeOK, DispatcherReserve, Goto
  <2>2. Committed' = Committed \cup selected
    BY <1>19, <2>1 DEF TypeOK, Committed, Batched, DispatcherReserve
  <2>3. Committed \in SUBSET Jobs /\ selected \in SUBSET Jobs
    BY CommittedType DEF TypeOK
  <2>4. Committed \cap selected = {}
    BY <2>1, CommittedDisjoint
  <2>5. Need(Committed') = Need(Committed) + Need(selected)
    BY <2>2, <2>3, <2>4, NeedUnion
  <2>6. reserved_bytes_' = reserved_bytes_ + Need(selected)
    BY <1>19 DEF DispatcherReserve
  <2>7. ReservationExact'
    BY <2>5, <2>6 DEF ReservationExact
  <2>8. BudgetKept'
    BY <2>1, <2>6 DEF BudgetKept
  <2> QED
    BY <2>7, <2>8
<1>20. ASSUME DispatcherPush PROVE Goal
  <2>1. pc[Dispatcher] = "push" /\ pc'[Dispatcher] = "notify"
    BY <1>20 DEF TypeOK, DispatcherPush, Goto
  <2>2. selected \in SUBSET Jobs
    BY DEF TypeOK
  <2>3. Batched' = Batched \cup selected
    BY <1>20, <2>2, BatchedPush DEF DispatcherPush
  <2>4. Committed' = Committed
    BY <1>20, <2>1, <2>2, <2>3 DEF Committed, DispatcherPush
  <2>5. BudgetKept'
    BY <1>20, <2>1, <1>b DEF TypeOK, DispatcherPush
  <2> QED
    BY <1>20, <1>a, <2>4, <2>5 DEF DispatcherPush
<1>21. ASSUME DispatcherNotify PROVE Goal
  <2>1. Committed' = Committed
    BY <1>21 DEF TypeOK, Scopes, Committed, Batched, DispatcherNotify, NotifyOne, Asleep, Goto
  <2>2. BudgetKept'
    BY <1>21, <1>b DEF TypeOK, DispatcherNotify, NotifyOne, Asleep, Goto
  <2> QED
    BY <1>21, <1>a, <2>1, <2>2 DEF DispatcherNotify
<1>22. ASSUME NEW w \in Workers, WorkerTake(w) PROVE Goal
  <2>1. Batched = Head(batch_queue_) \cup Batched'
    BY <1>22, BatchedPop DEF WorkerTake
  <2>2. batch[w] = {}
    BY <1>22 DEF Scopes, WorkerTake, PassesWait
  <2>3. /\ batch'[w] = Head(batch_queue_)
        /\ \A v \in Workers \ {w} : batch'[v] = batch[v]
    BY <1>22 DEF TypeOK, WorkerTake
  <2>4. pc'[Dispatcher] = pc[Dispatcher] /\ selected' = selected
    BY <1>22 DEF TypeOK, WorkerTake, Goto
  <2>5. Committed' = Committed
    <3>1. Head(batch_queue_) \in SUBSET Jobs
      BY <1>22, BatchedPop DEF WorkerTake
    <3> QED
      BY <2>1, <2>2, <2>3, <2>4, <3>1 DEF Committed
  <2>6. BudgetKept'
    BY <1>22, <2>4, <1>b DEF TypeOK, WorkerTake
  <2> QED
    BY <1>22, <1>a, <2>5, <2>6 DEF WorkerTake
<1>23. ASSUME NEW w \in Workers, WorkerQuit(w) PROVE Goal
  <2>1. Committed' = Committed
    BY <1>23 DEF TypeOK, Scopes, Committed, Batched, WorkerQuit, PassesWait, Goto
  <2>2. BudgetKept'
    BY <1>23, <1>b DEF TypeOK, WorkerQuit, PassesWait, Goto
  <2> QED
    BY <1>23, <1>a, <2>1, <2>2 DEF WorkerQuit
<1>24. ASSUME NEW w \in Workers, WorkerNotifySpace(w) PROVE Goal
  <2>1. Committed' = Committed
    BY <1>24 DEF TypeOK, Scopes, Committed, Batched, WorkerNotifySpace, NotifyOne, Asleep, Goto
  <2>2. BudgetKept'
    BY <1>24, <1>b DEF TypeOK, WorkerNotifySpace, NotifyOne, Asleep, Goto
  <2> QED
    BY <1>24, <1>a, <2>1, <2>2 DEF WorkerNotifySpace
<1>25. ASSUME NEW w \in Workers, WorkerNoGpu(w) PROVE Goal
  <2>1. Committed' = Committed
    BY <1>25 DEF TypeOK, Scopes, Committed, Batched, WorkerNoGpu, FailBatch, Record, Goto
  <2>2. BudgetKept'
    BY <1>25, <1>b DEF TypeOK, WorkerNoGpu, FailBatch, Record, Goto
  <2> QED
    BY <1>25, <1>a, <2>1, <2>2 DEF WorkerNoGpu
<1>26. ASSUME NEW w \in Workers, WorkerFail(w) PROVE Goal
  <2>1. Committed' = Committed
    BY <1>26 DEF TypeOK, Scopes, Committed, Batched, WorkerFail, FailBatch, Record, Goto
  <2>2. BudgetKept'
    BY <1>26, <1>b DEF TypeOK, WorkerFail, FailBatch, Record, Goto
  <2> QED
    BY <1>26, <1>a, <2>1, <2>2 DEF WorkerFail
<1>27. ASSUME NEW w \in Workers, WorkerThrow(w) PROVE Goal
  <2>1. pc'[Dispatcher] = pc[Dispatcher]
    BY <1>27 DEF TypeOK, WorkerThrow, Goto
  <2>2. ReservationExact' /\ reserved_bytes_' =< reserved_bytes_
    BY <1>27, <2>1, ReleaseEffect DEF WorkerThrow
  <2>3. reserved_bytes_' \in Nat
    BY <1>27, ReleaseType DEF WorkerThrow
  <2>4. BudgetKept'
    BY <1>27, <2>1, <2>2, <2>3, <1>b DEF WorkerThrow
  <2> QED
    BY <2>2, <2>4
<1>28. ASSUME NEW w \in Workers, WorkerSucceed(w) PROVE Goal
  <2>1. Committed' = Committed
    BY <1>28 DEF TypeOK, Scopes, Committed, Batched, WorkerSucceed, Record, Goto
  <2>2. BudgetKept'
    BY <1>28, <1>b DEF TypeOK, WorkerSucceed, Record, Goto
  <2> QED
    BY <1>28, <1>a, <2>1, <2>2 DEF WorkerSucceed
<1>29. ASSUME NEW w \in Workers, WorkerCount(w) PROVE Goal
  <2>1. Committed' = Committed
    BY <1>29 DEF TypeOK, Scopes, Committed, Batched, WorkerCount, Goto
  <2>2. BudgetKept'
    BY <1>29, <1>b DEF TypeOK, WorkerCount, Goto
  <2> QED
    BY <1>29, <1>a, <2>1, <2>2 DEF WorkerCount
<1>30. ASSUME NEW w \in Workers, WorkerRelease(w) PROVE Goal
  <2>1. pc'[Dispatcher] = pc[Dispatcher]
    BY <1>30 DEF TypeOK, WorkerRelease, Goto
  <2>2. ReservationExact' /\ reserved_bytes_' =< reserved_bytes_
    BY <1>30, <2>1, ReleaseEffect DEF WorkerRelease
  <2>3. reserved_bytes_' \in Nat
    BY <1>30, ReleaseType DEF WorkerRelease
  <2>4. BudgetKept'
    BY <1>30, <2>1, <2>2, <2>3, <1>b DEF WorkerRelease
  <2> QED
    BY <2>2, <2>4
<1>31. CASE UNCHANGED vars
  BY <1>31, <1>a, <1>b DEF TypeOK, vars, Committed, Batched
<1> QED
  BY <1>1, <1>2, <1>3, <1>4, <1>5, <1>6, <1>7, <1>8, <1>9, <1>10, <1>11,
     <1>12, <1>13, <1>14, <1>15, <1>16, <1>17, <1>18, <1>19, <1>20,
     <1>21, <1>22, <1>23, <1>24, <1>25, <1>26, <1>27, <1>28, <1>29,
     <1>30, <1>31, StepCases

LEMMA InvariantHolds == Spec => []IInv
<1>1. Init => IInv
  BY TypeInit, ScopesInit, ConservedInit, ReservationInit DEF IInv
<1>2. IInv /\ [Next]_vars => IInv'
  BY TypeStep, ScopesStep, ConservedStep, ReservationStep DEF IInv
<1> QED
  BY <1>1, <1>2, PTL DEF Spec

\* In every behaviour of the scheduler each submitted job is in one place and
\* gets one record at most; none is lost while the process lives.
THEOREM JobsAreConserved == Spec => []JobsConserved
<1>1. IInv => JobsConserved
  BY DEF IInv
<1> QED
  BY <1>1, InvariantHolds, PTL

\* reserved_bytes_ is always the memory of the batches packed and not yet
\* released; the clamp in release_bytes never takes effect.
THEOREM ReservationIsExact == Spec => []ReservationExact
<1>1. IInv => ReservationExact
  BY DEF IInv
<1> QED
  BY <1>1, InvariantHolds, PTL

\* The batches waiting and running at any one time fit together in the
\* largest budget, for every job mix, number of workers and interleaving.
THEOREM NeverOvercommits == Spec => []NoOvercommit
<1>1. IInv => NoOvercommit
  BY DEF IInv, ReservationExact, BudgetKept, NoOvercommit
<1> QED
  BY <1>1, InvariantHolds, PTL

-----------------------------------------------------------------------------
(***************************************************************************)
(* The lookahead.  Only the dispatcher pushes, so what it has seen of the  *)
(* depth stays true until it does.                                         *)
(***************************************************************************)
Ahead == {"queue", "triage", "sample", "pack", "requeue", "reserve", "push"}

RoomAhead == pc[Dispatcher] \in Ahead => Len(batch_queue_) < MaxQueueDepth

LEMMA DepthNat == MaxQueueDepth \in Nat
BY SchedulerAssumption, FS_CardinalityType DEF MaxQueueDepth

LEMMA LookaheadStep ==
  ASSUME TypeOK, LookaheadBounded, RoomAhead, [Next]_vars
  PROVE  LookaheadBounded' /\ RoomAhead'
<1> DEFINE Goal == LookaheadBounded' /\ RoomAhead'
<1> USE SchedulerAssumption, DepthNat
    DEF LookaheadBounded, RoomAhead, Ahead, Threads, batchVars
<1>l. Len(batch_queue_) \in Nat
  BY DEF TypeOK
\* The other steps leave the batch queue and the dispatcher's place alone.
<1>a. ASSUME batch_queue_' = batch_queue_,
             \/ pc'[Dispatcher] = pc[Dispatcher]
             \/ pc'[Dispatcher] \notin Ahead
             \/ pc[Dispatcher] \in Ahead
      PROVE  Goal
  BY <1>a
<1>1. ASSUME NEW j \in Jobs, SubmitEnqueue(j) PROVE Goal
  BY <1>1, <1>a DEF TypeOK, SubmitEnqueue
<1>2. ASSUME NEW j \in Jobs, SubmitCount(j) PROVE Goal
  BY <1>2, <1>a DEF TypeOK, SubmitCount
<1>3. ASSUME NEW j \in Jobs, SubmitNotify(j) PROVE Goal
  BY <1>3, <1>a DEF TypeOK, SubmitNotify
<1>4. ASSUME Start PROVE Goal
  BY <1>4, <1>a DEF TypeOK, Start
<1>5. ASSUME StopFlag PROVE Goal
  BY <1>5, <1>a DEF TypeOK, StopFlag
<1>6. ASSUME StopNotify PROVE Goal
  BY <1>6, <1>a DEF TypeOK, StopNotify
<1>7. ASSUME StopJoin PROVE Goal
  BY <1>7, <1>a DEF TypeOK, StopJoin
<1>8. ASSUME NEW t \in Threads, WaitBlock(t) PROVE Goal
  BY <1>8, <1>a DEF TypeOK, WaitBlock
<1>9. ASSUME NEW t \in Threads, WaitSleep(t) PROVE Goal
  BY <1>9, <1>a DEF TypeOK, WaitSleep
<1>10. ASSUME NEW t \in Threads, SpuriousWakeup(t) PROVE Goal
  BY <1>10, <1>a DEF TypeOK, SpuriousWakeup
<1>11. ASSUME DispatcherSpace PROVE Goal
  <2>1. batch_queue_' = batch_queue_
    BY <1>11 DEF DispatcherSpace
  <2>2. pc'[Dispatcher] = "queue" => Len(batch_queue_) < MaxQueueDepth
    BY <1>11 DEF TypeOK, DispatcherSpace, PassesWait, WaitOver, Goto
  <2>3. pc'[Dispatcher] \in {"queue", "exited"}
    BY <1>11 DEF TypeOK, DispatcherSpace, Goto
  <2> QED
    BY <2>1, <2>2, <2>3
<1>12. ASSUME DispatcherQuit PROVE Goal
  BY <1>12, <1>a DEF TypeOK, DispatcherQuit, PassesWait, Goto
<1>13. ASSUME DispatcherDrain PROVE Goal
  BY <1>13, <1>a DEF TypeOK, DispatcherDrain, PassesWait, Goto
<1>14. ASSUME DispatcherNoGpu PROVE Goal
  BY <1>14, <1>a DEF TypeOK, DispatcherNoGpu, Goto
<1>15. ASSUME DispatcherReject PROVE Goal
  BY <1>15, <1>a DEF TypeOK, DispatcherReject, Goto
<1>16. ASSUME DispatcherSample PROVE Goal
  BY <1>16, <1>a DEF TypeOK, DispatcherSample, Goto
<1>17. ASSUME DispatcherPack PROVE Goal
  BY <1>17, <1>a DEF TypeOK, DispatcherPack, Goto
<1>18. ASSUME DispatcherRequeue PROVE Goal
  BY <1>18, <1>a DEF TypeOK, DispatcherRequeue, Goto
<1>19. ASSUME DispatcherReserve PROVE Goal
  BY <1>19, <1>a DEF TypeOK, DispatcherReserve, Goto
<1>20. ASSUME DispatcherPush PROVE Goal
  <2>1. Len(batch_queue_') = Len(batch_queue_) + 1
    BY <1>20 DEF TypeOK, DispatcherPush
  <2>2. pc[Dispatcher] = "push" /\ pc'[Dispatcher] = "notify"
    BY <1>20 DEF TypeOK, DispatcherPush, Goto
  <2> QED
    BY <1>l, <2>1, <2>2
<1>21. ASSUME DispatcherNotify PROVE Goal
  BY <1>21, <1>a DEF TypeOK, DispatcherNotify, Goto
<1>22. ASSUME NEW w \in Workers, WorkerTake(w) PROVE Goal
  <2>1. Len(batch_queue_') = Len(batch_queue_) - 1
    BY <1>22 DEF TypeOK, WorkerTake
  <2>2. pc'[Dispatcher] = pc[Dispatcher]
    BY <1>22 DEF TypeOK, WorkerTake, Goto
  <2> QED
    BY <1>l, <2>1, <2>2
<1>23. ASSUME NEW w \in Workers, WorkerQuit(w) PROVE Goal
  BY <1>23, <1>a DEF TypeOK, WorkerQuit, PassesWait, Goto
<1>24. ASSUME NEW w \in Workers, WorkerNotifySpace(w) PROVE Goal
  BY <1>24, <1>a DEF TypeOK, WorkerNotifySpace, Goto
<1>25. ASSUME NEW w \in Workers, WorkerNoGpu(w) PROVE Goal
  BY <1>25, <1>a DEF TypeOK, WorkerNoGpu, Goto
<1>26. ASSUME NEW w \in Workers, WorkerFail(w) PROVE Goal
  BY <1>26, <1>a DEF TypeOK, WorkerFail, Goto
<1>27. ASSUME NEW w \in Workers, WorkerThrow(w) PROVE Goal
  BY <1>27, <1>a DEF TypeOK, WorkerThrow
<1>28. ASSUME NEW w \in Workers, WorkerSucceed(w) PROVE Goal
  BY <1>28, <1>a DEF TypeOK, WorkerSucceed, Goto
<1>29. ASSUME NEW w \in Workers, WorkerCount(w) PROVE Goal
  BY <1>29, <1>a DEF TypeOK, WorkerCount, Goto
<1>30. ASSUME NEW w \in Workers, WorkerRelease(w) PROVE Goal
  BY <1>30, <1>a DEF TypeOK, WorkerRelease, Goto
<1>31. CASE UNCHANGED vars
  BY <1>31, <1>a DEF vars
<1> QED
  BY <1>1, <1>2, <1>3, <1>4, <1>5, <1>6, <1>7, <1>8, <1>9, <1>10, <1>11,
     <1>12, <1>13, <1>14, <1>15, <1>16, <1>17, <1>18, <1>19, <1>20,
     <1>21, <1>22, <1>23, <1>24, <1>25, <1>26, <1>27, <1>28, <1>29,
     <1>30, <1>31, StepCases

\* The batch queue never exceeds its depth, with any number of workers and
\* across restarts, although the dispatcher pushes long after its test.
THEOREM LookaheadStaysBounded == Spec => []LookaheadBounded
<1> DEFINE Inv == TypeOK /\ LookaheadBounded /\ RoomAhead
<1>1. Init => Inv
  <2>1. Init => LookaheadBounded /\ RoomAhead
    BY DepthNat DEF Init, LookaheadBounded, RoomAhead, Ahead, Threads
  <2> QED
    BY <2>1, TypeInit
<1>2. Inv /\ [Next]_vars => Inv'
  BY TypeStep, LookaheadStep
<1>3. Inv => LookaheadBounded
  OBVIOUS
<1> QED
  BY <1>1, <1>2, <1>3, PTL DEF Spec

-----------------------------------------------------------------------------
(***************************************************************************)
(* The counters that the daemon's exit test and its status page read.      *)
(***************************************************************************)

\* The jobs that submit() has counted.
Announced == {j \in Jobs : submitPc[j] \in {"notify", "done"}}

\* The jobs of batches that succeeded and that completed_ does not have yet.
Uncounted == {j \in Jobs : \E w \in Workers : pc[w] = "count" /\ j \in batch[w]}

CountersExact ==
  /\ submitted_ = Cardinality(Announced)
  /\ completed_ + Cardinality(Uncounted) = Cardinality(Recorded)

\* The cardinality of a disjoint union of sets of jobs.
LEMMA CountUnion ==
  ASSUME NEW S \in SUBSET Jobs, NEW T \in SUBSET Jobs, S \cap T = {}
  PROVE  Cardinality(S \cup T) = Cardinality(S) + Cardinality(T)
<1>1. IsFiniteSet(S) /\ IsFiniteSet(T)
  BY JobsAssumption, FS_Subset
<1>2. Cardinality(S \cup T) = Cardinality(S) + Cardinality(T) - Cardinality(S \cap T)
  BY <1>1, FS_Union
<1>3. Cardinality(S \cap T) = 0
  BY FS_EmptySet
<1>4. Cardinality(S) \in Nat /\ Cardinality(T) \in Nat
  BY CountNat
<1> QED
  BY <1>2, <1>3, <1>4

LEMMA CountersInit == Init => CountersExact
<1> SUFFICES ASSUME Init PROVE CountersExact
  OBVIOUS
<1>1. Announced = {} /\ Uncounted = {} /\ Recorded = {}
  BY DEF Init, Announced, Uncounted, Recorded
<1> QED
  BY <1>1, FS_EmptySet DEF Init, CountersExact

LEMMA CountersStep ==
  ASSUME IInv, CountersExact, [Next]_vars
  PROVE  CountersExact'
<1> USE SchedulerAssumption
    DEF Threads, submitVars, packVars, batchVars, recordVars, lifeVars
<1>t. /\ TypeOK /\ Scopes /\ NoOverlap /\ OnePlace
      /\ completed_ \in Nat /\ submitted_ \in Nat
      /\ Recorded \in SUBSET Jobs /\ Uncounted \in SUBSET Jobs
      /\ Announced \in SUBSET Jobs /\ Uncounted \in SUBSET Recorded
  BY ConservedParts DEF IInv, TypeOK, Scopes, Recorded, Uncounted, Announced
<1>n. \A S \in SUBSET Jobs : Cardinality(S) \in Nat
  BY CountNat
\* Steps that count nothing.
<1>a. ASSUME submitted_' = submitted_, completed_' = completed_,
             metrics_' = metrics_, Announced' = Announced, Uncounted' = Uncounted
      PROVE  CountersExact'
  <2>1. Recorded' = Recorded
    BY <1>a DEF Recorded
  <2> QED
    BY <1>a, <2>1 DEF CountersExact
\* fail_batch.
<1>b. ASSUME NEW S \in SUBSET Jobs, S \cap Recorded = {}, FailBatch(S),
             submitted_' = submitted_, Announced' = Announced,
             Uncounted' = Uncounted
      PROVE  CountersExact'
  <2>1. Recorded' = Recorded \cup S
    BY <1>b, <1>t, FailBatchEffect
  <2>2. Cardinality(Recorded') = Cardinality(Recorded) + Cardinality(S)
    BY <1>b, <1>t, <2>1, CountUnion
  <2>3. completed_' = completed_ + Cardinality(S)
    BY <1>b DEF FailBatch
  <2> QED
    BY <1>b, <1>t, <1>n, <2>2, <2>3 DEF CountersExact
<1>1. ASSUME NEW j \in Jobs, SubmitEnqueue(j) PROVE CountersExact'
  <2>1. Announced' = Announced
    BY <1>1, <1>t DEF TypeOK, Announced, SubmitEnqueue
  <2>2. Uncounted' = Uncounted
    BY <1>1, <1>t DEF TypeOK, Scopes, Uncounted, SubmitEnqueue
  <2> QED
    BY <1>1, <1>a, <2>1, <2>2 DEF SubmitEnqueue
<1>2. ASSUME NEW j \in Jobs, SubmitCount(j) PROVE CountersExact'
  <2>1. Announced' = Announced \cup {j} /\ j \notin Announced /\ Uncounted' = Uncounted
    BY <1>2, <1>t DEF TypeOK, SubmitPcs, SubmitCount, Announced, Uncounted
  <2>2. Cardinality(Announced') = Cardinality(Announced) + 1
    BY <1>t, <2>1, JobsAssumption, FS_Subset, FS_AddElement
  <2>3. submitted_' = submitted_ + 1 /\ completed_' = completed_ /\ Recorded' = Recorded
    BY <1>2 DEF SubmitCount, Recorded
  <2> QED
    BY <2>1, <2>2, <2>3 DEF CountersExact
<1>3. ASSUME NEW j \in Jobs, SubmitNotify(j) PROVE CountersExact'
  <2>1. Announced' = Announced
    BY <1>3, <1>t DEF TypeOK, Announced, SubmitNotify
  <2>2. Uncounted' = Uncounted
    BY <1>3, <1>t DEF TypeOK, Scopes, Uncounted, SubmitNotify
  <2> QED
    BY <1>3, <1>a, <2>1, <2>2 DEF SubmitNotify
<1>4. ASSUME Start PROVE CountersExact'
  <2>1. Announced' = Announced
    BY <1>4, <1>t DEF TypeOK, Announced, Start
  <2>2. Uncounted' = Uncounted
    BY <1>4, <1>t DEF TypeOK, Scopes, Uncounted, Start
  <2> QED
    BY <1>4, <1>a, <2>1, <2>2 DEF Start
<1>5. ASSUME StopFlag PROVE CountersExact'
  <2>1. Announced' = Announced
    BY <1>5, <1>t DEF TypeOK, Announced, StopFlag
  <2>2. Uncounted' = Uncounted
    BY <1>5, <1>t DEF TypeOK, Scopes, Uncounted, StopFlag
  <2> QED
    BY <1>5, <1>a, <2>1, <2>2 DEF StopFlag
<1>6. ASSUME StopNotify PROVE CountersExact'
  <2>1. Announced' = Announced
    BY <1>6, <1>t DEF TypeOK, Announced, StopNotify
  <2>2. Uncounted' = Uncounted
    BY <1>6, <1>t DEF TypeOK, Scopes, Uncounted, StopNotify
  <2> QED
    BY <1>6, <1>a, <2>1, <2>2 DEF StopNotify
<1>7. ASSUME StopJoin PROVE CountersExact'
  <2>1. Announced' = Announced
    BY <1>7, <1>t DEF TypeOK, Announced, StopJoin
  <2>2. Uncounted' = Uncounted
    BY <1>7, <1>t DEF TypeOK, Scopes, Uncounted, StopJoin
  <2> QED
    BY <1>7, <1>a, <2>1, <2>2 DEF StopJoin
<1>8. ASSUME NEW t \in Threads, WaitBlock(t) PROVE CountersExact'
  <2>1. Announced' = Announced
    BY <1>8, <1>t DEF TypeOK, Announced, WaitBlock
  <2>2. Uncounted' = Uncounted
    BY <1>8, <1>t DEF TypeOK, Scopes, Uncounted, WaitBlock
  <2> QED
    BY <1>8, <1>a, <2>1, <2>2 DEF WaitBlock
<1>9. ASSUME NEW t \in Threads, WaitSleep(t) PROVE CountersExact'
  <2>1. Announced' = Announced
    BY <1>9, <1>t DEF TypeOK, Announced, WaitSleep
  <2>2. Uncounted' = Uncounted
    BY <1>9, <1>t DEF TypeOK, Scopes, Uncounted, WaitSleep
  <2> QED
    BY <1>9, <1>a, <2>1, <2>2 DEF WaitSleep
<1>10. ASSUME NEW t \in Threads, SpuriousWakeup(t) PROVE CountersExact'
  <2>1. Announced' = Announced
    BY <1>10, <1>t DEF TypeOK, Announced, SpuriousWakeup
  <2>2. Uncounted' = Uncounted
    BY <1>10, <1>t DEF TypeOK, Scopes, Uncounted, SpuriousWakeup
  <2> QED
    BY <1>10, <1>a, <2>1, <2>2 DEF SpuriousWakeup
<1>11. ASSUME DispatcherSpace PROVE CountersExact'
  <2>1. Announced' = Announced
    BY <1>11, <1>t DEF TypeOK, Announced, DispatcherSpace
  <2>2. Uncounted' = Uncounted
    BY <1>11, <1>t DEF TypeOK, Scopes, Uncounted, DispatcherSpace, PassesWait, Goto
  <2> QED
    BY <1>11, <1>a, <2>1, <2>2 DEF DispatcherSpace
<1>12. ASSUME DispatcherQuit PROVE CountersExact'
  <2>1. Announced' = Announced
    BY <1>12, <1>t DEF TypeOK, Announced, DispatcherQuit
  <2>2. Uncounted' = Uncounted
    BY <1>12, <1>t DEF TypeOK, Scopes, Uncounted, DispatcherQuit, PassesWait, Goto
  <2> QED
    BY <1>12, <1>a, <2>1, <2>2 DEF DispatcherQuit
<1>13. ASSUME DispatcherDrain PROVE CountersExact'
  <2>1. Announced' = Announced
    BY <1>13, <1>t DEF TypeOK, Announced, DispatcherDrain
  <2>2. Uncounted' = Uncounted
    BY <1>13, <1>t DEF TypeOK, Scopes, Uncounted, DispatcherDrain, PassesWait, Goto
  <2> QED
    BY <1>13, <1>a, <2>1, <2>2 DEF DispatcherDrain
<1>14. ASSUME DispatcherNoGpu PROVE CountersExact'
  <2>1. candidates \in SUBSET Jobs /\ candidates \cap Recorded = {} /\ FailBatch(candidates)
    BY <1>14, <1>t DEF TypeOK, OnePlace, Oversized, DispatcherNoGpu
  <2>2. Announced' = Announced /\ Uncounted' = Uncounted /\ submitted_' = submitted_
    BY <1>14, <1>t DEF TypeOK, Announced, Uncounted, DispatcherNoGpu, Goto
  <2> QED
    BY <2>1, <2>2, <1>b
<1>15. ASSUME DispatcherReject PROVE CountersExact'
  <2>1. Oversized \in SUBSET Jobs /\ Oversized \cap Recorded = {} /\ FailBatch(Oversized)
    BY <1>15, <1>t DEF TypeOK, OnePlace, Oversized, DispatcherReject
  <2>2. Announced' = Announced /\ Uncounted' = Uncounted /\ submitted_' = submitted_
    BY <1>15, <1>t DEF TypeOK, Announced, Uncounted, DispatcherReject, Goto
  <2> QED
    BY <2>1, <2>2, <1>b
<1>16. ASSUME DispatcherSample PROVE CountersExact'
  <2>1. Announced' = Announced
    BY <1>16, <1>t DEF TypeOK, Announced, DispatcherSample
  <2>2. Uncounted' = Uncounted
    BY <1>16, <1>t DEF TypeOK, Scopes, Uncounted, DispatcherSample, Goto
  <2> QED
    BY <1>16, <1>a, <2>1, <2>2 DEF DispatcherSample
<1>17. ASSUME DispatcherPack PROVE CountersExact'
  <2>1. Announced' = Announced
    BY <1>17, <1>t DEF TypeOK, Announced, DispatcherPack
  <2>2. Uncounted' = Uncounted
    BY <1>17, <1>t DEF TypeOK, Scopes, Uncounted, DispatcherPack, Goto
  <2> QED
    BY <1>17, <1>a, <2>1, <2>2 DEF DispatcherPack
<1>18. ASSUME DispatcherRequeue PROVE CountersExact'
  <2>1. Announced' = Announced
    BY <1>18, <1>t DEF TypeOK, Announced, DispatcherRequeue
  <2>2. Uncounted' = Uncounted
    BY <1>18, <1>t DEF TypeOK, Scopes, Uncounted, DispatcherRequeue, Goto
  <2> QED
    BY <1>18, <1>a, <2>1, <2>2 DEF DispatcherRequeue
<1>19. ASSUME DispatcherReserve PROVE CountersExact'
  <2>1. Announced' = Announced
    BY <1>19, <1>t DEF TypeOK, Announced, DispatcherReserve
  <2>2. Uncounted' = Uncounted
    BY <1>19, <1>t DEF TypeOK, Scopes, Uncounted, DispatcherReserve, Goto
  <2> QED
    BY <1>19, <1>a, <2>1, <2>2 DEF DispatcherReserve
<1>20. ASSUME DispatcherPush PROVE CountersExact'
  <2>1. Announced' = Announced
    BY <1>20, <1>t DEF TypeOK, Announced, DispatcherPush
  <2>2. Uncounted' = Uncounted
    BY <1>20, <1>t DEF TypeOK, Scopes, Uncounted, DispatcherPush, Goto
  <2> QED
    BY <1>20, <1>a, <2>1, <2>2 DEF DispatcherPush
<1>21. ASSUME DispatcherNotify PROVE CountersExact'
  <2>1. Announced' = Announced
    BY <1>21, <1>t DEF TypeOK, Announced, DispatcherNotify
  <2>2. Uncounted' = Uncounted
    BY <1>21, <1>t DEF TypeOK, Scopes, Uncounted, DispatcherNotify, Goto
  <2> QED
    BY <1>21, <1>a, <2>1, <2>2 DEF DispatcherNotify
<1>22. ASSUME NEW w \in Workers, WorkerTake(w) PROVE CountersExact'
  <2>1. Announced' = Announced
    BY <1>22, <1>t DEF TypeOK, Announced, WorkerTake
  <2>2. Uncounted' = Uncounted
    BY <1>22, <1>t DEF TypeOK, Scopes, Uncounted, WorkerTake, PassesWait, Goto
  <2> QED
    BY <1>22, <1>a, <2>1, <2>2 DEF WorkerTake
<1>23. ASSUME NEW w \in Workers, WorkerQuit(w) PROVE CountersExact'
  <2>1. Announced' = Announced
    BY <1>23, <1>t DEF TypeOK, Announced, WorkerQuit
  <2>2. Uncounted' = Uncounted
    BY <1>23, <1>t DEF TypeOK, Scopes, Uncounted, WorkerQuit, PassesWait, Goto
  <2> QED
    BY <1>23, <1>a, <2>1, <2>2 DEF WorkerQuit
<1>24. ASSUME NEW w \in Workers, WorkerNotifySpace(w) PROVE CountersExact'
  <2>1. Announced' = Announced
    BY <1>24, <1>t DEF TypeOK, Announced, WorkerNotifySpace
  <2>2. Uncounted' = Uncounted
    BY <1>24, <1>t DEF TypeOK, Scopes, Uncounted, WorkerNotifySpace, Goto
  <2> QED
    BY <1>24, <1>a, <2>1, <2>2 DEF WorkerNotifySpace
<1>25. ASSUME NEW w \in Workers, WorkerNoGpu(w) PROVE CountersExact'
  <2>1. batch[w] \in SUBSET Jobs /\ FailBatch(batch[w]) /\ pc[w] = "run"
    BY <1>25, <1>t DEF TypeOK, WorkerNoGpu
  <2>2. batch[w] \cap Recorded = {}
    BY <1>t, <2>1, HeldJobs DEF OnePlace
  <2>3. Announced' = Announced /\ Uncounted' = Uncounted /\ submitted_' = submitted_
    BY <1>25, <1>t DEF TypeOK, Announced, Uncounted, WorkerNoGpu, Goto
  <2> QED
    BY <2>1, <2>2, <2>3, <1>b
<1>26. ASSUME NEW w \in Workers, WorkerFail(w) PROVE CountersExact'
  <2>1. batch[w] \in SUBSET Jobs /\ FailBatch(batch[w]) /\ pc[w] = "run"
    BY <1>26, <1>t DEF TypeOK, WorkerFail
  <2>2. batch[w] \cap Recorded = {}
    BY <1>t, <2>1, HeldJobs DEF OnePlace
  <2>3. Announced' = Announced /\ Uncounted' = Uncounted /\ submitted_' = submitted_
    BY <1>26, <1>t DEF TypeOK, Announced, Uncounted, WorkerFail, Goto
  <2> QED
    BY <2>1, <2>2, <2>3, <1>b
<1>27. ASSUME NEW w \in Workers, WorkerThrow(w) PROVE CountersExact'
  <2>1. Announced' = Announced
    BY <1>27, <1>t DEF TypeOK, Announced, WorkerThrow
  <2>2. Uncounted' = Uncounted
    BY <1>27, <1>t DEF TypeOK, Scopes, Uncounted, WorkerThrow, Release
  <2> QED
    BY <1>27, <1>a, <2>1, <2>2 DEF WorkerThrow
<1>28. ASSUME NEW w \in Workers, WorkerSucceed(w) PROVE CountersExact'
  <2>1. batch[w] \in SUBSET Jobs /\ Record(batch[w], TRUE) /\ pc[w] = "run"
    BY <1>28, <1>t DEF TypeOK, WorkerSucceed
  <2>2. batch[w] \cap Recorded = {} /\ batch[w] \cap Uncounted = {}
    BY <1>t, <2>1, HeldJobs DEF OnePlace
  <2>3. Recorded' = Recorded \cup batch[w]
    BY <1>t, <2>1, RecordEffect
  <2>4. /\ Announced' = Announced /\ submitted_' = submitted_
        /\ completed_' = completed_
    BY <1>28 DEF Announced, WorkerSucceed
  <2>5. Uncounted' = Uncounted \cup batch[w]
    BY <1>28, <1>t DEF TypeOK, Uncounted, WorkerSucceed, Goto
  <2>6. /\ Cardinality(Recorded') = Cardinality(Recorded) + Cardinality(batch[w])
        /\ Cardinality(Uncounted') = Cardinality(Uncounted) + Cardinality(batch[w])
    BY <1>t, <2>1, <2>2, <2>3, <2>5, CountUnion
  <2> QED
    BY <1>t, <1>n, <2>1, <2>4, <2>6 DEF CountersExact
<1>29. ASSUME NEW w \in Workers, WorkerCount(w) PROVE CountersExact'
  <2>1. /\ batch[w] \in SUBSET Jobs /\ pc[w] = "count"
        /\ completed_' = completed_ + Cardinality(batch[w])
    BY <1>29, <1>t DEF TypeOK, WorkerCount
  <2>2. /\ Announced' = Announced /\ submitted_' = submitted_
        /\ Recorded' = Recorded
    BY <1>29 DEF Announced, Recorded, WorkerCount
  <2>3. Uncounted = Uncounted' \cup batch[w] /\ Uncounted' \cap batch[w] = {}
        /\ Uncounted' \in SUBSET Jobs
    BY <1>29, <1>t DEF TypeOK, NoOverlap, Uncounted, WorkerCount, Goto
  <2>4. Cardinality(Uncounted) = Cardinality(Uncounted') + Cardinality(batch[w])
    BY <2>1, <2>3, CountUnion
  <2> QED
    BY <1>t, <1>n, <2>1, <2>2, <2>3, <2>4 DEF CountersExact
<1>30. ASSUME NEW w \in Workers, WorkerRelease(w) PROVE CountersExact'
  <2>1. Announced' = Announced
    BY <1>30, <1>t DEF TypeOK, Announced, WorkerRelease
  <2>2. Uncounted' = Uncounted
    BY <1>30, <1>t DEF TypeOK, Scopes, Uncounted, WorkerRelease, Release, Goto
  <2> QED
    BY <1>30, <1>a, <2>1, <2>2 DEF WorkerRelease
<1>31. CASE UNCHANGED vars
  <2>1. Announced' = Announced /\ Uncounted' = Uncounted
    BY <1>31 DEF vars, Announced, Uncounted
  <2> QED
    BY <1>31, <1>a, <2>1 DEF vars
<1> QED
  BY <1>1, <1>2, <1>3, <1>4, <1>5, <1>6, <1>7, <1>8, <1>9, <1>10, <1>11,
     <1>12, <1>13, <1>14, <1>15, <1>16, <1>17, <1>18, <1>19, <1>20,
     <1>21, <1>22, <1>23, <1>24, <1>25, <1>26, <1>27, <1>28, <1>29,
     <1>30, <1>31, StepCases

\* If every submit() under way has returned, and as many jobs are counted as
\* completed as were counted as submitted, every submitted job has its record:
\* the counters alone decide, although three threads update them at moments
\* other than the events they count.
LEMMA CountersDecide ==
  ASSUME IInv, CountersExact, DrainTest,
         \A j \in Jobs : submitPc[j] \in {"new", "done"}
  PROVE  Recorded = Submitted
<1>1. Announced = Submitted
  BY DEF Announced, Submitted
<1>2. Recorded \in SUBSET Submitted /\ Submitted \in SUBSET Jobs
      /\ Uncounted \in SUBSET Jobs
  BY DEF IInv, JobsConserved, Somewhere, Submitted, Uncounted
<1>3. IsFiniteSet(Submitted)
  BY <1>2, JobsAssumption, FS_Subset
<1>4. Cardinality(Recorded) =< Cardinality(Submitted)
  BY <1>2, <1>3, FS_Subset
<1>5. /\ Cardinality(Uncounted) \in Nat /\ Cardinality(Recorded) \in Nat
      /\ Cardinality(Submitted) \in Nat /\ completed_ \in Nat
  BY <1>2, CountNat DEF IInv, TypeOK
<1>6. Cardinality(Recorded) = Cardinality(Submitted)
  BY <1>1, <1>4, <1>5 DEF CountersExact, DrainTest
<1> QED
  BY <1>2, <1>3, <1>6, FS_Subset

LEMMA CountersHold == Spec => []CountersExact
<1>1. IInv /\ CountersExact /\ [Next]_vars => CountersExact'
  BY CountersStep
<1> QED
  BY <1>1, CountersInit, InvariantHolds, PTL DEF Spec

\* The counters of the daemon's exit test never claim too much: when every
\* submit() has returned and the test succeeds, every submitted job has its
\* record, for any number of jobs and workers and whatever happens on the GPU.
THEOREM DrainTestIsSound == Spec => []DrainTestSound
<1>1. IInv /\ CountersExact => DrainTestSound
  BY CountersDecide DEF DrainTestSound
<1> QED
  BY <1>1, InvariantHolds, CountersHold, PTL

-----------------------------------------------------------------------------
(***************************************************************************)
(* No lost wakeup.  A thread naps only at its own waits, with nothing else *)
(* in hand, and while it is about to join the wait set it holds the mutex, *)
(* so its predicate stays false but for shutdown_, which stop() writes     *)
(* without it: nobody adds the work it tested for before it can be woken.  *)
(***************************************************************************)
WaitPlaces(t) == IF t = Dispatcher THEN {"space", "queue"} ELSE {"take"}

NapsAreWaits == \A t \in Threads : nap[t] # "awake" => pc[t] \in WaitPlaces(t)

StillNothing ==
  \A t \in Threads :
    nap[t] = "blocking" =>
      /\ pc[t] = "space" => Len(batch_queue_) >= MaxQueueDepth
      /\ pc[t] = "queue" => queue_ = {}
      /\ pc[t] = "take"  => batch_queue_ = <<>>

\* The workers awake to take a batch.
Ready == {w \in Workers : pc[w] = "take" /\ nap[w] = "awake"}

\* The three parts of NobodySleepsThroughWork, one for each condition variable.
QueueWakes ==
  Dispatcher \in Asleep("queue") /\ queue_ # {} =>
    \E j \in Jobs : submitPc[j] \in {"count", "notify"}

SpaceWakes ==
  Dispatcher \in Asleep("space") /\ Len(batch_queue_) < MaxQueueDepth =>
    \E w \in Workers : pc[w] = "notify_space"

TakeWakes ==
  Asleep("take") # {} =>
    Len(batch_queue_) =<
      Cardinality(Ready) + (IF pc[Dispatcher] = "notify" THEN 1 ELSE 0)

WaitInv == NapsAreWaits /\ StillNothing /\ QueueWakes /\ SpaceWakes /\ TakeWakes

LEMMA WakesParts == NobodySleepsThroughWork <=> QueueWakes /\ SpaceWakes /\ TakeWakes
BY DEF NobodySleepsThroughWork, QueueWakes, SpaceWakes, TakeWakes, Ready

LEMMA SizesNat ==
  ASSUME TypeOK
  PROVE  /\ Len(batch_queue_) \in Nat
         /\ IsFiniteSet(Ready) /\ IsFiniteSet(Ready')
         /\ Cardinality(Ready) \in Nat /\ Cardinality(Ready') \in Nat
BY SchedulerAssumption, FS_Subset, FS_CardinalityType DEF TypeOK, Ready

\* A step that wakes nobody and takes no batch: only threads that are awake
\* move, none arrives at or leaves a wait of the workers, no notification that
\* is due disappears, and what joins the queue is yet to be announced or comes
\* from a dispatcher that is awake.
Quiet ==
  /\ nap' = nap /\ batch_queue_' = batch_queue_
  /\ \A t \in Threads : pc'[t] # pc[t] => nap[t] = "awake"
  /\ pc[Dispatcher] = "notify" => pc'[Dispatcher] = "notify"
  /\ \A w \in Workers : /\ pc'[w] = "take" <=> pc[w] = "take"
                        /\ pc[w] = "notify_space" => pc'[w] = "notify_space"
  /\ \A j \in Jobs : submitPc[j] \in {"count", "notify"} =>
                       submitPc'[j] \in {"count", "notify"}
  /\ \/ queue_' = queue_
     \/ nap[Dispatcher] = "awake"
     \/ QueueMutexFree /\ \E j \in Jobs : submitPc'[j] = "count"

LEMMA QuietKeeps ==
  ASSUME TypeOK, WaitInv, Quiet
  PROVE  WaitInv'
<1> USE SchedulerAssumption DEF Threads, Quiet, WaitInv
<1>1. NapsAreWaits'
  BY DEF NapsAreWaits, WaitPlaces
<1>2. StillNothing'
  <2> SUFFICES ASSUME NEW t \in Threads, nap'[t] = "blocking"
               PROVE  /\ pc'[t] = "space" => Len(batch_queue_') >= MaxQueueDepth
                      /\ pc'[t] = "queue" => queue_' = {}
                      /\ pc'[t] = "take"  => batch_queue_' = <<>>
    BY DEF StillNothing
  <2>1. nap[t] = "blocking" /\ pc'[t] = pc[t]
    OBVIOUS
  <2>2. pc[t] = "queue" => t = Dispatcher
    BY <2>1 DEF NapsAreWaits, WaitPlaces
  <2>3. pc[t] = "queue" => queue_' = queue_
    BY <2>1, <2>2 DEF QueueMutexFree, Holding
  <2> QED
    BY <2>1, <2>3 DEF StillNothing
<1>3. QueueWakes'
  BY DEF QueueWakes, Asleep
<1>4. SpaceWakes'
  BY DEF SpaceWakes, Asleep
<1>5. TakeWakes'
  <2>1. Ready' = Ready /\ Asleep("take")' = Asleep("take")
    BY DEF Ready, Asleep
  <2>2. Len(batch_queue_) \in Nat /\ Cardinality(Ready) \in Nat
    BY SizesNat
  <2> QED
    BY <2>1, <2>2 DEF TakeWakes
<1> QED
  BY <1>1, <1>2, <1>3, <1>4, <1>5

LEMMA WaitInvInit == Init => WaitInv
<1> SUFFICES ASSUME Init PROVE WaitInv
  OBVIOUS
<1>1. \A place : Asleep(place) = {}
  BY DEF Init, Asleep
<1>2. QueueWakes /\ SpaceWakes /\ TakeWakes
  BY <1>1 DEF QueueWakes, SpaceWakes, TakeWakes
<1>3. NapsAreWaits /\ StillNothing
  BY DEF Init, NapsAreWaits, StillNothing
<1> QED
  BY <1>2, <1>3 DEF WaitInv

LEMMA WaitInvStep ==
  ASSUME TypeOK, Scopes, WaitInv, [Next]_vars
  PROVE  WaitInv'
<1> USE SchedulerAssumption
    DEF Threads, submitVars, packVars, batchVars, recordVars, lifeVars
<1>q. Quiet => WaitInv'
  BY QuietKeeps
<1>t. /\ pc \in [Threads -> DispatcherPcs \cup WorkerPcs]
      /\ nap \in [Threads -> {"awake", "blocking", "asleep"}]
      /\ pc[Dispatcher] \in DispatcherPcs /\ \A w \in Workers : pc[w] \in WorkerPcs
      /\ submitPc \in [Jobs -> SubmitPcs]
      /\ NapsAreWaits /\ StillNothing
      /\ QueueWakes /\ SpaceWakes /\ TakeWakes
      /\ Len(batch_queue_) \in Nat
      /\ IsFiniteSet(Ready) /\ IsFiniteSet(Ready')
      /\ Cardinality(Ready) \in Nat /\ Cardinality(Ready') \in Nat
  BY SizesNat DEF TypeOK, WaitInv
<1>1. ASSUME NEW j \in Jobs, SubmitEnqueue(j) PROVE WaitInv'
  <2>1. Quiet
    BY <1>1, <1>t DEF Quiet, NapsAreWaits, WaitPlaces, SubmitEnqueue
  <2> QED
    BY <2>1, <1>q
<1>2. ASSUME NEW j \in Jobs, SubmitCount(j) PROVE WaitInv'
  <2>1. Quiet
    BY <1>2, <1>t DEF Quiet, NapsAreWaits, WaitPlaces, SubmitCount
  <2> QED
    BY <2>1, <1>q
<1>3. ASSUME NEW j \in Jobs, SubmitNotify(j) PROVE WaitInv'
  <2>1. UNCHANGED <<queue_, pc, batch_queue_>>
        /\ \A t \in Threads : nap'[t] = nap[t] \/ (nap[t] = "asleep" /\ nap'[t] = "awake")
    BY <1>3, <1>t DEF SubmitNotify, NotifyOne, Asleep
  <2>2. \A t \in Threads : nap'[t] # "awake" => nap'[t] = nap[t]
    BY <2>1
  <2>3. ~(pc'[Dispatcher] = "queue" /\ nap'[Dispatcher] = "asleep")
    BY <1>3, <1>t DEF SubmitNotify, NotifyOne, Asleep, NapsAreWaits, WaitPlaces
  <2>4. \A w \in Workers : nap'[w] = nap[w]
    BY <1>3, <1>t DEF SubmitNotify, NotifyOne, Asleep, NapsAreWaits, WaitPlaces
  <2>n. NapsAreWaits'
    BY <1>t, <2>1 DEF NapsAreWaits, WaitPlaces
  <2>b. StillNothing'
    BY <1>t, <2>1, <2>2 DEF StillNothing, NapsAreWaits, WaitPlaces
  <2>q. QueueWakes'
    BY <2>1, <2>3 DEF QueueWakes, Asleep
  <2>s. SpaceWakes'
    BY <1>t, <2>1 DEF SpaceWakes, Asleep
  <2>t. TakeWakes'
    BY <1>t, <2>1, <2>4 DEF TakeWakes, Ready, Asleep
  <2> QED
    BY <2>n, <2>b, <2>q, <2>s, <2>t DEF WaitInv
<1>4. ASSUME Start PROVE WaitInv'
  <2>1. \A t \in Threads : pc[t] = "exited"
    BY <1>4 DEF Scopes, Start
  <2>2. \A t \in Threads : nap'[t] = "awake"
    BY <1>4, <1>t, <2>1 DEF NapsAreWaits, WaitPlaces, Start
  <2>3. \A place : Asleep(place)' = {}
    BY <2>2 DEF Asleep
  <2> QED
    BY <2>2, <2>3 DEF WaitInv, NapsAreWaits, StillNothing, QueueWakes, SpaceWakes, TakeWakes
<1>5. ASSUME StopFlag PROVE WaitInv'
  <2>1. Quiet
    BY <1>5, <1>t DEF Quiet, NapsAreWaits, WaitPlaces, StopFlag
  <2> QED
    BY <2>1, <1>q
<1>6. ASSUME StopNotify PROVE WaitInv'
  <2>1. UNCHANGED <<queue_, pc, batch_queue_, submitPc>>
        /\ \A t \in Threads : nap'[t] = nap[t] \/ nap'[t] = "awake"
    BY <1>6, <1>t DEF StopNotify, NotifyAll
  <2>n. NapsAreWaits'
    BY <1>t, <2>1 DEF NapsAreWaits, WaitPlaces
  <2>b. StillNothing'
    BY <1>t, <2>1 DEF StillNothing
  <2>q. QueueWakes'
    BY <1>t, <2>1 DEF QueueWakes, Asleep
  <2>s. SpaceWakes'
    BY <1>t, <2>1 DEF SpaceWakes, Asleep
  <2>t. TakeWakes'
    <3>1. CASE stopPc = "take"
      <4>1. Asleep("take")' = {}
        BY <1>6, <1>t, <3>1 DEF StopNotify, NotifyAll, Asleep
      <4> QED
        BY <4>1 DEF TakeWakes
    <3>2. CASE stopPc # "take"
      <4>1. \A w \in Workers : nap'[w] = nap[w]
        BY <1>6, <1>t, <3>2
           DEF StopNotify, NotifyAll, Asleep, NapsAreWaits, WaitPlaces
      <4> QED
        BY <1>t, <2>1, <4>1 DEF TakeWakes, Ready, Asleep
    <3> QED
      BY <3>1, <3>2
  <2> QED
    BY <2>n, <2>b, <2>q, <2>s, <2>t DEF WaitInv
<1>7. ASSUME StopJoin PROVE WaitInv'
  <2>1. Quiet
    BY <1>7, <1>t DEF Quiet, NapsAreWaits, WaitPlaces, StopJoin
  <2> QED
    BY <2>1, <1>q
<1>8. ASSUME NEW t \in Threads, WaitBlock(t) PROVE WaitInv'
  <2>1. /\ UNCHANGED <<queue_, pc, batch_queue_, submitPc>>
        /\ pc[t] \in {"space", "queue", "take"} /\ nap[t] = "awake"
        /\ nap'[t] = "blocking" /\ \A u \in Threads \ {t} : nap'[u] = nap[u]
    BY <1>8, <1>t DEF WaitBlock
  <2>2. /\ t = Dispatcher => pc[t] \in {"space", "queue"}
        /\ t # Dispatcher => pc[t] = "take"
        /\ pc[t] = "space" => Len(batch_queue_) >= MaxQueueDepth
        /\ pc[t] = "queue" => queue_ = {}
        /\ pc[t] = "take" => batch_queue_ = <<>>
    <3>1. /\ t = Dispatcher => pc[t] \in {"space", "queue"}
          /\ t # Dispatcher => pc[t] = "take"
      BY <1>t, <2>1 DEF DispatcherPcs, WorkerPcs
    <3>2. /\ ~(pc[t] = "space" /\ Len(batch_queue_) < MaxQueueDepth)
          /\ ~(pc[t] = "queue" /\ queue_ # {})
          /\ ~(pc[t] = "take"  /\ batch_queue_ # <<>>)
      BY <1>8 DEF WaitBlock, WaitOver
    <3> QED
      BY <1>t, <3>1, <3>2, DepthNat
  <2>n. NapsAreWaits'
    BY <1>t, <2>1, <2>2 DEF NapsAreWaits, WaitPlaces
  <2>b. StillNothing'
    BY <1>t, <2>1, <2>2 DEF StillNothing
  <2>q. QueueWakes'
    BY <1>t, <2>1 DEF QueueWakes, Asleep
  <2>s. SpaceWakes'
    BY <1>t, <2>1 DEF SpaceWakes, Asleep
  <2>t. TakeWakes'
    <3>1. CASE t = Dispatcher
      BY <1>t, <2>1, <3>1 DEF TakeWakes, Ready, Asleep
    <3>2. CASE t # Dispatcher
      <4>1. Len(batch_queue_') = 0
        BY <2>1, <2>2, <3>2
      <4> QED
        BY <1>t, <4>1 DEF TakeWakes
    <3> QED
      BY <3>1, <3>2
  <2> QED
    BY <2>n, <2>b, <2>q, <2>s, <2>t DEF WaitInv
<1>9. ASSUME NEW t \in Threads, WaitSleep(t) PROVE WaitInv'
  <2>1. /\ UNCHANGED <<queue_, pc, batch_queue_, submitPc>>
        /\ nap[t] = "blocking"
        /\ nap'[t] = "asleep" /\ \A u \in Threads \ {t} : nap'[u] = nap[u]
    BY <1>9, <1>t DEF WaitSleep
  <2>2. /\ pc[t] = "space" => ~(Len(batch_queue_) < MaxQueueDepth)
        /\ pc[t] = "queue" => queue_ = {}
        /\ pc[t] = "take" => batch_queue_ = <<>>
    BY <1>t, <2>1, DepthNat DEF StillNothing
  <2>n. NapsAreWaits'
    BY <1>t, <2>1 DEF NapsAreWaits, WaitPlaces
  <2>b. StillNothing'
    BY <1>t, <2>1 DEF StillNothing
  <2>q. QueueWakes'
    BY <1>t, <2>1, <2>2 DEF QueueWakes, Asleep
  <2>s. SpaceWakes'
    BY <1>t, <2>1, <2>2 DEF SpaceWakes, Asleep
  <2>t. TakeWakes'
    <3>1. CASE t = Dispatcher
      BY <1>t, <2>1, <3>1
         DEF TakeWakes, Ready, Asleep, NapsAreWaits, WaitPlaces
    <3>2. CASE t # Dispatcher
      <4>1. Len(batch_queue_') = 0
        BY <1>t, <2>1, <2>2, <3>2 DEF NapsAreWaits, WaitPlaces
      <4> QED
        BY <1>t, <4>1 DEF TakeWakes
    <3> QED
      BY <3>1, <3>2
  <2> QED
    BY <2>n, <2>b, <2>q, <2>s, <2>t DEF WaitInv
<1>10. ASSUME NEW t \in Threads, SpuriousWakeup(t) PROVE WaitInv'
  <2>1. /\ UNCHANGED <<queue_, pc, batch_queue_, submitPc>>
        /\ nap[t] = "asleep"
        /\ nap'[t] = "awake" /\ \A u \in Threads \ {t} : nap'[u] = nap[u]
    BY <1>10, <1>t DEF SpuriousWakeup
  <2>n. NapsAreWaits'
    BY <1>t, <2>1 DEF NapsAreWaits, WaitPlaces
  <2>b. StillNothing'
    BY <1>t, <2>1 DEF StillNothing
  <2>q. QueueWakes'
    BY <1>t, <2>1 DEF QueueWakes, Asleep
  <2>s. SpaceWakes'
    BY <1>t, <2>1 DEF SpaceWakes, Asleep
  <2>t. TakeWakes'
    <3>1. Ready \in SUBSET Ready' /\ IsFiniteSet(Ready')
      BY <1>t, <2>1 DEF Ready
    <3>2. Cardinality(Ready) =< Cardinality(Ready')
      BY <3>1, FS_Subset
    <3> QED
      BY <1>t, <2>1, <3>2 DEF TakeWakes, Asleep
  <2> QED
    BY <2>n, <2>b, <2>q, <2>s, <2>t DEF WaitInv
<1>11. ASSUME DispatcherSpace PROVE WaitInv'
  <2>1. Quiet
    BY <1>11, <1>t DEF Quiet, NapsAreWaits, WaitPlaces, DispatcherSpace, PassesWait, Goto
  <2> QED
    BY <2>1, <1>q
<1>12. ASSUME DispatcherQuit PROVE WaitInv'
  <2>1. Quiet
    BY <1>12, <1>t DEF Quiet, NapsAreWaits, WaitPlaces, DispatcherQuit, PassesWait, Goto
  <2> QED
    BY <2>1, <1>q
<1>13. ASSUME DispatcherDrain PROVE WaitInv'
  <2>1. Quiet
    BY <1>13, <1>t DEF Quiet, NapsAreWaits, WaitPlaces, DispatcherDrain, PassesWait, Goto
  <2> QED
    BY <2>1, <1>q
<1>14. ASSUME DispatcherNoGpu PROVE WaitInv'
  <2>1. Quiet
    BY <1>14, <1>t DEF Quiet, NapsAreWaits, WaitPlaces, DispatcherNoGpu, Goto
  <2> QED
    BY <2>1, <1>q
<1>15. ASSUME DispatcherReject PROVE WaitInv'
  <2>1. Quiet
    BY <1>15, <1>t DEF Quiet, NapsAreWaits, WaitPlaces, DispatcherReject, Goto
  <2> QED
    BY <2>1, <1>q
<1>16. ASSUME DispatcherSample PROVE WaitInv'
  <2>1. Quiet
    BY <1>16, <1>t DEF Quiet, NapsAreWaits, WaitPlaces, DispatcherSample, Goto
  <2> QED
    BY <2>1, <1>q
<1>17. ASSUME DispatcherPack PROVE WaitInv'
  <2>1. Quiet
    BY <1>17, <1>t DEF Quiet, NapsAreWaits, WaitPlaces, DispatcherPack, Goto
  <2> QED
    BY <2>1, <1>q
<1>18. ASSUME DispatcherRequeue PROVE WaitInv'
  <2>1. Quiet
    BY <1>18, <1>t DEF Quiet, NapsAreWaits, WaitPlaces, DispatcherRequeue, Goto
  <2> QED
    BY <2>1, <1>q
<1>19. ASSUME DispatcherReserve PROVE WaitInv'
  <2>1. Quiet
    BY <1>19, <1>t DEF Quiet, NapsAreWaits, WaitPlaces, DispatcherReserve, Goto
  <2> QED
    BY <2>1, <1>q
<1>20. ASSUME DispatcherPush PROVE WaitInv'
  <2>1. /\ UNCHANGED <<queue_, submitPc>> /\ nap' = nap
        /\ pc[Dispatcher] = "push" /\ pc'[Dispatcher] = "notify"
        /\ \A u \in Threads \ {Dispatcher} : pc'[u] = pc[u]
        /\ \A u \in Threads : ~(pc[u] \in {"space", "take"} /\ nap[u] = "blocking")
    BY <1>20, <1>t DEF DispatcherPush, Goto, BatchMutexFree, Holding
  <2>2. Len(batch_queue_') = Len(batch_queue_) + 1
    BY <1>20 DEF TypeOK, DispatcherPush
  <2>n. NapsAreWaits'
    BY <1>t, <2>1, <2>2 DEF NapsAreWaits, WaitPlaces
  <2>b. StillNothing'
    BY <1>t, <2>1, <2>2 DEF StillNothing
  <2>q. QueueWakes'
    BY <2>1 DEF QueueWakes, Asleep
  <2>s. SpaceWakes'
    BY <2>1 DEF SpaceWakes, Asleep
  <2>t. TakeWakes'
    <3>1. Ready' = Ready /\ Asleep("take")' = Asleep("take")
      BY <1>t, <2>1 DEF Ready, Asleep
    <3> QED
      BY <1>t, <2>1, <2>2, <3>1 DEF TakeWakes
  <2> QED
    BY <2>n, <2>b, <2>q, <2>s, <2>t DEF WaitInv
<1>21. ASSUME DispatcherNotify PROVE WaitInv'
  <2>1. /\ UNCHANGED <<queue_, submitPc, batch_queue_>>
        /\ pc[Dispatcher] = "notify" /\ pc'[Dispatcher] = "space"
        /\ \A u \in Threads \ {Dispatcher} : pc'[u] = pc[u]
        /\ nap[Dispatcher] = "awake" /\ nap'[Dispatcher] = "awake"
        /\ \A u \in Threads : nap'[u] = nap[u] \/ nap'[u] = "awake"
    BY <1>21, <1>t
       DEF DispatcherNotify, NotifyOne, Asleep, Goto, NapsAreWaits, WaitPlaces
  <2>n. NapsAreWaits'
    BY <1>t, <2>1 DEF NapsAreWaits, WaitPlaces
  <2>b. StillNothing'
    BY <1>t, <2>1 DEF StillNothing
  <2>q. QueueWakes'
    BY <1>t, <2>1 DEF QueueWakes, Asleep
  <2>s. SpaceWakes'
    BY <1>t, <2>1 DEF SpaceWakes, Asleep
  <2>t. TakeWakes'
    <3>1. CASE Asleep("take") = {}
      <4>1. Asleep("take")' = {}
        BY <1>t, <2>1, <3>1 DEF Asleep
      <4> QED
        BY <4>1 DEF TakeWakes
    <3>2. CASE Asleep("take") # {}
      <4>1. PICK u \in Asleep("take") : nap' = [nap EXCEPT ![u] = "awake"]
        BY <1>21, <3>2 DEF DispatcherNotify, NotifyOne
      <4>2. u \in Workers /\ u \notin Ready /\ Ready' = Ready \cup {u}
        BY <1>t, <2>1, <4>1 DEF Ready, Asleep
      <4>3. Cardinality(Ready') = Cardinality(Ready) + 1
        BY <1>t, <4>2, FS_AddElement
      <4> QED
        BY <1>t, <2>1, <3>2, <4>3 DEF TakeWakes
    <3> QED
      BY <3>1, <3>2
  <2> QED
    BY <2>n, <2>b, <2>q, <2>s, <2>t DEF WaitInv
<1>22. ASSUME NEW w \in Workers, WorkerTake(w) PROVE WaitInv'
  <2>1. /\ UNCHANGED <<queue_, submitPc>> /\ nap' = nap
        /\ pc[w] = "take" /\ nap[w] = "awake" /\ pc'[w] = "notify_space"
        /\ \A u \in Threads \ {w} : pc'[u] = pc[u]
        /\ \A u \in Threads : ~(pc[u] \in {"space", "take"} /\ nap[u] = "blocking")
    BY <1>22, <1>t DEF WorkerTake, PassesWait, Goto, MutexFree, BatchMutexFree, Holding
  <2>2. Len(batch_queue_') = Len(batch_queue_) - 1
    BY <1>22 DEF TypeOK, WorkerTake
  <2>n. NapsAreWaits'
    BY <1>t, <2>1 DEF NapsAreWaits, WaitPlaces
  <2>b. StillNothing'
    BY <1>t, <2>1, <2>2 DEF StillNothing
  <2>q. QueueWakes'
    BY <1>t, <2>1 DEF QueueWakes, Asleep
  <2>s. SpaceWakes'
    BY <2>1 DEF SpaceWakes, Asleep
  <2>t. TakeWakes'
    <3>1. Ready' = Ready \ {w} /\ w \in Ready /\ Asleep("take")' = Asleep("take")
      BY <2>1 DEF Ready, Asleep
    <3>2. Cardinality(Ready') = Cardinality(Ready) - 1
      BY <1>t, <3>1, FS_RemoveElement
    <3> QED
      BY <1>t, <2>1, <2>2, <3>1, <3>2 DEF TakeWakes
  <2> QED
    BY <2>n, <2>b, <2>q, <2>s, <2>t DEF WaitInv
<1>23. ASSUME NEW w \in Workers, WorkerQuit(w) PROVE WaitInv'
  <2>1. /\ UNCHANGED <<queue_, submitPc>> /\ nap' = nap
        /\ batch_queue_' = batch_queue_ /\ Len(batch_queue_) = 0
        /\ pc[w] = "take" /\ nap[w] = "awake" /\ pc'[w] = "exited"
        /\ \A u \in Threads \ {w} : pc'[u] = pc[u]
    BY <1>23, <1>t DEF WorkerQuit, PassesWait, Goto
  <2>n. NapsAreWaits'
    BY <1>t, <2>1 DEF NapsAreWaits, WaitPlaces
  <2>b. StillNothing'
    BY <1>t, <2>1 DEF StillNothing
  <2>q. QueueWakes'
    BY <1>t, <2>1 DEF QueueWakes, Asleep
  <2>s. SpaceWakes'
    BY <1>t, <2>1 DEF SpaceWakes, Asleep
  <2>t. TakeWakes'
    BY <1>t, <2>1 DEF TakeWakes
  <2> QED
    BY <2>n, <2>b, <2>q, <2>s, <2>t DEF WaitInv
<1>24. ASSUME NEW w \in Workers, WorkerNotifySpace(w) PROVE WaitInv'
  <2>1. /\ UNCHANGED <<queue_, submitPc, batch_queue_>>
        /\ pc[w] = "notify_space" /\ pc'[w] = "run"
        /\ \A u \in Threads \ {w} : pc'[u] = pc[u]
        /\ nap[w] = "awake" /\ nap'[w] = "awake"
        /\ \A u \in Threads : nap'[u] = nap[u] \/ nap'[u] = "awake"
    BY <1>24, <1>t
       DEF WorkerNotifySpace, NotifyOne, Asleep, Goto, NapsAreWaits, WaitPlaces
  <2>2. ~(pc'[Dispatcher] = "space" /\ nap'[Dispatcher] = "asleep")
    BY <1>24, <1>t, <2>1
       DEF WorkerNotifySpace, NotifyOne, Asleep, NapsAreWaits, WaitPlaces
  <2>3. \A u \in Workers : nap'[u] = nap[u]
    BY <1>24, <1>t
       DEF WorkerNotifySpace, NotifyOne, Asleep, NapsAreWaits, WaitPlaces
  <2>n. NapsAreWaits'
    BY <1>t, <2>1 DEF NapsAreWaits, WaitPlaces
  <2>b. StillNothing'
    BY <1>t, <2>1 DEF StillNothing
  <2>q. QueueWakes'
    BY <1>t, <2>1 DEF QueueWakes, Asleep
  <2>s. SpaceWakes'
    BY <2>2 DEF SpaceWakes, Asleep
  <2>t. TakeWakes'
    <3>1. Ready' = Ready /\ Asleep("take")' = Asleep("take")
      BY <1>t, <2>1, <2>3 DEF Ready, Asleep, NapsAreWaits, WaitPlaces
    <3> QED
      BY <1>t, <2>1, <3>1 DEF TakeWakes
  <2> QED
    BY <2>n, <2>b, <2>q, <2>s, <2>t DEF WaitInv
<1>25. ASSUME NEW w \in Workers, WorkerNoGpu(w) PROVE WaitInv'
  <2>1. Quiet
    BY <1>25, <1>t DEF Quiet, NapsAreWaits, WaitPlaces, WorkerNoGpu, Goto
  <2> QED
    BY <2>1, <1>q
<1>26. ASSUME NEW w \in Workers, WorkerFail(w) PROVE WaitInv'
  <2>1. Quiet
    BY <1>26, <1>t DEF Quiet, NapsAreWaits, WaitPlaces, WorkerFail, Goto
  <2> QED
    BY <2>1, <1>q
<1>27. ASSUME NEW w \in Workers, WorkerThrow(w) PROVE WaitInv'
  <2>1. Quiet
    BY <1>27, <1>t DEF Quiet, NapsAreWaits, WaitPlaces, WorkerThrow, Goto
  <2> QED
    BY <2>1, <1>q
<1>28. ASSUME NEW w \in Workers, WorkerSucceed(w) PROVE WaitInv'
  <2>1. Quiet
    BY <1>28, <1>t DEF Quiet, NapsAreWaits, WaitPlaces, WorkerSucceed, Goto
  <2> QED
    BY <2>1, <1>q
<1>29. ASSUME NEW w \in Workers, WorkerCount(w) PROVE WaitInv'
  <2>1. Quiet
    BY <1>29, <1>t DEF Quiet, NapsAreWaits, WaitPlaces, WorkerCount, Goto
  <2> QED
    BY <2>1, <1>q
<1>30. ASSUME NEW w \in Workers, WorkerRelease(w) PROVE WaitInv'
  <2>1. /\ UNCHANGED <<queue_, submitPc, batch_queue_>> /\ nap' = nap
        /\ pc[w] = "release" /\ nap[w] = "awake" /\ pc'[w] = "take"
        /\ \A u \in Threads \ {w} : pc'[u] = pc[u]
    BY <1>30, <1>t DEF WorkerRelease, Goto, NapsAreWaits, WaitPlaces
  <2>n. NapsAreWaits'
    BY <1>t, <2>1 DEF NapsAreWaits, WaitPlaces
  <2>b. StillNothing'
    BY <1>t, <2>1 DEF StillNothing
  <2>q. QueueWakes'
    BY <1>t, <2>1 DEF QueueWakes, Asleep
  <2>s. SpaceWakes'
    BY <1>t, <2>1 DEF SpaceWakes, Asleep
  <2>t. TakeWakes'
    <3>1. Ready \in SUBSET Ready' /\ IsFiniteSet(Ready')
      BY <1>t, <2>1 DEF Ready
    <3>2. Cardinality(Ready) =< Cardinality(Ready')
      BY <3>1, FS_Subset
    <3> QED
      BY <1>t, <2>1, <3>2 DEF TakeWakes, Asleep
  <2> QED
    BY <2>n, <2>b, <2>q, <2>s, <2>t DEF WaitInv
<1>31. CASE UNCHANGED vars
  <2>1. Quiet
    BY <1>31 DEF Quiet, vars
  <2> QED
    BY <2>1, <1>q
<1> QED
  BY <1>1, <1>2, <1>3, <1>4, <1>5, <1>6, <1>7, <1>8, <1>9, <1>10, <1>11,
     <1>12, <1>13, <1>14, <1>15, <1>16, <1>17, <1>18, <1>19, <1>20,
     <1>21, <1>22, <1>23, <1>24, <1>25, <1>26, <1>27, <1>28, <1>29,
     <1>30, <1>31, StepCases

LEMMA WaitInvHolds == Spec => []WaitInv
<1>1. IInv /\ WaitInv /\ [Next]_vars => WaitInv'
  BY WaitInvStep DEF IInv
<1> QED
  BY <1>1, WaitInvInit, InvariantHolds, PTL DEF Spec

\* No wakeup is lost, for any number of jobs and workers, with spurious wakeups
\* or without, during a shutdown or not: whenever a thread is asleep and there
\* is work for it, the notification that will wake it is still to be sent, or
\* enough other threads are awake.  notify_one is enough everywhere.
THEOREM NoLostWakeup == Spec => []NobodySleepsThroughWork
<1>1. WaitInv => NobodySleepsThroughWork
  BY WakesParts DEF WaitInv
<1> QED
  BY <1>1, WaitInvHolds, PTL

-----------------------------------------------------------------------------
(***************************************************************************)
(* The scheduler implements JobService: every behaviour of Scheduler, seen *)
(* through Status and started_, is a behaviour of the abstract service.    *)
(***************************************************************************)

(***************************************************************************)
(* Every batch, from the packing to its release, respects the batch cap    *)
(* and fits the largest budget on its own.                                 *)
(***************************************************************************)
BatchesFit ==
  /\ Fits(selected, Capacity)
  /\ \A i \in 1..Len(batch_queue_) : Fits(batch_queue_[i], Capacity)
  /\ \A w \in Workers : Fits(batch[w], Capacity)

LEMMA EmptyFits == Fits({}, Capacity)
<1>1. Cardinality({}) = 0
  BY FS_EmptySet
<1> QED
  BY <1>1, NeedEmpty, CapacityNat, JobsAssumption DEF Fits

LEMMA BatchesFitInit == Init => BatchesFit
BY EmptyFits DEF Init, BatchesFit

LEMMA BatchesFitStep ==
  ASSUME IInv, BatchesFit, [Next]_vars
  PROVE  BatchesFit'
<1> USE DEF submitVars, packVars, batchVars, recordVars, lifeVars
<1>a. TypeOK /\ BudgetKept
  BY DEF IInv
\* A constant-level formula about a set of jobs: what fits goes on fitting.
<1>b. ASSUME \/ selected' = selected
             \/ Fits(selected', Capacity),
             UNCHANGED batch_queue_,
             \A w \in Workers : batch'[w] \in {batch[w], {}}
      PROVE  BatchesFit'
  BY <1>b, EmptyFits DEF BatchesFit
<1>1. ASSUME NEW j \in Jobs, SubmitEnqueue(j) PROVE BatchesFit'
  BY <1>a, <1>1, <1>b DEF TypeOK, SubmitEnqueue
<1>2. ASSUME NEW j \in Jobs, SubmitCount(j) PROVE BatchesFit'
  BY <1>a, <1>2, <1>b DEF TypeOK, SubmitCount
<1>3. ASSUME NEW j \in Jobs, SubmitNotify(j) PROVE BatchesFit'
  BY <1>a, <1>3, <1>b DEF TypeOK, SubmitNotify, NotifyOne, Asleep
<1>4. ASSUME Start PROVE BatchesFit'
  BY <1>a, <1>4, <1>b DEF TypeOK, Start
<1>5. ASSUME StopFlag PROVE BatchesFit'
  BY <1>a, <1>5, <1>b DEF TypeOK, StopFlag
<1>6. ASSUME StopNotify PROVE BatchesFit'
  BY <1>a, <1>6, <1>b DEF TypeOK, StopNotify, NotifyAll, Asleep
<1>7. ASSUME StopJoin PROVE BatchesFit'
  BY <1>a, <1>7, <1>b DEF TypeOK, StopJoin
<1>8. ASSUME NEW t \in Threads, WaitBlock(t) PROVE BatchesFit'
  BY <1>a, <1>8, <1>b DEF TypeOK, WaitBlock
<1>9. ASSUME NEW t \in Threads, WaitSleep(t) PROVE BatchesFit'
  BY <1>a, <1>9, <1>b DEF TypeOK, WaitSleep
<1>10. ASSUME NEW t \in Threads, SpuriousWakeup(t) PROVE BatchesFit'
  BY <1>a, <1>10, <1>b DEF TypeOK, SpuriousWakeup
<1>11. ASSUME DispatcherSpace PROVE BatchesFit'
  BY <1>a, <1>11, <1>b DEF TypeOK, DispatcherSpace, PassesWait, Goto
<1>12. ASSUME DispatcherQuit PROVE BatchesFit'
  BY <1>a, <1>12, <1>b DEF TypeOK, DispatcherQuit, PassesWait, Goto
<1>13. ASSUME DispatcherDrain PROVE BatchesFit'
  BY <1>a, <1>13, <1>b DEF TypeOK, DispatcherDrain, PassesWait, Goto
<1>14. ASSUME DispatcherNoGpu PROVE BatchesFit'
  BY <1>a, <1>14, <1>b DEF TypeOK, DispatcherNoGpu, FailBatch, Record, Goto
<1>15. ASSUME DispatcherReject PROVE BatchesFit'
  BY <1>a, <1>15, <1>b DEF TypeOK, DispatcherReject, FailBatch, Record, Oversized, Goto
<1>16. ASSUME DispatcherSample PROVE BatchesFit'
  BY <1>a, <1>16, <1>b DEF TypeOK, DispatcherSample, BaseBudget, Goto
<1>17. ASSUME DispatcherPack PROVE BatchesFit'
  <2>1. PICK bucket \in [candidates -> 0..MaxBucket], S \in SUBSET candidates :
          /\ Packs(S, candidates, bucket, seq, Budget)
          /\ selected' = S
    BY <1>17 DEF DispatcherPack
  <2>2. Fits(S, Budget)
    BY <2>1 DEF Packs
  <2>3. Budget =< Capacity /\ Budget \in Nat
    BY <1>a, <1>17, CapacityNat DEF TypeOK, BudgetKept, Budget, DispatcherPack
  <2>4. Need(S) \in Nat
    BY <1>a, <2>1, NeedNat DEF TypeOK
  <2>5. Fits(S, Capacity)
    BY <2>2, <2>3, <2>4, CapacityNat DEF Fits
  <2> QED
    BY <1>17, <1>b, <2>1, <2>5 DEF DispatcherPack
<1>18. ASSUME DispatcherRequeue PROVE BatchesFit'
  BY <1>a, <1>18, <1>b DEF TypeOK, DispatcherRequeue, Goto
<1>19. ASSUME DispatcherReserve PROVE BatchesFit'
  BY <1>a, <1>19, <1>b DEF TypeOK, DispatcherReserve, Goto
<1>20. ASSUME DispatcherPush PROVE BatchesFit'
  <2>1. selected \in SUBSET Jobs
    BY <1>a DEF TypeOK
  <2>2. /\ Len(batch_queue_') = Len(batch_queue_) + 1
        /\ \A i \in 1..Len(batch_queue_) : batch_queue_'[i] = batch_queue_[i]
        /\ batch_queue_'[Len(batch_queue_) + 1] = selected
    BY <1>a, <1>20, <2>1, BatchedPush DEF DispatcherPush
  <2>3. Len(batch_queue_) \in Nat
    BY <1>a DEF TypeOK
  <2>4. \A i \in 1..Len(batch_queue_') : Fits(batch_queue_'[i], Capacity)
    BY <2>2, <2>3 DEF BatchesFit
  <2> QED
    BY <1>20, <2>4, EmptyFits DEF BatchesFit, DispatcherPush
<1>21. ASSUME DispatcherNotify PROVE BatchesFit'
  BY <1>a, <1>21, <1>b DEF TypeOK, DispatcherNotify, NotifyOne, Asleep, Goto
<1>22. ASSUME NEW w \in Workers, WorkerTake(w) PROVE BatchesFit'
  <2>1. batch_queue_ \in Seq(SUBSET Jobs) /\ batch_queue_ # <<>>
    BY <1>a, <1>22 DEF TypeOK, WorkerTake
  <2>2. /\ Head(batch_queue_) = batch_queue_[1]
        /\ 1 \in 1..Len(batch_queue_)
        /\ \A i \in 1..Len(Tail(batch_queue_)) :
             /\ i + 1 \in 1..Len(batch_queue_)
             /\ Tail(batch_queue_)[i] = batch_queue_[i + 1]
    BY <2>1
  <2>3. Fits(Head(batch_queue_), Capacity)
    BY <2>2 DEF BatchesFit
  <2>4. \A i \in 1..Len(batch_queue_') : Fits(batch_queue_'[i], Capacity)
    BY <1>22, <2>2 DEF BatchesFit, WorkerTake
  <2>5. \A v \in Workers : Fits(batch'[v], Capacity)
    BY <1>a, <1>22, <2>3 DEF TypeOK, BatchesFit, WorkerTake
  <2> QED
    BY <1>22, <2>4, <2>5 DEF BatchesFit, WorkerTake
<1>23. ASSUME NEW w \in Workers, WorkerQuit(w) PROVE BatchesFit'
  BY <1>a, <1>23, <1>b DEF TypeOK, WorkerQuit, PassesWait, Goto
<1>24. ASSUME NEW w \in Workers, WorkerNotifySpace(w) PROVE BatchesFit'
  BY <1>a, <1>24, <1>b DEF TypeOK, WorkerNotifySpace, NotifyOne, Asleep, Goto
<1>25. ASSUME NEW w \in Workers, WorkerNoGpu(w) PROVE BatchesFit'
  BY <1>a, <1>25, <1>b DEF TypeOK, WorkerNoGpu, FailBatch, Record, Goto
<1>26. ASSUME NEW w \in Workers, WorkerFail(w) PROVE BatchesFit'
  BY <1>a, <1>26, <1>b DEF TypeOK, WorkerFail, FailBatch, Record, Goto
<1>27. ASSUME NEW w \in Workers, WorkerThrow(w) PROVE BatchesFit'
  BY <1>a, <1>27, <1>b DEF TypeOK, WorkerThrow, Release
<1>28. ASSUME NEW w \in Workers, WorkerSucceed(w) PROVE BatchesFit'
  BY <1>a, <1>28, <1>b DEF TypeOK, WorkerSucceed, Record, Goto
<1>29. ASSUME NEW w \in Workers, WorkerCount(w) PROVE BatchesFit'
  BY <1>a, <1>29, <1>b DEF TypeOK, WorkerCount, Goto
<1>30. ASSUME NEW w \in Workers, WorkerRelease(w) PROVE BatchesFit'
  BY <1>a, <1>30, <1>b DEF TypeOK, WorkerRelease, Release, Goto
<1>31. CASE UNCHANGED vars
  BY <1>31, <1>b DEF vars
<1> QED
  BY <1>1, <1>2, <1>3, <1>4, <1>5, <1>6, <1>7, <1>8, <1>9, <1>10, <1>11,
     <1>12, <1>13, <1>14, <1>15, <1>16, <1>17, <1>18, <1>19, <1>20,
     <1>21, <1>22, <1>23, <1>24, <1>25, <1>26, <1>27, <1>28, <1>29,
     <1>30, <1>31, StepCases

LEMMA StrongInvariantHolds == Spec => [](IInv /\ BatchesFit)
<1>1. Init => IInv /\ BatchesFit
  BY TypeInit, ScopesInit, ConservedInit, ReservationInit, BatchesFitInit
     DEF IInv
<1>2. IInv /\ BatchesFit /\ [Next]_vars => (IInv /\ BatchesFit)'
  BY TypeStep, ScopesStep, ConservedStep, ReservationStep, BatchesFitStep
     DEF IInv
<1> QED
  BY <1>1, <1>2, PTL DEF Spec

-----------------------------------------------------------------------------
(***************************************************************************)
(* The refinement mapping.                                                 *)
(***************************************************************************)
\* What the service sees of jobs: submitted and recorded jobs, by outcome.
LEMMA AcceptedJobs ==
  ASSUME IInv
  PROVE  /\ \A j \in Jobs : Status[j] = "new" <=> j \notin Submitted
         /\ Service!Accepted = Submitted \ Recorded
<1>1. OnePlace
  BY ConservedParts DEF IInv
<1>2. Recorded \subseteq Submitted
  BY <1>1 DEF OnePlace, Somewhere
<1> QED
  BY <1>2 DEF Status, Submitted, Recorded, Service!Accepted

\* Recording a set of accepted jobs is a step of the service.
LEMMA RecordSettles ==
  ASSUME IInv, NEW S \in SUBSET Jobs, NEW ok \in BOOLEAN, Record(S, ok),
         S \subseteq Submitted \ Recorded,
         started_, UNCHANGED <<started_, submitPc>>,
         ok => Fits(S, Capacity)
  PROVE  [Service!Next]_Service!vars
<1>1. TypeOK
  BY DEF IInv
<1>2. \A j \in Jobs : metrics_[j] \in Seq(BOOLEAN)
  BY <1>1 DEF TypeOK
<1>3. \A j \in S : metrics_[j] = <<>>
  BY DEF Recorded
<1>4. \A j \in S : metrics_'[j] = Append(<<>>, ok)
  BY <1>3, Zenon DEF Record
<1>5. \A j \in Jobs \ S : metrics_'[j] = metrics_[j]
  BY DEF Record
<1> DEFINE outcome == IF ok THEN "ok" ELSE "failed"
<1>6. \A j \in S : Status'[j] = outcome
  <2> TAKE j \in S
  <2>1. metrics_'[j] # <<>> /\ Head(metrics_'[j]) = ok
    <3>1. Append(<<>>, ok) # <<>> /\ Head(Append(<<>>, ok)) = ok
      OBVIOUS
    <3> QED
      BY <1>4, <3>1
  <2>2. submitPc'[j] # "new"
    BY DEF Submitted
  <2> QED
    BY <2>1, <2>2 DEF Status
<1>7. \A j \in Jobs \ S : Status'[j] = Status[j]
  BY <1>5 DEF Status
<1>8. Status' = [j \in Jobs |-> IF j \in S THEN outcome ELSE Status[j]]
  BY <1>6, <1>7 DEF Status
<1>9. CASE S = {}
  BY <1>8, <1>9 DEF Service!vars, Status
<1>10. CASE S # {}
  <2>1. S \subseteq Service!Accepted
    BY AcceptedJobs
  <2>2. outcome = "ok" => S \in Runnable
    BY DEF Runnable
  <2>3. Service!Settle(S, outcome)
    BY <1>8, <1>10, <2>1, <2>2 DEF Service!Settle
  <2>4. outcome \in {"ok", "failed"}
    OBVIOUS
  <2> QED
    BY <2>3, <2>4 DEF Service!Next
<1> QED
  BY <1>9, <1>10

LEMMA FailBatchSettles ==
  ASSUME IInv, NEW S \in SUBSET Jobs, FailBatch(S),
         S \subseteq Submitted \ Recorded,
         started_, UNCHANGED <<started_, submitPc>>
  PROVE  [Service!Next]_Service!vars
<1>1. FALSE \in BOOLEAN
  OBVIOUS
<1> QED
  BY <1>1, RecordSettles, Zenon DEF FailBatch

LEMMA ServiceInit == Init => Service!Init
BY DEF Init, Service!Init, Status

LEMMA ServiceStep ==
  ASSUME IInv, BatchesFit, [Next]_vars
  PROVE  [Service!Next]_Service!vars
<1> USE DEF submitVars, packVars, batchVars, recordVars, lifeVars
<1>a. TypeOK /\ Scopes /\ OnePlace
  BY ConservedParts DEF IInv
\* Steps the callers do not see.
<1>b. ASSUME UNCHANGED <<metrics_, started_>>,
             \A j \in Jobs : submitPc'[j] = "new" <=> submitPc[j] = "new"
      PROVE  [Service!Next]_Service!vars
  BY <1>b DEF Status, Service!vars
\* A thread that is somewhere is a thread of a running scheduler.
<1>c. ASSUME NEW t \in Threads, pc[t] # "exited" PROVE started_
  BY <1>a, <1>c DEF Scopes
<1>1. ASSUME NEW j \in Jobs, SubmitEnqueue(j)
      PROVE  [Service!Next]_Service!vars
  <2>1. j \notin Submitted /\ j \notin Recorded
    BY <1>a, <1>1 DEF Submitted, OnePlace, Somewhere, SubmitEnqueue
  <2>2. Status[j] = "new" /\ Status'[j] = "accepted"
    BY <1>a, <1>1, <2>1 DEF TypeOK, Status, Recorded, SubmitEnqueue
  <2>3. \A i \in Jobs \ {j} : Status'[i] = Status[i]
    BY <1>a, <1>1 DEF TypeOK, Status, SubmitEnqueue
  <2>4. Status' = [Status EXCEPT ![j] = "accepted"]
    BY <2>2, <2>3 DEF Status
  <2>5. Service!Submit(j)
    BY <1>1, <2>2, <2>4 DEF Service!Submit, SubmitEnqueue
  <2> QED
    BY <2>5 DEF Service!Next
<1>2. ASSUME NEW j \in Jobs, SubmitCount(j)
      PROVE  [Service!Next]_Service!vars
  BY <1>a, <1>2, <1>b DEF TypeOK, SubmitCount
<1>3. ASSUME NEW j \in Jobs, SubmitNotify(j)
      PROVE  [Service!Next]_Service!vars
  BY <1>a, <1>3, <1>b DEF TypeOK, SubmitNotify
<1>4. ASSUME Start PROVE [Service!Next]_Service!vars
  <2>1. Status' = Status
    BY <1>4 DEF Status, Start
  <2>2. Service!Start
    BY <1>4, <2>1 DEF Service!Start, Start
  <2> QED
    BY <2>2 DEF Service!Next
<1>5. ASSUME StopFlag PROVE [Service!Next]_Service!vars
  BY <1>a, <1>5, <1>b DEF TypeOK, StopFlag
<1>6. ASSUME StopNotify PROVE [Service!Next]_Service!vars
  BY <1>a, <1>6, <1>b DEF TypeOK, StopNotify
<1>7. ASSUME StopJoin PROVE [Service!Next]_Service!vars
  <2>1. Status' = Status
    BY <1>7 DEF Status, StopJoin
  <2>2. CASE started_
    <3>1. Service!Stop
      BY <1>7, <2>1, <2>2 DEF Service!Stop, StopJoin
    <3> QED
      BY <3>1 DEF Service!Next
  <2>3. CASE ~started_
    BY <1>a, <1>7, <2>1, <2>3 DEF TypeOK, Service!vars, StopJoin
  <2> QED
    BY <2>2, <2>3
<1>8. ASSUME NEW t \in Threads, WaitBlock(t)
      PROVE  [Service!Next]_Service!vars
  BY <1>a, <1>8, <1>b DEF TypeOK, WaitBlock
<1>9. ASSUME NEW t \in Threads, WaitSleep(t)
      PROVE  [Service!Next]_Service!vars
  BY <1>a, <1>9, <1>b DEF TypeOK, WaitSleep
<1>10. ASSUME NEW t \in Threads, SpuriousWakeup(t)
      PROVE  [Service!Next]_Service!vars
  BY <1>a, <1>10, <1>b DEF TypeOK, SpuriousWakeup
<1>11. ASSUME DispatcherSpace PROVE [Service!Next]_Service!vars
  BY <1>a, <1>11, <1>b DEF TypeOK, DispatcherSpace
<1>12. ASSUME DispatcherQuit PROVE [Service!Next]_Service!vars
  BY <1>a, <1>12, <1>b DEF TypeOK, DispatcherQuit
<1>13. ASSUME DispatcherDrain PROVE [Service!Next]_Service!vars
  BY <1>a, <1>13, <1>b DEF TypeOK, DispatcherDrain
<1>14. ASSUME DispatcherNoGpu PROVE [Service!Next]_Service!vars
  <2>1. candidates \in SUBSET Jobs /\ candidates \subseteq Submitted \ Recorded
    BY <1>a DEF TypeOK, OnePlace, Somewhere
  <2>2. started_
    BY <1>14, <1>c DEF Threads, DispatcherNoGpu
  <2> QED
    BY <1>14, <2>1, <2>2, FailBatchSettles DEF DispatcherNoGpu
<1>15. ASSUME DispatcherReject PROVE [Service!Next]_Service!vars
  <2>1. Oversized \in SUBSET Jobs /\ Oversized \subseteq Submitted \ Recorded
    BY <1>a DEF TypeOK, OnePlace, Somewhere, Oversized
  <2>2. started_
    BY <1>15, <1>c DEF Threads, DispatcherReject
  <2> QED
    BY <1>15, <2>1, <2>2, FailBatchSettles DEF DispatcherReject
<1>16. ASSUME DispatcherSample PROVE [Service!Next]_Service!vars
  BY <1>a, <1>16, <1>b DEF TypeOK, DispatcherSample, BaseBudget
<1>17. ASSUME DispatcherPack PROVE [Service!Next]_Service!vars
  BY <1>a, <1>17, <1>b DEF TypeOK, DispatcherPack
<1>18. ASSUME DispatcherRequeue PROVE [Service!Next]_Service!vars
  BY <1>a, <1>18, <1>b DEF TypeOK, DispatcherRequeue
<1>19. ASSUME DispatcherReserve PROVE [Service!Next]_Service!vars
  BY <1>a, <1>19, <1>b DEF TypeOK, DispatcherReserve
<1>20. ASSUME DispatcherPush PROVE [Service!Next]_Service!vars
  BY <1>a, <1>20, <1>b DEF TypeOK, DispatcherPush
<1>21. ASSUME DispatcherNotify PROVE [Service!Next]_Service!vars
  BY <1>a, <1>21, <1>b DEF TypeOK, DispatcherNotify
<1>22. ASSUME NEW w \in Workers, WorkerTake(w)
      PROVE  [Service!Next]_Service!vars
  BY <1>a, <1>22, <1>b DEF TypeOK, WorkerTake
<1>23. ASSUME NEW w \in Workers, WorkerQuit(w)
      PROVE  [Service!Next]_Service!vars
  BY <1>a, <1>23, <1>b DEF TypeOK, WorkerQuit
<1>24. ASSUME NEW w \in Workers, WorkerNotifySpace(w)
      PROVE  [Service!Next]_Service!vars
  BY <1>a, <1>24, <1>b DEF TypeOK, WorkerNotifySpace
<1>25. ASSUME NEW w \in Workers, WorkerNoGpu(w)
      PROVE  [Service!Next]_Service!vars
  <2>1. batch[w] \in SUBSET Jobs
    BY <1>a DEF TypeOK
  <2>2. batch[w] \subseteq Submitted \ Recorded
    BY <1>a, <1>25, HeldJobs DEF OnePlace, Somewhere, WorkerNoGpu
  <2>3. started_
    BY <1>25, <1>c DEF Threads, WorkerNoGpu
  <2> QED
    BY <1>25, <2>1, <2>2, <2>3, FailBatchSettles DEF WorkerNoGpu
<1>26. ASSUME NEW w \in Workers, WorkerFail(w)
      PROVE  [Service!Next]_Service!vars
  <2>1. batch[w] \in SUBSET Jobs
    BY <1>a DEF TypeOK
  <2>2. batch[w] \subseteq Submitted \ Recorded
    BY <1>a, <1>26, HeldJobs DEF OnePlace, Somewhere, WorkerFail
  <2>3. started_
    BY <1>26, <1>c DEF Threads, WorkerFail
  <2> QED
    BY <1>26, <2>1, <2>2, <2>3, FailBatchSettles DEF WorkerFail
<1>27. ASSUME NEW w \in Workers, WorkerThrow(w)
      PROVE  [Service!Next]_Service!vars
  BY <1>a, <1>27, <1>b DEF TypeOK, WorkerThrow
<1>28. ASSUME NEW w \in Workers, WorkerSucceed(w)
      PROVE  [Service!Next]_Service!vars
  <2>1. batch[w] \in SUBSET Jobs
    BY <1>a DEF TypeOK
  <2>2. batch[w] \subseteq Submitted \ Recorded
    BY <1>a, <1>28, HeldJobs DEF OnePlace, Somewhere, WorkerSucceed
  <2>3. started_
    BY <1>28, <1>c DEF Threads, WorkerSucceed
  <2>4. Fits(batch[w], Capacity)
    BY DEF BatchesFit
  <2>5. TRUE \in BOOLEAN /\ Record(batch[w], TRUE)
    BY <1>28 DEF WorkerSucceed
  <2>6. UNCHANGED <<started_, submitPc>>
    BY <1>28 DEF WorkerSucceed
  <2> QED
    BY <2>1, <2>2, <2>3, <2>4, <2>5, <2>6, RecordSettles, Zenon
<1>29. ASSUME NEW w \in Workers, WorkerCount(w)
      PROVE  [Service!Next]_Service!vars
  BY <1>a, <1>29, <1>b DEF TypeOK, WorkerCount
<1>30. ASSUME NEW w \in Workers, WorkerRelease(w)
      PROVE  [Service!Next]_Service!vars
  BY <1>a, <1>30, <1>b DEF TypeOK, WorkerRelease
<1>31. CASE UNCHANGED vars
  BY <1>31, <1>b DEF vars
<1> QED
  BY <1>1, <1>2, <1>3, <1>4, <1>5, <1>6, <1>7, <1>8, <1>9, <1>10, <1>11,
     <1>12, <1>13, <1>14, <1>15, <1>16, <1>17, <1>18, <1>19, <1>20,
     <1>21, <1>22, <1>23, <1>24, <1>25, <1>26, <1>27, <1>28, <1>29,
     <1>30, <1>31, StepCases

\* Submitted jobs are accepted and settle once, in batches that respect the
\* cap and the capacity, and only while the scheduler runs.
THEOREM SchedulerImplementsService == Spec => ImplementsService
<1>1. Init => Service!Init
  BY ServiceInit
<1>2. IInv /\ BatchesFit /\ [Next]_vars => [Service!Next]_Service!vars
  BY ServiceStep
<1> QED
  BY <1>1, <1>2, StrongInvariantHolds, PTL
     DEF Spec, ImplementsService, Service!Spec
=============================================================================
