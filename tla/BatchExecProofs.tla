--------------------------- MODULE BatchExecProofs ---------------------------
(***************************************************************************)
(* A job recorded as completed has its result, the memory the workers hold *)
(* is reserved, and only the other process can make them run out of it,    *)
(* for any number of jobs and workers, any sizes, any retries and any      *)
(* behaviour of the other process.                                         *)
(***************************************************************************)
EXTENDS BatchExec, PackingProofs, SequenceTheorems

\* The batches are sequences of jobs.
Batches ==
  /\ batchQueue \in Seq(Seq(Jobs))
  /\ batch \in [Workers -> Seq(Jobs)]
  /\ stored \in [Workers -> Nat]
  /\ DOMAIN wpc = Workers
  /\ DOMAIN status = Jobs

\* A worker that has not begun to collect has stored nothing of its batch, and
\* what it has stored is in results_.
StoredInResults ==
  \A w \in Workers :
    /\ wpc[w] \in {"idle", "allocate", "backoff"} => stored[w] = 0
    /\ \A i \in 1..stored[w] : i =< Len(batch[w]) => batch[w][i] \in results

IInv == Batches /\ StoredInResults /\ OkJobsHaveResults

\* The order in which a set of jobs is pushed lists each of them once.
LEMMA SetToSeqType ==
  ASSUME NEW S \in SUBSET Jobs
  PROVE  /\ SetToSeq(S) \in Seq(Jobs)
         /\ IsInjective(SetToSeq(S))
         /\ ToSet(SetToSeq(S)) = S
<1>1. IsFiniteSet(S)
  BY JobsAssumption, FS_Subset
<1>2. /\ Cardinality(S) \in Nat
      /\ ExistsBijection(1..Cardinality(S), S)
  BY <1>1, FS_CardinalityType
<1>3. PICK f \in [1..Cardinality(S) -> S] : IsInjective(f)
  BY <1>2 DEF ExistsBijection, Bijection, Injection, IsInjective
<1>4. SetToSeq(S) \in [1..Cardinality(S) -> S] /\ IsInjective(SetToSeq(S))
  BY <1>3 DEF SetToSeq
<1>5. SetToSeq(S) \in Seq(S)
  BY <1>2, <1>4, IsASeq
<1>6. ToSet(SetToSeq(S)) = S
  <2>1. SetToSeq(S) \in Injection(1..Cardinality(S), S)
    BY <1>4 DEF Injection
  <2>2. IsFiniteSet(1..Cardinality(S)) /\ Cardinality(1..Cardinality(S)) = Cardinality(S)
    <3>1. 1 \in Int /\ Cardinality(S) \in Int
      BY <1>2
    <3>2. Cardinality(1..Cardinality(S))
            = IF 1 > Cardinality(S) THEN 0 ELSE Cardinality(S) - 1 + 1
      BY <3>1, FS_Interval
    <3>3. IsFiniteSet(1..Cardinality(S))
      BY <3>1, FS_Interval
    <3> QED
      BY <1>2, <3>2, <3>3
  <2>3. SetToSeq(S) \in Surjection(1..Cardinality(S), S)
    BY <1>1, <2>1, <2>2, FS_Injection
  <2> QED
    BY <2>3, <1>4 DEF Surjection, ToSet
<1> QED
  BY <1>4, <1>5, <1>6, SeqMonotonic

LEMMA InitIInv == Init => IInv
<1> SUFFICES ASSUME Init PROVE IInv
  OBVIOUS
<1>1. <<>> \in Seq(Seq(Jobs)) /\ <<>> \in Seq(Jobs)
  OBVIOUS
<1> QED
  BY <1>1 DEF Init, IInv, Batches, StoredInResults, OkJobsHaveResults

\* The dispatcher queues sequences of jobs and takes nothing back.
LEMMA DispatcherKeeps ==
  ASSUME IInv, DispatcherStep
  PROVE  IInv'
<1> USE DEF IInv, Batches, StoredInResults, OkJobsHaveResults
<1>1. CASE Sample \/ NothingFits
  BY <1>1 DEF Sample, NothingFits
<1>2. CASE Commit
  <2>1. PICK S \in SUBSET Jobs :
          /\ batchQueue' = Append(batchQueue, SetToSeq(S))
          /\ status' = [j \in Jobs |-> IF j \in S THEN "committed" ELSE status[j]]
    BY <1>2 DEF Commit, Waiting
  <2>2. batchQueue' \in Seq(Seq(Jobs))
    BY <2>1, SetToSeqType, AppendProperties
  <2>3. UNCHANGED <<results, wpc, batch, stored>>
    BY <1>2 DEF Commit
  <2> QED
    BY <2>1, <2>2, <2>3
<1> QED
  BY <1>1, <1>2 DEF DispatcherStep

\* A worker takes a batch, with nothing stored of it.
LEMMA TakeKeeps ==
  ASSUME IInv, NEW w \in Workers, Take(w)
  PROVE  IInv'
<1>1. Head(batchQueue) \in Seq(Jobs) /\ Tail(batchQueue) \in Seq(Seq(Jobs))
  BY HeadTailProperties DEF IInv, Batches, Take
<1>2. stored[w] = 0
  BY DEF Take, IInv, StoredInResults
<1>3. Batches'
  BY <1>1 DEF Take, IInv, Batches
<1>4. StoredInResults'
  BY <1>2 DEF Take, IInv, Batches, StoredInResults
<1>5. OkJobsHaveResults'
  BY DEF Take, IInv, OkJobsHaveResults
<1> QED
  BY <1>3, <1>4, <1>5 DEF IInv

\* The steps of a worker that leave the batches and their results alone.
Quiet(w) ==
  \/ Allocate(w) \/ AllocateOutOfMemory(w) \/ AllocateError(w) \/ Retry(w)
  \/ Allocated(w) \/ Throw(w) \/ FreeBuffers(w)

LEMMA QuietKeeps ==
  ASSUME IInv, NEW w \in Workers, Quiet(w)
  PROVE  IInv'
<1>1. UNCHANGED <<status, results, batchQueue, batch, stored>>
  BY DEF Quiet, Allocate, AllocateOutOfMemory, AllocateError, Retry, Allocated,
         Throw, FreeBuffers
<1>2. /\ DOMAIN wpc' = DOMAIN wpc
      /\ \A v \in Workers \ {w} : wpc'[v] = wpc[v]
      /\ wpc'[w] \in {"idle", "allocate", "backoff"} =>
           wpc[w] \in {"idle", "allocate", "backoff"}
  BY DEF Quiet, Allocate, AllocateOutOfMemory, AllocateError, Retry, Allocated,
         Throw, FreeBuffers, AtAllocation, IInv, Batches
<1> QED
  BY <1>1, <1>2 DEF IInv, Batches, StoredInResults, OkJobsHaveResults

LEMMA CollectKeeps ==
  ASSUME IInv, NEW w \in Workers, CollectResult(w)
  PROVE  IInv'
<1>1. /\ stored[w] \in Nat
      /\ batch[w] \in Seq(Jobs)
      /\ results' = results \cup {batch[w][stored[w] + 1]}
      /\ stored' = [stored EXCEPT ![w] = stored[w] + 1]
      /\ UNCHANGED <<status, batchQueue, batch, wpc>>
      /\ wpc[w] = "execute"
  BY DEF CollectResult, IInv, Batches
<1>2. Batches' /\ OkJobsHaveResults'
  BY <1>1 DEF IInv, Batches, OkJobsHaveResults
<1>3. StoredInResults'
  BY <1>1 DEF IInv, Batches, StoredInResults
<1> QED
  BY <1>2, <1>3 DEF IInv

\* The batch is recorded as completed when all its results are stored.
LEMMA RecordKeeps ==
  ASSUME IInv, NEW w \in Workers, Record(w)
  PROVE  IInv'
<1>1. UNCHANGED <<results, batchQueue, batch, stored>> /\ wpc' = [wpc EXCEPT ![w] = "freeing"]
  BY DEF Record
<1>2. status' = [j \in Jobs |-> IF j \in ToSet(batch[w]) THEN "ok" ELSE status[j]]
  BY DEF Record, SettleBatch
<1>3. ASSUME NEW j \in ToSet(batch[w]) PROVE j \in results
  <2>1. PICK i \in DOMAIN batch[w] : j = batch[w][i]
    BY DEF ToSet
  <2>2. i \in 1..stored[w] /\ i =< Len(batch[w])
    BY <2>1, LenProperties DEF Record, IInv, Batches
  <2> QED
    BY <2>1, <2>2 DEF IInv, StoredInResults
<1>4. OkJobsHaveResults'
  BY <1>1, <1>2, <1>3 DEF IInv, OkJobsHaveResults
<1>5. Batches' /\ StoredInResults'
  BY <1>1, <1>2 DEF IInv, Batches, StoredInResults
<1> QED
  BY <1>4, <1>5 DEF IInv

LEMMA FailKeeps ==
  ASSUME IInv, NEW w \in Workers, FailBatch(w)
  PROVE  IInv'
<1>1. UNCHANGED <<results, batchQueue, batch, stored>> /\ wpc' = [wpc EXCEPT ![w] = "freeing"]
  BY DEF FailBatch
<1>2. status' = [j \in Jobs |-> IF j \in ToSet(batch[w]) THEN "failed" ELSE status[j]]
  BY DEF FailBatch, SettleBatch
<1> QED
  BY <1>1, <1>2 DEF IInv, Batches, StoredInResults, OkJobsHaveResults

LEMMA ReleaseKeeps ==
  ASSUME IInv, NEW w \in Workers, ReleaseBytes(w)
  PROVE  IInv'
BY DEF ReleaseBytes, IInv, Batches, StoredInResults, OkJobsHaveResults

LEMMA NextIInv == IInv /\ [Next]_vars => IInv'
<1> SUFFICES ASSUME IInv, [Next]_vars PROVE IInv'
  OBVIOUS
<1>1. CASE DispatcherStep
  BY <1>1, DispatcherKeeps
<1>2. ASSUME NEW w \in Workers, WorkerStep(w) \/ FaultStep(w) PROVE IInv'
  BY <1>2, TakeKeeps, QuietKeeps, CollectKeeps, RecordKeeps, FailKeeps, ReleaseKeeps
     DEF WorkerStep, FaultStep, Quiet
<1>3. CASE HogStep \/ UNCHANGED vars
  <2>1. UNCHANGED <<status, results, batchQueue, wpc, batch, stored>>
    BY <1>3 DEF HogStep, vars, execVars
  <2> QED
    BY <2>1 DEF IInv, Batches, StoredInResults, OkJobsHaveResults
<1> QED
  BY <1>1, <1>2, <1>3 DEF Next

\* A job recorded as completed has its result in results_: the records are
\* written only after the last result of the batch is stored, and no failure,
\* retry or later batch takes a result or a record back.
THEOREM CompletedJobsHaveResults == Spec => []OkJobsHaveResults
<1>1. IInv => OkJobsHaveResults
  BY DEF IInv
<1> QED
  BY <1>1, InitIInv, NextIInv, PTL DEF Spec

-----------------------------------------------------------------------------
(***************************************************************************)
(* Device memory.  Every byte of every buffer of a batch is one byte of    *)
(* the need of the batch's jobs, so the memory that committed batches may  *)
(* ever hold at one time is what was reserved for them.                    *)
(***************************************************************************)
Queued(i) == ToSet(batchQueue[i])
Batched(w) == ToSet(batch[w])

\* The jobs of the batches that are committed and not yet released.
Committed ==
  (UNION {Queued(i) : i \in DOMAIN batchQueue}) \cup (UNION {Batched(w) : w \in Workers})

\* No job is in two batches, or twice in one, or still waiting in the queue.
Distinct ==
  /\ \A w \in Workers : IsInjective(batch[w])
  /\ \A i \in DOMAIN batchQueue : IsInjective(batchQueue[i])
  /\ \A v, w \in Workers : v # w => Batched(v) \cap Batched(w) = {}
  /\ \A i, k \in DOMAIN batchQueue : i # k => Queued(i) \cap Queued(k) = {}
  /\ \A i \in DOMAIN batchQueue, w \in Workers : Queued(i) \cap Batched(w) = {}
  /\ \A j \in Committed : status[j] # "waiting"

\* A worker holds at most the buffers of its batch, and none while it sleeps,
\* returns its bytes or has no batch.
Holding ==
  /\ got \in [Workers -> Nat]
  /\ \A w \in Workers :
       /\ got[w] =< 4 * Len(batch[w])
       /\ wpc[w] \in {"idle", "backoff", "releasing"} => got[w] = 0
       /\ wpc[w] = "idle" => batch[w] = <<>>

\* The sizes of the buffers of a job.
LEMMA BuffersNat ==
  ASSUME NEW j \in Jobs
  PROVE  /\ DOMAIN BufferBytes(j) = 1..4
         /\ \A p \in 1..4 : BufferBytes(j)[p] \in Nat
         /\ Bytes[j] = BufferBytes(j)[1] + BufferBytes(j)[2] + BufferBytes(j)[3]
         /\ BufferBytes(j)[4] = 0
<1>1. Shape[j][1] \in Nat /\ Shape[j][2] \in Nat /\ Shape[j][3] \in Nat
  BY ShapeAssumption
<1>2. \A x, y \in Nat : x * y \in Nat
  OBVIOUS
<1>3. /\ Shape[j][1] * Shape[j][3] \in Nat
      /\ Shape[j][3] * Shape[j][2] \in Nat
      /\ Shape[j][1] * Shape[j][2] \in Nat
  BY <1>1, <1>2
<1> DEFINE mk == Shape[j][1] * Shape[j][3]
           kn == Shape[j][3] * Shape[j][2]
           mn == Shape[j][1] * Shape[j][2]
<1>4. BufferBytes(j) = <<mk, kn, mn, 0>>
  BY DEF BufferBytes, Pinned
<1>5. mk \in Nat /\ kn \in Nat /\ mn \in Nat
  BY <1>3
<1> HIDE DEF mk, kn, mn
<1> QED
  BY <1>4, <1>5, ShapeAssumption

\* Which buffer of which job an allocation is for.
LEMMA AllocationIndex ==
  ASSUME NEW n \in Nat, NEW a \in 1..(4 * n)
  PROVE  /\ IndexAt(a) \in 1..n
         /\ PartAt(a) \in 1..4
         /\ a = 4 * (IndexAt(a) - 1) + PartAt(a)
<1>1. a - 1 \in Nat
  OBVIOUS
<1> DEFINE q == (a - 1) \div 4  r == (a - 1) % 4
<1>2. q \in Int /\ r \in 0..3 /\ a - 1 = 4 * q + r
  BY <1>1
<1>3. IndexAt(a) = q + 1 /\ PartAt(a) = r + 1
  BY DEF IndexAt, PartAt
<1> HIDE DEF q, r
<1> QED
  BY <1>2, <1>3

LEMMA PlanNat ==
  ASSUME Batches, NEW w \in Workers
  PROVE  /\ batch[w] \in Seq(Jobs)
         /\ Len(batch[w]) \in Nat
         /\ DOMAIN batch[w] = 1..Len(batch[w])
         /\ \A a \in 1..(4 * Len(batch[w])) :
              /\ batch[w][IndexAt(a)] \in Jobs
              /\ Plan(w)[a] = BufferBytes(batch[w][IndexAt(a)])[PartAt(a)]
              /\ Plan(w)[a] \in Nat
<1>1. /\ batch[w] \in Seq(Jobs) /\ Len(batch[w]) \in Nat
      /\ DOMAIN batch[w] = 1..Len(batch[w])
  BY LenProperties DEF Batches
<1>2. ASSUME NEW a \in 1..(4 * Len(batch[w]))
      PROVE  /\ batch[w][IndexAt(a)] \in Jobs
             /\ Plan(w)[a] = BufferBytes(batch[w][IndexAt(a)])[PartAt(a)]
             /\ Plan(w)[a] \in Nat
  <2>1. IndexAt(a) \in 1..Len(batch[w]) /\ PartAt(a) \in 1..4
    BY <1>1, AllocationIndex
  <2>2. batch[w][IndexAt(a)] \in Jobs
    BY <1>1, <2>1, ElementOfSeq
  <2>3. Plan(w)[a] = BufferBytes(batch[w][IndexAt(a)])[PartAt(a)]
    BY DEF Plan
  <2> QED
    BY <2>1, <2>2, <2>3, BuffersNat
<1> QED
  BY <1>1, <1>2

\* A block of n bytes.
LEMMA BlockSize ==
  ASSUME NEW x, NEW n \in Nat
  PROVE  IsFiniteSet({x} \X (1..n)) /\ Cardinality({x} \X (1..n)) = n
<1>1. IsFiniteSet({x}) /\ Cardinality({x}) = 1
  BY FS_Singleton
<1>2. IsFiniteSet(1..n) /\ Cardinality(1..n) = n
  <2>1. 1 \in Int /\ n \in Int
    OBVIOUS
  <2>2. IsFiniteSet(1..n)
    BY <2>1, FS_Interval
  <2>3. Cardinality(1..n) = IF 1 > n THEN 0 ELSE n - 1 + 1
    BY <2>1, FS_Interval
  <2> QED
    BY <2>2, <2>3
<1>3. Cardinality({x} \X (1..n)) = Cardinality({x}) * Cardinality(1..n)
  BY <1>1, <1>2, FS_Product
<1> QED
  BY <1>1, <1>2, <1>3, FS_Product

\* The memory all the batches of the workers take when they are allocated.
AtMost == UNION {Memory(w, 4 * Len(batch[w])) : w \in Workers}

LEMMA CommittedJobs ==
  ASSUME Batches
  PROVE  Committed \in SUBSET Jobs
<1>1. ASSUME NEW s \in Seq(Jobs) PROVE ToSet(s) \subseteq Jobs
  BY <1>1, ElementOfSeq, LenProperties DEF ToSet
<1>2. \A w \in Workers : batch[w] \in Seq(Jobs)
  BY DEF Batches
<1>3. \A i \in DOMAIN batchQueue : batchQueue[i] \in Seq(Jobs)
  BY ElementOfSeq, LenProperties DEF Batches
<1> QED
  BY <1>1, <1>2, <1>3 DEF Committed, Queued, Batched

\* No two bytes of buffers are the same byte of the need of the jobs.
LEMMA AtMostIsReserved ==
  ASSUME Batches, Distinct
  PROVE  IsFiniteSet(AtMost) /\ Cardinality(AtMost) =< Need(Committed)
<1> DEFINE j(x) == batch[x[1][1]][IndexAt(x[1][2])]
           p(x) == PartAt(x[1][2])
           offset(x) == IF p(x) = 1 THEN 0
                        ELSE IF p(x) = 2 THEN BufferBytes(j(x))[1]
                        ELSE BufferBytes(j(x))[1] + BufferBytes(j(x))[2]
           place == [x \in AtMost |-> <<j(x), offset(x) + x[2]>>]
<1>1. ASSUME NEW x \in AtMost
      PROVE  /\ x = <<<<x[1][1], x[1][2]>>, x[2]>>
             /\ x[1][1] \in Workers
             /\ x[1][2] \in 1..(4 * Len(batch[x[1][1]]))
             /\ IndexAt(x[1][2]) \in DOMAIN batch[x[1][1]]
             /\ x[1][2] = 4 * (IndexAt(x[1][2]) - 1) + p(x)
             /\ IndexAt(x[1][2]) \in Nat
             /\ p(x) \in 1..3
             /\ j(x) \in Jobs /\ j(x) \in Batched(x[1][1])
             /\ x[2] \in 1..BufferBytes(j(x))[p(x)]
  <2>1. PICK w \in Workers : x \in Memory(w, 4 * Len(batch[w]))
    BY DEF AtMost
  <2>2. PICK a \in 1..(4 * Len(batch[w])) : x \in {<<w, a>>} \X (1..Plan(w)[a])
    BY <2>1 DEF Memory
  <2>3. x = <<<<w, a>>, x[2]>> /\ x[2] \in 1..Plan(w)[a]
    BY <2>2
  <2>4. x[1][1] = w /\ x[1][2] = a
    BY <2>3
  <2>5. /\ Len(batch[w]) \in Nat /\ DOMAIN batch[w] = 1..Len(batch[w])
        /\ batch[w][IndexAt(a)] \in Jobs
        /\ Plan(w)[a] = BufferBytes(batch[w][IndexAt(a)])[PartAt(a)]
    BY PlanNat
  <2>6. /\ IndexAt(a) \in 1..Len(batch[w]) /\ PartAt(a) \in 1..4
        /\ a = 4 * (IndexAt(a) - 1) + PartAt(a)
    BY <2>5, AllocationIndex
  <2>7. BufferBytes(batch[w][IndexAt(a)])[4] = 0
    BY <2>5, BuffersNat
  <2>8. PartAt(a) # 4
    BY <2>3, <2>5, <2>7
  <2>9. batch[w][IndexAt(a)] \in Batched(w)
    BY <2>5, <2>6 DEF Batched, ToSet
  <2>10. PartAt(a) \in 1..3 /\ IndexAt(a) \in Nat
    BY <2>5, <2>6, <2>8
  <2> QED
    BY <2>3, <2>4, <2>5, <2>6, <2>9, <2>10
<1>2. ASSUME NEW x \in AtMost
      PROVE  place[x] \in Units(Committed)
  <2>1. /\ j(x) \in Jobs /\ p(x) \in 1..3 /\ x[1][1] \in Workers
        /\ j(x) \in Batched(x[1][1]) /\ x[2] \in 1..BufferBytes(j(x))[p(x)]
    BY <1>1
  <2>2. j(x) \in Committed
    BY <2>1 DEF Committed
  <2>3. offset(x) + x[2] \in 1..Bytes[j(x)]
    <3> HIDE DEF j, p
    <3>1. /\ BufferBytes(j(x))[1] \in Nat /\ BufferBytes(j(x))[2] \in Nat
          /\ BufferBytes(j(x))[3] \in Nat
          /\ Bytes[j(x)] = BufferBytes(j(x))[1] + BufferBytes(j(x))[2] + BufferBytes(j(x))[3]
      BY <2>1, BuffersNat
    <3>2. CASE p(x) = 1
      BY <2>1, <3>1, <3>2
    <3>3. CASE p(x) = 2
      BY <2>1, <3>1, <3>3
    <3>4. CASE p(x) = 3
      BY <2>1, <3>1, <3>4
    <3> QED
      BY <2>1, <3>2, <3>3, <3>4
  <2>4. place[x] \in {j(x)} \X (1..Bytes[j(x)])
    BY <2>3
  <2> HIDE DEF place, j
  <2> QED
    BY <2>2, <2>4 DEF Units
<1>3. ASSUME NEW x \in AtMost, NEW y \in AtMost, place[x] = place[y]
      PROVE  x = y
  <2>1. j(x) = j(y) /\ offset(x) + x[2] = offset(y) + y[2]
    BY <1>3
  <2>2. x[1][1] = y[1][1]
    <3> HIDE DEF j
    <3> QED
      BY <1>1, <2>1 DEF Distinct
  <2>3. IndexAt(x[1][2]) = IndexAt(y[1][2])
    <3>1. IsInjective(batch[x[1][1]])
      BY <1>1 DEF Distinct
    <3> QED
      BY <1>1, <2>1, <2>2, <3>1 DEF IsInjective
  <2>4. p(x) = p(y) /\ x[2] = y[2]
    <3>1. /\ BufferBytes(j(x))[1] \in Nat /\ BufferBytes(j(x))[2] \in Nat
          /\ BufferBytes(j(x))[3] \in Nat
      BY <1>1, BuffersNat
    <3>2. /\ x[2] \in 1..BufferBytes(j(x))[p(x)] /\ p(x) \in 1..3
          /\ y[2] \in 1..BufferBytes(j(y))[p(y)] /\ p(y) \in 1..3
      BY <1>1
    <3> HIDE DEF j, p
    <3>3. offset(x) + x[2] =< offset(x) + BufferBytes(j(x))[p(x)]
          /\ offset(y) + y[2] =< offset(y) + BufferBytes(j(y))[p(y)]
      BY <2>1, <3>1, <3>2
    <3>4. p(x) = p(y)
      BY <2>1, <3>1, <3>2, <3>3
    <3> QED
      BY <2>1, <3>1, <3>2, <3>4
  <2>5. x[1][2] = y[1][2]
    BY <1>1, <2>3, <2>4
  <2>6. x = <<<<x[1][1], x[1][2]>>, x[2]>> /\ y = <<<<y[1][1], y[1][2]>>, y[2]>>
    BY <1>1
  <2> HIDE DEF j, p
  <2> QED
    BY <2>2, <2>4, <2>5, <2>6
<1>4. place \in Injection(AtMost, Units(Committed))
  <2> HIDE DEF j, p, offset
  <2> QED
    BY <1>2, <1>3 DEF Injection, IsInjective
<1>5. IsFiniteSet(Units(Committed))
  BY CommittedJobs, UnitsFinite
<1> HIDE DEF place
<1> QED
  BY <1>4, <1>5, FS_Injection DEF Need

\* The memory held is covered by the need of the committed jobs ...
LEMMA HeldIsReserved ==
  ASSUME Batches, Distinct, Holding
  PROVE  /\ IsFiniteSet(Held) /\ HeldByAll \in Nat
         /\ HeldByAll =< Need(Committed) /\ Need(Committed) \in Nat
<1>1. Held \subseteq AtMost
  <2> SUFFICES ASSUME NEW w \in Workers, NEW a \in 1..got[w]
               PROVE  a \in 1..(4 * Len(batch[w]))
    BY DEF Held, AtMost, Memory
  <2> QED
    BY PlanNat DEF Holding
<1>2. IsFiniteSet(AtMost) /\ Cardinality(AtMost) =< Need(Committed)
  BY AtMostIsReserved
<1>3. IsFiniteSet(Held) /\ Cardinality(Held) =< Cardinality(AtMost)
  BY <1>1, <1>2, FS_Subset
<1>4. Cardinality(Held) \in Nat /\ Cardinality(AtMost) \in Nat
  BY <1>2, <1>3, FS_CardinalityType
<1>5. Need(Committed) \in Nat
  BY CommittedJobs, NeedNat
<1> QED
  BY <1>2, <1>3, <1>4, <1>5 DEF HeldByAll

\* ... and so is the memory of an allocation that is still to come.
LEMMA NextIsReserved ==
  ASSUME Batches, Distinct, Holding, NEW w \in Workers, AtAllocation(w)
  PROVE  /\ NextBytes(w) \in Nat
         /\ HeldByAll + NextBytes(w) =< Need(Committed)
<1> DEFINE next == got[w] + 1
           block == {<<w, next>>} \X (1..Plan(w)[next])
<1>1. next \in 1..(4 * Len(batch[w])) /\ got[w] \in Nat
  BY PlanNat DEF Holding, AtAllocation
<1>2. Plan(w)[next] \in Nat
  BY <1>1, PlanNat
<1>3. IsFiniteSet(block) /\ Cardinality(block) = Plan(w)[next]
  BY <1>2, BlockSize
<1>4. Held \cup block \subseteq AtMost
  <2>1. block \subseteq Memory(w, 4 * Len(batch[w]))
    BY <1>1 DEF Memory
  <2>2. ASSUME NEW v \in Workers, NEW a \in 1..got[v]
        PROVE  a \in 1..(4 * Len(batch[v]))
    BY PlanNat DEF Holding
  <2>3. Held \subseteq AtMost
    BY <2>2 DEF Held, AtMost, Memory
  <2> QED
    BY <2>1, <2>3 DEF AtMost
<1>5. Held \cap block = {}
  <2>1. ASSUME NEW x \in Held, NEW y \in block PROVE x # y
    <3>1. PICK v \in Workers : x \in Memory(v, got[v])
      BY DEF Held
    <3>2. PICK a \in 1..got[v] : x \in {<<v, a>>} \X (1..Plan(v)[a])
      BY <3>1 DEF Memory
    <3>3. x[1] = <<v, a>> /\ y[1] = <<w, next>>
      BY <3>2
    <3>4. <<v, a>> # <<w, next>>
      BY <1>1, <3>2
    <3> QED
      BY <3>3, <3>4
  <2> QED
    BY <2>1
<1>6. IsFiniteSet(Held) /\ HeldByAll \in Nat /\ Need(Committed) \in Nat
  BY HeldIsReserved
<1>7. Cardinality(Held \cup block) = HeldByAll + Plan(w)[next]
  <2>1. Cardinality(Held \cup block)
          = Cardinality(Held) + Cardinality(block) - Cardinality(Held \cap block)
    BY <1>3, <1>6, FS_Union
  <2>2. Cardinality(Held \cap block) = 0
    BY <1>5, FS_EmptySet
  <2> HIDE DEF block
  <2> QED
    BY <1>2, <1>3, <1>6, <2>1, <2>2 DEF HeldByAll
<1>8. Cardinality(Held \cup block) =< Cardinality(AtMost)
      /\ Cardinality(AtMost) =< Need(Committed) /\ Cardinality(AtMost) \in Nat
  <2>1. IsFiniteSet(AtMost)
    BY AtMostIsReserved
  <2> HIDE DEF block
  <2> QED
    BY <1>4, <2>1, AtMostIsReserved, FS_Subset, FS_CardinalityType
<1> HIDE DEF block
<1> QED
  BY <1>2, <1>6, <1>7, <1>8 DEF NextBytes

-----------------------------------------------------------------------------
(***************************************************************************)
(* The reservation, the dispatcher's sample and the other process.         *)
(***************************************************************************)

\* What a sample leaves to be promised, and what has been promised, lies within
\* the device beside the other process as it was then, and beside the margin.
Promised ==
  /\ reserved = Need(Committed)
  /\ hogSampled \in Nat /\ hogCommitted \in Nat
  /\ \/ base \in {NoSample, 0}
     \/ base \in Nat /\ base + SafetyMargin + hogSampled =< TotalMem
  /\ reserved = 0 \/ reserved + SafetyMargin + hogCommitted =< TotalMem

\* The device is never more than full.
DeviceFits == hogBlocks \in Nat /\ FreeMem >= 0

MemoryInv == Distinct /\ Holding /\ Promised /\ DeviceFits /\ ~starved

\* The other process holds whole blocks.
LEMMA HogNat ==
  ASSUME hogBlocks \in Nat
  PROVE  HogBytes \in Nat
<1>1. ChunkBytes \in Nat
  BY HogAssumption
<1>2. \A x, y \in Nat : x * y \in Nat
  OBVIOUS
<1> QED
  BY <1>1, <1>2 DEF HogBytes

\* The numbers the steps compute with.
LEMMA MemoryNat ==
  ASSUME IInv, MemoryInv
  PROVE  /\ TotalMem \in Nat /\ SafetyMargin \in Nat
         /\ IsFiniteSet(Held) /\ HeldByAll \in Nat /\ HogBytes \in Nat
         /\ reserved \in Nat /\ HeldByAll =< reserved
         /\ FreeMem = TotalMem - HeldByAll - HogBytes /\ FreeMem \in Nat
         /\ Committed \in SUBSET Jobs
<1>1. Batches
  BY DEF IInv
<1>2. IsFiniteSet(Held) /\ HeldByAll \in Nat /\ HeldByAll =< reserved /\ reserved \in Nat
  BY <1>1, HeldIsReserved DEF MemoryInv, Promised
<1>3. HogBytes \in Nat
  BY HogNat DEF MemoryInv, DeviceFits
<1>4. FreeMem >= 0
  BY DEF MemoryInv, DeviceFits
<1> QED
  BY <1>1, <1>2, <1>3, <1>4, ExecAssumption, CommittedJobs DEF FreeMem

\* Workers that give buffers back, and no worker that takes one.
LEMMA HeldShrinks ==
  ASSUME IInv, MemoryInv,
         \A w \in Workers : /\ got'[w] \in {0, got[w]}
                            /\ got'[w] = 0 \/ batch'[w] = batch[w]
  PROVE  Held' \subseteq Held /\ HeldByAll' \in Nat /\ HeldByAll' =< HeldByAll
<1>1. ASSUME NEW w \in Workers
      PROVE  Memory(w, got[w])' \subseteq Memory(w, got[w])
  <2>1. CASE got'[w] = 0
    BY <2>1 DEF Memory
  <2>2. CASE got'[w] = got[w] /\ batch'[w] = batch[w]
    BY <2>2 DEF Memory, Plan
  <2> QED
    BY <2>1, <2>2
<1>2. Held' \subseteq Held
  BY <1>1 DEF Held
<1>3. IsFiniteSet(Held)
  BY MemoryNat
<1>4. IsFiniteSet(Held') /\ Cardinality(Held') =< Cardinality(Held)
  BY <1>2, <1>3, FS_Subset
<1> QED
  BY <1>2, <1>3, <1>4, FS_CardinalityType DEF HeldByAll

\* The queue and the batches stay as they are.
LEMMA DistinctKept ==
  ASSUME IInv, MemoryInv, UNCHANGED <<batchQueue, batch>>,
         \A j \in Jobs : status'[j] = "waiting" => status[j] = "waiting"
  PROVE  Distinct' /\ Committed' = Committed
<1>1. /\ \A i : Queued(i)' = Queued(i)
      /\ \A w : Batched(w)' = Batched(w)
  BY DEF Queued, Batched
<1>2. Committed' = Committed
  BY <1>1 DEF Committed
<1>3. Committed \subseteq Jobs
  BY MemoryNat
<1> QED
  BY <1>1, <1>2, <1>3 DEF MemoryInv, Distinct

\* The steps of a worker within its batch, other than an allocation.
LEMMA WorkerKeeps ==
  ASSUME IInv, MemoryInv, NEW w \in Workers,
         UNCHANGED <<reserved, base, batchQueue, batch, hogVars, hogSampled,
                     hogCommitted>>,
         got' = got \/ got' = [got EXCEPT ![w] = 0],
         \A v \in Workers \ {w} : wpc'[v] = wpc[v],
         wpc'[w] # "idle",
         wpc'[w] \in {"backoff", "releasing"} => got'[w] = 0,
         \A j \in Jobs : status'[j] = "waiting" => status[j] = "waiting"
  PROVE  Distinct' /\ Holding' /\ Promised' /\ DeviceFits'
<1>1. Distinct' /\ Committed' = Committed
  BY DistinctKept
<1>2. got \in [Workers -> Nat]
  BY DEF MemoryInv, Holding
<1>3. /\ got' \in [Workers -> Nat]
      /\ \A v \in Workers : got'[v] \in {0, got[v]} /\ (v # w => got'[v] = got[v])
  BY <1>2
<1>4. Holding'
  <2>1. ASSUME NEW v \in Workers
        PROVE  /\ got'[v] =< 4 * Len(batch'[v])
               /\ wpc'[v] \in {"idle", "backoff", "releasing"} => got'[v] = 0
               /\ wpc'[v] = "idle" => batch'[v] = <<>>
    <3>1. Len(batch[v]) \in Nat
      BY PlanNat DEF IInv
    <3>2. /\ got[v] =< 4 * Len(batch[v])
          /\ wpc[v] \in {"idle", "backoff", "releasing"} => got[v] = 0
          /\ wpc[v] = "idle" => batch[v] = <<>>
      BY DEF MemoryInv, Holding
    <3> QED
      BY <1>2, <1>3, <3>1, <3>2
  <2> QED
    BY <1>3, <2>1 DEF Holding
<1>5. Promised'
  BY <1>1 DEF MemoryInv, Promised
<1>6. DeviceFits'
  <2>1. HeldByAll' \in Nat /\ HeldByAll' =< HeldByAll
    BY <1>3, HeldShrinks
  <2>2. HogBytes' = HogBytes /\ hogBlocks' = hogBlocks
    BY DEF hogVars, HogBytes
  <2>3. FreeMem' = TotalMem - HeldByAll' - HogBytes'
    BY DEF FreeMem
  <2> QED
    BY <2>1, <2>2, <2>3, MemoryNat DEF MemoryInv, DeviceFits
<1> QED
  BY <1>1, <1>4, <1>5, <1>6

LEMMA WorkerStepKeeps ==
  ASSUME IInv, MemoryInv, NEW w \in Workers,
         \/ Retry(w) \/ AllocateError(w) \/ Throw(w) \/ Allocated(w)
         \/ CollectResult(w) \/ Record(w) \/ FailBatch(w) \/ FreeBuffers(w)
  PROVE  MemoryInv'
<1> DEFINE Quietly ==
      /\ UNCHANGED <<reserved, base, batchQueue, batch, hogVars, hogSampled,
                     hogCommitted, starved>>
      /\ got' = got \/ got' = [got EXCEPT ![w] = 0]
      /\ \A v \in Workers \ {w} : wpc'[v] = wpc[v]
      /\ wpc'[w] # "idle"
      /\ wpc'[w] \in {"backoff", "releasing"} => got'[w] = 0
      /\ \A j \in Jobs : status'[j] = "waiting" => status[j] = "waiting"
<1>1. DOMAIN wpc = Workers /\ got \in [Workers -> Nat] /\ DOMAIN status = Jobs
  BY DEF IInv, Batches, MemoryInv, Holding
<1>2. ASSUME Retry(w) PROVE Quietly
  BY <1>1, <1>2 DEF Retry, ghostVars
<1>3. ASSUME AllocateError(w) PROVE Quietly
  BY <1>1, <1>3 DEF AllocateError, ghostVars
<1>4. ASSUME Throw(w) PROVE Quietly
  BY <1>1, <1>4 DEF Throw, ghostVars
<1>5. ASSUME Allocated(w) PROVE Quietly
  BY <1>1, <1>5 DEF Allocated, ghostVars
<1>6. ASSUME CollectResult(w) PROVE Quietly
  BY <1>1, <1>6 DEF CollectResult, ghostVars
<1>7. ASSUME Record(w) PROVE Quietly
  BY <1>1, <1>7 DEF Record, SettleBatch, ghostVars
<1>8. ASSUME FailBatch(w) PROVE Quietly
  BY <1>1, <1>8 DEF FailBatch, SettleBatch, ghostVars
<1>9. ASSUME FreeBuffers(w) PROVE Quietly
  BY <1>1, <1>9 DEF FreeBuffers, ghostVars
<1>10. Quietly
  BY <1>2, <1>3, <1>4, <1>5, <1>6, <1>7, <1>8, <1>9
<1>11. starved' = starved
  BY <1>10
<1>12. Distinct' /\ Holding' /\ Promised' /\ DeviceFits'
  BY <1>10, WorkerKeeps
<1> QED
  BY <1>11, <1>12 DEF MemoryInv

\* An allocation that fails gives everything back, and is the tenant's doing:
\* what the worker asks for is reserved, so within what was free beside the
\* other process, and the margin, when memory was last committed.
LEMMA OutOfMemoryKeeps ==
  ASSUME IInv, MemoryInv, NEW w \in Workers, AllocateOutOfMemory(w)
  PROVE  MemoryInv'
<1>1. /\ AtAllocation(w) /\ NextBytes(w) > FreeMem
      /\ UNCHANGED <<reserved, base, batchQueue, batch, hogVars, hogSampled,
                     hogCommitted, status>>
      /\ got' = [got EXCEPT ![w] = 0]
      /\ wpc' = [wpc EXCEPT ![w] = IF attempt[w] < MaxRetries THEN "backoff" ELSE "failing"]
      /\ starved' = (starved \/ HogBytes =< hogCommitted + SafetyMargin)
  BY DEF AllocateOutOfMemory
<1>2. DOMAIN wpc = Workers /\ got \in [Workers -> Nat]
  BY DEF IInv, Batches, MemoryInv, Holding
<1>3. Distinct' /\ Holding' /\ Promised' /\ DeviceFits'
  <2>1. /\ \A v \in Workers \ {w} : wpc'[v] = wpc[v]
        /\ wpc'[w] # "idle" /\ got'[w] = 0
    BY <1>1, <1>2
  <2> QED
    BY <1>1, <2>1, WorkerKeeps
<1>4. HogBytes > hogCommitted + SafetyMargin
  <2>1. NextBytes(w) \in Nat /\ HeldByAll + NextBytes(w) =< reserved
    BY <1>1, NextIsReserved DEF IInv, MemoryInv, Promised
  <2>2. /\ hogCommitted \in Nat
        /\ reserved = 0 \/ reserved + SafetyMargin + hogCommitted =< TotalMem
    BY DEF MemoryInv, Promised
  <2>3. NextBytes(w) > FreeMem
    BY <1>1
  <2>4. /\ FreeMem = TotalMem - HeldByAll - HogBytes /\ FreeMem \in Nat
        /\ HeldByAll \in Nat /\ HogBytes \in Nat /\ TotalMem \in Nat
        /\ reserved \in Nat /\ SafetyMargin \in Nat
    BY MemoryNat
  <2>5. reserved # 0
    BY <2>1, <2>3, <2>4
  <2>6. TotalMem < reserved + HogBytes
    BY <2>1, <2>3, <2>4
  <2> QED
    BY <2>2, <2>4, <2>5, <2>6
<1>5. ~starved'
  <2>1. hogCommitted \in Nat
    BY DEF MemoryInv, Promised
  <2>2. ~(HogBytes =< hogCommitted + SafetyMargin)
    BY <1>4, <2>1, MemoryNat
  <2>3. starved' <=> starved \/ HogBytes =< hogCommitted + SafetyMargin
    BY <1>1, Zenon
  <2> QED
    BY <2>2, <2>3, Zenon DEF MemoryInv
<1> QED
  BY <1>3, <1>5 DEF MemoryInv

\* An allocation takes the bytes it asks for from the free ones.
LEMMA AllocateKeeps ==
  ASSUME IInv, MemoryInv, NEW w \in Workers, Allocate(w)
  PROVE  MemoryInv'
<1> DEFINE next == got[w] + 1
           block == {<<w, next>>} \X (1..Plan(w)[next])
<1>1. /\ AtAllocation(w) /\ NextBytes(w) =< FreeMem
      /\ UNCHANGED <<reserved, base, batchQueue, batch, hogVars, hogSampled,
                     hogCommitted, status, wpc, starved>>
      /\ got' = [got EXCEPT ![w] = got[w] + 1]
  BY DEF Allocate, ghostVars
<1>2. got \in [Workers -> Nat]
  BY DEF MemoryInv, Holding
<1>3. Distinct' /\ Committed' = Committed
  BY <1>1, DistinctKept
<1>4. Holding'
  <2>1. wpc[w] = "allocate" /\ got[w] < 4 * Len(batch[w]) /\ Len(batch[w]) \in Nat
    BY <1>1, PlanNat DEF AtAllocation, IInv
  <2>2. got[w] + 1 =< 4 * Len(batch[w])
    BY <1>2, <2>1
  <2> QED
    BY <1>1, <1>2, <2>1, <2>2 DEF MemoryInv, Holding
<1>5. Promised'
  BY <1>1, <1>3 DEF MemoryInv, Promised
<1>6. DeviceFits'
  <2>1. Plan(w)[next] \in Nat /\ NextBytes(w) = Plan(w)[next]
    <3>1. next \in 1..(4 * Len(batch[w]))
      BY <1>1, <1>2, PlanNat DEF AtAllocation, IInv
    <3> QED
      BY <3>1, PlanNat DEF NextBytes, IInv
  <2>2. Held' \subseteq Held \cup block
    <3>1. ASSUME NEW v \in Workers
          PROVE  Memory(v, got[v])' \subseteq Memory(v, got[v]) \cup block
      <4>1. CASE v # w
        <5>1. got'[v] = got[v]
          BY <1>1, <1>2, <4>1
        <5>2. Plan(v)' = Plan(v)
          BY <1>1 DEF Plan
        <5>3. Memory(v, got[v])' = Memory(v, got[v])
          BY <5>1, <5>2 DEF Memory
        <5> QED
          BY <5>3
      <4>2. CASE v = w
        <5>1. got'[w] = next /\ \A a \in 1..next : a \in 1..got[w] \/ a = next
          BY <1>1, <1>2
        <5>2. Plan(w)' = Plan(w)
          BY <1>1 DEF Plan
        <5>3. Memory(w, got[w])' = UNION {{<<w, a>>} \X (1..Plan(w)[a]) : a \in 1..next}
          BY <5>1, <5>2 DEF Memory
        <5>4. ASSUME NEW x \in Memory(w, got[w])'
              PROVE  x \in Memory(w, got[w]) \cup block
          <6>1. PICK a \in 1..next : x \in {<<w, a>>} \X (1..Plan(w)[a])
            BY <5>3, <5>4
          <6>2. CASE a = next
            BY <6>1, <6>2
          <6>3. CASE a \in 1..got[w]
            BY <6>1, <6>3 DEF Memory
          <6> QED
            BY <5>1, <6>2, <6>3
        <5> QED
          BY <4>2, <5>4
      <4> QED
        BY <4>1, <4>2
    <3> HIDE DEF block
    <3> QED
      BY <3>1 DEF Held
  <2>3. IsFiniteSet(block) /\ Cardinality(block) = Plan(w)[next]
    BY <2>1, BlockSize
  <2> HIDE DEF block
  <2>4. /\ IsFiniteSet(Held \cup block)
        /\ Cardinality(Held \cup block)
             = Cardinality(Held) + Cardinality(block) - Cardinality(Held \cap block)
    BY <2>3, MemoryNat, FS_Union
  <2>5. Cardinality(Held \cap block) \in Nat /\ Cardinality(Held \cup block) \in Nat
    <3>1. IsFiniteSet(Held \cap block)
      BY <2>3, FS_Subset
    <3> QED
      BY <2>4, <3>1, FS_CardinalityType
  <2>6. Cardinality(Held') =< Cardinality(Held \cup block) /\ Cardinality(Held') \in Nat
    BY <2>2, <2>4, FS_Subset, FS_CardinalityType
  <2>7. HeldByAll' \in Nat /\ HeldByAll' =< HeldByAll + NextBytes(w)
    BY <2>1, <2>3, <2>4, <2>5, <2>6, MemoryNat DEF HeldByAll
  <2>8. HogBytes' = HogBytes /\ hogBlocks' = hogBlocks
    BY <1>1 DEF hogVars, HogBytes
  <2>9. FreeMem' = TotalMem - HeldByAll' - HogBytes'
    BY DEF FreeMem
  <2> QED
    BY <1>1, <2>1, <2>7, <2>8, <2>9, MemoryNat DEF MemoryInv, DeviceFits
<1> QED
  BY <1>1, <1>3, <1>4, <1>5, <1>6 DEF MemoryInv

\* A worker takes the batch at the head of the queue; nothing is held of it yet.
LEMMA TakeKeepsMemory ==
  ASSUME IInv, MemoryInv, NEW w \in Workers, Take(w)
  PROVE  MemoryInv'
<1>1. /\ wpc[w] = "idle" /\ batchQueue # <<>>
      /\ batch' = [batch EXCEPT ![w] = Head(batchQueue)]
      /\ batchQueue' = Tail(batchQueue)
      /\ wpc' = [wpc EXCEPT ![w] = "allocate"]
      /\ UNCHANGED <<status, reserved, base, got, hogSampled, hogCommitted,
                     starved, hogVars>>
  BY DEF Take, ghostVars
<1>2. /\ batchQueue \in Seq(Seq(Jobs)) /\ batch \in [Workers -> Seq(Jobs)]
      /\ DOMAIN wpc = Workers /\ got \in [Workers -> Nat]
      /\ got[w] = 0 /\ batch[w] = <<>>
  BY <1>1 DEF IInv, Batches, MemoryInv, Holding
<1>3. /\ 1 \in DOMAIN batchQueue /\ Head(batchQueue) = batchQueue[1]
      /\ Head(batchQueue) \in Seq(Jobs)
      /\ \A i \in DOMAIN batchQueue' :
           /\ i + 1 \in DOMAIN batchQueue /\ i + 1 # 1
           /\ batchQueue'[i] = batchQueue[i + 1]
      /\ \A k \in DOMAIN batchQueue : k # 1 =>
           \E i \in DOMAIN batchQueue' : k = i + 1
      /\ \A i, k \in DOMAIN batchQueue' : i # k => i + 1 # k + 1
  <2> DEFINE n == Len(batchQueue)
  <2>1. /\ n \in Nat \ {0} /\ DOMAIN batchQueue = 1..n
        /\ Head(batchQueue) = batchQueue[1]
        /\ Head(batchQueue) \in Seq(Jobs)
    BY <1>1, <1>2, HeadTailProperties, LenProperties, EmptySeq
  <2>2. /\ DOMAIN batchQueue' = 1..(n - 1)
        /\ \A i \in 1..(n - 1) : batchQueue'[i] = batchQueue[i + 1]
    <3>1. Tail(batchQueue) \in Seq(Seq(Jobs)) /\ Len(Tail(batchQueue)) = n - 1
          /\ \A i \in 1..Len(Tail(batchQueue)) : Tail(batchQueue)[i] = batchQueue[i + 1]
      BY <1>1, <1>2, HeadTailProperties
    <3>2. DOMAIN Tail(batchQueue) = 1..Len(Tail(batchQueue))
      BY <3>1, LenProperties
    <3> QED
      BY <1>1, <3>1, <3>2
  <2> HIDE DEF n
  <2>3. \A k \in 1..n : k # 1 => k - 1 \in 1..(n - 1) /\ k = (k - 1) + 1
    BY <2>1
  <2>4. \A i \in 1..(n - 1) : i + 1 \in 1..n /\ i + 1 # 1
    BY <2>1
  <2>5. \A k \in DOMAIN batchQueue : k # 1 => \E i \in DOMAIN batchQueue' : k = i + 1
    BY <2>1, <2>2, <2>3
  <2>6. \A i, k \in DOMAIN batchQueue' : i # k => i + 1 # k + 1
    <3>1. DOMAIN batchQueue' \subseteq Int
      BY <2>1, <2>2
    <3> QED
      BY <3>1
  <2>7. 1 \in DOMAIN batchQueue
    BY <2>1
  <2> QED
    BY <2>1, <2>2, <2>4, <2>5, <2>6, <2>7, Zenon
<1>4. /\ batch'[w] = batchQueue[1]
      /\ \A v \in Workers : v # w => batch'[v] = batch[v]
  BY <1>1, <1>2, <1>3
<1>5. /\ Batched(w)' = Queued(1) /\ Batched(w) = {}
      /\ \A v \in Workers : v # w => Batched(v)' = Batched(v)
      /\ \A i \in DOMAIN batchQueue' : Queued(i)' = Queued(i + 1)
  BY <1>2, <1>3, <1>4 DEF Batched, Queued, ToSet
<1>6. Committed' = Committed
  <2>1. ASSUME NEW j \in Committed PROVE j \in Committed'
    <3>1. CASE \E v \in Workers : j \in Batched(v)
      BY <1>5, <3>1 DEF Committed
    <3>2. CASE \E k \in DOMAIN batchQueue : k # 1 /\ j \in Queued(k)
      BY <1>3, <1>5, <3>2 DEF Committed
    <3>3. CASE j \in Queued(1)
      BY <1>5, <3>3 DEF Committed
    <3> QED
      BY <3>1, <3>2, <3>3 DEF Committed
  <2>2. ASSUME NEW j \in Committed' PROVE j \in Committed
    <3>1. CASE \E v \in Workers : j \in Batched(v)'
      BY <1>3, <1>5, <3>1 DEF Committed
    <3>2. CASE \E i \in DOMAIN batchQueue' : j \in Queued(i)'
      BY <1>3, <1>5, <3>2 DEF Committed
    <3> QED
      BY <2>2, <3>1, <3>2 DEF Committed
  <2> QED
    BY <2>1, <2>2
<1>7. Distinct'
  <2>1. /\ \A v \in Workers : IsInjective(batch'[v])
        /\ \A i \in DOMAIN batchQueue' : IsInjective(batchQueue'[i])
    BY <1>3, <1>4 DEF MemoryInv, Distinct
  <2>2. \A u, v \in Workers : u # v => Batched(u)' \cap Batched(v)' = {}
    BY <1>3, <1>5 DEF MemoryInv, Distinct
  <2>3. \A i, k \in DOMAIN batchQueue' : i # k => Queued(i)' \cap Queued(k)' = {}
    BY <1>3, <1>5 DEF MemoryInv, Distinct
  <2>4. \A i \in DOMAIN batchQueue', v \in Workers : Queued(i)' \cap Batched(v)' = {}
    BY <1>3, <1>5 DEF MemoryInv, Distinct
  <2>5. \A j \in Committed' : status'[j] # "waiting"
    BY <1>1, <1>6 DEF MemoryInv, Distinct
  <2> QED
    BY <2>1, <2>2, <2>3, <2>4, <2>5 DEF Distinct
<1>8. Holding'
  <2>1. Len(batch'[w]) \in Nat
    BY <1>1, <1>2, <1>3, LenProperties
  <2> QED
    BY <1>1, <1>2, <1>4, <2>1 DEF MemoryInv, Holding
<1>9. Promised'
  BY <1>1, <1>6 DEF MemoryInv, Promised
<1>10. DeviceFits'
  <2>1. HeldByAll' \in Nat /\ HeldByAll' =< HeldByAll
    BY <1>1, <1>2, <1>4, HeldShrinks
  <2>2. HogBytes' = HogBytes /\ hogBlocks' = hogBlocks
    BY <1>1 DEF hogVars, HogBytes
  <2>3. FreeMem' = TotalMem - HeldByAll' - HogBytes'
    BY DEF FreeMem
  <2> QED
    BY <2>1, <2>2, <2>3, MemoryNat DEF MemoryInv, DeviceFits
<1>11. ~starved'
  BY <1>1 DEF MemoryInv
<1> QED
  BY <1>7, <1>8, <1>9, <1>10, <1>11 DEF MemoryInv

\* A worker returns the bytes of its batch, whose buffers are gone.
LEMMA ReleaseKeepsMemory ==
  ASSUME IInv, MemoryInv, NEW w \in Workers, ReleaseBytes(w)
  PROVE  MemoryInv'
<1>1. /\ wpc[w] = "releasing"
      /\ reserved' = IF Need(Batched(w)) > reserved THEN 0
                     ELSE reserved - Need(Batched(w))
      /\ batch' = [batch EXCEPT ![w] = <<>>]
      /\ wpc' = [wpc EXCEPT ![w] = "idle"]
      /\ UNCHANGED <<status, batchQueue, base, got, hogSampled, hogCommitted,
                     starved, hogVars>>
  BY DEF ReleaseBytes, Release, ghostVars, Batched
<1>2. /\ batch \in [Workers -> Seq(Jobs)]
      /\ DOMAIN wpc = Workers /\ got \in [Workers -> Nat] /\ got[w] = 0
  BY <1>1 DEF IInv, Batches, MemoryInv, Holding
<1>3. batch'[w] = <<>> /\ \A v \in Workers : v # w => batch'[v] = batch[v]
  BY <1>1, <1>2
<1>4. /\ Batched(w)' = {}
      /\ \A v \in Workers : v # w => Batched(v)' = Batched(v)
      /\ \A i \in DOMAIN batchQueue : Queued(i)' = Queued(i)
  BY <1>1, <1>3 DEF Batched, Queued, ToSet
<1>5. Committed' = Committed \ Batched(w) /\ Batched(w) \subseteq Committed
  BY <1>1, <1>4 DEF Committed, MemoryInv, Distinct
<1>6. Distinct'
  <2>1. IsInjective(<<>>)
    BY DEF IsInjective
  <2>2. /\ \A v \in Workers : IsInjective(batch'[v])
        /\ \A i \in DOMAIN batchQueue' : IsInjective(batchQueue'[i])
    BY <1>1, <1>3, <2>1 DEF MemoryInv, Distinct
  <2>3. \A u, v \in Workers : u # v => Batched(u)' \cap Batched(v)' = {}
    BY <1>4 DEF MemoryInv, Distinct
  <2>4. \A i, k \in DOMAIN batchQueue' : i # k => Queued(i)' \cap Queued(k)' = {}
    BY <1>1, <1>4 DEF MemoryInv, Distinct
  <2>5. \A i \in DOMAIN batchQueue', v \in Workers : Queued(i)' \cap Batched(v)' = {}
    BY <1>1, <1>4 DEF MemoryInv, Distinct
  <2>6. \A j \in Committed' : status'[j] # "waiting"
    BY <1>1, <1>5 DEF MemoryInv, Distinct
  <2> QED
    BY <2>2, <2>3, <2>4, <2>5, <2>6 DEF Distinct
<1>7. Holding'
  <2>1. Len(batch'[w]) = 0
    BY <1>3
  <2> QED
    BY <1>1, <1>2, <1>3, <2>1 DEF MemoryInv, Holding
<1>8. Promised'
  <2>1. Committed \in SUBSET Jobs
    BY MemoryNat
  <2>2. /\ Need(Committed \ Batched(w)) = Need(Committed) - Need(Batched(w))
        /\ Need(Batched(w)) =< Need(Committed)
    BY <1>5, <2>1, NeedDifference
  <2>3. Need(Committed) \in Nat /\ Need(Batched(w)) \in Nat
    BY <1>5, <2>1, NeedNat
  <2>4. reserved = Need(Committed) /\ hogCommitted \in Nat
        /\ (reserved = 0 \/ reserved + SafetyMargin + hogCommitted =< TotalMem)
    BY DEF MemoryInv, Promised
  <2>5. reserved' = reserved - Need(Batched(w)) /\ reserved' \in Nat /\ reserved' =< reserved
    BY <1>1, <2>2, <2>3, <2>4
  <2>6. reserved' = Need(Committed')
    BY <1>5, <2>2, <2>4, <2>5
  <2>7. reserved' = 0 \/ reserved' + SafetyMargin + hogCommitted' =< TotalMem
    BY <1>1, <2>3, <2>4, <2>5, ExecAssumption
  <2> QED
    BY <1>1, <2>6, <2>7 DEF MemoryInv, Promised
<1>9. DeviceFits'
  <2>1. HeldByAll' \in Nat /\ HeldByAll' =< HeldByAll
    BY <1>1, <1>2, <1>3, HeldShrinks
  <2>2. HogBytes' = HogBytes /\ hogBlocks' = hogBlocks
    BY <1>1 DEF hogVars, HogBytes
  <2>3. FreeMem' = TotalMem - HeldByAll' - HogBytes'
    BY DEF FreeMem
  <2> QED
    BY <2>1, <2>2, <2>3, MemoryNat DEF MemoryInv, DeviceFits
<1>10. ~starved'
  BY <1>1 DEF MemoryInv
<1> QED
  BY <1>6, <1>7, <1>8, <1>9, <1>10 DEF MemoryInv

\* The steps that leave workers, batches and the other process alone.
LEMMA FreeKept ==
  ASSUME IInv, MemoryInv, UNCHANGED <<got, batch, hogVars>>
  PROVE  DeviceFits'
<1>1. HeldByAll' \in Nat /\ HeldByAll' =< HeldByAll
  BY HeldShrinks
<1>2. HogBytes' = HogBytes /\ hogBlocks' = hogBlocks
  BY DEF hogVars, HogBytes
<1>3. FreeMem' = TotalMem - HeldByAll' - HogBytes'
  BY DEF FreeMem
<1> QED
  BY <1>1, <1>2, <1>3, MemoryNat DEF MemoryInv, DeviceFits

\* What the dispatcher samples is free beside the other process.
LEMMA SampleKeeps ==
  ASSUME IInv, MemoryInv, Sample \/ NothingFits
  PROVE  MemoryInv'
<1>1. /\ UNCHANGED <<status, reserved, batchQueue, wpc, batch, got, hogCommitted,
                     starved, hogVars>>
      /\ \/ base' = NoSample /\ hogSampled' = hogSampled
         \/ /\ base' = IF FreeMem =< SafetyMargin THEN 0 ELSE FreeMem - SafetyMargin
            /\ hogSampled' = HogBytes
  BY DEF Sample, NothingFits, ghostVars
<1>2. Distinct' /\ Committed' = Committed
  BY <1>1, DistinctKept
<1>3. Holding'
  BY <1>1 DEF MemoryInv, Holding
<1>4. DeviceFits'
  BY <1>1, FreeKept
<1>5. /\ hogSampled' \in Nat
      /\ \/ base' \in {NoSample, 0}
         \/ base' \in Nat /\ base' + SafetyMargin + hogSampled' =< TotalMem
  <2>1. hogSampled \in Nat
    BY DEF MemoryInv, Promised
  <2>2. /\ FreeMem = TotalMem - HeldByAll - HogBytes /\ FreeMem \in Nat
        /\ HeldByAll \in Nat /\ HogBytes \in Nat /\ TotalMem \in Nat
        /\ SafetyMargin \in Nat
    BY MemoryNat
  <2> QED
    BY <1>1, <2>1, <2>2
<1>6. Promised'
  BY <1>1, <1>2, <1>5 DEF MemoryInv, Promised
<1> QED
  BY <1>1, <1>2, <1>3, <1>4, <1>6 DEF MemoryInv

\* What a round commits lies within what is left of its sample beside the
\* batches that are not yet released, the ones released since included.
LEMMA CommitKeeps ==
  ASSUME IInv, MemoryInv, Commit
  PROVE  MemoryInv'
<1>1. PICK S \in (SUBSET Waiting) \ {{}} :
        /\ Need(S) =< Budget
        /\ reserved' = reserved + Need(S)
        /\ batchQueue' = Append(batchQueue, SetToSeq(S))
        /\ status' = [j \in Jobs |-> IF j \in S THEN "committed" ELSE status[j]]
        /\ hogCommitted' = IF Need(S) > 0 THEN hogSampled ELSE hogCommitted
  BY DEF Commit, Packable, Fits
<1>2. /\ base # NoSample /\ base' = NoSample
      /\ UNCHANGED <<wpc, batch, got, hogSampled, starved, hogVars>>
  BY DEF Commit
<1>3. S \in SUBSET Jobs /\ \A j \in S : status[j] = "waiting"
  BY <1>1 DEF Waiting
<1>4. /\ SetToSeq(S) \in Seq(Jobs) /\ IsInjective(SetToSeq(S))
      /\ ToSet(SetToSeq(S)) = S
  BY <1>3, SetToSeqType
<1>n. PICK n \in Nat : n = Len(batchQueue)
  BY LenProperties DEF IInv, Batches
<1>5. /\ n \in Nat
      /\ DOMAIN batchQueue = 1..n /\ DOMAIN batchQueue' = 1..(n + 1)
      /\ \A i \in 1..n : batchQueue'[i] = batchQueue[i]
      /\ batchQueue'[n + 1] = SetToSeq(S)
  <2>1. batchQueue \in Seq(Seq(Jobs))
    BY DEF IInv, Batches
  <2>2. /\ batchQueue' \in Seq(Seq(Jobs)) /\ Len(batchQueue') = n + 1
        /\ \A i \in 1..n : batchQueue'[i] = batchQueue[i]
        /\ batchQueue'[n + 1] = SetToSeq(S)
    BY <1>1, <1>4, <1>n, <2>1, AppendProperties
  <2> QED
    BY <1>n, <2>1, <2>2, LenProperties
<1>6. \A i \in 1..(n + 1) : i \in 1..n \/ i = n + 1
  BY <1>5
<1>7. /\ \A i \in 1..n : Queued(i)' = Queued(i)
      /\ Queued(n + 1)' = S
      /\ \A w \in Workers : Batched(w)' = Batched(w)
  BY <1>2, <1>4, <1>5 DEF Queued, Batched
<1>8. n + 1 \in 1..(n + 1) /\ n + 1 \notin 1..n /\ 1..n \subseteq 1..(n + 1)
  BY <1>5
<1>9. Committed' = Committed \cup S /\ Committed \cap S = {}
  <2>1. Committed' = Committed \cup S
    <3>1. UNION {Queued(i)' : i \in DOMAIN batchQueue'}
            = (UNION {Queued(i) : i \in DOMAIN batchQueue}) \cup S
      BY <1>5, <1>6, <1>7, <1>8
    <3> QED
      BY <1>7, <3>1 DEF Committed
  <2>2. Committed \cap S = {}
    BY <1>3 DEF MemoryInv, Distinct
  <2> QED
    BY <2>1, <2>2
<1>10. Distinct'
  <2>1. /\ \A w \in Workers : IsInjective(batch'[w])
        /\ \A i \in DOMAIN batchQueue' : IsInjective(batchQueue'[i])
    BY <1>2, <1>4, <1>5, <1>6 DEF MemoryInv, Distinct
  <2>2. \A v, w \in Workers : v # w => Batched(v)' \cap Batched(w)' = {}
    BY <1>7 DEF MemoryInv, Distinct
  <2>3. \A i \in DOMAIN batchQueue : Queued(i) \cap S = {}
    BY <1>9 DEF Committed
  <2>4. \A w \in Workers : Batched(w) \cap S = {}
    BY <1>9 DEF Committed
  <2>5. \A i, k \in DOMAIN batchQueue' : i # k => Queued(i)' \cap Queued(k)' = {}
    <3> SUFFICES ASSUME NEW i \in 1..(n + 1), NEW k \in 1..(n + 1), i # k
                 PROVE  Queued(i)' \cap Queued(k)' = {}
      BY <1>5
    <3>1. CASE i \in 1..n /\ k \in 1..n
      BY <1>5, <1>7, <3>1 DEF MemoryInv, Distinct
    <3>2. CASE i \in 1..n /\ k = n + 1
      BY <1>5, <1>7, <2>3, <3>2
    <3>3. CASE i = n + 1 /\ k \in 1..n
      BY <1>5, <1>7, <2>3, <3>3
    <3> QED
      BY <1>6, <3>1, <3>2, <3>3
  <2>6. \A i \in DOMAIN batchQueue', w \in Workers : Queued(i)' \cap Batched(w)' = {}
    BY <1>5, <1>6, <1>7, <2>4 DEF MemoryInv, Distinct
  <2>7. \A j \in Committed' : status'[j] # "waiting"
    <3>1. Committed \subseteq Jobs /\ S \subseteq Jobs
      BY <1>3, MemoryNat
    <3>2. \A j \in Committed : status[j] # "waiting"
      BY DEF MemoryInv, Distinct
    <3> QED
      BY <1>1, <1>9, <3>1, <3>2
  <2> QED
    BY <2>1, <2>2, <2>5, <2>6, <2>7 DEF Distinct
<1>11. Holding'
  BY <1>2 DEF MemoryInv, Holding
<1>12. DeviceFits'
  BY <1>2, FreeKept
<1>13. Promised'
  <2>1. Need(Committed') = Need(Committed) + Need(S)
    BY <1>3, <1>9, NeedUnion, MemoryNat
  <2>2. Need(S) \in Nat /\ reserved \in Nat /\ TotalMem \in Nat /\ SafetyMargin \in Nat
    BY <1>3, NeedNat, MemoryNat
  <2>3. /\ reserved = Need(Committed)
        /\ hogSampled \in Nat /\ hogCommitted \in Nat
        /\ \/ base = 0
           \/ base \in Nat /\ base + SafetyMargin + hogSampled =< TotalMem
        /\ reserved = 0 \/ reserved + SafetyMargin + hogCommitted =< TotalMem
    BY <1>2 DEF MemoryInv, Promised
  <2>4. reserved' = Need(Committed')
    BY <1>1, <2>1, <2>3
  <2>5. reserved' = 0 \/ reserved' + SafetyMargin + hogCommitted' =< TotalMem
    <3>1. CASE Need(S) = 0
      BY <1>1, <2>2, <2>3, <3>1
    <3>2. CASE Need(S) > 0
      <4>1. Budget > 0
        BY <1>1, <2>2, <2>3, <3>2 DEF Budget
      <4>2. base > reserved /\ reserved + Need(S) =< base
        BY <1>1, <2>2, <2>3, <4>1 DEF Budget
      <4>3. base \in Nat /\ base + SafetyMargin + hogSampled =< TotalMem
        BY <2>2, <2>3, <4>2
      <4> QED
        BY <1>1, <2>2, <2>3, <3>2, <4>2, <4>3
    <3> QED
      BY <2>2, <3>1, <3>2
  <2>6. hogSampled' \in Nat /\ hogCommitted' \in Nat
    BY <1>1, <1>2, <2>3
  <2> QED
    BY <1>2, <2>4, <2>5, <2>6 DEF Promised
<1>14. ~starved'
  BY <1>2 DEF MemoryInv
<1> QED
  BY <1>10, <1>11, <1>12, <1>13, <1>14 DEF MemoryInv

\* The other process takes free memory only.
LEMMA HogKeeps ==
  ASSUME IInv, MemoryInv, HogStep
  PROVE  MemoryInv'
<1>1. /\ UNCHANGED <<status, reserved, base, batchQueue, wpc, batch, got,
                     hogSampled, hogCommitted, starved>>
      /\ HogNext(FreeMem)
  BY DEF HogStep, execVars
<1>2. Distinct' /\ Committed' = Committed
  BY <1>1, DistinctKept
<1>3. Holding' /\ Promised' /\ ~starved'
  BY <1>1, <1>2 DEF MemoryInv, Holding, Promised
<1>4. HeldByAll' \in Nat /\ HeldByAll' =< HeldByAll
  BY <1>1, HeldShrinks
<1>5. FreeMem' = TotalMem - HeldByAll' - HogBytes'
  BY DEF FreeMem
<1>6. DeviceFits'
  <2>1. hogBlocks \in Nat /\ ChunkBytes \in Nat
    BY HogAssumption DEF MemoryInv, DeviceFits
  <2>2. HogBytes = hogBlocks * ChunkBytes /\ HogBytes' = hogBlocks' * ChunkBytes
    BY DEF HogBytes
  <2>3. \/ hogBlocks' = hogBlocks
        \/ hogBlocks' = hogBlocks + 1 /\ ChunkBytes =< FreeMem
        \/ hogBlocks > 0 /\ hogBlocks' = hogBlocks - 1
    BY <1>1 DEF HogNext, HogAllocate, HogHold, HogFree, HogSleep, HogAwake
  <2>4. CASE hogBlocks' = hogBlocks
    BY <1>4, <1>5, <2>1, <2>2, <2>4, MemoryNat DEF DeviceFits
  <2>5. CASE hogBlocks' = hogBlocks + 1 /\ ChunkBytes =< FreeMem
    <3>1. HogBytes' = HogBytes + ChunkBytes /\ hogBlocks' \in Nat
      BY <2>1, <2>2, <2>5
    <3> QED
      BY <1>4, <1>5, <2>1, <2>5, <3>1, MemoryNat DEF DeviceFits
  <2>6. CASE hogBlocks > 0 /\ hogBlocks' = hogBlocks - 1
    <3>1. HogBytes' = HogBytes - ChunkBytes /\ hogBlocks' \in Nat
      BY <2>1, <2>2, <2>6
    <3> QED
      BY <1>4, <1>5, <2>1, <3>1, MemoryNat DEF DeviceFits
  <2> QED
    BY <2>3, <2>4, <2>5, <2>6
<1> QED
  BY <1>2, <1>3, <1>6 DEF MemoryInv

LEMMA MemoryInvInit == Init => MemoryInv
<1> SUFFICES ASSUME Init PROVE MemoryInv
  OBVIOUS
<1>1. /\ reserved = 0 /\ base = NoSample /\ batchQueue = <<>> /\ starved = FALSE
      /\ hogSampled = 0 /\ hogCommitted = 0 /\ hogBlocks = 0
      /\ \A w \in Workers : batch[w] = <<>> /\ got[w] = 0
      /\ got = [w \in Workers |-> 0]
  BY DEF Init, HogInit
<1>2. Committed = {}
  BY <1>1 DEF Committed, Queued, Batched, ToSet
<1>3. Distinct
  BY <1>1, <1>2 DEF Distinct, Batched, ToSet, IsInjective
<1>4. Holding
  BY <1>1 DEF Holding
<1>5. Promised
  BY <1>1, <1>2, NeedEmpty DEF Promised
<1>6. DeviceFits
  <2>1. \A w \in Workers : Memory(w, got[w]) = {}
    BY <1>1 DEF Memory
  <2>2. Held = {}
    BY <2>1 DEF Held
  <2>3. HeldByAll = 0 /\ HogBytes = 0
    BY <1>1, <2>2, FS_EmptySet, HogAssumption DEF HeldByAll, HogBytes
  <2> QED
    BY <1>1, <2>3, ExecAssumption DEF DeviceFits, FreeMem
<1> QED
  BY <1>1, <1>3, <1>4, <1>5, <1>6 DEF MemoryInv

LEMMA MemoryInvStep == IInv /\ MemoryInv /\ [Next]_vars => MemoryInv'
<1> SUFFICES ASSUME IInv, MemoryInv, [Next]_vars PROVE MemoryInv'
  OBVIOUS
<1>1. CASE DispatcherStep
  BY <1>1, SampleKeeps, CommitKeeps DEF DispatcherStep
<1>2. ASSUME NEW w \in Workers, WorkerStep(w) \/ FaultStep(w) PROVE MemoryInv'
  BY <1>2, TakeKeepsMemory, AllocateKeeps, OutOfMemoryKeeps, WorkerStepKeeps,
     ReleaseKeepsMemory
     DEF WorkerStep, FaultStep
<1>3. CASE HogStep
  BY <1>3, HogKeeps
<1>4. CASE UNCHANGED vars
  <2>1. UNCHANGED <<status, reserved, base, batchQueue, wpc, batch, got,
                    hogSampled, hogCommitted, starved, hogVars>>
    BY <1>4 DEF vars, execVars
  <2>2. Distinct' /\ Committed' = Committed
    BY <2>1, DistinctKept
  <2>3. DeviceFits'
    BY <2>1, FreeKept
  <2> QED
    BY <2>1, <2>2, <2>3 DEF MemoryInv, Holding, Promised
<1> QED
  BY <1>1, <1>2, <1>3, <1>4 DEF Next

LEMMA MemoryInvHolds == Spec => [](IInv /\ MemoryInv)
BY InitIInv, NextIInv, MemoryInvInit, MemoryInvStep, PTL DEF Spec

\* The buffers of the batches under way are covered by reserved_bytes_ at every
\* moment, and reserved_bytes_ is exactly the need of the batches committed and
\* not released: worker_loop returns the bytes after execute_batch has freed
\* the buffers, and a retry starts with none.
THEOREM HeldIsCovered == Spec => []HeldWithinReservation
<1>1. IInv /\ MemoryInv => HeldWithinReservation
  <2> SUFFICES ASSUME IInv, MemoryInv PROVE HeldWithinReservation
    OBVIOUS
  <2>1. CommittedNeed = Need(Committed)
    BY DEF CommittedNeed, Committed, Queued, Batched
  <2> QED
    BY <2>1, MemoryNat DEF HeldWithinReservation, MemoryInv, Promised
<1> QED
  BY <1>1, MemoryInvHolds, PTL

\* cudaMalloc runs out of memory only if another process has grown by more than
\* the safety margin since memory was last committed: "the reservation
\* accounting keeps our own batches from overcommitting".
THEOREM OnlyATenantStarves == Spec => []OomNeedsTenant
<1>1. MemoryInv => OomNeedsTenant
  BY DEF MemoryInv, OomNeedsTenant
<1> QED
  BY <1>1, MemoryInvHolds, PTL
=============================================================================
