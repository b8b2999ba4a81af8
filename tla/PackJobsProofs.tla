--------------------------- MODULE PackJobsProofs ---------------------------
(***************************************************************************)
(* The sweep of pack_jobs computes the set that Packs describes, for every *)
(* set of jobs and all sizes, ages, priorities, caps and budgets.  It is   *)
(* what lets Scheduler.tla take the whole call as one step.                *)
(***************************************************************************)
EXTENDS PackJobs, PackingProofs

-----------------------------------------------------------------------------
(* Facts about the packing rule. *)

\* The comparator is a strict order of the candidates.
LEMMA BeforeStrict ==
  ASSUME NEW S \in SUBSET Jobs, NEW b \in [S -> Nat], NEW s \in [S -> Nat],
         NEW i \in S, NEW j \in S, Before(b, s, i, j)
  PROVE  i # j /\ ~Before(b, s, j, i)
<1>1. b[i] \in Nat /\ b[j] \in Nat /\ s[i] \in Nat /\ s[j] \in Nat
  OBVIOUS
<1>2. Bytes[i] \in Nat /\ Bytes[j] \in Nat /\ Priority[i] \in Int /\ Priority[j] \in Int
  BY JobsAssumption
<1> QED
  BY <1>1, <1>2 DEF Before

\* One job needs its own bytes.
LEMMA NeedOne ==
  ASSUME NEW j \in Jobs
  PROVE  Need({j}) = Bytes[j]
<1>1. Units({j}) = {j} \X (1..Bytes[j])
  BY DEF Units
<1>2. Bytes[j] \in Nat
  BY JobsAssumption
<1>3. IsFiniteSet(1..Bytes[j]) /\ Cardinality(1..Bytes[j]) = Bytes[j]
  BY <1>2, FS_Interval
<1>4. IsFiniteSet({j}) /\ Cardinality({j}) = 1
  BY FS_Singleton
<1> DEFINE one == {j}  units == 1..Bytes[j]
<1>5. Cardinality({j} \X (1..Bytes[j])) = 1 * Bytes[j]
  <2>1. /\ IsFiniteSet(one) /\ Cardinality(one) = 1
        /\ IsFiniteSet(units) /\ Cardinality(units) = Bytes[j]
    BY <1>3, <1>4
  <2> HIDE DEF one, units
  <2>2. Cardinality(one \X units) = Cardinality(one) * Cardinality(units)
    BY <2>1, FS_Product
  <2>3. Cardinality(one \X units) = 1 * Bytes[j]
    BY <2>1, <2>2
  <2> QED
    BY <2>3 DEF one, units
<1>6. Need({j}) = Cardinality({j} \X (1..Bytes[j]))
  BY <1>1, Zenon DEF Need
<1> QED
  BY <1>2, <1>5, <1>6

\* The two tests of the loop decide whether one more job fits.
LEMMA TestsDecideFit ==
  ASSUME NEW j \in Jobs, selected \in SUBSET Jobs, j \notin selected,
         budget \in Nat, used = Need(selected)
  PROVE  Fits(selected \cup {j}, budget) <=> ~BatchFull /\ ~TooBig(j)
<1>1. Need(selected \cup {j}) = Need(selected) + Bytes[j]
  BY NeedUnion, NeedOne
<1>2. Cardinality(selected \cup {j}) = Cardinality(selected) + 1
  BY JobsAssumption, FS_Subset, FS_AddElement
<1>3. Need(selected) \in Nat /\ Bytes[j] \in Nat /\ MaxBatch \in Int
      /\ Cardinality(selected) \in Nat
  BY NeedNat, CountNat, JobsAssumption
<1> QED
  BY <1>1, <1>2, <1>3 DEF Fits, BatchFull, TooBig

-----------------------------------------------------------------------------
(* The invariant of the loop. *)

Seen == {sorted[i] : i \in 1..(next - 1)}

\* The sort has put every candidate in its place.
Sorted ==
  next > 0 =>
    /\ \A i, k \in 1..N : i < k => Before(bucket, seq, sorted[i], sorted[k])
    /\ \A j \in candidates : \E i \in 1..N : sorted[i] = j

\* A job looked at is selected exactly if it fitted beside the selected jobs
\* sorted before it, and every set that Packs describes agrees with that.
Decided ==
  next > 0 =>
    /\ \A j \in Seen :
         j \in selected <=>
           Fits({i \in selected : Before(bucket, seq, i, j)} \cup {j}, budget)
    /\ \A S \in SUBSET candidates :
         Packs(S, candidates, bucket, seq, budget) => S \cap Seen = selected

Unstarted == next = 0 => selected = {} /\ remaining = {} /\ used = 0

IInv == TypeOK /\ Sorted /\ Unstarted /\ SweepBounded /\ Decided

\* The facts about the types that the steps need.
LEMMA Types ==
  ASSUME TypeOK
  PROVE  /\ candidates \in SUBSET Jobs /\ IsFiniteSet(candidates)
         /\ N \in Nat
         /\ budget \in Nat
         /\ bucket \in [candidates -> Nat] /\ seq \in [candidates -> Nat]
         /\ next \in Nat
<1>1. candidates \in SUBSET Jobs /\ IsFiniteSet(candidates)
  BY JobsAssumption, FS_Subset DEF TypeOK
<1>2. N \in Nat
  BY <1>1, FS_CardinalityType DEF N
<1> QED
  BY <1>1, <1>2, PackJobsAssumption DEF TypeOK

LEMMA InitIInv == Init => IInv
<1> SUFFICES ASSUME Init PROVE IInv
  OBVIOUS
<1>1. candidates \in SUBSET Jobs
  BY DEF Init
<1>2. N \in Nat
  BY <1>1, CountNat DEF N
<1>3. TypeOK
  BY <1>1, <1>2 DEF Init, TypeOK, N
<1>4. Fits({}, budget) /\ used = Need({})
  BY NeedEmpty, FS_EmptySet, PackJobsAssumption, JobsAssumption DEF Init, Fits
<1> QED
  BY <1>3, <1>4 DEF Init, IInv, Sorted, Unstarted, SweepBounded, Decided

\* The order is strict, so the sorted vector holds every candidate once.
LEMMA SortKeeps == IInv /\ Sort => IInv'
<1> SUFFICES ASSUME IInv, Sort PROVE IInv'
  OBVIOUS
<1>1. /\ candidates \in SUBSET Jobs /\ IsFiniteSet(candidates)
      /\ N \in Nat
      /\ bucket \in [candidates -> Nat] /\ seq \in [candidates -> Nat]
  BY Types DEF IInv
<1>2. /\ sorted' \in [1..N -> candidates]
      /\ \A i, k \in 1..N : i < k => Before(bucket, seq, sorted'[i], sorted'[k])
      /\ next' = 1 /\ N' = N
      /\ UNCHANGED <<candidates, budget, bucket, seq, used, selected, remaining>>
  BY DEF Sort, inputs, N
<1>3. sorted' \in Injection(1..N, candidates)
  <2>1. ASSUME NEW i \in 1..N, NEW k \in 1..N, sorted'[i] = sorted'[k] PROVE i = k
    <3>1. sorted'[i] \in candidates
      BY <1>2
    <3>2. ~Before(bucket, seq, sorted'[i], sorted'[i])
      BY <1>1, <3>1, BeforeStrict
    <3>3. ~(i < k) /\ ~(k < i)
      BY <1>2, <2>1, <3>2
    <3> QED
      BY <1>1, <3>3
  <2> QED
    BY <1>2, <2>1 DEF Injection, IsInjective
<1>4. Cardinality(1..N) = Cardinality(candidates)
  BY <1>1, FS_Interval DEF N
<1>5. sorted' \in Surjection(1..N, candidates)
  BY <1>1, <1>3, <1>4, FS_Injection
<1>6. Sorted'
  BY <1>2, <1>5 DEF Sorted, Surjection
<1>7. TypeOK'
  BY <1>1, <1>2 DEF IInv, TypeOK, N
<1>8. selected = {} /\ remaining = {}
  BY DEF IInv, Sort, Unstarted
<1>9. Seen' = {}
  BY <1>2 DEF Seen
<1>10. SweepBounded'
  BY <1>2, <1>8 DEF IInv, SweepBounded, Need, Units, Fits
<1>11. Decided'
  BY <1>2, <1>8, <1>9 DEF Decided
<1> QED
  BY <1>2, <1>6, <1>7, <1>10, <1>11 DEF IInv, Unstarted

-----------------------------------------------------------------------------
(* A turn of the loop. *)

\* The job the loop looks at comes right after those it has seen.
LEMMA NextIsLast ==
  ASSUME IInv, Sweeping
  PROVE  /\ sorted[next] \in candidates /\ sorted[next] \notin Seen
         /\ \A x \in Seen : x \in candidates /\ Before(bucket, seq, x, sorted[next])
         /\ \A S \in SUBSET candidates :
              {i \in S : Before(bucket, seq, i, sorted[next])} = S \cap Seen
<1> DEFINE j == sorted[next]
<1>1. /\ candidates \in SUBSET Jobs /\ N \in Nat /\ next \in 1..N
      /\ bucket \in [candidates -> Nat] /\ seq \in [candidates -> Nat]
      /\ sorted \in [1..N -> candidates]
  BY Types DEF IInv, TypeOK, Sweeping
<1>2. /\ \A i, k \in 1..N : i < k => Before(bucket, seq, sorted[i], sorted[k])
      /\ \A x \in candidates : \E i \in 1..N : sorted[i] = x
  BY <1>1 DEF IInv, Sorted
<1>3. j \in candidates
  BY <1>1
<1>4. ASSUME NEW x \in Seen PROVE x \in candidates /\ Before(bucket, seq, x, j)
  <2>1. PICK i \in 1..(next - 1) : x = sorted[i]
    BY DEF Seen
  <2>2. i \in 1..N /\ i < next
    BY <1>1
  <2> QED
    BY <1>1, <1>2, <2>1, <2>2
<1>5. j \notin Seen
  BY <1>1, <1>3, <1>4, BeforeStrict
<1>6. ASSUME NEW x \in candidates, Before(bucket, seq, x, j) PROVE x \in Seen
  <2>1. PICK i \in 1..N : x = sorted[i]
    BY <1>2
  <2>2. x # j /\ ~Before(bucket, seq, j, x)
    BY <1>1, <1>3, <1>6, BeforeStrict
  <2>3. i < next
    BY <1>1, <1>2, <2>1, <2>2
  <2> QED
    BY <1>1, <2>1, <2>3 DEF Seen
<1> QED
  BY <1>3, <1>4, <1>5, <1>6

\* Whatever the loop decides of the job it looks at, if it decides by the fit.
LEMMA TurnKeepsDecided ==
  ASSUME IInv, Sweeping,
         UNCHANGED <<candidates, budget, bucket, seq, sorted>>,
         next' = next + 1,
         selected' = selected
           \/ selected' = selected \cup {sorted[next]},
         sorted[next] \in selected' <=> Fits(selected \cup {sorted[next]}, budget)
  PROVE  Decided'
<1> DEFINE j == sorted[next]
<1>1. /\ j \in candidates /\ j \notin Seen
      /\ \A x \in Seen : x \in candidates /\ Before(bucket, seq, x, j)
      /\ \A S \in SUBSET candidates :
           {i \in S : Before(bucket, seq, i, j)} = S \cap Seen
  BY NextIsLast
<1>2. /\ candidates \in SUBSET Jobs /\ N \in Nat /\ next \in 1..N
      /\ bucket \in [candidates -> Nat] /\ seq \in [candidates -> Nat]
  BY Types DEF IInv, Sweeping
<1>3. Seen' = Seen \cup {j}
  BY <1>2 DEF Seen
<1>4. selected \subseteq Seen /\ selected \subseteq candidates
  BY <1>2 DEF IInv, SweepBounded, Seen, TypeOK
<1>5. \A x \in Seen : ~Before(bucket, seq, j, x)
  BY <1>1, <1>2, BeforeStrict
<1>6. ~Before(bucket, seq, j, j)
  BY <1>1, <1>2, BeforeStrict
<1>7. ASSUME NEW x \in Seen'
      PROVE  x \in selected' <=>
               Fits({i \in selected' : Before(bucket, seq, i, x)} \cup {x}, budget)
  <2>1. CASE x = j
    <3>1. {i \in selected' : Before(bucket, seq, i, j)} = selected
      BY <1>1, <1>4, <1>6
    <3> QED
      BY <2>1, <3>1
  <2>2. CASE x # j
    <3>1. x \in Seen
      BY <1>3, <2>2
    <3>2. x \in selected' <=> x \in selected
      BY <2>2
    <3>3. {i \in selected' : Before(bucket, seq, i, x)}
            = {i \in selected : Before(bucket, seq, i, x)}
      BY <1>5, <3>1
    <3> QED
      BY <1>2, <3>1, <3>2, <3>3 DEF IInv, Decided
  <2> QED
    BY <2>1, <2>2
<1>8. ASSUME NEW S \in SUBSET candidates, Packs(S, candidates, bucket, seq, budget)
      PROVE  S \cap Seen' = selected'
  <2>1. S \cap Seen = selected
    BY <1>2, <1>8 DEF IInv, Decided
  <2>2. j \in S <=> Fits(selected \cup {j}, budget)
    BY <1>1, <1>8, <2>1 DEF Packs
  <2> QED
    BY <1>1, <1>3, <1>4, <2>1, <2>2
<1> QED
  BY <1>7, <1>8 DEF Decided

LEMMA TurnKeeps == IInv /\ (Leave \/ Select) => IInv'
<1> SUFFICES ASSUME IInv, Leave \/ Select PROVE IInv'
  OBVIOUS
<1> DEFINE j == sorted[next]
<1>1. /\ Sweeping /\ next' = next + 1
      /\ UNCHANGED <<candidates, budget, bucket, seq, sorted>>
  BY DEF Leave, Select, inputs
<1>2. /\ candidates \in SUBSET Jobs /\ N \in Nat /\ next \in 1..N
      /\ budget \in Nat /\ used = Need(selected) /\ Fits(selected, budget)
      /\ selected \cup remaining = Seen /\ selected \cap remaining = {}
      /\ selected \subseteq candidates /\ remaining \subseteq candidates
  BY <1>1, Types DEF IInv, Sweeping, SweepBounded, Seen, TypeOK
<1>3. j \in candidates /\ j \notin Seen
  BY <1>1, NextIsLast
<1>4. Fits(selected \cup {j}, budget) <=> ~BatchFull /\ ~TooBig(j)
  BY <1>2, <1>3, TestsDecideFit
<1>5. Seen' = Seen \cup {j}
  BY <1>1, <1>2 DEF Seen
<1>6. Decided'
  <2>1. CASE Leave
    BY <1>1, <1>2, <1>3, <1>4, <2>1, TurnKeepsDecided DEF Leave
  <2>2. CASE Select
    BY <1>1, <1>2, <1>3, <1>4, <2>2, TurnKeepsDecided DEF Select
  <2> QED
    BY <2>1, <2>2
<1>7. SweepBounded'
  <2>1. CASE Leave
    BY <1>1, <1>2, <1>3, <1>5, <2>1 DEF Leave, SweepBounded, Seen
  <2>2. CASE Select
    <3>1. Need(selected \cup {j}) = Need(selected) + Bytes[j]
      <4>1. /\ selected \in SUBSET Jobs /\ j \in Jobs
            /\ {j} \in SUBSET Jobs /\ selected \cap {j} = {}
        BY <1>2, <1>3
      <4> QED
        BY <4>1, NeedUnion, NeedOne
    <3>2. Fits(selected \cup {j}, budget)
      BY <1>4, <2>2 DEF Select
    <3> QED
      BY <1>1, <1>2, <1>3, <1>5, <2>2, <3>1, <3>2 DEF Select, SweepBounded, Seen
  <2> QED
    BY <2>1, <2>2
<1>8. TypeOK'
  <2>1. used' \in Nat
    <3>1. selected' \in SUBSET Jobs
      BY <1>2, <1>3 DEF Leave, Select
    <3>2. Need(selected') \in Nat
      BY <3>1, NeedNat
    <3> QED
      BY <1>7, <3>2 DEF SweepBounded
  <2>2. next' \in 0..(N + 1) /\ N' = N /\ next' # 0
    BY <1>1, <1>2 DEF N
  <2>3. selected' \subseteq candidates /\ remaining' \subseteq candidates
    BY <1>2, <1>3 DEF Leave, Select
  <2> QED
    BY <1>1, <1>2, <2>1, <2>2, <2>3 DEF IInv, TypeOK
<1>9. Sorted' /\ Unstarted'
  BY <1>1, <1>2 DEF IInv, Sorted, Unstarted, N
<1> QED
  BY <1>6, <1>7, <1>8, <1>9 DEF IInv

LEMMA NextIInv == IInv /\ [Next]_vars => IInv'
<1> SUFFICES ASSUME IInv, [Next]_vars PROVE IInv'
  OBVIOUS
<1>1. CASE UNCHANGED vars
  <2>1. /\ UNCHANGED <<candidates, budget, bucket, seq, sorted, next, used>>
        /\ UNCHANGED <<selected, remaining>>
    BY <1>1 DEF vars, inputs
  <2>2. TypeOK' /\ Sorted' /\ Unstarted'
    BY <2>1 DEF IInv, TypeOK, Sorted, Unstarted, N
  <2>3. Seen' = Seen
    BY <2>1 DEF Seen
  <2>4. SweepBounded' /\ Decided'
    BY <2>1, <2>3 DEF IInv, SweepBounded, Decided
  <2> QED
    BY <2>2, <2>4 DEF IInv
<1> QED
  BY <1>1, SortKeeps, TurnKeeps DEF Next

-----------------------------------------------------------------------------
\* At every turn of the loop the selected jobs respect the cap and the budget,
\* and `used` is their memory: the tests neither drift nor overflow.
THEOREM SweepStaysBounded == Spec => []SweepBounded
<1>1. IInv => SweepBounded
  BY DEF IInv
<1> QED
  BY <1>1, InitIInv, NextIInv, PTL DEF Spec

\* When the loop has ended.
LEMMA DoneComputes ==
  ASSUME IInv, Done
  PROVE  /\ {S \in SUBSET candidates : Packs(S, candidates, bucket, seq, budget)}
              = {selected}
         /\ remaining = candidates \ selected
         /\ Packs(selected, candidates, bucket, seq, budget)
<1>1. /\ candidates \in SUBSET Jobs /\ N \in Nat /\ next = N + 1 /\ next > 0
      /\ sorted \in [1..N -> candidates]
  BY Types DEF IInv, TypeOK, Done
<1>2. Seen = candidates
  BY <1>1 DEF IInv, Sorted, Seen
<1>3. /\ selected \cup remaining = candidates /\ selected \cap remaining = {}
      /\ Fits(selected, budget)
  BY <1>1, <1>2 DEF IInv, SweepBounded, Seen
<1>4. Packs(selected, candidates, bucket, seq, budget)
  BY <1>1, <1>2, <1>3 DEF IInv, Decided, Packs
<1>5. ASSUME NEW S \in SUBSET candidates, Packs(S, candidates, bucket, seq, budget)
      PROVE  S = selected
  BY <1>1, <1>2, <1>5 DEF IInv, Decided
<1> QED
  BY <1>3, <1>4, <1>5

\* When the call returns, `selected` is a set that Packs describes, there is no
\* other one, and `remaining` is the rest: the dispatcher's single step in
\* Scheduler.tla, which picks any set that Packs describes, is this call.
THEOREM SweepComputesPacks == Spec => []ComputesPacks
<1>1. IInv => ComputesPacks
  BY DoneComputes DEF ComputesPacks
<1> QED
  BY <1>1, InitIInv, NextIInv, PTL DEF Spec

\* A job is never left behind in favour of younger ones: those selected that
\* are at least as old leave no room for it.  The sort puts age before size
\* before priority for this.
THEOREM AgeComesFirst == Spec => []YoungerNeverDisplaces
<1>1. ASSUME IInv, Done, NEW j \in remaining
      PROVE  ~Fits({i \in selected : bucket[i] >= bucket[j]} \cup {j}, budget)
  <2> DEFINE earlier == {i \in selected : Before(bucket, seq, i, j)}
             older == {i \in selected : bucket[i] >= bucket[j]}
  <2>1. /\ candidates \in SUBSET Jobs /\ budget \in Nat
        /\ bucket \in [candidates -> Nat]
        /\ j \in candidates /\ j \notin selected /\ selected \subseteq candidates
    BY <1>1, Types, DoneComputes DEF IInv, TypeOK
  <2>2. ~Fits(earlier \cup {j}, budget)
    BY <1>1, <2>1, DoneComputes DEF Packs
  <2>3. earlier \subseteq older
    BY <2>1 DEF Before
  <2>4. older \cup {j} \in SUBSET Jobs /\ earlier \cup {j} \in SUBSET (older \cup {j})
    BY <2>1, <2>3
  <2> QED
    BY <2>1, <2>2, <2>4, FitsDownward
<1>2. IInv => YoungerNeverDisplaces
  BY <1>1 DEF YoungerNeverDisplaces
<1> QED
  BY <1>2, InitIInv, NextIInv, PTL DEF Spec

\* Jobs of one age: no choice of them that respects the budget and the cap has
\* more jobs than the sweep selected.  docs/DESIGN.md calls the sweep an
\* approximation; across ages it is one, within an age it is exact.
THEOREM SweepIsOptimalWithinAnAge == Spec => []SameAgeIsOptimal
<1>1. ASSUME IInv, Done, \A i, j \in candidates : bucket[i] = bucket[j],
             NEW T \in SUBSET candidates, Fits(T, budget)
      PROVE  Cardinality(T) =< Cardinality(selected)
  BY <1>1, Types, DoneComputes, SameAgePackIsLargest DEF IInv
<1>2. IInv => SameAgeIsOptimal
  BY <1>1 DEF SameAgeIsOptimal, MaximizesCount
<1> QED
  BY <1>2, InitIInv, NextIInv, PTL DEF Spec
=============================================================================
