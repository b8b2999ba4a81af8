--------------------------- MODULE PackingProofs ---------------------------
(***************************************************************************)
(* Lemmas about the memory of sets of jobs, for every finite set of jobs   *)
(* and every function of sizes.                                            *)
(***************************************************************************)
EXTENDS Packing, FiniteSetTheorems, FunctionTheorems, TLAPS

-----------------------------------------------------------------------------
(***************************************************************************)
(* The memory of sets of jobs: `used`, `batch_bytes` and reserved_bytes_   *)
(* are sums of bytes_required(), so Need must behave like a sum.           *)
(***************************************************************************)

\* A set of jobs needs a finite number of bytes.
LEMMA UnitsFinite ==
  ASSUME NEW S \in SUBSET Jobs
  PROVE  IsFiniteSet(Units(S))
<1>1. IsFiniteSet(S)
  BY JobsAssumption, FS_Subset
<1> DEFINE U == {{j} \X (1..Bytes[j]) : j \in S}
<1>2. IsFiniteSet(U)
  <2> DEFINE unitsOf == [j \in S |-> {j} \X (1..Bytes[j])]
  <2>1. unitsOf \in Surjection(S, U)
    BY DEF U, Surjection
  <2> QED
    BY <1>1, <2>1, FS_Surjection
<1>3. ASSUME NEW u \in U PROVE IsFiniteSet(u)
  <2>1. PICK j \in S : u = {j} \X (1..Bytes[j])
    OBVIOUS
  <2>2. Bytes[j] \in Nat
    BY JobsAssumption
  <2>3. IsFiniteSet(1..Bytes[j])
    <3>1. 1 \in Int /\ Bytes[j] \in Int
      BY <2>2
    <3> HIDE <2>2
    <3> QED
      BY <3>1, FS_Interval
  <2>4. IsFiniteSet({j})
    BY FS_Singleton
  <2> QED
    BY <2>1, <2>3, <2>4, FS_Product
<1>4. IsFiniteSet(UNION U)
  BY <1>2, <1>3, FS_UNION
<1> QED
  BY <1>4 DEF U, Units

\* The need of a set of jobs is a natural number.
LEMMA NeedNat ==
  ASSUME NEW S \in SUBSET Jobs
  PROVE  Need(S) \in Nat
BY UnitsFinite, FS_CardinalityType DEF Need

\* No job, no bytes.
LEMMA NeedEmpty == Need({}) = 0
BY FS_EmptySet DEF Need, Units

\* The bytes of disjoint sets of jobs add up.
LEMMA NeedUnion ==
  ASSUME NEW S \in SUBSET Jobs, NEW T \in SUBSET Jobs, S \cap T = {}
  PROVE  Need(S \cup T) = Need(S) + Need(T)
<1>1. Units(S \cup T) = Units(S) \cup Units(T)
  BY DEF Units
<1>2. Units(S) \cap Units(T) = {}
  BY DEF Units
<1>3. IsFiniteSet(Units(S)) /\ IsFiniteSet(Units(T))
  BY UnitsFinite
<1>4. Cardinality(Units(S) \cup Units(T))
        = Cardinality(Units(S)) + Cardinality(Units(T))
          - Cardinality(Units(S) \cap Units(T))
  BY <1>3, FS_Union
<1>5. Cardinality(Units(S) \cap Units(T)) = 0
  BY <1>2, FS_EmptySet
<1>6. Cardinality(Units(S)) \in Nat /\ Cardinality(Units(T)) \in Nat
  BY <1>3, FS_CardinalityType
<1>7. Need(S \cup T) = Cardinality(Units(S) \cup Units(T))
  BY <1>1, Zenon DEF Need
<1>8. Need(S) = Cardinality(Units(S)) /\ Need(T) = Cardinality(Units(T))
  BY Zenon DEF Need
<1> QED
  BY <1>4, <1>5, <1>6, <1>7, <1>8

\* Taking some of the jobs away takes their bytes away.
LEMMA NeedDifference ==
  ASSUME NEW S \in SUBSET Jobs, NEW T \in SUBSET S
  PROVE  /\ Need(S \ T) = Need(S) - Need(T)
         /\ Need(T) =< Need(S)
<1>1. Need((S \ T) \cup T) = Need(S \ T) + Need(T)
  BY NeedUnion
<1>2. (S \ T) \cup T = S
  OBVIOUS
<1>3. Need(S \ T) \in Nat /\ Need(T) \in Nat /\ Need(S) \in Nat
  BY NeedNat
<1> QED
  BY <1>1, <1>2, <1>3

\* A set of jobs has finitely many members.
LEMMA CountNat ==
  ASSUME NEW S \in SUBSET Jobs
  PROVE  Cardinality(S) \in Nat
BY JobsAssumption, FS_Subset, FS_CardinalityType

-----------------------------------------------------------------------------
(***************************************************************************)
(* What pack_jobs selects.                                                 *)
(***************************************************************************)

\* A part of a set that fits also fits.
LEMMA FitsDownward ==
  ASSUME NEW U \in SUBSET Jobs, NEW T \in SUBSET U, NEW budget \in Nat,
         Fits(U, budget)
  PROVE  Fits(T, budget)
<1>1. Need(T) =< Need(U) /\ Need(T) \in Nat /\ Need(U) \in Nat
  BY NeedDifference, NeedNat
<1>2. Cardinality(T) =< Cardinality(U)
  BY JobsAssumption, FS_Subset
<1>3. Cardinality(T) \in Nat /\ Cardinality(U) \in Nat /\ MaxBatch \in Int
  BY CountNat, JobsAssumption
<1> QED
  BY <1>1, <1>2, <1>3 DEF Fits

\* pack_jobs never leaves a job behind that still fits beside all the jobs it
\* selected: whatever the ages, the sizes and the priorities, the batch could
\* not have been larger by one.  BatchExec.tla takes any such set for a batch.
THEOREM PackedSetIsMaximal ==
  ASSUME NEW candidates \in SUBSET Jobs, NEW S, NEW bucket, NEW seq,
         NEW budget \in Nat, Packs(S, candidates, bucket, seq, budget),
         NEW j \in candidates \ S
  PROVE  ~Fits(S \cup {j}, budget)
<1> DEFINE earlier == {i \in S : Before(bucket, seq, i, j)}
<1>1. S \subseteq candidates /\ ~Fits(earlier \cup {j}, budget)
  BY DEF Packs
<1>2. S \cup {j} \in SUBSET Jobs /\ earlier \cup {j} \in SUBSET (S \cup {j})
  BY <1>1
<1> QED
  BY <1>1, <1>2, FitsDownward

\* If nothing is selected, no candidate fits alone: the dispatcher that puts
\* everything back has nothing it could run.
THEOREM EmptyPackMeansNothingFits ==
  ASSUME NEW candidates \in SUBSET Jobs, NEW bucket, NEW seq,
         NEW budget \in Nat, Packs({}, candidates, bucket, seq, budget),
         NEW j \in candidates
  PROVE  ~Fits({j}, budget)
<1>1. ~Fits({} \cup {j}, budget)
  BY PackedSetIsMaximal
<1>2. {} \cup {j} = {j}
  OBVIOUS
<1> QED
  BY <1>1, <1>2
-----------------------------------------------------------------------------
(***************************************************************************)
(* Among jobs of one age, greedy by size is best.                          *)
(***************************************************************************)

\* The members of a finite set can be matched with members of one that is not
\* smaller.
LEMMA SmallerInjects ==
  ASSUME NEW S, NEW T, IsFiniteSet(S), IsFiniteSet(T),
         Cardinality(S) =< Cardinality(T)
  PROVE  ExistsInjection(S, T)
<1> DEFINE m == Cardinality(S)  n == Cardinality(T)
<1>1. m \in Nat /\ n \in Nat /\ m =< n
  BY FS_CardinalityType
<1>2. ExistsBijection(1..m, S) /\ ExistsBijection(1..n, T)
  BY FS_CardinalityType
<1> HIDE DEF m, n
<1>3. ExistsInjection(S, 1..m) /\ ExistsInjection(1..n, T)
  BY <1>2, Fun_ExistsBijEquiv
<1>4. ExistsInjection(1..m, 1..n)
  <2> DEFINE same == [i \in 1..m |-> i]
  <2>1. same \in [1..m -> 1..n] /\ \A a, b \in 1..m : same[a] = same[b] => a = b
    BY <1>1
  <2>2. same \in Injection(1..m, 1..n)
    BY <2>1, Fun_IsInj
  <2> QED
    BY <2>2, Fun_ExistsInj
<1>5. ExistsInjection(S, 1..n)
  BY <1>3, <1>4, Fun_ExistsInjTransitive
<1> QED
  BY <1>3, <1>5, Fun_ExistsInjTransitive

\* Fewer jobs, none of them larger, need less memory.
LEMMA SmallerJobsNeedLess ==
  ASSUME NEW S \in SUBSET Jobs, NEW T \in SUBSET Jobs,
         Cardinality(S) =< Cardinality(T),
         \A i \in S, j \in T : Bytes[i] =< Bytes[j]
  PROVE  Need(S) =< Need(T)
<1>1. IsFiniteSet(S) /\ IsFiniteSet(T)
  BY JobsAssumption, FS_Subset
<1>2. PICK f : f \in Injection(S, T)
  BY <1>1, SmallerInjects, Fun_ExistsInj
<1>3. f \in [S -> T] /\ \A i, j \in S : f[i] = f[j] => i = j
  BY <1>2, Fun_InjectionProperties
<1> DEFINE move == [u \in Units(S) |-> <<f[u[1]], u[2]>>]
<1>4. ASSUME NEW u \in Units(S)
      PROVE  u[1] \in S /\ u[2] \in 1..Bytes[u[1]] /\ u = <<u[1], u[2]>>
  BY DEF Units
<1>5. ASSUME NEW u \in Units(S) PROVE <<f[u[1]], u[2]>> \in Units(T)
  <2>1. u[1] \in S /\ f[u[1]] \in T /\ u[2] \in 1..Bytes[u[1]]
    BY <1>3, <1>4
  <2>2. Bytes[u[1]] =< Bytes[f[u[1]]] /\ Bytes[u[1]] \in Nat /\ Bytes[f[u[1]]] \in Nat
    BY <2>1, JobsAssumption
  <2>3. u[2] \in 1..Bytes[f[u[1]]]
    BY <2>1, <2>2
  <2> QED
    BY <2>1, <2>3 DEF Units
<1>6. ASSUME NEW u \in Units(S), NEW v \in Units(S), move[u] = move[v] PROVE u = v
  <2>1. f[u[1]] = f[v[1]] /\ u[2] = v[2]
    BY <1>6
  <2>2. u[1] = v[1]
    BY <1>3, <1>4, <2>1
  <2> QED
    BY <1>4, <2>1, <2>2
<1>7. move \in [Units(S) -> Units(T)]
  BY <1>5
<1>8. move \in Injection(Units(S), Units(T))
  BY <1>6, <1>7, Fun_IsInj
<1>9. IsFiniteSet(Units(T))
  BY UnitsFinite
<1> HIDE DEF move
<1> QED
  BY <1>8, <1>9, FS_Injection DEF Need

\* A job that is left behind for its size is not smaller than any selected job,
\* and the budget has no room for it beside all of them.
LEMMA LeftBehindIsLarge ==
  ASSUME NEW candidates \in SUBSET Jobs, NEW S, NEW bucket, NEW seq,
         NEW budget \in Nat, Packs(S, candidates, bucket, seq, budget),
         \A i, j \in candidates : bucket[i] = bucket[j],
         MaxBatch > 0 => Cardinality(S) < MaxBatch,
         bucket \in [candidates -> Nat], seq \in [candidates -> Nat],
         NEW j \in candidates \ S
  PROVE  /\ \A i \in S : Bytes[i] =< Bytes[j]
         /\ Need(S \cup {j}) > budget
<1> DEFINE earlier(x) == {i \in S : Before(bucket, seq, i, x)}
<1>1. S \in SUBSET candidates /\ S \in SUBSET Jobs /\ j \in Jobs /\ IsFiniteSet(S)
  BY JobsAssumption, FS_Subset DEF Packs
<1>2. ASSUME NEW E \in SUBSET S PROVE MaxBatch > 0 => Cardinality(E \cup {j}) =< MaxBatch
  <2>1. /\ Cardinality(E) =< Cardinality(S) /\ IsFiniteSet(E)
        /\ Cardinality(E) \in Nat /\ Cardinality(S) \in Nat
    BY <1>1, FS_Subset, FS_CardinalityType
  <2>2. Cardinality(E \cup {j}) = Cardinality(E) + 1
    BY <1>1, <2>1, FS_AddElement
  <2> QED
    BY <2>1, <2>2, JobsAssumption
<1>3. ~Fits(S \cup {j}, budget) /\ ~Fits(earlier(j) \cup {j}, budget)
  <2>1. ~Fits(S \cup {j}, budget)
    BY PackedSetIsMaximal
  <2>2. ~Fits(earlier(j) \cup {j}, budget)
    BY DEF Packs
  <2> QED
    BY <2>1, <2>2
<1>4. Need(S \cup {j}) > budget
  <2>1. Need(S \cup {j}) \in Nat
    BY <1>1, NeedNat
  <2> QED
    BY <1>2, <1>3, <2>1 DEF Fits
<1>5. ASSUME NEW i \in S, ~(Bytes[i] =< Bytes[j]) PROVE FALSE
  <2>1. /\ Bytes[i] \in Nat /\ Bytes[j] \in Nat /\ Bytes[j] < Bytes[i]
        /\ \A x \in S : Bytes[x] \in Nat /\ Priority[x] \in Int /\ seq[x] \in Nat
        /\ \A x \in S : bucket[x] = bucket[i] /\ bucket[x] = bucket[j] /\ bucket[x] \in Nat
        /\ i \in candidates
    BY <1>1, <1>5, JobsAssumption
  <2>2. earlier(j) \subseteq earlier(i)
    BY <2>1 DEF Before
  <2>3. earlier(i) \in SUBSET Jobs /\ earlier(j) \in SUBSET Jobs
        /\ i \notin earlier(i) /\ i \notin earlier(j) /\ j \notin S
    BY <1>1, <2>1 DEF Before
  <2>4. Fits(earlier(i) \cup {i}, budget)
    BY <2>1 DEF Packs
  <2>5. Need(earlier(j) \cup {j}) =< Need(earlier(i) \cup {i})
    <3> DEFINE E == earlier(j)  F == earlier(i)
    <3>1. E \in SUBSET F /\ F \in SUBSET Jobs /\ E \in SUBSET Jobs
          /\ i \in Jobs /\ i \notin F /\ i \notin E /\ j \notin E /\ j \in Jobs
      BY <1>1, <2>2, <2>3
    <3> HIDE DEF E, F
    <3>2. Need(E \cup {j}) = Need(E) + Need({j}) /\ Need(F \cup {i}) = Need(F) + Need({i})
      BY <3>1, NeedUnion
    <3>3. Need({j}) =< Need({i})
      <4>1. Cardinality({i}) = 1 /\ Cardinality({j}) = 1
        BY FS_Singleton
      <4> QED
        BY <2>1, <3>1, <4>1, SmallerJobsNeedLess
    <3>4. Need(E) =< Need(F)
      BY <3>1, NeedDifference
    <3>5. /\ Need(E) \in Nat /\ Need(F) \in Nat
          /\ Need({i}) \in Nat /\ Need({j}) \in Nat
      BY <3>1, NeedNat
    <3> QED
      BY <3>2, <3>3, <3>4, <3>5 DEF E, F
  <2>6. Need(earlier(j) \cup {j}) \in Nat /\ Need(earlier(i) \cup {i}) \in Nat
    BY <1>1, <2>3, NeedNat
  <2>7. Need(earlier(j) \cup {j}) =< budget
    BY <2>4, <2>5, <2>6 DEF Fits
  <2>8. MaxBatch > 0 => Cardinality(earlier(j) \cup {j}) =< MaxBatch
    BY <1>2
  <2> QED
    BY <1>3, <2>7, <2>8 DEF Fits
<1> QED
  BY <1>4, <1>5

\* Among jobs of one age pack_jobs selects as many as any choice could that
\* respects the budget and the cap: the exchange argument for smallest first.
THEOREM SameAgePackIsLargest ==
  ASSUME NEW candidates \in SUBSET Jobs, NEW S, NEW bucket, NEW seq,
         NEW budget \in Nat, Packs(S, candidates, bucket, seq, budget),
         \A i, j \in candidates : bucket[i] = bucket[j],
         bucket \in [candidates -> Nat], seq \in [candidates -> Nat],
         NEW T \in SUBSET candidates, Fits(T, budget)
  PROVE  Cardinality(T) =< Cardinality(S)
<1>1. /\ S \in SUBSET candidates /\ S \in SUBSET Jobs /\ T \in SUBSET Jobs
      /\ IsFiniteSet(S) /\ IsFiniteSet(T)
      /\ Cardinality(S) \in Nat /\ Cardinality(T) \in Nat
  BY JobsAssumption, FS_Subset, CountNat DEF Packs
<1> SUFFICES ASSUME Cardinality(T) > Cardinality(S) PROVE FALSE
  BY <1>1
<1>2. MaxBatch > 0 => Cardinality(S) < MaxBatch
  BY <1>1, JobsAssumption DEF Fits
<1> DEFINE common == S \cap T  mine == S \ T  theirs == T \ S
<1>3. /\ Cardinality(S) = Cardinality(common) + Cardinality(mine)
      /\ Cardinality(T) = Cardinality(common) + Cardinality(theirs)
      /\ Cardinality(mine) \in Nat /\ Cardinality(theirs) \in Nat
      /\ Cardinality(common) \in Nat
  <2>1. IsFiniteSet(common) /\ IsFiniteSet(mine) /\ IsFiniteSet(theirs)
    BY <1>1, FS_Subset
  <2>2. /\ common \cup mine = S /\ common \cap mine = {}
        /\ common \cup theirs = T /\ common \cap theirs = {}
    OBVIOUS
  <2> HIDE DEF common, mine, theirs
  <2>3. /\ Cardinality(common) \in Nat /\ Cardinality(mine) \in Nat
        /\ Cardinality(theirs) \in Nat /\ Cardinality({}) = 0
    BY <2>1, FS_CardinalityType, FS_EmptySet
  <2>4. /\ Cardinality(common \cup mine)
             = Cardinality(common) + Cardinality(mine) - Cardinality(common \cap mine)
        /\ Cardinality(common \cup theirs)
             = Cardinality(common) + Cardinality(theirs) - Cardinality(common \cap theirs)
    BY <2>1, FS_Union
  <2>5. /\ Cardinality(common \cup mine) = Cardinality(S)
        /\ Cardinality(common \cup theirs) = Cardinality(T)
        /\ Cardinality(common \cap mine) = 0 /\ Cardinality(common \cap theirs) = 0
    BY <2>2, <2>3
  <2> QED
    BY <2>3, <2>4, <2>5
<1>4. Cardinality(theirs) > Cardinality(mine)
  BY <1>1, <1>3
<1>5. PICK y : y \in theirs
  <2>1. theirs # {}
    BY <1>3, <1>4, FS_EmptySet
  <2> QED
    BY <2>1
<1>6. /\ \A j \in theirs : \A i \in S : Bytes[i] =< Bytes[j]
      /\ Need(S \cup {y}) > budget
  BY <1>2, <1>5, LeftBehindIsLarge
<1> DEFINE rest == theirs \ {y}
<1>7. Cardinality(mine) =< Cardinality(rest)
  <2>1. IsFiniteSet(theirs)
    BY <1>1, FS_Subset
  <2>2. Cardinality(rest) = Cardinality(theirs) - 1
    BY <1>5, <2>1, FS_RemoveElement
  <2> QED
    BY <1>3, <1>4, <2>2
<1>8. Need(mine) =< Need(rest)
  <2>1. /\ mine \in SUBSET Jobs /\ rest \in SUBSET Jobs
        /\ \A i \in mine, j \in rest : Bytes[i] =< Bytes[j]
    BY <1>1, <1>6
  <2> HIDE DEF mine, rest
  <2> QED
    BY <1>7, <2>1, SmallerJobsNeedLess
<1>9. Need(S \cup {y}) = Need(common) + Need(mine) + Need({y})
  <2>1. /\ common \in SUBSET Jobs /\ mine \in SUBSET Jobs /\ {y} \in SUBSET Jobs
        /\ common \cup mine = S /\ common \cap mine = {} /\ S \cap {y} = {}
    BY <1>1, <1>5
  <2> HIDE DEF common, mine
  <2>2. Need(common \cup mine) = Need(common) + Need(mine)
    BY <2>1, NeedUnion
  <2>3. Need(S \cup {y}) = Need(S) + Need({y})
    BY <1>1, <2>1, NeedUnion
  <2> QED
    BY <2>1, <2>2, <2>3
<1>10. Need(T) = Need(common) + Need(rest) + Need({y})
  <2> DEFINE others == common \cup rest
  <2>1. /\ common \in SUBSET Jobs /\ rest \in SUBSET Jobs /\ {y} \in SUBSET Jobs
        /\ common \cap rest = {} /\ others \cap {y} = {} /\ others \in SUBSET Jobs
        /\ others \cup {y} = T
    BY <1>1, <1>5
  <2>2. Need(others) = Need(common) + Need(rest)
    BY <2>1, NeedUnion
  <2> HIDE DEF others
  <2>3. Need(others \cup {y}) = Need(others) + Need({y})
    BY <2>1, NeedUnion
  <2> QED
    BY <2>1, <2>2, <2>3
<1>11. /\ Need(common) \in Nat /\ Need(mine) \in Nat /\ Need(rest) \in Nat
       /\ Need({y}) \in Nat /\ Need(T) =< budget
  <2>1. /\ common \in SUBSET Jobs /\ mine \in SUBSET Jobs /\ rest \in SUBSET Jobs
        /\ {y} \in SUBSET Jobs
    BY <1>1, <1>5
  <2> QED
    BY <2>1, NeedNat DEF Fits
<1> HIDE DEF common, mine, theirs, rest
<1> QED
  BY <1>6, <1>8, <1>9, <1>10, <1>11
=============================================================================
