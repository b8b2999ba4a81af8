-------------------------- MODULE TiledGemmProofs --------------------------
(***************************************************************************)
(* For blocks of any side and matrices of any shape, the two barriers of   *)
(* the tiled kernel do what they are for.  For matrices whose elements an  *)
(* int can index, every load and store is within its matrix, a block       *)
(* stores the sums of the CPU reference, and the grids of the kernels and  *)
(* the cuBLAS call compute the elements of C they should, from the right   *)
(* elements of A and B.                                                    *)
(***************************************************************************)
EXTENDS TiledGemm, SequenceTheorems, TLAPS

\* The threads are all on one side of the first barrier, and work on one tile.
\* A thread that has arrived at it has filled its place of both tiles; past it,
\* every thread has, and none touches them before the second barrier.
InStep ==
  /\ \A t, u \in Threads : k0[t] = k0[u]
  /\ \A t, u \in Threads :
       pc[t] \in {"multiply", "multiplied"} =>
         pc[u] \in {"multiply", "multiplied"}

Filled ==
  \A t \in Threads : pc[t] \in {"loaded", "multiply", "multiplied"} =>
    As[t] = TileA(t, k0[t]) /\ Bs[t] = TileB(t, k0[t])

Shape ==
  /\ pc \in [Threads -> {"load", "loaded", "multiply", "multiplied", "exited"}]
  /\ DOMAIN k0 = Threads
  /\ As = [t \in Threads |-> As[t]]
  /\ Bs = [t \in Threads |-> Bs[t]]

IInv == Shape /\ InStep /\ Filled

LEMMA InitIInv == Init => IInv
BY DEF Init, IInv, Shape, InStep, Filled

\* What a tile holds depends on the arguments of the call alone.
LEMMA TileFrame ==
  ASSUME UNCHANGED <<dims, block>>, NEW t, NEW k
  PROVE  TileA(t, k)' = TileA(t, k) /\ TileB(t, k)' = TileB(t, k)
BY DEF TileA, TileB, Row, Col, M, N, K, Batch, UnsignedA, UnsignedB, BaseA, BaseB

\* A thread that loads changes its own place only, and only before the barrier.
LEMMA LoadKeeps ==
  ASSUME IInv, NEW t \in Threads, Load(t)
  PROVE  IInv'
<1> USE DEF IInv
<1>1. UNCHANGED <<dims, block, k0>>
  BY DEF Load
<1>2. Shape'
  BY DEF Load, Goto, Shape
<1>3. InStep'
  BY DEF Load, AtTile, Goto, Shape, InStep
<1>4. ASSUME NEW u \in Threads, pc'[u] \in {"loaded", "multiply", "multiplied"}
      PROVE  As'[u] = TileA(u, k0[u]) /\ Bs'[u] = TileB(u, k0[u])
  <2>1. CASE u = t
    BY <2>1 DEF Load, Shape
  <2>2. CASE u # t
    BY <1>4, <2>2 DEF Load, Goto, Shape, Filled
  <2> QED
    BY <2>1, <2>2
<1>5. Filled'
  BY <1>1, <1>4, TileFrame DEF Filled
<1> QED
  BY <1>2, <1>3, <1>5

\* The steps that leave the tiles alone.
LEMMA MultiplyKeeps ==
  ASSUME IInv, NEW t \in Threads, Multiply(t) \/ Store(t)
  PROVE  IInv'
<1> USE DEF IInv
<1>1. UNCHANGED <<dims, block, k0, As, Bs>>
  BY DEF Multiply, Store
<1>2. /\ pc[t] \in {"load", "multiply"}
      /\ pc' = [pc EXCEPT ![t] = IF pc[t] = "load" THEN "exited" ELSE "multiplied"]
  BY DEF Multiply, Store, Goto
<1>3. Shape'
  BY <1>1, <1>2 DEF Shape
<1>4. InStep'
  BY <1>1, <1>2 DEF Shape, InStep
<1>5. Filled'
  BY <1>1, <1>2, TileFrame DEF Shape, Filled
<1> QED
  BY <1>3, <1>4, <1>5

\* The first barrier: every thread has filled its place.
LEMMA BarrierKeeps ==
  ASSUME IInv, Barrier("loaded", "multiply")
  PROVE  IInv'
<1> USE DEF IInv
<1>1. UNCHANGED <<dims, block, k0, As, Bs>>
  BY DEF Barrier
<1>2. Shape' /\ InStep'
  BY <1>1 DEF Barrier, Shape, InStep
<1>3. Filled'
  BY <1>1, TileFrame DEF Barrier, Shape, Filled
<1> QED
  BY <1>2, <1>3

\* The second barrier: all threads go on to the next tile together.
LEMMA NextTileKeeps ==
  ASSUME IInv, NextTile
  PROVE  IInv'
BY DEF IInv, NextTile, Shape, InStep, Filled

LEMMA NextIInv == IInv /\ [Next]_vars => IInv'
<1> SUFFICES ASSUME IInv, [Next]_vars PROVE IInv'
  OBVIOUS
<1>1. CASE \E t \in Threads : Load(t) \/ Multiply(t) \/ Store(t)
  BY <1>1, LoadKeeps, MultiplyKeeps
<1>2. CASE Barrier("loaded", "multiply")
  BY <1>2, BarrierKeeps
<1>3. CASE NextTile
  BY <1>3, NextTileKeeps
<1>4. CASE UNCHANGED vars
  <2>1. UNCHANGED <<dims, block, pc, k0, As, Bs>>
    BY <1>4 DEF vars
  <2> QED
    BY <2>1, TileFrame DEF IInv, Shape, InStep, Filled
<1> QED
  BY <1>1, <1>2, <1>3, <1>4 DEF Next

\* A thread past the first barrier finds what every thread has loaded.
LEMMA TilesWhole == IInv => TilesComplete
<1> SUFFICES ASSUME IInv, NEW t \in Threads, pc[t] = "multiply", NEW u \in Threads
             PROVE  As[u] = TileA(u, k0[t]) /\ Bs[u] = TileB(u, k0[t])
  BY DEF TilesComplete
<1>1. pc[u] \in {"multiply", "multiplied"} /\ k0[u] = k0[t]
  BY DEF IInv, InStep
<1> QED
  BY <1>1 DEF IInv, Filled

\* Every thread that multiplies finds both tiles complete and of its own k0:
\* the reason for the two __syncthreads() of the tiled kernel.
THEOREM BarriersSuffice == Spec => []TilesComplete
BY TilesWhole, InitIInv, NextIInv, PTL DEF Spec

-----------------------------------------------------------------------------
(***************************************************************************)
(* Places in the matrices.                                                 *)
(***************************************************************************)

\* Multiplication is monotonic, and so is what it undoes.
LEMMA TimesMonotone ==
  ASSUME NEW x \in Int, NEW y \in Int, NEW b \in Nat, x =< y
  PROVE  x * b =< y * b
OBVIOUS

LEMMA TimesStrict ==
  ASSUME NEW x \in Int, NEW y \in Int, NEW b \in Nat, x * b < y * b
  PROVE  x < y
BY TimesMonotone

LEMMA TimesNat ==
  ASSUME NEW x \in Nat, NEW y \in Nat
  PROVE  x * y \in Nat
OBVIOUS

\* What division yields.
LEMMA DivFacts ==
  ASSUME NEW x \in Nat, NEW b \in Nat \ {0}
  PROVE  x \div b \in Nat /\ x % b \in 0..(b - 1) /\ x = b * (x \div b) + (x % b)
OBVIOUS

LEMMA ModSmall ==
  ASSUME NEW b \in Nat \ {0}, NEW x \in 0..(b - 1)
  PROVE  x % b = x
<1>0. x \in Nat
  OBVIOUS
<1>1. x \div b \in Nat /\ x % b \in 0..(b - 1) /\ x = b * (x \div b) + (x % b)
  BY <1>0, DivFacts
<1>2. CASE x \div b = 0
  BY <1>1, <1>2
<1>3. CASE x \div b # 0
  <2>1. 1 * b =< (x \div b) * b
    BY <1>1, <1>3, TimesMonotone
  <2>2. b * (x \div b) = (x \div b) * b
    BY <1>1
  <2> QED
    BY <1>1, <2>1, <2>2
<1> QED
  BY <1>2, <1>3

\* What an int can hold is not changed by arithmetic of its width.
LEMMA NoWrap ==
  ASSUME NEW x \in 0..(IntLimit - 1)
  PROVE  Unsigned(x) = x /\ \A widened \in BOOLEAN : Signed(x, widened) = x
<1>1. IntLimit \in Nat \ {0} /\ 2 * IntLimit \in Nat \ {0}
  BY TiledGemmAssumption
<1>2. x \in 0..(2 * IntLimit - 1) /\ x + IntLimit \in 0..(2 * IntLimit - 1)
  BY <1>1
<1>3. x % (2 * IntLimit) = x /\ (x + IntLimit) % (2 * IntLimit) = x + IntLimit
  BY <1>1, <1>2, ModSmall
<1> QED
  BY <1>1, <1>3 DEF Unsigned, Signed

LEMMA UnsignedNat ==
  ASSUME NEW x \in Nat
  PROVE  Unsigned(x) \in Nat
<1>1. 2 * IntLimit \in Nat \ {0}
  BY TiledGemmAssumption
<1> QED
  BY <1>1, DivFacts DEF Unsigned

\* Row-major indices of a matrix with m rows and n columns lie within it.
LEMMA IndexInMatrix ==
  ASSUME NEW m \in Nat, NEW n \in Nat, NEW row \in 0..(m - 1), NEW col \in 0..(n - 1)
  PROVE  row * n + col \in 0..(m * n - 1) /\ row * n \in 0..(m * n - 1)
<1>1. row * n =< (m - 1) * n /\ (m - 1) * n = m * n - n
  BY TimesMonotone
<1>2. row * n \in Nat /\ m * n \in Nat
  BY TimesNat
<1>3. row * n + col =< m * n - 1 /\ row * n =< m * n - 1
  BY <1>1, <1>2
<1> QED
  BY <1>2, <1>3

\* The arguments of the call and the block are what the launch made them.
Launched ==
  /\ dims \in [M : 1..MaxDim, N : 1..MaxDim, K : 1..MaxDim, batch : 1..MaxCount]
  /\ block \in (0..(Blocks(M, Block) - 1)) \X (0..(Blocks(N, Block) - 1))
                 \X (0..(dims.batch - 1))

LEMMA LaunchNat ==
  ASSUME Launched
  PROVE  /\ M \in Nat \ {0} /\ N \in Nat \ {0} /\ K \in Nat \ {0}
         /\ dims.batch \in Nat \ {0}
         /\ Block \in Nat \ {0} /\ NaiveBlock \in Nat \ {0}
         /\ Batch \in 0..(dims.batch - 1)
         /\ \A t \in Threads : /\ t[1] \in Nat /\ t[2] \in Nat
                               /\ t[1] < Block /\ t[2] < Block
                               /\ Row(t) \in Nat /\ Col(t) \in Nat
<1>1. /\ M \in Nat \ {0} /\ N \in Nat \ {0} /\ K \in Nat \ {0}
      /\ dims.batch \in Nat \ {0}
      /\ Block \in Nat \ {0} /\ NaiveBlock \in Nat \ {0}
  BY TiledGemmAssumption DEF Launched, M, N, K
<1>2. Batch \in 0..(dims.batch - 1) /\ block[1] \in Nat /\ block[2] \in Nat
  BY DEF Launched, Batch
<1>3. ASSUME NEW t \in Threads
      PROVE  /\ t[1] \in Nat /\ t[2] \in Nat /\ t[1] < Block /\ t[2] < Block
             /\ Row(t) \in Nat /\ Col(t) \in Nat
  <2>1. t[1] \in 0..(Block - 1) /\ t[2] \in 0..(Block - 1)
    BY DEF Threads
  <2>2. block[1] * Block \in Nat /\ block[2] * Block \in Nat
    BY <1>1, <1>2, TimesNat
  <2> QED
    BY <1>1, <2>1, <2>2 DEF Row, Col
<1> QED
  BY <1>1, <1>2, <1>3

\* Where an int can index every element, the places that the code computes are
\* those of row-major matrices.
LEMMA PlacesRight ==
  ASSUME Launched, Representable, NEW z \in Nat,
         NEW row \in 0..(M - 1), NEW col \in 0..(N - 1), NEW k \in 0..(K - 1),
         NEW widened \in BOOLEAN
  PROVE  /\ UnsignedA(z, row, k) = PlaceA(z, row, k)
         /\ UnsignedB(z, k, col) = PlaceB(z, k, col)
         /\ IntA(z, row, k, widened) = PlaceA(z, row, k)
         /\ IntB(z, k, col, widened) = PlaceB(z, k, col)
         /\ IntC(z, row, col, widened) = PlaceC(z, row, col)
         /\ NaiveC(z, row, col, widened) = PlaceC(z, row, col)
<1>1. M \in Nat /\ N \in Nat /\ K \in Nat
  BY LaunchNat
<1>2. /\ M * K \in Nat /\ K * N \in Nat /\ M * N \in Nat
      /\ M * K =< IntLimit /\ K * N =< IntLimit /\ M * N =< IntLimit /\ IntLimit \in Nat
  BY <1>1, TimesNat, TiledGemmAssumption DEF Representable
<1>3. row * K + k \in 0..(IntLimit - 1)
  BY <1>1, <1>2, IndexInMatrix
<1>4. k * N + col \in 0..(IntLimit - 1)
  BY <1>1, <1>2, IndexInMatrix
<1>5. row * N + col \in 0..(IntLimit - 1) /\ row * N \in 0..(IntLimit - 1)
  BY <1>1, <1>2, IndexInMatrix
<1>6. /\ Unsigned(row * K + k) = row * K + k /\ Signed(row * K + k, widened) = row * K + k
      /\ Unsigned(k * N + col) = k * N + col /\ Signed(k * N + col, widened) = k * N + col
      /\ Signed(row * N + col, widened) = row * N + col
      /\ Signed(row * N, widened) = row * N
  BY <1>3, <1>4, <1>5, NoWrap
<1>7. /\ z * M * K \in Nat /\ z * K * N \in Nat /\ z * M * N \in Nat
      /\ row * K \in Nat /\ k * N \in Nat /\ row * N \in Nat
  BY <1>1, TimesNat
<1> QED
  BY <1>6, <1>7
     DEF UnsignedA, UnsignedB, IntA, IntB, IntC, NaiveC, PlaceA, PlaceB, PlaceC,
         BaseA, BaseB, BaseC

\* Row-major places of batch element z are in its own matrices.
LEMMA PlacesWithin ==
  ASSUME Launched, NEW row \in 0..(M - 1), NEW col \in 0..(N - 1), NEW k \in 0..(K - 1)
  PROVE  /\ PlaceA(Batch, row, k) \in OwnMatrix(M * K)
         /\ PlaceB(Batch, k, col) \in OwnMatrix(K * N)
         /\ PlaceC(Batch, row, col) \in OwnMatrix(M * N)
<1>1. M \in Nat /\ N \in Nat /\ K \in Nat /\ Batch \in Nat
  BY LaunchNat
<1>2. ASSUME NEW m \in Nat, NEW n \in Nat, NEW i \in 0..(m - 1), NEW j \in 0..(n - 1)
      PROVE  Batch * m * n + i * n + j \in OwnMatrix(m * n)
  <2>1. i * n + j \in 0..(m * n - 1)
    BY <1>2, IndexInMatrix
  <2>2. Batch * m * n = Batch * (m * n) /\ Batch * (m * n) \in Nat
        /\ m * n \in Nat /\ i * n \in Nat
    BY <1>1, <1>2, TimesNat
  <2> QED
    BY <2>1, <2>2 DEF OwnMatrix
<1> QED
  BY <1>1, <1>2 DEF PlaceA, PlaceB, PlaceC

\* A thread that loads padding or from within the matrices.
LEMMA TileInMatrix ==
  ASSUME Launched, NEW t \in Threads, NEW k \in Nat
  PROVE  /\ TileA(t, k) \in Int /\ TileB(t, k) \in Int
         /\ Representable =>
              /\ TileA(t, k) \in {Unset, Zero} \cup OwnMatrix(M * K)
              /\ TileB(t, k) \in {Unset, Zero} \cup OwnMatrix(K * N)
<1>1. /\ M \in Nat \ {0} /\ N \in Nat \ {0} /\ K \in Nat \ {0} /\ Batch \in Nat
      /\ t[1] \in Nat /\ t[2] \in Nat /\ Row(t) \in Nat /\ Col(t) \in Nat
  BY LaunchNat
<1>2. TileA(t, k) \in Int
  <2>1. Batch * M * K \in Nat /\ Row(t) * K \in Nat /\ k + t[2] \in Nat
    BY <1>1, TimesNat
  <2>2. Unsigned(Row(t) * K + (k + t[2])) \in Nat
    BY <2>1, UnsignedNat
  <2> QED
    BY <2>1, <2>2 DEF TileA, UnsignedA, BaseA, Zero
<1>3. TileB(t, k) \in Int
  <2>1. Batch * K * N \in Nat /\ k + t[1] \in Nat /\ (k + t[1]) * N \in Nat
    BY <1>1, TimesNat
  <2>2. Unsigned((k + t[1]) * N + Col(t)) \in Nat
    BY <1>1, <2>1, UnsignedNat
  <2> QED
    BY <2>1, <2>2 DEF TileB, UnsignedB, BaseB, Zero
<1>4. ASSUME Representable
      PROVE  TileA(t, k) \in {Unset, Zero} \cup OwnMatrix(M * K)
  <2>1. CASE ~(Row(t) < M /\ k + t[2] < K)
    BY <2>1 DEF TileA
  <2>2. CASE Row(t) < M /\ k + t[2] < K
    <3>1. Row(t) \in 0..(M - 1) /\ k + t[2] \in 0..(K - 1) /\ 0 \in 0..(N - 1)
      BY <1>1, <2>2
    <3>2. PlaceA(Batch, Row(t), k + t[2]) \in OwnMatrix(M * K)
      BY <3>1, PlacesWithin
    <3>3. UnsignedA(Batch, Row(t), k + t[2]) = PlaceA(Batch, Row(t), k + t[2])
      BY <1>1, <1>4, <3>1, PlacesRight
    <3> QED
      BY <2>2, <3>2, <3>3 DEF TileA
  <2> QED
    BY <2>1, <2>2
<1>5. ASSUME Representable
      PROVE  TileB(t, k) \in {Unset, Zero} \cup OwnMatrix(K * N)
  <2>1. CASE ~(k + t[1] < K /\ Col(t) < N)
    BY <2>1 DEF TileB
  <2>2. CASE k + t[1] < K /\ Col(t) < N
    <3>1. k + t[1] \in 0..(K - 1) /\ Col(t) \in 0..(N - 1) /\ 0 \in 0..(M - 1)
      BY <1>1, <2>2
    <3>2. PlaceB(Batch, k + t[1], Col(t)) \in OwnMatrix(K * N)
      BY <3>1, PlacesWithin
    <3>3. UnsignedB(Batch, k + t[1], Col(t)) = PlaceB(Batch, k + t[1], Col(t))
      BY <1>1, <1>5, <3>1, PlacesRight
    <3> QED
      BY <2>2, <3>2, <3>3 DEF TileB
  <2> QED
    BY <2>1, <2>2
<1> QED
  BY <1>2, <1>3, <1>4, <1>5

\* Between a load and the second barrier the tile begins within K, so the next
\* one begins at most a block past it.
InRange ==
  \A t \in Threads : pc[t] \in {"loaded", "multiply", "multiplied"} => k0[t] < K

BoundsInv == Launched /\ TypeOK /\ AccessesInMatrix /\ InRange

LEMMA BoundsInit == Init => BoundsInv
<1> SUFFICES ASSUME Init PROVE BoundsInv
  OBVIOUS
<1>1. Launched
  BY DEF Init, Launched
<1>2. K \in Nat \ {0} /\ Block \in Nat \ {0}
  BY <1>1, LaunchNat
<1>3. TypeOK
  BY <1>2 DEF Init, TypeOK, Unset
<1>4. AccessesInMatrix
  BY DEF Init, AccessesInMatrix
<1>5. InRange
  BY DEF Init, InRange
<1> QED
  BY <1>1, <1>3, <1>4, <1>5 DEF BoundsInv

LEMMA BoundsStep == BoundsInv /\ [Next]_vars => BoundsInv'
<1> SUFFICES ASSUME BoundsInv, [Next]_vars PROVE BoundsInv'
  OBVIOUS
<1>n. /\ M \in Nat /\ N \in Nat /\ K \in Nat /\ Block \in Nat \ {0}
      /\ k0 \in [Threads -> 0..(K + Block - 1)]
      /\ pc \in [Threads -> {"load", "loaded", "multiply", "multiplied", "exited"}]
      /\ As \in [Threads -> Int] /\ Bs \in [Threads -> Int]
  BY LaunchNat DEF BoundsInv, TypeOK
<1>d. UNCHANGED <<dims, block>>
  BY DEF Next, Load, Multiply, Store, Barrier, NextTile, vars
<1>u. /\ Launched' /\ M' = M /\ N' = N /\ K' = K /\ Batch' = Batch
      /\ Representable' <=> Representable
      /\ \A n : OwnMatrix(n)' = OwnMatrix(n)
  BY <1>d DEF BoundsInv, Launched, M, N, K, Batch, Representable, OwnMatrix
<1>k. ASSUME UNCHANGED <<As, Bs, C>> PROVE AccessesInMatrix'
  BY <1>u, <1>k DEF BoundsInv, AccessesInMatrix
<1>1. ASSUME NEW t \in Threads, Load(t) PROVE BoundsInv'
  <2>1. /\ k0[t] \in Nat /\ k0[t] < K /\ pc' = [pc EXCEPT ![t] = "loaded"]
        /\ UNCHANGED <<k0, C>>
        /\ As' = [As EXCEPT ![t] = TileA(t, k0[t])]
        /\ Bs' = [Bs EXCEPT ![t] = TileB(t, k0[t])]
    BY <1>n, <1>1 DEF Load, AtTile, Goto
  <2>2. /\ TileA(t, k0[t]) \in Int /\ TileB(t, k0[t]) \in Int
        /\ Representable =>
             /\ TileA(t, k0[t]) \in {Unset, Zero} \cup OwnMatrix(M * K)
             /\ TileB(t, k0[t]) \in {Unset, Zero} \cup OwnMatrix(K * N)
    BY <2>1, TileInMatrix DEF BoundsInv
  <2>3. TypeOK'
    BY <1>n, <1>u, <2>1, <2>2 DEF TypeOK
  <2>4. AccessesInMatrix'
    <3> SUFFICES ASSUME Representable
                 PROVE  /\ \A u \in Threads : As'[u] \in {Unset, Zero} \cup OwnMatrix(M * K)
                        /\ \A u \in Threads : Bs'[u] \in {Unset, Zero} \cup OwnMatrix(K * N)
                        /\ \A store \in C' : store[1] \in OwnMatrix(M * N)
      BY <1>u DEF AccessesInMatrix
    <3> QED
      BY <1>n, <2>1, <2>2 DEF BoundsInv, AccessesInMatrix
  <2>5. InRange'
    BY <1>n, <1>u, <2>1 DEF BoundsInv, InRange
  <2> QED
    BY <1>u, <2>3, <2>4, <2>5 DEF BoundsInv
<1>2. ASSUME NEW t \in Threads, Multiply(t) PROVE BoundsInv'
  <2>1. pc[t] = "multiply" /\ pc' = [pc EXCEPT ![t] = "multiplied"]
        /\ UNCHANGED <<k0, As, Bs, C>>
    BY <1>2 DEF Multiply, Goto
  <2>2. TypeOK'
    BY <1>n, <1>u, <2>1 DEF TypeOK
  <2>3. InRange'
    BY <1>n, <1>u, <2>1 DEF BoundsInv, InRange
  <2> QED
    BY <1>k, <1>u, <2>1, <2>2, <2>3 DEF BoundsInv
<1>3. ASSUME NEW t \in Threads, Store(t) PROVE BoundsInv'
  <2>1. pc' = [pc EXCEPT ![t] = "exited"] /\ UNCHANGED <<k0, As, Bs>>
    BY <1>3 DEF Store, Goto
  <2>2. PICK widened \in BOOLEAN :
          C' = IF Row(t) < M /\ Col(t) < N
               THEN C \cup {<<IntC(Batch, Row(t), Col(t), widened), Sum(acc[t])>>}
               ELSE C
    BY <1>3 DEF Store
  <2>3. ASSUME Representable, Row(t) < M, Col(t) < N
        PROVE  IntC(Batch, Row(t), Col(t), widened) \in OwnMatrix(M * N)
    <3>1. /\ Row(t) \in 0..(M - 1) /\ Col(t) \in 0..(N - 1) /\ 0 \in 0..(K - 1)
          /\ Batch \in Nat
      BY <2>3, LaunchNat DEF BoundsInv
    <3>2. IntC(Batch, Row(t), Col(t), widened) = PlaceC(Batch, Row(t), Col(t))
      BY <2>3, <3>1, PlacesRight DEF BoundsInv
    <3>3. PlaceC(Batch, Row(t), Col(t)) \in OwnMatrix(M * N)
      BY <3>1, PlacesWithin DEF BoundsInv
    <3> QED
      BY <3>2, <3>3
  <2>4. AccessesInMatrix'
    <3> SUFFICES ASSUME Representable
                 PROVE  /\ \A u \in Threads : As'[u] \in {Unset, Zero} \cup OwnMatrix(M * K)
                        /\ \A u \in Threads : Bs'[u] \in {Unset, Zero} \cup OwnMatrix(K * N)
                        /\ \A store \in C' : store[1] \in OwnMatrix(M * N)
      BY <1>u DEF AccessesInMatrix
    <3> QED
      BY <2>1, <2>2, <2>3 DEF BoundsInv, AccessesInMatrix
  <2>5. TypeOK'
    BY <1>n, <1>u, <2>1 DEF TypeOK
  <2>6. InRange'
    BY <1>n, <1>u, <2>1 DEF BoundsInv, InRange
  <2> QED
    BY <1>u, <2>4, <2>5, <2>6 DEF BoundsInv
<1>4. CASE Barrier("loaded", "multiply")
  <2>1. /\ \A t \in Threads : pc[t] = "loaded"
        /\ pc' = [t \in Threads |-> "multiply"] /\ UNCHANGED <<k0, As, Bs, C>>
    BY <1>4 DEF Barrier
  <2>2. TypeOK'
    BY <1>n, <1>u, <2>1 DEF TypeOK
  <2>3. InRange'
    BY <1>n, <1>u, <2>1 DEF BoundsInv, InRange
  <2> QED
    BY <1>k, <1>u, <2>1, <2>2, <2>3 DEF BoundsInv
<1>5. CASE NextTile
  <2>1. /\ \A t \in Threads : pc[t] = "multiplied"
        /\ pc' = [t \in Threads |-> "load"]
        /\ k0' = [t \in Threads |-> k0[t] + Block]
        /\ UNCHANGED <<As, Bs, C>>
    BY <1>5 DEF NextTile
  <2>2. \A t \in Threads : k0[t] \in Nat /\ k0[t] < K
    BY <1>n, <2>1 DEF BoundsInv, InRange
  <2>3. k0' \in [Threads -> 0..(K + Block - 1)]
    BY <1>n, <2>1, <2>2
  <2>4. TypeOK'
    BY <1>n, <1>u, <2>1, <2>3 DEF TypeOK
  <2>5. InRange'
    BY <2>1 DEF InRange
  <2> QED
    BY <1>k, <1>u, <2>1, <2>4, <2>5 DEF BoundsInv
<1>6. CASE UNCHANGED vars
  <2>1. UNCHANGED <<pc, k0, As, Bs, C>>
    BY <1>6 DEF vars
  <2>2. TypeOK'
    BY <1>n, <1>u, <2>1 DEF TypeOK
  <2>3. InRange'
    BY <1>u, <2>1 DEF BoundsInv, InRange
  <2> QED
    BY <1>k, <1>u, <2>1, <2>2, <2>3 DEF BoundsInv
<1> QED
  BY <1>1, <1>2, <1>3, <1>4, <1>5, <1>6 DEF Next

\* Every value of the loop variable is below K plus a block, so that it is an int,
\* and the variables of the kernel have their types.
THEOREM LoopStaysInRange == Spec => []TypeOK
<1>1. BoundsInv => TypeOK
  BY DEF BoundsInv
<1> QED
  BY <1>1, BoundsInit, BoundsStep, PTL DEF Spec

\* While an int can index every element of a matrix, every load of the tiled
\* kernel is padding or from this batch element's A or B and every store is in its
\* C, for every shape and block: index arithmetic in 32 bits included.
THEOREM AccessesInBounds == Spec => []AccessesInMatrix
<1>1. BoundsInv => AccessesInMatrix
  BY DEF BoundsInv
<1> QED
  BY <1>1, BoundsInit, BoundsStep, PTL DEF Spec

-----------------------------------------------------------------------------
(***************************************************************************)
(* The grids and the cuBLAS call.                                          *)
(***************************************************************************)

\* Blocks of side b, as many as (n + b - 1) / b, reach every one of n elements.
LEMMA GridCovers ==
  ASSUME NEW n \in Nat \ {0}, NEW b \in Nat \ {0}
  PROVE  Covered(n, b) = 0..(n - 1)
<1>1. ASSUME NEW x \in 0..(n - 1) PROVE x \in Covered(n, b)
  <2>1. PICK q \in Nat, r \in 0..(b - 1) : x = b * q + r
    <3>1. x \in Nat
      OBVIOUS
    <3>2. x \div b \in Nat /\ x % b \in 0..(b - 1) /\ x = b * (x \div b) + (x % b)
      BY <3>1, DivFacts
    <3> QED
      BY <3>2
  <2>2. PICK g \in Nat, s \in 0..(b - 1) :
             Blocks(n, b) = g /\ n + b - 1 = b * g + s
    <3>1. n + b - 1 \in Nat
      OBVIOUS
    <3> QED
      BY <3>1, DivFacts DEF Blocks
  <2>3. b * q = q * b /\ b * g = g * b /\ q * b \in Nat /\ g * b \in Nat
    BY TimesNat
  <2>4. q * b < g * b
    BY <2>1, <2>2, <2>3
  <2>5. q < g
    BY <2>4, TimesStrict
  <2>6. q \in 0..(Blocks(n, b) - 1)
    BY <2>2, <2>5
  <2>7. x = q * b + r
    BY <2>1, <2>3
  <2> QED
    BY <2>1, <2>6, <2>7 DEF Covered
<1>2. Covered(n, b) \subseteq 0..(n - 1)
  BY DEF Covered
<1> QED
  BY <1>1, <1>2

\* Swapping the operands transposes the product: the places cuBLAS reads and
\* writes, in column-major order, are those of the row-major product.
LEMMA SwappedOperands ==
  ASSUME Launched, NEW z \in Nat
  PROVE  Cublas(z) = Product(z, 0..(M - 1), 0..(N - 1))
<1>n. M \in Nat /\ N \in Nat /\ K \in Nat
  BY LaunchNat
<1> DEFINE Swapped(i, j) ==
             <<ColumnMajor(z, M * N, N, i, j),
               [k \in 1..K |-> <<ColumnMajor(z, M * K, K, k - 1, j),
                                 ColumnMajor(z, K * N, N, i, k - 1)>>]>>
           Straight(row, col) == <<PlaceC(z, row, col), ProductSum(z, row, col)>>
<1>1. ASSUME NEW i \in Nat, NEW j \in Nat
      PROVE  Swapped(i, j) = Straight(j, i)
  <2>1. ColumnMajor(z, M * N, N, i, j) = PlaceC(z, j, i)
    <3>1. z * (M * N) = z * M * N /\ z * M * N \in Nat /\ j * N \in Nat
      BY <1>n, TimesNat
    <3> QED
      BY <1>n, <3>1 DEF ColumnMajor, PlaceC
  <2>2. ASSUME NEW k \in 1..K
        PROVE  /\ ColumnMajor(z, M * K, K, k - 1, j) = PlaceA(z, j, k - 1)
               /\ ColumnMajor(z, K * N, N, i, k - 1) = PlaceB(z, k - 1, i)
    <3>1. k - 1 \in Nat
      BY <1>n
    <3>2. /\ z * (M * K) = z * M * K /\ z * M * K \in Nat /\ j * K \in Nat
          /\ z * (K * N) = z * K * N /\ z * K * N \in Nat /\ (k - 1) * N \in Nat
      BY <1>n, <3>1, TimesNat
    <3> QED
      BY <1>n, <3>1, <3>2 DEF ColumnMajor, PlaceA, PlaceB
  <2> QED
    BY <2>1, <2>2 DEF ProductSum
<1>2. Cublas(z) = {Swapped(i, j) : i \in 0..(N - 1), j \in 0..(M - 1)}
  BY DEF Cublas
<1>3. Product(z, 0..(M - 1), 0..(N - 1))
        = {Straight(row, col) : row \in 0..(M - 1), col \in 0..(N - 1)}
  BY DEF Product
<1>4. \A i \in 0..(N - 1) : i \in Nat
  BY <1>n
<1>5. \A j \in 0..(M - 1) : j \in Nat
  BY <1>n
<1> HIDE DEF Swapped, Straight
<1> QED
  BY <1>1, <1>2, <1>3, <1>4, <1>5

\* Where an int can index every element, the sums and the places of the CPU
\* reference and of the naive kernel are those of the product.
LEMMA SumsRight ==
  ASSUME Launched, Representable, NEW z \in Nat, NEW widened \in BOOLEAN,
         NEW row \in 0..(M - 1), NEW col \in 0..(N - 1)
  PROVE  /\ IntSum(z, row, col, widened) = ProductSum(z, row, col)
         /\ IntC(z, row, col, widened) = PlaceC(z, row, col)
         /\ NaiveC(z, row, col, widened) = PlaceC(z, row, col)
<1>1. M \in Nat \ {0} /\ N \in Nat \ {0} /\ K \in Nat \ {0}
  BY LaunchNat
<1>2. ASSUME NEW k \in 1..K
      PROVE  /\ IntA(z, row, k - 1, widened) = PlaceA(z, row, k - 1)
             /\ IntB(z, k - 1, col, widened) = PlaceB(z, k - 1, col)
  <2>1. k - 1 \in 0..(K - 1)
    BY <1>1
  <2> QED
    BY <2>1, PlacesRight
<1>3. IntSum(z, row, col, widened) = ProductSum(z, row, col)
  BY <1>2 DEF IntSum, ProductSum
<1>4. 0 \in 0..(K - 1)
  BY <1>1
<1> QED
  BY <1>3, <1>4, PlacesRight

LEMMA ReferenceIsProduct ==
  ASSUME Launched, Representable, NEW z \in Nat, NEW widened \in BOOLEAN,
         NEW rows \in SUBSET (0..(M - 1)), NEW cols \in SUBSET (0..(N - 1))
  PROVE  Reference(z, rows, cols, widened) = Product(z, rows, cols)
<1> DEFINE Coded(row, col) == <<IntC(z, row, col, widened), IntSum(z, row, col, widened)>>
           Meant(row, col) == <<PlaceC(z, row, col), ProductSum(z, row, col)>>
<1>1. \A row \in rows, col \in cols : Coded(row, col) = Meant(row, col)
  BY SumsRight
<1>2. Reference(z, rows, cols, widened) = {Coded(row, col) : row \in rows, col \in cols}
  BY DEF Reference
<1>3. Product(z, rows, cols) = {Meant(row, col) : row \in rows, col \in cols}
  BY DEF Product
<1> HIDE DEF Coded, Meant
<1> QED
  BY <1>1, <1>2, <1>3

LEMMA NaiveIsProduct ==
  ASSUME Launched, Representable, NEW z \in Nat, NEW widened \in BOOLEAN
  PROVE  Naive(z, widened) = Product(z, 0..(M - 1), 0..(N - 1))
<1> DEFINE Coded(row, col) == <<NaiveC(z, row, col, widened), IntSum(z, row, col, widened)>>
           Meant(row, col) == <<PlaceC(z, row, col), ProductSum(z, row, col)>>
<1>1. \A row \in 0..(M - 1), col \in 0..(N - 1) : Coded(row, col) = Meant(row, col)
  BY SumsRight
<1>2. Covered(M, NaiveBlock) = 0..(M - 1) /\ Covered(N, NaiveBlock) = 0..(N - 1)
  BY LaunchNat, GridCovers
<1>3. Naive(z, widened) = {Coded(row, col) : row \in 0..(M - 1), col \in 0..(N - 1)}
  BY <1>2 DEF Naive
<1>4. Product(z, 0..(M - 1), 0..(N - 1))
        = {Meant(row, col) : row \in 0..(M - 1), col \in 0..(N - 1)}
  BY DEF Product
<1> HIDE DEF Coded, Meant
<1> QED
  BY <1>1, <1>3, <1>4

\* The grids of the naive and of the tiled kernel cover C, and the cuBLAS call
\* computes every element of C from the elements of A and B, in the order of k,
\* that the product is made of; where an int can index every element so do the
\* naive kernel and the CPU reference.
THEOREM KernelsComputeTheProduct == Spec => []KernelsAgree
<1>1. Launched => KernelsAgree
  <2> SUFFICES ASSUME Launched PROVE KernelsAgree
    OBVIOUS
  <2>1. Batch \in Nat
    BY LaunchNat
  <2>2. Covered(M, Block) = 0..(M - 1) /\ Covered(N, Block) = 0..(N - 1)
    BY LaunchNat, GridCovers
  <2>3. Cublas(Batch) = Product(Batch, 0..(M - 1), 0..(N - 1))
    BY <2>1, SwappedOperands
  <2>4. ASSUME Representable
        PROVE  \A widened \in BOOLEAN :
                 /\ Naive(Batch, widened) = Product(Batch, 0..(M - 1), 0..(N - 1))
                 /\ Reference(Batch, 0..(M - 1), 0..(N - 1), widened)
                      = Product(Batch, 0..(M - 1), 0..(N - 1))
    <3> TAKE widened \in BOOLEAN
    <3>1. Naive(Batch, widened) = Product(Batch, 0..(M - 1), 0..(N - 1))
      BY <2>1, <2>4, NaiveIsProduct
    <3>2. Reference(Batch, 0..(M - 1), 0..(N - 1), widened)
            = Product(Batch, 0..(M - 1), 0..(N - 1))
      <4>1. /\ 0..(M - 1) \in SUBSET (0..(M - 1))
            /\ 0..(N - 1) \in SUBSET (0..(N - 1))
        OBVIOUS
      <4> QED
        BY <2>1, <2>4, <4>1, ReferenceIsProduct, Zenon
    <3> QED
      BY <3>1, <3>2
  <2> QED
    BY <2>2, <2>3, <2>4, Zenon DEF KernelsAgree
<1>2. BoundsInv => KernelsAgree
  BY <1>1 DEF BoundsInv
<1> QED
  BY <1>2, BoundsInit, BoundsStep, PTL DEF Spec

-----------------------------------------------------------------------------
(***************************************************************************)
(* The sums of the tiled kernel.                                           *)
(***************************************************************************)

\* The k-th product that thread t adds for its element of C, padded to the blocks.
Factors(t, k) ==
  <<IF Row(t) < M /\ k < K THEN UnsignedA(Batch, Row(t), k) ELSE Zero,
    IF k < K /\ Col(t) < N THEN UnsignedB(Batch, k, Col(t)) ELSE Zero>>

InC(t) == Row(t) < M /\ Col(t) < N

Pairs == Int \X Int

\* How many products thread t has added.
Added(t) == k0[t] + IF pc[t] = "multiplied" THEN Block ELSE 0

SumsInv ==
  /\ acc \in [Threads -> Seq(Pairs)]
  /\ \A t \in Threads :
       /\ Len(acc[t]) = Added(t)
       /\ \A i \in 1..Added(t) : acc[t][i] = Factors(t, i - 1)

Stored(t) == <<PlaceC(Batch, Row(t), Col(t)), ProductSum(Batch, Row(t), Col(t))>>

StoresInv ==
  Representable =>
    C = {Stored(t) : t \in {u \in Threads : pc[u] = "exited" /\ InC(u)}}

\* What a thread computes depends on the arguments of the call alone.
LEMMA ProductFrame ==
  ASSUME UNCHANGED <<dims, block>>, NEW t, NEW k
  PROVE  /\ Factors(t, k)' = Factors(t, k)
         /\ Stored(t)' = Stored(t)
         /\ InC(t)' = InC(t)
         /\ Representable' = Representable
BY DEF Factors, Stored, InC, Row, Col, M, N, K, Batch, PlaceA, PlaceB, PlaceC,
       ProductSum, Representable, UnsignedA, UnsignedB, BaseA, BaseB

\* Only padding is negative.
LEMMA FactorsInt ==
  ASSUME Launched, NEW t \in Threads, NEW k \in Nat
  PROVE  Factors(t, k) \in Pairs
<1>1. /\ M \in Nat /\ N \in Nat /\ K \in Nat /\ Batch \in Nat
      /\ Row(t) \in Nat /\ Col(t) \in Nat
  BY LaunchNat
<1>2. /\ Batch * M * K \in Nat /\ Row(t) * K \in Nat
      /\ Batch * K * N \in Nat /\ k * N \in Nat
  BY <1>1, TimesNat
<1>3. Unsigned(Row(t) * K + k) \in Nat /\ Unsigned(k * N + Col(t)) \in Nat
  BY <1>1, <1>2, UnsignedNat
<1>4. UnsignedA(Batch, Row(t), k) \in Nat /\ UnsignedB(Batch, k, Col(t)) \in Nat
  BY <1>2, <1>3 DEF UnsignedA, UnsignedB, BaseA, BaseB
<1> QED
  BY <1>4 DEF Factors, Zero, Pairs

\* A thread multiplies what the threads of its row and its column have loaded:
\* the next products of its own element.
LEMMA TileProducts ==
  ASSUME IInv, BoundsInv, NEW t \in Threads, pc[t] = "multiply", NEW kk \in 1..Block
  PROVE  Products(t)[kk] = Factors(t, k0[t] + (kk - 1))
<1> DEFINE a == <<t[1], kk - 1>>
           b == <<kk - 1, t[2]>>
<1>1. Block \in Nat \ {0} /\ k0[t] \in Nat
  BY TiledGemmAssumption DEF BoundsInv, TypeOK
<1>2. a \in Threads /\ b \in Threads
  BY <1>1 DEF Threads
<1>3. TilesComplete
  BY TilesWhole
<1>4. As[a] = TileA(a, k0[t]) /\ Bs[b] = TileB(b, k0[t])
  BY <1>2, <1>3 DEF TilesComplete
<1>5. Row(a) = Row(t) /\ a[2] = kk - 1 /\ Col(b) = Col(t) /\ b[1] = kk - 1
  BY DEF Row, Col
<1>6. Products(t)[kk] = <<As[a], Bs[b]>>
  BY DEF Products
<1> QED
  BY <1>4, <1>5, <1>6 DEF TileA, TileB, Factors

\* Once the loop has passed K, the products that are no padding are the terms of
\* the product of the matrices, each at its place.
LEMMA SumIsProduct ==
  ASSUME BoundsInv, SumsInv, Representable, NEW t \in Threads, InC(t),
         pc[t] = "load", k0[t] >= K
  PROVE  Sum(acc[t]) = ProductSum(Batch, Row(t), Col(t))
<1>1. /\ M \in Nat /\ N \in Nat /\ K \in Nat /\ k0[t] \in Nat /\ Launched /\ Batch \in Nat
      /\ Row(t) \in 0..(M - 1) /\ Col(t) \in 0..(N - 1)
  BY LaunchNat DEF BoundsInv, TypeOK, InC
<1>2. DOMAIN acc[t] = 1..k0[t]
  BY <1>1 DEF SumsInv, Added
<1>3. ASSUME NEW i \in 1..k0[t]
      PROVE  /\ IsTerm(acc[t][i]) <=> i \in 1..K
             /\ i \in 1..K =>
                  acc[t][i] = <<PlaceA(Batch, Row(t), i - 1), PlaceB(Batch, i - 1, Col(t))>>
  <2>1. acc[t][i] = Factors(t, i - 1) /\ i - 1 \in Nat
    BY <1>1 DEF SumsInv, Added
  <2>2. CASE i - 1 < K
    <3>1. i - 1 \in 0..(K - 1) /\ i \in 1..K
      BY <1>1, <2>1, <2>2
    <3>2. /\ UnsignedA(Batch, Row(t), i - 1) = PlaceA(Batch, Row(t), i - 1)
          /\ UnsignedB(Batch, i - 1, Col(t)) = PlaceB(Batch, i - 1, Col(t))
      BY <1>1, <3>1, PlacesRight
    <3>3. /\ PlaceA(Batch, Row(t), i - 1) \in Nat /\ PlaceB(Batch, i - 1, Col(t)) \in Nat
      <4>1. /\ Batch * M * K \in Nat /\ Row(t) * K \in Nat
            /\ Batch * K * N \in Nat /\ (i - 1) * N \in Nat
        BY <1>1, <2>1, TimesNat
      <4> QED
        BY <1>1, <2>1, <4>1 DEF PlaceA, PlaceB
    <3>4. acc[t][i] = <<PlaceA(Batch, Row(t), i - 1), PlaceB(Batch, i - 1, Col(t))>>
      BY <1>1, <2>1, <2>2, <3>2 DEF Factors, InC
    <3> QED
      BY <3>1, <3>3, <3>4 DEF IsTerm, Zero
  <2>3. CASE ~(i - 1 < K)
    <3>1. acc[t][i] = <<Zero, Zero>> /\ i \notin 1..K
      BY <1>1, <2>1, <2>3 DEF Factors
    <3> QED
      BY <3>1 DEF IsTerm
  <2> QED
    BY <2>2, <2>3
<1>4. {k \in DOMAIN acc[t] : IsTerm(acc[t][k])} = 1..K
  BY <1>1, <1>2, <1>3
<1>5. \A i \in 1..K : i \in 1..k0[t]
  BY <1>1
<1> QED
  BY <1>3, <1>4, <1>5 DEF Sum, ProductSum

LEMMA SumsInit == Init => SumsInv /\ StoresInv
<1> SUFFICES ASSUME Init PROVE SumsInv /\ StoresInv
  OBVIOUS
<1>1. SumsInv
  BY DEF Init, SumsInv, Added
<1>2. StoresInv
  BY DEF Init, StoresInv
<1> QED
  BY <1>1, <1>2

\* What a sequence is when another is appended.
LEMMA Appended ==
  ASSUME NEW S, NEW s \in Seq(S), NEW p \in Seq(S)
  PROVE  /\ s \o p \in Seq(S)
         /\ Len(s \o p) = Len(s) + Len(p)
         /\ \A i \in 1..Len(s) : (s \o p)[i] = s[i]
         /\ \A i \in 1..Len(p) : (s \o p)[Len(s) + i] = p[i]
<1>1. Len(s) \in Nat /\ Len(p) \in Nat
  OBVIOUS
<1>2. /\ s \o p \in Seq(S)
      /\ Len(s \o p) = Len(s) + Len(p)
      /\ \A i \in 1 .. Len(s) + Len(p) :
           (s \o p)[i] = IF i <= Len(s) THEN s[i] ELSE p[i - Len(s)]
  BY ConcatProperties
<1>3. ASSUME NEW i \in 1..Len(s) PROVE (s \o p)[i] = s[i]
  <2>1. i \in 1 .. Len(s) + Len(p) /\ i <= Len(s)
    BY <1>1
  <2> QED
    BY <1>2, <2>1
<1>4. ASSUME NEW i \in 1..Len(p) PROVE (s \o p)[Len(s) + i] = p[i]
  <2>1. /\ Len(s) + i \in 1 .. Len(s) + Len(p) /\ ~(Len(s) + i <= Len(s))
        /\ (Len(s) + i) - Len(s) = i
    BY <1>1
  <2> QED
    BY <1>2, <2>1
<1> QED
  BY <1>2, <1>3, <1>4

\* Only Multiply adds products.
LEMMA SumsStep ==
  ASSUME IInv, BoundsInv, SumsInv, [Next]_vars
  PROVE  SumsInv'
<1>n. /\ Launched /\ TypeOK /\ Block \in Nat \ {0}
      /\ \A t \in Threads : k0[t] \in Nat
      /\ pc \in [Threads -> {"load", "loaded", "multiply", "multiplied", "exited"}]
      /\ k0 \in [Threads -> 0..(K + Block - 1)]
      /\ acc \in [Threads -> Seq(Pairs)]
  BY TiledGemmAssumption DEF BoundsInv, TypeOK, SumsInv
<1>d. UNCHANGED <<dims, block>>
  BY DEF Next, Load, Multiply, Store, Barrier, NextTile, vars
<1>1. ASSUME NEW t \in Threads, Multiply(t) PROVE SumsInv'
  <2>1. /\ pc[t] = "multiply" /\ pc' = [pc EXCEPT ![t] = "multiplied"]
        /\ k0' = k0 /\ acc' = [acc EXCEPT ![t] = acc[t] \o Products(t)]
    BY <1>1 DEF Multiply, Goto
  <2>2. \A kk \in 1..Block : Products(t)[kk] = Factors(t, k0[t] + (kk - 1))
    BY <2>1, TileProducts
  <2>3. \A kk \in 1..Block : Products(t)[kk] \in Pairs
    <3> TAKE kk \in 1..Block
    <3>1. k0[t] + (kk - 1) \in Nat
      BY <1>n
    <3>2. Factors(t, k0[t] + (kk - 1)) \in Pairs
      BY <1>n, <3>1, FactorsInt
    <3> QED
      BY <2>2, <3>2
  <2>0. k0[t] \in Nat /\ Block \in Nat
    BY <1>n
  <2>4. Products(t) \in [1..Block -> Pairs]
    BY <2>3 DEF Products
  <2>a. Added(t) = k0[t]
    BY <2>0, <2>1 DEF Added
  <2>5. acc[t] \in Seq(Pairs) /\ Len(acc[t]) = k0[t]
    BY <1>n, <2>a DEF SumsInv
  <2>6. /\ acc[t] \o Products(t) \in Seq(Pairs)
        /\ Len(acc[t] \o Products(t)) = k0[t] + Block
        /\ \A i \in 1..k0[t] : (acc[t] \o Products(t))[i] = acc[t][i]
        /\ \A kk \in 1..Block : (acc[t] \o Products(t))[k0[t] + kk] = Products(t)[kk]
    <3> DEFINE had == acc[t]
               new == Products(t)
    <3>1. /\ had \in Seq(Pairs) /\ Len(had) = k0[t]
          /\ new \in Seq(Pairs) /\ Len(new) = Block
      BY <2>0, <2>4, <2>5
    <3> HIDE DEF had, new
    <3>2. had \o new \in Seq(Pairs)
      BY <3>1, Appended
    <3>3. Len(had \o new) = k0[t] + Block
      BY <3>1
    <3>4. \A i \in 1..k0[t] : (had \o new)[i] = had[i]
      BY <3>1, Appended
    <3>5. \A i \in 1..Block : (had \o new)[k0[t] + i] = new[i]
      BY <3>1, Appended
    <3> QED
      BY <3>2, <3>3, <3>4, <3>5 DEF had, new
  <2>7. ASSUME NEW i \in 1..(k0[t] + Block)
        PROVE  (acc[t] \o Products(t))[i] = Factors(t, i - 1)
    <3>1. CASE i \in 1..k0[t]
      <4>1. acc[t][i] = Factors(t, i - 1)
        BY <2>a, <3>1 DEF SumsInv
      <4> QED
        BY <2>6, <3>1, <4>1
    <3>2. ASSUME NEW kk \in 1..Block, i = k0[t] + kk
          PROVE  (acc[t] \o Products(t))[i] = Factors(t, i - 1)
      <4>1. k0[t] + (kk - 1) = i - 1
        BY <2>0, <3>2
      <4> QED
        BY <2>2, <2>6, <3>2, <4>1
    <3>3. i \in 1..k0[t] \/ (i - k0[t] \in 1..Block /\ i = k0[t] + (i - k0[t]))
      BY <2>0
    <3> QED
      BY <3>1, <3>2, <3>3
  <2>8. acc' \in [Threads -> Seq(Pairs)]
    BY <1>n, <2>1, <2>6
  <2>9. ASSUME NEW u \in Threads
        PROVE  /\ Len(acc'[u]) = Added(u)'
               /\ \A i \in 1..Added(u)' : acc'[u][i] = Factors(u, i - 1)
    <3>1. CASE u = t
      <4>1. Added(u)' = k0[t] + Block /\ acc'[u] = acc[t] \o Products(t)
        BY <1>n, <2>1, <3>1 DEF Added
      <4> QED
        BY <2>6, <2>7, <3>1, <4>1
    <3>2. CASE u # t
      BY <1>n, <2>1, <3>2 DEF SumsInv, Added
    <3> QED
      BY <3>1, <3>2
  <2> QED
    BY <1>d, <2>8, <2>9, ProductFrame DEF SumsInv
<1>2. ASSUME acc' = acc, \A t \in Threads : Added(t)' = Added(t) PROVE SumsInv'
  BY <1>d, <1>2, ProductFrame DEF SumsInv
<1>3. ASSUME NEW t \in Threads, Load(t) \/ Store(t) PROVE SumsInv'
  BY <1>n, <1>2, <1>3 DEF Load, Store, AtTile, Goto, Added
<1>4. CASE Barrier("loaded", "multiply")
  BY <1>n, <1>2, <1>4 DEF Barrier, Added
<1>5. CASE NextTile
  BY <1>n, <1>2, <1>5 DEF NextTile, Added
<1>6. CASE UNCHANGED vars
  BY <1>2, <1>6 DEF vars, Added
<1> QED
  BY <1>1, <1>3, <1>4, <1>5, <1>6 DEF Next

\* Only Store stores, and a thread stores once.
LEMMA StoresStep ==
  ASSUME BoundsInv, SumsInv, StoresInv, [Next]_vars
  PROVE  StoresInv'
<1> SUFFICES ASSUME Representable PROVE StoresInv'
  <2>1. Representable' = Representable
    <3>1. UNCHANGED <<dims, block>>
      BY DEF Next, Load, Multiply, Store, Barrier, NextTile, vars
    <3> QED
      BY <3>1, ProductFrame
  <2> QED
    BY <2>1 DEF StoresInv
<1>n. pc \in [Threads -> {"load", "loaded", "multiply", "multiplied", "exited"}]
  BY DEF BoundsInv, TypeOK
<1>d. UNCHANGED <<dims, block>>
  BY DEF Next, Load, Multiply, Store, Barrier, NextTile, vars
<1> DEFINE Done == {u \in Threads : pc[u] = "exited" /\ InC(u)}
           DoneNext == {u \in Threads : pc'[u] = "exited" /\ InC(u)}
<1>s. (C' = {Stored(t) : t \in DoneNext}) => StoresInv'
  BY <1>d, ProductFrame DEF StoresInv
<1>c. C = {Stored(t) : t \in Done}
  BY DEF StoresInv
<1>1. ASSUME NEW t \in Threads, Store(t) PROVE StoresInv'
  <2>0. PICK widened \in BOOLEAN :
          C' = IF InC(t)
               THEN C \cup {<<IntC(Batch, Row(t), Col(t), widened), Sum(acc[t])>>}
               ELSE C
    BY <1>1 DEF Store, InC
  <2>1. /\ pc[t] = "load" /\ k0[t] >= K /\ pc' = [pc EXCEPT ![t] = "exited"]
        /\ ~InC(t) => C' = C
    BY <1>1, <2>0 DEF Store, Goto
  <2>2. CASE InC(t)
    <3>0. IntC(Batch, Row(t), Col(t), widened) = PlaceC(Batch, Row(t), Col(t))
      <4>1. /\ Launched /\ Batch \in Nat
            /\ Row(t) \in 0..(M - 1) /\ Col(t) \in 0..(N - 1)
        BY <2>2, LaunchNat DEF BoundsInv, InC
      <4> QED
        BY <4>1, SumsRight
    <3>1. C' = C \cup {Stored(t)}
      BY <2>0, <2>1, <2>2, <3>0, SumIsProduct DEF Stored
    <3>2. DoneNext = Done \cup {t}
      BY <1>n, <2>1, <2>2
    <3> QED
      BY <1>c, <1>s, <3>1, <3>2
  <2>3. CASE ~InC(t)
    <3>1. DoneNext = Done
      BY <1>n, <2>1, <2>3
    <3> QED
      BY <1>c, <1>s, <2>1, <2>3, <3>1
  <2> QED
    BY <2>2, <2>3
<1>2. ASSUME C' = C, \A u \in Threads : pc'[u] = "exited" <=> pc[u] = "exited"
      PROVE  StoresInv'
  <2>1. DoneNext = Done
    BY <1>2
  <2> QED
    BY <1>2, <1>c, <1>s, <2>1
<1>3. ASSUME NEW t \in Threads, Load(t) \/ Multiply(t) PROVE StoresInv'
  BY <1>n, <1>2, <1>3 DEF Load, Multiply, AtTile, Goto
<1>4. CASE Barrier("loaded", "multiply") \/ NextTile
  BY <1>n, <1>2, <1>4 DEF Barrier, NextTile
<1>5. CASE UNCHANGED vars
  BY <1>2, <1>5 DEF vars
<1> QED
  BY <1>1, <1>3, <1>4, <1>5 DEF Next

\* A block that has ended has stored its part of the product.
LEMMA BlockStores ==
  ASSUME BoundsInv, StoresInv, Representable, Ended
  PROVE  C = Product(Batch, BlockRows, BlockCols)
<1> DEFINE Meant(row, col) == <<PlaceC(Batch, row, col), ProductSum(Batch, row, col)>>
<1>n. M \in Nat /\ N \in Nat /\ \A t \in Threads : Row(t) \in Nat /\ Col(t) \in Nat
  BY LaunchNat DEF BoundsInv
<1>1. C = {Meant(Row(t), Col(t)) : t \in {u \in Threads : InC(u)}}
  BY DEF StoresInv, Ended, Stored
<1>2. Product(Batch, BlockRows, BlockCols)
        = {Meant(row, col) : row \in BlockRows, col \in BlockCols}
  BY DEF Product
<1> HIDE DEF Meant
<1>3. ASSUME NEW t \in Threads, InC(t)
      PROVE  Row(t) \in BlockRows /\ Col(t) \in BlockCols
  BY <1>n, <1>3 DEF InC, BlockRows, BlockCols
<1>4. ASSUME NEW row \in BlockRows, NEW col \in BlockCols
      PROVE  \E t \in Threads : InC(t) /\ Row(t) = row /\ Col(t) = col
  <2>1. PICK t \in Threads, u \in Threads : Row(t) = row /\ Col(u) = col
    BY DEF BlockRows, BlockCols
  <2>2. <<t[1], u[2]>> \in Threads
    BY DEF Threads
  <2>3. Row(<<t[1], u[2]>>) = row /\ Col(<<t[1], u[2]>>) = col
    BY <2>1 DEF Row, Col
  <2>4. row < M /\ col < N
    BY <1>n DEF BlockRows, BlockCols
  <2> QED
    BY <2>2, <2>3, <2>4 DEF InC
<1> QED
  BY <1>1, <1>2, <1>3, <1>4

\* What the proofs below know of every state.
LEMMA KernelInvariant == Spec => [](BoundsInv /\ StoresInv)
<1>1. Init => IInv /\ BoundsInv /\ SumsInv /\ StoresInv
  BY InitIInv, BoundsInit, SumsInit
<1>2. IInv /\ BoundsInv /\ SumsInv /\ StoresInv /\ [Next]_vars
        => (IInv /\ BoundsInv /\ SumsInv /\ StoresInv)'
  BY NextIInv, BoundsStep, SumsStep, StoresStep
<1> QED
  BY <1>1, <1>2, PTL DEF Spec

\* While an int can index every element of a matrix, the block stores the sums of
\* the CPU reference, in the same order of addition, for each of its elements of C
\* and for nothing else: for every shape, block side, place of the block and order
\* in which its threads run.
THEOREM TiledComputesReference == Spec => []TiledIsReference
<1>1. BoundsInv /\ StoresInv => TiledIsReference
  <2> SUFFICES ASSUME BoundsInv, StoresInv, Representable, Ended, NEW widened \in BOOLEAN
               PROVE  C = Reference(Batch, BlockRows, BlockCols, widened)
    BY DEF TiledIsReference
  <2>1. Launched /\ Batch \in Nat
    BY LaunchNat DEF BoundsInv
  <2>2. BlockRows \in SUBSET (0..(M - 1)) /\ BlockCols \in SUBSET (0..(N - 1))
    BY DEF BlockRows, BlockCols
  <2>3. Reference(Batch, BlockRows, BlockCols, widened) = Product(Batch, BlockRows, BlockCols)
    BY <2>1, <2>2, ReferenceIsProduct
  <2> QED
    BY <2>3, BlockStores
<1> QED
  BY <1>1, KernelInvariant, PTL

\* The comment at gemm.cu 96 is true of matrices whose elements an int can index:
\* the block stores its part of the product, in the right places.
THEOREM RepresentableProductsAreStored == Spec => [](Representable => StoresTheProduct)
<1>1. BoundsInv /\ StoresInv => (Representable => StoresTheProduct)
  BY BlockStores DEF StoresTheProduct
<1> QED
  BY <1>1, KernelInvariant, PTL
=============================================================================
