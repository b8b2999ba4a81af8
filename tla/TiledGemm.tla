----------------------------- MODULE TiledGemm -----------------------------
(***************************************************************************)
(* The batched GEMM kernels (src/kernels/gemm.cu, gemm_cublas.cu): the     *)
(* naive kernel and cuBLAS as sums, the tiled kernel as the threads of one *)
(* block that share two tiles and meet at two barriers per tile.           *)
(*                                                                         *)
(* A value is the place it was read from, and a sum gives its terms by     *)
(* their position in the order of addition: two kernels that add the same  *)
(* products in the same order compute the same floating-point number.      *)
(*                                                                         *)
(* The code adds the start of a matrix of the batch in std::size_t and an  *)
(* index within the matrix in 32 bits: in int, or in unsigned int where    *)
(* threadIdx takes part.  Nothing limits a matrix to the range of either.  *)
(***************************************************************************)
EXTENDS Integers, FiniteSets, Sequences

CONSTANTS
  Block,       \* BLOCK of gemm_tiled_batched, 32 in the code
  NaiveBlock,  \* side of the blocks of gemm_naive_batched, 16 in the code
  MaxDim,      \* bound: the largest M, N and K
  MaxCount,    \* bound: the largest batch
  IntLimit     \* 2^31 in the code: an int is in -IntLimit..(IntLimit - 1)

ASSUME TiledGemmAssumption ==
  /\ Block \in Nat \ {0}
  /\ NaiveBlock \in Nat \ {0}
  /\ MaxDim \in Nat \ {0}
  /\ MaxCount \in Nat \ {0}
  /\ IntLimit \in Nat
  \* Rows, columns, k0 and the sizes of the grids stay ints.
  /\ MaxDim + Block =< IntLimit
  /\ MaxDim + NaiveBlock =< IntLimit

\* The threads of a block: <<threadIdx.y, threadIdx.x>>.
Threads == (0..(Block - 1)) \X (0..(Block - 1))

Zero == -1     \* 0.0f
Unset == -2    \* shared memory before the first store

VARIABLES
  dims,    \* the arguments M, N, K, batch
  block,   \* <<blockIdx.y, blockIdx.x, blockIdx.z>>
  pc,      \* pc[t]: "load", "loaded", "multiply", "multiplied", "exited"
  k0,      \* k0[t]
  As, Bs,  \* the shared tiles, by <<row, column>>
  acc,     \* acc[t]: the products added, pairs of places in A and B or of padding
  C        \* what the block has stored: pairs of a place in C and a sum

vars == <<dims, block, pc, k0, As, Bs, acc, C>>

M == dims.M
N == dims.N
K == dims.K

\* Blocks of side b that cover n elements; the code's (n + b - 1) / b.
Blocks(n, b) == (n + b - 1) \div b

\* Arithmetic in unsigned int, and in int, whose overflow is undefined: a build
\* wraps around, or has widened the computation to 64 bits.
Unsigned(x) == x % (2 * IntLimit)
Signed(x, widened) ==
  IF widened THEN x ELSE ((x + IntLimit) % (2 * IntLimit)) - IntLimit

\* Where the matrices of batch element z start, in std::size_t.
BaseA(z) == z * M * K
BaseB(z) == z * K * N
BaseC(z) == z * M * N

\* A_b[row * K + k] and B_b[k * N + col] with an unsigned operand.
UnsignedA(z, row, k) == BaseA(z) + Unsigned(row * K + k)
UnsignedB(z, k, col) == BaseB(z) + Unsigned(k * N + col)

\* The same in int, and C_b[row * N + col].
IntA(z, row, k, widened) == BaseA(z) + Signed(row * K + k, widened)
IntB(z, k, col, widened) == BaseB(z) + Signed(k * N + col, widened)

\* Mutant of IntC: the stride of the batch is computed in int as well.
IntCWhole(z, row, col, widened) == Signed(BaseC(z) + row * N + col, widened)

IntC(z, row, col, widened) == BaseC(z) + Signed(row * N + col, widened)

Init ==
  /\ dims \in [M : 1..MaxDim, N : 1..MaxDim, K : 1..MaxDim, batch : 1..MaxCount]
  /\ block \in (0..(Blocks(M, Block) - 1)) \X (0..(Blocks(N, Block) - 1))
                 \X (0..(dims.batch - 1))
  /\ pc = [t \in Threads |-> "load"]
  /\ k0 = [t \in Threads |-> 0]
  /\ As = [t \in Threads |-> Unset]
  /\ Bs = [t \in Threads |-> Unset]
  /\ acc = [t \in Threads |-> <<>>]
  /\ C = {}

Batch == block[3]
Row(t) == block[1] * Block + t[1]
Col(t) == block[2] * Block + t[2]

-----------------------------------------------------------------------------
(* The tiled kernel. *)

Goto(t, place) == pc' = [pc EXCEPT ![t] = place]

\* for (k0 = 0; k0 < K; k0 += BLOCK_K)
AtTile(t) == pc[t] = "load" /\ k0[t] < K

\* What thread t loads into its place of the two tiles at k0 = k.
TileA(t, k) ==
  IF Row(t) < M /\ k + t[2] < K THEN UnsignedA(Batch, Row(t), k + t[2]) ELSE Zero

TileB(t, k) ==
  IF k + t[1] < K /\ Col(t) < N THEN UnsignedB(Batch, k + t[1], Col(t)) ELSE Zero

\* Mutant of Load: threads outside C leave at once, as in the naive kernel.
LoadOrExit(t) ==
  /\ AtTile(t)
  /\ IF Row(t) < M /\ Col(t) < N
     THEN /\ As' = [As EXCEPT ![t] = TileA(t, k0[t])]
          /\ Bs' = [Bs EXCEPT ![t] = TileB(t, k0[t])]
          /\ Goto(t, "loaded")
     ELSE Goto(t, "exited") /\ UNCHANGED <<As, Bs>>
  /\ UNCHANGED <<dims, block, k0, acc, C>>

Load(t) ==
  /\ AtTile(t)
  /\ As' = [As EXCEPT ![t] = TileA(t, k0[t])]
  /\ Bs' = [Bs EXCEPT ![t] = TileB(t, k0[t])]
  /\ Goto(t, "loaded")
  /\ UNCHANGED <<dims, block, k0, acc, C>>

\* Mutant of Barrier: a thread passes when it arrives.
BarrierMissing(from, to) ==
  /\ \E t \in Threads : pc[t] = from /\ Goto(t, to)
  /\ UNCHANGED <<dims, block, k0, As, Bs, acc, C>>

\* __syncthreads(): no thread of the block passes before all have arrived.
Barrier(from, to) ==
  /\ \A t \in Threads : pc[t] = from
  /\ pc' = [t \in Threads |-> to]
  /\ UNCHANGED <<dims, block, k0, As, Bs, acc, C>>

\* The products of row threadIdx.y of As and column threadIdx.x of Bs.
Products(t) ==
  [kk \in 1..Block |-> <<As[<<t[1], kk - 1>>], Bs[<<kk - 1, t[2]>>]>>]

\* A product with a padded factor adds 0.0f: the others are the terms of the sum.
IsTerm(p) == p[1] # Zero /\ p[2] # Zero
Sum(products) ==
  [i \in {k \in DOMAIN products : IsTerm(products[k])} |-> products[i]]

\* Mutant of Multiply: the second barrier is missing.
MultiplyAndGo(t) ==
  /\ pc[t] = "multiply"
  /\ acc' = [acc EXCEPT ![t] = @ \o Products(t)]
  /\ k0' = [k0 EXCEPT ![t] = @ + Block]
  /\ Goto(t, "load")
  /\ UNCHANGED <<dims, block, As, Bs, C>>

Multiply(t) ==
  /\ pc[t] = "multiply"
  /\ acc' = [acc EXCEPT ![t] = @ \o Products(t)]
  /\ Goto(t, "multiplied")
  /\ UNCHANGED <<dims, block, k0, As, Bs, C>>

NextTile ==
  /\ \A t \in Threads : pc[t] = "multiplied"
  /\ pc' = [t \in Threads |-> "load"]
  /\ k0' = [t \in Threads |-> k0[t] + Block]
  /\ UNCHANGED <<dims, block, As, Bs, acc, C>>

Store(t) ==
  /\ pc[t] = "load"
  /\ k0[t] >= K
  /\ \E widened \in BOOLEAN :
       C' = IF Row(t) < M /\ Col(t) < N
            THEN C \cup {<<IntC(Batch, Row(t), Col(t), widened), Sum(acc[t])>>}
            ELSE C
  /\ Goto(t, "exited")
  /\ UNCHANGED <<dims, block, k0, As, Bs, acc>>

Ended == \A t \in Threads : pc[t] = "exited"

Next ==
  \/ \E t \in Threads : Load(t) \/ Multiply(t) \/ Store(t)
  \/ Barrier("loaded", "multiply")
  \/ NextTile

Spec == Init /\ [][Next]_vars

\* The threads of a block that has been launched run.
FairSpec == Spec /\ WF_vars(Next)

-----------------------------------------------------------------------------
(* The other computations of the same product. *)

\* The sum of element (row, col), as the CPU and the naive kernel compute it.
IntSum(z, row, col, widened) ==
  [k \in 1..K |-> <<IntA(z, row, k - 1, widened), IntB(z, k - 1, col, widened)>>]

\* What gemm_cpu_reference() stores for some rows and columns of element z.
Reference(z, rows, cols, widened) ==
  {<<IntC(z, row, col, widened), IntSum(z, row, col, widened)>> :
   row \in rows, col \in cols}

\* Element (i, j) of a column-major matrix, as cuBLAS sees it.
ColumnMajor(z, stride, ld, i, j) == z * stride + i + j * ld

\* Mutant of Cublas: the leading dimension of A is not swapped.
CublasUnswapped(z) ==
  {<<ColumnMajor(z, M * N, N, i, j),
     [k \in 1..K |-> <<ColumnMajor(z, M * K, M, k - 1, j),
                       ColumnMajor(z, K * N, N, i, k - 1)>>]>> :
   i \in 0..(N - 1), j \in 0..(M - 1)}

\* cublasSgemmStridedBatched with N, M, K and the operands B, A: the product
\* of the transposed matrices in column-major order.
Cublas(z) ==
  {<<ColumnMajor(z, M * N, N, i, j),
     [k \in 1..K |-> <<ColumnMajor(z, M * K, K, k - 1, j),
                       ColumnMajor(z, K * N, N, i, k - 1)>>]>> :
   i \in 0..(N - 1), j \in 0..(M - 1)}

\* The rows (or columns) that the blocks of side b compute of n of them.
Covered(n, b) ==
  {i * b + t : i \in 0..(Blocks(n, b) - 1), t \in 0..(b - 1)} \cap 0..(n - 1)

\* C[batch * stride_c + row * N + col]: only row * N is computed in int.
NaiveC(z, row, col, widened) == BaseC(z) + Signed(row * N, widened) + col

\* gemm_naive_batched: a thread for every row and column.
Naive(z, widened) ==
  {<<NaiveC(z, row, col, widened), IntSum(z, row, col, widened)>> :
   row \in Covered(M, NaiveBlock), col \in Covered(N, NaiveBlock)}

-----------------------------------------------------------------------------
(* What is to be computed: A, B and C are row-major matrices.              *)

PlaceA(z, row, k) == z * M * K + row * K + k
PlaceB(z, k, col) == z * K * N + k * N + col
PlaceC(z, row, col) == z * M * N + row * N + col

\* Element (row, col) of the product, and some rows and columns of it.
ProductSum(z, row, col) ==
  [k \in 1..K |-> <<PlaceA(z, row, k - 1), PlaceB(z, k - 1, col)>>]

Product(z, rows, cols) ==
  {<<PlaceC(z, row, col), ProductSum(z, row, col)>> : row \in rows, col \in cols}

\* The rows and columns of the block that are not beyond the matrices.
BlockRows == {Row(t) : t \in Threads} \cap 0..(M - 1)
BlockCols == {Col(t) : t \in Threads} \cap 0..(N - 1)

\* No matrix has an element that an int cannot index.
Representable == M * K =< IntLimit /\ K * N =< IntLimit /\ M * N =< IntLimit

\* The places of the current batch element, in matrices of n elements each.
OwnMatrix(n) == (Batch * n)..(Batch * n + n - 1)

-----------------------------------------------------------------------------
(* Properties.  Those that relate places hold as far as the matrices are   *)
(* Representable; StoresTheProduct does without, and WideMatrix.cfg shows  *)
(* it violated.                                                            *)

\* Types; the loop variable k0 never gets a whole block past K.
TypeOK ==
  /\ pc \in [Threads -> {"load", "loaded", "multiply", "multiplied", "exited"}]
  /\ k0 \in [Threads -> 0..(K + Block - 1)]
  /\ As \in [Threads -> Int]
  /\ Bs \in [Threads -> Int]

\* Whatever a thread loads is padding or an element of this batch element's A or
\* B, and whatever it stores an element of its C: the 32-bit index within the
\* matrix, the 64-bit start of the matrix and the tests of row, column and k
\* together keep the accesses of the tiled kernel where they belong.
AccessesInMatrix ==
  Representable =>
    /\ \A t \in Threads : As[t] \in {Unset, Zero} \cup OwnMatrix(M * K)
    /\ \A t \in Threads : Bs[t] \in {Unset, Zero} \cup OwnMatrix(K * N)
    /\ \A store \in C : store[1] \in OwnMatrix(M * N)

\* A thread multiplies only while both tiles are complete and of its k0: the
\* first barrier keeps it from reading a tile that is still being filled, the
\* second keeps a fast thread from filling the next one too early.
TilesComplete ==
  \A t \in Threads : pc[t] = "multiply" =>
    \A u \in Threads : As[u] = TileA(u, k0[t]) /\ Bs[u] = TileB(u, k0[t])

\* Whatever the order in which the threads of a block run between the barriers
\* and however the tiles overhang the matrices, the block stores for each of
\* its elements of C the sum that the CPU reference computes, in the same
\* order, and stores nothing else.
TiledIsReference ==
  Representable /\ Ended =>
    \A widened \in BOOLEAN : C = Reference(Batch, BlockRows, BlockCols, widened)

\* The grids of both kernels reach every element of C, and the cuBLAS call,
\* which swaps the operands instead of transposing them, computes the product
\* too, from the same elements as the CPU reference and in the same order.
KernelsAgree ==
  LET product == Product(Batch, 0..(M - 1), 0..(N - 1))
  IN  /\ Covered(M, Block) = 0..(M - 1) /\ Covered(N, Block) = 0..(N - 1)
      /\ Cublas(Batch) = product
      /\ Representable =>
           \A widened \in BOOLEAN :
             /\ Naive(Batch, widened) = product
             /\ Reference(Batch, 0..(M - 1), 0..(N - 1), widened) = product

\* The block stores its part of the product of row-major matrices, whatever their
\* size: what the comment at gemm.cu 96 says.  False of matrices that are not
\* Representable, whose size no part of the code limits.
StoresTheProduct == Ended => C = Product(Batch, BlockRows, BlockCols)

\* No thread waits at a barrier that the others never reach.
KernelEnds == <>Ended
=============================================================================
