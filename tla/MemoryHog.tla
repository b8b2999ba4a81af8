----------------------------- MODULE MemoryHog -----------------------------
(***************************************************************************)
(* Another process on the same GPU: the loop of gpu_memory_hog.cpp.  It    *)
(* takes up to Chunks blocks of device memory, one cudaMalloc at a time,   *)
(* gives up a round at the first failure, holds what it got, frees it      *)
(* block by block and sleeps; after its deadline it exits at the head of   *)
(* the loop.  The free memory is the device's, an argument here.           *)
(***************************************************************************)
EXTENDS Integers

CONSTANTS
  ChunkBytes,   \* --chunk-mb
  Chunks        \* --chunks: blocks held at once

ASSUME HogAssumption == ChunkBytes \in Nat \ {0} /\ Chunks \in Nat

VARIABLES
  hogPc,        \* "allocate", "hold", "free", "sleep" or "exited"
  hogBlocks     \* blocks it holds

hogVars == <<hogPc, hogBlocks>>

HogBytes == hogBlocks * ChunkBytes

HogInit == hogPc = "allocate" /\ hogBlocks = 0

HogAllocate(free) ==
  /\ hogPc = "allocate"
  /\ hogBlocks < Chunks
  /\ IF ChunkBytes =< free
     THEN hogBlocks' = hogBlocks + 1 /\ UNCHANGED hogPc
     ELSE hogPc' = "hold" /\ UNCHANGED hogBlocks

HogHold ==
  /\ hogPc = "allocate"
  /\ hogBlocks = Chunks
  /\ hogPc' = "hold"
  /\ UNCHANGED hogBlocks

HogFree ==
  /\ hogPc \in {"hold", "free"}
  /\ hogBlocks > 0
  /\ hogPc' = "free"
  /\ hogBlocks' = hogBlocks - 1

HogSleep ==
  /\ hogPc \in {"hold", "free"}
  /\ hogBlocks = 0
  /\ hogPc' = "sleep"
  /\ UNCHANGED hogBlocks

\* The deadline is read at the head of the loop.
HogAwake ==
  /\ hogPc = "sleep"
  /\ hogPc' \in {"allocate", "exited"}
  /\ UNCHANGED hogBlocks

HogNext(free) == HogAllocate(free) \/ HogHold \/ HogFree \/ HogSleep \/ HogAwake
=============================================================================
