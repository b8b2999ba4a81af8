---------------------------- MODULE CudaStreams ----------------------------
(***************************************************************************)
(* The part of the CUDA runtime that src/ relies on, as its calls assume   *)
(* it to behave (external code): streams are FIFO queues of asynchronous   *)
(* items that the device executes concurrently with each other and with    *)
(* the host, and events order them.  Memory is abstracted to a label: the  *)
(* number of the round whose data a location holds, 0 when it holds none   *)
(* (never written, half written, or computed from mixed inputs).           *)
(* Pipeline.tla is the host side.                                          *)
(***************************************************************************)
EXTENDS Integers, Sequences

CONSTANTS
  Streams,     \* cudaStream_t values; "null" is stream 0
  Events,      \* cudaEvent_t values
  Locations    \* host and device buffers

VARIABLES
  pending,     \* pending[s]: the items issued to s and not finished, oldest first
  running,     \* running[s]: the oldest item of s is being executed
  recorded,    \* recorded[e]: how many times e has been recorded by the host
  fired,       \* fired[e]: the latest record of e that the device has reached
  holds        \* holds[l]: the label of the data in l

deviceVars == <<pending, running, recorded, fired, holds>>

DeviceInit ==
  /\ pending = [s \in Streams |-> <<>>]
  /\ running = [s \in Streams |-> FALSE]
  /\ recorded = [e \in Events |-> 0]
  /\ fired = [e \in Events |-> 0]
  /\ holds = [l \in Locations |-> 0]

\* Every item carries the number of the host's call that issued it (a ghost:
\* the device does not look at it).

\* cudaMemcpyAsync, a kernel launch, cublasSgemmStridedBatched: what the item
\* reads and what it overwrites.
Launch(s, reads, writes, call) ==
  /\ pending' = [pending EXCEPT ![s] =
       Append(@, [kind |-> "work", reads |-> reads, writes |-> writes, at |-> call])]
  /\ UNCHANGED <<running, recorded, fired, holds>>

\* cudaEventRecord: the event now stands for this point of the stream.
RecordEvent(s, e, call) ==
  /\ recorded' = [recorded EXCEPT ![e] = @ + 1]
  /\ pending' = [pending EXCEPT ![s] =
       Append(@, [kind |-> "record", event |-> e, nth |-> recorded[e] + 1, at |-> call])]
  /\ UNCHANGED <<running, fired, holds>>

\* cudaStreamWaitEvent: captures the latest record at the time of the call.
WaitEvent(s, e, call) ==
  /\ pending' = [pending EXCEPT ![s] =
       Append(@, [kind |-> "wait", event |-> e, nth |-> recorded[e], at |-> call])]
  /\ UNCHANGED <<running, recorded, fired, holds>>

\* What cudaEventSynchronize and cudaEventElapsedTime ask of an event.
Complete(e) == fired[e] = recorded[e]

\* What cudaDeviceSynchronize waits for.
DeviceQuiet == \A s \in Streams : pending[s] = <<>>

Oldest(s) == Head(pending[s])

HasOldest(s, kind) == pending[s] # <<>> /\ Oldest(s).kind = kind

InFlight == {s \in Streams : running[s]}

\* The label of what is computed from the locations in reads.
Combined(reads) ==
  IF \E label \in {holds[l] : l \in reads} : \A l \in reads : holds[l] = label
  THEN holds[CHOOSE l \in reads : TRUE]
  ELSE 0

BeginWork(s) ==
  /\ HasOldest(s, "work")
  /\ ~running[s]
  /\ running' = [running EXCEPT ![s] = TRUE]
  /\ holds' = [holds EXCEPT ![Oldest(s).writes] = 0]
  /\ UNCHANGED <<pending, recorded, fired>>

FinishWork(s) ==
  /\ running[s]
  /\ running' = [running EXCEPT ![s] = FALSE]
  /\ holds' = [holds EXCEPT ![Oldest(s).writes] = Combined(Oldest(s).reads)]
  /\ pending' = [pending EXCEPT ![s] = Tail(@)]
  /\ UNCHANGED <<recorded, fired>>

FireEvent(s) ==
  /\ HasOldest(s, "record")
  /\ fired' = [fired EXCEPT ![Oldest(s).event] = Oldest(s).nth]
  /\ pending' = [pending EXCEPT ![s] = Tail(@)]
  /\ UNCHANGED <<running, recorded, holds>>

PassWait(s) ==
  /\ HasOldest(s, "wait")
  /\ fired[Oldest(s).event] >= Oldest(s).nth
  /\ pending' = [pending EXCEPT ![s] = Tail(@)]
  /\ UNCHANGED <<running, recorded, fired, holds>>

StreamStep(s) == BeginWork(s) \/ FinishWork(s) \/ FireEvent(s) \/ PassWait(s)
=============================================================================
