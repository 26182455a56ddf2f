---------------------------- MODULE CudaKernels ----------------------------
(***************************************************************************)
(* The device side of backends/cuda/src/cuda_backend.cu: the four kernels, *)
(* as the threads of a block run them, and the stream that runs the        *)
(* launches one after the other.                                           *)
(*                                                                         *)
(* A launch has a kernel, rows, a width and the buffer it writes. Blocks   *)
(* share nothing, so one block runs at a time, in any order. The threads   *)
(* of a block interleave; a step of a thread is what it does up to its     *)
(* next access to shared memory that another thread may write, or to its   *)
(* next barrier. Shared memory keeps what the block before left in it.     *)
(***************************************************************************)
EXTENDS TensorMeaning

CONSTANTS
  BlockSize   \* kCudaKernelBlockSize, a power of two

ASSUME BlockSizeAssumption == BlockSize \in {1, 2, 4, 8, 16, 32, 64, 128, 256}

VARIABLES
  stream,    \* the launches that have not finished, the running one first
  blocks,    \* the blocks of the running launch that have not finished
  block,     \* the block that runs, or NoBlock
  threads,   \* its threads
  shared,    \* its shared memory
  output     \* the output buffers

deviceVars == << stream, blocks, block, threads, shared, output >>

Lanes == 0 .. BlockSize - 1

NoBlock == -1

Launch == stream[1]

RowKernels == {"rms_norm", "softmax"}

\* Mutated form of GridOf: the grid is rounded down.
GridRoundedDown(launch) ==
  IF launch.kernel \in RowKernels THEN launch.rows
  ELSE (launch.rows * launch.width) \div BlockSize

\* Ceiling division for a thread per element, a block per row otherwise.
GridOf(launch) ==
  IF launch.kernel \in RowKernels THEN launch.rows
  ELSE (launch.rows * launch.width + BlockSize - 1) \div BlockSize

----------------------------------------------------------------------------
(* A block.                                                                *)

Nothing == Element("none", << >>)

Thread(at) == [ at |-> at, stride |-> 0, value |-> Nothing, maximum |-> Nothing ]

StartBlock ==
  /\ stream # << >> /\ block = NoBlock /\ blocks # {}
  /\ block' \in blocks
  /\ threads' = [ lane \in Lanes |->
                    Thread(IF Launch.kernel \in RowKernels THEN "load" ELSE "map") ]
  /\ UNCHANGED << stream, blocks, shared, output >>

EndBlock ==
  /\ block # NoBlock /\ \A lane \in Lanes : threads[lane].at = "done"
  /\ block' = NoBlock
  /\ blocks' = blocks \ {block}
  /\ stream' = IF blocks' = {} THEN Tail(stream) ELSE stream
  /\ UNCHANGED << threads, shared, output >>

\* The next launch begins when the one before it has ended.
StartLaunch ==
  /\ stream # << >> /\ block = NoBlock /\ blocks = {}
  /\ blocks' = 0 .. GridOf(Launch) - 1
  /\ UNCHANGED << stream, block, threads, shared, output >>

----------------------------------------------------------------------------
(* A thread of an elementwise kernel.                                      *)

Map(lane) ==
  LET index == block * BlockSize + lane
      bias  == IF Launch.kernel = "fused_bias_gelu" THEN << << 2, index % Launch.width >> >>
               ELSE << >>
  IN  /\ threads[lane].at = "map"
      /\ threads' = [ threads EXCEPT ![lane].at = "done" ]
      /\ output' = IF index < Launch.rows * Launch.width
                   THEN [ output EXCEPT ![Launch.buffer][index] = Element("gelu", << << 1, index >> >> \o bias) ]
                   ELSE output
      /\ UNCHANGED << stream, blocks, block, shared >>

----------------------------------------------------------------------------
(* A thread of a row kernel: rms_norm_kernel sums squares, row_softmax_    *)
(* kernel takes the maximum, then sums exponentials.                       *)

\* The elements of the row this thread has, BlockSize apart.
Strided(lane) ==
  [ n \in 1 .. (Launch.width - lane + BlockSize - 1) \div BlockSize |->
      block * Launch.width + lane + (n - 1) * BlockSize ]

ReducesMaximum(lane) == Launch.kernel = "softmax" /\ threads[lane].maximum = Nothing

\* A local reduction, then the first line of block_reduce_max or
\* block_reduce_sum and its barrier. Nothing orders this write after the other
\* threads' last read of the reduction before it.
Publish(lane) ==
  LET own == Strided(lane)
      reads == [ n \in DOMAIN own |-> << 1, own[n] >> ]
  IN  /\ threads[lane].at = "load"
      /\ shared' = [ shared EXCEPT ![lane] =
                       Element(IF ReducesMaximum(lane) THEN "max" ELSE "sum", reads) ]
      /\ threads' = [ threads EXCEPT ![lane].at = "barrier", ![lane].stride = BlockSize \div 2 ]
      /\ UNCHANGED << stream, blocks, block, output >>

\* __syncthreads: every thread of the block has arrived.
Release ==
  /\ block # NoBlock /\ \A lane \in Lanes : threads[lane].at = "barrier"
  /\ threads' = [ lane \in Lanes |->
       [ threads[lane] EXCEPT !.at = IF threads[lane].stride > 0 THEN "fold" ELSE "collect" ] ]
  /\ UNCHANGED << stream, blocks, block, shared, output >>

\* Mutated form of Fold: the barrier is inside the condition.
FoldThenBarrierIfActive(lane) ==
  LET stride == threads[lane].stride
      both   == shared[lane].reads \o shared[lane + stride].reads
      ahead  == IF stride = 1 THEN "collect" ELSE "fold"
  IN  /\ threads[lane].at = "fold"
      /\ shared' = IF lane < stride THEN [ shared EXCEPT ![lane].reads = both ] ELSE shared
      /\ threads' = [ threads EXCEPT ![lane].stride = stride \div 2,
                        ![lane].at = IF lane < stride THEN "barrier" ELSE ahead ]
      /\ UNCHANGED << stream, blocks, block, output >>

\* A turn of the tree reduction. The half that is read is not written.
Fold(lane) ==
  LET stride == threads[lane].stride
      both   == shared[lane].reads \o shared[lane + stride].reads
  IN  /\ threads[lane].at = "fold"
      /\ shared' = IF lane < stride THEN [ shared EXCEPT ![lane].reads = both ] ELSE shared
      /\ threads' = [ threads EXCEPT ![lane].at = "barrier", ![lane].stride = stride \div 2 ]
      /\ UNCHANGED << stream, blocks, block, output >>

\* return shared[0], as the maximum.
CollectMaximum(lane) ==
  /\ threads[lane].at = "collect" /\ ReducesMaximum(lane)
  /\ threads' = [ threads EXCEPT ![lane].at = "load", ![lane].maximum = shared[0] ]
  /\ UNCHANGED << stream, blocks, block, shared, output >>

\* return shared[0], as the sum, and the thread's elements of the output. An
\* exponential is of the difference with the maximum this thread has.
Normalise(lane) ==
  LET f == IF Launch.kernel = "softmax" /\ threads[lane].maximum.f # "max" THEN "mixed"
           ELSE Launch.kernel
      Weight(index) == IF Launch.kernel = "rms_norm" THEN << << 2, index % Launch.width >> >>
                       ELSE << >>
      own == Elements(Strided(lane))
  IN  /\ threads[lane].at = "collect" /\ ~ReducesMaximum(lane)
      /\ threads' = [ threads EXCEPT ![lane].at = "done", ![lane].value = shared[0] ]
      /\ output' = [ output EXCEPT ![Launch.buffer] = [ index \in DOMAIN @ |->
           IF index \in own
           THEN Element(f, shared[0].reads \o << << 1, index >> >> \o Weight(index))
           ELSE @[index] ] ]
      /\ UNCHANGED << stream, blocks, block, shared >>

ThreadStep(lane) ==
  /\ block # NoBlock
  /\ \/ Map(lane) \/ Publish(lane) \/ Fold(lane) \/ CollectMaximum(lane) \/ Normalise(lane)

DeviceNext ==
  \/ StartLaunch \/ StartBlock \/ EndBlock \/ Release
  \/ \E lane \in Lanes : ThreadStep(lane)

DeviceInit ==
  /\ stream = << >> /\ blocks = {} /\ block = NoBlock
  /\ threads = [ lane \in Lanes |-> Thread("done") ]
  /\ shared = [ lane \in Lanes |-> Nothing ]
  /\ output = << >>

\* The device runs what it has been given, and gives each thread of a block its
\* turn.
DeviceFairness ==
  /\ WF_deviceVars(StartLaunch \/ StartBlock \/ EndBlock \/ Release)
  /\ \A lane \in Lanes : WF_deviceVars(ThreadStep(lane))

----------------------------------------------------------------------------
(* Property.                                                               *)

\* Every thread of a Softmax row that has its result has subtracted the maximum
\* of the whole row (docs/architecture/cuda_backend.md: "Subtracting the row
\* maximum is part of the kernel").
SoftmaxSubtractsRowMaximum ==
  block # NoBlock /\ Launch.kernel = "softmax" =>
    \A lane \in Lanes : threads[lane].at = "done" =>
      /\ threads[lane].maximum.f = "max"
      /\ Elements(threads[lane].maximum.reads) =
           { << 1, block * Launch.width + column >> : column \in 0 .. Launch.width - 1 }
=============================================================================
