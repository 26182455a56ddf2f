# ForgeIR in TLA+

A verification project for ForgeIR (C++ graph compiler and CPU runtime, Python
workflow around it). The modules model the program as it is written; the runs
check them with TLC on small instances; the theorems are proved with TLAPS for
every value of the constants.

## The system

| Component | State it keeps | Operations | Talks to |
|---|---|---|---|
| Graph loader (`cpp/src/ir/graph_loader.cpp`) | none | parse and check a document, order its operations | everything starts here |
| Graph IR (`cpp/src/ir/*.cpp`) | one graph | accessors, size arithmetic | passes, scheduler, planner, session |
| Semantic verifier, pass manager (`cpp/src/passes/`) | diagnostics, the graph being rewritten | verify, run passes with a verification on both sides | passes |
| Optimizer passes (`cpp/src/passes/*_pass.cpp`) | the graph | canonicalise, fold, remove dead code, remove identities, fuse | graph |
| Execution scheduler (`cpp/src/runtime/execution_schedule.cpp`) | in-degrees, ready set, schedule | Kahn's algorithm | planner |
| Memory planner (`cpp/src/runtime/memory_planner.cpp`) | lifetimes, active allocations, free list, arena end | plan, verify a plan | scheduler, session |
| Runtime session (`cpp/src/runtime/runtime_session.cpp`) | graph, plan, arena, trace, copies, `executed_` | load, execute, get_outputs, get_value, trace | loader, planner, backend |
| CPU backend (`cpp/src/runtime/cpu_backend.cpp`) | none | one kernel per operation type | session |
| CUDA backend (`backends/cuda/src/cuda_backend.cu`) | device buffers, the runtime's last error | profile a kernel, execute an operation | device |
| StableHLO bridge (`cpp/src/mlir/stablehlo_lowering.cpp`) | text, temporaries | lower a graph, write and validate a module | native CLI, external tool |
| Native CLI (`cpp/src/core/cli_main.cpp`) | files | optimize, verify, plan-memory, emit-mlir | loader, passes, planner, bridge |
| Runtime benchmark (`cpp/src/runtime/benchmark.cpp`) | samples | warm up, measure | session |
| Benchmark runner (`python/forgeir/benchmark`) | output directory | claim it, optimize, measure, render, list | native CLI, session, file system |
| Pipeline runner (`python/forgeir/pipeline/runner.py`) | run directory, ledger, stage results | nine stages, persist, rerun, force | all of the above, file system |
| Python CLI, bindings, FX exporter, reference model | little or none | conversion, presentation | |

What is hard here:

* **The planner and the session meet only through numbers.** The planner turns
  graph positions into lifetimes, lifetimes into byte ranges; the session
  writes tensors into these ranges following the schedule. Nothing at run time
  notices that two live tensors share bytes. Kernels write in place, so a result
  that overlaps an operand is garbled while it is computed.
* **Sessions are reused.** One arena, one set of copies and one trace serve
  call after call, also after a call that failed in the middle.
* **Three orders of operations** are computed by three versions of Kahn's
  algorithm (loader, optimizer, scheduler) that differ in their edges.
* **Passes rewrite one graph in place**, with maps taken before the loop they
  are used in, and each relies on the order the pass before it has left.
* **Sums near the limit of `uint64_t`.**
* **Files written one after another** by the pipeline and the native CLI, with
  failures and crashes in between.

* **An operation is computed in three ways**, by the CPU kernels, the CUDA
  kernels and the StableHLO text, each with its own index arithmetic and its own
  idea of what it accepts. Square shapes hide most mistakes.
* **Threads of a CUDA block** share memory between two reductions; the host goes
  on while kernels run, and an error of one call is found by another.

The host code starts no threads: the bindings keep the interpreter lock during
every call. Interleavings are between callers and calls, between the host and
the threads of the device, and between processes that share a directory.

What makes each component correct: the *scheduler* gives the least topological
order and refuses cycles only; the *planner* never lets two live values share a
byte, loses no byte and refuses nothing without reason; the *session* returns
what the graph means for this call's inputs, or nothing; the *optimizer* keeps
the meaning of the outputs and the order of side effects; the *pipeline* never
leaves a run directory that validates but does not tell what happened in it;
every *backend*, and the *bridge*, makes each element of a result of the elements
it means; a *command* that reports success has left whole files of its own; a
*benchmark* is of one run, and its samples are of the calls they are listed for.

## Modules

| Module | Models | Notes |
|---|---|---|
| `ForgeGraph` | graph records, data and side-effect dependencies | shared vocabulary |
| `ExecutionSchedule` | `build_execution_schedule` | one action per loop iteration |
| `MemoryPlanner` | `plan_memory` and its helpers | one action per phase, one per loop iteration |
| `MemoryPlannerProofs` | theorems about `MemoryPlanner` | owners of bytes; bytes covered, alignment, totals |
| `GraphLoader` | `load_from_json` after parsing | operators, no state |
| `RuntimeSession` | `RuntimeSession::load/execute/get_*` | arena byte by byte, contents as terms |
| `SessionContract` | what a session promises | abstract, no arena and no schedule |
| `Inference` | `RuntimeSession::load` and calls | composes loader, scheduler, planner, session |
| `InferenceProofs` | theorems about `Inference` | uses the proofs of scheduler and planner as instances |
| `SharedLemmas` | lemmas about `ForgeGraph` and `GraphLoader` | what a loaded graph has; what inputs reach in rounds; least and greatest elements of finite sets of numbers; functions as sequences |
| `ExecutionScheduleProofs` | theorems about `ExecutionSchedule` | |
| `SemanticVerifier` | shape and dtype rules, `GraphVerifierPass` | operators, no state |
| `Optimizer` | `optimize_graph`, `PassManager`, the seven passes, reload | a pass is one action; uses `GraphLoader` and `SemanticVerifier` |
| `OptimizerProofs` | theorems about `Optimizer` | what each pass may do to a graph |
| `PipelineRunner` | `PipelineRunner` of the Python workflow | several processes, one run directory |
| `PipelineRunnerProofs`, `BackendsProofs` | theorems about `PipelineRunner` and `Backends` | |
| `TensorMeaning` | nothing: what the operations mean | specification side: which elements an element is made of, and in which order |
| `CpuKernels` | `CpuBackend::execute` and its kernels | index arithmetic; one action per tile |
| `CudaKernels` | the four kernels, reductions, barriers | one action per thread and step |
| `CudaBackend` | `run_cuda_host_profile`, `CudaBackend::execute` | one action per CUDA call that matters |
| `Backends` | `BackendRegistry::create` | composes the two |
| `StablehloLowering` | the lowering | one action per operation |
| `StablehloMeaning` | nothing: what StableHLO instructions mean | specification side: types and element dependencies |
| `GraphDocument` | `load_from_json` before the graph, writer, digests | uses `GraphLoader` |
| `RuntimeBenchmark` | `benchmark_runtime` | extends `RuntimeSession` |
| `NativeCli` | the commands that write files | several processes, one file system |
| `BenchmarkRunner` | `run_cpu_benchmark` | extends `NativeCli` |
| `ArtifactsProofs` | theorems about `RuntimeBenchmark`, `NativeCli`, `BenchmarkRunner`, `GraphDocument` | steps of commands one by one; who owns the directory; graphs up to the order of a file |
| `MC*` | instances for TLC | inputs as small sets |

### ForgeGraph and ExecutionSchedule

An operation has an id, and ids are numbers: the code compares fixed-width ids
as strings, so only their rank matters. `ExecutionSchedule` has `indegree`,
`ready` and `order` for `indegrees`, `ready` and `schedule.operations`.
`StartOrdering` stands for everything before the loop, `ScheduleNext` for one
iteration (with the code's underflow check), `Finish` for the check after it.

### MemoryPlanner

`PlanMemory` checks the options, `RefuseValue` and `BuildLifetimes` are the loop
over the values, `SumNaive` the naive total, `AppendProtected`, `ReuseBlock` and
`AppendReusable` one iteration of the allocation loop each, `MeasurePeak` and
`VerifyPlan` the end. The free list is a set of blocks: the code sorts it before
it looks for neighbours and chooses by size and offset, so its order is not
observable. Totals are cardinalities of sets of bytes, which makes the sum a
definition a proof can use. Dimensions appear only as a byte size, 0 for a
dimension that is zero or dynamic. Arithmetic is checked against `MaxU64`, the
largest `uint64_t`.

### RuntimeSession, SessionContract, Inference

A tensor's contents are the term that computed them. Every byte of the arena
remembers which byte of which term it holds; reading a tensor any byte of which
is foreign gives `Garbled`. `BeginKernel` garbles the bytes of the result,
`EndKernel` reads the operands and writes the result: a kernel that works in
place may have destroyed any operand it shares bytes with. An execute call is
`Execute`, then one `Bind*` or `BeginKernel`/`EndKernel` per scheduled operation,
then `FinishExecute`; `Fail` is every early return, `KernelFails` an error
status of the backend.

`Inference` runs the components one after the other as `RuntimeSession::load`
does and hands over the state: the loader's graph to the scheduler, schedule and
graph to the planner (`Request`), plan and graph to the session. Its assumptions say
what a document is when it comes to the structural checks (`IsDocument`: ids differ,
values have a kind), that sources have no operands and every value a size
(`IsExecutable`: the loader's arities, and dimensions that are not zero), and that the
alignment is a power of two.

`SessionContract` knows a graph, a call and a set of results. A call gives up
the results of the call before; it either succeeds, with exactly the requested
values and the declared outputs, each equal to its meaning by recursion over the
graph, or gives nothing. `Inference` implements it under the refinement mapping
`results <- what get_value returns`.

### SemanticVerifier and Optimizer

`graph` is the graph being rewritten, `original` the one the optimization was
given (the code keeps no such copy but for the DOT files; the properties need
it), `passes` and `stage` are where `PassManager::run` is. A pass is one action,
since nothing else can happen while it runs and only the graph survives it. The
loops of folding, of the two eliminations and of the fusion are alike: one iteration
per operation in storage order, which may rewrite (`Rewrites`, `RewrittenAt`) and note
what is to go (`RemovedAt`), and at the end an erasure. `Rewritten` is the graph after
each iteration, so that a pass sees what its own earlier iterations have rewritten
and, where the code keeps a map from before the loop, the graph from before the loop
(`Fuses` takes both); `RunLoop` is the whole pass. Failures leave the graph as it is
at that moment.

`GraphsAssumption` says what graphs come in: operations with different ids and one of
the fourteen types, reshapes, transposes and softmaxes with one operand, constants with
none, whatever computes with at least one and, in a graph a caller
has built, one result per operation that no other one has. The loader refuses a
document without it (`expected_input_count`, the duplicate ids, the producers); for a
caller's graph it is a precondition of the passes and the verifier, which take the first
operand and the first result unasked and keep operations in maps by id and by result.
Values have a shape and a dtype, shapes and permutations are sequences, as their C++
types say, and dimensions positive, as `Shape::create` demands (`HasShapes`).
`LevelsAssumption` names the three levels there are.

Attributes are functions from the names that are present. `side_effect` is a
field of its own, as in `ForgeGraph`; an explicit `false` is the attribute
`no_side_effect`. Values of constants and results of folding are terms
(`Tensor`), in which sums and products of literals are computed; everything else
a float can do is uninterpreted. `Denotation` is what the graph means: it is
stated independently of the passes, so that a pass cannot be wrong in the same
way as its property.

After an optimization the graph may be optimized again as it is in memory, as
the tests do, or be written and loaded first, as the command line does.

### PipelineRunner

`files` is the run directory. What a file contains is one of good (as the stage
writes it), torn (half written), changed (edited since) or, for the three files
of `_persist`, the story it tells; a digest is the content it was taken of.
`runner[p]` is the `PipelineRunner` object of process `p` and where it is in
`run`. Every file operation is an action: creating and removing the directory,
each removed file, each of the three writes of `_persist`, and each may fail or
be the last thing the process does (`Dies`). `StageReturns` and `StageRaises` are a
stage of the nine; the files of one that raises are recorded as partial.
`Edit` is somebody outside who changes or deletes a file between two stages or
after the run; edits during the few reads of a validation are not modelled.

The directory is tested twice. `StartRun` gets past the first test, which looks at
`--force`; `PrepareDirectory` is the second, which does not, and what it finds is
removed. Between the two anything may happen, so a run may remove the directory
of another that is going on, with `--force` or without (see *Deletion* under the
findings). The other run's next write makes the directory again, or it fails.
`shared` is a history variable: the directory was removed from under a process
that works in it, and since then no process has made it while nobody else was
there. Nothing keeps such a directory in order, and `ValidRunIsHonest`,
`StagesReadGoodFiles` and `ReturnedRunIsPersisted` are about the others; `OneOwner`
says that there is no other way for two processes to work in one directory, and
a run that later has the directory to itself clears `shared` again. Two processes
that share a directory take turns step by step here, where a step is a write of a
file, a check of the ledger, or a stage.

A stage whose persist fails is listed twice, as succeeded and then as failed; a
stage that rejects and whose persist fails is listed as failed twice, each time with all
later ones as skipped. That is what the handler does, the bound in `TypeOK` says so,
and `ValidRunIsHonest` allows for it.

### TensorMeaning, CpuKernels

A number is a term: a function's name and the elements it read, in the order of
the reads, each an operand and a position. `TensorMeaning` says for each
operation, by coordinates, which those are. `CpuKernels` computes them as the
code does, by positions, strides, offsets, modulo and tiles. That two terms are
equal is that the same elements are combined in the same order, also with a tile
that ends early, a fused activation or a broadcast batch. `cpu` is the call and
where it stands, `product` the output, `at` the origin of the tile.
`VerifiedIsNotMalformed` sets the checks of the kernels against
`SemanticVerifier`: what the verifier accepts may be unsupported, but only for
reasons it does not know (an epsilon that underflows as a float, a causal mask
whose diagonal is not an integer) is it an error.

### CudaKernels, CudaBackend, Backends

`stream` is the default stream; `blocks` and `block` are those of the launch still
to run and the one that runs, `threads` and `shared` what its threads and its
shared memory hold. Blocks run one after another, since they share nothing. A
thread publishes its part, meets the others at a barrier (`Release`), folds with
half the stride, and so on; how far threads are apart otherwise is left open.
`host` walks through a call; between a launch and the next synchronisation the
device runs beside it. `CudaCallFails` is any CUDA call that fails there, those
made among the checks included (`CallsCuda`), and `lastError` what the runtime then
remembers: `cudaPeekAtLastError` does not clear it. The deleters of a profile's
buffers and events call `std::terminate` when theirs fails (`CleanupFails`): the
process is gone, as docs/architecture/cuda_backend.md says, and the call never
returns.

### StablehloLowering, StablehloMeaning

An `emit_...` operator takes the text so far and returns it with its instructions.
`StablehloMeaning` gives each instruction its typing rule and the elements its
result is made of, follows them through the text to the arguments, and compares
with `TensorMeaning`. It tells elements apart, not functions of them: that the
text has the exact GELU where the graph has another one is not seen.

### GraphDocument

A document is a function from the fields that are present; an id is its rank,
0 a malformed one. Each operator is one of the loader's loops, with the status
it is refused with, in the order of the checks. A digest is the content it was
taken of. `WriteGraph` is what `optimize` writes when it finds nothing to do,
`Relist` somebody who lists operations in another order.

### NativeCli, BenchmarkRunner

A command is the sequence of its file operations. A file knows which process
wrote it and whether all of it is there. Opening truncates; a write may fail and
be noticed, may be noticed only at the end (`CheckWrites`), or may be lost when a
stream is destroyed, where the code does not look (`flushChecked`). Any
process may die between two steps. `BenchmarkRunner` adds the directory: looked
for, removed file by file, made, and hashed into a manifest at the end; it waits
for the native command, whose steps are its own.

Nothing keeps two native commands from being given the same outputs, and the
later one then overwrites what the earlier one has reported: `SuccessIsComplete` is
about a process whose files no other one writes (`Alone`). Native commands write
elsewhere than into the directory of the benchmarks (`ScenariosAssumption`); every
number of benchmarks may be given that directory.

### RuntimeBenchmark

`bench` is the call of `benchmark_runtime` with its loops, over the session of
`RuntimeSession` itself, arena and all. A time is the number of the call it was
taken in, so that samples tell which call they are from. `ExecuteAlone` is an
owner who uses the session in between. The session is one that `load` has opened
(`IsPlanned`): its declared outputs are results of scheduled operations, as
`TraceAccountsForValues` says of `Inference`.

## Runs

| Run | Properties | Instance |
|---|---|---|
| `planner` | `TypeOK`, `ArenaPartitioned`, `NoLiveOverlap`, `PlacedInArena`, `SelfChecksPass`, `GrowsOnlyWithoutGap` | all chains of five and forks of four arena values, two or three sizes; all pairs of values of every kind and lifetime, with sizes up to the largest integer, 63 |
| `scheduler` | `TypeOK`, `CountsAreExact`, `DependenciesFirst`, `RejectsOnlyCycles`, `LeastTopologicalOrder` | every relation on three operations, up to three edges on four, several ids and side effects, malformed graphs |
| `inference` | `NeededValuesIntact`, `TraceAccountsForValues`, `AcceptedGraphsArePlanned`, `ServesTheGraph`, `OnlyKernelsFailCompleteCalls`, `CallsReturn` | some 440 documents of six operations, eight kinds of calls, two calls |
| `side_effect_order` | `SideEffectsInDocumentOrder` (violated) | the same |
| `pipeline` | `TypeOK`, `ValidRunIsHonest`, `StagesReadGoodFiles`, `OneOwner`, `ReturnedRunIsPersisted` | two calls of run by two processes, with `--force` or without; three stages, one edit |
| `pipeline_force` | `OnlyForceDeletes` (violated) | the same |
| `optimizer` | `MeaningKept`, `SideEffectsKept`, `StoredTopologically`, `AcceptedGraphsReload`, `OnlySideEffectsUnread`, `SecondPassChangesNothing`, `OnlyWideBiasBreaksGraphs` | some seventy graphs of five to nine operations, two optimizations of any level |
| `optimizer_fusion` | `PassesKeepGraphsValid` (violated) | two of them |
| `optimizer_folding` | `OnlyExactGeluFolds` (violated) | one with another GELU |
| `backends` | `ComputesTheOperation`, `VerifiedIsNotMalformed`, `LoweringKeepsDependencies`, `SuccessReturnsTheResult`, `NoSuccessAfterFailure`, `CudaCallsReturn` | 102 CPU requests, 19 CUDA requests, two of them in a row, 29 graphs |
| `cuda_softmax` | `SoftmaxSubtractsRowMaximum` (violated) | one row of three by four threads |
| `artifacts` | `SuccessIsComplete`, `ManifestIsOfOneRun`, `SamplesLineUp`, `LoadedGraphIsCanonical` | two processes and eight pairs of commands, two faults; four calls of a session; 76 documents, three edits |

Bounds. Five arena values are enough for a block to be split, its rest reused,
neighbours merged on both sides and an output placed in between; equal and
unequal sizes give ties and remainders. With `MaxU64 = 63` every checked addition
both fits and overflows. Three operations give every cycle and diamond, four give
two independent chains with a side effect on each. Two calls show whatever one
call leaves behind for the next; a third adds nothing the session keeps.
Two runs of the pipeline are a run and what a later or a competing one makes of
its directory; three stages are one before, at and after the place where
something goes wrong. The graphs for the optimizer are built around the guards
of the passes: most conditions of a pass are the only one that fails in some graph,
square shapes keep the verifier from noticing a wrong rewrite, ids run against
the order of the data, and one pass makes work for the next. `MaxI64 = 7` lets a
product fit, and not fit. With `Tile = 2` and `BlockSize = 4` extents of 1, 2, 3 and
5 have tiles and strides that are whole, cut off and missing; the real ones are 32
and 256, and nothing but their size enters. `MinFloat = 2` and `MaxFloat = 3` put an
epsilon below, in and above the range of a float. Graphs for the bridge have
dimensions of two wherever they can, so that types do not tell axes apart. Two CUDA
calls are one that fails and one that finds its error. Two processes are one that
writes what the other reads or writes too. Two faults are a failed write and a
death. Benchmark runs that share a directory after one has removed it under
another (`mixed`) are not followed further: `--force` promises nothing then.
`MaxU64 = 64` and `MaxI64 = 8` are exceeded by a size, an element count, and a
dimension each. In `inference`, `MaxU64 = 99` is odd as the real one is, and two
documents exceed it: one with an aligned size, one with the sum of its sizes.
`CHECK_DEADLOCK FALSE` is stated where a call ends or the bound on calls, starts or
optimizations is used up: the program may stop there.

Fairness. `Inference` assumes weak fairness of the steps of load and of the
loop of execute: both run to completion in the thread that called them. It
assumes nothing of the owner's calls and nothing of failing kernels.
`Backends` assumes
that the device runs what it has been given, that every thread of a block that
can go on does, and that the host thread takes its next step; failures
(`HostFails`) are outside the fairness, so that `CudaCallsReturn` holds although no
CUDA call has to fail, and calls are not forced either. What it says is that a call
returns, or, a profile, takes the process with it in a deleter. The pipeline, the
optimizer, the commands and the benchmark have no
liveness property: their loops are bounded by their input.

Each property has a mutant, a definition with a plausible bug named "Mutated
form of ..." next to the one it replaces; TLC finds the property violated then.

### What the violations show

*Side effects* (`side_effect_order`). The documentation says that side effects
keep their relative graph order, and that graph order is the order of the
document's arrays. The loader sorts the operations again by data dependencies and
ids without regard to side effects, and the scheduler preserves the loader's
order. Two independent side effects whose ids do not follow the document are
executed the other way round. The same happens to an optimized graph, whose
canonical order does respect the side effects, as soon as it is written and
loaded again; `SideEffectsKept` is therefore stated up to the reload.

*Fusion* (`optimizer_fusion`). `FuseBiasGELUPass` compares the bias with the
shape of the sum. If the projection has width one, the sum broadcasts to the
width of the bias and the comparison succeeds; the fused projection then has a
bias wider than itself, the verification after the pass refuses the graph, and
the optimization of a graph without a fault fails. The documentation calls the
fusion safe. That this is the only way in which a pass breaks a graph is
`OnlyWideBiasBreaksGraphs`, which holds, and is proved. The width of a projection is that
of its weight: a product of a matrix and a batch is as wide as the last dimension.

*Folding* (`optimizer_folding`). Only the exact GELU is said to be folded. The
pass folds every GELU of a scalar constant, to the value of the exact one.
`MeaningKept` is checked on graphs without the approximation.

*CUDA softmax* (`cuda_softmax`). The row maximum is read by every thread from
`shared[0]` at the end of `block_reduce_max`; `block_reduce_sum` starts with every
thread writing its own partial sum to the same memory, with no barrier in
between. A thread that is ahead overwrites `shared[0]` before one that is behind
has read it, and that one subtracts a sum and not the maximum. A block of 256
threads is eight warps that do not run in step. RMSNorm has one reduction only and
is not affected; `SuccessReturnsTheResult` is stated up to which value a softmax
has subtracted.

*Deletion* (`pipeline_force`). The documentation says that only an explicit `--force`
permits deletion of a run directory. `_prepare_run_directory` asks for `--force` where
it first tests whether the directory exists; when the directory appears after that, the
second test sees it, and it is removed without `--force`, although another run is going
on in it. Both then believe that the directory is theirs. `OneOwner` holds up to such a
removal: two runs that both find no directory and both come to `mkdir` do not both
succeed.

## Proofs

`MemoryPlannerProofs` proves, for any set of requests that satisfy `IsRequest`
and any `MaxU64` in `Nat`:

* `Invariance`: `Spec => []IInv`;
* `TypeCorrect`: `Spec => []TypeOK`;
* `NoLiveOverlapHolds`: `Spec => []NoLiveOverlap`;
* `PlacedInArenaHolds`: `Spec => []PlacedInArena`.

`NoLiveOverlap` is not inductive: that a free block may be handed out depends on
who used its bytes before. `IInv` adds what the loop maintains: every byte range
of a placed value lies below the end of the arena (`BoundsInv`); active
allocations and free blocks are apart from each other (`OwnersInv`); and a
placed value that is no longer active ended before everything still to be
placed is defined, and is no output (`ReleasedInv`). The last one needs the order of
allocation: definition indices never decrease, so what has expired for one value
has expired for all that follow. The proof has a lemma for each helper
(`CoalesceSeparates`, `CoalesceKeepsClear`, `TakeFacts`, `ReleaseFacts`, ...),
one `...Preserves` lemma for each action, and one theorem per property.

`ExecutionScheduleProofs` proves, for any set of graphs with finitely many
operations: `Invariance`, `TypeCorrect`, `CountsAreExactHolds`,
`RejectsOnlyCyclesHolds` and `DependenciesFirstHolds`. The invariant says that the
order lists operations once, each after its predecessors (`OrderInv`), and that
`indegree` counts the predecessors still to come, so that the ready set is where
it is zero (`CountInv`); decrementing keeps this because an operation leaves the
set of missing predecessors of exactly its dependents. If the ready set runs empty
early, every remaining operation has a remaining predecessor (`EndInv`), and a
graph with such a set has no topological order: the operation of the set that
comes first in one would have a predecessor before it (`ScheduledIsAcyclic`, by
the least position). Side effects keep their order although only neighbours are
chained: by the last side effect before a given one (`EffectsInOrder`, by the
greatest element of a finite set).

`LeastTopologicalOrderHolds` is proved there too. `GreedyInv` says of every position
of the order that no operation which could have come there has a lesser id; an order
that differs from another topological one differs first at some position, and there
the other has an operation that was ready.

The second half of `MemoryPlannerProofs` accounts for the bytes, under the same
assumptions:

* `ArenaPartitionedHolds`, from `CoverInv`: every byte below the end of the arena
  belongs to an active allocation or a free block. Merging loses none
  (`CoalesceCoversAll`: from a byte to the start and the end of its run of blocks).
* `GrowsOnlyWithoutGapHolds`: after merging no two free blocks touch
  (`CoalesceIsMaximal`), so a gap of free bytes lies within one block, and a block that
  is too small has no gap that is large enough.
* `SelfChecksPassHolds`, from `SelfCheckInv`: all offsets and sizes are multiples of the
  alignment, so that aligning the end of the arena changes nothing and cannot
  overflow; the end is at most the bytes placed so far, which is at most the
  naive total; and the bytes live at any index fit below the end.

`SharedLemmas` has what the composition and the optimizer need of the loader.
`LeastFirstIsOrdering`: the order of the loader lists operations once, each after those
it depends on; an order as long as the graph lists all (`FullOrderingIsOnto`); and
`AcceptedIsLoaded`: in the graph that is stored, data goes from lower to higher
positions, and every value has one producer of its kind. `LeastFirst` is a recursive
function, and that it exists, and what each of its values has, is proved by hand:
by the least argument for which it would be otherwise.

`InferenceProofs` proves, for any documents, calls, bound on calls, alignment and
`MaxU64` that satisfy the assumptions of `Inference`: `AcceptedGraphsArePlannedHolds`,
`TraceAccountsForValuesHolds`, `NeededValuesIntactHolds`,
`OnlyKernelsFailCompleteCallsHolds` and `ServesTheGraphHolds`, which is the refinement
`Spec => SessionContract!Spec`. The inductive invariant has four parts.

* `ScheduleInv`: the invariant of `ExecutionScheduleProofs`, and the graph is a loaded
  one. Data edges and the chain of side effects both go to higher positions, so
  nothing waits for itself (`NoneWaits`) and the order is never refused as a cycle.
* `PlanInv`: the invariants of the planner, and the request is that of the
  graph and its schedule (`RequestFacts`: every value is defined before it is used).
* `StatusInv`: a session is open only over a finished plan.
* `SessionInv`: trace, values and copies are those of the operations before the cursor;
  the call has given what these asked for; and the bytes of every result that is
  still needed hold what the graph means (`MemoryInv`), also while a kernel writes.

The step that matters is the kernel's. A result that is needed at the cursor or later
has a lifetime that reaches the cursor's (`TensorFacts`), lifetimes that overlap have
ranges that do not (`NoLiveOverlap` of the planner), and so the kernel writes over
nothing that is needed, its operands included (`NeededIsApart`, `WritesApart`). What the
graph means is defined by recursion over the values; that there is such a function is
proved along the schedule (`MeaningExists`). The modules that `Inference` and the proofs
instantiate are instances of their own, with the same definitions: a block of lemmas
(`SameGraphs`, `PlannerSteps`, ...) says so.

`PipelineRunnerProofs` proves, for any number of processes, stages, starts and
edits: `Invariance`, `TypeCorrect`, `OneOwnerHolds`, `StagesReadGoodFilesHolds`,
`ValidRunIsHonestHolds` and `ReturnedRunIsPersistedHolds`. The
invariant says of every runner that its ledger holds, for each stage that has
completed without failure, every file as that stage wrote it (`RunnerInv`); that two
runners are past the creation of the directory only if it is shared, and that one that
is not shared exists as long as a runner works in it (`OwnerInv`), so that no `mkdir`
succeeds under it; and that in a directory that is not shared its contents agree with
the ledger between validation and stage (`IntactInv`). `BecomesPreserves` reduces a step of one process to
the invariant of its own runner. The last two need more. `StoryInv` says of every runner which stages its results
list as succeeded at each place (list as succeeded at each place, and how many results there are at most when one stage
fails a second time (`ResultsInv`); as long as the directory is not shared, that its
ledger lists their files as good (`LedgerInv`), their files as
good (`LedgerInv`), and that the directory has what the ledger lists while it persists
(`FilesInv`); and of the directory that a manifest in it tells such a story, whatever has
become of the runner that wrote it (`ManifestInv`). `DirectoriesAssumption` says that
stages write into directories of their own, apart from the runner's own files.

`BackendsProofs` proves, for any requests, calls, failures, limits and tile, and any
block size that is a power of two up to 256: `Invariance` and
`NoSuccessAfterFailureHolds`, `VerifiedIsNotMalformedHolds`, `ComputesTheOperationHolds`
and `SuccessReturnsTheResultHolds`. The requests are only assumed to be what a caller can
build: shapes are sequences, sizes are unsigned, attributes have their types
(`CpuRequestsAssumption`, `CudaRequestsAssumption`).

The first property is not inductive, since
a call succeeds several steps after its launch. The invariant adds that after a
failure the error is remembered and the host is at none of the places from which
it could still succeed: past a launch, or at the end of the warm-ups with none
launched, which needs that a profile has at least one
(`CheckedProfileWarmsUp`).

`VerifiedIsNotMalformedHolds` compares two sets of checks written independently, those of
the verifier and those of the kernels, type by type (`VerifiedMatMul`,
`VerifiedLinear`, ...). What it takes is that broadcasting two shapes gives a shape
whose batch the kernel can index (`BroadcastIsShape`, `TwoMoreDimensions`), and that the
verifier has counted the inputs (`VerifiedCounts`). In the other direction
`CpuInv` says that an answer is the one the checks give, whatever tile the kernel is at.

`ComputesTheOperationHolds` compares strides and offsets with coordinates, for any rank,
dimensions and `Tile`. The loops over axes are folds; what is proved of a fold is that it
is the one function with its first value and its step (`IsLoop`, `LoopExists`,
`LoopIsUnique`, by the least place at which two would differ), and from that:

* A stride is the number of elements of the axes after it (`StrideFacts`,
  `ProductAfter`), an element's number is the sum of its coordinates times the strides
  (`PositionIsSum`), dividing by the stride and taking the remainder gives the coordinate
  back (`CoordinateOfPosition`), and the numbers of the positions are those of the elements
  (`PositionsAreElements`). So a kernel that loops over the elements comes to every
  position once.
* Skipping the axes of length 1 reads the aligned element (`BroadcastIndexIsAligned`), a
  line starts at its base and advances by its stride (`LineFacts`), and a permuted sum of
  terms is the sum (`SumPermuted`, which Transpose needs); with these the kernels of one
  step are right, one lemma each.
* For MatMul and Linear `IsCell` says that the loops come to an element at one batch, row
  and column, and read there, at each turn of the contracting dimension, what the element
  needs (`MatMulCell`, `LinearCell`). `AccumulateFacts` puts the turns together.
* Of the tiles, the invariant `MeantInv` says how far each element has been read
  (`DoneAt`): to the end in the tiles the loops are past, up to the inner index in the
  tile they are at, and not at all elsewhere. One turn reads for the elements of the tile
  and for no other (`TileIsRead`, from `ElementsAreApart`), and the next tile, or the
  end, is where that leaves them (`NextTileFacts`), whether or not `Tile` divides the
  extents.
* The bias is added in place, by the column of the element (`FusedIsMeant`).

The hypotheses are those of the run: the verifier has accepted the operation.

`SuccessReturnsTheResultHolds` is about parallel reductions. Until a CUDA call fails
(`CudaInv`; afterwards `NoSuccessAfterFailure` has the answer) the device is
quiet, or runs a launch whose blocks are in one of three phases, and the phases
are what makes the barriers enough:

* `Publishing`: a thread that has published holds the elements of its row at its own
  stride, those of the lanes congruent to it modulo the block size (`StridedGathers`);
  what it overwrites, nobody of this pass reads.
* `Folding`: with stride `s` a thread below it that has folded has what it and its
  partner at distance `s` had gathered, one that has not still has its own; only threads
  at or above the stride are read, and only threads below it write (`HalvesGather`).
  At the barrier the stride is halved.
* `Collecting`: with stride 0, the first lane has gathered the row. The maximum of
  softmax is not collected here but in `Publishing`, while a thread that is ahead
  publishes its sum over it. What a late thread reads then is left open (the race of
  `cuda_softmax`); all that is proved of the maximum is that each thread has one.

An element is written once, by the thread that `BlockOf` and `LaneOf` say, with the
row it belongs to (`RowIsComputed`, `ElementwiseIsComputed`); when the last thread of a
block is done the block is complete, and after the last block the output is
(`CellsOfBlocks`, `EndPreserves`). The row of an index and the column in it come from one
division (`QuotientAndRemainder`, `SamePosition`), the halves from the block size being
a power of two (`HalvesOfPower`). The host returns success only past a
synchronisation, and between launch and synchronisation it changes nothing the device
uses (`QuietStepKeepsSound`, `PrepareKeepsSound`). A product of dimensions is a fold; that
it is a number is proved by the least argument for which it would not be (`ProductIsNat`).

`ArtifactsProofs` proves `SamplesLineUpHolds` for any graph, schedule, calls, options
and maxima; `SuccessIsCompleteHolds` and `ManifestIsOfOneRunHolds` for any number of
processes, any commands, any files from before and any bound on faults.

* `BenchInv`: the trace is that of the operations before the cursor (`CallInv`); within a
  benchmark the samples are those of the measured calls that have returned, and the
  call in progress is the next one (`CallingInv`); a session that gives an error or a
  result has nothing of an earlier call left (`ReturnedInv`). So the check
  `SameContract` never fails.
* `RunnerInv` is about files that other processes may write. A file is of a process that
  has come to the step that writes it (`FilesInv`). What a native command has behind it
  is written by it, if no step has failed, and a failure has a check still ahead
  (`CommandsInv`); that a command's steps are as they are is proved from its sequence,
  step by step (`CommandStepsAre`, `BenchmarkStepsAre`). Of the directory: at most one
  run that is followed has claimed it, all files in it are of that run, what a
  step leaves for good (`Lasts`: a write that is checked to the end, or a read of
  what nobody writes again) is whole, and past the hashing the digests are of whole
  files (`ClaimInv`). A run claims the directory only by making it, hence empty
  (`ClaimingMakes`); until then it writes nothing (`UnclaimedStays`); and who removes it
  takes its claimant out of what is followed (`ClaimStays`).
  Every step of the fifteen actions is one of six moves (`Moving`), which is what the
  lemmas on files and commands argue about.

It also proves `LoadedGraphIsCanonicalHolds` for any graph files, maxima and edits. Of
the files `GraphFilesAssumption` says what the parser and the syntax of ids see to: values
and operations are arrays, an id of an operation is a number (its rank).

* A document loads if and only if it `Passes` all the checks, in whatever order they are
  made (`LoadsIfPasses`, `PassedFacts`); the order only decides which refusal is reported.
* A document `Lists` a graph if it has its values and operations, the latter permuted.
  Nothing the checks look at changes with the permutation: what inputs reach does not
  (`SameConnected`), and because ids are unique the loader finds the same least candidate
  in each round (`SameCandidates`, `SameExtension`), so the same order, relabelled
  (`SameLoadOrder`, `SameChecks`). Two documents that list the same graph load as the same
  graph (`RelistedLoads`), which is what an exchange of two operations needs.
* What is written lists the loaded graph in the order it was loaded in. A topological
  order by least id of a graph stored in that order is the identity
  (`LoadedOrder`), so it loads as itself (`WrittenLoads`).

`OptimizerProofs` proves, for any documents, graphs, levels, bound on optimizations and
largest integer that satisfy the two assumptions: `SideEffectsKeptHolds`,
`StoredTopologicallyHolds`, `OnlySideEffectsUnreadHolds`, `AcceptedGraphsReloadHolds`,
`MeaningKeptHolds` and `OnlyWideBiasBreaksGraphsHolds`. None of the first three is
inductive: that the last pass leaves nothing unread needs that producers are stored
before their readers, that canonicalisation keeps the order of side effects needs that
ids are not shared, and all of them that an operation has one result of its own.
`IInv` has these (`GraphInv`), where in a pipeline the optimization is
(`ProgressInv`), and what the last pass has left (`EndInv`).

A pass is argued about in two parts. Its loop changes operations in place: it keeps
their results, ids and markers, and makes an operation read only what it read before or
what one stored earlier reads or computes (`Follows`; `ReplacementKeeps`, `FoldKeeps`,
`FusionKeeps`, and over all iterations `LoopKeeps`). Its erasure, and the
canonicalisation's order, take operations of a graph into another order or leave some
out (`Rearranges`; `ErasedFacts`, `CanonicaliseFacts`). Nothing removed has a
side effect (`RemovedFacts`); for dead code, since results of side effects are roots.
The chain of side effects puts each after the one stored before it, and an order that
respects neighbours respects all (`ChainInOrder`). After dead code elimination a
value is live because it is a root or because an operation reads it whose own results
are live, and so is there (`LiveFacts`, `DeadCodeFacts`). Loops, the worklist and the
order are recursive functions, and that each has its equations is proved by the least
argument for which it would not.

That what the optimizer makes of an accepted graph is accepted again needs more
(`ReloadInv`): the graph is acceptable at every stage. The loader's search for what
the inputs reach depends on the order it finds, so it is replaced by the least set
that is closed (`Closed`, `Linked`; `ConnectedFacts`), and the order itself by the one
the graph is stored in (`TopologicalHasOrder`); `AcceptsFacts` says that this is all
the loader asks. An iteration keeps it: a folded result becomes a constant or stays a
declared output (`FoldReloads`), an operand takes the place of what is computed from it
alone (`ReplacementReloads`), and a fused operation reads what its sum and product read
(`FusionReloads`). What is erased at the end must be read by nobody else (`Separates`).
For the eliminations, an operand that takes the place of a result was still read
(`EliminationIsApart`). The fusion looks at uses from before the loop: what it erases
stands in chains of the first graph, and two chains share nothing, since a sum and a
product are read once (`ChainsApart`, `FusionIsApart`). For dead code, the worklist
has enough rounds because producers are stored first (`LiveValuesAreClosed`).

`MeaningKeptHolds` is about two recursive functions, the denotation of the graph now and
that of the graph given, whose orders have little to do with each other. Both are
replaced by equations: a function from values to tensors `Solves` a graph if the result
of every operation is what the operation computes of its operands. The denotation does
(`DenotationSatisfies`), and in a graph with an order nothing else does
(`DenotationIsUnique`). So a pass keeps the meaning if the denotation of the graph before
it still solves the graph after it (`SoundMeansTheSame`), which is an argument about one
operation at a time: a folded constant is what was computed of the constants read
(`FoldIsSound`); the operand of an identity is what its result is, has its shape, and may
stand for it wherever it is read, which is kept over all iterations (`MayStandFor`,
`OtherOperands`, `ReplacementStands`); a fused operation computes what the three did, a
sum having no order (`FusionIsSound`); a canonical attribute is the default or counts
the axis from the other end (`CanonicalStands`); and what is erased or moved changes no
equation of what stays (`SelectionIsSound`). A canonicalisation that fails leaves a
graph without an order, in which only the operations the loader reaches have a meaning
(`AttributesMeanTheSame`). `MeaningInv` carries this from pass to pass, into a reload,
and through an optimization that fails.

The theorem is about a given graph that is `Ordinary`, which is what the passes presume
and nobody checks: declared outputs are values of the graph (the loader sees to it,
the verifier does not), a scalar GELU is the exact one (see *Folding* under the
findings), and a projection without a bias has no fused activation (`FuseBiasGELUPass`
would overwrite it; nothing but that pass fuses, and it adds a bias). Without the second
the property does not hold. Every pass leaves the graph ordinary.

`OnlyWideBiasBreaksGraphsHolds` needs no such restriction. A pass runs on a graph that
verifies; after each iteration of its loop, and after its erasure, the graph *almost*
does (`AlmostVerifies`): every operation has the shapes and dtypes the verifier asks for,
or is a projection fused with a bias of another width (`IsWide`), and no operand is gone.
An operation that `LooksLike` one that fits, fits (`FitsAlike`, type by type), which
settles operands that stand for others (now those of the same dtype), canonical
attributes and whatever is moved or left out. A folded constant has the dtype its
operands had (`FoldAlmostVerifies`). A fusion has two cases (`FusedFits`): the bias has
the width of the projection, then the sum broadcasts to the shape of the product
(`BiasedShape`), which the GELU keeps, and the fused projection fits (`MatMulWithBias`,
`LinearWithBias`); or it does not, and the projection is wide.

Only model-checked: `SecondPassChangesNothing` of the optimizer and the bridge
(`LoweringKeepsDependencies`). Liveness (`CallsReturn`, `CudaCallsReturn`)
stays with TLC: the prover does not do fairness. So does what a recursive definition
computes for every input, where an argument by the least counterexample has not been
made.

## Plan

Done: scheduler, planner, session and their composition; optimizer and verifier;
pipeline runner; both backends; the bridge; documents; the native commands and
the two benchmarks. Next, in this order:

1. *Optimizer*: `SecondPassChangesNothing`.
2. *Backends*: that a tile stays within the operands.
3. *Optimizer and session*: that an optimized graph is planned and served like the
   original, by composing `Optimizer` with `Inference`.

## Not modelled

* *Floating-point values*: sums, exponentials and rounding are out of TLC's reach.
  Kernels, folding and literals are terms.
* *SHA-256*: a digest stands for its content.
* *Reports, DOT files, HTML, CSV*: formatting. They are files that are there, whole
  or in part.
* *Python CLI*: argument parsing. *Bindings*: conversion of arrays.
* *FX exporter*: it follows the node sequence of an external library; what it
  writes goes through the loader, which is modelled.
* *Reference model*: numbers only.
* *Several host threads in the CUDA backend*: nothing in the repository calls it from
  more than one.
* *Two pipeline runs writing at the same moment*, once one has removed the other's
  directory: their writes and checks interleave whole, and no property but `TypeOK` and
  `OneOwner` speaks of the directory then. Likewise what becomes of two benchmark runs
  after one has removed the other's directory: nothing says what should hold then.
* *Second paths to one outcome*. The planner's check of the peak for overflow cannot
  fail, as what is live together is disjoint and within the arena (`NoLiveOverlap`,
  `PlacedInArena`). Integers are folded through a `long double`, which is exact where
  it has 64 bits of precision, as on x86-64. The verifier's element count has no limit
  in the model (the kernels' has), and a causal mask whose diagonal overflows when a row
  is added to it is undefined in the code. The text that the bridge writes around
  its validation, such as `.verified.mlir`, is read
  by no other command.
