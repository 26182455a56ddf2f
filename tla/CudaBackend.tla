---------------------------- MODULE CudaBackend ----------------------------
(***************************************************************************)
(* The host side of backends/cuda/src/cuda_backend.cu: run_cuda_host_      *)
(* profile, which times a kernel over its own buffers, and                 *)
(* CudaBackend::execute, which runs an operation over the caller's. Both   *)
(* launch kernels that CudaKernels runs while the host goes on, up to its  *)
(* next synchronisation.                                                   *)
(*                                                                         *)
(* A process makes calls one after the other. Any CUDA call may fail; the  *)
(* CUDA runtime then remembers the error, and as cudaPeekAtLastError does  *)
(* not take it away, every later check of a launch finds it. A call that   *)
(* fails in a deleter ends the process.                                    *)
(***************************************************************************)
EXTENDS CudaKernels

CONSTANTS
  CudaRequests,   \* the calls that are made
  MaxCalls,       \* bound: calls of a process
  MaxFailures,    \* bound: CUDA calls that fail with a status
  MaxGrid,        \* the greatest uint32_t
  MaxRowWidth,    \* kCudaMaximumRowWidth
  MaxElements     \* the greatest uint64_t

\* Sizes and counts are unsigned, dimensions of a view positive.
ASSUME CudaRequestsAssumption ==
  \A r \in CudaRequests :
    \/ /\ r.entry = "profile" /\ r.kernel \in {"gelu", "fused_bias_gelu", "rms_norm", "softmax"}
       /\ {r.rows, r.width, r.warmups, r.measured} \subseteq Nat
    \/ r.entry = "execute" /\ r.out \in Seq(Nat \ {0})

VARIABLES
  host,       \* the call, where it stands, iterations left and its outcome
  calls,      \* how many calls have been made
  failures,   \* how many CUDA calls have failed with a status
  lastError   \* whether the CUDA runtime remembers an error

hostVars == << host, calls, failures, lastError >>

cudaVars == << deviceVars, hostVars >>

Rq == host.request

----------------------------------------------------------------------------
(* What is checked before anything is launched.                            *)

checked_element_count(rows, width) ==
  IF rows = 0 \/ width = 0 THEN "invalid"
  ELSE IF rows * width > MaxElements THEN "overflow"
  ELSE "ok"

\* validate_request, and the count before it: the refusal, or "ok".
validate_request(r) ==
  LET auxiliary == IF r.kernel \in {"rms_norm", "fused_bias_gelu"} THEN r.width ELSE 0
      count == checked_element_count(r.rows, r.width)
  IN  IF count # "ok" THEN count
      ELSE IF r.width > MaxRowWidth THEN "unsupported"
      ELSE IF \/ r.inputSize # r.rows * r.width \/ r.auxiliarySize # auxiliary
              \/ r.warmups = 0 \/ r.measured = 0
              \/ r.kernel = "rms_norm" /\ ~IsFinitePositiveFloat(r.epsilon) THEN "invalid"
      ELSE "ok"

\* The rows and the width of a tensor, as execute cuts it.
Rows(shape) == Product(shape) \div LastOf(shape)

FinalAxis(op, shape) ==
  (IF op.attributes["axis"] < 0 THEN op.attributes["axis"] + Len(shape)
   ELSE op.attributes["axis"]) = Len(shape) - 1

\* The operations execute has a kernel for, by type and shapes.
SelectsKernel(op, in, out) ==
  /\ Len(in) >= 1 /\ in[1] = out
  /\ \/ op.type \in {"gelu", "softmax"} /\ Len(in) = 1
     \/ op.type = "rms_norm" /\ Len(in) = 2 /\ in[2] = << LastOf(out) >>

\* The checks of execute up to the launch: the refusal, or "ok". Device pointers
\* are what validate_device_pointer accepts; a session's arena is host memory.
validate_operation(r) ==
  LET op == r.op
      type == op.type
  IN  IF ~r.contiguous THEN "unsupported"
      ELSE IF Product(r.out) > MaxElements THEN "overflow"
      ELSE IF r.out = << >> THEN "unsupported"
      ELSE IF r.memory # "device" THEN "invalid"
      ELSE IF LastOf(r.out) > MaxRowWidth \/ ~SelectsKernel(op, r.in, r.out) THEN "unsupported"
      ELSE IF type = "gelu" /\ Has(op, "approximate") /\ ~Is(op, "approximate", "none")
        THEN "unsupported"
      ELSE IF \/ type = "rms_norm"
                 /\ ~(Has(op, "epsilon") /\ IsFinitePositiveFloat(op.attributes["epsilon"]))
              \/ type = "softmax" /\ ~Has(op, "axis") THEN "invalid"
      ELSE IF type = "softmax" /\ ~FinalAxis(op, r.out) THEN "unsupported"
      ELSE "ok"

Checked(r) == IF r.entry = "profile" THEN validate_request(r) ELSE validate_operation(r)

\* The checks get as far as a CUDA call: execute asks for the device, and where its
\* pointers are, before it looks at the operation.
CallsCuda(r) ==
  IF r.entry = "profile" THEN Checked(r) = "ok"
  ELSE r.contiguous /\ Product(r.out) <= MaxElements /\ r.out # << >>

\* The launch of the current call, which has a buffer of its own.
LaunchOf(r) ==
  IF r.entry = "profile"
  THEN [ kernel |-> r.kernel, rows |-> r.rows, width |-> r.width, buffer |-> calls ]
  ELSE [ kernel |-> r.op.type, rows |-> Rows(r.out), width |-> LastOf(r.out), buffer |-> calls ]

----------------------------------------------------------------------------
(* A call.                                                                 *)

Return(outcome) == host' = [ host EXCEPT !.at = "returned", !.outcome = outcome ]

Finish(outcome) == host' = [ host EXCEPT !.at = "free", !.outcome = outcome ]

Quiet == UNCHANGED << calls, failures, lastError >>

CallBackend ==
  /\ host.at \in {"idle", "returned"} /\ calls < MaxCalls
  /\ calls' = calls + 1
  /\ \E r \in CudaRequests :
       /\ host' = [ at |-> "called", request |-> r, left |-> 0, timed |-> 0, outcome |-> "none" ]
       /\ output' = Append(output, << >>)
  /\ UNCHANGED << failures, lastError, stream, blocks, block, threads, shared >>

RefuseCall ==
  /\ host.at = "called" /\ Checked(Rq) # "ok"
  /\ Return(Checked(Rq))
  /\ Quiet /\ UNCHANGED deviceVars

\* Buffers are there, with the input in them: for a profile, allocations, copies
\* and the query of the device have succeeded.
Prepare ==
  LET launch == LaunchOf(Rq)
  IN  /\ host.at = "called" /\ Checked(Rq) = "ok"
      /\ output' = [ output EXCEPT ![calls] =
                       [ index \in 0 .. launch.rows * launch.width - 1 |-> Nothing ] ]
      /\ host' = [ host EXCEPT !.at = IF Rq.entry = "profile" THEN "warmup" ELSE "launch",
                               !.left = IF Rq.entry = "profile" THEN Rq.warmups ELSE 1 ]
      /\ Quiet /\ UNCHANGED << stream, blocks, block, threads, shared >>

\* Mutated form of launch_kernel: only the launch's own error is looked at.
LaunchKernelAlone(next) ==
  LET tooGreat == GridOf(LaunchOf(Rq)) > MaxGrid
  IN  /\ stream' = IF tooGreat THEN stream ELSE Append(stream, LaunchOf(Rq))
      /\ IF tooGreat THEN Finish("overflow")
         ELSE host' = [ host EXCEPT !.left = @ - 1, !.at = next ]
      /\ Quiet /\ UNCHANGED << blocks, block, threads, shared, output >>

\* launch_kernel: a grid that is too great is refused. The launch itself is
\* asynchronous, and what is checked after it is the last error of the process.
launch_kernel(next) ==
  LET tooGreat == GridOf(LaunchOf(Rq)) > MaxGrid
  IN  /\ stream' = IF tooGreat THEN stream ELSE Append(stream, LaunchOf(Rq))
      /\ IF tooGreat THEN Finish("overflow")
         ELSE IF lastError THEN Finish("internal")
         ELSE host' = [ host EXCEPT !.left = @ - 1, !.at = next ]
      /\ Quiet /\ UNCHANGED << blocks, block, threads, shared, output >>

\* The warm-up launches do not wait for each other.
LaunchWarmUp == host.at = "warmup" /\ host.left > 0 /\ launch_kernel("warmup")

SynchronizeWarmUp ==
  /\ host.at = "warmup" /\ host.left = 0 /\ stream = << >>
  /\ host' = [ host EXCEPT !.at = "measure", !.left = Rq.measured ]
  /\ Quiet /\ UNCHANGED deviceVars

\* A measured launch, between its two events.
LaunchMeasured == host.at = "measure" /\ host.left > 0 /\ launch_kernel("stop")

SynchronizeEvent ==
  /\ host.at = "stop" /\ stream = << >>
  /\ host' = [ host EXCEPT !.at = "measure", !.timed = @ + 1 ]
  /\ Quiet /\ UNCHANGED deviceVars

\* cudaMemcpy of the output, which the default stream orders after the launches.
CopyBack ==
  /\ host.at = "measure" /\ host.left = 0 /\ stream = << >>
  /\ Finish("ok")
  /\ Quiet /\ UNCHANGED deviceVars

LaunchOperation == host.at = "launch" /\ launch_kernel("synchronize")

cudaDeviceSynchronize ==
  /\ host.at = "synchronize" /\ stream = << >>
  /\ Return("ok")
  /\ Quiet /\ UNCHANGED deviceVars

\* The deleters of a profile's buffers: cudaFree waits for the device. In execute
\* there is nothing to free: a failed call returns while its kernel may run.
Free ==
  /\ host.at = "free"
  /\ Rq.entry = "profile" => stream = << >>
  /\ Return(host.outcome)
  /\ Quiet /\ UNCHANGED deviceVars

\* The CUDA call at this point of the host fails.
CudaCallFails ==
  /\ \/ host.at \in {"warmup", "measure", "stop", "launch", "synchronize"}
     \/ host.at = "called" /\ CallsCuda(Rq)
  /\ failures < MaxFailures
  /\ failures' = failures + 1
  /\ lastError' = TRUE
  /\ Finish("internal")
  /\ UNCHANGED << calls, deviceVars >>

\* cudaFree or cudaEventDestroy fails in a deleter, at once or after a while, and
\* std::terminate ends the process.
CleanupFails ==
  /\ host.at = "free" /\ Rq.entry = "profile"
  /\ host' = [ host EXCEPT !.at = "terminated" ]
  /\ Quiet /\ UNCHANGED deviceVars

\* What the host does as long as no CUDA call fails.
HostStep ==
  \/ RefuseCall \/ Prepare
  \/ LaunchWarmUp \/ SynchronizeWarmUp \/ LaunchMeasured \/ SynchronizeEvent \/ CopyBack
  \/ LaunchOperation \/ cudaDeviceSynchronize \/ Free

HostFails == CudaCallFails \/ CleanupFails

CudaInit ==
  /\ DeviceInit
  /\ host = [ at |-> "idle" ]
  /\ calls = 0 /\ failures = 0 /\ lastError = FALSE

CudaNext == CallBackend \/ HostStep \/ HostFails \/ (DeviceNext /\ UNCHANGED hostVars)

\* No call has to fail.
CudaFairness == DeviceFairness /\ WF_cudaVars(HostStep)

----------------------------------------------------------------------------
(* Properties.                                                             *)

\* What a kernel means, over rows of this width.
MeaningOfLaunch(launch, c) ==
  LET shape == << launch.rows, launch.width >>
  IN  IF launch.kernel = "fused_bias_gelu"
      THEN Element("gelu", << << 1, Position(shape, c) >>, << 2, LastOf(c) >> >>)
      ELSE Meaning([ type |-> launch.kernel, attributes |-> [ axis |-> -1 ] ],
                   << shape >>, shape, c)

\* A tree reduction adds in an order of its own. Which maximum a Softmax has
\* subtracted is SoftmaxSubtractsRowMaximum's.
Computes(element, launch, c) ==
  LET meaning == MeaningOfLaunch(launch, c)
  IN  /\ launch.kernel # "softmax" => element.f = meaning.f
      /\ Len(element.reads) = Len(meaning.reads)
      /\ Elements(element.reads) = Elements(meaning.reads)

\* A call that succeeds returns a whole output, and a profile a time for each
\* measured iteration: the kernels have ended, every
\* element was written, and from each element of its row once, though the threads
\* stride over rows wider than a block, and blocks reach past the last element.
SuccessReturnsTheResult ==
  host.at = "returned" /\ host.outcome = "ok" =>
    LET launch == LaunchOf(Rq)
        shape == << launch.rows, launch.width >>
    IN  /\ stream = << >>
        /\ Rq.entry = "profile" => host.timed = Rq.measured
        /\ \A c \in Coordinates(shape) : Computes(output[calls][Position(shape, c)], launch, c)

\* Every call returns, but for a profile that cannot clean up and takes the process
\* with it: the threads of a block meet at each barrier, and the host waits for
\* nothing that does not come, whether a call has failed or not.
CudaCallsReturn ==
  host.at = "called" ~>
    host.at = "returned" \/ (host.at = "terminated" /\ Rq.entry = "profile")

\* No call recovers from a failure of an earlier one: once a CUDA call has failed,
\* nothing takes the error away, and no later call of the process succeeds.
NoSuccessAfterFailure ==
  host.at = "returned" /\ host.outcome = "ok" => failures = 0
=============================================================================
