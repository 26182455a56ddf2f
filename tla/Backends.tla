------------------------------ MODULE Backends ------------------------------
(***************************************************************************)
(* The backend registry of cpp/src/runtime/cpu_backend.cpp and the two     *)
(* backends it makes.                                                      *)
(***************************************************************************)
EXTENDS CpuKernels, CudaBackend

CONSTANTS
  BackendNames,   \* the names that are asked for
  CudaCompiled    \* FORGEIR_CUDA_COMPILED

VARIABLE backend  \* the backend that was made, "none" so far or "unsupported"

\* BackendRegistry::create.
Create ==
  /\ backend = "none"
  /\ \E name \in BackendNames :
       backend' = IF name = "cpu" \/ (name = "cuda" /\ CudaCompiled) THEN name
                  ELSE "unsupported"
  /\ UNCHANGED << cpuVars, cudaVars >>

Init == backend = "none" /\ CpuInit /\ CudaInit

Next ==
  \/ Create
  \/ backend = "cpu" /\ CpuNext /\ UNCHANGED << backend, cudaVars >>
  \/ backend = "cuda" /\ CudaNext /\ UNCHANGED << backend, cpuVars >>

Spec == Init /\ [][Next]_<< backend, cpuVars, cudaVars >> /\ CudaFairness
=============================================================================
