----------------------------- MODULE Inference -----------------------------
(***************************************************************************)
(* RuntimeSession::load and what follows: a document goes through the      *)
(* loader, the scheduler and the memory planner, and the session executes  *)
(* the graph along that schedule in the arena of that plan.                *)
(*                                                                         *)
(* The components are the modules of their own; this one hands the state   *)
(* of one to the next. The graph and the order belong to the scheduler and *)
(* the session, the offsets and the arena's size to the planner and the    *)
(* session. Running out of host memory is not modelled, and the semantic   *)
(* verifier that load also calls lets every document here pass.            *)
(***************************************************************************)
EXTENDS GraphLoader

CONSTANTS
  Documents,  \* the graph documents that may be loaded
  Alignment,  \* the alignment the session plans with
  Calls,      \* the arguments execute may be given
  MaxCalls,   \* bound on the calls of execute
  MaxU64      \* the largest uint64_t

OperationTypes == {"input", "parameter", "constant", "compute"}

\* What execute and the planner rely on: sources read nothing, and every value
\* has a size, since a dimension is never zero.
IsExecutable(d) ==
  /\ \A i \in Operations(d) :
       /\ d.ops[i].type \in OperationTypes
       /\ d.ops[i].type # "compute" => d.ops[i].inputs = << >>
  /\ \A v \in DOMAIN d.values : d.values[v].bytes \in 1 .. MaxU64

ASSUME MaxU64Assumption == MaxU64 \in Nat
\* kDefaultCpuTensorAlignment is one.
ASSUME AlignmentAssumption ==
  Alignment \in 1 .. MaxU64 /\ \E k \in 0 .. Alignment : Alignment = 2^k
ASSUME DocumentsAssumption == \A d \in Documents : IsDocument(d) /\ IsExecutable(d)
ASSUME CallsAssumption ==
  \A c \in Calls : DOMAIN c = {"tag", "inputs", "parameters", "captures"}
ASSUME MaxCallsAssumption == MaxCalls \in Nat

VARIABLES
  document,                                                       \* the file
  schedule_phase, graph, indegree, ready, order, schedule_error,  \* scheduler
  plan_phase, request, tensors, naive, offset, active, free,      \* planner
  arena_end, peak, plan_error,
  status, call, cursor, computing, values, memory, trace,         \* session
  captured, executed, calls

schedule_vars == << schedule_phase, graph, indegree, ready, order, schedule_error >>

plan_vars == << plan_phase, request, tensors, naive, offset, active, free,
                arena_end, peak, plan_error >>

session_vars == << status, call, cursor, computing, values, memory, trace,
                   captured, executed, calls >>

vars == << document, schedule_vars, plan_vars, session_vars >>

Scheduler == INSTANCE ExecutionSchedule
               WITH Graphs <- {}, phase <- schedule_phase, error <- schedule_error

Planner == INSTANCE MemoryPlanner
             WITH Requests <- {}, phase <- plan_phase, error <- plan_error

Session == INSTANCE RuntimeSession WITH arena_size <- arena_end

----------------------------------------------------------------------------
(* What the planner is asked.                                              *)

\* The index an operation has in the schedule.
ScheduleIndex(i) == CHOOSE n \in 0 .. Len(order) - 1 : order[n + 1] = i

\* The definition and the uses of every value, by schedule index.
Lifetimes ==
  [ v \in DOMAIN graph.values |->
      [ definition |-> LET i == CHOOSE i \in Operations(graph) : v \in Writes(graph, i)
                       IN  ScheduleIndex(i),
        uses       |-> { ScheduleIndex(i) : i \in { j \in Operations(graph) :
                                                      v \in Reads(graph, j) } },
        kind       |-> graph.values[v].kind,
        declared   |-> v \in graph.outputs,
        bytes      |-> graph.values[v].bytes ] ]

Request ==
  [ backend |-> "cpu", alignment |-> Alignment, boundary |-> Len(order),
    values |-> Lifetimes ]

----------------------------------------------------------------------------
(* load.                                                                   *)

Init ==
  /\ document = [ ops |-> << >> ]
  /\ Scheduler!Init
  /\ Planner!Init
  /\ Session!Init

\* The file is read and its graph, in the loader's order, given to the
\* scheduler.
LoadGraph(d) ==
  /\ status = "unloaded" /\ schedule_phase = "idle" /\ Accepts(d)
  /\ document' = d
  /\ Scheduler!StartOrdering(Loaded(d))
  /\ UNCHANGED << plan_vars, session_vars >>

BuildSchedule ==
  /\ (\E i \in ready : Scheduler!ScheduleNext(i)) \/ Scheduler!Finish
  /\ UNCHANGED << document, plan_vars, session_vars >>

StartPlan ==
  /\ schedule_phase = "scheduled"
  /\ Planner!PlanMemory(Request)
  /\ UNCHANGED << document, schedule_vars, session_vars >>

BuildPlan ==
  /\ \/ \E v \in DOMAIN request.values, reason \in Planner!RefusalReasons :
          Planner!RefuseValue(v, reason)
     \/ Planner!BuildLifetimes
     \/ Planner!SumNaive
     \/ Planner!Allocate
     \/ Planner!MeasurePeak
     \/ Planner!VerifyPlan
  /\ UNCHANGED << document, schedule_vars, session_vars >>

\* load returns an error as soon as one of them does: there is no session.
NoSession ==
  /\ status = "unloaded" /\ status' = "refused"
  /\ UNCHANGED << schedule_vars, plan_vars, call, cursor, computing, values,
                  memory, trace, captured, executed, calls >>

\* By the loader; or by the verifier or the test for float32, for something the
\* documents here do not tell.
RefuseDocument(d) ==
  /\ schedule_phase = "idle"
  /\ document' = d
  /\ NoSession

\* By the scheduler or the planner; or there is no memory for the arena, or no
\* backend of that name.
RefuseGraph ==
  /\ schedule_phase = "rejected" \/ plan_phase \in {"rejected", "planned"}
  /\ NoSession
  /\ UNCHANGED document

OpenSession ==
  /\ plan_phase = "planned"
  /\ Session!Load
  /\ UNCHANGED << document, schedule_vars, plan_vars >>

LoadStep == BuildSchedule \/ StartPlan \/ BuildPlan \/ RefuseGraph \/ OpenSession

----------------------------------------------------------------------------
(* execute.                                                                *)

Others == << document, schedule_vars, plan_vars >>

StartCall == (\E c \in Calls : Session!Execute(c)) /\ UNCHANGED Others

\* The loop over the schedule.
CallStep ==
  /\ \/ Session!BindInput
     \/ Session!BindParameter
     \/ Session!BindConstant
     \/ Session!BeginKernel
     \/ Session!EndKernel
     \/ Session!FinishExecute
  /\ UNCHANGED Others

KernelFails == Session!KernelFails /\ UNCHANGED Others

Next ==
  \/ \E d \in Documents : LoadGraph(d) \/ RefuseDocument(d)
  \/ LoadStep
  \/ StartCall
  \/ CallStep
  \/ KernelFails

\* load and execute run to their end in the thread that called them. Nothing
\* makes the owner call, and no kernel has to fail.
Fairness == WF_vars(LoadStep) /\ WF_vars(CallStep)

Spec == Init /\ [][Next]_vars /\ Fairness

----------------------------------------------------------------------------
(* Properties.                                                             *)

Fetched == { v \in DOMAIN captured : Session!GetValue(v) # Session!Unavailable }

Contract == INSTANCE SessionContract
              WITH results <- [ v \in Fetched |-> Session!GetValue(v) ]

\* Whatever the schedule, the reuse of the arena and the failures of earlier
\* calls, a session gives its owner what the graph means for this call's inputs
\* or nothing: the abstract session is implemented.
ServesTheGraph == Contract!Spec

\* The values that execute has defined and still needs: an operation to come
\* reads them, or the graph declares them as outputs.
StillNeeded ==
  { v \in DOMAIN values :
      \/ v \in graph.outputs
      \/ \E n \in cursor .. Len(order) : v \in Reads(graph, order[n]) }

\* The trace accounts for the values: it is the schedule as far as execute came,
\* with one value defined per entry. An executed session has traced all of it
\* and retained every declared output, so that get_outputs never finds one
\* missing ("successful execution did not retain output").
TraceAccountsForValues ==
  /\ trace = SubSeq(order, 1, Len(trace))
  /\ DOMAIN values = { Session!Result(trace[n]) : n \in DOMAIN trace }
  /\ executed => /\ status = "ready" /\ trace = order
                 /\ graph.outputs \subseteq DOMAIN captured

\* Between two operations, every defined value that is still needed is where
\* execute looks for it and holds what the graph says: the planner's lifetimes
\* and the order of execution agree on when bytes may be reused.
NeededValuesIntact ==
  status = "running" /\ ~computing =>
    \A v \in StillNeeded :
      Session!Contents(v, values[v], memory) = Contract!Meaning(call.tag)[v]

\* A call that gives everything the graph needs fails only within a kernel:
\* every lookup and bound check of execute passes, because the loader, the
\* scheduler and the planner have done their work.
OnlyKernelsFailCompleteCalls ==
  [][ status = "running" /\ status' = "ready" /\ ~executed' /\ Contract!Complete(call)
        => computing ]_vars

\* What the loader lets through is schedulable: its order and the chain of side
\* effects never contradict each other. It is plannable too, except for
\* intermediates nobody reads and for tensors that are too large together.
AcceptedGraphsArePlanned ==
  /\ schedule_error = "none"
  /\ plan_error \in {"none", "unused_intermediate", "overflow"}
  /\ plan_error = "unused_intermediate" =>
       \E v \in DOMAIN graph.values :
         /\ graph.values[v].kind = "intermediate"
         /\ \A i \in Operations(graph) : v \notin Reads(graph, i)
  /\ plan_error = "overflow" =>
       \/ \E v \in DOMAIN graph.values :
            Planner!AlignUp(graph.values[v].bytes, Alignment) > MaxU64
       \/ Planner!NaiveTotal > MaxU64

\* load and execute return: a graph that was accepted becomes a session or is
\* refused, and a call that has begun ends.
CallsReturn ==
  /\ schedule_phase # "idle" ~> status # "unloaded"
  /\ status = "running" ~> status = "ready"

\* If a document lists every operation after those it depends on, its side
\* effects are scheduled in the order in which it lists them ("additional edges
\* that preserve their relative graph order",
\* docs/architecture/memory_planner.md:17-18).
SideEffectsInDocumentOrder ==
  schedule_phase = "scheduled" /\ (\A e \in DataEdges(document) : e[1] < e[2]) =>
    \A m, n \in DOMAIN order :
      LET first  == graph.ops[order[m]]
          second == graph.ops[order[n]]
          at(op) == CHOOSE i \in Operations(document) : document.ops[i].id = op.id
      IN  m < n /\ first.side_effect /\ second.side_effect => at(first) < at(second)
============================================================================
