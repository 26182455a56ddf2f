-------------------------- MODULE RuntimeBenchmark --------------------------
(***************************************************************************)
(* benchmark_runtime of cpp/src/runtime/benchmark.cpp over a session whose *)
(* owner also executes it by itself: warm-up calls, then measured ones,    *)
(* after each of which the session's trace is added to the samples.        *)
(*                                                                         *)
(* A time is the number of the call it was taken in. What a trace record   *)
(* says of its operation besides (type, kernel, shape) is fixed by the     *)
(* operation.                                                              *)
(***************************************************************************)
EXTENDS RuntimeSession

CONSTANTS
  Options,          \* the options that may be given
  MaximumWarmups,   \* kMaximumWarmupCount
  MaximumMeasured   \* kMaximumMeasuredIterationCount

ASSUME CallsAssumption ==
  \A c \in Calls : DOMAIN c = {"tag", "inputs", "parameters", "captures"}
\* They are uint64_t.
ASSUME OptionsAssumption ==
  \A o \in Options : o.warmups \in Nat /\ o.measured \in Nat

VARIABLES
  bench,       \* the call of benchmark_runtime
  operations,  \* samples.operations
  end_to_end   \* samples.end_to_end_microseconds

benchVars == << bench, operations, end_to_end >>

\* As yet, or after an execution by itself, there are no samples.
NoBenchmark ==
  [ phase |-> "none", status |-> "none", args |-> NoCall, before |-> 0,
    warmups |-> 0, measured |-> 0, iteration |-> 0, called |-> FALSE ]

\* What loader and scheduler leave to a session: every output the graph declares
\* is the result of an operation of the schedule.
IsPlanned ==
  /\ order \in Seq(Operations(graph))
  /\ graph.outputs \subseteq { Result(order[n]) : n \in DOMAIN order }

BenchInit ==
  /\ IsPlanned
  /\ bench = NoBenchmark
  /\ operations = << >>
  /\ end_to_end = << >>

ValidOptions(o) == o.warmups <= MaximumWarmups /\ o.measured \in 1 .. MaximumMeasured

Returned(outcome) == [ bench EXCEPT !.phase = "returned", !.status = outcome, !.called = FALSE ]

\* Bound: the session still has the calls.
BenchmarkRuntime(c, o) ==
  /\ status = "ready" /\ bench.phase # "calling"
  /\ calls + o.warmups + o.measured <= MaxCalls
  /\ bench' = [ NoBenchmark EXCEPT
                  !.phase = IF ValidOptions(o) THEN "calling" ELSE "returned",
                  !.status = IF ValidOptions(o) THEN "none" ELSE "invalid",
                  !.args = [ c EXCEPT !.captures = {} ], !.before = calls,
                  !.warmups = o.warmups, !.measured = o.measured ]
  /\ operations' = << >> /\ end_to_end' = << >>
  /\ UNCHANGED vars

InWarmup == bench.iteration < bench.warmups

Remaining == bench.iteration < bench.warmups + bench.measured

\* The next iteration calls execute, without captures.
Iterate ==
  /\ bench.phase = "calling" /\ ~bench.called /\ Remaining
  /\ Execute(bench.args)
  /\ bench' = [ bench EXCEPT !.called = TRUE ]
  /\ UNCHANGED << operations, end_to_end >>

----------------------------------------------------------------------------
(* append_operation_samples.                                               *)

\* The first trace says which operations there are.
Named ==
  IF operations = << >>
  THEN [ n \in DOMAIN trace |-> [ operation |-> trace[n], elapsed |-> << >> ] ]
  ELSE operations

SameContract ==
  /\ Len(trace) = Len(Named)
  /\ \A n \in DOMAIN trace : trace[n] = Named[n].operation

WithSamples ==
  [ n \in DOMAIN Named |-> [ Named[n] EXCEPT !.elapsed = Append(@, calls) ] ]

----------------------------------------------------------------------------
(* After an iteration.                                                     *)

NextIteration == [ bench EXCEPT !.iteration = @ + 1, !.called = FALSE ]

\* execute has returned. An error of it ends the benchmark, and so does a trace
\* that is not like the first one.
AfterExecute ==
  /\ bench.phase = "calling" /\ bench.called /\ status = "ready"
  /\ \/ /\ ~executed
        /\ bench' = Returned("failed")
        /\ UNCHANGED << operations, end_to_end >>
     \/ /\ executed /\ InWarmup
        /\ bench' = NextIteration
        /\ UNCHANGED << operations, end_to_end >>
     \/ /\ executed /\ ~InWarmup
        /\ end_to_end' = Append(end_to_end, calls)
        /\ operations' = IF SameContract THEN WithSamples ELSE operations
        /\ bench' = IF SameContract THEN NextIteration ELSE Returned("internal")
  /\ UNCHANGED vars

Return ==
  /\ bench.phase = "calling" /\ ~bench.called /\ ~Remaining
  /\ bench' = Returned("ok")
  /\ UNCHANGED << vars, operations, end_to_end >>

\* The owner executes the session by itself and forgets the samples.
ExecuteAlone(c) ==
  /\ bench.phase # "calling"
  /\ Execute(c)
  /\ bench' = NoBenchmark /\ operations' = << >> /\ end_to_end' = << >>

\* The steps of the session within a call, and its loading.
SessionStep ==
  /\ \/ Load \/ BindInput \/ BindParameter \/ BindConstant
     \/ BeginKernel \/ EndKernel \/ KernelFails \/ FinishExecute
  /\ UNCHANGED benchVars

BenchNext ==
  \/ \E c \in Calls : ExecuteAlone(c) \/ \E o \in Options : BenchmarkRuntime(c, o)
  \/ Iterate \/ AfterExecute \/ Return
  \/ SessionStep

BenchSpec == Init /\ BenchInit /\ [][BenchNext]_<< vars, benchVars >>

----------------------------------------------------------------------------
(* Property.                                                               *)

\* Whatever was executed before and however it ended: the trace of a successful
\* call is always like the first one's; a benchmark that succeeds has one time
\* per measured call, and none of a warm-up, for every operation of the schedule
\* and for the whole; what can be fetched after it is the result of its last
\* call, and after one that failed nothing can.
SamplesLineUp ==
  /\ bench.status # "internal"
  /\ bench.status = "ok" =>
       LET measured == [ k \in 1 .. bench.measured |-> bench.before + bench.warmups + k ]
       IN  /\ operations = [ n \in DOMAIN order |->
                               [ operation |-> order[n], elapsed |-> measured ] ]
           /\ end_to_end = measured
           /\ executed /\ call.tag = measured[bench.measured]
           /\ DOMAIN captured = graph.outputs
  /\ bench.status = "failed" => \A v \in DOMAIN graph.values : GetValue(v) = Unavailable
=============================================================================
