-------------------------- MODULE ArtifactsProofs --------------------------
(***************************************************************************)
(* Proofs about what goes in and out of the program: the samples of        *)
(* RuntimeBenchmark, for every way the calls of a session may end; the     *)
(* files of NativeCli and BenchmarkRunner, for every set of processes,     *)
(* commands and faults; and the graph files of GraphDocument, for every    *)
(* listing of their operations.                                            *)
(***************************************************************************)
EXTENDS RuntimeBenchmark, BenchmarkRunner, GraphDocument, SharedLemmas

Past == 1 .. cursor - 1

\* The session: trace and copies are those of the operations up to the cursor.
CallInv ==
  /\ IsPlanned
  /\ status \in {"unloaded", "ready", "running"}
  /\ cursor \in Nat
  /\ status = "unloaded" => cursor = 0
  /\ status = "running" => cursor \in 1 .. Len(order) + 1
  /\ trace = [ n \in Past |-> order[n] ]
  /\ DOMAIN captured = { Result(order[n]) : n \in Past } \cap Captures
  /\ DOMAIN call = {"tag", "inputs", "parameters", "captures"}
  /\ calls \in Nat /\ call.tag = calls
  /\ executed \in BOOLEAN
  /\ executed => status = "ready" /\ cursor = Len(order) + 1

\* The benchmark has measured that many calls.
Done == IF InWarmup THEN 0 ELSE bench.iteration - bench.warmups

Times(n) == [ k \in 1 .. n |-> bench.before + bench.warmups + k ]

SamplesOf(n) ==
  [ k \in DOMAIN order |-> [ operation |-> order[k], elapsed |-> Times(n) ] ]

TypeInv ==
  /\ DOMAIN bench = {"phase", "status", "args", "before", "warmups", "measured",
                     "iteration", "called"}
  /\ bench.phase \in {"none", "calling", "returned"}
  /\ bench.status \in {"none", "ok", "failed", "invalid"}
  /\ bench.before \in Nat /\ bench.warmups \in Nat /\ bench.measured \in Nat
  /\ bench.iteration \in Nat /\ bench.called \in BOOLEAN

CallingInv ==
  bench.phase = "calling" =>
    /\ bench.status = "none"
    /\ bench.measured >= 1
    /\ bench.iteration <= bench.warmups + bench.measured
    /\ DOMAIN bench.args = {"tag", "inputs", "parameters", "captures"}
    /\ bench.args.captures = {}
    /\ bench.called => Remaining /\ call.captures = {}
    /\ calls = bench.before + bench.iteration + (IF bench.called THEN 1 ELSE 0)
    /\ end_to_end = Times(Done)
    /\ operations = IF Done = 0 THEN << >> ELSE SamplesOf(Done)
    /\ ~bench.called => status = "ready"
    /\ ~bench.called /\ bench.iteration > 0 => executed /\ call.captures = {}

ReturnedInv ==
  /\ bench.phase = "none" => bench.status = "none"
  /\ bench.phase = "returned" => status = "ready"
  /\ bench.status = "ok" =>
       /\ bench.measured >= 1
       /\ calls = bench.before + bench.warmups + bench.measured
       /\ end_to_end = Times(bench.measured)
       /\ operations = SamplesOf(bench.measured)
       /\ executed /\ call.captures = {}
  /\ bench.status = "failed" => ~executed

BenchInv == CallInv /\ TypeInv /\ CallingInv /\ ReturnedInv

(***************************************************************************)
(* The session.                                                            *)
(***************************************************************************)

\* One more operation has been executed.
LEMMA DefineTraces ==
  ASSUME CallInv, status = "running", cursor \in DOMAIN order, NEW location, NEW mem,
         Define(location, mem)
  PROVE  CallInv'
<1> DEFINE v == Result(Current)
<1>1. /\ cursor' = cursor + 1 /\ trace' = Append(trace, order[cursor])
      /\ captured' = IF v \in Captures THEN With(captured, v, Contents(v, location, mem))
                     ELSE captured
      /\ UNCHANGED << graph, order, status, call, executed, calls >>
  BY DEF Define, plan, Current
<1>2. Len(order) \in Nat /\ DOMAIN order = 1 .. Len(order) /\ cursor \in 1 .. Len(order)
  BY DEF CallInv, IsPlanned
<1>3. Past' = Past \cup {cursor} /\ cursor \notin Past
  BY <1>1, <1>2 DEF Past
<1>4. trace' = [ n \in Past' |-> order'[n] ]
  <2>1. Len(trace) = cursor - 1
    BY <1>2 DEF CallInv, Past
  <2>2. trace' = [ n \in 1 .. cursor |-> IF n = cursor THEN order[cursor] ELSE order[n] ]
    BY <1>1, <1>2, <2>1 DEF CallInv, Past
  <2>3. QED
    BY <1>1, <1>2, <2>2 DEF Past
<1>5. { Result(order[n]) : n \in Past }' = { Result(order[n]) : n \in Past } \cup {v}
  BY <1>1, <1>3 DEF Result, Current
<1>6. Captures' = Captures
  BY <1>1 DEF Captures
<1>7. DOMAIN captured' = ({ Result(order[n]) : n \in Past } \cap Captures)'
  <2>1. DOMAIN With(captured, v, Contents(v, location, mem)) = DOMAIN captured \cup {v}
    BY DEF With
  <2>2. CASE v \in Captures
    BY <2>1, <2>2, <1>1, <1>5, <1>6 DEF CallInv
  <2>3. CASE v \notin Captures
    BY <2>3, <1>1, <1>5, <1>6 DEF CallInv
  <2>4. QED
    BY <2>2, <2>3
<1>8. IsPlanned'
  BY <1>1 DEF CallInv, IsPlanned, Operations, Result
<1>9. /\ status' = "running" /\ cursor' \in Nat /\ cursor' \in 1 .. Len(order') + 1
      /\ DOMAIN call' = {"tag", "inputs", "parameters", "captures"}
      /\ calls' \in Nat /\ call'.tag = calls' /\ executed' = FALSE
  BY <1>1, <1>2 DEF CallInv
<1>10. QED
  BY <1>4, <1>7, <1>8, <1>9 DEF CallInv

\* An error or the end of the schedule keeps what has been traced.
LEMMA EndKeepsTrace ==
  ASSUME CallInv, status' \in {"ready", "running"}, status = "running", executed' \in BOOLEAN,
         status' = "running" => ~executed',
         executed' => cursor = Len(order) + 1,
         UNCHANGED << graph, order, call, cursor, trace, captured, calls >>
  PROVE  CallInv'
<1>1. /\ UNCHANGED << Past, Captures >> /\ IsPlanned'
      /\ { Result(order[n]) : n \in Past }' = { Result(order[n]) : n \in Past }
  BY DEF Past, Captures, IsPlanned, CallInv, Operations, Result
<1>2. QED
  BY <1>1 DEF CallInv

\* What the session does within a call, or to load, leaves the call as it is.
LEMMA SessionStepTraces ==
  ASSUME CallInv, SessionStep
  PROVE  /\ CallInv'
         /\ UNCHANGED << graph, order, call, calls, bench, operations, end_to_end >>
         /\ status \in {"unloaded", "running"}
<1>1. UNCHANGED << bench, operations, end_to_end >>
  BY DEF SessionStep, benchVars
<1>2. ASSUME Load PROVE CallInv' /\ UNCHANGED << graph, order, call, calls >> /\ status = "unloaded"
  <2>1. /\ status = "unloaded" /\ status' = "ready"
        /\ UNCHANGED << graph, order, call, cursor, trace, captured, executed, calls >>
    BY <1>2 DEF Load, plan
  <2>2. /\ UNCHANGED << Past, Captures >> /\ IsPlanned'
        /\ { Result(order[n]) : n \in Past }' = { Result(order[n]) : n \in Past }
    BY <2>1 DEF Past, Captures, IsPlanned, CallInv, Operations, Result
  <2>3. QED
    BY <2>1, <2>2 DEF CallInv
<1>3. ASSUME Fail, status = "running"
      PROVE  CallInv' /\ UNCHANGED << graph, order, call, calls >>
  <2>1. /\ status' = "ready"
        /\ UNCHANGED << graph, order, call, cursor, trace, captured, executed, calls >>
    BY <1>3 DEF Fail, plan
  <2>2. ~executed
    BY <1>3 DEF CallInv
  <2>3. QED
    BY <2>1, <2>2, <1>3, EndKeepsTrace DEF CallInv
<1>4. ASSUME NEW location, NEW mem, Define(location, mem), status = "running",
             cursor \in DOMAIN order
      PROVE  CallInv' /\ UNCHANGED << graph, order, call, calls >>
  BY <1>4, DefineTraces DEF Define, plan
<1>5. ASSUME BindInput \/ BindParameter \/ BindConstant \/ EndKernel \/ KernelFails
      PROVE  CallInv' /\ UNCHANGED << graph, order, call, calls >> /\ status = "running"
  <2>1. status = "running" /\ cursor \in DOMAIN order
    BY <1>5 DEF BindInput, BindParameter, BindConstant, EndKernel, KernelFails, At
  <2>2. Fail \/ \E location, mem : Define(location, mem)
    BY <1>5 DEF BindInput, BindParameter, BindConstant, EndKernel, KernelFails
  <2>3. QED
    BY <2>1, <2>2, <1>3, <1>4
<1>6. ASSUME BeginKernel
      PROVE  CallInv' /\ UNCHANGED << graph, order, call, calls >> /\ status = "running"
  <2>1. status = "running"
    BY <1>6 DEF BeginKernel, At
  <2>2. CASE Fail
    BY <2>1, <2>2, <1>3
  <2>3. CASE ~Fail
    <3>1. UNCHANGED << graph, order, status, call, cursor, trace, captured, executed, calls >>
      BY <2>3, <1>6 DEF BeginKernel, plan
    <3>2. ~executed
      BY <2>1 DEF CallInv
    <3>3. QED
      BY <2>1, <3>1, <3>2, EndKeepsTrace DEF CallInv
  <2>4. QED
    BY <2>2, <2>3
<1>7. ASSUME FinishExecute
      PROVE  CallInv' /\ UNCHANGED << graph, order, call, calls >> /\ status = "running"
  <2>1. /\ status = "running" /\ status' = "ready" /\ executed' = TRUE /\ cursor > Len(order)
        /\ UNCHANGED << graph, order, call, cursor, trace, captured, calls >>
    BY <1>7 DEF FinishExecute, Exhausted, plan
  <2>2. Len(order) \in Nat /\ cursor \in 1 .. Len(order) + 1
    BY <2>1 DEF CallInv, IsPlanned
  <2>3. cursor = Len(order) + 1
    BY <2>1, <2>2
  <2>4. QED
    BY <2>1, <2>3, EndKeepsTrace
<1>8. QED
  BY <1>1, <1>2, <1>5, <1>6, <1>7 DEF SessionStep

\* A call starts from an empty trace and without copies.
LEMMA ExecuteClears ==
  ASSUME CallInv, NEW c, DOMAIN c = {"tag", "inputs", "parameters", "captures"}, Execute(c)
  PROVE  /\ CallInv'
         /\ calls' = calls + 1 /\ call'.captures = c.captures
         /\ status = "ready" /\ status' \in {"ready", "running"} /\ ~executed'
         /\ UNCHANGED << graph, order >>
<1>1. /\ status = "ready" /\ calls' = calls + 1 /\ call' = [ c EXCEPT !.tag = calls + 1 ]
      /\ trace' = << >> /\ captured' = Empty /\ executed' = FALSE
      /\ UNCHANGED << graph, order >>
      /\ \/ status' = "ready" /\ cursor' = 0
         \/ status' = "running" /\ cursor' = 1
  BY DEF Execute, TraceAtStart, Cleared, plan
<1>2. DOMAIN call' = DOMAIN c /\ call'.tag = calls + 1 /\ call'.captures = c.captures
  BY <1>1
<1>3. Past' = {}
  BY <1>1 DEF Past
<1>4. trace' = [ n \in Past' |-> order'[n] ]
  BY <1>1, <1>3
<1>5. DOMAIN captured' = ({ Result(order[n]) : n \in Past } \cap Captures)'
  BY <1>1, <1>3 DEF Empty
<1>6. IsPlanned' /\ Len(order') \in Nat
  BY <1>1 DEF CallInv, IsPlanned, Operations, Result
<1>7. /\ cursor' \in Nat /\ status' \in {"ready", "running"}
      /\ status' = "running" => cursor' \in 1 .. Len(order') + 1
      /\ DOMAIN call' = {"tag", "inputs", "parameters", "captures"}
      /\ calls' \in Nat /\ call'.tag = calls' /\ executed' = FALSE
  BY <1>1, <1>2, <1>6 DEF CallInv
<1>8. CallInv'
  BY <1>4, <1>5, <1>6, <1>7 DEF CallInv
<1>9. QED
  BY <1>1, <1>2, <1>7, <1>8

(***************************************************************************)
(* The benchmark.                                                          *)
(***************************************************************************)

\* A step of the session does not change what the benchmark has noted.
LEMMA SessionStepKeeps ==
  ASSUME BenchInv, SessionStep
  PROVE  BenchInv'
<1>1. /\ CallInv' /\ status \in {"unloaded", "running"}
      /\ UNCHANGED << graph, order, call, calls, bench, operations, end_to_end >>
  BY SessionStepTraces DEF BenchInv
<1>2. UNCHANGED << Done, Remaining >> /\ \A n : UNCHANGED << Times(n), SamplesOf(n) >>
  BY <1>1 DEF Done, InWarmup, Remaining, Times, SamplesOf
<1>3. bench.phase = "calling" => bench.called
  BY <1>1 DEF BenchInv, CallingInv
<1>4. ~executed /\ bench.phase # "returned"
  BY <1>1 DEF BenchInv, CallInv, ReturnedInv
<1>5. TypeInv'
  BY <1>1 DEF BenchInv, TypeInv
<1>6. CallingInv'
  BY <1>1, <1>2, <1>3 DEF BenchInv, CallingInv
<1>7. bench.status = "none"
  BY <1>4 DEF BenchInv, ReturnedInv, CallingInv, TypeInv
<1>8. ReturnedInv'
  BY <1>1, <1>4, <1>7 DEF ReturnedInv
<1>9. QED
  BY <1>1, <1>5, <1>6, <1>8 DEF BenchInv

\* Asking for a benchmark keeps the invariant.
LEMMA BenchmarkRuntimeKeeps ==
  ASSUME BenchInv, NEW c \in Calls, NEW o \in Options, BenchmarkRuntime(c, o)
  PROVE  BenchInv'
<1>1. /\ status = "ready" /\ UNCHANGED << graph, order, status, call, cursor, trace, captured,
                                         executed, calls >>
      /\ operations' = << >> /\ end_to_end' = << >>
  BY DEF BenchmarkRuntime, vars, plan
<1>2. /\ bench'.phase = (IF ValidOptions(o) THEN "calling" ELSE "returned")
      /\ bench'.status = (IF ValidOptions(o) THEN "none" ELSE "invalid")
      /\ bench'.args = [ c EXCEPT !.captures = {} ] /\ bench'.before = calls
      /\ bench'.warmups = o.warmups /\ bench'.measured = o.measured
      /\ bench'.iteration = 0 /\ bench'.called = FALSE
      /\ DOMAIN bench' = {"phase", "status", "args", "before", "warmups", "measured",
                          "iteration", "called"}
  BY DEF BenchmarkRuntime, NoBenchmark
<1>3. /\ DOMAIN bench'.args = {"tag", "inputs", "parameters", "captures"}
      /\ bench'.args.captures = {}
  BY <1>2, CallsAssumption
<1>4. o.warmups \in Nat /\ o.measured \in Nat /\ (ValidOptions(o) => o.measured >= 1)
  BY OptionsAssumption DEF ValidOptions
<1>5. CallInv'
  BY <1>1 DEF BenchInv, CallInv, IsPlanned, Operations, Result, Past, Captures
<1>6. calls \in Nat
  BY DEF BenchInv, CallInv
<1>7. TypeInv'
  <2>1. bench'.phase \in {"calling", "returned"} /\ bench'.status \in {"none", "invalid"}
    BY <1>2
  <2>2. /\ bench'.phase \in {"none", "calling", "returned"}
        /\ bench'.status \in {"none", "ok", "failed", "invalid"}
    BY <2>1
  <2>3. bench'.before \in Nat /\ bench'.warmups \in Nat /\ bench'.measured \in Nat
    BY <1>2, <1>4, <1>6
  <2>4. bench'.iteration \in Nat /\ bench'.called \in BOOLEAN
    BY DEF BenchmarkRuntime, NoBenchmark
  <2>5. QED
    BY <1>2, <2>2, <2>3, <2>4 DEF TypeInv
<1>8. Done' = 0
  BY <1>2, <1>4 DEF Done, InWarmup
<1>9. CallingInv'
  <2>1. Times(0)' = << >>
    BY DEF Times
  <2>2. calls' = bench'.before + bench'.iteration + 0
    BY <1>1, <1>2, <1>6
  <2>3. QED
    BY <1>1, <1>2, <1>3, <1>4, <1>8, <2>1, <2>2 DEF CallingInv
<1>10. ReturnedInv'
  BY <1>1, <1>2 DEF ReturnedInv
<1>11. QED
  BY <1>5, <1>7, <1>9, <1>10 DEF BenchInv

\* So does starting a warmup or a measured iteration.
LEMMA IterateKeeps ==
  ASSUME BenchInv, Iterate
  PROVE  BenchInv'
<1>1. /\ bench.phase = "calling" /\ ~bench.called /\ Remaining /\ Execute(bench.args)
      /\ bench' = [ bench EXCEPT !.called = TRUE ]
      /\ UNCHANGED << operations, end_to_end >>
  BY DEF Iterate
<1>2. /\ DOMAIN bench.args = {"tag", "inputs", "parameters", "captures"}
      /\ bench.args.captures = {}
  BY <1>1 DEF BenchInv, CallingInv
<1>3. /\ CallInv' /\ calls' = calls + 1 /\ call'.captures = {}
      /\ UNCHANGED << graph, order >>
  BY <1>1, <1>2, ExecuteClears DEF BenchInv
<1>4. /\ TypeInv' /\ bench'.called = TRUE
      /\ bench'.phase = bench.phase /\ bench'.status = bench.status
      /\ bench'.args = bench.args /\ bench'.before = bench.before
      /\ bench'.warmups = bench.warmups /\ bench'.measured = bench.measured
      /\ bench'.iteration = bench.iteration
  BY <1>1 DEF BenchInv, TypeInv
<1>5. UNCHANGED << Done, Remaining >> /\ \A n : UNCHANGED << Times(n), SamplesOf(n) >>
  BY <1>3, <1>4 DEF Done, InWarmup, Remaining, Times, SamplesOf
<1>6. calls' = bench'.before + bench'.iteration + 1
  BY <1>1, <1>3, <1>4 DEF BenchInv, CallingInv, TypeInv
<1>7. CallingInv'
  BY <1>1, <1>2, <1>3, <1>4, <1>5, <1>6 DEF BenchInv, CallingInv
<1>8. ReturnedInv'
  BY <1>1, <1>4 DEF BenchInv, CallingInv, ReturnedInv
<1>9. QED
  BY <1>3, <1>4, <1>7, <1>8 DEF BenchInv

\* So does a call of execute outside a benchmark.
LEMMA ExecuteAloneKeeps ==
  ASSUME BenchInv, NEW c \in Calls, ExecuteAlone(c)
  PROVE  BenchInv'
<1>1. CallInv'
  BY CallsAssumption, ExecuteClears DEF ExecuteAlone, BenchInv
<1>2. bench' = NoBenchmark
  BY DEF ExecuteAlone
<1>3. QED
  BY <1>1, <1>2 DEF BenchInv, TypeInv, CallingInv, ReturnedInv, NoBenchmark

----------------------------------------------------------------------------
(* After a call.                                                           *)

\* The trace of a call that succeeded is the schedule, so the samples of the
\* next call are those of the schedule too.
LEMMA SamplesGrow ==
  ASSUME BenchInv, bench.phase = "calling", bench.called, executed, ~InWarmup
  PROVE  /\ SameContract
         /\ WithSamples = SamplesOf(Done + 1)
         /\ Append(end_to_end, calls) = Times(Done + 1)
<1>1. /\ Done \in Nat /\ Done = bench.iteration - bench.warmups
      /\ bench.before \in Nat /\ bench.warmups \in Nat /\ bench.iteration \in Nat
  BY DEF BenchInv, TypeInv, Done, InWarmup
<1>2. trace = order /\ Len(order) \in Nat /\ DOMAIN order = 1 .. Len(order)
      /\ order = [ n \in 1 .. Len(order) |-> order[n] ]
  BY DEF BenchInv, CallInv, IsPlanned, Past
<1>3. calls = bench.before + bench.warmups + Done + 1
  BY <1>1 DEF BenchInv, CallingInv
<1>4. Append(end_to_end, calls) = Times(Done + 1)
  BY <1>1, <1>3 DEF BenchInv, CallingInv, Times
<1>5. Append(Times(Done), calls) = Times(Done + 1)
  BY <1>1, <1>3 DEF Times
<1>6. Named = [ n \in DOMAIN order |-> [ operation |-> order[n], elapsed |-> Times(Done) ] ]
  <2>1. CASE Done = 0
    <3>1. Times(Done) = << >> /\ operations = << >>
      BY <2>1 DEF Times, BenchInv, CallingInv
    <3>2. QED
      BY <3>1, <1>2 DEF Named
  <2>2. CASE Done # 0
    <3>1. operations = [ n \in DOMAIN order |-> [ operation |-> order[n], elapsed |-> Times(Done) ] ]
      BY <2>2 DEF BenchInv, CallingInv, SamplesOf
    <3>2. CASE operations # << >>
      BY <3>1, <3>2 DEF Named
    <3>3. CASE operations = << >>
      <4>1. DOMAIN order = {}
        <5>1. DOMAIN operations = {}
          BY <3>3
        <5>2. QED
          BY <3>1, <5>1
      <4>2. Named = [ n \in {} |-> [ operation |-> trace[n], elapsed |-> << >> ] ]
        BY <3>3, <4>1, <1>2 DEF Named
      <4>3. QED
        BY <4>1, <4>2
    <3>4. QED
      BY <3>2, <3>3
  <2>3. QED
    BY <2>1, <2>2
<1>7. SameContract
  <2>1. Len(Named) = Len(order)
    BY <1>2, <1>6
  <2>2. QED
    BY <1>2, <1>6, <2>1 DEF SameContract
<1>8. WithSamples = SamplesOf(Done + 1)
  <2>1. DOMAIN Named = DOMAIN order
    BY <1>6
  <2>2. ASSUME NEW n \in DOMAIN order
        PROVE  [ Named[n] EXCEPT !.elapsed = Append(@, calls) ]
                 = [ operation |-> order[n], elapsed |-> Times(Done + 1) ]
    <3>1. Named[n] = [ operation |-> order[n], elapsed |-> Times(Done) ]
      BY <1>6
    <3>2. Append(Named[n].elapsed, calls) = Times(Done + 1)
      BY <3>1, <1>5
    <3>3. QED
      BY <3>1, <3>2
  <2>3. QED
    BY <2>1, <2>2 DEF WithSamples, SamplesOf
<1>9. QED
  BY <1>4, <1>7, <1>8

\* So does the end of an iteration, timed or not.
LEMMA AfterExecuteKeeps ==
  ASSUME BenchInv, AfterExecute
  PROVE  BenchInv'
<1>1. /\ bench.phase = "calling" /\ bench.called /\ status = "ready" /\ Remaining
      /\ UNCHANGED << graph, order, status, call, cursor, trace, captured, executed, calls >>
  BY DEF AfterExecute, vars, plan, BenchInv, CallingInv
<1>2. CallInv'
  BY <1>1 DEF BenchInv, CallInv, IsPlanned, Operations, Result, Past, Captures
<1>3. /\ bench.before \in Nat /\ bench.warmups \in Nat /\ bench.iteration \in Nat
      /\ bench.measured \in Nat
  BY DEF BenchInv, TypeInv
<1>4. ASSUME bench' = Returned("failed"), ~executed
      PROVE  BenchInv'
  <2>1. TypeInv' /\ bench'.phase = "returned" /\ bench'.status = "failed"
    BY <1>4 DEF BenchInv, TypeInv, Returned
  <2>2. CallingInv' /\ ReturnedInv'
    BY <1>1, <1>4, <2>1 DEF CallingInv, ReturnedInv
  <2>3. QED
    BY <1>2, <2>1, <2>2 DEF BenchInv
<1>5. ASSUME bench' = NextIteration, executed,
             end_to_end' = Times(Done'), operations' = IF Done' = 0 THEN << >> ELSE SamplesOf(Done')
      PROVE  BenchInv'
  <2>1. /\ TypeInv' /\ bench'.phase = "calling" /\ bench'.status = bench.status
        /\ bench'.args = bench.args /\ bench'.before = bench.before
        /\ bench'.warmups = bench.warmups /\ bench'.measured = bench.measured
        /\ bench'.iteration = bench.iteration + 1 /\ bench'.called = FALSE
    BY <1>1, <1>3, <1>5 DEF BenchInv, TypeInv, NextIteration
  <2>2. \A n : UNCHANGED << Times(n), SamplesOf(n) >>
    BY <1>1, <2>1 DEF Times, SamplesOf
  <2>3. end_to_end' = Times(Done)' /\ operations' = (IF Done = 0 THEN << >> ELSE SamplesOf(Done))'
    BY <1>5, <2>2
  <2>4. calls' = bench'.before + bench'.iteration + 0 /\ bench'.iteration <= bench'.warmups + bench'.measured
    BY <1>1, <1>3, <2>1 DEF BenchInv, CallingInv, Remaining
  <2>5. call'.captures = {} /\ executed' /\ status' = "ready"
    BY <1>1, <1>5 DEF BenchInv, CallingInv
  <2>6. CallingInv'
    BY <1>1, <2>1, <2>3, <2>4, <2>5 DEF BenchInv, CallingInv
  <2>7. ReturnedInv'
    BY <1>1, <2>1 DEF BenchInv, CallingInv, ReturnedInv
  <2>8. QED
    BY <1>2, <2>1, <2>6, <2>7 DEF BenchInv
<1>6. CASE ~executed
  BY <1>4, <1>6 DEF AfterExecute
<1>7. CASE executed /\ InWarmup
  <2>1. bench' = NextIteration /\ UNCHANGED << operations, end_to_end >>
    BY <1>7 DEF AfterExecute
  <2>2. bench'.warmups = bench.warmups /\ bench'.iteration = bench.iteration + 1
    BY <2>1 DEF BenchInv, TypeInv, NextIteration
  <2>3. Done = 0 /\ Done' = 0
    BY <2>2, <1>3, <1>7 DEF Done, InWarmup
  <2>4. end_to_end' = Times(Done') /\ operations' = << >>
    BY <1>1, <2>1, <2>3 DEF BenchInv, CallingInv
  <2>5. QED
    BY <1>5, <1>7, <2>1, <2>3, <2>4
<1>8. CASE executed /\ ~InWarmup
  <2>1. SameContract /\ WithSamples = SamplesOf(Done + 1) /\ Append(end_to_end, calls) = Times(Done + 1)
    BY <1>1, <1>8, SamplesGrow
  <2>2. bench' = NextIteration /\ operations' = SamplesOf(Done + 1) /\ end_to_end' = Times(Done + 1)
    BY <1>8, <2>1 DEF AfterExecute
  <2>3. bench'.warmups = bench.warmups /\ bench'.iteration = bench.iteration + 1
    BY <2>2 DEF BenchInv, TypeInv, NextIteration
  <2>4. Done' = Done + 1 /\ Done' # 0
    BY <2>3, <1>3, <1>8 DEF Done, InWarmup
  <2>5. QED
    BY <1>5, <1>8, <2>2, <2>4
<1>9. QED
  BY <1>6, <1>7, <1>8

\* So does the return of the benchmark with its samples.
LEMMA ReturnKeeps ==
  ASSUME BenchInv, Return
  PROVE  BenchInv'
<1>1. /\ bench.phase = "calling" /\ ~bench.called /\ ~Remaining /\ bench' = Returned("ok")
      /\ UNCHANGED << graph, order, status, call, cursor, trace, captured, executed, calls,
                      operations, end_to_end >>
  BY DEF Return, vars, plan
<1>2. CallInv'
  BY <1>1 DEF BenchInv, CallInv, IsPlanned, Operations, Result, Past, Captures
<1>3. /\ TypeInv' /\ bench'.phase = "returned" /\ bench'.status = "ok"
      /\ bench'.before = bench.before /\ bench'.warmups = bench.warmups
      /\ bench'.measured = bench.measured
  BY <1>1 DEF BenchInv, TypeInv, Returned
<1>4. bench.measured >= 1 /\ bench.iteration = bench.warmups + bench.measured
  BY <1>1 DEF BenchInv, CallingInv, TypeInv, Remaining
<1>5. /\ bench.before \in Nat /\ bench.warmups \in Nat /\ bench.measured \in Nat
      /\ bench.iteration \in Nat
  BY DEF BenchInv, TypeInv
<1>6. Done = bench.measured
  BY <1>4, <1>5 DEF Done, InWarmup
<1>7. calls = bench.before + bench.warmups + bench.measured
  BY <1>1, <1>4, <1>5 DEF BenchInv, CallingInv
<1>8. /\ end_to_end = Times(bench.measured) /\ operations = SamplesOf(bench.measured)
      /\ executed /\ call.captures = {} /\ status = "ready"
  BY <1>1, <1>4, <1>5, <1>6 DEF BenchInv, CallingInv
<1>9. \A n : UNCHANGED << Times(n), SamplesOf(n) >>
  BY <1>1, <1>3 DEF Times, SamplesOf
<1>10. ReturnedInv'
  BY <1>1, <1>3, <1>4, <1>7, <1>8, <1>9 DEF ReturnedInv
<1>11. QED
  BY <1>2, <1>3, <1>10 DEF BenchInv, CallingInv

(***************************************************************************)
(* The theorem.                                                            *)
(***************************************************************************)

\* A session that has just been created has no samples and no calls.
LEMMA BenchInvInit == Init /\ BenchInit => BenchInv
<1> SUFFICES ASSUME Init, BenchInit PROVE BenchInv
  OBVIOUS
<1>1. CallInv
  <2>1. Past = {} /\ trace = [ n \in Past |-> order[n] ]
    BY DEF Init, Past
  <2>2. DOMAIN captured = {}
    BY DEF Init, Empty
  <2>3. DOMAIN captured = { Result(order[n]) : n \in Past } \cap Captures
    BY <2>1, <2>2
  <2>4. QED
    BY <2>1, <2>3 DEF Init, BenchInit, CallInv, NoCall
<1>2. QED
  BY <1>1 DEF BenchInit, BenchInv, TypeInv, CallingInv, ReturnedInv, NoBenchmark

\* Every step keeps the invariant.
LEMMA BenchInvNext == BenchInv /\ [BenchNext]_<< vars, benchVars >> => BenchInv'
<1> SUFFICES ASSUME BenchInv, [BenchNext]_<< vars, benchVars >> PROVE BenchInv'
  OBVIOUS
<1>1. ASSUME UNCHANGED << vars, benchVars >> PROVE BenchInv'
  <2>1. UNCHANGED << graph, order, status, call, cursor, trace, captured, executed, calls,
                     bench, operations, end_to_end >>
    BY <1>1 DEF vars, plan, benchVars
  <2>2. CallInv'
    BY <2>1 DEF BenchInv, CallInv, IsPlanned, Operations, Result, Past, Captures
  <2>3. UNCHANGED << Done, Remaining >> /\ \A n : UNCHANGED << Times(n), SamplesOf(n) >>
    BY <2>1 DEF Done, InWarmup, Remaining, Times, SamplesOf
  <2>4. TypeInv' /\ CallingInv' /\ ReturnedInv'
    BY <2>1, <2>3 DEF BenchInv, TypeInv, CallingInv, ReturnedInv
  <2>5. QED
    BY <2>2, <2>4 DEF BenchInv
<1>2. QED
  BY <1>1, SessionStepKeeps, BenchmarkRuntimeKeeps, IterateKeeps, ExecuteAloneKeeps,
     AfterExecuteKeeps, ReturnKeeps DEF BenchNext

\* SamplesLineUp for every session and all options.
THEOREM SamplesLineUpHolds == BenchSpec => []SamplesLineUp
<1>1. ASSUME BenchInv PROVE SamplesLineUp
  <2>1. bench.status # "internal"
    BY <1>1 DEF BenchInv, TypeInv
  <2>2. ASSUME bench.status = "failed", NEW v \in DOMAIN graph.values
        PROVE  GetValue(v) = Unavailable
    BY <1>1, <2>2 DEF BenchInv, ReturnedInv, GetValue
  <2>3. ASSUME bench.status = "ok"
        PROVE  LET measured == [ k \in 1 .. bench.measured |-> bench.before + bench.warmups + k ]
               IN  /\ operations = [ n \in DOMAIN order |->
                                       [ operation |-> order[n], elapsed |-> measured ] ]
                   /\ end_to_end = measured
                   /\ executed /\ call.tag = measured[bench.measured]
                   /\ DOMAIN captured = graph.outputs
    <3>1. /\ bench.measured \in Nat /\ bench.measured >= 1
          /\ calls = bench.before + bench.warmups + bench.measured
          /\ end_to_end = Times(bench.measured) /\ operations = SamplesOf(bench.measured)
          /\ executed /\ call.captures = {}
      BY <1>1, <2>3 DEF BenchInv, ReturnedInv, TypeInv
    <3>2. call.tag = Times(bench.measured)[bench.measured]
      BY <1>1, <3>1 DEF Times, BenchInv, CallInv
    <3>3. DOMAIN captured = graph.outputs
      <4>1. Past = DOMAIN order
        BY <1>1, <3>1 DEF BenchInv, CallInv, IsPlanned, Past
      <4>2. Captures = graph.outputs
        BY <3>1 DEF Captures
      <4>3. QED
        BY <1>1, <4>1, <4>2 DEF BenchInv, CallInv, IsPlanned
    <3>4. QED
      BY <3>1, <3>2, <3>3 DEF Times, SamplesOf
  <2>4. QED
    BY <2>1, <2>2, <2>3 DEF SamplesLineUp
<1>2. QED
  BY <1>1, BenchInvInit, BenchInvNext, PTL DEF BenchSpec

(***************************************************************************)
(* Files and processes: the inductive invariant.                           *)
(***************************************************************************)

WritesAt(p, n) == procs[p].steps[n].do = "write"

FileAt(p, n) == procs[p].steps[n].file

\* No step after the n-th writes its file.
LastOn(p, n) ==
  \A m \in DOMAIN procs[p].steps : m > n /\ WritesAt(p, m) => FileAt(p, m) # FileAt(p, n)

Behind(p) == 1 .. procs[p].at - 1

IsProcess(p) ==
  /\ DOMAIN procs[p] = {"command", "steps", "at", "open", "failed", "exit"}
  /\ procs[p].steps = GivenSteps(procs[p].command)
  /\ Benchmark(procs[p].command) \/ (Cli(p) /\ procs[p].command.base # Run)
  /\ procs[p].at \in 1 .. Len(procs[p].steps) + 1
  /\ procs[p].open \in BOOLEAN /\ procs[p].failed \in BOOLEAN
  /\ Written(procs[p].steps) \subseteq Paths

ProcsInv == DOMAIN procs = Processes /\ \A p \in Processes : IsProcess(p)

\* A file is of a process that has come to write it.
FilesInv ==
  /\ DOMAIN files = Paths
  /\ \A f \in Paths : files[f] \in [ by : Processes \cup {0}, state : {"absent", "part", "whole"} ]
  /\ \A p \in Processes, f \in Paths :
       files[f].by = p =>
         \E n \in DOMAIN procs[p].steps : n <= procs[p].at /\ WritesAt(p, n) /\ FileAt(p, n) = f
  /\ faults \in Nat

\* What a native command has behind it.
CommandInv(p) ==
  /\ ~procs[p].failed => \A n \in Behind(p) :
       WritesAt(p, n) => files[FileAt(p, n)].by = p /\ (Whole(FileAt(p, n)) \/ faults > 0)
  /\ \A n \in Behind(p) :
       procs[p].steps[n].do = "read" /\ FileAt(p, n) \in Written(procs[p].steps) /\ LastOn(p, n)
         => Whole(FileAt(p, n))
  /\ procs[p].failed =>
       \E m \in DOMAIN procs[p].steps : m >= procs[p].at /\ procs[p].steps[m].do = "check"
  /\ \A n \in Behind(p) : procs[p].steps[n].do # "refuse"
  /\ procs[p].exit = "success" => procs[p].at = Len(procs[p].steps) + 1

CommandsInv == \A p \in Processes : Cli(p) /\ Alone(p) => CommandInv(p)

\* What the n-th step leaves whole, for good.
Lasts(p, n) ==
  /\ \/ procs[p].steps[n].do = "read"
     \/ WritesAt(p, n) /\ procs[p].steps[n].flushChecked /\ procs[p].steps[n].onError = "stop"
  /\ LastOn(p, n) /\ FileAt(p, n) \in DirectoryFiles

\* The directory belongs to the one run that has claimed it.
ClaimInv(p) ==
  /\ directory
  /\ \A q \in Processes \ mixed : Claimed(q) => q = p
  /\ \A f \in DirectoryFiles : files[f] = Absent \/ files[f].by = p
  /\ \A n \in Behind(p) : Lasts(p, n) => files[FileAt(p, n)] = File(p, "whole")
  /\ procs[p].at > 21 => hashed[p] = [ f \in Listed |-> File(p, "whole") ]

DirectoryInv ==
  /\ DOMAIN hashed = Processes
  /\ ~directory => \A f \in DirectoryFiles : files[f] = Absent
  /\ \A p \in Processes \ mixed : Claimed(p) => ClaimInv(p)

RunnerInv == ProcsInv /\ FilesInv /\ CommandsInv /\ DirectoryInv

(***************************************************************************)
(* The steps of the commands.                                              *)
(***************************************************************************)

\* The elements of a concatenation are those of its two parts.
LEMMA ConcatIs ==
  ASSUME NEW S, NEW s \in Seq(S), NEW t \in Seq(S)
  PROVE  /\ s \o t \in Seq(S) /\ Len(s \o t) = Len(s) + Len(t)
         /\ \A n \in 1 .. Len(s) : (s \o t)[n] = s[n]
         /\ \A n \in 1 .. Len(t) : (s \o t)[Len(s) + n] = t[n]
<1>1. Len(s) \in Nat /\ Len(t) \in Nat
  OBVIOUS
<1>2. QED
  BY <1>1, ConcatProperties

\* The steps of optimize, one by one.
LEMMA OptimizeStepsAre ==
  ASSUME NEW in, NEW base
  PROVE  /\ Len(OptimizeSteps(in, base)) = 7
         /\ OptimizeSteps(in, base)[1] = Read(in)
         /\ OptimizeSteps(in, base)[2] = Write(Part(base, "graph"), "later")
         /\ OptimizeSteps(in, base)[3] = Write(Part(base, "pass_report"), "later")
         /\ OptimizeSteps(in, base)[4] = Write(Part(base, "before_dot"), "later")
         /\ OptimizeSteps(in, base)[5] = Write(Part(base, "after_dot"), "later")
         /\ OptimizeSteps(in, base)[6] = CheckWrites
         /\ OptimizeSteps(in, base)[7] = Read(Part(base, "graph"))
         /\ DOMAIN OptimizeSteps(in, base) = 1 .. 7
BY DEF OptimizeSteps

\* The steps of plan-memory, one by one.
LEMMA PlanMemoryStepsAre ==
  ASSUME NEW in, NEW base
  PROVE  /\ Len(PlanMemorySteps(in, base)) = 5
         /\ DOMAIN PlanMemorySteps(in, base) = 1 .. 5
         /\ PlanMemorySteps(in, base)[1] = Read(in)
         /\ \A k \in 1 .. 4 :
              PlanMemorySteps(in, base)[k + 1]
                = Write(Part(base, << "schedule", "memory_plan", "csv", "svg" >>[k]), "stop")
<1> DEFINE first == << Read(in) >>
           rest  == [ k \in 1 .. 4 |->
                        Write(Part(base, << "schedule", "memory_plan", "csv", "svg" >>[k]), "stop") ]
           S     == {Read(in)} \cup { rest[k] : k \in 1 .. 4 }
<1>1. Len(first) = 1 /\ first[1] = Read(in) /\ first \in Seq(S)
  OBVIOUS
<1>2. rest \in Seq(S) /\ Len(rest) = 4
  OBVIOUS
<1> HIDE DEF first, rest, S
<1> DEFINE steps == first \o rest
<1>3. /\ steps \in Seq(S) /\ Len(steps) = Len(first) + Len(rest)
      /\ \A n \in 1 .. Len(first) : steps[n] = first[n]
      /\ \A n \in 1 .. Len(rest) : steps[Len(first) + n] = rest[n]
  <2>1. first \in Seq(S) /\ rest \in Seq(S)
    BY <1>1, <1>2
  <2>2. QED
    BY <2>1, ConcatIs
<1> HIDE DEF steps
<1>4. Len(steps) = 5 /\ DOMAIN steps = 1 .. 5 /\ steps[1] = first[1]
  BY <1>1, <1>2, <1>3
<1>5. ASSUME NEW k \in 1 .. 4 PROVE steps[k + 1] = rest[k]
  <2>1. Len(first) + k = k + 1
    BY <1>1
  <2>2. QED
    BY <1>2, <1>3, <2>1
<1>6. PlanMemorySteps(in, base) = steps
  BY DEF PlanMemorySteps, steps, first, rest
<1>7. QED
  BY <1>1, <1>4, <1>5, <1>6 DEF rest

\* What the proofs use of a native command: it never writes a file twice, and a
\* check follows the writes whose errors are kept for it.
LEMMA CommandStepsAre ==
  ASSUME NEW c, IsCli(c)
  PROVE  LET steps == StepsOf(c)
         IN  /\ Len(steps) \in Nat /\ DOMAIN steps = 1 .. Len(steps)
             /\ \A n \in DOMAIN steps :
                  steps[n].do \in {"read", "write", "check", "refuse", "verdict", "parse"}
             /\ \A n \in DOMAIN steps : steps[n].do = "write" => steps[n].file[1] = c.base
             /\ \A n, m \in DOMAIN steps :
                  steps[n].do = "write" /\ steps[m].do = "write" /\ n # m
                    => steps[n].file # steps[m].file
             /\ \A n \in DOMAIN steps :
                  steps[n].do = "write" /\ steps[n].onError # "stop"
                    => \E m \in DOMAIN steps : m > n /\ steps[m].do = "check"
             /\ c.name = "optimize" =>
                  \/ steps[1].do = "refuse" /\ Len(steps) = 1
                  \/ /\ Len(steps) = 7 /\ steps[7] = Read(Part(c.base, "graph"))
                     /\ Part(c.base, "graph") \in Written(steps)
<1> DEFINE steps == StepsOf(c)
<1>1. CASE c.name = "optimize" /\ c.in = Part(c.base, "graph")
  <2>1. steps = << [ do |-> "refuse" ] >>
    BY <1>1 DEF StepsOf
  <2>2. QED
    BY <2>1, <1>1
<1>2. CASE c.name = "optimize" /\ c.in # Part(c.base, "graph")
  <2>1. steps = OptimizeSteps(c.in, c.base)
    BY <1>2 DEF StepsOf
  <2> HIDE DEF steps
  <2>2. /\ Len(steps) = 7 /\ DOMAIN steps = 1 .. 7
        /\ steps[1].do = "read" /\ steps[6].do = "check" /\ steps[7] = Read(Part(c.base, "graph"))
        /\ steps[7].do = "read"
        /\ \A n \in 2 .. 5 : steps[n].do = "write" /\ steps[n].file[1] = c.base
        /\ steps[2].file[2] = "graph" /\ steps[3].file[2] = "pass_report"
        /\ steps[4].file[2] = "before_dot" /\ steps[5].file[2] = "after_dot"
        /\ steps[2].file = Part(c.base, "graph")
    <3>1. \A f, e : Write(f, e).do = "write" /\ Write(f, e).file = f
      BY DEF Write
    <3>2. \A f : Read(f).do = "read"
      BY DEF Read
    <3>3. \A part : Part(c.base, part)[1] = c.base /\ Part(c.base, part)[2] = part
      BY DEF Part
    <3>4. CheckWrites.do = "check"
      BY DEF CheckWrites
    <3>5. QED
      BY <2>1, <3>1, <3>2, <3>3, <3>4, OptimizeStepsAre
  <2>3. \A n \in DOMAIN steps : steps[n].do = "write" => n \in 2 .. 5
    BY <2>2
  <2>4. \A n, m \in 2 .. 5 : n # m => steps[n].file # steps[m].file
    BY <2>2
  <2>5. \A n \in DOMAIN steps :
          steps[n].do \in {"read", "write", "check", "refuse", "verdict", "parse"}
    BY <2>2
  <2>6. Part(c.base, "graph") \in Written(steps)
    BY <2>2 DEF Written, FilesOf
  <2>7. QED
    BY <2>2, <2>3, <2>4, <2>5, <2>6 DEF steps
<1>3. CASE c.name = "plan-memory"
  <2>1. steps = PlanMemorySteps(c.in, c.base)
    BY <1>3 DEF StepsOf
  <2> HIDE DEF steps
  <2>2. /\ Len(steps) = 5 /\ DOMAIN steps = 1 .. 5
        /\ steps[1].do = "read"
        /\ \A n \in 2 .. 5 : /\ steps[n].do = "write" /\ steps[n].file[1] = c.base
                             /\ steps[n].onError = "stop"
        /\ steps[2].file[2] = "schedule" /\ steps[3].file[2] = "memory_plan"
        /\ steps[4].file[2] = "csv" /\ steps[5].file[2] = "svg"
    <3>1. \A f, e : Write(f, e).do = "write" /\ Write(f, e).file = f /\ Write(f, e).onError = e
      BY DEF Write
    <3>2. \A f : Read(f).do = "read"
      BY DEF Read
    <3>3. \A part : Part(c.base, part)[1] = c.base /\ Part(c.base, part)[2] = part
      BY DEF Part
    <3>4. /\ steps[2] = Write(Part(c.base, "schedule"), "stop")
          /\ steps[3] = Write(Part(c.base, "memory_plan"), "stop")
          /\ steps[4] = Write(Part(c.base, "csv"), "stop")
          /\ steps[5] = Write(Part(c.base, "svg"), "stop")
      BY <2>1, PlanMemoryStepsAre
    <3>5. QED
      BY <2>1, <3>1, <3>2, <3>3, <3>4, PlanMemoryStepsAre
  <2>3. \A n \in DOMAIN steps : steps[n].do = "write" => n \in 2 .. 5
    BY <2>2
  <2>4. \A n, m \in 2 .. 5 : n # m => steps[n].file # steps[m].file
    BY <2>2
  <2>5. QED
    BY <2>2, <2>3, <2>4, <1>3 DEF steps
<1>4. CASE c.name = "verify"
  <2>1. /\ steps = << Read(c.in), Write(Part(c.base, "verification"), "stop"),
                      [ do |-> "verdict" ] >>
    BY <1>4 DEF StepsOf, VerifySteps
  <2>2. QED
    BY <2>1, <1>4 DEF Read, Write, Part
<1>5. CASE c.name = "emit-mlir"
  <2>1. /\ steps = << Read(c.in), Write(Part(c.base, "mlir"), "stop"),
                      [ do |-> "parse", file |-> Part(c.base, "mlir") ] >>
    BY <1>5 DEF StepsOf, EmitMlirSteps
  <2>2. QED
    BY <2>1, <1>5 DEF Read, Write, Part
<1>6. QED
  BY <1>1, <1>2, <1>3, <1>4, <1>5 DEF IsCli
\* The same of a benchmark.
LEMMA BenchmarkStepsAre ==
  ASSUME NEW force
  PROVE  LET steps == BenchmarkSteps(force)
         IN  /\ Len(steps) = 22 /\ DOMAIN steps = 1 .. 22
             /\ steps[1] = Do(IF force THEN "force" ELSE "look")
             /\ steps[2] = Do("mkdir")
             /\ steps[3] = PythonWrite("config", FALSE)
             /\ steps[4] = PythonWrite("reference", TRUE)
             /\ steps[5] = PythonWrite("reference_manifest", FALSE)
             /\ steps[6] = Read(In("reference"))
             /\ steps[7] = PythonWrite("exported", TRUE)
             /\ \A n \in 1 .. 7 : steps[7 + n] = OptimizeSteps(In("exported"), Run)[n]
             /\ steps[15] = Read(In("reference")) /\ steps[16] = Read(In("graph"))
             /\ steps[17] = PythonWrite("measurements", FALSE)
             /\ steps[18] = Read(In("measurements"))
             /\ steps[19] = PythonWrite("csv", FALSE)
             /\ steps[20] = PythonWrite("html", FALSE)
             /\ steps[21] = Do("hash") /\ steps[22] = PythonWrite("manifest", FALSE)
<1> DEFINE before == << Do(IF force THEN "force" ELSE "look"), Do("mkdir"),
                        PythonWrite("config", FALSE), PythonWrite("reference", TRUE),
                        PythonWrite("reference_manifest", FALSE), Read(In("reference")),
                        PythonWrite("exported", TRUE) >>
           optimize == OptimizeSteps(In("exported"), Run)
           after == << Read(In("reference")), Read(In("graph")),
                       PythonWrite("measurements", FALSE), Read(In("measurements")),
                       PythonWrite("csv", FALSE), PythonWrite("html", FALSE),
                       Do("hash"), PythonWrite("manifest", FALSE) >>
           S == { before[n] : n \in 1 .. 7 } \cup { optimize[n] : n \in 1 .. 7 }
                  \cup { after[n] : n \in 1 .. 8 }
<1>1. /\ Len(before) = 7 /\ before[1] = Do(IF force THEN "force" ELSE "look")
      /\ before[2] = Do("mkdir") /\ before[3] = PythonWrite("config", FALSE)
      /\ before[4] = PythonWrite("reference", TRUE)
      /\ before[5] = PythonWrite("reference_manifest", FALSE)
      /\ before[6] = Read(In("reference")) /\ before[7] = PythonWrite("exported", TRUE)
      /\ before = [ n \in 1 .. 7 |-> before[n] ]
  OBVIOUS
<1>2. /\ Len(after) = 8 /\ after[1] = Read(In("reference")) /\ after[2] = Read(In("graph"))
      /\ after[3] = PythonWrite("measurements", FALSE) /\ after[4] = Read(In("measurements"))
      /\ after[5] = PythonWrite("csv", FALSE) /\ after[6] = PythonWrite("html", FALSE)
      /\ after[7] = Do("hash") /\ after[8] = PythonWrite("manifest", FALSE)
      /\ after = [ n \in 1 .. 8 |-> after[n] ]
  OBVIOUS
<1>3. Len(optimize) = 7 /\ optimize = [ n \in 1 .. 7 |-> optimize[n] ]
  BY DEF OptimizeSteps
<1>4. BenchmarkSteps(force) = (before \o optimize) \o after
  BY DEF BenchmarkSteps
<1> HIDE DEF before, optimize, after
<1>5. before \in Seq(S) /\ optimize \in Seq(S) /\ after \in Seq(S)
  <2>1. ASSUME NEW s, NEW k \in Nat, s = [ n \in 1 .. k |-> s[n] ], \A n \in 1 .. k : s[n] \in S
        PROVE  s \in Seq(S)
    <3>1. [ n \in 1 .. k |-> s[n] ] \in Seq(S)
      BY <2>1
    <3>2. QED
      BY <2>1, <3>1
  <2>2. QED
    BY <1>1, <1>2, <1>3, <2>1
<1> HIDE DEF S
<1> DEFINE both == before \o optimize
           steps == both \o after
<1>6. /\ both \in Seq(S) /\ Len(both) = 14
      /\ \A n \in 1 .. 7 : both[n] = before[n] /\ both[7 + n] = optimize[n]
  <2>1. /\ both \in Seq(S) /\ Len(both) = Len(before) + Len(optimize)
        /\ \A n \in 1 .. Len(before) : both[n] = before[n]
        /\ \A n \in 1 .. Len(optimize) : both[Len(before) + n] = optimize[n]
    BY <1>5, ConcatIs
  <2> HIDE DEF both
  <2>2. QED
    BY <2>1, <1>1, <1>3
<1> HIDE DEF both
<1>7. /\ steps \in Seq(S) /\ Len(steps) = 22
      /\ \A n \in 1 .. 14 : steps[n] = both[n]
      /\ \A n \in 1 .. 8 : steps[14 + n] = after[n]
  <2>1. /\ steps \in Seq(S) /\ Len(steps) = Len(both) + Len(after)
        /\ \A n \in 1 .. Len(both) : steps[n] = both[n]
        /\ \A n \in 1 .. Len(after) : steps[Len(both) + n] = after[n]
    <3>1. both \in Seq(S)
      BY <1>6
    <3>2. QED
      BY <3>1, <1>5, ConcatIs
  <2> HIDE DEF steps
  <2>2. QED
    BY <2>1, <1>2, <1>6
<1> HIDE DEF steps
<1>8. \A n \in 1 .. 7 : steps[n] = before[n] /\ steps[7 + n] = optimize[n]
  <2>1. ASSUME NEW n \in 1 .. 7 PROVE steps[n] = before[n] /\ steps[7 + n] = optimize[n]
    <3>1. n \in 1 .. 14 /\ 7 + n \in 1 .. 14
      OBVIOUS
    <3>2. steps[n] = both[n] /\ steps[7 + n] = both[7 + n]
      BY <3>1, <1>7
    <3>3. QED
      BY <3>2, <1>6
  <2>2. QED
    BY <2>1
<1>9. DOMAIN steps = 1 .. 22
  BY <1>7
<1>10. /\ steps[15] = after[1] /\ steps[16] = after[2] /\ steps[17] = after[3]
       /\ steps[18] = after[4] /\ steps[19] = after[5] /\ steps[20] = after[6]
       /\ steps[21] = after[7] /\ steps[22] = after[8]
  BY <1>7
<1>11. steps = BenchmarkSteps(force)
  BY <1>4 DEF steps, both
<1>12. /\ steps[1] = before[1] /\ steps[2] = before[2] /\ steps[3] = before[3]
       /\ steps[4] = before[4] /\ steps[5] = before[5] /\ steps[6] = before[6]
       /\ steps[7] = before[7]
  BY <1>8
<1>13. \A n \in 1 .. 7 : steps[7 + n] = OptimizeSteps(In("exported"), Run)[n]
  BY <1>8 DEF optimize
<1>14. Len(steps) = 22
  BY <1>7
<1>15. QED
  BY <1>1, <1>2, <1>9, <1>10, <1>11, <1>12, <1>13, <1>14
\* What the proofs use of a benchmark: what it does in the directory, it does
\* after claiming it, and the manifest comes last, after the files it lists.
LEMMA BenchmarkFacts ==
  ASSUME NEW force
  PROVE  LET steps == BenchmarkSteps(force)
         IN  /\ Len(steps) = 22 /\ DOMAIN steps = 1 .. 22
             /\ \A n \in 1 .. 22 :
                  /\ steps[n].do \in {"force", "look"} <=> n = 1
                  /\ steps[n].do = "mkdir" <=> n = 2
                  /\ steps[n].do = "hash" <=> n = 21
                  /\ steps[n].do # "refuse"
                  /\ steps[n].do = "write" => steps[n].file[1] = Run
                  /\ steps[n].do = "write" /\ steps[n].file = In("manifest") => n = 22
                  /\ steps[n].do = "write" /\ steps[n].onError # "stop" => n < 13
             /\ steps[13].do = "check"
             /\ \A f \in Listed : \E n \in 3 .. 20 :
                  /\ steps[n].file = f
                  /\ \/ steps[n].do = "read"
                     \/ steps[n].do = "write" /\ steps[n].flushChecked /\ steps[n].onError = "stop"
                  /\ \A m \in 1 .. 22 : m > n /\ steps[m].do = "write" => steps[m].file # f
<1> DEFINE steps == BenchmarkSteps(force)
           Python(n, part) == /\ steps[n].do = "write" /\ steps[n].file = In(part)
                              /\ steps[n].onError = "stop" /\ steps[n].flushChecked
           Native(n, part) == /\ steps[n].do = "write" /\ steps[n].file = In(part)
           Reading(n, part) == steps[n].do = "read" /\ steps[n].file = In(part)
<1>1. /\ Len(steps) = 22 /\ DOMAIN steps = 1 .. 22
      /\ steps[1].do \in {"force", "look"} /\ steps[2].do = "mkdir" /\ steps[21].do = "hash"
  <2>1. \A what : Do(what).do = what
    BY DEF Do
  <2>2. QED
    BY <2>1, BenchmarkStepsAre
<1>2. /\ Python(3, "config") /\ Python(4, "reference") /\ Python(5, "reference_manifest")
      /\ Python(7, "exported") /\ Python(17, "measurements") /\ Python(19, "csv")
      /\ Python(20, "html") /\ Python(22, "manifest")
  <2>1. ASSUME NEW n, NEW part, NEW parents, steps[n] = PythonWrite(part, parents)
        PROVE  Python(n, part)
    BY <2>1 DEF PythonWrite
  <2>2. /\ steps[3] = PythonWrite("config", FALSE) /\ steps[4] = PythonWrite("reference", TRUE)
        /\ steps[5] = PythonWrite("reference_manifest", FALSE)
        /\ steps[7] = PythonWrite("exported", TRUE)
        /\ steps[17] = PythonWrite("measurements", FALSE) /\ steps[19] = PythonWrite("csv", FALSE)
        /\ steps[20] = PythonWrite("html", FALSE) /\ steps[22] = PythonWrite("manifest", FALSE)
    BY BenchmarkStepsAre
  <2> HIDE DEF steps, Python
  <2>3. QED
    BY <2>1, <2>2
<1>3. /\ Reading(6, "reference") /\ Reading(15, "reference") /\ Reading(16, "graph")
      /\ Reading(18, "measurements")
  <2>1. \A f : Read(f).do = "read" /\ Read(f).file = f
    BY DEF Read
  <2>2. /\ steps[6] = Read(In("reference")) /\ steps[15] = Read(In("reference"))
        /\ steps[16] = Read(In("graph")) /\ steps[18] = Read(In("measurements"))
    BY BenchmarkStepsAre
  <2> HIDE DEF steps
  <2>3. QED
    BY <2>1, <2>2
<1>4. /\ Reading(8, "exported") /\ Reading(14, "graph") /\ steps[13].do = "check"
      /\ Native(9, "graph") /\ Native(10, "pass_report") /\ Native(11, "before_dot")
      /\ Native(12, "after_dot")
  <2> DEFINE native == OptimizeSteps(In("exported"), Run)
  <2>1. /\ steps[7 + 1] = native[1] /\ steps[7 + 2] = native[2] /\ steps[7 + 3] = native[3]
        /\ steps[7 + 4] = native[4] /\ steps[7 + 5] = native[5] /\ steps[7 + 6] = native[6]
        /\ steps[7 + 7] = native[7]
    <3>1. \A n \in 1 .. 7 : steps[7 + n] = native[n]
      BY BenchmarkStepsAre
    <3> HIDE DEF steps, native
    <3>2. QED
      BY <3>1
  <2>2. \A f : Read(f).do = "read" /\ Read(f).file = f
    BY DEF Read
  <2>3. \A f, e : Write(f, e).do = "write" /\ Write(f, e).file = f
    BY DEF Write
  <2>4. CheckWrites.do = "check"
    BY DEF CheckWrites
  <2>5. /\ native[1] = Read(In("exported")) /\ native[2] = Write(In("graph"), "later")
        /\ native[3] = Write(In("pass_report"), "later")
        /\ native[4] = Write(In("before_dot"), "later")
        /\ native[5] = Write(In("after_dot"), "later")
        /\ native[6] = CheckWrites /\ native[7] = Read(In("graph"))
    BY OptimizeStepsAre DEF In
  <2> HIDE DEF steps, native
  <2>6. QED
    BY <2>1, <2>2, <2>3, <2>4, <2>5
<1> HIDE DEF steps
<1>5. \A n \in 1 .. 22 : n \in {1, 2, 3, 4, 5, 6, 7, 8, 9, 10, 11, 12, 13, 14, 15, 16, 17, 18,
                                19, 20, 21, 22}
  OBVIOUS
<1>6. /\ \A part : In(part)[1] = Run /\ In(part)[2] = part
  BY DEF In, Part
<1>7. \A n \in 1 .. 22 :
        steps[n].do = "write" <=> n \in {3, 4, 5, 7, 9, 10, 11, 12, 17, 19, 20, 22}
  BY <1>1, <1>2, <1>3, <1>4, <1>5
<1>8. \A n \in 1 .. 22 :
        /\ steps[n].do \in {"force", "look"} <=> n = 1
        /\ steps[n].do = "mkdir" <=> n = 2
        /\ steps[n].do = "hash" <=> n = 21
        /\ steps[n].do # "refuse"
  BY <1>1, <1>2, <1>3, <1>4, <1>5
<1>9. \A n \in 1 .. 22 :
        /\ steps[n].do = "write" => steps[n].file[1] = Run
        /\ steps[n].do = "write" /\ steps[n].onError # "stop" => n < 13
        /\ steps[n].do = "write" /\ steps[n].file = In("manifest") => n = 22
  BY <1>2, <1>4, <1>6, <1>7
<1>10. ASSUME NEW f \in Listed
       PROVE  \E n \in 3 .. 20 :
                /\ steps[n].file = f
                /\ \/ steps[n].do = "read"
                   \/ steps[n].do = "write" /\ steps[n].flushChecked /\ steps[n].onError = "stop"
                /\ \A m \in 1 .. 22 : m > n /\ steps[m].do = "write" => steps[m].file # f
  <2>1. PICK part \in {"config", "reference", "reference_manifest", "exported", "graph",
                       "measurements", "csv", "html"} : f = In(part)
    BY DEF Listed
  <2> DEFINE Settles(k, name) ==
               /\ Python(k, name) \/ Reading(k, name)
               /\ \A m \in {3, 4, 5, 7, 9, 10, 11, 12, 17, 19, 20, 22} :
                    m > k => steps[m].file[2] # name
  <2>2. /\ steps[4].file[2] = "reference" /\ steps[5].file[2] = "reference_manifest"
        /\ steps[7].file[2] = "exported" /\ steps[9].file[2] = "graph"
        /\ steps[10].file[2] = "pass_report" /\ steps[11].file[2] = "before_dot"
        /\ steps[12].file[2] = "after_dot" /\ steps[17].file[2] = "measurements"
        /\ steps[19].file[2] = "csv" /\ steps[20].file[2] = "html"
        /\ steps[22].file[2] = "manifest"
    BY <1>2, <1>4, <1>6
  <2>3. Settles(3, "config") /\ Settles(4, "reference") /\ Settles(5, "reference_manifest")
    BY <1>2, <2>2
  <2>4. Settles(7, "exported") /\ Settles(14, "graph") /\ Settles(17, "measurements")
    BY <1>2, <1>4, <2>2
  <2>5. Settles(19, "csv") /\ Settles(20, "html")
    BY <1>2, <2>2
  <2> HIDE DEF Settles
  <2>6. PICK k \in 3 .. 20 : Settles(k, part)
    BY <2>1, <2>3, <2>4, <2>5
  <2>7. ASSUME NEW m \in 1 .. 22, m > k, steps[m].do = "write" PROVE steps[m].file # f
    BY <2>1, <2>6, <2>7, <1>6, <1>7 DEF Settles
  <2>8. QED
    BY <2>1, <2>6, <2>7 DEF Settles
<1>11. QED
  BY <1>1, <1>4, <1>8, <1>9, <1>10 DEF steps

(***************************************************************************)
(* The steps of a process, by what they do to it and to the files.         *)
(***************************************************************************)

Touched(p, state) ==
  /\ Doing(p, "write")
  /\ files' = [ files EXCEPT ![Step(p).file] = File(p, state) ]

Undone(p) == UNCHANGED files \/ Touched(p, "part")

Ending(p) ==
  /\ Running(p) /\ Undone(p) /\ faults' \in {faults, faults + 1}
  /\ \E outcome \in {"error", "died", "success"} :
       Exit(p, outcome) /\ (outcome = "success" => procs[p].at > Len(procs[p].steps))

Opening(p) ==
  /\ Doing(p, "write") /\ Undone(p) /\ UNCHANGED faults
  /\ procs' = [ procs EXCEPT ![p].open = TRUE ]

Failing(p) ==
  /\ Doing(p, "write") /\ Step(p).onError # "stop" /\ Undone(p) /\ faults' = faults + 1
  /\ procs' = [ procs EXCEPT ![p] = [ Advanced(@) EXCEPT !.failed = TRUE ] ]

Writing(p) ==
  /\ Doing(p, "write") /\ Advance(p)
  /\ \/ Touched(p, "whole") /\ UNCHANGED faults
     \/ Touched(p, "part") /\ ~Step(p).flushChecked /\ faults' = faults + 1

Passing(p) ==
  /\ Running(p) /\ procs[p].at \in DOMAIN procs[p].steps
  /\ Step(p).do \in {"read", "check", "verdict", "parse", "look", "mkdir", "hash", "force"}
  /\ Step(p).do = "read" => Whole(Step(p).file)
  /\ Step(p).do = "check" => ~procs[p].failed
  /\ Advance(p) /\ UNCHANGED << files, faults >>

\* rmtree, as far as it has come.
Removing(p) ==
  /\ Doing(p, "force") /\ UNCHANGED faults
  /\ Advance(p) \/ procs' = [ procs EXCEPT ![p].open = TRUE ]
  /\ DOMAIN files' = Paths
  /\ \A f \in Paths : files'[f] = files[f] \/ (f \in DirectoryFiles /\ files'[f] = Absent)

Moving(p) ==
  Ending(p) \/ Opening(p) \/ Failing(p) \/ Writing(p) \/ Passing(p) \/ Removing(p)

\* Every step of a native command is one of the moves.
LEMMA CliStepMoves ==
  ASSUME NEW p \in Processes, CliStep(p)
  PROVE  /\ Moving(p)
         /\ Ending(p) \/ Step(p).do \notin {"force", "look", "mkdir", "hash"}
         /\ UNCHANGED files \/ Doing(p, "write")
<1>1. CASE ReadFile(p)
  BY <1>1 DEF ReadFile, Moving, Ending, Passing, Undone, Doing, NoFault, Fault
<1>2. CASE OpenFile(p)
  <2>1. CASE files' = [ files EXCEPT ![Step(p).file] = File(p, "part") ]
             /\ procs' = [ procs EXCEPT ![p].open = TRUE ] /\ NoFault
    BY <1>2, <2>1 DEF OpenFile, Moving, Opening, Undone, Touched, Doing, NoFault
  <2>2. CASE FailWrite(p) /\ UNCHANGED files /\ Fault
    BY <1>2, <2>2 DEF OpenFile, Moving, Ending, Failing, FailWrite, Undone, Doing, Fault
  <2>3. QED
    BY <1>2, <2>1, <2>2 DEF OpenFile, Doing
<1>3. CASE WriteFile(p)
  <2>1. CASE Touched(p, "whole") /\ Advance(p) /\ NoFault
    BY <2>1 DEF Moving, Writing, Touched, NoFault, Doing
  <2>2. CASE Touched(p, "part") /\ FailWrite(p) /\ Fault
    BY <2>2 DEF Moving, Ending, Failing, FailWrite, Undone, Touched, Doing, Fault
  <2>3. CASE ~Step(p).flushChecked /\ Touched(p, "part") /\ Advance(p) /\ Fault
    BY <2>3 DEF Moving, Writing, Touched, Fault, Doing
  <2>4. QED
    BY <1>3, <2>1, <2>2, <2>3 DEF WriteFile, Touched, Doing
<1>4. CASE ReportFailure(p)
  BY <1>4 DEF ReportFailure, Moving, Ending, Passing, Undone, Doing
<1>5. CASE Verdict(p)
  BY <1>5 DEF Verdict, Moving, Ending, Passing, Undone, Doing
<1>6. CASE ValidateModule(p)
  BY <1>6 DEF ValidateModule, Moving, Ending, Passing, Undone, Doing, NoFault, Fault
<1>7. CASE Refuse(p)
  BY <1>7 DEF Refuse, Moving, Ending, Undone, Doing
<1>8. CASE Finish(p)
  BY <1>8 DEF Finish, Moving, Ending, Undone, Doing
<1>9. CASE Die(p)
  BY <1>9 DEF Die, Moving, Ending, Undone, Fault
<1>10. QED
  BY <1>1, <1>2, <1>3, <1>4, <1>5, <1>6, <1>7, <1>8, <1>9 DEF CliStep
RunnerStep(p) ==
  \/ Look(p) \/ RemoveFiles(p) \/ RemoveDirectory(p) \/ MakeDirectory(p)
  \/ OpenInDirectory(p) \/ HashFiles(p) \/ SharedStep(p)

\* So is every step of a run.
LEMMA RunnerStepMoves ==
  ASSUME NEW p \in Processes, DOMAIN files = Paths, RunnerStep(p)
  PROVE  Moving(p)
<1>1. CASE Look(p)
  BY <1>1 DEF Look, Moving, Ending, Passing, Undone, Doing
<1>2. CASE RemoveFiles(p)
  <2>1. CASE directory
    <3>1. PICK last \in DirectoryFiles :
            files' = [ f \in Paths |-> IF f \in DirectoryFiles \ {last} THEN Absent ELSE files[f] ]
      BY <1>2, <2>1 DEF RemoveFiles
    <3>2. /\ DOMAIN files' = Paths
          /\ \A f \in Paths : files'[f] = files[f] \/ (f \in DirectoryFiles /\ files'[f] = Absent)
      BY <3>1
    <3>3. QED
      BY <1>2, <2>1, <3>2 DEF RemoveFiles, Moving, Removing
  <2>2. CASE ~directory
    BY <1>2, <2>2 DEF RemoveFiles, Moving, Removing
  <2>3. QED
    BY <2>1, <2>2
<1>3. CASE RemoveDirectory(p)
  <2> DEFINE left == { f \in DirectoryFiles : files[f] # Absent }
  <2>1. CASE Cardinality(left) <= 1
    <3>1. files' = [ f \in Paths |-> IF f \in left THEN Absent ELSE files[f] ]
      BY <1>3, <2>1 DEF RemoveDirectory
    <3>2. /\ DOMAIN files' = Paths
          /\ \A f \in Paths : files'[f] = files[f] \/ (f \in DirectoryFiles /\ files'[f] = Absent)
      BY <3>1
    <3>3. QED
      BY <1>3, <2>1, <3>2 DEF RemoveDirectory, Moving, Removing
  <2>2. CASE ~(Cardinality(left) <= 1)
    BY <1>3, <2>2 DEF RemoveDirectory, Moving, Ending, Undone, Doing
  <2>3. QED
    BY <2>1, <2>2
<1>4. CASE MakeDirectory(p)
  BY <1>4 DEF MakeDirectory, Moving, Ending, Passing, Undone, Doing
<1>5. CASE OpenInDirectory(p)
  BY <1>5 DEF OpenInDirectory, Moving, Ending, Opening, Undone, Touched, Doing
<1>6. CASE HashFiles(p)
  BY <1>6 DEF HashFiles, Moving, Ending, Passing, Undone, Doing
<1>7. CASE SharedStep(p)
  BY <1>7, CliStepMoves DEF SharedStep
<1>8. QED
  BY <1>1, <1>2, <1>3, <1>4, <1>5, <1>6, <1>7 DEF RunnerStep

\* The steps of a process are a sequence.
LEMMA LengthOf ==
  ASSUME NEW p \in Processes, IsProcess(p)
  PROVE  /\ Len(procs[p].steps) \in Nat
         /\ DOMAIN procs[p].steps = 1 .. Len(procs[p].steps)
<1>1. CASE Benchmark(procs[p].command)
  BY <1>1, BenchmarkStepsAre DEF IsProcess, GivenSteps
<1>2. CASE ~Benchmark(procs[p].command)
  BY <1>2, CommandStepsAre DEF IsProcess, GivenSteps, Cli
<1>3. QED
  BY <1>1, <1>2

\* A process has come to its next step, has ended, or is where it was.
LEMMA MovingProcess ==
  ASSUME ProcsInv, NEW p \in Processes, Moving(p)
  PROVE  /\ ProcsInv'
         /\ \A q \in Processes : /\ procs'[q].steps = procs[q].steps
                                 /\ procs'[q].command = procs[q].command
         /\ \A q \in Processes \ {p} : procs'[q] = procs[q]
         /\ Ending(p) \/ Opening(p) =>
              procs'[p].at = procs[p].at /\ procs'[p].failed = procs[p].failed
         /\ Opening(p) \/ Failing(p) \/ Writing(p) \/ Passing(p) \/ Removing(p) =>
              procs'[p].exit = procs[p].exit
         /\ Ending(p) /\ procs'[p].exit = "success" => procs[p].at > Len(procs[p].steps)
         /\ Failing(p) => procs'[p].at = procs[p].at + 1 /\ procs'[p].failed
         /\ Writing(p) \/ Passing(p) =>
              procs'[p].at = procs[p].at + 1 /\ procs'[p].failed = procs[p].failed
         /\ Removing(p) =>
              procs'[p].at \in {procs[p].at, procs[p].at + 1} /\ procs'[p].failed = procs[p].failed
<1>1. DOMAIN procs = Processes /\ IsProcess(p)
  BY DEF ProcsInv
<1>2. /\ Len(procs[p].steps) \in Nat /\ DOMAIN procs[p].steps = 1 .. Len(procs[p].steps)
      /\ procs[p].at \in 1 .. Len(procs[p].steps) + 1
      /\ DOMAIN procs[p] = {"command", "steps", "at", "open", "failed", "exit"}
      /\ procs[p].open \in BOOLEAN /\ procs[p].failed \in BOOLEAN
  BY <1>1, LengthOf DEF IsProcess
<1> DEFINE Same == /\ procs'[p].steps = procs[p].steps /\ procs'[p].command = procs[p].command
                   /\ DOMAIN procs'[p] = {"command", "steps", "at", "open", "failed", "exit"}
                   /\ \A q \in Processes \ {p} : procs'[q] = procs[q]
                   /\ DOMAIN procs' = Processes
                   /\ procs'[p].open \in BOOLEAN /\ procs'[p].failed \in BOOLEAN
<1>3. ASSUME Ending(p)
      PROVE  /\ Same /\ procs'[p].at = procs[p].at /\ procs'[p].failed = procs[p].failed
             /\ procs'[p].exit = "success" => procs[p].at > Len(procs[p].steps)
  <2>1. PICK outcome \in {"error", "died", "success"} :
          /\ procs' = [ procs EXCEPT ![p].exit = outcome ]
          /\ outcome = "success" => procs[p].at > Len(procs[p].steps)
    BY <1>3 DEF Ending, Exit
  <2>2. procs'[p] = [ procs[p] EXCEPT !.exit = outcome ]
    BY <2>1, <1>1
  <2>3. QED
    BY <1>1, <1>2, <2>1, <2>2
<1>4. ASSUME procs' = [ procs EXCEPT ![p].open = TRUE ]
      PROVE  /\ Same /\ procs'[p].at = procs[p].at /\ procs'[p].failed = procs[p].failed
             /\ procs'[p].exit = procs[p].exit
  <2>1. procs'[p] = [ procs[p] EXCEPT !.open = TRUE ]
    BY <1>4, <1>1
  <2>2. QED
    BY <1>1, <1>2, <1>4, <2>1
<1>5. ASSUME Advance(p)
      PROVE  /\ Same /\ procs'[p].at = procs[p].at + 1 /\ procs'[p].failed = procs[p].failed
             /\ procs'[p].exit = procs[p].exit
  <2>1. procs'[p] = [ procs[p] EXCEPT !.at = @ + 1, !.open = FALSE ]
    BY <1>5, <1>1 DEF Advance, Advanced
  <2>2. QED
    BY <1>1, <1>2, <1>5, <2>1 DEF Advance
<1>6. ASSUME Failing(p)
      PROVE  /\ Same /\ procs'[p].at = procs[p].at + 1 /\ procs'[p].failed
             /\ procs'[p].exit = procs[p].exit
  <2>1. procs'[p] = [ [ procs[p] EXCEPT !.at = @ + 1, !.open = FALSE ] EXCEPT !.failed = TRUE ]
    BY <1>6, <1>1 DEF Failing, Advanced
  <2>2. QED
    BY <1>1, <1>2, <1>6, <2>1 DEF Failing
<1>7. Same
  BY <1>3, <1>4, <1>5, <1>6 DEF Moving, Opening, Writing, Passing, Removing
<1>8. procs'[p].at \in 1 .. Len(procs[p].steps) + 1
  <2>1. CASE procs'[p].at = procs[p].at
    BY <1>2, <2>1
  <2>2. CASE procs'[p].at = procs[p].at + 1 /\ procs[p].at \in DOMAIN procs[p].steps
    BY <1>2, <2>2
  <2>3. QED
    BY <2>1, <2>2, <1>3, <1>4, <1>5, <1>6
       DEF Moving, Opening, Failing, Writing, Passing, Removing, Doing
<1>9. ProcsInv'
  <2>1. IsProcess(p)'
    BY <1>1, <1>7, <1>8 DEF IsProcess, Cli
  <2>2. ASSUME NEW q \in Processes, q # p PROVE IsProcess(q)'
    BY <1>7, <2>2 DEF IsProcess, Cli, ProcsInv
  <2>3. QED
    BY <1>7, <2>1, <2>2 DEF ProcsInv
<1>10. QED
  BY <1>3, <1>4, <1>5, <1>6, <1>7, <1>9 DEF Opening, Writing, Passing, Removing

(***************************************************************************)
(* The files.                                                              *)
(***************************************************************************)

\* What a process is about to write is one of its files.
LEMMA WritesIntoPaths ==
  ASSUME ProcsInv, NEW p \in Processes, Doing(p, "write")
  PROVE  /\ Step(p).file \in Paths /\ Step(p).file \in Written(procs[p].steps)
         /\ procs[p].at \in DOMAIN procs[p].steps
BY DEF ProcsInv, IsProcess, Doing, Step, Written, FilesOf

\* A file changes only because p writes it or removes it.
LEMMA FileStays ==
  ASSUME ProcsInv, FilesInv, NEW p \in Processes, Moving(p), NEW f \in Paths,
         files'[f] # files[f]
  PROVE  \/ /\ Doing(p, "write") /\ f = Step(p).file /\ ~Removing(p) /\ ~Passing(p)
            /\ files'[f] \in { File(p, "part"), File(p, "whole") }
         \/ Doing(p, "force") /\ f \in DirectoryFiles /\ files'[f] = Absent /\ Removing(p)
<1>1. CASE Removing(p)
  BY <1>1 DEF Removing
<1>2. CASE ~Removing(p)
  <2>1. PICK state \in {"part", "whole"} : Touched(p, state)
    BY <1>2 DEF Moving, Ending, Opening, Failing, Writing, Passing, Undone
  <2>2. files' = [ files EXCEPT ![Step(p).file] = File(p, state) ] /\ Doing(p, "write")
    BY <2>1 DEF Touched
  <2>3. f = Step(p).file /\ files'[f] = File(p, state)
    BY <2>2 DEF FilesInv
  <2>4. QED
    BY <1>2, <2>2, <2>3 DEF Passing
<1>3. QED
  BY <1>1, <1>2

\* A move leaves the files in order: each of them of a process that has come to it.
LEMMA MovingFiles ==
  ASSUME ProcsInv, FilesInv, NEW p \in Processes, Moving(p)
  PROVE  FilesInv' /\ faults' \in {faults, faults + 1}
<1>1. DOMAIN files' = Paths
  <2>1. ASSUME NEW state, Touched(p, state) PROVE DOMAIN files' = Paths
    BY <2>1 DEF Touched, FilesInv
  <2>2. QED
    BY <2>1 DEF Moving, Ending, Opening, Failing, Writing, Passing, Removing, Undone, FilesInv
<1>2. ASSUME NEW f \in Paths
      PROVE  files'[f] \in [ by : Processes \cup {0}, state : {"absent", "part", "whole"} ]
  <2>1. CASE files'[f] = files[f]
    BY <2>1 DEF FilesInv
  <2>2. CASE files'[f] # files[f]
    BY <2>2, FileStays DEF File, Absent
  <2>3. QED
    BY <2>1, <2>2
<1>3. ASSUME NEW q \in Processes, NEW f \in Paths, files'[f].by = q
      PROVE  \E n \in DOMAIN procs'[q].steps :
               n <= procs'[q].at /\ WritesAt(q, n)' /\ FileAt(q, n)' = f
  <2>1. procs'[q].steps = procs[q].steps /\ procs'[q].at \in {procs[q].at, procs[q].at + 1}
    BY MovingProcess DEF Moving
  <2>2. DOMAIN procs[q].steps = 1 .. Len(procs[q].steps) /\ Len(procs[q].steps) \in Nat
        /\ procs[q].at \in 1 .. Len(procs[q].steps) + 1
    BY LengthOf DEF ProcsInv, IsProcess
  <2>3. CASE files'[f] = files[f]
    <3>1. PICK n \in DOMAIN procs[q].steps :
            n <= procs[q].at /\ WritesAt(q, n) /\ FileAt(q, n) = f
      BY <1>3, <2>3 DEF FilesInv
    <3>2. n <= procs'[q].at
      BY <2>1, <2>2, <3>1
    <3>3. QED
      BY <2>1, <3>1, <3>2 DEF WritesAt, FileAt
  <2>4. CASE files'[f] # files[f]
    <3>1. /\ Doing(p, "write") /\ f = Step(p).file
          /\ files'[f] \in { File(p, "part"), File(p, "whole") }
      BY <1>3, <2>4, FileStays, ProcessesAssumption DEF Absent, File
    <3>2. q = p
      BY <1>3, <3>1 DEF File
    <3>3. /\ procs[q].at \in DOMAIN procs[q].steps /\ WritesAt(q, procs[q].at)
          /\ FileAt(q, procs[q].at) = f
      BY <3>1, <3>2 DEF Doing, Step, WritesAt, FileAt
    <3>4. procs[q].at <= procs'[q].at
      BY <2>1, <2>2
    <3>5. QED
      BY <2>1, <3>3, <3>4 DEF WritesAt, FileAt
  <2>5. QED
    BY <2>3, <2>4
<1>4. faults' \in {faults, faults + 1} /\ faults' \in Nat
  BY DEF Moving, Ending, Opening, Failing, Writing, Passing, Removing, FilesInv
<1>5. QED
  BY <1>1, <1>2, <1>3, <1>4 DEF FilesInv

(***************************************************************************)
(* The native commands.                                                    *)
(***************************************************************************)

\* What holds of the steps of a native command.
LEMMA CommandFacts ==
  ASSUME ProcsInv, NEW p \in Processes, Cli(p)
  PROVE  LET steps == procs[p].steps
         IN  /\ steps = StepsOf(procs[p].command) /\ IsCli(procs[p].command)
             /\ procs[p].command.base # Run
             /\ \A n \in DOMAIN steps :
                  steps[n].do \in {"read", "write", "check", "refuse", "verdict", "parse"}
             /\ \A n, m \in DOMAIN steps :
                  WritesAt(p, n) /\ WritesAt(p, m) /\ n # m => FileAt(p, n) # FileAt(p, m)
             /\ \A n \in DOMAIN steps :
                  WritesAt(p, n) /\ steps[n].onError # "stop"
                    => \E m \in DOMAIN steps : m > n /\ steps[m].do = "check"
             /\ \A f \in Written(steps) : f \in Paths /\ f \notin DirectoryFiles
<1>1. ~Benchmark(procs[p].command)
  BY DEF Cli, IsCli, Benchmark
<1>2. /\ procs[p].steps = StepsOf(procs[p].command) /\ IsCli(procs[p].command)
      /\ procs[p].command.base # Run /\ Written(procs[p].steps) \subseteq Paths
  BY <1>1 DEF ProcsInv, IsProcess, GivenSteps, Cli
<1>3. \A n \in DOMAIN procs[p].steps : WritesAt(p, n) => FileAt(p, n)[1] = procs[p].command.base
  BY <1>2, CommandStepsAre DEF WritesAt, FileAt
<1>4. \A f \in Written(procs[p].steps) : f \in Paths /\ f \notin DirectoryFiles
  BY <1>2, <1>3 DEF Written, FilesOf, DirectoryFiles, WritesAt, FileAt
<1>5. QED
  BY <1>2, <1>4, CommandStepsAre DEF WritesAt, FileAt

\* A process does not touch the files of another that is alone.
LEMMA OthersStay ==
  ASSUME ProcsInv, FilesInv, NEW p \in Processes, Moving(p),
         NEW q \in Processes \ {p}, Cli(q), Alone(q), NEW f \in Written(procs[q].steps)
  PROVE  files'[f] = files[f]
<1>1. f \in Paths /\ f \notin DirectoryFiles
  BY CommandFacts
<1>2. SUFFICES ASSUME files'[f] # files[f] PROVE FALSE
  OBVIOUS
<1>3. Doing(p, "write") /\ f = Step(p).file
  BY <1>1, <1>2, FileStays
<1>4. f \in Written(procs[p].steps)
  BY <1>3, WritesIntoPaths
<1>5. QED
  BY <1>4 DEF Alone

\* A command that is alone keeps what it has when another process moves.
LEMMA OtherCommandKeeps ==
  ASSUME ProcsInv, FilesInv, NEW p \in Processes, Moving(p),
         NEW q \in Processes \ {p}, Cli(q), Alone(q), CommandInv(q)
  PROVE  CommandInv(q)'
<1>1. procs'[q] = procs[q]
  BY MovingProcess
<1>2. \A f \in Written(procs[q].steps) : files'[f] = files[f]
  BY OthersStay
<1>3. faults > 0 => faults' > 0
  BY MovingFiles DEF FilesInv
<1>4. \A n \in Behind(q) : n \in DOMAIN procs[q].steps
  BY LengthOf DEF ProcsInv, IsProcess, Behind
<1>5. \A n \in Behind(q) : WritesAt(q, n) => FileAt(q, n) \in Written(procs[q].steps)
  BY <1>4 DEF WritesAt, FileAt, Written, FilesOf
<1>6. /\ Behind(q)' = Behind(q)
      /\ \A n : UNCHANGED << WritesAt(q, n), FileAt(q, n), LastOn(q, n) >>
  BY <1>1 DEF Behind, WritesAt, FileAt, LastOn
<1>7. ASSUME ~procs'[q].failed, NEW n \in Behind(q), WritesAt(q, n)
      PROVE  files'[FileAt(q, n)].by = q /\ (Whole(FileAt(q, n))' \/ faults' > 0)
  BY <1>1, <1>2, <1>3, <1>5, <1>7 DEF CommandInv, Whole, FileAt
<1>8. ASSUME NEW n \in Behind(q), procs[q].steps[n].do = "read",
             FileAt(q, n) \in Written(procs[q].steps), LastOn(q, n)
      PROVE  Whole(FileAt(q, n))'
  BY <1>1, <1>2, <1>8 DEF CommandInv, Whole, FileAt
<1>9. QED
  BY <1>1, <1>6, <1>7, <1>8 DEF CommandInv

\* It keeps it when it moves itself.
LEMMA CommandKeeps ==
  ASSUME ProcsInv, FilesInv, NEW p \in Processes, Moving(p), Cli(p), CommandInv(p)
  PROVE  CommandInv(p)'
<1> DEFINE at == procs[p].at
           steps == procs[p].steps
<1>1. /\ Len(steps) \in Nat /\ DOMAIN steps = 1 .. Len(steps) /\ at \in 1 .. Len(steps) + 1
      /\ procs'[p].steps = steps
  BY LengthOf, MovingProcess DEF ProcsInv, IsProcess
<1>2. ~Doing(p, "force")
  BY CommandFacts DEF Doing, Step
<1>3. ~Removing(p)
  BY <1>2 DEF Removing
<1>4. /\ \A n : UNCHANGED << WritesAt(p, n), FileAt(p, n), LastOn(p, n) >>
  BY <1>1 DEF WritesAt, FileAt, LastOn
<1>5. faults > 0 => faults' > 0
  BY MovingFiles DEF FilesInv
\* What is behind stays as it is.
<1>6. ASSUME NEW n \in Behind(p), WritesAt(p, n) PROVE files'[FileAt(p, n)] = files[FileAt(p, n)]
  <2>1. n \in DOMAIN steps /\ n < at
    BY <1>1 DEF Behind
  <2>2. FileAt(p, n) \in Paths
    BY <1>6, <2>1 DEF ProcsInv, IsProcess, Written, FilesOf, WritesAt, FileAt
  <2>3. SUFFICES ASSUME files'[FileAt(p, n)] # files[FileAt(p, n)] PROVE FALSE
    OBVIOUS
  <2>4. Doing(p, "write") /\ FileAt(p, n) = Step(p).file
    BY <1>3, <2>2, <2>3, FileStays
  <2>5. at \in DOMAIN steps /\ WritesAt(p, at) /\ FileAt(p, n) = FileAt(p, at)
    BY <2>4 DEF Doing, Step, WritesAt, FileAt
  <2>6. \A m, k \in DOMAIN steps :
          WritesAt(p, m) /\ WritesAt(p, k) /\ m # k => FileAt(p, m) # FileAt(p, k)
    BY CommandFacts
  <2>7. n # at
    BY <1>1, <2>1
  <2>8. QED
    BY <1>6, <2>1, <2>5, <2>6, <2>7
<1>7. ASSUME NEW n \in Behind(p), FileAt(p, n) \in Written(steps), LastOn(p, n)
      PROVE  files'[FileAt(p, n)] = files[FileAt(p, n)]
  <2>1. n \in DOMAIN steps /\ n < at
    BY <1>1 DEF Behind
  <2>2. FileAt(p, n) \in Paths
    BY <1>7, CommandFacts
  <2>3. SUFFICES ASSUME files'[FileAt(p, n)] # files[FileAt(p, n)] PROVE FALSE
    OBVIOUS
  <2>4. Doing(p, "write") /\ FileAt(p, n) = Step(p).file
    BY <1>3, <2>2, <2>3, FileStays
  <2>5. at \in DOMAIN steps /\ WritesAt(p, at) /\ FileAt(p, n) = FileAt(p, at)
    BY <2>4 DEF Doing, Step, WritesAt, FileAt
  <2>6. QED
    BY <1>7, <2>1, <2>5 DEF LastOn
\* The process is where it was.
<1>8. CASE procs'[p].at = at /\ procs'[p].failed = procs[p].failed
             /\ (procs'[p].exit = "success" => at > Len(steps))
  <2>1. Behind(p)' = Behind(p)
    BY <1>8 DEF Behind
  <2>2. ASSUME ~procs'[p].failed, NEW n \in Behind(p), WritesAt(p, n)
        PROVE  files'[FileAt(p, n)].by = p /\ (Whole(FileAt(p, n))' \/ faults' > 0)
    BY <1>4, <1>5, <1>6, <1>8, <2>2 DEF CommandInv, Whole
  <2>3. ASSUME NEW n \in Behind(p), steps[n].do = "read", FileAt(p, n) \in Written(steps),
               LastOn(p, n)
        PROVE  Whole(FileAt(p, n))'
    BY <1>4, <1>7, <2>3 DEF CommandInv, Whole
  <2>4. procs'[p].exit = "success" => procs'[p].at = Len(steps) + 1
    BY <1>1, <1>8
  <2>5. QED
    BY <1>1, <1>4, <1>8, <2>1, <2>2, <2>3, <2>4 DEF CommandInv
\* The process has come one step further.
<1>9. CASE procs'[p].at = at + 1 /\ procs'[p].exit = procs[p].exit
             /\ (Failing(p) \/ Writing(p) \/ Passing(p))
  <2>1. Behind(p)' = Behind(p) \cup {at} /\ at \in DOMAIN steps
    BY <1>1, <1>9 DEF Behind, Failing, Writing, Passing, Doing
  <2>2. procs'[p].exit # "success"
    BY <1>9 DEF Failing, Writing, Passing, Doing, Running
  <2>3. ASSUME ~procs'[p].failed, NEW n \in Behind(p)', WritesAt(p, n)
        PROVE  files'[FileAt(p, n)].by = p /\ (Whole(FileAt(p, n))' \/ faults' > 0)
    <3>1. ~procs[p].failed /\ ~Failing(p)
      BY <2>3, <1>9, MovingProcess
    <3>2. CASE n \in Behind(p)
      BY <1>4, <1>5, <1>6, <2>3, <3>1, <3>2 DEF CommandInv, Whole
    <3>3. CASE n = at
      <4>1. Doing(p, "write") /\ Writing(p)
        BY <1>9, <2>3, <3>1, <3>3 DEF Passing, WritesAt, Step, Writing
      <4>2. Step(p).file \in Paths /\ FileAt(p, n) = Step(p).file
        BY <3>3, <4>1, WritesIntoPaths DEF FileAt, Step
      <4>3. CASE Touched(p, "whole")
        BY <1>4, <4>2, <4>3 DEF Touched, FilesInv, File, Whole
      <4>4. CASE Touched(p, "part") /\ faults' = faults + 1
        BY <4>2, <4>4 DEF Touched, FilesInv, File
      <4>5. QED
        BY <4>1, <4>3, <4>4 DEF Writing
    <3>4. QED
      BY <2>1, <3>2, <3>3
  <2>4. ASSUME NEW n \in Behind(p)', steps[n].do = "read", FileAt(p, n) \in Written(steps),
               LastOn(p, n)
        PROVE  Whole(FileAt(p, n))'
    <3>1. CASE n \in Behind(p)
      BY <1>4, <1>7, <2>4, <3>1 DEF CommandInv, Whole
    <3>2. CASE n = at
      <4>1. Passing(p)
        BY <1>9, <2>4, <3>2 DEF Failing, Writing, Doing, Step
      <4>2. QED
        BY <1>4, <2>4, <3>2, <4>1 DEF Passing, Whole, FileAt, Step
    <3>3. QED
      BY <2>1, <3>1, <3>2
  <2>5. ASSUME procs'[p].failed
        PROVE  \E m \in DOMAIN steps : m >= procs'[p].at /\ steps[m].do = "check"
    <3>1. CASE Failing(p)
      <4>1. PICK m \in DOMAIN steps : m > at /\ steps[m].do = "check"
        BY <2>1, <3>1, CommandFacts DEF Failing, Doing, Step, WritesAt
      <4>2. QED
        BY <1>1, <1>9, <4>1
    <3>2. CASE ~Failing(p)
      <4>1. procs[p].failed
        BY <1>9, <2>5, <3>2, MovingProcess
      <4>2. PICK m \in DOMAIN steps : m >= at /\ steps[m].do = "check"
        BY <4>1 DEF CommandInv
      <4>3. m # at
        BY <1>9, <3>2, <4>1, <4>2 DEF Writing, Passing, Doing, Step
      <4>4. QED
        BY <1>1, <1>9, <4>2, <4>3
    <3>3. QED
      BY <3>1, <3>2
  <2>6. ASSUME NEW n \in Behind(p)' PROVE steps[n].do # "refuse"
    <3>1. CASE n \in Behind(p)
      BY <3>1 DEF CommandInv
    <3>2. CASE n = at
      BY <1>9, <3>2 DEF Failing, Writing, Passing, Doing, Step
    <3>3. QED
      BY <2>1, <3>1, <3>2
  <2>7. /\ (~procs[p].failed)' => \A n \in Behind(p)' : WritesAt(p, n)' =>
              files'[FileAt(p, n)'].by = p /\ (Whole(FileAt(p, n))' \/ faults' > 0)
        /\ \A n \in Behind(p)' :
              procs'[p].steps[n].do = "read" /\ FileAt(p, n)' \in Written(procs'[p].steps)
                /\ LastOn(p, n)' => Whole(FileAt(p, n))'
    BY <1>1, <1>4, <2>3, <2>4
  <2>8. QED
    BY <1>1, <2>2, <2>5, <2>6, <2>7 DEF CommandInv
<1>10. QED
  BY <1>3, <1>8, <1>9, MovingProcess DEF Moving, Opening, Doing, Running

\* So every move keeps what the commands have.
LEMMA CommandsKept ==
  ASSUME ProcsInv, FilesInv, CommandsInv, NEW p \in Processes, Moving(p)
  PROVE  CommandsInv'
<1>1. ASSUME NEW q \in Processes PROVE (Cli(q)' <=> Cli(q)) /\ (Alone(q)' <=> Alone(q))
  BY MovingProcess DEF Cli, Alone
<1>2. QED
  BY <1>1, OtherCommandKeeps, CommandKeeps DEF CommandsInv

(***************************************************************************)
(* The directory of the benchmarks.                                        *)
(***************************************************************************)

\* What holds of the steps of a run.
LEMMA RunFacts ==
  ASSUME ProcsInv, NEW p \in Processes, Benchmark(procs[p].command)
  PROVE  LET steps == procs[p].steps
         IN  /\ DOMAIN steps = 1 .. 22 /\ Len(steps) = 22
             /\ \A n \in 1 .. 22 :
                  /\ steps[n].do \in {"force", "look"} <=> n = 1
                  /\ steps[n].do = "mkdir" <=> n = 2
                  /\ steps[n].do = "hash" <=> n = 21
                  /\ WritesAt(p, n) => FileAt(p, n) \in DirectoryFiles
                  /\ WritesAt(p, n) /\ FileAt(p, n) = In("manifest") => n = 22
             /\ \A f \in Listed : \E n \in 3 .. 20 : FileAt(p, n) = f /\ Lasts(p, n)
<1> DEFINE steps == BenchmarkSteps(procs[p].command.force)
<1>1. /\ DOMAIN steps = 1 .. 22 /\ Len(steps) = 22
      /\ \A n \in 1 .. 22 :
           /\ steps[n].do \in {"force", "look"} <=> n = 1
           /\ steps[n].do = "mkdir" <=> n = 2
           /\ steps[n].do = "hash" <=> n = 21
           /\ steps[n].do = "write" => steps[n].file[1] = Run
           /\ steps[n].do = "write" /\ steps[n].file = In("manifest") => n = 22
  BY BenchmarkFacts
<1>2. \A f \in Listed : \E n \in 3 .. 20 :
        /\ steps[n].file = f
        /\ \/ steps[n].do = "read"
           \/ steps[n].do = "write" /\ steps[n].flushChecked /\ steps[n].onError = "stop"
        /\ \A m \in 1 .. 22 : m > n /\ steps[m].do = "write" => steps[m].file # f
  BY BenchmarkFacts
<1>3. procs[p].steps = steps /\ Written(procs[p].steps) \subseteq Paths
  BY DEF ProcsInv, IsProcess, GivenSteps
<1> HIDE DEF steps
<1>4. ASSUME NEW n \in 1 .. 22, WritesAt(p, n) PROVE FileAt(p, n) \in DirectoryFiles
  <2>1. FileAt(p, n)[1] = Run
    BY <1>1, <1>3, <1>4 DEF WritesAt, FileAt
  <2>2. FileAt(p, n) \in Paths
    BY <1>1, <1>3, <1>4 DEF Written, FilesOf, WritesAt, FileAt
  <2>3. QED
    BY <2>1, <2>2 DEF DirectoryFiles
<1>5. ASSUME NEW f \in Listed
      PROVE  \E n \in 3 .. 20 : FileAt(p, n) = f /\ Lasts(p, n)
  <2>1. PICK n \in 3 .. 20 :
          /\ steps[n].file = f
          /\ \/ steps[n].do = "read"
             \/ steps[n].do = "write" /\ steps[n].flushChecked /\ steps[n].onError = "stop"
          /\ \A m \in 1 .. 22 : m > n /\ steps[m].do = "write" => steps[m].file # f
    BY <1>2
  <2>2. f \in DirectoryFiles
    BY PathsAssumption DEF Listed, DirectoryFiles, In, Part
  <2>3. QED
    BY <1>1, <1>3, <2>1, <2>2 DEF Lasts, LastOn, WritesAt, FileAt
<1>6. QED
  BY <1>1, <1>3, <1>4, <1>5 DEF WritesAt, FileAt

\* Who has not claimed the directory does not write there.
LEMMA UnclaimedStays ==
  ASSUME ProcsInv, FilesInv, NEW p \in Processes, Moving(p), ~Claimed(p), ~Removing(p),
         NEW f \in DirectoryFiles
  PROVE  files'[f] = files[f]
<1>1. f \in Paths
  BY DEF DirectoryFiles
<1>2. SUFFICES ASSUME files'[f] # files[f] PROVE FALSE
  OBVIOUS
<1>3. Doing(p, "write") /\ f = Step(p).file
  BY <1>1, <1>2, FileStays
<1>4. f \in Written(procs[p].steps) /\ procs[p].at \in DOMAIN procs[p].steps
  BY <1>3, WritesIntoPaths
<1>5. CASE Benchmark(procs[p].command)
  <2>1. procs[p].at \in {1, 2}
    BY <1>4, <1>5, RunFacts DEF Claimed
  <2>2. Step(p).do \in {"force", "look", "mkdir"}
    BY <1>5, <2>1, RunFacts DEF Step
  <2>3. QED
    BY <1>3, <2>2 DEF Doing
<1>6. CASE ~Benchmark(procs[p].command)
  <2>1. Cli(p)
    BY <1>6 DEF ProcsInv, IsProcess
  <2>2. QED
    BY <1>4, <2>1, CommandFacts
<1>7. QED
  BY <1>5, <1>6

\* A run claims the directory by making it.
LEMMA ClaimingMakes ==
  ASSUME ProcsInv, FilesInv, NEW p \in Processes, RunnerStep(p), ~Claimed(p), Claimed(p)'
  PROVE  MakeDirectory(p) /\ ~directory /\ procs'[p].at = 3 /\ UNCHANGED files
<1>1. Moving(p)
  BY RunnerStepMoves DEF FilesInv
<1>2. /\ Benchmark(procs[p].command) /\ procs[p].at = 2 /\ procs'[p].at = 3
      /\ procs[p].at \in DOMAIN procs[p].steps
  <2>1. /\ procs'[p].command = procs[p].command
        /\ procs'[p].at \in {procs[p].at, procs[p].at + 1}
    BY <1>1, MovingProcess DEF Moving
  <2>2. Benchmark(procs[p].command)
    BY <2>1 DEF Claimed
  <2>3. procs[p].at \in 1 .. 23 /\ DOMAIN procs[p].steps = 1 .. 22
    <3>1. DOMAIN procs[p].steps = 1 .. 22 /\ Len(procs[p].steps) = 22
      BY <2>2, RunFacts
    <3>2. procs[p].at \in 1 .. Len(procs[p].steps) + 1
      BY DEF ProcsInv, IsProcess
    <3>3. QED
      BY <3>1, <3>2
  <2>4. QED
    BY <2>1, <2>2, <2>3 DEF Claimed
<1>3. Step(p).do = "mkdir"
  BY <1>2, RunFacts DEF Step
<1>4. ~Ending(p)
  BY <1>1, <1>2, MovingProcess
<1>5. MakeDirectory(p)
  BY <1>3, <1>4, CliStepMoves DEF RunnerStep, Look, RemoveFiles, RemoveDirectory, OpenInDirectory,
     HashFiles, SharedStep, Doing
<1>6. ~directory
  <2>1. SUFFICES ASSUME directory PROVE FALSE
    OBVIOUS
  <2>2. Exit(p, "error")
    BY <1>5, <2>1 DEF MakeDirectory
  <2>3. Ending(p)
    BY <1>5, <2>2 DEF MakeDirectory, Ending, Undone, Doing
  <2>4. QED
    BY <1>4, <2>3
<1>7. QED
  BY <1>2, <1>5, <1>6 DEF MakeDirectory

\* How far a run may have come.
LEMMA AtFact ==
  ASSUME ProcsInv, NEW p \in Processes, Benchmark(procs[p].command)
  PROVE  procs[p].at \in 1 .. 23 /\ DOMAIN procs[p].steps = 1 .. 22
<1>1. DOMAIN procs[p].steps = 1 .. 22 /\ Len(procs[p].steps) = 22
  BY RunFacts
<1>2. procs[p].at \in 1 .. Len(procs[p].steps) + 1
  BY DEF ProcsInv, IsProcess
<1>3. QED
  BY <1>1, <1>2

\* What a run does after claiming the directory.
LEMMA ClaimedSteps ==
  ASSUME ProcsInv, NEW p \in Processes, RunnerStep(p), Claimed(p)
  PROVE  OpenInDirectory(p) \/ HashFiles(p) \/ SharedStep(p)
<1>1. procs[p].at > 2 /\ Benchmark(procs[p].command) /\ procs[p].at \in 1 .. 23
      /\ DOMAIN procs[p].steps = 1 .. 22
  BY AtFact DEF Claimed
<1>2. ~Doing(p, "look") /\ ~Doing(p, "force") /\ ~Doing(p, "mkdir")
  <2>1. SUFFICES ASSUME procs[p].at \in 1 .. 22
                 PROVE  Step(p).do \notin {"look", "force", "mkdir"}
    BY <1>1 DEF Doing
  <2>2. QED
    BY <1>1, <2>1, RunFacts DEF Step
<1>3. QED
  BY <1>2 DEF RunnerStep, Look, RemoveFiles, RemoveDirectory, MakeDirectory

\* The run that has claimed the directory leaves its files whole, one by one.
LEMMA OwnFilesLast ==
  ASSUME ProcsInv, FilesInv, NEW p \in Processes, RunnerStep(p), Claimed(p), ClaimInv(p)
  PROVE  /\ \A f \in DirectoryFiles : files'[f] = Absent \/ files'[f].by = p
         /\ \A n \in Behind(p)' : Lasts(p, n) => files'[FileAt(p, n)] = File(p, "whole")
<1>1. Moving(p)
  BY RunnerStepMoves DEF FilesInv
<1>2. ~Removing(p)
  <2>1. procs[p].at > 2 /\ Benchmark(procs[p].command) /\ procs[p].at \in 1 .. 23
        /\ DOMAIN procs[p].steps = 1 .. 22
    BY AtFact DEF Claimed
  <2>2. SUFFICES ASSUME procs[p].at \in 1 .. 22 PROVE Step(p).do # "force"
    BY <2>1 DEF Removing, Doing
  <2>3. QED
    BY <2>1, <2>2, RunFacts DEF Step
<1>3. ASSUME NEW f \in DirectoryFiles PROVE files'[f] = Absent \/ files'[f].by = p
  <2>1. CASE files'[f] = files[f]
    BY <2>1 DEF ClaimInv
  <2>2. CASE files'[f] # files[f]
    BY <2>2, <1>1, <1>2, FileStays DEF DirectoryFiles, File
  <2>3. QED
    BY <2>1, <2>2
<1>4. ASSUME NEW n \in Behind(p), Lasts(p, n)
      PROVE  files'[FileAt(p, n)] = File(p, "whole")
  <2>1. n \in DOMAIN procs[p].steps /\ n < procs[p].at
    BY LengthOf DEF ProcsInv, IsProcess, Behind
  <2>2. FileAt(p, n) \in Paths
    BY <1>4 DEF Lasts, DirectoryFiles
  <2>3. files[FileAt(p, n)] = File(p, "whole")
    BY <1>4 DEF ClaimInv
  <2>4. SUFFICES ASSUME files'[FileAt(p, n)] # files[FileAt(p, n)] PROVE FALSE
    BY <2>3
  <2>5. Doing(p, "write") /\ FileAt(p, n) = Step(p).file
    BY <1>1, <1>2, <2>2, <2>4, FileStays
  <2>6. /\ procs[p].at \in DOMAIN procs[p].steps /\ WritesAt(p, procs[p].at)
        /\ FileAt(p, n) = FileAt(p, procs[p].at)
    BY <2>5 DEF Doing, Step, WritesAt, FileAt
  <2>7. QED
    BY <1>4, <2>1, <2>6 DEF Lasts, LastOn
<1>5. ASSUME procs'[p].at = procs[p].at + 1, Lasts(p, procs[p].at)
      PROVE  files'[FileAt(p, procs[p].at)] = File(p, "whole")
  <2>1. FileAt(p, procs[p].at) = Step(p).file /\ Step(p).file \in DirectoryFiles
        /\ Step(p).file \in Paths
    BY <1>5 DEF FileAt, Step, Lasts, DirectoryFiles
  <2>2. procs[p].at \in Nat
    BY DEF ProcsInv, IsProcess
  <2>3. Failing(p) \/ Writing(p) \/ Passing(p)
    BY <1>1, <1>2, <1>5, <2>2, MovingProcess DEF Moving
  <2>4. CASE Step(p).do = "read"
    <3>1. Whole(Step(p).file) /\ UNCHANGED files
      BY <2>3, <2>4 DEF Failing, Writing, Passing, Doing
    <3>2. files[Step(p).file] # Absent
      BY <3>1 DEF Whole, Absent, File
    <3>3. files[Step(p).file].by = p /\ files[Step(p).file].state = "whole"
      BY <2>1, <3>1, <3>2 DEF ClaimInv, Whole
    <3>4. files[Step(p).file] \in [ by : Processes \cup {0}, state : {"absent", "part", "whole"} ]
      BY <2>1 DEF FilesInv
    <3>5. files[Step(p).file] = File(p, "whole")
      BY <3>3, <3>4 DEF File
    <3>6. QED
      BY <2>1, <3>1, <3>5
  <2>5. CASE Step(p).do = "write" /\ Step(p).flushChecked /\ Step(p).onError = "stop"
    <3>1. Writing(p) /\ Touched(p, "whole")
      BY <2>3, <2>5 DEF Failing, Writing, Passing
    <3>2. QED
      BY <2>1, <3>1 DEF Touched, FilesInv
  <2>6. QED
    BY <1>5, <2>4, <2>5 DEF Lasts, WritesAt, Step
<1>6. Behind(p)' = Behind(p)
        \/ (procs'[p].at = procs[p].at + 1 /\ Behind(p)' = Behind(p) \cup {procs[p].at})
  <2>1. procs'[p].at \in {procs[p].at, procs[p].at + 1}
    BY <1>1, MovingProcess DEF Moving
  <2>2. procs[p].at \in Nat /\ procs[p].at >= 1
    BY DEF ProcsInv, IsProcess
  <2>3. QED
    BY <2>1, <2>2 DEF Behind
<1>7. QED
  BY <1>3, <1>4, <1>5, <1>6

\* The run that has claimed the directory keeps it when it moves.
LEMMA OwnerKeeps ==
  ASSUME ProcsInv, FilesInv, DOMAIN hashed = Processes, NEW p \in Processes \ mixed,
         RunnerStep(p), Claimed(p), ClaimInv(p)
  PROVE  ClaimInv(p)' /\ UNCHANGED << mixed, directory >>
<1>1. Moving(p)
  BY RunnerStepMoves DEF FilesInv
<1>2. directory' /\ UNCHANGED << mixed, directory >>
  BY ClaimedSteps DEF ClaimInv, OpenInDirectory, HashFiles, SharedStep
<1>3. /\ procs'[p].steps = procs[p].steps
      /\ \A q \in Processes : Claimed(q)' => q = p \/ Claimed(q)
  BY <1>1, MovingProcess DEF Claimed
<1>4. \A q \in Processes \ mixed : Claimed(q)' => q = p
  BY <1>3 DEF ClaimInv
<1>5. \A n : UNCHANGED << Lasts(p, n), FileAt(p, n) >>
  BY <1>3 DEF Lasts, LastOn, WritesAt, FileAt, DirectoryFiles
<1>6. /\ \A f \in DirectoryFiles : files'[f] = Absent \/ files'[f].by = p
      /\ \A n \in Behind(p)' : Lasts(p, n) => files'[FileAt(p, n)] = File(p, "whole")
  BY OwnFilesLast
<1>7. ASSUME procs'[p].at > 21 PROVE hashed'[p] = [ f \in Listed |-> File(p, "whole") ]
  <2>1. procs[p].at \in 1 .. 23 /\ DOMAIN procs[p].steps = 1 .. 22 /\ Benchmark(procs[p].command)
    BY AtFact DEF Claimed
  <2>2. CASE procs[p].at > 21
    <3>1. ~HashFiles(p)
      <4>1. SUFFICES ASSUME procs[p].at = 22 PROVE Step(p).do # "hash"
        BY <2>1, <2>2 DEF HashFiles, Doing
      <4>2. QED
        BY <2>1, <4>1, RunFacts DEF Step
    <3>2. UNCHANGED hashed
      BY <3>1, ClaimedSteps DEF OpenInDirectory, SharedStep
    <3>3. QED
      BY <2>2, <3>2 DEF ClaimInv
  <2>3. CASE ~(procs[p].at > 21)
    <3>1. procs[p].at = 21 /\ procs'[p].at # procs[p].at
      <4>1. procs'[p].at \in {procs[p].at, procs[p].at + 1}
        BY <1>1, MovingProcess DEF Moving
      <4>2. QED
        BY <1>7, <2>1, <2>3, <4>1
    <3>2. Step(p).do = "hash"
      BY <2>1, <3>1, RunFacts DEF Step
    <3>3. ~Ending(p)
      BY <1>1, <3>1, MovingProcess
    <3>4. HashFiles(p)
      BY <3>2, <3>3, ClaimedSteps, CliStepMoves DEF OpenInDirectory, Doing, SharedStep
    <3>5. hashed' = [ hashed EXCEPT ![p] = [ f \in Listed |-> files[f] ] ]
      <4>1. ~Exit(p, "error")
        BY <3>3, <3>4 DEF HashFiles, Ending, Undone, Doing
      <4>2. QED
        BY <3>4, <4>1 DEF HashFiles
    <3>6. ASSUME NEW f \in Listed PROVE files[f] = File(p, "whole")
      <4>1. PICK n \in 3 .. 20 : FileAt(p, n) = f /\ Lasts(p, n)
        BY <2>1, RunFacts
      <4>2. n \in Behind(p)
        BY <3>1 DEF Behind
      <4>3. QED
        BY <4>1, <4>2 DEF ClaimInv
    <3>7. QED
      BY <3>5, <3>6
  <2>4. QED
    BY <2>2, <2>3
<1>8. QED
  BY <1>2, <1>4, <1>5, <1>6, <1>7 DEF ClaimInv, DirectoryFiles

\* Nor does the step of another run disturb the one that has claimed it, unless
\* it takes the directory away: then that one is followed no longer.
LEMMA ClaimStays ==
  ASSUME ProcsInv, FilesInv, DOMAIN hashed = Processes, NEW p \in Processes \ mixed,
         RunnerStep(p), NEW q \in Processes \ mixed, q # p, q \notin mixed',
         Claimed(q), ClaimInv(q)
  PROVE  ClaimInv(q)'
<1>1. Moving(p)
  BY RunnerStepMoves DEF FilesInv
<1>2. directory /\ ~Claimed(p)
  BY DEF ClaimInv
<1>3. q \in TakenFrom(p)
  BY DEF TakenFrom
<1>4. /\ directory' /\ mixed \subseteq mixed'
      /\ \A f \in DirectoryFiles : files'[f] = files[f]
  <2>1. CASE RemoveFiles(p)
    BY <1>2, <1>3, <2>1 DEF RemoveFiles
  <2>2. CASE RemoveDirectory(p)
    BY <1>2, <1>3, <2>2 DEF RemoveDirectory
  <2>3. CASE ~RemoveFiles(p) /\ ~RemoveDirectory(p)
    <3>1. directory' /\ UNCHANGED mixed
      BY <1>2, <2>3 DEF RunnerStep, Look, MakeDirectory, OpenInDirectory, HashFiles, SharedStep
    <3>2. CASE Doing(p, "force")
      <4>1. SharedStep(p)
        BY <2>3, <3>2 DEF RunnerStep, Look, MakeDirectory, OpenInDirectory, HashFiles, Doing
      <4>2. UNCHANGED files
        BY <3>2, <4>1, CliStepMoves DEF SharedStep, Doing
      <4>3. QED
        BY <3>1, <4>2
    <3>3. CASE ~Doing(p, "force")
      BY <1>1, <1>2, <3>1, <3>3, UnclaimedStays DEF Removing
    <3>4. QED
      BY <3>2, <3>3
  <2>4. QED
    BY <2>1, <2>2, <2>3
<1>5. hashed'[q] = hashed[q]
  BY DEF RunnerStep, Look, RemoveFiles, RemoveDirectory, MakeDirectory, OpenInDirectory,
     HashFiles, SharedStep
<1>6. procs'[q] = procs[q]
  BY <1>1, MovingProcess
<1>7. ASSUME NEW r \in Processes, r \notin mixed', Claimed(r)' PROVE r = q
  <2>1. r # p
    BY <1>2, <1>7, ClaimingMakes
  <2>2. Claimed(r)
    BY <1>1, <1>7, <2>1, MovingProcess DEF Claimed
  <2>3. QED
    BY <1>4, <1>7, <2>2 DEF ClaimInv
<1>8. /\ \A n : UNCHANGED << Lasts(q, n), FileAt(q, n) >>
      /\ Behind(q)' = Behind(q)
  BY <1>6 DEF Lasts, LastOn, WritesAt, FileAt, DirectoryFiles, Behind
<1>9. \A n \in Behind(q) : Lasts(q, n) => files'[FileAt(q, n)] = File(q, "whole")
  BY <1>4 DEF ClaimInv, Lasts
<1>10. \A f \in DirectoryFiles : files'[f] = Absent \/ files'[f].by = q
  BY <1>4 DEF ClaimInv
<1>11. procs'[q].at > 21 => hashed'[q] = [ f \in Listed |-> File(q, "whole") ]
  BY <1>5, <1>6 DEF ClaimInv
<1>12. QED
  BY <1>4, <1>7, <1>8, <1>9, <1>10, <1>11 DEF ClaimInv, DirectoryFiles

\* A directory that is not there has no files.
LEMMA RemovedIsEmpty ==
  ASSUME FilesInv, DirectoryInv, NEW p \in Processes, RunnerStep(p), ~directory',
         NEW f \in DirectoryFiles
  PROVE  files'[f] = Absent
<1>1. f \in Paths
  BY DEF DirectoryFiles
<1>2. CASE RemoveDirectory(p)
  <2> DEFINE left == { g \in DirectoryFiles : files[g] # Absent }
  <2>1. CASE Cardinality(left) <= 1
    <3>1. files' = [ g \in Paths |-> IF g \in left THEN Absent ELSE files[g] ]
      BY <1>2, <2>1 DEF RemoveDirectory
    <3>2. QED
      BY <1>1, <3>1
  <2>2. CASE ~(Cardinality(left) <= 1)
    BY <1>2, <2>2 DEF RemoveDirectory, DirectoryInv
  <2>3. QED
    BY <2>1, <2>2
<1>3. CASE SharedStep(p)
  BY <1>3 DEF SharedStep, DirectoryInv
<1>4. CASE ~RemoveDirectory(p) /\ ~SharedStep(p)
  <2>1. ~directory /\ UNCHANGED files
    BY <1>4 DEF RunnerStep, Look, RemoveFiles, MakeDirectory, OpenInDirectory, HashFiles
  <2>2. QED
    BY <2>1 DEF DirectoryInv
<1>5. QED
  BY <1>2, <1>3, <1>4

\* Who has just made the directory has it for itself, and it is empty.
LEMMA ClaimantStarts ==
  ASSUME ProcsInv, FilesInv, DirectoryInv, NEW p \in Processes \ mixed, RunnerStep(p),
         ~Claimed(p), Claimed(p)'
  PROVE  ClaimInv(p)'
<1>1. MakeDirectory(p) /\ ~directory /\ procs'[p].at = 3 /\ UNCHANGED files
  BY ClaimingMakes
<1>2. directory' /\ UNCHANGED mixed
  BY <1>1 DEF MakeDirectory
<1>3. Moving(p)
  BY RunnerStepMoves DEF FilesInv
<1>4. ASSUME NEW r \in Processes \ mixed, Claimed(r)' PROVE r = p
  <2>1. SUFFICES ASSUME r # p PROVE FALSE
    OBVIOUS
  <2>2. Claimed(r)
    BY <1>3, <1>4, <2>1, MovingProcess DEF Claimed
  <2>3. QED
    BY <1>1, <2>2 DEF DirectoryInv, ClaimInv
<1>5. \A f \in DirectoryFiles : files'[f] = Absent
  BY <1>1 DEF DirectoryInv
<1>6. procs'[p].steps = procs[p].steps /\ Benchmark(procs[p].command)
  BY <1>3, MovingProcess DEF Claimed
<1>7. ASSUME NEW n \in Behind(p)' PROVE ~Lasts(p, n)'
  <2>1. n \in {1, 2}
    BY <1>1, <1>7 DEF Behind
  <2>2. procs[p].steps[n].do \in {"force", "look", "mkdir"}
    BY <1>6, <2>1, RunFacts
  <2>3. QED
    BY <1>6, <2>2 DEF Lasts, WritesAt
<1>8. QED
  BY <1>1, <1>2, <1>4, <1>5, <1>7 DEF ClaimInv, DirectoryFiles

\* So every step keeps the directory in order.
LEMMA DirectoryKept ==
  ASSUME ProcsInv, FilesInv, DirectoryInv, NEW p \in Processes \ mixed, RunnerStep(p)
  PROVE  DirectoryInv'
<1>1. DOMAIN hashed = Processes
  BY DEF DirectoryInv
<1>2. DOMAIN hashed' = Processes
  BY <1>1 DEF RunnerStep, Look, RemoveFiles, RemoveDirectory, MakeDirectory, OpenInDirectory,
     HashFiles, SharedStep
<1>3. mixed \subseteq mixed'
  BY DEF RunnerStep, Look, RemoveFiles, RemoveDirectory, MakeDirectory, OpenInDirectory,
     HashFiles, SharedStep
<1>4. ASSUME NEW q \in Processes, q \notin mixed', Claimed(q)' PROVE ClaimInv(q)'
  <2>1. q \in Processes \ mixed
    BY <1>3, <1>4
  <2>2. CASE q # p
    <3>1. Moving(p)
      BY RunnerStepMoves DEF FilesInv
    <3>2. Claimed(q)
      BY <1>4, <2>2, <3>1, MovingProcess DEF Claimed
    <3>3. ClaimInv(q)
      BY <2>1, <3>2 DEF DirectoryInv
    <3>4. QED
      BY <1>1, <1>4, <2>1, <2>2, <3>2, <3>3, ClaimStays
  <2>3. CASE q = p /\ Claimed(p)
    <3>1. ClaimInv(p)
      BY <2>3 DEF DirectoryInv
    <3>2. QED
      BY <1>1, <2>3, <3>1, OwnerKeeps
  <2>4. CASE q = p /\ ~Claimed(p)
    BY <1>4, <2>4, ClaimantStarts
  <2>5. QED
    BY <2>2, <2>3, <2>4
<1>5. \A f \in DirectoryFiles : ~directory' => files'[f] = Absent
  BY RemovedIsEmpty
<1>6. QED
  BY <1>2, <1>4, <1>5 DEF DirectoryInv, DirectoryFiles

(***************************************************************************)
(* The theorems.                                                           *)
(***************************************************************************)

\* The invariant holds at the start: nobody has written or claimed anything.
LEMMA RunnerInitInv ==
  ASSUME RunnerInit
  PROVE  RunnerInv
<1>1. PICK scenario \in Scenarios :
        procs = [ p \in Processes |-> Process(scenario[p], GivenSteps(scenario[p])) ]
  BY DEF RunnerInit
<1>2. ASSUME NEW p \in Processes
      PROVE  /\ IsProcess(p) /\ Behind(p) = {} /\ ~Claimed(p)
             /\ procs[p].failed = FALSE /\ procs[p].exit = "running"
  <2> DEFINE c == scenario[p]
  <2>1. procs[p] = Process(c, GivenSteps(c))
    BY <1>1
  <2>2. /\ DOMAIN procs[p] = {"command", "steps", "at", "open", "failed", "exit"}
        /\ procs[p].command = c /\ procs[p].steps = GivenSteps(c) /\ procs[p].at = 1
        /\ procs[p].open = FALSE /\ procs[p].failed = FALSE /\ procs[p].exit = "running"
    BY <2>1 DEF Process
  <2>3. Benchmark(c) \/ (IsCli(c) /\ c.base # Run)
    BY ScenariosAssumption
  <2>4. Written(GivenSteps(c)) \subseteq Paths
    BY PathsAssumption
  <2> HIDE DEF c
  <2>5. Len(GivenSteps(c)) \in Nat
    <3>1. CASE Benchmark(c)
      BY <3>1, BenchmarkStepsAre DEF GivenSteps
    <3>2. CASE ~Benchmark(c)
      BY <2>3, <3>2, CommandStepsAre DEF GivenSteps
    <3>3. QED
      BY <3>1, <3>2
  <2>6. procs[p].at \in 1 .. Len(procs[p].steps) + 1
    BY <2>2, <2>5
  <2>7. IsProcess(p)
    BY <2>2, <2>3, <2>4, <2>6 DEF IsProcess, Cli
  <2>8. Behind(p) = {} /\ ~Claimed(p)
    BY <2>2 DEF Behind, Claimed
  <2>9. QED
    BY <2>2, <2>7, <2>8
<1>3. DOMAIN procs = Processes
  BY <1>1
<1>4. ProcsInv
  BY <1>2, <1>3 DEF ProcsInv
<1>5. PICK there \in Before :
        files = [ f \in Paths |-> IF f \in there THEN File(0, "whole") ELSE Absent ]
  BY DEF RunnerInit, FilesBefore
<1>6. /\ DOMAIN files = Paths
      /\ \A f \in Paths : /\ files[f] \in [ by : Processes \cup {0}, state : {"absent", "part", "whole"} ]
                          /\ files[f].by = 0
  BY <1>5 DEF File, Absent
<1>7. FilesInv
  BY <1>6, ProcessesAssumption DEF RunnerInit, FilesInv
<1>8. CommandsInv
  BY <1>2 DEF CommandsInv, CommandInv
<1>9. DirectoryInv
  BY <1>2 DEF RunnerInit, DirectoryInv
<1>10. QED
  BY <1>4, <1>7, <1>8, <1>9 DEF RunnerInv

\* Every step keeps the invariant.
LEMMA RunnerNextInv ==
  ASSUME RunnerInv, [RunnerNext]_runnerVars
  PROVE  RunnerInv'
<1>1. CASE RunnerNext
  <2>1. PICK p \in Processes \ mixed : RunnerStep(p)
    BY <1>1 DEF RunnerNext, RunnerStep
  <2>2. Moving(p)
    BY <2>1, RunnerStepMoves DEF RunnerInv, FilesInv
  <2>3. ProcsInv' /\ FilesInv' /\ CommandsInv'
    BY <2>2, MovingProcess, MovingFiles, CommandsKept DEF RunnerInv
  <2>4. DirectoryInv'
    BY <2>1, DirectoryKept DEF RunnerInv
  <2>5. QED
    BY <2>3, <2>4 DEF RunnerInv
<1>2. CASE UNCHANGED runnerVars
  <2>1. ProcsInv'
    BY <1>2 DEF runnerVars, cliVars, RunnerInv, ProcsInv, IsProcess, Cli
  <2>2. FilesInv'
    BY <1>2 DEF runnerVars, cliVars, RunnerInv, FilesInv, WritesAt, FileAt
  <2>3. CommandsInv'
    BY <1>2 DEF runnerVars, cliVars, RunnerInv, CommandsInv, CommandInv, Cli, Alone, Behind,
       WritesAt, FileAt, Whole, LastOn
  <2>4. DirectoryInv'
    BY <1>2 DEF runnerVars, cliVars, RunnerInv, DirectoryInv, ClaimInv, Claimed, Behind,
       Lasts, LastOn, WritesAt, FileAt, DirectoryFiles
  <2>5. QED
    BY <2>1, <2>2, <2>3, <2>4 DEF RunnerInv
<1>3. QED
  BY <1>1, <1>2

\* A command with all its steps behind it has written its files.
LEMMA CompleteFromInv ==
  ASSUME RunnerInv
  PROVE  SuccessIsComplete
<1> SUFFICES ASSUME NEW p \in Processes, Cli(p), Alone(p), procs[p].exit = "success"
             PROVE  LET c == procs[p].command
                    IN  /\ \A f \in Written(StepsOf(c)) :
                             files[f].by = p /\ (Whole(f) \/ faults > 0)
                        /\ c.name = "optimize" => Whole(Part(c.base, "graph"))
  BY DEF SuccessIsComplete
<1> DEFINE c == procs[p].command
           steps == procs[p].steps
<1>1. steps = StepsOf(c) /\ IsCli(c)
  BY CommandFacts DEF RunnerInv
<1>2. CommandInv(p)
  BY DEF RunnerInv, CommandsInv
<1>3. Len(steps) \in Nat /\ DOMAIN steps = 1 .. Len(steps)
  BY LengthOf DEF RunnerInv, ProcsInv
<1>4. Behind(p) = DOMAIN steps /\ procs[p].at = Len(steps) + 1
  <2>1. procs[p].at = Len(steps) + 1
    BY <1>2 DEF CommandInv
  <2>2. QED
    BY <1>3, <2>1 DEF Behind
<1>5. ~procs[p].failed
  <2>1. ~ \E m \in DOMAIN steps : m >= procs[p].at
    BY <1>3, <1>4
  <2>2. QED
    BY <1>2, <2>1 DEF CommandInv
<1>6. ASSUME NEW f \in Written(StepsOf(c)) PROVE files[f].by = p /\ (Whole(f) \/ faults > 0)
  <2>1. PICK n \in DOMAIN steps : WritesAt(p, n) /\ FileAt(p, n) = f
    BY <1>1, <1>6 DEF Written, FilesOf, WritesAt, FileAt
  <2>2. QED
    BY <1>2, <1>4, <1>5, <2>1 DEF CommandInv
<1>7. ASSUME c.name = "optimize" PROVE Whole(Part(c.base, "graph"))
  <2>1. \/ steps[1].do = "refuse" /\ Len(steps) = 1
        \/ /\ Len(steps) = 7 /\ steps[7] = Read(Part(c.base, "graph"))
           /\ Part(c.base, "graph") \in Written(steps)
    BY <1>1, <1>7, CommandStepsAre
  <2>2. ~(steps[1].do = "refuse" /\ Len(steps) = 1)
    BY <1>2, <1>3, <1>4 DEF CommandInv
  <2>3. /\ 7 \in Behind(p) /\ steps[7].do = "read" /\ FileAt(p, 7) = Part(c.base, "graph")
        /\ FileAt(p, 7) \in Written(steps)
    BY <1>3, <1>4, <2>1, <2>2 DEF Read, FileAt
  <2>4. LastOn(p, 7)
    <3>1. DOMAIN procs[p].steps = 1 .. 7
      BY <1>3, <2>1, <2>2
    <3>2. QED
      BY <3>1 DEF LastOn
  <2>5. QED
    BY <1>2, <2>3, <2>4 DEF CommandInv
<1>8. QED
  BY <1>6, <1>7

\* A command that exits with success has written all its files itself, whatever
\* runs beside it, as long as no other process writes the same files.
THEOREM SuccessIsCompleteHolds == RunnerSpec => []SuccessIsComplete
<1>1. RunnerInit => RunnerInv
  BY RunnerInitInv
<1>2. RunnerInv /\ [RunnerNext]_runnerVars => RunnerInv'
  BY RunnerNextInv
<1>3. RunnerInv => SuccessIsComplete
  BY CompleteFromInv
<1>4. QED
  BY <1>1, <1>2, <1>3, PTL DEF RunnerSpec

\* Whose manifest is there has claimed the directory and hashed whole files.
LEMMA ManifestFromInv ==
  ASSUME RunnerInv
  PROVE  ManifestIsOfOneRun
<1> SUFFICES ASSUME NEW p \in Processes \ mixed, Whole(In("manifest")),
                    files[In("manifest")].by = p, NEW f \in Listed
             PROVE  hashed[p][f] = File(p, "whole") /\ files[f] = hashed[p][f]
  BY DEF ManifestIsOfOneRun
<1>1. In("manifest") \in DirectoryFiles
  BY PathsAssumption DEF DirectoryFiles, In, Part
<1>2. PICK n \in DOMAIN procs[p].steps :
        n <= procs[p].at /\ WritesAt(p, n) /\ FileAt(p, n) = In("manifest")
  BY <1>1 DEF RunnerInv, FilesInv, DirectoryFiles
<1>3. Benchmark(procs[p].command)
  <2>1. SUFFICES ASSUME ~Benchmark(procs[p].command) PROVE FALSE
    OBVIOUS
  <2>2. Cli(p)
    BY <2>1 DEF RunnerInv, ProcsInv, IsProcess
  <2>3. In("manifest") \in Written(procs[p].steps)
    BY <1>2 DEF Written, FilesOf, WritesAt, FileAt
  <2>4. QED
    BY <1>1, <2>2, <2>3, CommandFacts DEF RunnerInv
<1>4. procs[p].at \in 1 .. 23 /\ DOMAIN procs[p].steps = 1 .. 22
  BY <1>3, AtFact DEF RunnerInv
<1>5. n = 22
  BY <1>2, <1>3, <1>4, RunFacts DEF RunnerInv
<1>6. procs[p].at > 21 /\ Claimed(p)
  BY <1>2, <1>3, <1>4, <1>5 DEF Claimed
<1>7. ClaimInv(p)
  BY <1>6 DEF RunnerInv, DirectoryInv
<1>8. hashed[p][f] = File(p, "whole")
  BY <1>6, <1>7 DEF ClaimInv
<1>9. PICK m \in 3 .. 20 : FileAt(p, m) = f /\ Lasts(p, m)
  BY <1>3, RunFacts DEF RunnerInv
<1>10. m \in Behind(p)
  BY <1>4, <1>6 DEF Behind
<1>11. files[f] = File(p, "whole")
  BY <1>7, <1>9, <1>10 DEF ClaimInv
<1>12. QED
  BY <1>8, <1>11

\* A manifest that is there is that of one run, whatever other runs and commands
\* do beside it.
THEOREM ManifestIsOfOneRunHolds == RunnerSpec => []ManifestIsOfOneRun
<1>1. RunnerInit => RunnerInv
  BY RunnerInitInv
<1>2. RunnerInv /\ [RunnerNext]_runnerVars => RunnerInv'
  BY RunnerNextInv
<1>3. RunnerInv => ManifestIsOfOneRun
  BY ManifestFromInv
<1>4. QED
  BY <1>1, <1>2, <1>3, PTL DEF RunnerSpec

(***************************************************************************)
(* Documents: the order of the loader under another listing.               *)
(***************************************************************************)

\* h has the operations of g, as pi lists them, and its values.
Relabels(h, g, pi) ==
  LET N == Len(g.ops)
  IN  /\ N \in Nat /\ Len(h.ops) = N
      /\ Operations(g) = 1 .. N /\ Operations(h) = 1 .. N
      /\ pi \in [ 1 .. N -> 1 .. N ]
      /\ \A m, n \in 1 .. N : pi[m] = pi[n] => m = n
      /\ \A n \in 1 .. N : \E m \in 1 .. N : pi[m] = n
      /\ \A n \in 1 .. N : h.ops[n].id = g.ops[pi[n]].id /\ h.ops[n].type = g.ops[pi[n]].type
                           /\ Reads(h, n) = Reads(g, pi[n]) /\ Writes(h, n) = Writes(g, pi[n])
      /\ \A n \in 1 .. N : g.ops[n].id \in Nat
      /\ \A m, n \in 1 .. N : g.ops[m].id = g.ops[n].id => m = n
      /\ DOMAIN h.values = DOMAIN g.values
      /\ \A n \in 1 .. N : Writes(g, n) \subseteq DOMAIN g.values
      /\ \A v \in DOMAIN g.values : Kind(h, v) = Kind(g, v)
      /\ h.inputs = g.inputs /\ h.outputs = g.outputs
      /\ \A n \in 1 .. N : h.ops[n].outputs = g.ops[pi[n]].outputs

Mapped(pi, s) == [ n \in 1 .. Len(s) |-> pi[s[n]] ]

\* The operations that may come next are the same.
LEMMA SameCandidates ==
  ASSUME NEW h, NEW g, NEW pi, Relabels(h, g, pi), NEW s \in Seq(1 .. Len(g.ops))
  PROVE  \A j \in 1 .. Len(g.ops) :
           pi[j] \in Candidates(g, DataEdges(g), Mapped(pi, s)) <=>
             j \in Candidates(h, DataEdges(h), s)
<1> DEFINE N == Len(g.ops)
           t == Mapped(pi, s)
<1>0. /\ N \in Nat /\ Len(h.ops) = N /\ Operations(g) = 1 .. N /\ Operations(h) = 1 .. N
      /\ \A n \in 1 .. N : pi[n] \in 1 .. N
      /\ \A m, n \in 1 .. N : pi[m] = pi[n] => m = n
      /\ \A n \in 1 .. N : \E m \in 1 .. N : pi[m] = n
      /\ \A n \in 1 .. N : h.ops[n].id = g.ops[pi[n]].id
                           /\ Reads(h, n) = Reads(g, pi[n]) /\ Writes(h, n) = Writes(g, pi[n])
      /\ \A n \in 1 .. N : g.ops[n].id \in Nat
      /\ \A m, n \in 1 .. N : g.ops[m].id = g.ops[n].id => m = n
  BY DEF Relabels
<1>1. Len(s) \in Nat /\ DOMAIN s = 1 .. Len(s) /\ \A n \in 1 .. Len(s) : s[n] \in 1 .. N
  OBVIOUS
<1>2. DOMAIN t = 1 .. Len(s) /\ \A n \in 1 .. Len(s) : t[n] = pi[s[n]]
  BY DEF Mapped
<1>3. \A j \in 1 .. N : pi[j] \in Elements(t) <=> j \in Elements(s)
  <2> HIDE DEF N, t
  <2>1. SUFFICES ASSUME NEW j \in 1 .. N PROVE pi[j] \in Elements(t) <=> j \in Elements(s)
    OBVIOUS
  <2>2. /\ j \in Elements(s) <=> \E n \in 1 .. Len(s) : s[n] = j
        /\ pi[j] \in Elements(t) <=> \E n \in 1 .. Len(s) : pi[s[n]] = pi[j]
    BY <1>1, <1>2 DEF Elements
  <2>. QED BY <1>0, <1>1, <2>2
<1>4. \A i, j \in 1 .. N : << pi[i], pi[j] >> \in DataEdges(g) <=> << i, j >> \in DataEdges(h)
  <2> HIDE DEF N
  <2> SUFFICES ASSUME NEW i \in 1 .. N, NEW j \in 1 .. N
               PROVE  << pi[i], pi[j] >> \in DataEdges(g) <=> << i, j >> \in DataEdges(h)
    OBVIOUS
  <2>1. << i, j >> \in DataEdges(h) <=> Writes(h, i) \cap Reads(h, j) # {}
    BY <1>0 DEF DataEdges
  <2>2. << pi[i], pi[j] >> \in DataEdges(g) <=> Writes(g, pi[i]) \cap Reads(g, pi[j]) # {}
    BY <1>0 DEF DataEdges
  <2>. QED BY <1>0, <2>1, <2>2
<1>5. /\ \A e \in DataEdges(g) : e = << e[1], e[2] >> /\ e[1] \in 1 .. N /\ e[2] \in 1 .. N
      /\ \A e \in DataEdges(h) : e = << e[1], e[2] >> /\ e[1] \in 1 .. N /\ e[2] \in 1 .. N
  <2> HIDE DEF N
  <2>1. DataEdges(g) \subseteq (1 .. N) \X (1 .. N) /\ DataEdges(h) \subseteq (1 .. N) \X (1 .. N)
    BY <1>0 DEF DataEdges
  <2>2. \A e \in (1 .. N) \X (1 .. N) : e = << e[1], e[2] >> /\ e[1] \in 1 .. N /\ e[2] \in 1 .. N
    OBVIOUS
  <2>. QED BY <2>1, <2>2
<1>6. \A j \in 1 .. N : pi[j] \in 1 .. N /\ j \in Operations(h) /\ pi[j] \in Operations(g)
  BY <1>0
<1> HIDE DEF t
<1>7. ASSUME NEW j \in 1 .. N, j \in Candidates(h, DataEdges(h), s)
      PROVE  pi[j] \in Candidates(g, DataEdges(g), t)
  <2>1. ASSUME NEW e \in DataEdges(g), e[2] = pi[j] PROVE e[1] \in Elements(t)
    <3>1. PICK i \in 1 .. N : pi[i] = e[1]
      BY <1>0, <1>5
    <3>2. << i, j >> \in DataEdges(h)
      BY <1>4, <1>5, <2>1, <3>1
    <3>3. i \in Elements(s)
      BY <1>7, <3>2 DEF Candidates
    <3>. QED BY <1>3, <3>1, <3>3
  <2>2. pi[j] \notin Elements(t)
    BY <1>3, <1>7 DEF Candidates
  <2>. QED BY <1>6, <2>1, <2>2 DEF Candidates
<1>8. ASSUME NEW j \in 1 .. N, pi[j] \in Candidates(g, DataEdges(g), t)
      PROVE  j \in Candidates(h, DataEdges(h), s)
  <2>1. ASSUME NEW e \in DataEdges(h), e[2] = j PROVE e[1] \in Elements(s)
    <3>1. << pi[e[1]], pi[j] >> \in DataEdges(g)
      BY <1>4, <1>5, <2>1
    <3>2. pi[e[1]] \in Elements(t)
      BY <1>8, <3>1 DEF Candidates
    <3>. QED BY <1>3, <1>5, <3>2
  <2>2. j \notin Elements(s)
    BY <1>3, <1>8 DEF Candidates
  <2>. QED BY <1>6, <2>1, <2>2 DEF Candidates
<1>. QED BY <1>7, <1>8 DEF t

\* Nor is it another one that comes.
LEMMA SameExtension ==
  ASSUME NEW h, NEW g, NEW pi, Relabels(h, g, pi), NEW s \in Seq(1 .. Len(g.ops))
  PROVE  LET u == Extension(h, DataEdges(h), s)
         IN  /\ u \in Seq(1 .. Len(g.ops))
             /\ Extension(g, DataEdges(g), Mapped(pi, s)) = Mapped(pi, u)
<1> DEFINE N == Len(g.ops)
           C == Candidates(h, DataEdges(h), s)
           D == Candidates(g, DataEdges(g), Mapped(pi, s))
           Least(x) == \A y \in C : h.ops[x].id <= h.ops[y].id
           LeastHere(x) == \A y \in D : g.ops[x].id <= g.ops[y].id
           c == CHOOSE x \in C : Least(x)
           d == CHOOSE x \in D : LeastHere(x)
<1>0. /\ N \in Nat /\ Len(h.ops) = N /\ Operations(g) = 1 .. N /\ Operations(h) = 1 .. N
      /\ \A n \in 1 .. N : pi[n] \in 1 .. N
      /\ \A m, n \in 1 .. N : pi[m] = pi[n] => m = n
      /\ \A n \in 1 .. N : \E m \in 1 .. N : pi[m] = n
      /\ \A n \in 1 .. N : h.ops[n].id = g.ops[pi[n]].id
                           /\ Reads(h, n) = Reads(g, pi[n]) /\ Writes(h, n) = Writes(g, pi[n])
      /\ \A n \in 1 .. N : g.ops[n].id \in Nat
      /\ \A m, n \in 1 .. N : g.ops[m].id = g.ops[n].id => m = n
  BY DEF Relabels
<1>1. C \subseteq 1 .. N /\ D \subseteq 1 .. N
  BY <1>0 DEF Candidates
<1>2. \A j \in 1 .. N : pi[j] \in D <=> j \in C
  BY SameCandidates
<1>3. Extension(h, DataEdges(h), s) = IF C = {} THEN s ELSE Append(s, c)
  BY DEF Extension
<1>4. Extension(g, DataEdges(g), Mapped(pi, s)) =
        IF D = {} THEN Mapped(pi, s) ELSE Append(Mapped(pi, s), d)
  BY DEF Extension
<1> HIDE DEF C, D, N
<1>5. C = {} <=> D = {}
  <2>1. ASSUME NEW x \in C PROVE D # {}
    BY <1>1, <1>2
  <2>2. ASSUME NEW y \in D PROVE C # {}
    <3>1. PICK x \in 1 .. N : pi[x] = y
      BY <1>0, <1>1
    <3>. QED BY <1>2, <3>1
  <2>. QED BY <2>1, <2>2
<1>6. CASE C = {}
  BY <1>3, <1>4, <1>5, <1>6
<1>7. CASE C # {}
  <2>1. \E x \in C : Least(x)
    <3> DEFINE ids == { h.ops[x].id : x \in C }
    <3>0. ASSUME NEW n \in 1 .. N PROVE h.ops[n].id \in Nat
      <4>1. h.ops[n].id = g.ops[pi[n]].id /\ pi[n] \in 1 .. N
        BY <1>0
      <4>. QED BY <1>0, <4>1
    <3>1. ids \in SUBSET Nat /\ ids # {}
      BY <1>1, <1>7, <3>0
    <3>2. PICK m \in ids : \A x \in ids : m <= x
      <4> HIDE DEF ids
      <4>. QED BY <3>1, LeastElement
    <3>. QED BY <3>2
  <2>2. c \in C /\ Least(c)
    BY <2>1
  <2> HIDE DEF c
  <2>3. pi[c] \in D
    BY <1>1, <1>2, <2>2
  <2>4. ASSUME NEW y \in D PROVE g.ops[pi[c]].id <= g.ops[y].id
    <3>1. PICK x \in 1 .. N : pi[x] = y
      BY <1>0, <1>1
    <3>2. x \in C
      BY <1>2, <3>1
    <3>3. h.ops[c].id <= h.ops[x].id
      BY <2>2, <3>2
    <3>. QED BY <1>0, <1>1, <2>2, <3>1, <3>3
  <2>5. LeastHere(pi[c])
    BY <2>4
  <2>6. d \in D /\ LeastHere(d)
    BY <2>3, <2>5
  <2> HIDE DEF d
  <2>7. g.ops[d].id \in Nat /\ g.ops[pi[c]].id \in Nat /\ d \in 1 .. N /\ pi[c] \in 1 .. N
    BY <1>0, <1>1, <2>3, <2>6
  <2>8. g.ops[d].id <= g.ops[pi[c]].id /\ g.ops[pi[c]].id <= g.ops[d].id
    BY <2>3, <2>5, <2>6
  <2>9. d = pi[c]
    <3>1. \A a, b \in Nat : a <= b /\ b <= a => a = b
      OBVIOUS
    <3>2. g.ops[d].id = g.ops[pi[c]].id
      BY <2>7, <2>8, <3>1
    <3>. QED BY <1>0, <2>7, <3>2
  <2> DEFINE u == Append(s, c)
  <2>10. u \in Seq(1 .. N) /\ Len(u) = Len(s) + 1 /\ u[Len(s) + 1] = c
         /\ \A n \in 1 .. Len(s) : u[n] = s[n]
    <3>1. s \in Seq(1 .. N) /\ c \in 1 .. N
      BY <1>1, <2>2 DEF N
    <3>. QED BY <3>1, AppendProperties
  <2>11. /\ Len(s) \in Nat /\ \A n \in 1 .. Len(s) : s[n] \in 1 .. N
         /\ \A n \in 1 .. N : pi[n] \in 1 .. N
    BY <1>0 DEF N
  <2>12. Mapped(pi, s) \in Seq(1 .. N) /\ Len(Mapped(pi, s)) = Len(s)
    <3>1. Mapped(pi, s) \in [ 1 .. Len(s) -> 1 .. N ]
      BY <2>11 DEF Mapped
    <3>. QED BY <2>11, <3>1, FunctionToSequence
  <2> DEFINE w == Append(Mapped(pi, s), pi[c])
  <2>13. w \in Seq(1 .. N) /\ Len(w) = Len(s) + 1 /\ w[Len(s) + 1] = pi[c]
         /\ \A n \in 1 .. Len(s) : w[n] = Mapped(pi, s)[n]
    BY <2>7, <2>12, AppendProperties
  <2>14. DOMAIN w = 1 .. Len(s) + 1
    <3> HIDE DEF w
    <3>. QED BY <2>13, LenProperties
  <2> HIDE DEF u, w
  <2>15. w = [ n \in 1 .. Len(s) + 1 |-> w[n] ]
    BY <2>13, <2>14
  <2>16. ASSUME NEW n \in 1 .. Len(s) + 1 PROVE w[n] = pi[u[n]]
    <3>1. n \in 1 .. Len(s) \/ n = Len(s) + 1
      BY <2>11
    <3>2. n \in 1 .. Len(s) => Mapped(pi, s)[n] = pi[s[n]]
      BY DEF Mapped
    <3>. QED BY <2>10, <2>13, <3>1, <3>2
  <2>17. w = Mapped(pi, u)
    BY <2>10, <2>15, <2>16 DEF Mapped
  <2>18. Extension(h, DataEdges(h), s) = u
    BY <1>3, <1>7 DEF u
  <2>19. Extension(g, DataEdges(g), Mapped(pi, s)) = w
    BY <1>4, <1>5, <1>7, <2>9 DEF w
  <2>. QED BY <2>10, <2>17, <2>18, <2>19 DEF N
<1>. QED BY <1>6, <1>7

\* The order lists the same operations.
LEMMA SameLoadOrder ==
  ASSUME NEW h, NEW g, NEW pi, Relabels(h, g, pi)
  PROVE  /\ LoadOrder(h) \in Seq(1 .. Len(g.ops))
         /\ LoadOrder(g) = Mapped(pi, LoadOrder(h))
<1> DEFINE N == Len(g.ops)
<1>0. N \in Nat /\ Len(h.ops) = N
  BY DEF Relabels
<1>1. PICK p : AreExtensions(h, DataEdges(h), N, p) /\ LoadOrder(h) = p[N]
  BY <1>0, LeastFirstIsExtension DEF LoadOrder
<1>2. PICK q : AreExtensions(g, DataEdges(g), N, q) /\ LoadOrder(g) = q[N]
  BY <1>0, LeastFirstIsExtension DEF LoadOrder
<1> DEFINE Good == { n \in 0 .. N : p[n] \in Seq(1 .. N) /\ q[n] = Mapped(pi, p[n]) }
<1>3. /\ p[0] = << >> /\ \A n \in 1 .. N : p[n] = Extension(h, DataEdges(h), p[n - 1])
      /\ q[0] = << >> /\ \A n \in 1 .. N : q[n] = Extension(g, DataEdges(g), q[n - 1])
  <2> HIDE DEF N
  <2>1. AreExtensions(h, DataEdges(h), N, p) /\ AreExtensions(g, DataEdges(g), N, q)
    BY <1>1, <1>2
  <2>. QED BY <1>0, <2>1 DEF AreExtensions
<1>4. 0 \in Good
  <2>1. << >> \in Seq(1 .. N) /\ Len(<< >>) = 0 /\ 1 .. 0 = {}
    OBVIOUS
  <2>2. Mapped(pi, << >>) = << >>
    BY <2>1 DEF Mapped
  <2>3. 0 \in 0 .. N
    BY <1>0
  <2>. QED BY <1>3, <2>1, <2>2, <2>3
<1>5. ASSUME NEW n \in 1 .. N, n - 1 \in Good PROVE n \in Good
  <2>1. p[n - 1] \in Seq(1 .. N) /\ q[n - 1] = Mapped(pi, p[n - 1])
    BY <1>5
  <2>2. p[n] \in Seq(1 .. N) /\ q[n] = Mapped(pi, p[n])
    BY <1>3, <2>1, SameExtension
  <2>. QED BY <2>2
<1>6. Good \in SUBSET (0 .. N)
  OBVIOUS
<1> HIDE DEF Good
<1>7. N \in Good
  <2>1. \A n \in 0 .. N : n \in Good
    BY <1>0, <1>4, <1>5, <1>6, UpTo
  <2>. QED BY <1>0, <2>1
<1>. QED BY <1>1, <1>2, <1>7 DEF Good

\* What the inputs reach is found in the same rounds.
LEMMA SameConnected ==
  ASSUME NEW h, NEW g, NEW pi, Relabels(h, g, pi)
  PROVE  Connected(h, LoadOrder(h)) = Connected(g, LoadOrder(g))
<1> DEFINE s == LoadOrder(h)
           t == LoadOrder(g)
           K == Len(s)
<1>0. s \in Seq(1 .. Len(g.ops)) /\ t = Mapped(pi, s)
  BY SameLoadOrder
<1> HIDE DEF s, t
<1>1. /\ K \in Nat /\ \A n \in 1 .. K : s[n] \in 1 .. Len(g.ops) /\ pi[s[n]] \in 1 .. Len(g.ops)
      /\ Len(g.ops) \in Nat
  BY <1>0 DEF Relabels
<1>2. Len(t) = K /\ \A n \in 1 .. K : t[n] = pi[s[n]]
  <2>1. t \in [ 1 .. K -> 1 .. Len(g.ops) ]
    BY <1>0, <1>1 DEF Mapped
  <2>. QED BY <1>0, <1>1, <2>1, FunctionToSequence DEF Mapped
<1>3. PICK p : AreConnectedRounds(h, s, K, p) /\ Connected(h, s) = p[K]
  BY <1>1, ConnectedIsRound
<1>4. PICK q : AreConnectedRounds(g, t, K, q) /\ Connected(g, t) = q[K]
  BY <1>1, <1>2, ConnectedIsRound
<1> DEFINE Good == { n \in 0 .. K : p[n] = q[n] }
<1> HIDE DEF K
<1>5. /\ p[0] = h.inputs /\ \A n \in 1 .. K : p[n] = ConnectedRound(h, s[n], p[n - 1])
      /\ q[0] = g.inputs /\ \A n \in 1 .. K : q[n] = ConnectedRound(g, t[n], q[n - 1])
  BY <1>1, <1>3, <1>4 DEF AreConnectedRounds
<1>6. 0 \in Good
  BY <1>1, <1>5 DEF Relabels
<1>7. ASSUME NEW n \in 1 .. K, n - 1 \in Good PROVE n \in Good
  <2>1. Reads(h, s[n]) = Reads(g, t[n]) /\ Writes(h, s[n]) = Writes(g, t[n])
    BY <1>1, <1>2 DEF Relabels
  <2>2. p[n] = q[n]
    BY <1>5, <1>7, <2>1 DEF ConnectedRound
  <2>. QED BY <2>2
<1>8. Good \in SUBSET (0 .. K)
  OBVIOUS
<1> HIDE DEF Good
<1>9. \A n \in 0 .. K : n \in Good
  BY <1>1, <1>6, <1>7, <1>8, UpTo
<1>10. K \in Good
  BY <1>1, <1>9
<1>. QED BY <1>3, <1>4, <1>10 DEF Good, s, t

\* So the loader's checks of the graph as a whole have the same outcome.
LEMMA SameChecks ==
  ASSUME NEW h, NEW g, NEW pi, Relabels(h, g, pi), ProducersExist(g), RolesAgree(g),
         Len(LoadOrder(g)) = Len(g.ops), g.outputs \subseteq Connected(g, LoadOrder(g))
  PROVE  /\ ProducersExist(h) /\ RolesAgree(h)
         /\ Len(LoadOrder(h)) = Len(h.ops)
         /\ h.outputs \subseteq Connected(h, LoadOrder(h))
<1> DEFINE N == Len(g.ops)
<1>0. /\ N \in Nat /\ Len(h.ops) = N /\ Operations(g) = 1 .. N /\ Operations(h) = 1 .. N
      /\ \A n \in 1 .. N : pi[n] \in 1 .. N
      /\ \A m, n \in 1 .. N : pi[m] = pi[n] => m = n
      /\ \A n \in 1 .. N : \E m \in 1 .. N : pi[m] = n
      /\ \A n \in 1 .. N : h.ops[n].type = g.ops[pi[n]].type /\ Writes(h, n) = Writes(g, pi[n])
      /\ DOMAIN h.values = DOMAIN g.values
      /\ \A n \in 1 .. N : Writes(g, n) \subseteq DOMAIN g.values
      /\ \A v \in DOMAIN g.values : Kind(h, v) = Kind(g, v)
  BY DEF Relabels
<1>1. LoadOrder(h) \in Seq(1 .. N) /\ LoadOrder(g) = Mapped(pi, LoadOrder(h))
  BY SameLoadOrder
<1> HIDE DEF N
<1>2. ProducersExist(h)
  <2>1. ~HasDuplicateProducer(h)
    <3>0. \A n \in 1 .. N : \A k, l \in DOMAIN h.ops[n].outputs :
            k # l => h.ops[n].outputs[k] # h.ops[n].outputs[l]
      <4> SUFFICES ASSUME NEW n \in 1 .. N, NEW k \in DOMAIN h.ops[n].outputs,
                          NEW l \in DOMAIN h.ops[n].outputs, k # l
                   PROVE  h.ops[n].outputs[k] # h.ops[n].outputs[l]
        OBVIOUS
      <4>1. h.ops[n].outputs = g.ops[pi[n]].outputs /\ pi[n] \in Operations(g)
        BY <1>0 DEF Relabels
      <4>. QED BY <4>1 DEF ProducersExist, HasDuplicateProducer
    <3>1. ASSUME NEW i \in 1 .. N, NEW j \in 1 .. N, i # j
          PROVE  Writes(h, i) \cap Writes(h, j) = {}
      <4>1. pi[i] # pi[j] /\ pi[i] \in 1 .. N /\ pi[j] \in 1 .. N
        BY <1>0, <3>1
      <4>2. Writes(g, pi[i]) \cap Writes(g, pi[j]) = {}
        BY <1>0, <4>1 DEF ProducersExist, HasDuplicateProducer
      <4>. QED BY <1>0, <4>2
    <3>2. Operations(h) = 1 .. N
      BY <1>0
    <3>. QED BY <3>0, <3>1, <3>2, Zenon DEF HasDuplicateProducer
  <2>2. ASSUME NEW v \in DOMAIN h.values
        PROVE  v \in UNION { Writes(h, i) : i \in Operations(h) }
    <3>1. PICK n \in 1 .. N : v \in Writes(g, n)
      BY <1>0 DEF ProducersExist
    <3>2. PICK m \in 1 .. N : pi[m] = n
      BY <1>0
    <3>. QED BY <1>0, <3>1, <3>2
  <2>. QED BY <2>1, <2>2 DEF ProducersExist
<1>3. RolesAgree(h)
  <2> SUFFICES ASSUME NEW i \in 1 .. N, NEW v \in Writes(h, i)
               PROVE  Kind(h, v) \in KindsProducedBy(h.ops[i].type)
    BY <1>0 DEF RolesAgree
  <2>1. pi[i] \in 1 .. N /\ v \in Writes(g, pi[i]) /\ h.ops[i].type = g.ops[pi[i]].type
    BY <1>0
  <2>2. Kind(g, v) \in KindsProducedBy(h.ops[i].type)
    BY <1>0, <2>1 DEF RolesAgree
  <2>3. v \in DOMAIN g.values
    BY <1>0, <2>1
  <2>. QED BY <1>0, <2>2, <2>3
<1>4. Len(LoadOrder(h)) = N
  <2>0. ASSUME NEW s \in Seq(1 .. N), NEW n \in 1 .. Len(s) PROVE s[n] \in 1 .. N
    BY ElementOfSeq
  <2>1. Mapped(pi, LoadOrder(h)) \in [ 1 .. Len(LoadOrder(h)) -> 1 .. N ]
    BY <1>0, <1>1, <2>0 DEF Mapped
  <2>2. Len(Mapped(pi, LoadOrder(h))) = Len(LoadOrder(h))
    BY <1>1, <2>1, LenProperties, FunctionToSequence
  <2>. QED BY <1>1, <2>2 DEF N
<1>5. h.outputs \subseteq Connected(h, LoadOrder(h))
  <2>1. h.outputs = g.outputs
    BY DEF Relabels
  <2>. QED BY <2>1, SameConnected
<1>. QED BY <1>0, <1>2, <1>3, <1>4, <1>5

(***************************************************************************)
(* Documents: what the loader lets through.                                *)
(***************************************************************************)

\* Everything LoadStatus looks at, all at once.
Passes(d) ==
  /\ DOMAIN d # {"malformed"}
  /\ HasFields(d, {"graph_schema_version"}) /\ d.graph_schema_version = "1.0"
  /\ HeaderIsSound(d) /\ NonEmpty(d, "values")
  /\ \A n \in DOMAIN d.values : ValueStatus(d.values, n) = "ok"
  /\ InterfaceExists(d) /\ NonEmpty(d, "operations")
  /\ \A n \in DOMAIN d.operations : OperationStatus(d, n) = "ok"
  /\ GraphStatus(d) = "ok"

\* Of the values the first refusal decides.
LEMMA ValuesPass ==
  ASSUME NEW d, IsArray(d.values)
  PROVE  LET OfValue(n) == ValueStatus(d.values, n)
         IN  FirstRefusal(d.values, OfValue) = "ok" <=>
               \A n \in DOMAIN d.values : ValueStatus(d.values, n) = "ok"
<1> DEFINE refused == { n \in DOMAIN d.values : ValueStatus(d.values, n) # "ok" }
           first == CHOOSE n \in refused : \A m \in refused : n <= m
           OfValue(n) == ValueStatus(d.values, n)
<1>1. FirstRefusal(d.values, OfValue) =
        IF refused = {} THEN "ok" ELSE ValueStatus(d.values, first)
  BY DEF FirstRefusal
<1>2. refused \in SUBSET Nat
  BY DEF IsArray
<1>3. ASSUME refused # {} PROVE ValueStatus(d.values, first) # "ok"
  <2>1. first \in refused
    <3> HIDE DEF refused
    <3>. QED BY <1>2, <1>3, LeastElement
  <2>. QED BY <2>1
<1>. QED BY <1>1, <1>3

\* And of the operations.
LEMMA OperationsPass ==
  ASSUME NEW d, IsArray(d.operations)
  PROVE  LET OfOperation(n) == OperationStatus(d, n)
         IN  FirstRefusal(d.operations, OfOperation) = "ok" <=>
               \A n \in DOMAIN d.operations : OperationStatus(d, n) = "ok"
<1> DEFINE refused == { n \in DOMAIN d.operations : OperationStatus(d, n) # "ok" }
           first == CHOOSE n \in refused : \A m \in refused : n <= m
           OfOperation(n) == OperationStatus(d, n)
<1>1. FirstRefusal(d.operations, OfOperation) =
        IF refused = {} THEN "ok" ELSE OperationStatus(d, first)
  BY DEF FirstRefusal
<1>2. refused \in SUBSET Nat
  BY DEF IsArray
<1>3. ASSUME refused # {} PROVE OperationStatus(d, first) # "ok"
  <2>1. first \in refused
    <3> HIDE DEF refused
    <3>. QED BY <1>2, <1>3, LeastElement
  <2>. QED BY <2>1
<1>. QED BY <1>1, <1>3

\* A document is loaded if it passes all the checks, in whatever order.
LEMMA LoadsIfPasses ==
  ASSUME NEW d, IsParsed(d)
  PROVE  LoadStatus(d) = "ok" <=> Passes(d)
<1> DEFINE OfValue(n) == ValueStatus(d.values, n)
           OfOperation(n) == OperationStatus(d, n)
           V == FirstRefusal(d.values, OfValue)
           W == FirstRefusal(d.operations, OfOperation)
<1>1. LoadStatus(d) =
        IF DOMAIN d = {"malformed"} THEN "parse_error"
        ELSE IF ~HasFields(d, {"graph_schema_version"}) THEN "invalid"
        ELSE IF d.graph_schema_version # "1.0" THEN "unsupported"
        ELSE IF ~HeaderIsSound(d) \/ ~NonEmpty(d, "values") THEN "invalid"
        ELSE IF V # "ok" THEN V
        ELSE IF ~InterfaceExists(d) \/ ~NonEmpty(d, "operations") THEN "invalid"
        ELSE IF W # "ok" THEN W ELSE GraphStatus(d)
  BY DEF LoadStatus
<1>2. NonEmpty(d, "values") => IsArray(d.values)
  BY DEF NonEmpty, IsParsed
<1>3. NonEmpty(d, "operations") => IsArray(d.operations)
  BY DEF NonEmpty, IsParsed
<1>4. NonEmpty(d, "values") =>
        (V = "ok" <=> \A n \in DOMAIN d.values : ValueStatus(d.values, n) = "ok")
  BY <1>2, ValuesPass
<1>5. NonEmpty(d, "operations") =>
        (W = "ok" <=> \A n \in DOMAIN d.operations : OperationStatus(d, n) = "ok")
  BY <1>3, OperationsPass
<1> HIDE DEF V, W
<1>. QED BY <1>1, <1>4, <1>5 DEF Passes

\* What has passed has all the fields that are kept, ids of its own, and operations
\* with results of their own.
LEMMA PassedFacts ==
  ASSUME NEW d, IsParsed(d), Passes(d)
  PROVE  LET N == Len(d.operations)
         IN  /\ GraphFields \subseteq DOMAIN d
             /\ HasFields(d.weight_manifest, ManifestFields)
             /\ IsArray(d.values) /\ IsArray(d.operations)
             /\ N \in Nat /\ DOMAIN d.operations = 1 .. N
             /\ \A n \in DOMAIN d.values : ValueFields \subseteq DOMAIN d.values[n]
             /\ \A m, n \in DOMAIN d.values : d.values[m].id = d.values[n].id => m = n
             /\ \A n \in 1 .. N : OperationFields \subseteq DOMAIN d.operations[n]
             /\ \A n \in 1 .. N : d.operations[n].id \in Nat \ {0}
             /\ \A m, n \in 1 .. N : d.operations[m].id = d.operations[n].id => m = n
             /\ \A m, n \in 1 .. N : d.operations[m].outputs = d.operations[n].outputs => m = n
             /\ \A n \in 1 .. N : OperationIsSound(d, n)
<1> DEFINE N == Len(d.operations)
<1>1. GraphFields \subseteq DOMAIN d /\ HasFields(d.weight_manifest, ManifestFields)
  BY DEF Passes, HeaderIsSound, NonEmpty, HasFields, GraphFields
<1>2. IsArray(d.values) /\ IsArray(d.operations)
  BY DEF Passes, IsParsed, NonEmpty
<1>3. N \in Nat /\ DOMAIN d.operations = 1 .. N
  BY <1>2, LenProperties DEF IsArray
<1>4. DOMAIN d.values \subseteq Nat
  BY <1>2 DEF IsArray
<1>5. ASSUME NEW n \in DOMAIN d.values
      PROVE  ValueFields \subseteq DOMAIN d.values[n] /\ NewId(d.values, n)
  <2>1. ValueStatus(d.values, n) = "ok"
    BY DEF Passes
  <2>2. /\ NewId(d.values, n) /\ HasFields(d.values[n], {"semantic_name", "dtype"})
        /\ HasFields(d.values[n], {"kind", "shape"})
    BY <2>1 DEF ValueStatus
  <2>. QED BY <2>2 DEF NewId, HasFields, ValueFields
<1>6. ASSUME NEW m \in DOMAIN d.values, NEW n \in DOMAIN d.values,
             d.values[m].id = d.values[n].id
      PROVE  m = n
  <2>1. ASSUME NEW j \in DOMAIN d.values, NEW k \in DOMAIN d.values, j < k
        PROVE  d.values[j].id # d.values[k].id
    <3>1. j \in 1 .. k - 1
      BY <1>2, <2>1, LenProperties DEF IsArray
    <3>2. HasFields(d.values[j], {"id"})
      BY <1>5 DEF NewId
    <3>. QED BY <1>5, <3>1, <3>2 DEF NewId
  <2>2. m < n \/ n < m \/ m = n
    BY <1>4
  <2>. QED BY <1>6, <2>1, <2>2
<1>7. ASSUME NEW n \in 1 .. N
      PROVE  NewId(d.operations, n) /\ OperationIsSound(d, n)
  <2>1. OperationStatus(d, n) = "ok"
    BY <1>3 DEF Passes
  <2>. QED BY <2>1 DEF OperationStatus
<1>8. ASSUME NEW n \in 1 .. N
      PROVE  /\ OperationFields \subseteq DOMAIN d.operations[n]
             /\ d.operations[n].id \in Nat \ {0}
  <2>1. OperationFields \subseteq DOMAIN d.operations[n]
    BY <1>7 DEF OperationIsSound, HasFields
  <2>2. d.operations[n].id \in Nat
    <3>1. HasFields(d.operations[n], {"id"})
      BY <1>7 DEF NewId
    <3>. QED BY <1>1, <1>3, <3>1 DEF IsParsed, HasFields, GraphFields
  <2>. QED BY <1>7, <2>1, <2>2 DEF NewId
<1>9. ASSUME NEW j \in 1 .. N, NEW k \in 1 .. N, j < k
      PROVE  /\ d.operations[j].id # d.operations[k].id
             /\ d.operations[j].outputs # d.operations[k].outputs
  <2>1. j \in 1 .. k - 1
    BY <1>3, <1>9
  <2>2. HasFields(d.operations[j], {"id"}) /\ HasFields(d.operations[j], {"outputs"})
    BY <1>8 DEF OperationFields, HasFields
  <2>3. NewId(d.operations, k) /\ OperationIsSound(d, k)
    BY <1>7
  <2>4. d.operations[j].id # d.operations[k].id
    BY <2>1, <2>2, <2>3 DEF NewId
  <2>5. d.operations[j].outputs # d.operations[k].outputs
    BY <2>1, <2>2, <2>3 DEF OperationIsSound
  <2>. QED BY <2>4, <2>5
<1>10. \A j, k \in 1 .. N : j < k \/ k < j \/ j = k
  BY <1>3
<1> HIDE DEF N
<1>11. /\ \A m, n \in 1 .. N : d.operations[m].id = d.operations[n].id => m = n
       /\ \A m, n \in 1 .. N : d.operations[m].outputs = d.operations[n].outputs => m = n
  BY <1>9, <1>10
<1>. QED BY <1>1, <1>2, <1>3, <1>5, <1>6, <1>7, <1>8, <1>11 DEF N

\* e has what the loader looks at in d, its operations listed as pi says, and a
\* digest of its own.
Lists(e, d, pi) ==
  LET N == Len(d.operations)
  IN  /\ GraphFields \subseteq DOMAIN e
      /\ e.graph_schema_version = d.graph_schema_version
      /\ e.inputs = d.inputs /\ e.outputs = d.outputs
      /\ HasFields(e.weight_manifest, ManifestFields)
      /\ e.weight_manifest.weight_archive = d.weight_manifest.weight_archive
      /\ IsArray(e.values) /\ DOMAIN e.values = DOMAIN d.values
      /\ \A n \in DOMAIN d.values :
           /\ ValueFields \subseteq DOMAIN e.values[n]
           /\ \A f \in ValueFields : e.values[n][f] = d.values[n][f]
      /\ IsArray(e.operations) /\ Len(e.operations) = N
      /\ pi \in [ 1 .. N -> 1 .. N ]
      /\ \A m, n \in 1 .. N : pi[m] = pi[n] => m = n
      /\ \A n \in 1 .. N : \E m \in 1 .. N : pi[m] = n
      /\ \A n \in 1 .. N :
           /\ OperationFields \subseteq DOMAIN e.operations[n]
           /\ \A f \in OperationFields : e.operations[n][f] = d.operations[pi[n]][f]
      /\ e.graph_hash = Digest(e)

\* Its values are those of d.
LEMMA ListedValues ==
  ASSUME NEW d, IsParsed(d), Passes(d), NEW e, NEW pi, Lists(e, d, pi)
  PROVE  /\ \A n \in DOMAIN e.values : ValueStatus(e.values, n) = "ok"
         /\ Ids(e.values) = Ids(d.values)
         /\ \A id \in Ids(d.values) : ValueOf(e, id).kind = ValueOf(d, id).kind
<1>1. /\ DOMAIN e.values = DOMAIN d.values
      /\ \A n \in DOMAIN d.values :
           /\ {"id", "semantic_name", "dtype", "kind", "shape"} \subseteq DOMAIN e.values[n]
           /\ e.values[n].id = d.values[n].id /\ e.values[n].dtype = d.values[n].dtype
           /\ e.values[n].kind = d.values[n].kind /\ e.values[n].shape = d.values[n].shape
  BY DEF Lists, ValueFields
<1>2. /\ \A m, n \in DOMAIN d.values : d.values[m].id = d.values[n].id => m = n
      /\ \A n \in DOMAIN d.values :
           {"id", "semantic_name", "dtype", "kind", "shape"} \subseteq DOMAIN d.values[n]
  BY PassedFacts DEF ValueFields
<1>3. DOMAIN d.values \subseteq Nat
  <2>1. IsArray(d.values)
    BY PassedFacts
  <2>. QED BY <2>1 DEF IsArray
<1>4. ASSUME NEW n \in DOMAIN d.values PROVE ValueStatus(e.values, n) = "ok"
  <2>1. ValueStatus(d.values, n) = "ok"
    BY DEF Passes
  <2>2. byte_size(e.values[n]) = byte_size(d.values[n])
    BY <1>1 DEF byte_size
  <2>3. NewId(d.values, n)
    BY <2>1 DEF ValueStatus
  <2>4. NewId(e.values, n)
    <3>1. HasFields(e.values[n], {"id"}) /\ e.values[n].id # 0
      BY <1>1, <2>3 DEF NewId, HasFields
    <3>2. ASSUME NEW m \in 1 .. n - 1, HasFields(e.values[m], {"id"}), e.values[m].id = e.values[n].id
          PROVE  FALSE
      <4>1. m \in DOMAIN d.values
        <5>1. IsArray(d.values)
          BY PassedFacts
        <5>. QED BY <5>1, LenProperties DEF IsArray
      <4>2. d.values[m].id = d.values[n].id
        BY <1>1, <3>2, <4>1
      <4>3. m = n
        BY <1>2, <4>1, <4>2
      <4>. QED BY <1>3, <4>3
    <3>. QED BY <3>1, <3>2 DEF NewId
  <2>5. HasFields(e.values[n], {"semantic_name", "dtype"}) /\ HasFields(e.values[n], {"kind", "shape"})
    BY <1>1 DEF HasFields
  <2>6. /\ d.values[n].dtype \in DOMAIN data_type_byte_width /\ d.values[n].kind \in ValueKinds
        /\ ~\E k \in DOMAIN d.values[n].shape : d.values[n].shape[k] > MaxI64
        /\ ~\E k \in DOMAIN d.values[n].shape : d.values[n].shape[k] <= 0
        /\ ~(byte_size(d.values[n]) > MaxU64)
    BY <2>1 DEF ValueStatus
  <2>7. /\ e.values[n].dtype \in DOMAIN data_type_byte_width /\ e.values[n].kind \in ValueKinds
        /\ ~\E k \in DOMAIN e.values[n].shape : e.values[n].shape[k] > MaxI64
        /\ ~\E k \in DOMAIN e.values[n].shape : e.values[n].shape[k] <= 0
        /\ ~(byte_size(e.values[n]) > MaxU64)
    BY <1>1, <2>2, <2>6
  <2>. QED BY <2>4, <2>5, <2>7 DEF ValueStatus
<1>5. Ids(e.values) = Ids(d.values)
  BY <1>1 DEF Ids
<1>6. ASSUME NEW id \in Ids(d.values) PROVE ValueOf(e, id).kind = ValueOf(d, id).kind
  <2> DEFINE x == CHOOSE n \in DOMAIN e.values : e.values[n].id = id
             y == CHOOSE n \in DOMAIN d.values : d.values[n].id = id
  <2>1. y \in DOMAIN d.values /\ d.values[y].id = id
    BY DEF Ids
  <2>2. x \in DOMAIN e.values /\ e.values[x].id = id
    BY <1>1, <2>1
  <2>3. ValueOf(e, id) = e.values[x] /\ ValueOf(d, id) = d.values[y]
    BY DEF ValueOf
  <2> HIDE DEF x, y
  <2>4. x = y
    BY <1>1, <1>2, <2>1, <2>2
  <2>. QED BY <1>1, <2>1, <2>3, <2>4
<1>. QED BY <1>1, <1>4, <1>5, <1>6

\* Its operations are sound.
LEMMA ListedOperations ==
  ASSUME NEW d, IsParsed(d), Passes(d), NEW e, NEW pi, Lists(e, d, pi),
         NEW n \in DOMAIN e.operations
  PROVE  OperationStatus(e, n) = "ok"
<1> DEFINE N == Len(d.operations)
           op == e.operations[n]
           was == d.operations[pi[n]]
<1>1. N \in Nat /\ DOMAIN e.operations = 1 .. N /\ DOMAIN d.operations = 1 .. N
  <2>1. N \in Nat /\ DOMAIN d.operations = 1 .. N
    BY PassedFacts
  <2>2. IsArray(e.operations) /\ Len(e.operations) = N
    BY DEF Lists
  <2>. QED BY <2>1, <2>2, LenProperties DEF IsArray
<1>2. /\ \A m \in 1 .. N : pi[m] \in 1 .. N
      /\ \A m, k \in 1 .. N : pi[m] = pi[k] => m = k
      /\ \A m \in 1 .. N :
           /\ {"id", "type", "semantic_name", "inputs", "outputs", "attributes"}
                \subseteq DOMAIN e.operations[m]
           /\ e.operations[m].id = d.operations[pi[m]].id
           /\ e.operations[m].outputs = d.operations[pi[m]].outputs
      /\ op.type = was.type /\ op.inputs = was.inputs /\ op.attributes = was.attributes
      /\ op.outputs = was.outputs
  BY <1>1 DEF Lists, OperationFields
<1>3. /\ \A m \in 1 .. N : d.operations[m].id \in Nat \ {0}
      /\ \A m, k \in 1 .. N : d.operations[m].id = d.operations[k].id => m = k
      /\ \A m, k \in 1 .. N : d.operations[m].outputs = d.operations[k].outputs => m = k
      /\ \A m \in 1 .. N : OperationIsSound(d, m)
  BY PassedFacts
<1>4. OperationStatus(d, pi[n]) = "ok"
  BY <1>1, <1>2 DEF Passes
<1>5. was.type \in DOMAIN expected_input_count
  BY <1>4 DEF OperationStatus
<1> HIDE DEF N
<1>6. ASSUME NEW m \in 1 .. n - 1
      PROVE  e.operations[m].id # op.id /\ e.operations[m].outputs # op.outputs
  <2>1. m \in 1 .. N /\ n \in 1 .. N /\ m # n
    BY <1>1
  <2>2. pi[m] # pi[n] /\ pi[m] \in 1 .. N /\ pi[n] \in 1 .. N
    BY <1>2, <2>1
  <2>. QED BY <1>2, <1>3, <2>1, <2>2
<1>7. NewId(e.operations, n) /\ HasFields(op, {"type"})
  <2>1. op.id # 0
    <3>1. n \in 1 .. N /\ pi[n] \in 1 .. N
      BY <1>1, <1>2
    <3>2. op.id = d.operations[pi[n]].id
      BY <1>2, <3>1
    <3>. QED BY <1>3, <3>1, <3>2
  <2>. QED BY <1>1, <1>2, <1>6, <2>1 DEF NewId, HasFields
<1>8. OperationIsSound(e, n)
  <2>1. OperationIsSound(d, pi[n])
    BY <1>1, <1>2, <1>3
  <2>2. HasFields(op, OperationFields)
    BY <1>1, <1>2 DEF HasFields, OperationFields
  <2>3. Ids(e.values) = Ids(d.values)
    BY ListedValues
  <2>4. /\ IdArray(op.inputs, TRUE, FALSE) /\ IdArray(op.outputs, FALSE, TRUE)
        /\ Len(op.inputs) \in expected_input_count[op.type] /\ Len(op.outputs) = 1
        /\ Elements(op.inputs) \cup Elements(op.outputs) \subseteq Ids(e.values)
        /\ op.type = "parameter" => "content_sha256" \in DOMAIN op.attributes
    BY <1>2, <2>1, <2>3 DEF OperationIsSound
  <2>. QED BY <1>6, <2>2, <2>4 DEF OperationIsSound
<1>. QED BY <1>2, <1>5, <1>7, <1>8 DEF OperationStatus

\* Its graph is that of d with other numbers.
LEMMA ListedGraph ==
  ASSUME NEW d, IsParsed(d), Passes(d), NEW e, NEW pi, Lists(e, d, pi)
  PROVE  Relabels(GraphOf(e), GraphOf(d), pi)
<1> DEFINE N == Len(d.operations)
           h == GraphOf(e)
           g == GraphOf(d)
<1>1. N \in Nat /\ DOMAIN e.operations = 1 .. N /\ DOMAIN d.operations = 1 .. N
      /\ Len(e.operations) = N
  <2>1. N \in Nat /\ DOMAIN d.operations = 1 .. N
    BY PassedFacts
  <2>2. IsArray(e.operations) /\ Len(e.operations) = N
    BY DEF Lists
  <2>. QED BY <2>1, <2>2, LenProperties DEF IsArray
<1>2. /\ pi \in [ 1 .. N -> 1 .. N ]
      /\ \A m, k \in 1 .. N : pi[m] = pi[k] => m = k
      /\ \A k \in 1 .. N : \E m \in 1 .. N : pi[m] = k
      /\ \A m \in 1 .. N :
           /\ e.operations[m].id = d.operations[pi[m]].id
           /\ e.operations[m].type = d.operations[pi[m]].type
           /\ e.operations[m].inputs = d.operations[pi[m]].inputs
           /\ e.operations[m].outputs = d.operations[pi[m]].outputs
      /\ e.inputs = d.inputs /\ e.outputs = d.outputs
  BY DEF Lists, OperationFields
<1>3. /\ \A m \in 1 .. N : d.operations[m].id \in Nat
      /\ \A m, k \in 1 .. N : d.operations[m].id = d.operations[k].id => m = k
      /\ \A m \in 1 .. N : Elements(d.operations[m].outputs) \subseteq Ids(d.values)
  BY PassedFacts DEF OperationIsSound
<1>4. /\ Ids(e.values) = Ids(d.values)
      /\ \A id \in Ids(d.values) : ValueOf(e, id).kind = ValueOf(d, id).kind
  BY ListedValues
<1>5. /\ h.ops = e.operations /\ g.ops = d.operations
      /\ h.inputs = Elements(e.inputs) /\ g.inputs = Elements(d.inputs)
      /\ h.outputs = Elements(e.outputs) /\ g.outputs = Elements(d.outputs)
      /\ h.values = [ id \in Ids(e.values) |-> ValueOf(e, id) ]
      /\ g.values = [ id \in Ids(d.values) |-> ValueOf(d, id) ]
  BY DEF GraphOf
<1> HIDE DEF h, g
<1>6. \A m \in 1 .. N : /\ Reads(h, m) = Reads(g, pi[m]) /\ Writes(h, m) = Writes(g, pi[m])
  BY <1>2, <1>5 DEF Reads, Writes
<1>7. DOMAIN h.values = DOMAIN g.values /\ \A v \in DOMAIN g.values : Kind(h, v) = Kind(g, v)
  BY <1>4, <1>5 DEF Kind
<1>8. \A m \in 1 .. N : Writes(g, m) \subseteq DOMAIN g.values
  BY <1>3, <1>5 DEF Writes
<1>9. h.inputs = g.inputs /\ h.outputs = g.outputs
  BY <1>2, <1>5
<1>10. Len(g.ops) = N /\ Len(h.ops) = N /\ Operations(g) = 1 .. N /\ Operations(h) = 1 .. N
  BY <1>1, <1>5 DEF Operations
<1>11. /\ \A m \in 1 .. N : h.ops[m].id = g.ops[pi[m]].id /\ h.ops[m].type = g.ops[pi[m]].type
       /\ \A m \in 1 .. N : g.ops[m].id \in Nat
       /\ \A m, k \in 1 .. N : g.ops[m].id = g.ops[k].id => m = k
  BY <1>2, <1>3, <1>5
<1>12. \A m \in 1 .. N : h.ops[m].outputs = g.ops[pi[m]].outputs
  BY <1>2, <1>5
<1> HIDE DEF N
<1>13. Relabels(h, g, pi)
  <2>1. \A m \in 1 .. N : h.ops[m].id = g.ops[pi[m]].id /\ h.ops[m].type = g.ops[pi[m]].type
                           /\ Reads(h, m) = Reads(g, pi[m]) /\ Writes(h, m) = Writes(g, pi[m])
    BY <1>6, <1>11
  <2>2. N \in Nat /\ pi \in [ 1 .. N -> 1 .. N ]
        /\ (\A m, k \in 1 .. N : pi[m] = pi[k] => m = k)
        /\ \A k \in 1 .. N : \E m \in 1 .. N : pi[m] = k
    BY <1>1, <1>2
  <2>3. \A m, k \in 1 .. N : g.ops[m].id = g.ops[k].id => m = k
    BY <1>11
  <2>4. \A m \in 1 .. N : g.ops[m].id \in Nat
    BY <1>11
  <2>. QED BY <1>7, <1>8, <1>9, <1>10, <1>12, <2>1, <2>2, <2>3, <2>4 DEF Relabels
<1>. QED BY <1>13 DEF h, g

\* An order is not longer than the graph.
LEMMA OrderingIsNotLonger ==
  ASSUME NEW g, NEW N \in Nat, Operations(g) = 1 .. N, NEW edges, NEW s,
         IsOrdering(g, edges, s), ~(Len(s) < N)
  PROVE  Len(s) = N
<1>1. s \in Seq(1 .. N) /\ Len(s) \in Nat /\ \A m, n \in 1 .. Len(s) : s[m] = s[n] => m = n
  BY LenProperties DEF IsOrdering
<1>2. Len(s) <= N
  <2>0. ASSUME NEW k \in Nat PROVE IsFiniteSet(1 .. k) /\ Cardinality(1 .. k) = k
    <3>1. /\ IsFiniteSet(1 .. k)
          /\ Cardinality(1 .. k) = IF 1 > k THEN 0 ELSE k - 1 + 1
      BY FS_Interval
    <3>. QED BY <3>1
  <2>1. IsFiniteSet(1 .. N) /\ Cardinality(1 .. N) = N
    BY <2>0
  <2>2. IsFiniteSet(1 .. Len(s)) /\ Cardinality(1 .. Len(s)) = Len(s)
    BY <1>1, <2>0
  <2>3. s \in [ 1 .. Len(s) -> 1 .. N ]
    BY <1>1, LenProperties
  <2>4. s \in Injection(1 .. Len(s), 1 .. N)
    BY <1>1, <2>3 DEF Injection, IsInjective
  <2>. QED BY <2>1, <2>2, <2>4, FS_Injection
<1>. QED BY <1>1, <1>2

\* So it is loaded, and with the same operations in the same order.
LEMMA ListedLoads ==
  ASSUME NEW d, IsParsed(d), Passes(d), NEW e, IsParsed(e), NEW pi, Lists(e, d, pi)
  PROVE  /\ Passes(e)
         /\ LoadOrder(GraphOf(e)) \in Seq(1 .. Len(d.operations))
         /\ LoadOrder(GraphOf(d)) = Mapped(pi, LoadOrder(GraphOf(e)))
<1> DEFINE h == GraphOf(e)
           g == GraphOf(d)
<1>1. Relabels(h, g, pi)
  BY ListedGraph
<1>2. /\ g.ops = d.operations
      /\ h.outputs = Elements(e.outputs)
  BY DEF GraphOf
<1>3. GraphStatus(d) = "ok"
  BY DEF Passes
<1>4. /\ ProducersExist(g) /\ RolesAgree(g) /\ Len(LoadOrder(g)) = Len(g.ops)
      /\ g.outputs \subseteq Connected(g, LoadOrder(g))
  <2>1. ProducersExist(g) /\ RolesAgree(g) /\ ~(Len(LoadOrder(g)) < Len(g.ops))
        /\ g.outputs \subseteq Connected(g, LoadOrder(g))
    BY <1>3 DEF GraphStatus
  <2> HIDE DEF h, g
  <2>2. LoadOrder(h) \in Seq(1 .. Len(g.ops)) /\ LoadOrder(g) = Mapped(pi, LoadOrder(h))
    BY <1>1, SameLoadOrder
  <2>3. Len(g.ops) \in Nat /\ Operations(g) = 1 .. Len(g.ops)
        /\ \A n \in 1 .. Len(g.ops) : g.ops[n].id \in Nat
    BY <1>1 DEF Relabels
  <2>4. IsOrdering(g, DataEdges(g), LoadOrder(g))
    BY <2>3, LeastFirstIsOrdering DEF LoadOrder
  <2>5. Len(LoadOrder(g)) = Len(g.ops)
    BY <2>1, <2>3, <2>4, OrderingIsNotLonger
  <2>. QED BY <2>1, <2>3, <2>5
<1> HIDE DEF h, g
<1>6. /\ ProducersExist(h) /\ RolesAgree(h) /\ Len(LoadOrder(h)) = Len(h.ops)
      /\ h.outputs \subseteq Connected(h, LoadOrder(h))
  BY <1>1, <1>4, SameChecks
<1>7. Len(h.ops) \in Nat
  BY <1>1 DEF Relabels
<1>8. GraphStatus(e) = "ok"
  <2>1. e.graph_hash = Digest(e)
    BY DEF Lists
  <2>2. ~(Len(LoadOrder(h)) < Len(h.ops))
    BY <1>6, <1>7
  <2>. QED BY <1>6, <2>1, <2>2 DEF GraphStatus, h
<1>9. DOMAIN e # {"malformed"} /\ HasFields(e, {"graph_schema_version"})
      /\ e.graph_schema_version = "1.0"
  <2>1. "graph_schema_version" \in DOMAIN e
    BY DEF Lists, GraphFields
  <2>. QED BY <2>1 DEF Lists, Passes, HasFields
<1>10. HeaderIsSound(e)
  BY DEF Lists, Passes, HeaderIsSound, HasFields, GraphFields
<1>11. NonEmpty(e, "values") /\ NonEmpty(e, "operations")
  <2>1. IsArray(d.values) /\ d.values # << >>
    BY PassedFacts DEF Passes, NonEmpty
  <2>2. IsArray(d.operations) /\ d.operations # << >>
    BY PassedFacts DEF Passes, NonEmpty
  <2>3. DOMAIN e.values = DOMAIN d.values /\ Len(e.operations) = Len(d.operations)
        /\ IsArray(e.operations) /\ IsArray(e.values)
    BY DEF Lists
  <2>4. e.values # << >>
    BY <2>1, <2>3 DEF IsArray
  <2>5. e.operations # << >>
    BY <2>2, <2>3 DEF IsArray
  <2>. QED BY <2>4, <2>5 DEF Lists, GraphFields, NonEmpty, HasFields
<1>12. InterfaceExists(e)
  <2>1. /\ Ids(e.values) = Ids(d.values)
        /\ \A id \in Ids(d.values) : ValueOf(e, id).kind = ValueOf(d, id).kind
    BY ListedValues
  <2>2. e.inputs = d.inputs /\ e.outputs = d.outputs
    BY DEF Lists
  <2>3. InterfaceExists(d)
    BY DEF Passes
  <2>. QED BY <2>1, <2>2, <2>3 DEF InterfaceExists
<1>13. \A n \in DOMAIN e.values : ValueStatus(e.values, n) = "ok"
  BY ListedValues
<1>14. \A n \in DOMAIN e.operations : OperationStatus(e, n) = "ok"
  BY ListedOperations
<1>15. Passes(e)
  BY <1>8, <1>9, <1>10, <1>11, <1>12, <1>13, <1>14 DEF Passes
<1>. QED BY <1>1, <1>2, <1>15, SameLoadOrder DEF h, g

(***************************************************************************)
(* Documents: what is loaded, written and listed anew.                     *)
(***************************************************************************)

\* The graph that is loaded, field by field.
LEMMA LoadedGraphIs ==
  ASSUME NEW d, IsParsed(d), Passes(d)
  PROVE  LET g == load_from_json(d).graph
             s == LoadOrder(GraphOf(d))
         IN  /\ load_from_json(d) = [ status |-> "ok", graph |-> g ]
             /\ g = [ f \in GraphFields |-> g[f] ]
             /\ g["weight_manifest"] = Kept(d["weight_manifest"], ManifestFields)
             /\ g["values"] = KeptItems(d["values"], ValueFields)
             /\ g["operations"] = [ n \in DOMAIN s |-> Kept(d["operations"][s[n]], OperationFields) ]
             /\ \A f \in GraphFields \ {"weight_manifest", "values", "operations"} : g[f] = d[f]
<1> DEFINE s == LoadOrder(GraphOf(d))
           ops == [ n \in DOMAIN s |-> d["operations"][s[n]] ]
           g == [ Kept(d, GraphFields) EXCEPT
                    !["weight_manifest"] = Kept(@, ManifestFields),
                    !["values"] = KeptItems(@, ValueFields),
                    !["operations"] = KeptItems(ops, OperationFields) ]
<1>1. load_from_json(d) = [ status |-> "ok", graph |-> g ]
  BY LoadsIfPasses DEF load_from_json
<1>2. KeptItems(ops, OperationFields) = [ n \in DOMAIN s |-> Kept(d["operations"][s[n]], OperationFields) ]
  BY DEF KeptItems
<1> HIDE DEF ops, s
<1>3. /\ g = [ f \in GraphFields |-> g[f] ]
      /\ g["weight_manifest"] = Kept(d["weight_manifest"], ManifestFields)
      /\ g["values"] = KeptItems(d["values"], ValueFields)
      /\ g["operations"] = KeptItems(ops, OperationFields)
      /\ \A f \in GraphFields \ {"weight_manifest", "values", "operations"} : g[f] = d[f]
  <2> DEFINE k == Kept(d, GraphFields)
  <2>1. k = [ f \in GraphFields |-> d[f] ]
    BY DEF Kept
  <2>2. {"weight_manifest", "values", "operations"} \subseteq GraphFields
    BY DEF GraphFields
  <2> HIDE DEF k
  <2>3. g = [ f \in GraphFields |->
                IF f = "weight_manifest" THEN Kept(k[f], ManifestFields)
                ELSE IF f = "values" THEN KeptItems(k[f], ValueFields)
                ELSE IF f = "operations" THEN KeptItems(ops, OperationFields)
                ELSE k[f] ]
    BY <2>1 DEF k
  <2>. QED BY <2>1, <2>2, <2>3
<1> HIDE DEF g
<1>4. load_from_json(d).graph = g
  BY <1>1
<1>. QED BY <1>1, <1>2, <1>3, <1>4 DEF s

\* The order of what is loaded lists everything once.
LEMMA LoadedOrder ==
  ASSUME NEW d, IsParsed(d), Passes(d)
  PROVE  LET s == LoadOrder(GraphOf(d))
             N == Len(d.operations)
         IN  /\ DOMAIN s = 1 .. N /\ s \in [ 1 .. N -> 1 .. N ]
             /\ \A m, n \in 1 .. N : s[m] = s[n] => m = n
             /\ \A n \in 1 .. N : \E m \in 1 .. N : s[m] = n
<1> DEFINE g == GraphOf(d)
           s == LoadOrder(g)
           N == Len(d.operations)
<1>1. /\ N \in Nat /\ DOMAIN d.operations = 1 .. N
      /\ \A n \in 1 .. N : d.operations[n].id \in Nat
  BY PassedFacts
<1>2. g.ops = d.operations
  BY DEF GraphOf
<1>3. Len(g.ops) = N /\ Operations(g) = 1 .. N /\ \A n \in 1 .. N : g.ops[n].id \in Nat
  BY <1>1, <1>2 DEF Operations
<1>4. GraphStatus(d) = "ok"
  BY DEF Passes
<1>5. ~(Len(s) < Len(g.ops))
  BY <1>4 DEF GraphStatus
<1> HIDE DEF g, N
<1>6. IsOrdering(g, DataEdges(g), s)
  BY <1>1, <1>3, LeastFirstIsOrdering DEF LoadOrder
<1> HIDE DEF s
<1>7. Len(s) = N
  BY <1>1, <1>3, <1>5, <1>6, OrderingIsNotLonger
<1>8. \A i \in Operations(g) : \E n \in 1 .. Len(s) : s[n] = i
  <2>1. Len(g.ops) \in Nat /\ Operations(g) = 1 .. Len(g.ops) /\ Len(s) = Len(g.ops)
    BY <1>1, <1>3, <1>7
  <2>. QED BY <1>6, <2>1, FullOrderingIsOnto
<1>9. s \in Seq(1 .. N) /\ DOMAIN s = 1 .. N
  BY <1>3, <1>6, <1>7, LenProperties DEF IsOrdering
<1>10. s \in [ 1 .. N -> 1 .. N ]
  BY <1>7, <1>9, LenProperties
<1>11. \A m, n \in 1 .. N : s[m] = s[n] => m = n
  BY <1>6, <1>7 DEF IsOrdering
<1>. QED BY <1>3, <1>7, <1>8, <1>9, <1>10, <1>11 DEF s, g, N

\* What is written lists the operations in the order they were loaded in.
LEMMA WrittenLists ==
  ASSUME NEW d, IsParsed(d), Passes(d)
  PROVE  LET w == graph_json(refresh_graph_hash(load_from_json(d).graph))
             g == load_from_json(d).graph
         IN  /\ Lists(w, d, LoadOrder(GraphOf(d))) /\ IsParsed(w)
             /\ w = refresh_graph_hash(g) /\ w = [ f \in GraphFields |-> w[f] ]
             /\ \A f \in GraphFields \ {"graph_hash"} : w[f] = g[f]
<1> DEFINE g == load_from_json(d).graph
           r == refresh_graph_hash(g)
           w == graph_json(r)
           s == LoadOrder(GraphOf(d))
           N == Len(d.operations)
<1>1. /\ g = [ f \in GraphFields |-> g[f] ]
      /\ g["weight_manifest"] = Kept(d["weight_manifest"], ManifestFields)
      /\ g["values"] = KeptItems(d["values"], ValueFields)
      /\ g["operations"] = [ n \in DOMAIN s |-> Kept(d["operations"][s[n]], OperationFields) ]
      /\ \A f \in GraphFields \ {"weight_manifest", "values", "operations"} : g[f] = d[f]
  BY LoadedGraphIs
<1>2. /\ DOMAIN s = 1 .. N /\ s \in [ 1 .. N -> 1 .. N ]
      /\ \A m, n \in 1 .. N : s[m] = s[n] => m = n
      /\ \A n \in 1 .. N : \E m \in 1 .. N : s[m] = n
  BY LoadedOrder
<1>3. /\ GraphFields \subseteq DOMAIN d
      /\ HasFields(d.weight_manifest, ManifestFields)
      /\ IsArray(d.values) /\ IsArray(d.operations)
      /\ N \in Nat
      /\ \A n \in 1 .. N : d.operations[n].id \in Nat
  BY PassedFacts
<1> HIDE DEF g, s, N
<1>4. r = [ f \in GraphFields |-> IF f = "graph_hash" THEN Digest(graph_json(g)) ELSE g[f] ]
  BY <1>1 DEF refresh_graph_hash
<1> HIDE DEF r
<1>5. w = [ f \in GraphFields |-> r[f] ]
  BY DEF graph_json, Kept
<1>6. w = r
  BY <1>4, <1>5
<1> HIDE DEF w
<1>7. graph_json(g) = g
  BY <1>1 DEF graph_json, Kept
<1>8. w.graph_hash = Digest(w)
  <2>1. DOMAIN w = GraphFields /\ DOMAIN g = GraphFields /\ "graph_hash" \in GraphFields
    BY <1>1, <1>5 DEF GraphFields
  <2>2. \A f \in GraphFields \ {"graph_hash"} : w[f] = g[f]
    BY <1>4, <1>6
  <2>3. Digest(w) = Digest(g)
    BY <2>1, <2>2 DEF Digest
  <2>4. w.graph_hash = Digest(g)
    BY <1>4, <1>6, <1>7, <2>1
  <2>. QED BY <2>3, <2>4
<1>9. /\ \A f \in GraphFields \ {"graph_hash"} : w[f] = g[f]
      /\ DOMAIN w = GraphFields
  BY <1>4, <1>6
<1>10. /\ w.graph_schema_version = d.graph_schema_version /\ w.inputs = d.inputs
       /\ w.outputs = d.outputs
       /\ w.weight_manifest = Kept(d["weight_manifest"], ManifestFields)
       /\ w.values = KeptItems(d["values"], ValueFields)
       /\ w.operations = [ n \in 1 .. N |-> Kept(d["operations"][s[n]], OperationFields) ]
  BY <1>1, <1>2, <1>9 DEF GraphFields
<1>11. /\ HasFields(w.weight_manifest, ManifestFields)
       /\ w.weight_manifest.weight_archive = d.weight_manifest.weight_archive
  BY <1>10 DEF HasFields, Kept, ManifestFields
<1>12. /\ DOMAIN w.values = DOMAIN d.values /\ IsArray(w.values)
       /\ \A n \in DOMAIN d.values :
            DOMAIN w.values[n] = ValueFields /\ \A f \in ValueFields : w.values[n][f] = d.values[n][f]
  <2>1. /\ DOMAIN w.values = DOMAIN d.values
        /\ w.values = [ n \in DOMAIN d.values |-> Kept(d.values[n], ValueFields) ]
    BY <1>10 DEF KeptItems
  <2>2. Len(d.values) \in Nat /\ DOMAIN d.values = 1 .. Len(d.values)
    BY <1>3, LenProperties DEF IsArray
  <2>3. IsArray(w.values)
    <3>1. w.values \in [ 1 .. Len(d.values) -> Elements(w.values) ]
      BY <2>1, <2>2 DEF Elements
    <3>. QED BY <2>2, <3>1, FunctionToSequence DEF IsArray
  <2>. QED BY <2>1, <2>3 DEF Kept
<1>13. /\ IsArray(w.operations) /\ Len(w.operations) = N /\ DOMAIN w.operations = 1 .. N
       /\ \A n \in 1 .. N :
            /\ DOMAIN w.operations[n] = OperationFields
            /\ \A f \in OperationFields : w.operations[n][f] = d.operations[s[n]][f]
  <2>1. w.operations \in [ 1 .. N -> Elements(w.operations) ]
    BY <1>10 DEF Elements
  <2>2. IsArray(w.operations) /\ Len(w.operations) = N /\ DOMAIN w.operations = 1 .. N
    BY <1>3, <2>1, FunctionToSequence DEF IsArray
  <2>3. ASSUME NEW n \in 1 .. N
        PROVE  /\ DOMAIN w.operations[n] = OperationFields
               /\ \A f \in OperationFields : w.operations[n][f] = d.operations[s[n]][f]
    <3>1. w.operations[n] = Kept(d.operations[s[n]], OperationFields)
      BY <1>10
    <3>. QED BY <3>1 DEF Kept
  <2>. QED BY <2>2, <2>3
<1>14. Lists(w, d, s)
  <2>1. GraphFields \subseteq DOMAIN w
    BY <1>9
  <2>. QED BY <1>2, <1>8, <1>10, <1>11, <1>12, <1>13, <2>1 DEF Lists, N
<1>15. IsParsed(w)
  <2>1. ASSUME NEW n \in 1 .. N PROVE w.operations[n].id \in Nat
    <3>1. s[n] \in 1 .. N /\ "id" \in OperationFields
      BY <1>2 DEF OperationFields
    <3>2. w.operations[n]["id"] = d.operations[s[n]]["id"]
      BY <1>13, <3>1
    <3>. QED BY <1>3, <3>1, <3>2
  <2>. QED BY <1>12, <1>13, <2>1 DEF IsParsed
<1>. QED BY <1>5, <1>6, <1>9, <1>14, <1>15 DEF g, r, w, s

\* A loaded graph that is written loads as itself.
LEMMA WrittenLoads ==
  ASSUME NEW d, IsParsed(d), Passes(d)
  PROVE  LET w == refresh_graph_hash(load_from_json(d).graph)
         IN  load_from_json(graph_json(w)) = [ status |-> "ok", graph |-> w ]
<1> DEFINE g == load_from_json(d).graph
           w == graph_json(refresh_graph_hash(g))
           s == LoadOrder(GraphOf(d))
           t == LoadOrder(GraphOf(w))
           k == load_from_json(w).graph
           N == Len(d.operations)
<1>1. /\ Lists(w, d, s) /\ IsParsed(w) /\ w = refresh_graph_hash(g)
      /\ w = [ f \in GraphFields |-> w[f] ]
      /\ \A f \in GraphFields \ {"graph_hash"} : w[f] = g[f]
  BY WrittenLists
<1>2. /\ g["weight_manifest"] = Kept(d["weight_manifest"], ManifestFields)
      /\ g["values"] = KeptItems(d["values"], ValueFields)
      /\ g["operations"] = [ n \in DOMAIN s |-> Kept(d["operations"][s[n]], OperationFields) ]
  BY LoadedGraphIs
<1>3. /\ DOMAIN s = 1 .. N /\ s \in [ 1 .. N -> 1 .. N ]
      /\ \A m, n \in 1 .. N : s[m] = s[n] => m = n
  BY LoadedOrder
<1> HIDE DEF g, w, s
<1>4. Passes(w) /\ t \in Seq(1 .. N) /\ s = Mapped(s, t)
  BY <1>1, ListedLoads DEF s
<1>5. /\ load_from_json(w) = [ status |-> "ok", graph |-> k ]
      /\ k = [ f \in GraphFields |-> k[f] ]
      /\ k["weight_manifest"] = Kept(w["weight_manifest"], ManifestFields)
      /\ k["values"] = KeptItems(w["values"], ValueFields)
      /\ k["operations"] = [ n \in DOMAIN t |-> Kept(w["operations"][t[n]], OperationFields) ]
      /\ \A f \in GraphFields \ {"weight_manifest", "values", "operations"} : k[f] = w[f]
  <2>1. IsParsed(w) /\ Passes(w)
    BY <1>1, <1>4
  <2>. QED BY <2>1, LoadedGraphIs
<1> HIDE DEF t, k, N
<1>6. DOMAIN t = 1 .. N /\ \A n \in 1 .. N : t[n] = n
  <2>1. Len(t) \in Nat /\ DOMAIN t = 1 .. Len(t) /\ \A n \in 1 .. Len(t) : t[n] \in 1 .. N
    BY <1>4, LenProperties, ElementOfSeq
  <2>2. DOMAIN s = 1 .. Len(t) /\ \A n \in 1 .. Len(t) : s[n] = s[t[n]]
    BY <1>4 DEF Mapped
  <2>. QED BY <1>3, <2>1, <2>2
<1>7. /\ {"weight_manifest", "values", "operations"} \subseteq GraphFields
      /\ "graph_hash" \notin {"weight_manifest", "values", "operations"}
  BY DEF GraphFields
<1>8. k["weight_manifest"] = w["weight_manifest"]
  BY <1>1, <1>2, <1>5, <1>7 DEF Kept
<1>9. k["values"] = w["values"]
  <2>1. w["values"] = [ n \in DOMAIN d["values"] |-> Kept(d["values"][n], ValueFields) ]
    BY <1>1, <1>2, <1>7 DEF KeptItems
  <2>2. ASSUME NEW n \in DOMAIN d["values"]
        PROVE  Kept(w["values"][n], ValueFields) = w["values"][n]
    BY <2>1 DEF Kept
  <2>3. k["values"] = [ n \in DOMAIN w["values"] |-> Kept(w["values"][n], ValueFields) ]
    BY <1>5 DEF KeptItems
  <2>. QED BY <2>1, <2>2, <2>3
<1>10. k["operations"] = w["operations"]
  <2>1. w["operations"] = [ n \in 1 .. N |-> Kept(d["operations"][s[n]], OperationFields) ]
    BY <1>1, <1>2, <1>3, <1>7
  <2>2. ASSUME NEW n \in 1 .. N
        PROVE  Kept(w["operations"][n], OperationFields) = w["operations"][n]
    BY <2>1 DEF Kept
  <2>3. k["operations"] = [ n \in 1 .. N |-> Kept(w["operations"][n], OperationFields) ]
    BY <1>5, <1>6
  <2>. QED BY <2>1, <2>2, <2>3
<1>11. \A f \in GraphFields : k[f] = w[f]
  BY <1>5, <1>8, <1>9, <1>10
<1>12. k = w
  BY <1>1, <1>5, <1>11
<1>13. load_from_json(w) = [ status |-> "ok", graph |-> w ]
  BY <1>5, <1>12
<1>. QED BY <1>1, <1>13 DEF g, w

\* A document with two operations the other way round lists them so.
LEMMA RelistedLists ==
  ASSUME NEW d, IsParsed(d), Passes(d), NEW n \in 1 .. Len(d.operations) - 1
  PROVE  LET e == Rehashed([ d EXCEPT !["operations"] = Swapped(@, n) ])
             pi == [ k \in 1 .. Len(d.operations) |->
                       IF k = n THEN n + 1 ELSE IF k = n + 1 THEN n ELSE k ]
         IN  /\ Lists(e, d, pi) /\ IsParsed(e)
             /\ \A k \in 1 .. Len(d.operations) : e["operations"][k] = d["operations"][pi[k]]
<1> DEFINE N == Len(d.operations)
           c == [ d EXCEPT !["operations"] = Swapped(@, n) ]
           e == Rehashed(c)
           pi == [ k \in 1 .. N |-> IF k = n THEN n + 1 ELSE IF k = n + 1 THEN n ELSE k ]
<1>1. /\ GraphFields \subseteq DOMAIN d
      /\ HasFields(d.weight_manifest, ManifestFields)
      /\ IsArray(d.values) /\ IsArray(d.operations)
      /\ N \in Nat /\ DOMAIN d.operations = 1 .. N
      /\ \A k \in DOMAIN d.values : ValueFields \subseteq DOMAIN d.values[k]
      /\ \A k \in 1 .. N : OperationFields \subseteq DOMAIN d.operations[k]
      /\ \A k \in 1 .. N : d.operations[k].id \in Nat
  BY PassedFacts
<1>2. {"operations", "graph_hash"} \subseteq DOMAIN d /\ n \in 1 .. N /\ n + 1 \in 1 .. N
      /\ n # n + 1
  BY <1>1 DEF GraphFields
<1>3. /\ DOMAIN c = DOMAIN d /\ c["operations"] = Swapped(d["operations"], n)
      /\ \A f \in DOMAIN d \ {"operations"} : c[f] = d[f]
  BY <1>2
<1> HIDE DEF N, c
<1>4. /\ \A k \in 1 .. N : pi[k] \in 1 .. N
      /\ \A m, k \in 1 .. N : pi[m] = pi[k] => m = k
      /\ \A k \in 1 .. N : pi[pi[k]] = k
      /\ pi \in [ 1 .. N -> 1 .. N ]
  BY <1>1, <1>2
<1>5. /\ DOMAIN c["operations"] = 1 .. N
      /\ \A k \in 1 .. N : c["operations"][k] = d["operations"][pi[k]]
      /\ c["operations"] = [ k \in 1 .. N |-> c["operations"][k] ]
  BY <1>1, <1>2, <1>3 DEF Swapped
<1> HIDE DEF pi
<1>6. /\ DOMAIN e = DOMAIN d /\ e["graph_hash"] = Digest(c)
      /\ \A f \in DOMAIN d \ {"graph_hash"} : e[f] = c[f]
  BY <1>2, <1>3 DEF Rehashed
<1> HIDE DEF e
<1>7. e.graph_hash = Digest(e)
  <2>1. Digest(e) = Digest(c)
    BY <1>3, <1>6 DEF Digest
  <2>. QED BY <1>6, <2>1
<1>8. /\ e["operations"] = c["operations"]
      /\ \A f \in GraphFields \ {"graph_hash", "operations"} : e[f] = d[f]
  BY <1>1, <1>2, <1>3, <1>6
<1>9. IsArray(e.operations) /\ Len(e.operations) = N /\ DOMAIN e.operations = 1 .. N
  <2>1. e.operations \in [ 1 .. N -> Elements(e.operations) ]
    BY <1>5, <1>8 DEF Elements
  <2>. QED BY <1>1, <2>1, FunctionToSequence DEF IsArray
<1>10. /\ e.graph_schema_version = d.graph_schema_version
       /\ e.inputs = d.inputs /\ e.outputs = d.outputs
       /\ e.weight_manifest = d.weight_manifest /\ e.values = d.values
  BY <1>8 DEF GraphFields
<1>11. ASSUME NEW k \in 1 .. N
       PROVE  /\ OperationFields \subseteq DOMAIN e.operations[k]
              /\ e.operations[k] = d.operations[pi[k]]
              /\ e.operations[k].id \in Nat
  <2>1. pi[k] \in 1 .. N /\ e.operations[k] = d.operations[pi[k]]
    BY <1>4, <1>5, <1>8
  <2>. QED BY <1>1, <2>1
<1>12. GraphFields \subseteq DOMAIN e
  BY <1>1, <1>6
<1>13. \A k \in 1 .. N : \E m \in 1 .. N : pi[m] = k
  BY <1>4
<1>14. Lists(e, d, pi)
  BY <1>1, <1>4, <1>7, <1>9, <1>10, <1>11, <1>12, <1>13 DEF Lists, N
<1>15. IsParsed(e)
  BY <1>1, <1>9, <1>10, <1>11 DEF IsParsed
<1>. QED BY <1>11, <1>14, <1>15 DEF N, c, e, pi

\* And loads as the same operations.
LEMMA RelistedLoads ==
  ASSUME NEW d, IsParsed(d), Passes(d), NEW n \in 1 .. Len(d.operations) - 1
  PROVE  LET e == Rehashed([ d EXCEPT !["operations"] = Swapped(@, n) ])
         IN  /\ load_from_json(e).status = "ok"
             /\ load_from_json(e).graph["operations"] = load_from_json(d).graph["operations"]
<1> DEFINE N == Len(d.operations)
           e == Rehashed([ d EXCEPT !["operations"] = Swapped(@, n) ])
           pi == [ k \in 1 .. Len(d.operations) |->
                       IF k = n THEN n + 1 ELSE IF k = n + 1 THEN n ELSE k ]
           s == LoadOrder(GraphOf(d))
           t == LoadOrder(GraphOf(e))
<1>1. /\ Lists(e, d, pi) /\ IsParsed(e)
      /\ \A k \in 1 .. N : e["operations"][k] = d["operations"][pi[k]]
  BY RelistedLists
<1> HIDE DEF e, pi
<1>2. Passes(e) /\ t \in Seq(1 .. N) /\ s = Mapped(pi, t)
  BY <1>1, ListedLoads
<1>3. load_from_json(d).graph["operations"] =
        [ k \in DOMAIN s |-> Kept(d["operations"][s[k]], OperationFields) ]
  BY LoadedGraphIs
<1>4. /\ load_from_json(e) = [ status |-> "ok", graph |-> load_from_json(e).graph ]
      /\ load_from_json(e).graph["operations"] =
           [ k \in DOMAIN t |-> Kept(e["operations"][t[k]], OperationFields) ]
  BY <1>1, <1>2, LoadedGraphIs
<1> HIDE DEF s, t, N
<1>5. Len(t) \in Nat /\ DOMAIN t = 1 .. Len(t) /\ \A k \in 1 .. Len(t) : t[k] \in 1 .. N
  BY <1>2, LenProperties, ElementOfSeq
<1>6. DOMAIN s = 1 .. Len(t) /\ \A k \in 1 .. Len(t) : s[k] = pi[t[k]]
  BY <1>2 DEF Mapped
<1>7. \A k \in 1 .. Len(t) : e["operations"][t[k]] = d["operations"][s[k]]
  BY <1>1, <1>5, <1>6
<1>8. load_from_json(e).graph["operations"] = load_from_json(d).graph["operations"]
  BY <1>3, <1>4, <1>5, <1>6, <1>7
<1>. QED BY <1>4, <1>8 DEF e

\* Files are what the loader may be given, and what is loaded is of the file.
DocumentInv ==
  /\ IsParsed(file)
  /\ loaded = NotLoaded \/ loaded = load_from_json(file)

\* Only a file that passes gives a graph.
LEMMA LoadedPasses ==
  ASSUME DocumentInv, loaded.status = "ok"
  PROVE  loaded = load_from_json(file) /\ Passes(file)
<1>1. loaded # NotLoaded
  BY DEF NotLoaded
<1>2. loaded = load_from_json(file)
  BY <1>1 DEF DocumentInv
<1>3. LoadStatus(file) = "ok"
  <2>1. ASSUME LoadStatus(file) # "ok" PROVE FALSE
    <3>1. load_from_json(file) = [ status |-> LoadStatus(file) ]
      BY <2>1 DEF load_from_json
    <3>. QED BY <1>2, <2>1, <3>1
  <2>. QED BY <2>1
<1>. QED BY <1>2, <1>3, LoadsIfPasses DEF DocumentInv

\* Any two operations of a parsed document that are swapped leave one.
LEMMA SwappedIsParsed ==
  ASSUME NEW d, IsParsed(d), HasFields(d, {"operations"}), NEW n \in 1 .. Len(d.operations) - 1
  PROVE  LET c == [ d EXCEPT !["operations"] = Swapped(@, n) ]
         IN  IsParsed(c) /\ IsParsed(Rehashed(c))
<1> DEFINE N == Len(d.operations)
           c == [ d EXCEPT !["operations"] = Swapped(@, n) ]
           ops == c["operations"]
<1>1. /\ N \in Nat /\ DOMAIN d.operations = 1 .. N
      /\ \A k \in 1 .. N : HasFields(d.operations[k], {"id"}) => d.operations[k].id \in Nat
  <2>1. IsArray(d.operations)
    BY DEF IsParsed
  <2>2. N \in Nat /\ DOMAIN d.operations = 1 .. N
    BY <2>1, LenProperties DEF IsArray
  <2>. QED BY <2>2 DEF IsParsed
<1>2. /\ DOMAIN c = DOMAIN d /\ ops = Swapped(d["operations"], n)
      /\ \A f \in DOMAIN d \ {"operations"} : c[f] = d[f]
  BY DEF HasFields
<1>3. n \in 1 .. N /\ n + 1 \in 1 .. N
  BY <1>1
<1> HIDE DEF N, c
<1>4. /\ ops = [ k \in 1 .. N |-> ops[k] ]
      /\ \A k \in 1 .. N : \E m \in 1 .. N : ops[k] = d["operations"][m]
  BY <1>1, <1>2, <1>3 DEF Swapped
<1> HIDE DEF ops
<1>5. IsArray(ops) /\ DOMAIN ops = 1 .. N
  <2>1. ops \in [ 1 .. N -> Elements(ops) ]
    BY <1>4 DEF Elements
  <2>. QED BY <1>1, <2>1, FunctionToSequence DEF IsArray
<1>6. \A k \in 1 .. N : HasFields(ops[k], {"id"}) => ops[k].id \in Nat
  BY <1>1, <1>4
<1>7. IsParsed(c)
  <2>1. HasFields(c, {"values"}) => IsArray(c.values)
    BY <1>2 DEF IsParsed, HasFields
  <2>. QED BY <1>5, <1>6, <2>1 DEF IsParsed, ops
<1>8. IsParsed(Rehashed(c))
  <2>1. /\ "values" \in DOMAIN Rehashed(c) <=> "values" \in DOMAIN c
        /\ "operations" \in DOMAIN Rehashed(c) <=> "operations" \in DOMAIN c
        /\ "values" \in DOMAIN c => Rehashed(c)["values"] = c["values"]
        /\ "operations" \in DOMAIN c => Rehashed(c)["operations"] = c["operations"]
    BY DEF Rehashed
  <2>. QED BY <1>7, <2>1 DEF IsParsed, HasFields
<1>. QED BY <1>7, <1>8 DEF c

\* A loaded graph is the same however its file lists the operations, and it comes
\* back as it was written: true for any files, maxima and edits, from the uniqueness
\* of the loader's order.
THEOREM LoadedGraphIsCanonicalHolds == DocumentSpec => []LoadedGraphIsCanonical
<1>1. DocumentInit => DocumentInv
  BY GraphFilesAssumption DEF DocumentInit, DocumentInv
<1>2. DocumentInv /\ [DocumentNext]_documentVars => DocumentInv'
  <2> SUFFICES ASSUME DocumentInv, [DocumentNext]_documentVars PROVE DocumentInv'
    OBVIOUS
  <2>1. CASE UNCHANGED documentVars
    BY <2>1 DEF DocumentInv, documentVars
  <2>2. CASE LoadDocument
    BY <2>2 DEF DocumentInv, LoadDocument
  <2>3. CASE WriteGraph
    <3>1. Passes(file) /\ loaded = load_from_json(file)
      BY <2>3, LoadedPasses DEF WriteGraph
    <3>2. IsParsed(graph_json(refresh_graph_hash(loaded.graph)))
      BY <3>1, WrittenLists DEF DocumentInv
    <3>. QED BY <2>3, <3>2 DEF WriteGraph, Edit, DocumentInv
  <2>4. CASE Relist
    <3>1. HasFields(file, {"operations"})
      BY <2>4 DEF Relist
    <3>2. PICK n \in 1 .. Len(file.operations) - 1 :
            LET relisted == [ file EXCEPT !["operations"] = Swapped(@, n) ]
            IN  Edit(relisted) \/ Edit(Rehashed(relisted))
      BY <2>4 DEF Relist
    <3> DEFINE relisted == [ file EXCEPT !["operations"] = Swapped(@, n) ]
    <3>3. IsParsed(relisted) /\ IsParsed(Rehashed(relisted))
      BY <3>1, SwappedIsParsed DEF DocumentInv
    <3> HIDE DEF relisted
    <3>4. file' \in {relisted, Rehashed(relisted)} /\ loaded' = NotLoaded
      BY <3>2 DEF Edit, relisted
    <3>. QED BY <3>3, <3>4 DEF DocumentInv
  <2>. QED BY <2>1, <2>2, <2>3, <2>4 DEF DocumentNext
<1>3. DocumentInv => LoadedGraphIsCanonical
  <2> SUFFICES ASSUME DocumentInv, loaded.status = "ok"
               PROVE  LET g == refresh_graph_hash(loaded.graph)
                      IN  /\ load_from_json(graph_json(g)) = [ status |-> "ok", graph |-> g ]
                          /\ \A n \in 1 .. Len(file.operations) - 1 :
                               LET relisted == Rehashed([ file EXCEPT !["operations"] = Swapped(@, n) ])
                                   other == load_from_json(relisted)
                               IN  other.status = "ok" /\ other.graph["operations"] = g["operations"]
    BY DEF LoadedGraphIsCanonical
  <2>1. loaded = load_from_json(file) /\ Passes(file) /\ IsParsed(file)
    BY LoadedPasses DEF DocumentInv
  <2> DEFINE g == refresh_graph_hash(loaded.graph)
  <2>2. load_from_json(graph_json(g)) = [ status |-> "ok", graph |-> g ]
    BY <2>1, WrittenLoads
  <2>3. g["operations"] = loaded.graph["operations"]
    BY DEF refresh_graph_hash
  <2> HIDE DEF g
  <2>4. ASSUME NEW n \in 1 .. Len(file.operations) - 1
        PROVE  LET relisted == Rehashed([ file EXCEPT !["operations"] = Swapped(@, n) ])
                   other == load_from_json(relisted)
               IN  other.status = "ok" /\ other.graph["operations"] = g["operations"]
    BY <2>1, <2>3, RelistedLoads
  <2>. QED BY <2>2, <2>4 DEF g
<1>4. QED
  BY <1>1, <1>2, <1>3, PTL DEF DocumentSpec
============================================================================
