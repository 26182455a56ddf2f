-------------------------- MODULE InferenceProofs --------------------------
(***************************************************************************)
(* Proofs about Inference, for every set of documents and calls: a session *)
(* gives what the graph means, because the loader, the scheduler and the   *)
(* planner have done their work.                                           *)
(*                                                                         *)
(* What is proved of the scheduler and of the planner alone is taken from  *)
(* their modules, as instances.                                            *)
(***************************************************************************)
EXTENDS Inference, SharedLemmas

Ordering == INSTANCE ExecutionScheduleProofs
              WITH Graphs <- {}, phase <- schedule_phase, error <- schedule_error

Planning == INSTANCE MemoryPlannerProofs
              WITH Requests <- {}, phase <- plan_phase, error <- plan_error

(***************************************************************************)
(* The inductive invariant.                                                *)
(***************************************************************************)

\* What the loader has let through is being scheduled, or has been.
ScheduleInv ==
  /\ Ordering!IInv
  /\ schedule_error = "none"
  /\ schedule_phase # "idle" => IsLoaded(graph) /\ IsExecutable(graph)

\* The plan is one for that graph and its schedule.
PlanInv ==
  /\ Planning!IInv
  /\ Planning!SelfCheckInv
  /\ plan_phase # "idle" => schedule_phase = "scheduled" /\ request = Request
  /\ plan_phase = "planned" => Planning!Pending = {}
  /\ AcceptedGraphsArePlanned

IsOpen == status \in {"ready", "running"}

\* A session is open only over a finished plan.
StatusInv ==
  /\ status \in {"unloaded", "refused", "ready", "running"}
  /\ IsOpen => plan_phase = "planned"
  /\ IsOpen => DOMAIN memory = Session!Extent(0, arena_end)

\* The positions of the schedule that the current or last call has finished.
Past == 1 .. cursor - 1

Result(n) == Session!Result(order[n])

TypeAt(n) == graph.ops[order[n]].type

Meant == Contract!Meaning(call.tag)

\* Trace and values are those of the operations up to the cursor.
CursorInv ==
  /\ cursor \in Nat
  /\ ~IsOpen => cursor = 0
  /\ IsOpen => cursor <= Len(order) + 1
  /\ status = "running" => cursor # 0
  /\ computing \in BOOLEAN
  /\ computing => status = "running" /\ cursor <= Len(order) /\ TypeAt(cursor) = "compute"
  /\ trace = [ n \in Past |-> order[n] ]
  /\ DOMAIN values = { Result(n) : n \in Past }
  /\ executed \in BOOLEAN
  /\ executed => status = "ready" /\ cursor = Len(order) + 1

\* The call has given what the operations up to the cursor asked for.
Given(i) ==
  LET op == graph.ops[i]
  IN  CASE op.type = "input" ->
             op.outputs[1] \in DOMAIN call.inputs /\ call.inputs[op.outputs[1]] = "right"
        [] op.type = "parameter" ->
             op.key \in DOMAIN call.parameters /\ call.parameters[op.key] = op.content
        [] op.type = "constant" -> op.content = "scalar"
        [] op.type = "compute" -> TRUE

CallInv ==
  /\ DOMAIN call = {"tag", "inputs", "parameters", "captures"}
  /\ calls \in Nat /\ call.tag = calls
  /\ cursor # 0 => ~Session!BadCall(call)
  /\ \A n \in Past : Given(order[n])

\* The result of a kernel is in its place in the arena, everything else is what
\* was bound.
LocationInv ==
  \A n \in Past :
    values[Result(n)] = IF TypeAt(n) = "compute" THEN Session!InArena(offset[Result(n)])
                        ELSE Session!External(Meant[Result(n)])

\* Copies have been made of everything that was asked for and is defined.
CapturedInv ==
  /\ DOMAIN captured = { v \in DOMAIN values : v \in Session!Captures }
  /\ \A v \in DOMAIN captured : captured[v] = Meant[v]

\* The bytes of v hold what the graph means.
Holds(v) ==
  \A c \in Session!Extent(offset[v], Session!ByteSize(v)) :
    memory[c] = << Meant[v], c - offset[v] >>

\* The arena keeps what is needed, also while the kernel at the cursor writes.
MemoryInv ==
  status = "running" =>
    \A n \in Past : TypeAt(n) = "compute" /\ Result(n) \in StillNeeded => Holds(Result(n))

SessionInv == CursorInv /\ CallInv /\ LocationInv /\ CapturedInv /\ MemoryInv

IInv == ScheduleInv /\ PlanInv /\ StatusInv /\ SessionInv

(***************************************************************************)
(* Inference and the proofs each have instances of their own of a module,  *)
(* and of the modules it extends: the definitions are the same.            *)
(***************************************************************************)

LEMMA SameCardinality ==
  ASSUME NEW S
  PROVE  /\ Planner!Cardinality(S) = Cardinality(S)
         /\ Planning!Cardinality(S) = Cardinality(S)
         /\ Planning!IsFiniteSet(S) = IsFiniteSet(S)
BY DEF Planner!Cardinality, Planning!Cardinality, Cardinality, Planner!IsFiniteSet,
       Planning!IsFiniteSet, IsFiniteSet

LEMMA SameGraphs ==
  ASSUME NEW g
  PROVE  /\ Ordering!Operations(g) = Operations(g)
         /\ Ordering!HasDuplicateProducer(g) = HasDuplicateProducer(g)
         /\ Ordering!HasMissingProducer(g) = HasMissingProducer(g)
         /\ \A i : Ordering!Reads(g, i) = Reads(g, i) /\ Ordering!Writes(g, i) = Writes(g, i)
BY DEF Ordering!Operations, Ordering!HasDuplicateProducer, Ordering!HasMissingProducer,
       Ordering!Reads, Ordering!Writes, Ordering!Elements,
       Operations, HasDuplicateProducer, HasMissingProducer, Reads, Writes, Elements

LEMMA SameGraphsScheduled ==
  ASSUME NEW g
  PROVE  /\ Scheduler!Operations(g) = Operations(g)
         /\ Scheduler!HasDuplicateProducer(g) = HasDuplicateProducer(g)
         /\ Scheduler!HasMissingProducer(g) = HasMissingProducer(g)
         /\ Scheduler!Edges(g) = Ordering!Edges(g)
BY DEF Scheduler!Operations, Scheduler!HasDuplicateProducer, Scheduler!HasMissingProducer,
       Scheduler!Reads, Scheduler!Writes, Scheduler!Elements, Scheduler!Edges,
       Scheduler!DataEdges, Scheduler!SideEffectEdges, Scheduler!SideEffects,
       Ordering!Operations, Ordering!Reads, Ordering!Writes, Ordering!Elements, Ordering!Edges,
       Ordering!DataEdges, Ordering!SideEffectEdges, Ordering!SideEffects,
       Operations, HasDuplicateProducer, HasMissingProducer, Reads, Writes, Elements

LEMMA SchedulerInit == Scheduler!Init => Ordering!Init
BY DEF Scheduler!Init, Ordering!Init

LEMMA SchedulerStarts ==
  ASSUME NEW g, Scheduler!StartOrdering(g)
  PROVE  Ordering!StartOrdering(g)
<1>1. \A i : Scheduler!InitialIndegree(g, i) = Ordering!InitialIndegree(g, i)
  <2>1. \A S : Scheduler!Cardinality(S) = Ordering!Cardinality(S)
    BY DEF Scheduler!Cardinality, Ordering!Cardinality, Scheduler!IsFiniteSet,
           Ordering!IsFiniteSet
  <2>2. \A i : Scheduler!Predecessors(g, i) = Ordering!Predecessors(g, i)
    BY SameGraphs, SameGraphsScheduled DEF Scheduler!Predecessors, Ordering!Predecessors
  <2>3. QED
    BY <2>1, <2>2 DEF Scheduler!InitialIndegree, Ordering!InitialIndegree
<1>2. QED
  BY <1>1, SameGraphs, SameGraphsScheduled
     DEF Scheduler!StartOrdering, Ordering!StartOrdering, Scheduler!RejectGraph,
         Ordering!RejectGraph

LEMMA SchedulerSteps ==
  /\ \A i \in ready : Scheduler!ScheduleNext(i) => Ordering!ScheduleNext(i)
  /\ Scheduler!Finish => Ordering!Finish
<1>1. \A i : Scheduler!Dependents(i) = Ordering!Dependents(i)
  BY SameGraphs, SameGraphsScheduled DEF Scheduler!Dependents, Ordering!Dependents
<1>2. \A i \in ready : Scheduler!ScheduleNext(i) => Ordering!ScheduleNext(i)
  BY <1>1
     DEF Scheduler!ScheduleNext, Ordering!ScheduleNext, Scheduler!Least, Ordering!Least,
         Scheduler!StillReady, Ordering!StillReady
<1>3. Scheduler!Finish => Ordering!Finish
  BY DEF Scheduler!Finish, Ordering!Finish
<1>4. QED
  BY <1>2, <1>3

LEMMA PlannerInit == Planner!Init => Planning!Init
BY DEF Planner!Init, Planning!Init, Planner!NoValues, Planning!NoValues, Planner!Unnamed,
       Planning!Unnamed

LEMMA PlannerStarts ==
  ASSUME NEW r, Planner!PlanMemory(r)
  PROVE  Planning!PlanMemory(r)
BY DEF Planner!PlanMemory, Planning!PlanMemory, Planner!Unnamed, Planning!Unnamed,
       Planner!IsPowerOfTwo, Planning!IsPowerOfTwo, Planner!arena, Planning!arena

LEMMA SameLifetimes ==
  ASSUME NEW value, NEW r
  PROVE  /\ Planner!Lifetime(value, r) = Planning!Lifetime(value, r)
         /\ \A reason : Planner!Refusal(value, r, reason) = Planning!Refusal(value, r, reason)
BY DEF Planner!Lifetime, Planning!Lifetime, Planner!FinalUse, Planning!FinalUse,
       Planner!AlignUp, Planning!AlignUp, Planner!StorageClass, Planning!StorageClass,
       Planner!DeclaredOutput, Planning!DeclaredOutput, Planner!Maximum, Planning!Maximum,
       Planner!Refusal, Planning!Refusal, Planner!NoIndex, Planning!NoIndex

LEMMA SameArena ==
  /\ Planner!ArenaValues = Planning!ArenaValues
  /\ Planner!Pending = Planning!Pending
  /\ \A S : Planner!Bytes(S) = Planning!Bytes(S)
  /\ Planner!NaiveTotal = Planning!NaiveTotal
<1>1. Planner!ArenaValues = Planning!ArenaValues
  BY DEF Planner!ArenaValues, Planning!ArenaValues, Planner!External, Planning!External
<1>2. \A S : Planner!Bytes(S) = Planning!Bytes(S)
  BY DEF Planner!Bytes, Planning!Bytes
<1>3. QED
  BY <1>1, <1>2, SameCardinality
     DEF Planner!Pending, Planning!Pending, Planner!NaiveTotal, Planning!NaiveTotal

LEMMA SameReject ==
  ASSUME NEW reason
  PROVE  Planner!Reject(reason) = Planning!Reject(reason)
BY DEF Planner!Reject, Planning!Reject, Planner!arena, Planning!arena

LEMMA SameBlocks ==
  ASSUME NEW blocks
  PROVE  /\ Planner!Coalesce(blocks) = Planning!Coalesce(blocks)
         /\ \A size : Planner!BestFit(blocks, size) = Planning!BestFit(blocks, size)
         /\ \A b, size : Planner!Take(blocks, b, size) = Planning!Take(blocks, b, size)
BY DEF Planner!Coalesce, Planning!Coalesce, Planner!Starts, Planning!Starts, Planner!Ends,
       Planning!Ends, Planner!End, Planning!End, Planner!Block, Planning!Block,
       Planner!BestFit, Planning!BestFit, Planner!Take, Planning!Take

LEMMA PlannerAllocates == Planner!Allocate => Planning!Allocate
<1>1. \A index : Planner!FreeAfterRelease(index) = Planning!FreeAfterRelease(index)
  BY SameBlocks
     DEF Planner!FreeAfterRelease, Planning!FreeAfterRelease, Planner!Block, Planning!Block,
         Planner!Expired, Planning!Expired
<1>2. \A v, at, blocks, end :
        Planner!Place(v, at, blocks, end) = Planning!Place(v, at, blocks, end)
  BY DEF Planner!Place, Planning!Place, Planner!Expired, Planning!Expired
<1>3. \A v : Planner!IsNext(v) = Planning!IsNext(v)
  BY SameArena DEF Planner!IsNext, Planning!IsNext
<1>4. \A v, blocks : Planner!Grow(v, blocks) = Planning!Grow(v, blocks)
  BY <1>2, SameReject DEF Planner!Grow, Planning!Grow
<1>5. QED
  BY <1>1, <1>2, <1>3, <1>4, SameArena, SameBlocks
     DEF Planner!Allocate, Planning!Allocate, Planner!AppendProtected,
         Planning!AppendProtected, Planner!ReuseBlock, Planning!ReuseBlock,
         Planner!AppendReusable, Planning!AppendReusable, Planner!Retained, Planning!Retained

LEMMA PlannerMeasures == Planner!MeasurePeak => Planning!MeasurePeak
<1> DEFINE live == { Planner!Cardinality(Planner!Bytes(Planner!LiveAt(i))) :
                       i \in 0 .. request.boundary }
           same == { Planning!Cardinality(Planning!Bytes(Planning!LiveAt(i))) :
                       i \in 0 .. request.boundary }
<1>1. \A i : Planner!LiveAt(i) = Planning!LiveAt(i)
  BY SameArena DEF Planner!LiveAt, Planning!LiveAt
<1>2. live = same
  BY <1>1, SameArena, SameCardinality
<1>3. Planner!Maximum(live) = Planning!Maximum(same)
  BY <1>2 DEF Planner!Maximum, Planning!Maximum
<1>4. QED
  BY <1>3, SameArena, SameReject
     DEF Planner!MeasurePeak, Planning!MeasurePeak, Planner!arena, Planning!arena

LEMMA PlannerVerifies == Planner!VerifyPlan => Planning!VerifyPlan
<1>1. Planner!PlanVerifies = Planning!PlanVerifies
  BY DEF Planner!PlanVerifies, Planning!PlanVerifies, Planner!External, Planning!External,
         Planner!Retained, Planning!Retained, Planner!RangesOverlap, Planning!RangesOverlap,
         Planner!LifetimesOverlap, Planning!LifetimesOverlap
<1>2. QED
  BY <1>1, SameReject
     DEF Planner!VerifyPlan, Planning!VerifyPlan, Planner!arena, Planning!arena

LEMMA PlannerSteps ==
  /\ \A v, reason : Planner!RefuseValue(v, reason) => Planning!RefuseValue(v, reason)
  /\ Planner!BuildLifetimes => Planning!BuildLifetimes
  /\ Planner!SumNaive => Planning!SumNaive
  /\ Planner!Allocate => Planning!Allocate
  /\ Planner!MeasurePeak => Planning!MeasurePeak
  /\ Planner!VerifyPlan => Planning!VerifyPlan
<1>1. \A v, reason : Planner!RefuseValue(v, reason) => Planning!RefuseValue(v, reason)
  BY SameLifetimes, SameReject DEF Planner!RefuseValue, Planning!RefuseValue
<1>2. Planner!BuildLifetimes => Planning!BuildLifetimes
  BY SameLifetimes
     DEF Planner!BuildLifetimes, Planning!BuildLifetimes, Planner!arena, Planning!arena,
         Planner!RefusalReasons, Planning!RefusalReasons
<1>3. Planner!SumNaive => Planning!SumNaive
  BY SameArena, SameReject
     DEF Planner!SumNaive, Planning!SumNaive, Planner!arena, Planning!arena
<1>4. QED
  BY <1>1, <1>2, <1>3, PlannerAllocates, PlannerMeasures, PlannerVerifies

(***************************************************************************)
(* The graph and its schedule.                                             *)
(***************************************************************************)

\* The loader keeps what execute relies on.
LEMMA LoadedIsExecutable ==
  ASSUME NEW d, IsDocument(d), IsExecutable(d)
  PROVE  IsExecutable(Loaded(d))
<1> DEFINE g == Loaded(d)
           s == LoadOrder(d)
<1>1. IsOrdering(d, DataEdges(d), s)
  BY LeastFirstIsOrdering DEF LoadOrder, IsDocument
<1> HIDE DEF s
<1>2. /\ g.values = d.values /\ Operations(g) = 1 .. Len(s)
      /\ \A n \in 1 .. Len(s) : g.ops[n] = d.ops[s[n]]
  BY <1>1, ReorderedFacts DEF Loaded, s
<1>3. \A n \in 1 .. Len(s) : s[n] \in Operations(d)
  BY <1>1, LenProperties DEF IsOrdering
<1> HIDE DEF g
<1>4. IsExecutable(g)
  BY <1>2, <1>3 DEF IsExecutable
<1>5. QED
  BY <1>4 DEF g

\* A loaded graph can be scheduled.
LEMMA LoadedIsSchedulable ==
  ASSUME NEW g, IsLoaded(g)
  PROVE  /\ Ordering!IsSchedulable(g)
         /\ ~HasDuplicateProducer(g) /\ ~HasMissingProducer(g)
<1>1. Ordering!IsSchedulable(g)
  BY SameGraphs DEF IsLoaded, IsDocument, Ordering!IsSchedulable
<1>2. ~HasDuplicateProducer(g)
  BY DEF IsLoaded, ProducersExist
<1>3. \A i \in Operations(g) : \A v \in Reads(g, i) : \E j \in Operations(g) : v \in Writes(g, j)
  BY DEF IsLoaded, ProducersExist, ReferencesExist
<1>4. QED
  BY <1>1, <1>2, <1>3 DEF HasMissingProducer

\* Every operation of a loaded graph has its value, and every value its
\* operation.
LEMMA ResultFacts ==
  ASSUME IsLoaded(graph)
  PROVE  /\ \A i \in Operations(graph) :
              /\ Writes(graph, i) = { Session!Result(i) }
              /\ Session!Result(i) \in DOMAIN graph.values
              /\ Reads(graph, i) \subseteq DOMAIN graph.values
         /\ \A i, j \in Operations(graph) : Session!Result(i) = Session!Result(j) => i = j
         /\ \A v \in DOMAIN graph.values : \E i \in Operations(graph) : v = Session!Result(i)
<1>1. ASSUME NEW i \in Operations(graph)
      PROVE  /\ Writes(graph, i) = { Session!Result(i) }
             /\ Session!Result(i) \in DOMAIN graph.values
             /\ Reads(graph, i) \subseteq DOMAIN graph.values
  <2>1. Len(graph.ops[i].outputs) = 1 /\ graph.ops[i].outputs \in Seq(Nat)
    BY DEF IsLoaded, ReferencesExist, IsDocument
  <2>2. DOMAIN graph.ops[i].outputs = 1 .. 1
    BY <2>1, LenProperties
  <2>3. Writes(graph, i) = { Session!Result(i) }
    BY <2>2 DEF Writes, Elements, Session!Result
  <2>4. Reads(graph, i) \cup Writes(graph, i) \subseteq DOMAIN graph.values
    BY DEF IsLoaded, ReferencesExist
  <2>5. QED
    BY <2>3, <2>4
<1>2. \A i, j \in Operations(graph) : Session!Result(i) = Session!Result(j) => i = j
  <2> SUFFICES ASSUME NEW i \in Operations(graph), NEW j \in Operations(graph),
                      Session!Result(i) = Session!Result(j), i # j
               PROVE  FALSE
    OBVIOUS
  <2>1. Writes(graph, i) \cap Writes(graph, j) # {}
    BY <1>1
  <2>2. QED
    BY <2>1 DEF IsLoaded, ProducersExist, HasDuplicateProducer
<1>3. \A v \in DOMAIN graph.values : \E i \in Operations(graph) : v = Session!Result(i)
  <2> SUFFICES ASSUME NEW v \in DOMAIN graph.values
               PROVE  \E i \in Operations(graph) : v = Session!Result(i)
    OBVIOUS
  <2>1. PICK i \in Operations(graph) : v \in Writes(graph, i)
    BY DEF IsLoaded, ProducersExist
  <2>2. QED
    BY <1>1, <2>1
<1>4. QED
  BY <1>1, <1>2, <1>3

\* The order goes through all operations, each after those it reads from.
LEMMA OrderFacts ==
  ASSUME ScheduleInv, schedule_phase = "scheduled"
  PROVE  /\ Len(order) \in Nat /\ Len(order) = Len(graph.ops)
         /\ Operations(graph) = 1 .. Len(order) /\ DOMAIN order = 1 .. Len(order)
         /\ \A n \in 1 .. Len(order) : order[n] \in Operations(graph)
         /\ \A m, n \in 1 .. Len(order) : order[m] = order[n] => m = n
         /\ \A i \in Operations(graph) : \E n \in 1 .. Len(order) : order[n] = i
         /\ \A n \in 1 .. Len(order), i \in Operations(graph) :
              Writes(graph, i) \cap Reads(graph, order[n]) # {} =>
                \E m \in 1 .. n - 1 : order[m] = i
<1>1. Ordering!IsSchedulable(graph) /\ Ordering!OrderInv /\ Ordering!EndInv
  BY DEF ScheduleInv, Ordering!IInv
<1>2. Len(order) = Len(graph.ops)
  BY <1>1 DEF Ordering!EndInv
<1>3. Len(graph.ops) \in Nat /\ Operations(graph) = 1 .. Len(graph.ops)
  BY DEF ScheduleInv, IsLoaded, IsDocument
<1>4. /\ order \in Seq(Operations(graph))
      /\ \A m, n \in 1 .. Len(order) : order[m] = order[n] => m = n
  BY <1>1, SameGraphs DEF Ordering!OrderInv
<1>5. DOMAIN order = 1 .. Len(order) /\ \A n \in 1 .. Len(order) : order[n] \in Operations(graph)
  BY <1>4, LenProperties
<1>6. \A i \in Operations(graph) : \E n \in 1 .. Len(order) : order[n] = i
  <2>1. IsOrdering(graph, {}, order)
    BY <1>4 DEF IsOrdering
  <2>2. QED
    BY <1>2, <1>3, <2>1, FullOrderingIsOnto
<1>7. ASSUME NEW n \in 1 .. Len(order), NEW i \in Operations(graph),
             Writes(graph, i) \cap Reads(graph, order[n]) # {}
      PROVE  \E m \in 1 .. n - 1 : order[m] = i
  <2>1. << i, order[n] >> \in Ordering!DataEdges(graph)
    BY <1>5, <1>7, SameGraphs DEF Ordering!DataEdges
  <2>2. i \in Ordering!Predecessors(graph, order[n])
    BY <2>1, SameGraphs DEF Ordering!Predecessors, Ordering!Edges
  <2>3. QED
    BY <1>1, <2>2 DEF Ordering!OrderInv
<1>8. QED
  BY <1>2, <1>3, <1>4, <1>5, <1>6, <1>7

(***************************************************************************)
(* Scheduling.                                                             *)
(***************************************************************************)

\* In a loaded graph nothing waits for itself: edges go from lower to higher
\* operations.
LEMMA NoneWaits ==
  ASSUME IsLoaded(graph), NEW S \in SUBSET Operations(graph), Ordering!Waiting(S)
  PROVE  FALSE
<1>1. S \in SUBSET Nat /\ S # {} /\ \A i \in S : Ordering!Predecessors(graph, i) \cap S # {}
  BY DEF Ordering!Waiting, IsLoaded, IsDocument
<1>2. PICK m \in S : \A i \in S : m <= i
  BY <1>1, LeastElement
<1>3. PICK p \in S : p \in Ordering!Predecessors(graph, m)
  BY <1>1
<1>4. << p, m >> \in Ordering!DataEdges(graph) \/ << p, m >> \in Ordering!SideEffectEdges(graph)
  BY <1>3 DEF Ordering!Predecessors, Ordering!Edges
<1>5. p < m
  <2>1. CASE << p, m >> \in Ordering!DataEdges(graph)
    BY <2>1, SameGraphs DEF Ordering!DataEdges, IsLoaded, Forward
  <2>2. CASE << p, m >> \in Ordering!SideEffectEdges(graph)
    BY <2>2 DEF Ordering!SideEffectEdges
  <2>3. QED
    BY <1>4, <2>1, <2>2
<1>6. p \in Nat /\ m \in Nat /\ m <= p
  BY <1>1, <1>2
<1>7. QED
  BY <1>5, <1>6

LEMMA LoadGraphSchedules ==
  ASSUME ScheduleInv, NEW d \in Documents, LoadGraph(d)
  PROVE  ScheduleInv' /\ schedule_phase = "idle" /\ schedule_phase' = "ordering"
<1> DEFINE g == Loaded(d)
<1>1. IsLoaded(g) /\ IsExecutable(g)
  BY DocumentsAssumption, AcceptedIsLoaded, LoadedIsExecutable DEF LoadGraph
<1> HIDE DEF g
<1>2. schedule_phase = "idle" /\ Scheduler!StartOrdering(g)
  BY DEF LoadGraph, g
<1>3. Ordering!IInv'
  BY <1>1, <1>2, LoadedIsSchedulable, SchedulerStarts, Ordering!StartOrderingPreserves
     DEF ScheduleInv
<1>4. schedule_phase' = "ordering" /\ graph' = g /\ schedule_error' = schedule_error
  BY <1>1, <1>2, LoadedIsSchedulable, SameGraphsScheduled DEF Scheduler!StartOrdering
<1>5. QED
  BY <1>1, <1>2, <1>3, <1>4 DEF ScheduleInv

LEMMA BuildScheduleSchedules ==
  ASSUME ScheduleInv, BuildSchedule
  PROVE  ScheduleInv' /\ schedule_phase = "ordering" /\ graph' = graph
<1>1. CASE \E i \in ready : Scheduler!ScheduleNext(i)
  <2>1. PICK i \in ready : Ordering!ScheduleNext(i)
    BY <1>1, SchedulerSteps
  <2>2. Ordering!IInv'
    BY <2>1, Ordering!ScheduleNextPreserves DEF ScheduleInv
  <2>3. /\ schedule_phase = "ordering" /\ schedule_phase' = schedule_phase
        /\ graph' = graph /\ schedule_error' = schedule_error
    BY <2>1, Ordering!ScheduleNextFacts DEF ScheduleInv
  <2>4. QED
    BY <2>2, <2>3 DEF ScheduleInv
<1>2. CASE Scheduler!Finish
  <2>1. schedule_phase = "ordering" /\ graph' = graph
        /\ (schedule_error' = schedule_error \/ schedule_error' = "cycle")
    BY <1>2 DEF Scheduler!Finish
  <2>2. Ordering!IInv'
    BY <1>2, SchedulerSteps, Ordering!FinishPreserves DEF ScheduleInv
  <2>3. schedule_error' # "cycle"
    <3> SUFFICES ASSUME schedule_error' = "cycle"
                 PROVE  FALSE
      OBVIOUS
    <3>1. \E S \in SUBSET Ordering!Operations(graph') : Ordering!Waiting(S)'
      BY <2>2 DEF Ordering!IInv, Ordering!EndInv
    <3>2. PICK S \in SUBSET Operations(graph) : Ordering!Waiting(S)
      BY <2>1, <3>1, SameGraphs DEF Ordering!Waiting
    <3>3. QED
      BY <2>1, <3>2, NoneWaits DEF ScheduleInv
  <2>4. QED
    BY <2>1, <2>2, <2>3 DEF ScheduleInv
<1>3. QED
  BY <1>1, <1>2 DEF BuildSchedule

\* No other step touches the schedule.
LEMMA ScheduleStays ==
  ASSUME ScheduleInv, UNCHANGED schedule_vars
  PROVE  ScheduleInv'
<1>1. Ordering!IInv'
  BY Ordering!StutterPreserves DEF ScheduleInv, schedule_vars, Ordering!vars
<1>2. QED
  BY <1>1 DEF ScheduleInv, schedule_vars

(***************************************************************************)
(* Planning.                                                               *)
(***************************************************************************)

\* The index of an operation is its position, from zero.
LEMMA IndexFacts ==
  ASSUME ScheduleInv, schedule_phase = "scheduled", NEW n \in 1 .. Len(order)
  PROVE  ScheduleIndex(order[n]) = n - 1
<1>1. /\ Len(order) \in Nat
      /\ \A k, m \in 1 .. Len(order) : order[k] = order[m] => k = m
  BY OrderFacts
<1>2. \A k \in 0 .. Len(order) - 1 : order[k + 1] = order[n] <=> k = n - 1
  BY <1>1
<1>3. n - 1 \in 0 .. Len(order) - 1
  BY <1>1
<1>4. QED
  BY <1>2, <1>3 DEF ScheduleIndex

\* The positions at which v is read.
Uses(v) == { k \in 1 .. Len(order) : v \in Reads(graph, order[k]) }

\* Lifetimes are those of the schedule, and a value is read after it is defined.
LEMMA LifetimesFacts ==
  ASSUME ScheduleInv, schedule_phase = "scheduled", NEW n \in 1 .. Len(order)
  PROVE  /\ Result(n) \in DOMAIN Lifetimes
         /\ Lifetimes[Result(n)].definition = n - 1
         /\ Lifetimes[Result(n)].uses = { k - 1 : k \in Uses(Result(n)) }
         /\ \A k \in Uses(Result(n)) : n < k
<1> DEFINE v == Result(n)
<1>1. /\ Len(order) \in Nat /\ Operations(graph) = 1 .. Len(order)
      /\ \A k \in 1 .. Len(order) : order[k] \in Operations(graph)
      /\ \A i \in Operations(graph) : \E k \in 1 .. Len(order) : order[k] = i
      /\ \A k, m \in 1 .. Len(order) : order[k] = order[m] => k = m
  BY OrderFacts
<1>2. IsLoaded(graph)
  BY DEF ScheduleInv
<1>3. /\ v \in DOMAIN graph.values
      /\ \A i \in Operations(graph) : v \in Writes(graph, i) <=> i = order[n]
  BY <1>1, <1>2, ResultFacts DEF Result
<1>4. (CHOOSE i \in Operations(graph) : v \in Writes(graph, i)) = order[n]
  BY <1>1, <1>3
<1>5. v \in DOMAIN Lifetimes /\ Lifetimes[v].definition = n - 1
  BY <1>3, <1>4, IndexFacts DEF Lifetimes
<1>6. Lifetimes[v].uses = { ScheduleIndex(i) : i \in { j \in Operations(graph) : v \in Reads(graph, j) } }
  BY <1>3 DEF Lifetimes
<1>7. { ScheduleIndex(i) : i \in { j \in Operations(graph) : v \in Reads(graph, j) } }
        = { k - 1 : k \in Uses(v) }
  <2>1. \A k \in 1 .. Len(order) : ScheduleIndex(order[k]) = k - 1
    BY IndexFacts
  <2>2. ASSUME NEW i \in Operations(graph), v \in Reads(graph, i)
        PROVE  \E k \in Uses(v) : ScheduleIndex(i) = k - 1
    BY <1>1, <2>1, <2>2 DEF Uses
  <2>3. ASSUME NEW k \in Uses(v)
        PROVE  /\ order[k] \in Operations(graph) /\ v \in Reads(graph, order[k])
               /\ ScheduleIndex(order[k]) = k - 1
    BY <1>1, <2>1 DEF Uses
  <2>4. QED
    BY <2>2, <2>3
<1>8. ASSUME NEW k \in Uses(v)
      PROVE  n < k
  <2>1. Writes(graph, order[n]) \cap Reads(graph, order[k]) # {}
    BY <1>1, <1>3 DEF Uses
  <2>2. PICK m \in 1 .. k - 1 : order[m] = order[n]
    BY <1>1, <2>1, OrderFacts DEF Uses
  <2>3. k \in 1 .. Len(order) /\ m \in 1 .. Len(order) /\ m < k
    BY <1>1 DEF Uses
  <2>4. QED
    BY <1>1, <2>2, <2>3
<1>9. QED
  BY <1>5, <1>6, <1>7, <1>8

\* What the session asks of the planner is a request, with no reason to refuse a
\* value but these two.
LEMMA RequestFacts ==
  ASSUME ScheduleInv, schedule_phase = "scheduled"
  PROVE  /\ Planning!IsRequest(Request)
         /\ \A v \in DOMAIN Request.values, reason \in Planning!RefusalReasons :
              Planning!Refusal(Request.values[v], Request, reason) =>
                \/ reason = "overflow" /\ Planning!AlignUp(graph.values[v].bytes, Alignment) > MaxU64
                \/ /\ reason = "unused_intermediate" /\ graph.values[v].kind = "intermediate"
                   /\ \A i \in Operations(graph) : v \notin Reads(graph, i)
<1>1. /\ Len(order) \in Nat /\ Operations(graph) = 1 .. Len(order)
      /\ \A i \in Operations(graph) : \E k \in 1 .. Len(order) : order[k] = i
  BY OrderFacts
<1>2. IsLoaded(graph) /\ IsExecutable(graph)
  BY DEF ScheduleInv
<1>3. /\ Request.alignment = Alignment /\ Request.boundary = Len(order)
      /\ Request.values = Lifetimes /\ DOMAIN Lifetimes = DOMAIN graph.values
  BY DEF Request, Lifetimes
<1>4. ASSUME NEW v \in DOMAIN graph.values
      PROVE  /\ Lifetimes[v].definition \in 0 .. Len(order) - 1
             /\ Lifetimes[v].uses \subseteq 0 .. Len(order) - 1
             /\ \A use \in Lifetimes[v].uses : ~(use < Lifetimes[v].definition)
             /\ Lifetimes[v].uses = {} => \A i \in Operations(graph) : v \notin Reads(graph, i)
  <2>1. PICK i \in Operations(graph) : v = Session!Result(i)
    BY <1>2, ResultFacts
  <2>2. PICK n \in 1 .. Len(order) : v = Result(n)
    BY <1>1, <2>1 DEF Result
  <2>3. /\ Lifetimes[v].definition = n - 1
        /\ Lifetimes[v].uses = { k - 1 : k \in Uses(v) }
        /\ \A k \in Uses(v) : n < k
    BY <2>2, LifetimesFacts
  <2>4. Uses(v) \subseteq 1 .. Len(order)
    BY DEF Uses
  <2>5. Uses(v) = {} => \A j \in Operations(graph) : v \notin Reads(graph, j)
    BY <1>1 DEF Uses
  <2>6. QED
    BY <1>1, <2>3, <2>4, <2>5
<1>5. ASSUME NEW v \in DOMAIN graph.values
      PROVE  /\ Lifetimes[v].kind = graph.values[v].kind
             /\ Lifetimes[v].kind \in ValueKinds
             /\ Lifetimes[v].declared = (v \in graph.outputs)
             /\ Lifetimes[v].declared \in BOOLEAN
             /\ Lifetimes[v].bytes = graph.values[v].bytes
             /\ graph.values[v].bytes \in 1 .. MaxU64
  <2>1. /\ Lifetimes[v].kind = graph.values[v].kind
        /\ Lifetimes[v].declared = (v \in graph.outputs)
        /\ Lifetimes[v].bytes = graph.values[v].bytes
    BY DEF Lifetimes
  <2>2. graph.values[v].kind \in ValueKinds
    BY <1>2 DEF IsLoaded, IsDocument
  <2>3. graph.values[v].bytes \in 1 .. MaxU64
    BY <1>2 DEF IsExecutable
  <2>4. (v \in graph.outputs) \in BOOLEAN
    OBVIOUS
  <2>5. QED
    BY <2>1, <2>2, <2>3, <2>4
<1>6. Planning!IsRequest(Request)
  <2>1. Alignment \in 0 .. MaxU64 /\ MaxU64 \in Nat
    BY AlignmentAssumption, MaxU64Assumption
  <2>2. DOMAIN graph.values \subseteq Nat /\ Planning!IsFiniteSet(DOMAIN graph.values)
    BY <1>2, SameCardinality DEF IsLoaded, IsDocument
  <2>3. ASSUME NEW v \in DOMAIN graph.values
        PROVE  /\ Lifetimes[v].definition \in (0 .. Len(order) - 1) \cup {Planning!NoIndex}
               /\ Lifetimes[v].uses \subseteq 0 .. Len(order) - 1
               /\ Lifetimes[v].kind \in Planning!Kinds
               /\ Lifetimes[v].declared \in BOOLEAN
               /\ Lifetimes[v].bytes \in 0 .. MaxU64
    BY <1>4, <1>5, <2>1 DEF Planning!Kinds, ValueKinds
  <2>4. QED
    BY <1>1, <1>3, <2>1, <2>2, <2>3 DEF Planning!IsRequest
<1>7. ASSUME NEW v \in DOMAIN graph.values, NEW reason \in Planning!RefusalReasons,
             Planning!Refusal(Lifetimes[v], Request, reason)
      PROVE  \/ reason = "overflow" /\ Planning!AlignUp(graph.values[v].bytes, Alignment) > MaxU64
             \/ /\ reason = "unused_intermediate" /\ graph.values[v].kind = "intermediate"
                /\ \A i \in Operations(graph) : v \notin Reads(graph, i)
  <2>1. /\ reason # "missing_definition" /\ reason # "unresolved_dimension"
        /\ reason # "used_before_definition"
    BY <1>1, <1>4, <1>5, <1>7, MaxU64Assumption DEF Planning!Refusal, Planning!NoIndex
  <2>2. CASE reason = "overflow"
    BY <1>3, <1>5, <1>7, <2>2 DEF Planning!Refusal
  <2>3. CASE reason = "unused_intermediate"
    BY <1>4, <1>5, <1>7, <2>3 DEF Planning!Refusal
  <2>4. QED
    BY <2>1, <2>2, <2>3 DEF Planning!RefusalReasons
<1>8. QED
  BY <1>3, <1>6, <1>7

\* A plan that has not failed has no error.
LEMMA NoErrorSoFar ==
  ASSUME PlanInv, plan_phase # "rejected"
  PROVE  plan_error = "none"
BY DEF PlanInv, Planning!SelfCheckInv, Planning!ErrorInv

\* The planner's own invariants survive what leaves its variables alone.
LEMMA PlannerStutters ==
  ASSUME PlanInv, UNCHANGED plan_vars
  PROVE  Planning!IInv' /\ Planning!SelfCheckInv' /\ Planning!Pending' = Planning!Pending
<1>1. UNCHANGED Planning!vars
  BY DEF plan_vars, Planning!vars, Planning!arena
<1>2. Planning!IInv' /\ Planning!SelfCheckInv'
  BY <1>1, MaxU64Assumption, Planning!NextPreserves, Planning!NextChecks DEF PlanInv
<1>3. Planning!Pending' = Planning!Pending
  BY DEF plan_vars, Planning!Pending, Planning!ArenaValues, Planning!External
<1>4. QED
  BY <1>2, <1>3

\* Before there is a plan, the graph may still change.
LEMMA NoPlanYet ==
  ASSUME PlanInv, plan_phase = "idle", UNCHANGED plan_vars, schedule_error' = "none"
  PROVE  PlanInv'
<1>1. plan_phase' = "idle" /\ plan_error' = "none"
  BY NoErrorSoFar DEF plan_vars
<1>2. QED
  BY <1>1, PlannerStutters DEF PlanInv, AcceptedGraphsArePlanned

\* Afterwards a step that leaves both alone keeps what is known of them.
LEMMA PlanStays ==
  ASSUME PlanInv, UNCHANGED << schedule_vars, plan_vars >>
  PROVE  PlanInv'
<1>1. Request' = Request
  BY DEF Request, Lifetimes, ScheduleIndex, schedule_vars
<1>2. Planner!NaiveTotal' = Planner!NaiveTotal
  BY DEF plan_vars, Planner!NaiveTotal, Planner!Bytes, Planner!ArenaValues, Planner!External
<1>3. AcceptedGraphsArePlanned'
  BY <1>2 DEF PlanInv, AcceptedGraphsArePlanned, schedule_vars, plan_vars
<1>4. QED
  BY <1>1, <1>3, PlannerStutters DEF PlanInv, schedule_vars, plan_vars

LEMMA StartPlanPlans ==
  ASSUME ScheduleInv, PlanInv, StartPlan
  PROVE  PlanInv'
<1>1. schedule_phase = "scheduled" /\ Planning!PlanMemory(Request) /\ UNCHANGED schedule_vars
  BY PlannerStarts DEF StartPlan
<1>2. Planning!IInv' /\ Planning!SelfCheckInv'
  BY <1>1, RequestFacts, MaxU64Assumption, Planning!PlanMemoryPreserves, Planning!PlanMemoryChecks
     DEF PlanInv
<1>3. plan_phase = "idle" /\ request' = Request /\ schedule_phase' = "scheduled"
  BY <1>1 DEF Planning!PlanMemory, schedule_vars
<1>4. plan_phase' = "lifetimes" /\ plan_error' = "none"
  <2>1. Request.backend # Planning!Unnamed /\ Planning!IsPowerOfTwo(Request.alignment)
    BY AlignmentAssumption DEF Request, Planning!Unnamed, Planning!IsPowerOfTwo
  <2>2. QED
    BY <1>1, <1>3, <2>1, NoErrorSoFar DEF Planning!PlanMemory
<1>5. Request' = Request
  BY <1>1 DEF Request, Lifetimes, ScheduleIndex, schedule_vars
<1>6. QED
  BY <1>1, <1>2, <1>3, <1>4, <1>5 DEF PlanInv, AcceptedGraphsArePlanned, ScheduleInv, schedule_vars

\* One step of plan_memory, and the only ways in which it may fail.
LEMMA BuildPlanFacts ==
  ASSUME PlanInv, BuildPlan
  PROVE  /\ Planning!Next /\ UNCHANGED schedule_vars
         /\ plan_phase \in {"lifetimes", "naive", "allocate", "verify"}
         /\ request' = request /\ plan_phase' # "idle"
         /\ plan_phase' = "planned" =>
              plan_phase = "verify" /\ UNCHANGED << tensors, offset >>
         /\ \/ plan_error' \in {"none", "arena_overflow", "arena_exceeds_naive", "verification"}
            \/ \E v \in DOMAIN request.values, reason \in Planning!RefusalReasons :
                 Planning!Refusal(request.values[v], request, reason) /\ plan_error' = reason
            \/ plan_error' = "overflow" /\ Planning!NaiveTotal > MaxU64 /\ tensors' = tensors
<1> USE DEF Planning!arena
<1>1. UNCHANGED schedule_vars
  BY DEF BuildPlan
<1>2. CASE \E v \in DOMAIN request.values, reason \in Planner!RefusalReasons :
             Planner!RefuseValue(v, reason)
  <2>1. PICK v \in DOMAIN request.values, reason \in Planning!RefusalReasons :
          Planning!RefuseValue(v, reason)
    BY <1>2, PlannerSteps DEF Planner!RefusalReasons, Planning!RefusalReasons
  <2>2. QED
    BY <1>1, <2>1 DEF Planning!RefuseValue, Planning!Reject, Planning!Next
<1>3. CASE Planner!BuildLifetimes
  <2>1. Planning!BuildLifetimes
    BY <1>3, PlannerSteps
  <2>2. QED
    BY <1>1, <2>1, NoErrorSoFar DEF Planning!BuildLifetimes, Planning!Next
<1>4. CASE Planner!SumNaive
  <2>1. Planning!SumNaive
    BY <1>4, PlannerSteps
  <2>2. QED
    BY <1>1, <2>1, NoErrorSoFar DEF Planning!SumNaive, Planning!Reject, Planning!Next
<1>5. CASE Planner!Allocate
  <2>1. Planning!Allocate
    BY <1>5, PlannerSteps
  <2>2. QED
    BY <1>1, <2>1, NoErrorSoFar
       DEF Planning!Allocate, Planning!AppendProtected, Planning!ReuseBlock,
           Planning!AppendReusable, Planning!Grow, Planning!Place, Planning!Reject, Planning!Next
<1>6. CASE Planner!MeasurePeak
  <2>1. Planning!MeasurePeak
    BY <1>6, PlannerSteps
  <2>2. QED
    BY <1>1, <2>1, NoErrorSoFar DEF Planning!MeasurePeak, Planning!Reject, Planning!Next
<1>7. CASE Planner!VerifyPlan
  <2>1. Planning!VerifyPlan
    BY <1>7, PlannerSteps
  <2>2. QED
    BY <1>1, <2>1, NoErrorSoFar DEF Planning!VerifyPlan, Planning!Reject, Planning!Next
<1>8. QED
  BY <1>2, <1>3, <1>4, <1>5, <1>6, <1>7 DEF BuildPlan

LEMMA BuildPlanPlans ==
  ASSUME ScheduleInv, PlanInv, BuildPlan
  PROVE  PlanInv'
<1>1. /\ plan_phase \in {"lifetimes", "naive", "allocate", "verify"}
      /\ request' = request /\ plan_phase' # "idle"
      /\ Planning!Next /\ UNCHANGED schedule_vars
  BY BuildPlanFacts
<1>2. Planning!IInv' /\ Planning!SelfCheckInv'
  BY <1>1, MaxU64Assumption, Planning!NextPreserves, Planning!NextChecks DEF PlanInv
<1>3. schedule_phase = "scheduled" /\ request = Request /\ Request' = Request
  BY <1>1 DEF PlanInv, Request, Lifetimes, ScheduleIndex, schedule_vars
<1>4. plan_phase' # "idle" => schedule_phase' = "scheduled" /\ request' = Request'
  BY <1>1, <1>3 DEF schedule_vars
<1>5. plan_phase' = "planned" => Planning!Pending' = {}
  <2> SUFFICES ASSUME plan_phase' = "planned"
               PROVE  Planning!Pending' = {}
    OBVIOUS
  <2>1. plan_phase = "verify" /\ UNCHANGED << tensors, offset >>
    BY BuildPlanFacts
  <2>2. Planning!Pending = {}
    BY <2>1 DEF PlanInv, Planning!SelfCheckInv, Planning!MeasuredInv
  <2>3. QED
    BY <2>1, <2>2 DEF Planning!Pending, Planning!ArenaValues, Planning!External
<1>6. /\ plan_error' \notin {"arena_overflow", "arena_exceeds_naive", "verification"}
  <2>1. Planning!SelfChecksPass'
    BY <1>2 DEF Planning!SelfCheckInv, Planning!ErrorInv
  <2>2. \A v \in DOMAIN Request.values :
          Request.values[v].declared => Request.values[v].kind = "output"
    BY <1>3 DEF Request, Lifetimes, ScheduleInv, IsLoaded, ReferencesExist, Kind
  <2>3. QED
    BY <1>1, <1>3, <2>1, <2>2 DEF Planning!SelfChecksPass
<1>7. AcceptedGraphsArePlanned'
  <2>1. schedule_error' = "none" /\ graph' = graph
    BY <1>1 DEF ScheduleInv, schedule_vars
  <2>2. CASE plan_error' = "none"
    BY <2>1, <2>2 DEF AcceptedGraphsArePlanned
  <2>3. CASE \E v \in DOMAIN request.values, reason \in Planning!RefusalReasons :
               Planning!Refusal(request.values[v], request, reason) /\ plan_error' = reason
    <3>1. PICK v \in DOMAIN graph.values :
            \/ plan_error' = "overflow" /\ Planning!AlignUp(graph.values[v].bytes, Alignment) > MaxU64
            \/ /\ plan_error' = "unused_intermediate" /\ graph.values[v].kind = "intermediate"
               /\ \A i \in Operations(graph) : v \notin Reads(graph, i)
      <4>1. DOMAIN Request.values = DOMAIN graph.values
        BY DEF Request, Lifetimes
      <4>2. PICK v \in DOMAIN graph.values, reason \in Planning!RefusalReasons :
              Planning!Refusal(Request.values[v], Request, reason) /\ plan_error' = reason
        BY <1>3, <2>3, <4>1
      <4>3. QED
        BY <1>3, <4>1, <4>2, RequestFacts
    <3>2. Planner!AlignUp(graph.values[v].bytes, Alignment)
            = Planning!AlignUp(graph.values[v].bytes, Alignment)
      BY DEF Planner!AlignUp, Planning!AlignUp
    <3>3. CASE plan_error' = "overflow"
      BY <2>1, <3>1, <3>2, <3>3 DEF AcceptedGraphsArePlanned, Planner!AlignUp
    <3>4. CASE plan_error' = "unused_intermediate"
      BY <2>1, <3>1, <3>4 DEF AcceptedGraphsArePlanned
    <3>5. QED
      BY <3>1, <3>3, <3>4
  <2>4. CASE plan_error' = "overflow" /\ Planning!NaiveTotal > MaxU64 /\ tensors' = tensors
    <3>1. Planner!NaiveTotal' = Planner!NaiveTotal
      BY <2>4 DEF Planner!NaiveTotal, Planner!Bytes, Planner!ArenaValues, Planner!External
    <3>2. Planner!NaiveTotal' > MaxU64
      BY <2>4, <3>1, SameArena
    <3>3. QED
      BY <2>1, <2>4, <3>2 DEF AcceptedGraphsArePlanned
  <2>5. QED
    BY <1>6, <2>2, <2>3, <2>4, BuildPlanFacts
<1>8. QED
  BY <1>2, <1>4, <1>5, <1>7 DEF PlanInv

(***************************************************************************)
(* The plan.                                                               *)
(***************************************************************************)

\* The lifetimes of a finished plan: the result of a kernel is in the arena from
\* its operation to its last reader, or to the end.
LEMMA TensorFacts ==
  ASSUME ScheduleInv, PlanInv, plan_phase = "planned",
         NEW n \in 1 .. Len(order), TypeAt(n) = "compute"
  PROVE  LET v == Result(n)
             t == tensors[Result(n)]
         IN  /\ v \in DOMAIN offset /\ offset[v] \in Nat
             /\ Session!ByteSize(v) \in Nat \ {0} /\ t.size \in Nat
             /\ Session!ByteSize(v) <= t.size /\ offset[v] + t.size <= arena_end
             /\ t.definition_index = n - 1 /\ t.final_use_index \in Nat
             /\ n - 1 <= t.final_use_index
             /\ v \in graph.outputs => Len(order) <= t.final_use_index
             /\ \A k \in Uses(v) : k - 1 <= t.final_use_index
<1> DEFINE v == Result(n)
           value == Lifetimes[v]
<1>1. /\ schedule_phase = "scheduled" /\ request = Request
      /\ Planning!IInv /\ Planning!SelfCheckInv /\ Planning!Pending = {}
  BY DEF PlanInv
<1>2. /\ Len(order) \in Nat /\ order[n] \in Operations(graph)
      /\ IsLoaded(graph) /\ IsExecutable(graph)
  BY <1>1, OrderFacts DEF ScheduleInv
<1>3. /\ v \in DOMAIN graph.values /\ v \in Writes(graph, order[n])
  BY <1>2, ResultFacts DEF Result
<1>4. graph.values[v].kind \in {"intermediate", "output"}
  BY <1>2, <1>3 DEF IsLoaded, RolesAgree, KindsProducedBy, Kind, TypeAt
<1>5. /\ value.definition = n - 1
      /\ value.uses = { k - 1 : k \in Uses(v) }
      /\ \A k \in Uses(v) : n < k
      /\ value.kind = graph.values[v].kind
      /\ value.declared = (v \in graph.outputs)
      /\ value.bytes = graph.values[v].bytes
  BY <1>1, <1>3, LifetimesFacts DEF Lifetimes
<1>6. /\ request.values = Lifetimes /\ request.boundary = Len(order)
      /\ request.alignment = Alignment
      /\ DOMAIN tensors = DOMAIN Lifetimes /\ v \in DOMAIN tensors
      /\ tensors[v] = Planning!Lifetime(value, request)
  <2>1. /\ request.values = Lifetimes /\ request.boundary = Len(order)
        /\ request.alignment = Alignment
    BY <1>1 DEF Request
  <2>2. DOMAIN tensors = DOMAIN request.values
    BY <1>1 DEF Planning!IInv, Planning!PhaseInv
  <2>3. v \in DOMAIN Lifetimes
    BY <1>3 DEF Lifetimes
  <2>4. \A w \in DOMAIN tensors : tensors[w] = Planning!Lifetime(request.values[w], request)
    BY <1>1 DEF Planning!SelfCheckInv, Planning!TotalsInv
  <2>5. QED
    BY <2>1, <2>2, <2>3, <2>4
<1> HIDE DEF value
<1>7. /\ tensors[v].definition_index = value.definition
      /\ tensors[v].final_use_index = Planning!FinalUse(value, Len(order))
      /\ tensors[v].storage_class = Planning!StorageClass(value)
      /\ tensors[v].size = Planning!AlignUp(value.bytes, Alignment)
  BY <1>6 DEF Planning!Lifetime
<1>8. v \in DOMAIN offset /\ offset[v] \in Nat
  <2>1. tensors[v].storage_class \in {"arena_output", "arena_reusable"}
    <3>1. CASE Planning!DeclaredOutput(value)
      BY <1>7, <3>1 DEF Planning!StorageClass
    <3>2. CASE ~Planning!DeclaredOutput(value)
      <4>1. value.kind = "intermediate"
        BY <1>4, <1>5, <3>2 DEF Planning!DeclaredOutput
      <4>2. QED
        BY <1>7, <3>2, <4>1 DEF Planning!StorageClass
    <3>3. QED
      BY <3>1, <3>2
  <2>2. v \in Planning!ArenaValues
    BY <1>6, <2>1 DEF Planning!ArenaValues, Planning!External
  <2>3. QED
    BY <1>1, <2>2 DEF Planning!Pending, Planning!IInv, Planning!BoundsInv
<1>9. /\ Session!ByteSize(v) \in Nat \ {0} /\ tensors[v].size \in Nat
      /\ Session!ByteSize(v) <= tensors[v].size
  <2>1. graph.values[v].bytes \in Nat \ {0}
    BY <1>2, <1>3, MaxU64Assumption DEF IsExecutable
  <2>2. Alignment \in Nat \ {0}
    BY AlignmentAssumption, MaxU64Assumption
  <2>3. QED
    BY <1>5, <1>7, <2>1, <2>2, Planning!AlignUpBounds, MaxU64Assumption DEF Session!ByteSize
<1>10. offset[v] + tensors[v].size <= arena_end
  BY <1>1, <1>8 DEF Planning!IInv, Planning!BoundsInv, Planning!PlacedInArena
<1>11. tensors[v].final_use_index \in Nat /\ n - 1 <= tensors[v].final_use_index
  BY <1>1, <1>5, <1>6, <1>7
     DEF Planning!IInv, Planning!LifetimesInv, Planning!TensorLifetimes
<1>12. v \in graph.outputs => Len(order) <= tensors[v].final_use_index
  <2> SUFFICES ASSUME v \in graph.outputs
               PROVE  Len(order) <= tensors[v].final_use_index
    OBVIOUS
  <2>1. Planning!DeclaredOutput(value)
    <3>1. value.declared
      BY <1>5
    <3>2. QED
      BY <3>1, Zenon DEF Planning!DeclaredOutput
  <2>2. QED
    BY <1>2, <1>7, <2>1 DEF Planning!FinalUse
<1>13. ASSUME NEW k \in Uses(v)
       PROVE  k - 1 <= tensors[v].final_use_index
  <2>1. k \in 1 .. Len(order) /\ k - 1 \in value.uses /\ value.uses # {}
    BY <1>5 DEF Uses
  <2>2. CASE Planning!DeclaredOutput(value)
    BY <1>2, <1>7, <2>1, <2>2 DEF Planning!FinalUse
  <2>3. CASE ~Planning!DeclaredOutput(value)
    <3>1. value.uses \in SUBSET (0 .. Len(order))
      BY <1>2, <1>5 DEF Uses
    <3>2. \A x \in value.uses : x <= Planning!Maximum(value.uses)
      BY <1>2, <2>1, <3>1, Planning!MaximumIsGreatest, MaxU64Assumption
    <3>3. QED
      BY <1>7, <2>1, <2>3, <3>2 DEF Planning!FinalUse
  <2>4. QED
    BY <2>2, <2>3
<1>14. QED
  BY <1>5, <1>7, <1>8, <1>9, <1>10, <1>11, <1>12, <1>13

\* The results of two kernels share no byte while the first is needed.
LEMMA NeededIsApart ==
  ASSUME ScheduleInv, PlanInv, plan_phase = "planned",
         NEW m \in 1 .. Len(order), NEW n \in 1 .. Len(order), m < n,
         TypeAt(m) = "compute", TypeAt(n) = "compute",
         Result(m) \in graph.outputs \/ \E k \in Uses(Result(m)) : n <= k
  PROVE  \/ offset[Result(m)] + Session!ByteSize(Result(m)) <= offset[Result(n)]
         \/ offset[Result(n)] + Session!ByteSize(Result(n)) <= offset[Result(m)]
<1> DEFINE v == Result(m)
           w == Result(n)
<1>1. /\ schedule_phase = "scheduled" /\ Planning!IInv
      /\ Len(order) \in Nat /\ order[m] \in Operations(graph) /\ order[n] \in Operations(graph)
      /\ order[m] # order[n] /\ IsLoaded(graph)
  BY OrderFacts DEF PlanInv, ScheduleInv
<1>2. v # w
  BY <1>1, ResultFacts DEF Result
<1>3. /\ v \in DOMAIN offset /\ offset[v] \in Nat /\ tensors[v].size \in Nat
      /\ Session!ByteSize(v) \in Nat /\ Session!ByteSize(v) <= tensors[v].size
      /\ tensors[v].definition_index = m - 1 /\ tensors[v].final_use_index \in Nat
      /\ n - 1 <= tensors[v].final_use_index
  <2>1. n - 1 <= tensors[v].final_use_index
    <3>1. CASE v \in graph.outputs
      BY <1>1, <3>1, TensorFacts
    <3>2. CASE \E k \in Uses(v) : n <= k
      <4>1. PICK k \in Uses(v) : n <= k
        BY <3>2
      <4>2. k \in 1 .. Len(order) /\ k - 1 <= tensors[v].final_use_index
        BY <4>1, TensorFacts DEF Uses
      <4>3. tensors[v].final_use_index \in Nat
        BY TensorFacts
      <4>4. QED
        BY <1>1, <4>1, <4>2, <4>3
    <3>3. QED
      BY <3>1, <3>2
  <2>2. QED
    BY <2>1, TensorFacts
<1>4. /\ w \in DOMAIN offset /\ offset[w] \in Nat /\ tensors[w].size \in Nat
      /\ Session!ByteSize(w) \in Nat /\ Session!ByteSize(w) <= tensors[w].size
      /\ tensors[w].definition_index = n - 1 /\ tensors[w].final_use_index \in Nat
      /\ n - 1 <= tensors[w].final_use_index
  BY TensorFacts
<1> HIDE DEF v, w
<1>5. Planning!LifetimesOverlap(v, w)
  BY <1>3, <1>4 DEF Planning!LifetimesOverlap
<1>6. ~Planning!RangesOverlap(v, w)
  BY <1>1, <1>2, <1>3, <1>4, <1>5 DEF Planning!IInv, Planning!NoLiveOverlap
<1>7. ~ /\ offset[v] < offset[w] + tensors[w].size
        /\ offset[w] < offset[v] + tensors[v].size
  BY <1>6, Zenon DEF Planning!RangesOverlap
<1>8. ASSUME NEW a \in Nat, NEW b \in Nat, NEW s \in Nat, NEW t \in Nat,
             NEW x \in Nat, NEW y \in Nat,
             x <= s, y <= t, ~(a < b + t /\ b < a + s)
      PROVE  a + x <= b \/ b + y <= a
  BY <1>8
<1>9. \/ offset[v] + Session!ByteSize(v) <= offset[w]
      \/ offset[w] + Session!ByteSize(w) <= offset[v]
  BY <1>3, <1>4, <1>7, <1>8, Zenon
<1>10. QED
  BY <1>9 DEF v, w

(***************************************************************************)
(* What the graph means.                                                   *)
(***************************************************************************)

\* The contents operation i gives its value, if its operands have those in m.
MeaningOf(m, i) ==
  LET inputs == graph.ops[i].inputs
  IN  Term(i, [ k \in DOMAIN inputs |-> m[inputs[k]] ],
           IF graph.ops[i].type = "input" THEN call.tag ELSE 0)

\* m has the meaning of the first n results of the schedule.
MeansUpTo(n, m) ==
  /\ DOMAIN m = DOMAIN graph.values
  /\ \A k \in 1 .. n : m[Result(k)] = MeaningOf(m, order[k])

\* The operands of an operation are results of positions before its own.
LEMMA OperandFacts ==
  ASSUME ScheduleInv, schedule_phase = "scheduled", NEW n \in 1 .. Len(order),
         NEW v \in Reads(graph, order[n])
  PROVE  \E m \in 1 .. n - 1 : v = Result(m)
<1>1. IsLoaded(graph) /\ order[n] \in Operations(graph)
  BY OrderFacts DEF ScheduleInv
<1>2. v \in DOMAIN graph.values
  BY <1>1, ResultFacts
<1>3. PICK i \in Operations(graph) : v = Session!Result(i)
  BY <1>1, <1>2, ResultFacts
<1>4. v \in Writes(graph, i)
  BY <1>1, <1>3, ResultFacts
<1>5. \E m \in 1 .. n - 1 : order[m] = i
  BY <1>4, OrderFacts
<1>6. QED
  BY <1>3, <1>5 DEF Result

\* Results of different positions are different values.
LEMMA ResultsDiffer ==
  ASSUME ScheduleInv, schedule_phase = "scheduled",
         NEW m \in 1 .. Len(order), NEW n \in 1 .. Len(order), Result(m) = Result(n)
  PROVE  m = n
<1>1. IsLoaded(graph) /\ order[m] \in Operations(graph) /\ order[n] \in Operations(graph)
  BY OrderFacts DEF ScheduleInv
<1>2. order[m] = order[n]
  BY <1>1, ResultFacts DEF Result
<1>3. QED
  BY <1>2, OrderFacts

\* The recursion of the contract has a solution: it follows the schedule.
LEMMA MeaningExists ==
  ASSUME ScheduleInv, schedule_phase = "scheduled"
  PROVE  \E m : MeansUpTo(Len(order), m)
<1> DEFINE Exists(n) == \E m : MeansUpTo(n, m)
           Missing == { n \in 0 .. Len(order) : ~Exists(n) }
<1>1. Len(order) \in Nat
  BY OrderFacts
<1>2. Exists(0)
  <2>1. MeansUpTo(0, [ v \in DOMAIN graph.values |-> 0 ])
    BY DEF MeansUpTo
  <2>2. QED
    BY <2>1
<1>3. ASSUME NEW n \in 1 .. Len(order), Exists(n - 1)
      PROVE  Exists(n)
  <2>1. PICK m : MeansUpTo(n - 1, m)
    BY <1>3
  <2> DEFINE q == [ m EXCEPT ![Result(n)] = MeaningOf(m, order[n]) ]
  <2>2. Result(n) \in DOMAIN graph.values
    BY OrderFacts, ResultFacts DEF Result, ScheduleInv
  <2>3. /\ DOMAIN q = DOMAIN graph.values /\ q[Result(n)] = MeaningOf(m, order[n])
        /\ \A k \in 1 .. n - 1 : q[Result(k)] = m[Result(k)]
    <3>1. DOMAIN m = DOMAIN graph.values
      BY <2>1 DEF MeansUpTo
    <3>2. \A k \in 1 .. n - 1 : Result(k) # Result(n) /\ Result(k) \in DOMAIN graph.values
      <4> TAKE k \in 1 .. n - 1
      <4>1. k \in 1 .. Len(order) /\ k # n
        BY <1>1
      <4>2. Result(k) # Result(n)
        BY <4>1, ResultsDiffer
      <4>3. QED
        BY <4>1, <4>2, OrderFacts, ResultFacts DEF Result, ScheduleInv
    <3>3. QED
      BY <2>2, <3>1, <3>2
  <2> HIDE DEF q
  <2>4. \A k \in 1 .. n : MeaningOf(q, order[k]) = MeaningOf(m, order[k])
    <3> TAKE k \in 1 .. n
    <3> DEFINE inputs == graph.ops[order[k]].inputs
    <3>1. k \in 1 .. Len(order)
      BY <1>1
    <3>2. ASSUME NEW j \in DOMAIN inputs
          PROVE  q[inputs[j]] = m[inputs[j]]
      <4>1. inputs[j] \in Reads(graph, order[k])
        BY DEF Reads, Elements
      <4>2. PICK l \in 1 .. k - 1 : inputs[j] = Result(l)
        BY <3>1, <4>1, OperandFacts
      <4>3. l \in 1 .. n - 1
        BY <1>1, <3>1
      <4>4. QED
        BY <2>3, <4>2, <4>3
    <3>3. [ j \in DOMAIN inputs |-> q[inputs[j]] ] = [ j \in DOMAIN inputs |-> m[inputs[j]] ]
      BY <3>2
    <3>4. QED
      BY <3>3 DEF MeaningOf
  <2>5. \A k \in 1 .. n : q[Result(k)] = MeaningOf(m, order[k])
    <3> TAKE k \in 1 .. n
    <3>1. CASE k = n
      BY <2>3, <3>1
    <3>2. CASE k # n
      <4>1. k \in 1 .. n - 1
        BY <1>1, <3>2
      <4>2. QED
        BY <2>1, <2>3, <4>1 DEF MeansUpTo
    <3>3. QED
      BY <3>1, <3>2
  <2>6. MeansUpTo(n, q)
    BY <2>3, <2>4, <2>5 DEF MeansUpTo
  <2>7. QED
    BY <2>6
<1>4. Missing = {}
  <2> SUFFICES ASSUME Missing # {}
               PROVE  FALSE
    OBVIOUS
  <2>1. Missing \in SUBSET Nat
    OBVIOUS
  <2> HIDE DEF Missing
  <2>2. PICK n \in Missing : \A k \in Missing : n <= k
    BY <2>1, LeastElement
  <2>3. n \in 0 .. Len(order) /\ ~Exists(n)
    BY <2>2 DEF Missing
  <2> HIDE DEF Exists
  <2>4. n \in 1 .. Len(order) /\ n - 1 \in 0 .. Len(order) /\ ~(n <= n - 1)
    BY <1>1, <1>2, <2>3
  <2>5. Exists(n - 1)
    BY <2>2, <2>4 DEF Missing
  <2>6. QED
    BY <1>3, <2>3, <2>4, <2>5
<1>5. QED
  BY <1>1, <1>4

\* The meaning of a result is that of its operation.
LEMMA MeaningFacts ==
  ASSUME ScheduleInv, schedule_phase = "scheduled"
  PROVE  /\ DOMAIN Meant = DOMAIN graph.values
         /\ \A n \in 1 .. Len(order) : Meant[Result(n)] = MeaningOf(Meant, order[n])
<1> DEFINE Step(m, v) == LET i == Contract!Producer(v)
                             inputs == graph.ops[i].inputs
                         IN  Contract!Term(i, [ k \in DOMAIN inputs |-> m[inputs[k]] ],
                                           IF graph.ops[i].type = "input" THEN call.tag ELSE 0)
           P(m) == m = [ v \in DOMAIN graph.values |-> Step(m, v) ]
<1>1. Meant = CHOOSE m : P(m)
  BY DEF Meant, Contract!Meaning
<1>2. IsLoaded(graph)
  BY DEF ScheduleInv
<1>3. \A i : Contract!Writes(graph, i) = Writes(graph, i)
  BY DEF Contract!Writes, Contract!Elements, Writes, Elements
<1>4. ASSUME NEW n \in 1 .. Len(order)
      PROVE  Contract!Producer(Result(n)) = order[n] /\ Result(n) \in DOMAIN graph.values
  <2>1. order[n] \in Operations(graph)
    BY OrderFacts
  <2>2. \A i \in Operations(graph) : Result(n) \in Writes(graph, i) <=> i = order[n]
    BY <1>2, <2>1, ResultFacts DEF Result
  <2>3. Contract!Producer(Result(n)) = order[n]
    BY <1>3, <2>1, <2>2 DEF Contract!Producer, Contract!Operations, Operations
  <2>4. QED
    BY <1>2, <2>1, <2>3, ResultFacts DEF Result
<1>5. \A v \in DOMAIN graph.values : \E n \in 1 .. Len(order) : v = Result(n)
  BY <1>2, ResultFacts, OrderFacts DEF Result
<1>6. \A m : \A n \in 1 .. Len(order) : Step(m, Result(n)) = MeaningOf(m, order[n])
  BY <1>4 DEF MeaningOf, Contract!Term, Term
<1> HIDE DEF Step
<1>7. PICK m : MeansUpTo(Len(order), m)
  BY MeaningExists
<1>8. P([ v \in DOMAIN graph.values |-> m[v] ])
  <2> DEFINE q == [ v \in DOMAIN graph.values |-> m[v] ]
  <2>1. MeansUpTo(Len(order), q)
    <3>1. \A n \in 1 .. Len(order) : q[Result(n)] = m[Result(n)]
      BY <1>4
    <3>2. \A n \in 1 .. Len(order) : MeaningOf(q, order[n]) = MeaningOf(m, order[n])
      <4> TAKE n \in 1 .. Len(order)
      <4> DEFINE inputs == graph.ops[order[n]].inputs
      <4>1. ASSUME NEW j \in DOMAIN inputs
            PROVE  q[inputs[j]] = m[inputs[j]]
        <5>1. inputs[j] \in Reads(graph, order[n])
          BY DEF Reads, Elements
        <5>2. inputs[j] \in DOMAIN graph.values
          BY <1>2, <5>1, OrderFacts, ResultFacts
        <5>3. QED
          BY <5>2
      <4>2. [ j \in DOMAIN inputs |-> q[inputs[j]] ] = [ j \in DOMAIN inputs |-> m[inputs[j]] ]
        BY <4>1
      <4>3. QED
        BY <4>2 DEF MeaningOf
    <3>3. QED
      BY <1>7, <3>1, <3>2 DEF MeansUpTo
  <2> HIDE DEF q
  <2>2. q = [ v \in DOMAIN graph.values |-> q[v] ]
    BY DEF q
  <2>3. \A v \in DOMAIN graph.values : q[v] = Step(q, v)
    BY <1>5, <1>6, <2>1 DEF MeansUpTo
  <2>4. [ v \in DOMAIN graph.values |-> q[v] ] = [ v \in DOMAIN graph.values |-> Step(q, v) ]
    BY <2>3
  <2>5. P(q)
    BY <2>2, <2>4
  <2>6. QED
    BY <2>5 DEF q
<1>9. P(Meant)
  BY <1>1, <1>8
<1>10. DOMAIN Meant = DOMAIN graph.values
  BY <1>9
<1>11. \A v \in DOMAIN graph.values : Meant[v] = Step(Meant, v)
  BY <1>9
<1>12. QED
  BY <1>4, <1>6, <1>10, <1>11

\* A source depends on nothing.
LEMMA SourceMeaning ==
  ASSUME NEW i \in Operations(graph), IsExecutable(graph), graph.ops[i].type # "compute", NEW m
  PROVE  MeaningOf(m, i) = Session!Term(i, << >>, IF graph.ops[i].type = "input"
                                                  THEN call.tag ELSE 0)
<1> DEFINE inputs == graph.ops[i].inputs
<1>1. inputs = << >>
  BY DEF IsExecutable
<1>2. [ k \in DOMAIN inputs |-> m[inputs[k]] ] = << >>
  BY <1>1
<1>3. QED
  BY <1>2 DEF MeaningOf, Term, Session!Term

(***************************************************************************)
(* The session.                                                            *)
(***************************************************************************)

\* A session that is not open has executed nothing.
LEMMA ClosedStays ==
  ASSUME StatusInv, SessionInv, ~IsOpen, status' \in {"unloaded", "refused"},
         UNCHANGED << call, cursor, computing, values, memory, trace, captured, executed, calls >>
  PROVE  StatusInv' /\ SessionInv'
<1>1. cursor = 0 /\ cursor' = 0 /\ ~IsOpen'
  BY DEF SessionInv, CursorInv, IsOpen
<1>2. Past = {} /\ Past' = {}
  BY <1>1 DEF Past
<1>3. StatusInv'
  BY <1>1 DEF StatusInv, IsOpen
<1>4. CursorInv'
  BY <1>1, <1>2 DEF SessionInv, CursorInv, IsOpen
<1>5. CallInv'
  BY <1>1, <1>2 DEF SessionInv, CallInv
<1>6. LocationInv' /\ MemoryInv'
  BY <1>1, <1>2 DEF LocationInv, MemoryInv, IsOpen
<1>7. CapturedInv'
  <2>1. DOMAIN values = {} /\ DOMAIN captured = {}
    BY <1>2 DEF SessionInv, CursorInv, CapturedInv
  <2>2. QED
    BY <2>1 DEF CapturedInv
<1>8. QED
  BY <1>3, <1>4, <1>5, <1>6, <1>7 DEF SessionInv

LEMMA OpenSessionKeeps ==
  ASSUME ScheduleInv, PlanInv, StatusInv, SessionInv, OpenSession
  PROVE  StatusInv' /\ SessionInv'
<1>1. /\ status = "unloaded" /\ status' = "ready" /\ plan_phase' = "planned"
      /\ UNCHANGED << order, arena_end >> /\ Len(order) \in Nat
      /\ memory' = [ c \in Session!Extent(0, arena_end) |-> << Session!Garbled, c >> ]
      /\ UNCHANGED << call, cursor, computing, values, trace, captured, executed, calls >>
  BY OrderFacts DEF OpenSession, Session!Load, schedule_vars, plan_vars, PlanInv
<1>2. cursor = 0 /\ cursor' = 0 /\ ~computing /\ ~executed
  BY <1>1 DEF SessionInv, CursorInv, IsOpen
<1>3. Past = {} /\ Past' = {}
  BY <1>2 DEF Past
<1>4. StatusInv'
  BY <1>1 DEF StatusInv, IsOpen, Session!Extent
<1>5. CursorInv'
  BY <1>1, <1>2, <1>3 DEF SessionInv, CursorInv, IsOpen
<1>6. CallInv'
  BY <1>1, <1>2, <1>3 DEF SessionInv, CallInv
<1>7. LocationInv' /\ MemoryInv'
  BY <1>1, <1>3 DEF LocationInv, MemoryInv
<1>8. CapturedInv'
  <2>1. DOMAIN values = {} /\ DOMAIN captured = {}
    BY <1>3 DEF SessionInv, CursorInv, CapturedInv
  <2>2. QED
    BY <1>1, <2>1 DEF CapturedInv
<1>9. QED
  BY <1>4, <1>5, <1>6, <1>7, <1>8 DEF SessionInv

\* What an execution starts from.
LEMMA StartCallKeeps ==
  ASSUME PlanInv, ScheduleInv, StatusInv, SessionInv, StartCall
  PROVE  StatusInv' /\ SessionInv'
<1>1. PICK c \in Calls : Session!Execute(c)
  BY DEF StartCall
<1>2. /\ status = "ready" /\ UNCHANGED << graph, order, offset, arena_end, memory, plan_phase >>
      /\ calls' = calls + 1 /\ call' = [ c EXCEPT !.tag = calls + 1 ]
      /\ trace' = << >> /\ captured' = Session!Empty /\ values' = Session!Empty
      /\ executed' = FALSE /\ computing' = FALSE
      /\ \/ Session!BadCall(c) /\ status' = "ready" /\ cursor' = 0
         \/ ~Session!BadCall(c) /\ status' = "running" /\ cursor' = 1
  BY <1>1 DEF StartCall, Session!Execute, Session!plan, Session!TraceAtStart, Session!Cleared,
              Others, plan_vars
<1>3. /\ DOMAIN c = {"tag", "inputs", "parameters", "captures"}
      /\ DOMAIN call' = {"tag", "inputs", "parameters", "captures"}
      /\ call'.tag = calls' /\ call'.inputs = c.inputs /\ call'.captures = c.captures
  BY <1>2, CallsAssumption
<1>4. plan_phase = "planned" /\ schedule_phase = "scheduled" /\ Len(order) \in Nat
  BY <1>2, OrderFacts DEF StatusInv, IsOpen, PlanInv
<1>5. Past' = {}
  BY <1>2 DEF Past
<1>6. DOMAIN values' = {} /\ DOMAIN captured' = {}
  BY <1>2 DEF Session!Empty
<1>7. StatusInv'
  BY <1>2 DEF StatusInv, IsOpen, Session!Extent
<1>8. CursorInv'
  <2>1. trace' = [ n \in Past' |-> order'[n] ]
    BY <1>2, <1>5
  <2>2. DOMAIN values' = { Result(n)' : n \in Past' }
    BY <1>5, <1>6
  <2>3. Len(order') \in Nat /\ IsOpen'
    BY <1>2, <1>4 DEF IsOpen
  <2>4. /\ cursor' \in Nat /\ cursor' <= Len(order') + 1
        /\ status' = "running" => cursor' # 0
    BY <1>2, <2>3
  <2>5. computing' = FALSE /\ executed' = FALSE
    BY <1>2
  <2>6. QED
    BY <2>1, <2>2, <2>3, <2>4, <2>5 DEF CursorInv
<1>9. CallInv'
  <2>1. calls' \in Nat
    BY <1>2 DEF SessionInv, CallInv
  <2>2. cursor' # 0 => ~Session!BadCall(call)'
    BY <1>2, <1>3 DEF Session!BadCall
  <2>3. QED
    BY <1>3, <1>5, <2>1, <2>2 DEF CallInv
<1>10. LocationInv' /\ MemoryInv' /\ CapturedInv'
  BY <1>5, <1>6 DEF LocationInv, MemoryInv, CapturedInv
<1>11. QED
  BY <1>7, <1>8, <1>9, <1>10 DEF SessionInv

\* What the session means by its graph and its call does not change while both
\* stay.
LEMMA MeaningStays ==
  ASSUME UNCHANGED << graph, order, call >>
  PROVE  /\ Meant' = Meant
         /\ \A n : Result(n)' = Result(n) /\ TypeAt(n)' = TypeAt(n)
         /\ \A i : Given(i)' = Given(i)
         /\ Session!Captures' = Session!Captures
         /\ Session!BadCall(call)' = Session!BadCall(call)
         /\ \A v : Session!ByteSize(v)' = Session!ByteSize(v)
<1>1. Meant' = Meant
  BY DEF Meant, Contract!Meaning, Contract!Producer, Contract!Operations, Contract!Writes,
         Contract!Elements, Contract!Term
<1>2. /\ \A n : Result(n)' = Result(n) /\ TypeAt(n)' = TypeAt(n)
      /\ \A i : Given(i)' = Given(i)
      /\ Session!Captures' = Session!Captures
      /\ Session!BadCall(call)' = Session!BadCall(call)
      /\ \A v : Session!ByteSize(v)' = Session!ByteSize(v)
  BY DEF Result, Session!Result, TypeAt, Given, Session!Captures, Session!BadCall,
         Session!ByteSize
<1>3. QED
  BY <1>1, <1>2

\* A call that gives up leaves what it has done.
LEMMA FailKeeps ==
  ASSUME StatusInv, SessionInv, status = "running", Session!Fail, UNCHANGED Others
  PROVE  StatusInv' /\ SessionInv'
<1>1. /\ status' = "ready" /\ computing' = FALSE
      /\ UNCHANGED << graph, order, offset, arena_end, call, cursor, values, memory, trace,
                      captured, executed, calls, plan_phase >>
  BY DEF Session!Fail, Session!plan, Others, plan_vars
<1>2. Past' = Past
  BY <1>1 DEF Past
<1>3. StatusInv'
  BY <1>1 DEF StatusInv, IsOpen, Session!Extent
<1>4. CursorInv'
  <2>1. { Result(n)' : n \in Past' } = { Result(n) : n \in Past }
    BY <1>1, <1>2, MeaningStays
  <2>2. ~executed
    BY DEF SessionInv, CursorInv
  <2>3. QED
    BY <1>1, <1>2, <2>1, <2>2 DEF SessionInv, CursorInv, IsOpen
<1>5. CallInv'
  BY <1>1, <1>2, MeaningStays DEF SessionInv, CallInv
<1>6. LocationInv'
  BY <1>1, <1>2, MeaningStays
     DEF SessionInv, LocationInv, Session!InArena, Session!External, Session!Garbled, Session!Term
<1>7. CapturedInv'
  BY <1>1, <1>2, MeaningStays DEF SessionInv, CapturedInv
<1>8. MemoryInv'
  BY <1>1 DEF MemoryInv
<1>9. QED
  BY <1>3, <1>4, <1>5, <1>6, <1>7, <1>8 DEF SessionInv

LEMMA FinishKeeps ==
  ASSUME StatusInv, SessionInv, PlanInv, ScheduleInv, Session!FinishExecute, UNCHANGED Others
  PROVE  StatusInv' /\ SessionInv'
<1>1. /\ status = "running" /\ status' = "ready" /\ executed' = TRUE /\ cursor > Len(order)
      /\ UNCHANGED << graph, order, offset, arena_end, call, cursor, computing, values, memory,
                      trace, captured, calls, plan_phase >>
  BY DEF Session!FinishExecute, Session!Exhausted, Session!plan, Others, plan_vars
<1>2. cursor = Len(order) + 1 /\ ~computing
  <2>1. Len(order) \in Nat
    BY <1>1, OrderFacts DEF StatusInv, IsOpen, PlanInv
  <2>2. cursor \in Nat /\ cursor <= Len(order) + 1 /\ (computing => cursor <= Len(order))
    BY <1>1 DEF SessionInv, CursorInv, IsOpen
  <2>3. QED
    BY <1>1, <2>1, <2>2
<1>3. Past' = Past
  BY <1>1 DEF Past
<1>4. StatusInv'
  BY <1>1 DEF StatusInv, IsOpen, Session!Extent
<1>5. CursorInv'
  <2>1. { Result(n)' : n \in Past' } = { Result(n) : n \in Past }
    BY <1>1, <1>3, MeaningStays
  <2>2. QED
    BY <1>1, <1>2, <1>3, <2>1 DEF SessionInv, CursorInv, IsOpen
<1>6. CallInv'
  BY <1>1, <1>3, MeaningStays DEF SessionInv, CallInv
<1>7. LocationInv'
  BY <1>1, <1>3, MeaningStays
     DEF SessionInv, LocationInv, Session!InArena, Session!External, Session!Garbled, Session!Term
<1>8. CapturedInv'
  BY <1>1, <1>3, MeaningStays DEF SessionInv, CapturedInv
<1>9. MemoryInv'
  BY <1>1 DEF MemoryInv
<1>10. QED
  BY <1>4, <1>5, <1>6, <1>7, <1>8, <1>9 DEF SessionInv

\* A running call stands at a position of the schedule, or at its end.
LEMMA RunFacts ==
  ASSUME ScheduleInv, PlanInv, StatusInv, SessionInv, status = "running"
  PROVE  /\ plan_phase = "planned" /\ schedule_phase = "scheduled"
         /\ Len(order) \in Nat /\ DOMAIN order = 1 .. Len(order)
         /\ cursor \in 1 .. Len(order) + 1 /\ Past \subseteq 1 .. Len(order)
         /\ DOMAIN memory = Session!Extent(0, arena_end)
         /\ executed = FALSE
<1>1. /\ plan_phase = "planned" /\ DOMAIN memory = Session!Extent(0, arena_end)
      /\ cursor \in Nat /\ cursor <= Len(order) + 1 /\ cursor # 0 /\ executed = FALSE
  BY DEF StatusInv, IsOpen, SessionInv, CursorInv
<1>2. schedule_phase = "scheduled"
  BY <1>1 DEF PlanInv
<1>3. Len(order) \in Nat /\ DOMAIN order = 1 .. Len(order)
  BY <1>2, OrderFacts
<1>4. cursor \in 1 .. Len(order) + 1 /\ Past \subseteq 1 .. Len(order)
  BY <1>1, <1>3 DEF Past
<1>5. QED
  BY <1>1, <1>2, <1>3, <1>4

\* A result that is written is read back, and nothing else changes.
LEMMA StoredFacts ==
  ASSUME NEW mem, NEW at \in Nat, NEW size \in Nat \ {0}, NEW term,
         Session!Extent(at, size) \subseteq DOMAIN mem
  PROVE  LET new == Session!Stored(mem, at, size, term)
         IN  /\ DOMAIN new = DOMAIN mem
             /\ Session!ReadBack(new, at, size) = term
             /\ \A c \in Session!Extent(at, size) : new[c] = << term, c - at >>
             /\ \A c \in DOMAIN mem \ Session!Extent(at, size) : new[c] = mem[c]
<1> DEFINE new == Session!Stored(mem, at, size, term)
<1>1. /\ DOMAIN new = DOMAIN mem
      /\ \A c \in Session!Extent(at, size) : new[c] = << term, c - at >>
      /\ \A c \in DOMAIN mem \ Session!Extent(at, size) : new[c] = mem[c]
  BY DEF Session!Stored
<1>2. at \in Session!Extent(at, size)
  BY DEF Session!Extent
<1> HIDE DEF new
<1>3. new[at][1] = term
  BY <1>1, <1>2
<1>4. Session!ReadBack(new, at, size) = term
  BY <1>1, <1>3 DEF Session!ReadBack
<1>5. QED
  BY <1>1, <1>4 DEF new

\* Ranges of bytes that end before something.
LEMMA ExtentFacts ==
  ASSUME NEW a \in Nat, NEW s \in Nat, NEW b \in Nat, NEW t \in Nat, a + s <= b
  PROVE  /\ Session!Extent(a, s) \subseteq Session!Extent(0, b)
         /\ Session!Extent(a, s) \cap Session!Extent(b, t) = {}
<1>1. \A c \in Session!Extent(a, s) : c \in Int /\ 0 <= c /\ c < b
  BY DEF Session!Extent
<1>2. \A c \in Session!Extent(b, t) : c \in Int /\ b <= c
  BY DEF Session!Extent
<1>3. \A c \in Int : 0 <= c /\ c < b => c \in Session!Extent(0, b)
  BY DEF Session!Extent
<1>4. \A c \in Int : ~(c < b /\ b <= c)
  OBVIOUS
<1>5. QED
  BY <1>1, <1>2, <1>3, <1>4, Zenon

\* Where a kernel writes: within the arena.
LEMMA KernelFacts ==
  ASSUME ScheduleInv, PlanInv, plan_phase = "planned",
         NEW n \in 1 .. Len(order), TypeAt(n) = "compute"
  PROVE  LET v == Result(n)
         IN  /\ v \in DOMAIN offset /\ offset[v] \in Nat
             /\ Session!ByteSize(v) \in Nat \ {0}
             /\ offset[v] + Session!ByteSize(v) <= arena_end
             /\ Session!Extent(offset[v], Session!ByteSize(v)) \subseteq Session!Extent(0, arena_end)
<1> DEFINE v == Result(n)
           t == tensors[v]
<1>1. /\ v \in DOMAIN offset /\ offset[v] \in Nat
      /\ Session!ByteSize(v) \in Nat \ {0} /\ t.size \in Nat
      /\ Session!ByteSize(v) <= t.size /\ offset[v] + t.size <= arena_end
  BY TensorFacts
<1>2. arena_end \in Nat
  BY DEF PlanInv, Planning!IInv, Planning!BoundsInv
<1> HIDE DEF v, t
<1>3. offset[v] + Session!ByteSize(v) <= arena_end
  BY <1>1, <1>2
<1>4. Session!Extent(offset[v], Session!ByteSize(v)) \subseteq Session!Extent(0, arena_end)
  BY <1>1, <1>2, <1>3, ExtentFacts
<1>5. QED
  BY <1>1, <1>3, <1>4 DEF v

\* v is needed at position n of the schedule or after it.
NeededFrom(n, v) ==
  v \in graph.outputs \/ \E k \in n .. Len(order) : v \in Reads(graph, order[k])

\* The kernel at the cursor writes over nothing that is needed.
LEMMA WritesApart ==
  ASSUME ScheduleInv, PlanInv, StatusInv, SessionInv, status = "running",
         cursor \in 1 .. Len(order), TypeAt(cursor) = "compute", NEW term,
         NEW n \in Past, TypeAt(n) = "compute", NeededFrom(cursor, Result(n)), Holds(Result(n))
  PROVE  LET v == Result(n)
             w == Result(cursor)
         IN  \A c \in Session!Extent(offset[v], Session!ByteSize(v)) :
               Session!Stored(memory, offset[w], Session!ByteSize(w), term)[c]
                 = << Meant[v], c - offset[v] >>
<1> DEFINE v == Result(n)
           w == Result(cursor)
           Mine == Session!Extent(offset[v], Session!ByteSize(v))
           Its == Session!Extent(offset[w], Session!ByteSize(w))
<1>1. /\ plan_phase = "planned" /\ Len(order) \in Nat /\ n \in 1 .. Len(order) /\ n < cursor
      /\ DOMAIN memory = Session!Extent(0, arena_end)
  BY RunFacts DEF Past
<1>2. v \in graph.outputs \/ \E k \in Uses(v) : cursor <= k
  BY <1>1 DEF NeededFrom, Uses
<1>3. \/ offset[v] + Session!ByteSize(v) <= offset[w]
      \/ offset[w] + Session!ByteSize(w) <= offset[v]
  BY <1>1, <1>2, NeededIsApart
<1>4. /\ offset[v] \in Nat /\ Session!ByteSize(v) \in Nat \ {0} /\ Mine \subseteq DOMAIN memory
  BY <1>1, KernelFacts
<1>5. /\ offset[w] \in Nat /\ Session!ByteSize(w) \in Nat \ {0} /\ Its \subseteq DOMAIN memory
  BY <1>1, KernelFacts
<1>6. \A c \in Mine : memory[c] = << Meant[v], c - offset[v] >>
  BY DEF Holds
<1> HIDE DEF v, w
<1>7. Mine \cap Its = {}
  <2>1. Session!ByteSize(v) \in Nat /\ Session!ByteSize(w) \in Nat
    BY <1>4, <1>5
  <2>2. CASE offset[v] + Session!ByteSize(v) <= offset[w]
    BY <1>4, <1>5, <2>1, <2>2, ExtentFacts
  <2>3. CASE offset[w] + Session!ByteSize(w) <= offset[v]
    BY <1>4, <1>5, <2>1, <2>3, ExtentFacts
  <2>4. QED
    BY <1>3, <2>2, <2>3
<1> HIDE DEF Mine, Its
<1>8. \A c \in DOMAIN memory \ Its :
        Session!Stored(memory, offset[w], Session!ByteSize(w), term)[c] = memory[c]
  BY <1>5, StoredFacts DEF Its
<1>9. \A c \in Mine :
        Session!Stored(memory, offset[w], Session!ByteSize(w), term)[c]
          = << Meant[v], c - offset[v] >>
  BY <1>4, <1>6, <1>7, <1>8
<1>10. QED
  BY <1>9 DEF v, w, Mine

\* What is needed is read as what the graph means.
LEMMA NeededIsRead ==
  ASSUME ScheduleInv, PlanInv, StatusInv, SessionInv, status = "running",
         NEW v \in StillNeeded
  PROVE  Session!Contents(v, values[v], memory) = Meant[v]
<1>1. PICK n \in Past : v = Result(n)
  BY DEF StillNeeded, SessionInv, CursorInv
<1>2. plan_phase = "planned" /\ n \in 1 .. Len(order)
  BY RunFacts
<1>3. CASE TypeAt(n) = "compute"
  <2>1. values[v] = Session!InArena(offset[v]) /\ Holds(v)
    BY <1>1, <1>3 DEF SessionInv, LocationInv, MemoryInv
  <2>2. offset[v] \in Nat /\ Session!ByteSize(v) \in Nat \ {0}
    BY <1>1, <1>2, <1>3, KernelFacts
  <2>3. offset[v] \in Session!Extent(offset[v], Session!ByteSize(v))
    BY <2>2 DEF Session!Extent
  <2>4. memory[offset[v]][1] = Meant[v]
    BY <2>1, <2>3 DEF Holds
  <2>5. Session!ReadBack(memory, offset[v], Session!ByteSize(v)) = Meant[v]
    BY <2>1, <2>4 DEF Session!ReadBack, Holds
  <2>6. QED
    BY <2>1, <2>5 DEF Session!Contents, Session!InArena
<1>4. CASE TypeAt(n) # "compute"
  <2>1. values[v] = Session!External(Meant[v])
    BY <1>1, <1>4 DEF SessionInv, LocationInv
  <2>2. QED
    BY <2>1 DEF Session!Contents, Session!External
<1>5. QED
  BY <1>3, <1>4

LEMMA PrefixGrows ==
  ASSUME NEW k \in Nat, NEW s, \A n \in 1 .. k + 1 : s[n] \in Nat
  PROVE  Append([ n \in 1 .. k |-> s[n] ], s[k + 1]) = [ n \in 1 .. k + 1 |-> s[n] ]
<1> DEFINE p == [ n \in 1 .. k |-> s[n] ]
           q == Append(p, s[k + 1])
<1>1. p \in [ 1 .. k -> Nat ] /\ DOMAIN p = 1 .. k /\ \A n \in 1 .. k : p[n] = s[n]
  OBVIOUS
<1> HIDE DEF p
<1>2. p \in Seq(Nat) /\ Len(p) = k /\ s[k + 1] \in Nat
  BY <1>1, LenProperties
<1>3. /\ q \in Seq(Nat) /\ Len(q) = k + 1
      /\ \A n \in 1 .. k : q[n] = p[n]
      /\ q[k + 1] = s[k + 1]
  BY <1>2, AppendProperties
<1> HIDE DEF q
<1>4. q = [ n \in 1 .. k + 1 |-> q[n] ]
  BY <1>3, LenProperties
<1>5. \A n \in 1 .. k + 1 : q[n] = s[n]
  <2> TAKE n \in 1 .. k + 1
  <2>1. n \in 1 .. k \/ n = k + 1
    OBVIOUS
  <2>2. QED
    BY <1>1, <1>3, <2>1
<1>6. q = [ n \in 1 .. k + 1 |-> s[n] ]
  BY <1>4, <1>5
<1>7. QED
  BY <1>6 DEF q, p

\* An iteration that gives the value what the graph means, where it belongs.
LEMMA DefineKeeps ==
  ASSUME ScheduleInv, PlanInv, StatusInv, SessionInv, status = "running",
         cursor \in 1 .. Len(order), NEW location, NEW mem,
         Session!Define(location, mem), UNCHANGED Others, Given(order[cursor]),
         TypeAt(cursor) = "compute" =>
           /\ location = Session!InArena(offset[Result(cursor)])
           /\ mem = Session!Stored(memory, offset[Result(cursor)],
                                   Session!ByteSize(Result(cursor)), Meant[Result(cursor)]),
         TypeAt(cursor) # "compute" =>
           /\ location = Session!External(Meant[Result(cursor)])
           /\ mem = memory
  PROVE  StatusInv' /\ SessionInv'
<1> DEFINE w == Result(cursor)
<1>1. /\ values' = Session!With(values, w, location) /\ memory' = mem
      /\ trace' = Append(trace, order[cursor])
      /\ captured' = IF w \in Session!Captures
                       THEN Session!With(captured, w, Session!Contents(w, location, mem))
                       ELSE captured
      /\ cursor' = cursor + 1 /\ computing' = FALSE
      /\ UNCHANGED << graph, order, offset, arena_end, status, call, executed, calls, plan_phase >>
  BY DEF Session!Define, Session!Current, Session!plan, Result, Others, plan_vars
<1>2. /\ plan_phase = "planned" /\ schedule_phase = "scheduled" /\ Len(order) \in Nat
      /\ Past \subseteq 1 .. Len(order) /\ DOMAIN memory = Session!Extent(0, arena_end)
      /\ executed = FALSE /\ DOMAIN order = 1 .. Len(order)
  BY RunFacts
<1>3. Past' = Past \cup {cursor} /\ cursor \notin Past /\ Past' \subseteq 1 .. Len(order)
  BY <1>1, <1>2 DEF Past
<1>4. /\ Meant' = Meant
      /\ \A n : Result(n)' = Result(n) /\ TypeAt(n)' = TypeAt(n)
      /\ \A i : Given(i)' = Given(i)
      /\ Session!Captures' = Session!Captures
      /\ Session!BadCall(call)' = Session!BadCall(call)
      /\ \A v : Session!ByteSize(v)' = Session!ByteSize(v)
  BY <1>1, MeaningStays
<1>5. \A n \in Past : Result(n) # w
  BY <1>2, <1>3, ResultsDiffer
<1>6. /\ DOMAIN mem = DOMAIN memory
      /\ Session!Contents(w, location, mem) = Meant[w]
      /\ TypeAt(cursor) = "compute" =>
           \A c \in Session!Extent(offset[w], Session!ByteSize(w)) :
             mem[c] = << Meant[w], c - offset[w] >>
  <2>1. CASE TypeAt(cursor) = "compute"
    <3>1. /\ offset[w] \in Nat /\ Session!ByteSize(w) \in Nat \ {0}
          /\ Session!Extent(offset[w], Session!ByteSize(w)) \subseteq DOMAIN memory
      BY <1>2, <2>1, KernelFacts
    <3>2. /\ DOMAIN mem = DOMAIN memory
          /\ Session!ReadBack(mem, offset[w], Session!ByteSize(w)) = Meant[w]
          /\ \A c \in Session!Extent(offset[w], Session!ByteSize(w)) :
               mem[c] = << Meant[w], c - offset[w] >>
      BY <2>1, <3>1, StoredFacts
    <3>3. Session!Contents(w, location, mem) = Meant[w]
      BY <2>1, <3>2 DEF Session!Contents, Session!InArena
    <3>4. QED
      BY <3>2, <3>3
  <2>2. CASE TypeAt(cursor) # "compute"
    BY <2>2 DEF Session!Contents, Session!External
  <2>3. QED
    BY <2>1, <2>2
<1>7. /\ DOMAIN values' = DOMAIN values \cup {w} /\ values'[w] = location
      /\ \A v \in DOMAIN values : v # w => values'[v] = values[v]
  BY <1>1 DEF Session!With
<1>8. StatusInv'
  BY <1>1, <1>2, <1>6 DEF StatusInv, IsOpen, Session!Extent
<1>9. CursorInv'
  <2>1. trace' = [ n \in Past' |-> order'[n] ]
    <3>1. cursor - 1 \in Nat /\ (cursor - 1) + 1 = cursor /\ cursor' - 1 = cursor
      BY <1>1, <1>2
    <3>2. \A n \in 1 .. cursor : order[n] \in Nat
      <4>1. \A n \in 1 .. cursor : n \in 1 .. Len(order)
        BY <1>2
      <4>2. \A n \in 1 .. Len(order) : order[n] \in 1 .. Len(order)
        BY <1>2, OrderFacts
      <4>3. QED
        BY <4>1, <4>2
    <3>3. trace = [ n \in 1 .. cursor - 1 |-> order[n] ]
      BY DEF SessionInv, CursorInv, Past
    <3>4. Append(trace, order[cursor]) = [ n \in 1 .. cursor |-> order[n] ]
      BY <3>1, <3>2, <3>3, PrefixGrows
    <3>5. QED
      BY <1>1, <3>1, <3>4 DEF Past
  <2>2. DOMAIN values' = { Result(n)' : n \in Past' }
    BY <1>3, <1>4, <1>7 DEF SessionInv, CursorInv
  <2>3. cursor' \in Nat /\ cursor' <= Len(order') + 1 /\ cursor' # 0
    BY <1>1, <1>2
  <2>4. status' = "running" /\ computing' = FALSE /\ executed' = FALSE /\ IsOpen'
    BY <1>1, <1>2 DEF IsOpen
  <2>5. QED
    BY <2>1, <2>2, <2>3, <2>4 DEF CursorInv
<1>10. CallInv'
  <2>1. \A n \in Past' : Given(order[n])'
    BY <1>1, <1>3, <1>4 DEF SessionInv, CallInv
  <2>2. ~Session!BadCall(call)'
    BY <1>2, <1>4 DEF SessionInv, CallInv
  <2>3. QED
    BY <1>1, <2>1, <2>2 DEF SessionInv, CallInv
<1>11. LocationInv'
  <2>1. ASSUME NEW n \in Past'
        PROVE  values'[Result(n)] = IF TypeAt(n) = "compute"
                                      THEN Session!InArena(offset[Result(n)])
                                      ELSE Session!External(Meant[Result(n)])
    <3>1. CASE n = cursor
      BY <1>7, <3>1
    <3>2. CASE n \in Past
      BY <1>5, <1>7, <3>2 DEF SessionInv, CursorInv, LocationInv
    <3>3. QED
      BY <1>3, <3>1, <3>2
  <2>2. QED
    BY <1>1, <1>4, <2>1
       DEF LocationInv, Session!InArena, Session!External, Session!Garbled, Session!Term
<1>12. CapturedInv'
  <2>1. /\ DOMAIN captured = { v \in DOMAIN values : v \in Session!Captures }
        /\ \A v \in DOMAIN captured : captured[v] = Meant[v]
    BY DEF SessionInv, CapturedInv
  <2>2. CASE w \in Session!Captures
    <3>1. /\ DOMAIN captured' = DOMAIN captured \cup {w} /\ captured'[w] = Meant[w]
          /\ \A v \in DOMAIN captured : v # w => captured'[v] = captured[v]
      BY <1>1, <1>6, <2>2 DEF Session!With
    <3>2. DOMAIN captured' = { v \in DOMAIN values' : v \in Session!Captures }
      BY <1>7, <2>1, <2>2, <3>1
    <3>3. \A v \in DOMAIN captured' : captured'[v] = Meant[v]
      BY <2>1, <3>1
    <3>4. QED
      BY <1>4, <3>2, <3>3 DEF CapturedInv
  <2>3. CASE w \notin Session!Captures
    <3>1. captured' = captured
      BY <1>1, <2>3
    <3>2. DOMAIN captured' = { v \in DOMAIN values' : v \in Session!Captures }
      BY <1>7, <2>1, <2>3, <3>1
    <3>3. QED
      BY <1>4, <2>1, <3>1, <3>2 DEF CapturedInv
  <2>4. QED
    BY <2>2, <2>3
<1>13. MemoryInv'
  <2>1. ASSUME NEW n \in Past', TypeAt(n) = "compute", Result(n) \in StillNeeded'
        PROVE  \A c \in Session!Extent(offset[Result(n)], Session!ByteSize(Result(n))) :
                 memory'[c] = << Meant[Result(n)], c - offset[Result(n)] >>
    <3>1. CASE n = cursor
      BY <1>1, <1>6, <2>1, <3>1
    <3>2. CASE n \in Past
      <4>1. NeededFrom(cursor, Result(n))
        <5>1. \/ Result(n) \in graph.outputs
              \/ \E k \in cursor + 1 .. Len(order) : Result(n) \in Reads(graph, order[k])
          BY <1>1, <2>1 DEF StillNeeded, Reads
        <5>2. \A k \in cursor + 1 .. Len(order) : k \in cursor .. Len(order)
          BY <1>2
        <5>3. QED
          BY <5>1, <5>2 DEF NeededFrom
      <4>2. Result(n) \in StillNeeded
        BY <3>2, <4>1 DEF NeededFrom, StillNeeded, SessionInv, CursorInv
      <4>3. Holds(Result(n))
        BY <2>1, <3>2, <4>2 DEF SessionInv, MemoryInv
      <4>4. CASE TypeAt(cursor) = "compute"
        BY <1>1, <2>1, <3>2, <4>1, <4>3, <4>4, WritesApart
      <4>5. CASE TypeAt(cursor) # "compute"
        BY <1>1, <4>3, <4>5 DEF Holds
      <4>6. QED
        BY <4>4, <4>5
    <3>3. QED
      BY <1>3, <3>1, <3>2
  <2>2. \A v : (\A c \in Session!Extent(offset[v], Session!ByteSize(v)) :
                   memory'[c] = << Meant[v], c - offset[v] >>) => Holds(v)'
    BY <1>1, <1>4 DEF Holds, Session!Extent
  <2>3. QED
    BY <1>4, <2>1, <2>2 DEF MemoryInv
<1>14. QED
  BY <1>8, <1>9, <1>10, <1>11, <1>12, <1>13 DEF SessionInv

\* The operation at the cursor, as the session looks at it.
LEMMA AtFacts ==
  ASSUME ScheduleInv, PlanInv, StatusInv, SessionInv, NEW type, Session!At(type)
  PROVE  /\ status = "running" /\ cursor \in 1 .. Len(order) /\ TypeAt(cursor) = type
         /\ Session!Current = order[cursor] /\ Session!Result(Session!Current) = Result(cursor)
         /\ order[cursor] \in Operations(graph) /\ IsExecutable(graph)
         /\ schedule_phase = "scheduled" /\ plan_phase = "planned"
         /\ Meant[Result(cursor)] = MeaningOf(Meant, order[cursor])
<1>1. status = "running" /\ cursor \in DOMAIN order /\ TypeAt(cursor) = type
  BY DEF Session!At, TypeAt, Session!Current
<1>2. cursor \in 1 .. Len(order) /\ schedule_phase = "scheduled" /\ plan_phase = "planned"
  BY <1>1, RunFacts
<1>3. order[cursor] \in Operations(graph) /\ IsExecutable(graph)
  BY <1>2, OrderFacts DEF ScheduleInv
<1>4. Meant[Result(cursor)] = MeaningOf(Meant, order[cursor])
  BY <1>2, MeaningFacts
<1>5. QED
  BY <1>1, <1>2, <1>3, <1>4 DEF Session!Current, Result

\* The three bindings: what the call or the graph gives is what the graph means.
LEMMA BindKeeps ==
  ASSUME ScheduleInv, PlanInv, StatusInv, SessionInv, UNCHANGED Others,
         Session!BindInput \/ Session!BindParameter \/ Session!BindConstant
  PROVE  StatusInv' /\ SessionInv'
<1>1. CASE Session!BindInput
  <2>1. Session!At("input")
    BY <1>1 DEF Session!BindInput
  <2>2. CASE Session!Fail
    BY <2>1, <2>2, AtFacts, FailKeeps
  <2>3. CASE ~Session!Fail
    <3>1. /\ Session!Define(Session!External(Session!Term(order[cursor], << >>, call.tag)), memory)
          /\ Result(cursor) \in DOMAIN call.inputs /\ call.inputs[Result(cursor)] = "right"
      BY <1>1, <2>1, <2>3, AtFacts DEF Session!BindInput
    <3>2. Given(order[cursor])
      <4>1. TypeAt(cursor) = "input"
        BY <2>1, AtFacts
      <4>2. QED
        BY <3>1, <4>1 DEF Given, TypeAt, Result, Session!Result
    <3>3. Meant[Result(cursor)] = Session!Term(order[cursor], << >>, call.tag)
      <4>1. graph.ops[order[cursor]].type = "input"
        BY <2>1, AtFacts DEF TypeAt
      <4>2. QED
        BY <2>1, <4>1, AtFacts, SourceMeaning
    <3>4. status = "running" /\ cursor \in 1 .. Len(order) /\ TypeAt(cursor) # "compute"
      BY <2>1, AtFacts
    <3>5. QED
      BY <3>1, <3>2, <3>3, <3>4, DefineKeeps
  <2>4. QED
    BY <2>2, <2>3
<1>2. CASE Session!BindParameter
  <2>1. Session!At("parameter")
    BY <1>2 DEF Session!BindParameter
  <2>2. CASE Session!Fail
    BY <2>1, <2>2, AtFacts, FailKeeps
  <2>3. CASE ~Session!Fail
    <3>1. /\ Session!Define(Session!External(Session!Term(order[cursor], << >>, 0)), memory)
          /\ LET op == graph.ops[order[cursor]]
             IN  op.key \in DOMAIN call.parameters /\ call.parameters[op.key] = op.content
      BY <1>2, <2>1, <2>3, AtFacts DEF Session!BindParameter
    <3>2. Given(order[cursor])
      <4>1. TypeAt(cursor) = "parameter"
        BY <2>1, AtFacts
      <4>2. QED
        BY <3>1, <4>1 DEF Given, TypeAt
    <3>3. Meant[Result(cursor)] = Session!Term(order[cursor], << >>, 0)
      <4>1. graph.ops[order[cursor]].type = "parameter"
        BY <2>1, AtFacts DEF TypeAt
      <4>2. QED
        BY <2>1, <4>1, AtFacts, SourceMeaning
    <3>4. status = "running" /\ cursor \in 1 .. Len(order) /\ TypeAt(cursor) # "compute"
      BY <2>1, AtFacts
    <3>5. QED
      BY <3>1, <3>2, <3>3, <3>4, DefineKeeps
  <2>4. QED
    BY <2>2, <2>3
<1>3. CASE Session!BindConstant
  <2>1. Session!At("constant")
    BY <1>3 DEF Session!BindConstant
  <2>2. CASE Session!Fail
    BY <2>1, <2>2, AtFacts, FailKeeps
  <2>3. CASE ~Session!Fail
    <3>1. /\ Session!Define(Session!External(Session!Term(order[cursor], << >>, 0)), memory)
          /\ graph.ops[order[cursor]].content = "scalar"
      BY <1>3, <2>1, <2>3, AtFacts DEF Session!BindConstant
    <3>2. Given(order[cursor])
      <4>1. TypeAt(cursor) = "constant"
        BY <2>1, AtFacts
      <4>2. QED
        BY <3>1, <4>1 DEF Given, TypeAt
    <3>3. Meant[Result(cursor)] = Session!Term(order[cursor], << >>, 0)
      <4>1. graph.ops[order[cursor]].type = "constant"
        BY <2>1, AtFacts DEF TypeAt
      <4>2. QED
        BY <2>1, <4>1, AtFacts, SourceMeaning
    <3>4. status = "running" /\ cursor \in 1 .. Len(order) /\ TypeAt(cursor) # "compute"
      BY <2>1, AtFacts
    <3>5. QED
      BY <3>1, <3>2, <3>3, <3>4, DefineKeeps
  <2>4. QED
    BY <2>2, <2>3
<1>4. QED
  BY <1>1, <1>2, <1>3

\* The checks of execute before a kernel pass: its result has a place within the
\* arena, and its operands are defined.
LEMMA KernelIsReady ==
  ASSUME ScheduleInv, PlanInv, StatusInv, SessionInv, Session!At("compute")
  PROVE  /\ Result(cursor) \in DOMAIN offset
         /\ Session!InsideArena(Result(cursor))
         /\ Session!Reads(graph, order[cursor]) \subseteq DOMAIN values
<1>1. /\ cursor \in 1 .. Len(order) /\ TypeAt(cursor) = "compute"
      /\ schedule_phase = "scheduled" /\ plan_phase = "planned"
  BY AtFacts
<1>2. Result(cursor) \in DOMAIN offset /\ Session!InsideArena(Result(cursor))
  BY <1>1, KernelFacts DEF Session!InsideArena
<1>3. ASSUME NEW v \in Reads(graph, order[cursor])
      PROVE  v \in DOMAIN values
  <2>1. \E m \in Past : v = Result(m)
    BY <1>1, OperandFacts DEF Past
  <2>2. QED
    BY <2>1 DEF SessionInv, CursorInv
<1>4. Session!Reads(graph, order[cursor]) = Reads(graph, order[cursor])
  BY DEF Session!Reads, Session!Elements, Reads, Elements
<1>5. QED
  BY <1>2, <1>3, <1>4

\* A kernel that starts garbles nothing that is needed, its operands included.
LEMMA BeginKernelKeeps ==
  ASSUME ScheduleInv, PlanInv, StatusInv, SessionInv, UNCHANGED Others, Session!BeginKernel
  PROVE  StatusInv' /\ SessionInv'
<1> DEFINE w == Result(cursor)
<1>1. Session!At("compute")
  BY DEF Session!BeginKernel
<1>2. /\ status = "running" /\ cursor \in 1 .. Len(order) /\ TypeAt(cursor) = "compute"
      /\ plan_phase = "planned" /\ schedule_phase = "scheduled"
  BY <1>1, AtFacts
<1>3. /\ computing' = TRUE
      /\ memory' = Session!Stored(memory, offset[w], Session!ByteSize(w), Session!Garbled)
      /\ UNCHANGED << graph, order, offset, arena_end, status, call, cursor, values, trace,
                      captured, executed, calls, plan_phase >>
  BY <1>1, AtFacts, KernelIsReady DEF Session!BeginKernel, Session!plan, Others, plan_vars
<1>4. DOMAIN memory = Session!Extent(0, arena_end) /\ DOMAIN memory' = DOMAIN memory
  BY <1>2, <1>3, RunFacts DEF Session!Stored
<1>5. Past' = Past
  BY <1>3 DEF Past
<1>6. StatusInv'
  BY <1>2, <1>3, <1>4 DEF StatusInv, IsOpen, Session!Extent
<1>7. CursorInv'
  <2>1. { Result(n)' : n \in Past' } = { Result(n) : n \in Past }
    BY <1>3, <1>5, MeaningStays
  <2>2. computing' => status' = "running" /\ cursor' <= Len(order') /\ TypeAt(cursor)' = "compute"
    BY <1>2, <1>3, MeaningStays DEF TypeAt
  <2>3. QED
    BY <1>3, <1>5, <2>1, <2>2 DEF SessionInv, CursorInv, IsOpen
<1>8. CallInv'
  BY <1>3, <1>5, MeaningStays DEF SessionInv, CallInv
<1>9. LocationInv'
  BY <1>3, <1>5, MeaningStays
     DEF SessionInv, LocationInv, Session!InArena, Session!External, Session!Garbled, Session!Term
<1>10. CapturedInv'
  BY <1>3, <1>5, MeaningStays DEF SessionInv, CapturedInv
<1>11. MemoryInv'
  <2>1. ASSUME NEW n \in Past, TypeAt(n) = "compute", Result(n) \in StillNeeded
        PROVE  \A c \in Session!Extent(offset[Result(n)], Session!ByteSize(Result(n))) :
                 memory'[c] = << Meant[Result(n)], c - offset[Result(n)] >>
    <3>1. NeededFrom(cursor, Result(n)) /\ Holds(Result(n))
      BY <1>2, <2>1 DEF StillNeeded, NeededFrom, SessionInv, MemoryInv
    <3>2. QED
      BY <1>2, <1>3, <2>1, <3>1, WritesApart
  <2>2. StillNeeded' = StillNeeded
    BY <1>3 DEF StillNeeded, Reads, Elements
  <2>3. \A v : (\A c \in Session!Extent(offset[v], Session!ByteSize(v)) :
                   memory'[c] = << Meant[v], c - offset[v] >>) => Holds(v)'
    BY <1>3, MeaningStays DEF Holds, Session!Extent
  <2>4. QED
    BY <1>3, <1>5, <2>1, <2>2, <2>3, MeaningStays DEF MemoryInv
<1>12. QED
  BY <1>6, <1>7, <1>8, <1>9, <1>10, <1>11 DEF SessionInv

\* A kernel that ends has read what its operands mean.
LEMMA EndKernelKeeps ==
  ASSUME ScheduleInv, PlanInv, StatusInv, SessionInv, UNCHANGED Others, Session!EndKernel
  PROVE  StatusInv' /\ SessionInv'
<1> DEFINE w == Result(cursor)
           inputs == graph.ops[order[cursor]].inputs
           args == [ k \in DOMAIN inputs |->
                       Session!Contents(inputs[k], values[inputs[k]], memory) ]
           term == Session!Term(order[cursor], args, 0)
<1>1. Session!At("compute")
  BY DEF Session!EndKernel
<1>2. /\ status = "running" /\ cursor \in 1 .. Len(order) /\ TypeAt(cursor) = "compute"
      /\ plan_phase = "planned" /\ schedule_phase = "scheduled"
  BY <1>1, AtFacts
<1>3. Session!Define(Session!InArena(offset[w]),
                     Session!Stored(memory, offset[w], Session!ByteSize(w), term))
  BY <1>1, AtFacts DEF Session!EndKernel
<1>4. ASSUME NEW k \in DOMAIN inputs
      PROVE  Session!Contents(inputs[k], values[inputs[k]], memory) = Meant[inputs[k]]
  <2>1. inputs[k] \in Reads(graph, order[cursor])
    BY DEF Reads, Elements
  <2>2. inputs[k] \in DOMAIN values
    <3>1. \E m \in Past : inputs[k] = Result(m)
      BY <1>2, <2>1, OperandFacts DEF Past
    <3>2. QED
      BY <3>1 DEF SessionInv, CursorInv
  <2>3. cursor \in cursor .. Len(order)
    BY <1>2
  <2>4. inputs[k] \in StillNeeded
    BY <2>1, <2>2, <2>3 DEF StillNeeded
  <2>5. QED
    BY <1>2, <2>4, NeededIsRead
<1>5. term = Meant[w]
  <2>1. args = [ k \in DOMAIN inputs |-> Meant[inputs[k]] ]
    BY <1>4
  <2>2. graph.ops[order[cursor]].type # "input"
    BY <1>2 DEF TypeAt
  <2>3. term = MeaningOf(Meant, order[cursor])
    BY <2>1, <2>2 DEF MeaningOf, Term, Session!Term
  <2>4. QED
    BY <1>1, <2>3, AtFacts
<1>6. Given(order[cursor])
  BY <1>2 DEF Given, TypeAt
<1> HIDE DEF term
<1>7. QED
  BY <1>2, <1>3, <1>5, <1>6, DefineKeeps

(***************************************************************************)
(* The invariant.                                                          *)
(***************************************************************************)

LEMMA InitHolds == Init => IInv
<1> SUFFICES ASSUME Init
             PROVE  IInv
  OBVIOUS
<1>1. Ordering!IInv
  BY SchedulerInit, Ordering!InitEstablishes DEF Init
<1>2. Planning!IInv /\ Planning!SelfCheckInv
  BY PlannerInit, MaxU64Assumption, Planning!InitEstablishes, Planning!InitChecks DEF Init
<1>3. /\ schedule_phase = "idle" /\ schedule_error = "none"
      /\ plan_phase = "idle" /\ plan_error = "none"
  BY DEF Init, Scheduler!Init, Planner!Init
<1>4. ScheduleInv /\ PlanInv
  BY <1>1, <1>2, <1>3 DEF ScheduleInv, PlanInv, AcceptedGraphsArePlanned
<1>5. /\ status = "unloaded" /\ call = Session!NoCall /\ cursor = 0 /\ computing = FALSE
      /\ values = Session!Empty /\ trace = << >> /\ captured = Session!Empty
      /\ executed = FALSE /\ calls = 0
  BY DEF Init, Session!Init
<1>6. StatusInv /\ ~IsOpen /\ Past = {}
  BY <1>5 DEF StatusInv, IsOpen, Past
<1>7. DOMAIN values = {} /\ DOMAIN captured = {}
  BY <1>5 DEF Session!Empty
<1>8. CursorInv
  <2>1. trace = [ n \in Past |-> order[n] ]
    BY <1>5, <1>6
  <2>2. QED
    BY <1>5, <1>6, <1>7, <2>1 DEF CursorInv, IsOpen
<1>9. CallInv
  BY <1>5, <1>6 DEF CallInv, Session!NoCall
<1>10. LocationInv /\ CapturedInv /\ MemoryInv
  BY <1>5, <1>6, <1>7 DEF LocationInv, CapturedInv, MemoryInv
<1>11. QED
  BY <1>4, <1>6, <1>8, <1>9, <1>10 DEF IInv, SessionInv

\* The steps of load before there is a session, and its refusals.
LEMMA LoadKeeps ==
  ASSUME IInv,
         \/ \E d \in Documents : LoadGraph(d) \/ RefuseDocument(d)
         \/ BuildSchedule \/ StartPlan \/ BuildPlan \/ RefuseGraph
  PROVE  IInv'
<1> USE DEF IInv
<1>1. ASSUME NEW d \in Documents, LoadGraph(d)
      PROVE  IInv'
  <2>1. ScheduleInv' /\ schedule_phase = "idle" /\ schedule_phase' = "ordering"
    BY <1>1, LoadGraphSchedules
  <2>2. PlanInv'
    BY <1>1, <2>1, NoPlanYet DEF LoadGraph, PlanInv, ScheduleInv
  <2>3. StatusInv' /\ SessionInv'
    BY <1>1, ClosedStays DEF LoadGraph, session_vars, IsOpen
  <2>4. QED
    BY <2>1, <2>2, <2>3
<1>2. ASSUME NEW d \in Documents, RefuseDocument(d)
      PROVE  IInv'
  BY <1>2, ScheduleStays, PlanStays, ClosedStays DEF RefuseDocument, NoSession, IsOpen
<1>3. CASE BuildSchedule
  <2>1. ScheduleInv' /\ schedule_phase = "ordering"
    BY <1>3, BuildScheduleSchedules
  <2>2. plan_phase = "idle"
    BY <2>1 DEF PlanInv
  <2>3. PlanInv'
    BY <1>3, <2>1, <2>2, NoPlanYet DEF BuildSchedule, ScheduleInv
  <2>4. ~IsOpen /\ status' \in {"unloaded", "refused"}
    BY <1>3, <2>2 DEF BuildSchedule, StatusInv, IsOpen, session_vars
  <2>5. StatusInv' /\ SessionInv'
    BY <1>3, <2>4, ClosedStays DEF BuildSchedule, session_vars
  <2>6. QED
    BY <2>1, <2>3, <2>5
<1>4. CASE StartPlan
  <2>1. ScheduleInv' /\ PlanInv'
    BY <1>4, ScheduleStays, StartPlanPlans DEF StartPlan
  <2>2. plan_phase = "idle"
    BY <1>4 DEF StartPlan, Planner!PlanMemory
  <2>3. ~IsOpen /\ status' \in {"unloaded", "refused"}
    BY <1>4, <2>2 DEF StartPlan, StatusInv, IsOpen, session_vars
  <2>4. StatusInv' /\ SessionInv'
    BY <1>4, <2>3, ClosedStays DEF StartPlan, session_vars
  <2>5. QED
    BY <2>1, <2>4
<1>5. CASE BuildPlan
  <2>1. ScheduleInv' /\ PlanInv'
    BY <1>5, ScheduleStays, BuildPlanPlans DEF BuildPlan
  <2>2. plan_phase # "planned"
    BY <1>5, BuildPlanFacts
  <2>3. ~IsOpen /\ status' \in {"unloaded", "refused"}
    BY <1>5, <2>2 DEF BuildPlan, StatusInv, IsOpen, session_vars
  <2>4. StatusInv' /\ SessionInv'
    BY <1>5, <2>3, ClosedStays DEF BuildPlan, session_vars
  <2>5. QED
    BY <2>1, <2>4
<1>6. CASE RefuseGraph
  BY <1>6, ScheduleStays, PlanStays, ClosedStays DEF RefuseGraph, NoSession, IsOpen
<1>7. QED
  BY <1>1, <1>2, <1>3, <1>4, <1>5, <1>6

\* A step that leaves the session's variables alone, with all it looks at.
LEMMA SessionStutters ==
  ASSUME StatusInv, SessionInv, UNCHANGED vars
  PROVE  StatusInv' /\ SessionInv'
<1>1. UNCHANGED << graph, order, offset, arena_end, plan_phase, status, call, cursor, computing,
                   values, memory, trace, captured, executed, calls >>
  BY DEF vars, schedule_vars, plan_vars, session_vars
<1>2. Past' = Past
  BY <1>1 DEF Past
<1>3. StatusInv'
  BY <1>1 DEF StatusInv, IsOpen, Session!Extent
<1>4. CursorInv'
  <2>1. { Result(n)' : n \in Past' } = { Result(n) : n \in Past }
    BY <1>1, <1>2, MeaningStays
  <2>2. TypeAt(cursor)' = TypeAt(cursor)
    BY <1>1 DEF TypeAt
  <2>3. QED
    BY <1>1, <1>2, <2>1, <2>2 DEF SessionInv, CursorInv, IsOpen
<1>5. CallInv'
  BY <1>1, <1>2, MeaningStays DEF SessionInv, CallInv
<1>6. LocationInv'
  BY <1>1, <1>2, MeaningStays
     DEF SessionInv, LocationInv, Session!InArena, Session!External, Session!Garbled, Session!Term
<1>7. CapturedInv'
  BY <1>1, <1>2, MeaningStays DEF SessionInv, CapturedInv
<1>8. MemoryInv'
  <2>1. StillNeeded' = StillNeeded
    BY <1>1 DEF StillNeeded, Reads, Elements
  <2>2. \A v : Holds(v) => Holds(v)'
    BY <1>1, MeaningStays DEF Holds, Session!Extent
  <2>3. QED
    BY <1>1, <1>2, <2>1, <2>2, MeaningStays DEF SessionInv, MemoryInv
<1>9. QED
  BY <1>3, <1>4, <1>5, <1>6, <1>7, <1>8 DEF SessionInv

LEMMA NextKeeps == IInv /\ [Next]_vars => IInv'
<1> SUFFICES ASSUME IInv, [Next]_vars
             PROVE  IInv'
  OBVIOUS
<1>1. CASE \E d \in Documents : LoadGraph(d) \/ RefuseDocument(d)
  BY <1>1, LoadKeeps
<1>2. CASE LoadStep
  <2>1. CASE OpenSession
    BY <2>1, ScheduleStays, PlanStays, OpenSessionKeeps DEF OpenSession, IInv
  <2>2. CASE BuildSchedule \/ StartPlan \/ BuildPlan \/ RefuseGraph
    BY <2>2, LoadKeeps
  <2>3. QED
    BY <1>2, <2>1, <2>2 DEF LoadStep
<1>3. CASE UNCHANGED Others
  <2>1. ScheduleInv' /\ PlanInv'
    BY <1>3, ScheduleStays, PlanStays DEF Others, IInv
  <2>2. CASE StartCall
    BY <2>1, <2>2, StartCallKeeps DEF IInv
  <2>3. CASE CallStep
    <3>1. CASE Session!BindInput \/ Session!BindParameter \/ Session!BindConstant
      BY <1>3, <2>1, <3>1, BindKeeps DEF IInv
    <3>2. CASE Session!BeginKernel
      BY <1>3, <2>1, <3>2, BeginKernelKeeps DEF IInv
    <3>3. CASE Session!EndKernel
      BY <1>3, <2>1, <3>3, EndKernelKeeps DEF IInv
    <3>4. CASE Session!FinishExecute
      BY <1>3, <2>1, <3>4, FinishKeeps DEF IInv
    <3>5. QED
      BY <2>3, <3>1, <3>2, <3>3, <3>4 DEF CallStep
  <2>4. CASE KernelFails
    <3>1. Session!Fail /\ status = "running"
      BY <2>4 DEF KernelFails, Session!KernelFails, Session!At
    <3>2. QED
      BY <1>3, <2>1, <3>1, FailKeeps DEF IInv
  <2>5. CASE UNCHANGED vars
    BY <2>1, <2>5, SessionStutters DEF IInv
  <2>6. QED
    BY <1>1, <1>2, <2>2, <2>3, <2>4, <2>5 DEF Next
<1>4. StartCall \/ CallStep \/ KernelFails \/ UNCHANGED vars => UNCHANGED Others
  BY DEF StartCall, CallStep, KernelFails, vars, Others
<1>5. QED
  BY <1>1, <1>2, <1>3, <1>4 DEF Next

\* The invariant that the properties follow from.
THEOREM IInvHolds == Spec => []IInv
<1>1. QED
  BY InitHolds, NextKeeps, PTL DEF Spec

(***************************************************************************)
(* The properties.                                                         *)
(***************************************************************************)

\* Whatever document the loader accepts: its order and the chain of side effects
\* never contradict each other, and the planner refuses it only for an
\* intermediate that nobody reads or for sizes beyond a uint64_t.
THEOREM AcceptedGraphsArePlannedHolds == Spec => []AcceptedGraphsArePlanned
<1>1. IInv => AcceptedGraphsArePlanned
  BY DEF IInv, PlanInv
<1>2. QED
  BY <1>1, IInvHolds, PTL

\* The operations up to the cursor are a prefix of the schedule.
LEMMA PrefixFacts ==
  ASSUME IInv
  PROVE  \E k \in Nat :
           /\ Past = 1 .. k /\ k <= Len(order) /\ Len(trace) = k
           /\ trace = SubSeq(order, 1, k)
           /\ \A n \in 1 .. k : trace[n] = order[n]
           /\ order \in Seq(Nat) /\ Len(order) \in Nat
<1>1. order \in Seq(Nat)
  <2>1. /\ order \in Seq(Ordering!Operations(graph))
        /\ Ordering!IsSchedulable(graph)
    BY DEF IInv, ScheduleInv, Ordering!IInv, Ordering!OrderInv
  <2>2. Ordering!Operations(graph) \subseteq Nat
    BY <2>1 DEF Ordering!IsSchedulable
  <2>3. QED
    BY <2>1, <2>2, LenProperties
<1>2. Len(order) \in Nat /\ DOMAIN order = 1 .. Len(order)
      /\ \A n \in 1 .. Len(order) : order[n] \in Nat
  BY <1>1, LenProperties
<1>3. /\ cursor \in Nat /\ (~IsOpen => cursor = 0) /\ (IsOpen => cursor <= Len(order) + 1)
      /\ trace = [ n \in Past |-> order[n] ]
  BY DEF IInv, SessionInv, CursorInv
<1>4. PICK k \in Nat : Past = 1 .. k /\ k <= Len(order)
  <2>1. CASE cursor = 0
    <3>1. Past = 1 .. 0
      BY <2>1 DEF Past
    <3>2. QED
      BY <1>2, <3>1
  <2>2. CASE cursor # 0
    <3>1. cursor - 1 \in Nat /\ cursor - 1 <= Len(order)
      BY <1>2, <1>3, <2>2
    <3>2. QED
      BY <3>1 DEF Past
  <2>3. QED
    BY <2>1, <2>2
<1>5. trace = [ n \in 1 .. k |-> order[n] ]
  BY <1>3, <1>4
<1>6. trace \in [ 1 .. k -> Nat ] /\ \A n \in 1 .. k : trace[n] = order[n]
  BY <1>2, <1>4, <1>5
<1>7. trace \in Seq(Nat) /\ Len(trace) = k
  BY <1>6, LenProperties
<1>8. SubSeq(order, 1, k) = [ n \in 1 .. k |-> order[n] ]
  BY <1>1, <1>2, <1>4
<1>9. QED
  BY <1>1, <1>2, <1>4, <1>5, <1>6, <1>7, <1>8

\* A session that has executed has come through the whole schedule.
LEMMA ExecutedFacts ==
  ASSUME IInv, executed
  PROVE  /\ status = "ready" /\ plan_phase = "planned" /\ schedule_phase = "scheduled"
         /\ IsLoaded(graph) /\ Past = 1 .. Len(order) /\ Len(order) \in Nat
         /\ DOMAIN values = DOMAIN graph.values
         /\ ~Session!BadCall(call)
         /\ Session!Captures \subseteq DOMAIN graph.values
         /\ DOMAIN captured = Session!Captures
<1>1. status = "ready" /\ cursor = Len(order) + 1
  BY DEF IInv, SessionInv, CursorInv
<1>2. plan_phase = "planned" /\ schedule_phase = "scheduled" /\ IsLoaded(graph)
  BY <1>1 DEF IInv, StatusInv, IsOpen, PlanInv, ScheduleInv
<1>3. Len(order) \in Nat /\ Past = 1 .. Len(order)
  BY <1>1, <1>2, OrderFacts DEF IInv, Past
<1>4. DOMAIN values = DOMAIN graph.values
  <2>1. DOMAIN values = { Result(n) : n \in 1 .. Len(order) }
    BY <1>3 DEF IInv, SessionInv, CursorInv
  <2>2. \A v \in DOMAIN graph.values : \E n \in 1 .. Len(order) : v = Result(n)
    BY <1>2, ResultFacts, OrderFacts DEF Result, IInv
  <2>3. \A n \in 1 .. Len(order) : Result(n) \in DOMAIN graph.values
    BY <1>2, ResultFacts, OrderFacts DEF Result, IInv
  <2>4. QED
    BY <2>1, <2>2, <2>3
<1>5. ~Session!BadCall(call)
  BY <1>1, <1>3 DEF IInv, SessionInv, CallInv
<1>6. Session!Captures \subseteq DOMAIN graph.values
  <2>1. call.captures \subseteq DOMAIN graph.values
    BY <1>5 DEF Session!BadCall
  <2>2. graph.outputs \subseteq DOMAIN graph.values
    BY <1>2 DEF IsLoaded, ReferencesExist
  <2>3. QED
    BY <2>1, <2>2 DEF Session!Captures
<1>7. DOMAIN captured = Session!Captures
  BY <1>4, <1>6 DEF IInv, SessionInv, CapturedInv
<1>8. QED
  BY <1>1, <1>2, <1>3, <1>4, <1>5, <1>6, <1>7

\* The trace is the schedule as far as execute came, with one value per entry,
\* and an executed session has kept every declared output.
THEOREM TraceAccountsForValuesHolds == Spec => []TraceAccountsForValues
<1>1. ASSUME IInv
      PROVE  TraceAccountsForValues
  <2>1. PICK k \in Nat : /\ Past = 1 .. k /\ k <= Len(order) /\ Len(trace) = k
                         /\ trace = SubSeq(order, 1, k)
                         /\ \A n \in 1 .. k : trace[n] = order[n]
                         /\ order \in Seq(Nat) /\ Len(order) \in Nat
    BY <1>1, PrefixFacts
  <2>2. DOMAIN trace = 1 .. k
    BY <1>1, <2>1 DEF IInv, SessionInv, CursorInv
  <2>3. DOMAIN values = { Session!Result(trace[n]) : n \in DOMAIN trace }
    BY <1>1, <2>1, <2>2 DEF IInv, SessionInv, CursorInv, Result
  <2>4. ASSUME executed
        PROVE  status = "ready" /\ trace = order /\ graph.outputs \subseteq DOMAIN captured
    <3>1. /\ status = "ready" /\ Past = 1 .. Len(order)
          /\ DOMAIN captured = Session!Captures
      BY <1>1, <2>4, ExecutedFacts
    <3>2. order = [ n \in 1 .. Len(order) |-> order[n] ]
      BY <2>1, LenProperties
    <3>3. trace = [ n \in 1 .. Len(order) |-> order[n] ]
      BY <1>1, <3>1 DEF IInv, SessionInv, CursorInv
    <3>4. QED
      BY <3>1, <3>2, <3>3 DEF Session!Captures
  <2>5. QED
    BY <2>1, <2>3, <2>4 DEF TraceAccountsForValues
<1>2. QED
  BY <1>1, IInvHolds, PTL

\* Whatever graph, schedule, plan and earlier calls: no kernel writes over bytes
\* that the graph still needs, and execute looks for every value where it is.
THEOREM NeededValuesIntactHolds == Spec => []NeededValuesIntact
<1>1. IInv => NeededValuesIntact
  BY NeededIsRead DEF IInv, NeededValuesIntact, Meant
<1>2. QED
  BY <1>1, IInvHolds, PTL

\* A binding fails only for want of something that the call or the graph has not
\* given.
LEMMA BindNeedsGiven ==
  ASSUME IInv, Contract!Complete(call), status' = "ready",
         Session!BindInput \/ Session!BindParameter \/ Session!BindConstant
  PROVE  FALSE
<1>1. PICK type \in {"input", "parameter", "constant"} :
        /\ Session!At(type)
        /\ type = "input" => Session!BindInput
        /\ type = "parameter" => Session!BindParameter
        /\ type = "constant" => Session!BindConstant
  BY DEF Session!BindInput, Session!BindParameter, Session!BindConstant
<1>2. /\ status = "running" /\ TypeAt(cursor) = type /\ Session!Current = order[cursor]
      /\ order[cursor] \in Operations(graph)
  BY <1>1, AtFacts DEF IInv
<1>3. Given(order[cursor])
  BY <1>2 DEF Contract!Complete, Contract!Operations, Operations, Given
<1>4. \A location, mem : ~Session!Define(location, mem)
  BY <1>2 DEF Session!Define
<1>5. CASE type = "input"
  <2>1. /\ Session!Result(order[cursor]) \in DOMAIN call.inputs
        /\ call.inputs[Session!Result(order[cursor])] = "right"
    BY <1>2, <1>3, <1>5 DEF Given, TypeAt, Session!Result
  <2>2. QED
    BY <1>1, <1>2, <1>4, <1>5, <2>1 DEF Session!BindInput
<1>6. CASE type = "parameter"
  <2>1. LET op == graph.ops[order[cursor]]
        IN  op.key \in DOMAIN call.parameters /\ call.parameters[op.key] = op.content
    BY <1>2, <1>3, <1>6 DEF Given, TypeAt
  <2>2. QED
    BY <1>1, <1>2, <1>4, <1>6, <2>1 DEF Session!BindParameter
<1>7. CASE type = "constant"
  <2>1. graph.ops[order[cursor]].content = "scalar"
    BY <1>2, <1>3, <1>7 DEF Given, TypeAt
  <2>2. QED
    BY <1>1, <1>2, <1>4, <1>7, <2>1 DEF Session!BindConstant
<1>8. QED
  BY <1>1, <1>5, <1>6, <1>7

\* A step that ends a call that gives everything without a success is one of a
\* running kernel: no lookup of execute and no bound it checks can fail.
THEOREM OnlyKernelsFailCompleteCallsHolds == Spec => OnlyKernelsFailCompleteCalls
<1> DEFINE Step == status = "running" /\ status' = "ready" /\ ~executed' /\ Contract!Complete(call)
                     => computing
<1>1. IInv /\ [Next]_vars => [Step]_vars
  <2> SUFFICES ASSUME IInv, Next, status = "running", status' = "ready", ~executed',
                      Contract!Complete(call), ~computing
               PROVE  FALSE
    OBVIOUS
  <2>1. /\ plan_phase = "planned" /\ schedule_phase = "scheduled"
    BY RunFacts DEF IInv
  <2>2. ~ \E d \in Documents : LoadGraph(d) \/ RefuseDocument(d)
    BY DEF LoadGraph, RefuseDocument, NoSession
  <2>3. ~LoadStep
    BY DEF LoadStep, BuildSchedule, StartPlan, BuildPlan, RefuseGraph, NoSession, OpenSession,
           Session!Load, session_vars
  <2>4. ~StartCall
    BY DEF StartCall, Session!Execute
  <2>5. ~KernelFails
    BY DEF KernelFails, Session!KernelFails
  <2>6. ~CallStep
    <3>1. ~(Session!BindInput \/ Session!BindParameter \/ Session!BindConstant)
      BY BindNeedsGiven
    <3>2. ~Session!BeginKernel
      <4> SUFFICES ASSUME Session!BeginKernel
                   PROVE  FALSE
        OBVIOUS
      <4>1. Session!At("compute")
        BY DEF Session!BeginKernel
      <4>2. UNCHANGED status
        BY <4>1, AtFacts, KernelIsReady DEF Session!BeginKernel, IInv
      <4>3. QED
        BY <4>2
    <3>3. ~Session!EndKernel
      BY DEF Session!EndKernel
    <3>4. ~Session!FinishExecute
      BY DEF Session!FinishExecute
    <3>5. QED
      BY <3>1, <3>2, <3>3, <3>4 DEF CallStep
  <2>7. QED
    BY <2>2, <2>3, <2>4, <2>5, <2>6 DEF Next
<1>2. QED
  BY <1>1, IInvHolds, PTL DEF Spec, OnlyKernelsFailCompleteCalls

(***************************************************************************)
(* The contract.                                                           *)
(***************************************************************************)

\* What the owner can fetch.
Results == [ v \in Fetched |-> Session!GetValue(v) ]

\* Nothing before an execution has succeeded, and then what the graph means.
LEMMA ResultsFacts ==
  ASSUME IInv
  PROVE  /\ ~executed => Results = Contract!Nothing
         /\ executed => Results = [ v \in Session!Captures |-> Meant[v] ]
<1>1. ASSUME ~executed
      PROVE  Results = Contract!Nothing
  <2>1. Fetched = {}
    BY <1>1 DEF Fetched, Session!GetValue
  <2>2. QED
    BY <2>1 DEF Results, Contract!Nothing
<1>2. ASSUME executed
      PROVE  Results = [ v \in Session!Captures |-> Meant[v] ]
  <2>1. /\ DOMAIN captured = Session!Captures /\ schedule_phase = "scheduled"
        /\ Past = 1 .. Len(order) /\ DOMAIN captured \subseteq DOMAIN values
    BY <1>2, ExecutedFacts
  <2>2. ASSUME NEW v \in DOMAIN captured
        PROVE  Session!GetValue(v) = Meant[v] /\ Meant[v] # Session!Unavailable
    <3>1. captured[v] = Meant[v] /\ Session!GetValue(v) = captured[v]
      BY <1>2 DEF IInv, SessionInv, CapturedInv, Session!GetValue
    <3>2. PICK n \in 1 .. Len(order) : v = Result(n)
      BY <2>1 DEF IInv, SessionInv, CursorInv
    <3>3. Meant[v] = MeaningOf(Meant, order[n])
      BY <2>1, <3>2, MeaningFacts DEF IInv
    <3>4. Meant[v].op = order[n]
      BY <3>3 DEF MeaningOf, Term
    <3>5. order[n] # 0
      <4>1. order[n] \in 1 .. Len(order) /\ Len(order) \in Nat
        BY <2>1, OrderFacts DEF IInv
      <4>2. QED
        BY <4>1
    <3>6. Session!Unavailable.op = 0
      BY DEF Session!Unavailable, Session!Term
    <3>7. QED
      BY <3>1, <3>4, <3>5, <3>6
  <2>3. Fetched = Session!Captures
    BY <2>1, <2>2 DEF Fetched
  <2>4. QED
    BY <2>1, <2>2, <2>3 DEF Results
<1>3. QED
  BY <1>1, <1>2

LEMMA ContractInit ==
  ASSUME Init
  PROVE  Contract!Init
<1>1. status = "unloaded" /\ ~executed
  BY DEF Init, Session!Init
<1>2. Results = Contract!Nothing
  BY <1>1, InitHolds, ResultsFacts
<1>3. QED
  BY <1>1, <1>2 DEF Contract!Init, Results

\* A call that has come to its end was given everything.
LEMMA FinishedIsComplete ==
  ASSUME IInv, Session!FinishExecute
  PROVE  Contract!Complete(call)
<1>1. /\ status = "running" /\ cursor > Len(order)
  BY DEF Session!FinishExecute, Session!Exhausted
<1>2. /\ schedule_phase = "scheduled" /\ Len(order) \in Nat /\ cursor = Len(order) + 1
      /\ Past = 1 .. Len(order) /\ cursor # 0
  BY <1>1, RunFacts DEF IInv, Past
<1>3. \A i \in Operations(graph) : Given(i)
  <2>1. \A n \in 1 .. Len(order) : Given(order[n])
    BY <1>2 DEF IInv, SessionInv, CallInv
  <2>2. \A i \in Operations(graph) : \E n \in 1 .. Len(order) : order[n] = i
    BY <1>2, OrderFacts DEF IInv
  <2>3. QED
    BY <2>1, <2>2
<1>4. ~Session!BadCall(call)
  BY <1>2 DEF IInv, SessionInv, CallInv
<1>5. QED
  BY <1>3, <1>4 DEF Contract!Complete, Session!BadCall, Given, Contract!Operations, Operations

\* Every step is one of the contract, or none.
LEMMA StepsOfContract ==
  ASSUME IInv, [Next]_vars, IInv',
         ~executed => Results = Contract!Nothing,
         (~executed => Results = Contract!Nothing)',
         (executed => Results = [ v \in Session!Captures |-> Meant[v] ])'
  PROVE  [Contract!Next]_<< graph, status, call, Results >>
<1>1. CASE status = "unloaded" /\ status' \in {"unloaded", "refused", "ready"}
             /\ UNCHANGED << call, executed >>
  <2>1. ~executed
    BY <1>1 DEF IInv, SessionInv, CursorInv
  <2>2. Results' = Results
    BY <1>1, <2>1
  <2>3. Contract!Load
    BY <1>1, <2>2 DEF Contract!Load, Results
  <2>4. QED
    BY <2>3 DEF Contract!Next
<1>2. CASE UNCHANGED << graph, status, call, captured, executed >>
  BY <1>2 DEF Results, Fetched, Session!GetValue, Session!Unavailable, Session!Term
<1>3. CASE \E d \in Documents : LoadGraph(d) \/ RefuseDocument(d)
  BY <1>1, <1>3 DEF LoadGraph, RefuseDocument, NoSession, session_vars
<1>4. CASE LoadStep
  <2>1. CASE BuildSchedule
    <3>1. UNCHANGED graph
      BY <2>1, BuildScheduleSchedules DEF IInv
    <3>2. QED
      BY <1>2, <2>1, <3>1 DEF BuildSchedule, session_vars
  <2>2. CASE StartPlan \/ BuildPlan
    BY <1>2, <2>2 DEF StartPlan, BuildPlan, session_vars, schedule_vars
  <2>3. CASE RefuseGraph
    BY <1>1, <2>3 DEF RefuseGraph, NoSession
  <2>4. CASE OpenSession
    BY <1>1, <2>4 DEF OpenSession, Session!Load
  <2>5. QED
    BY <1>4, <2>1, <2>2, <2>3, <2>4 DEF LoadStep
<1>5. CASE StartCall
  <2>1. PICK c \in Calls : Session!Execute(c)
    BY <1>5 DEF StartCall
  <2>2. /\ status = "ready" /\ status' \in {"running", "ready"} /\ graph' = graph
        /\ executed' = FALSE /\ call' = [ c EXCEPT !.tag = calls + 1 ]
        /\ status' = "ready" => Session!BadCall(c)
    BY <2>1 DEF Session!Execute, Session!plan
  <2>3. call.tag = calls
    BY DEF IInv, SessionInv, CallInv
  <2>4. Results' = Contract!Nothing'
    BY <2>2
  <2>5. Contract!Nothing' = Contract!Nothing
    BY DEF Contract!Nothing
  <2>6. status' = "ready" => ~Contract!Complete(call')
    <3>1. call'.captures = c.captures /\ call'.inputs = c.inputs
      BY <2>2, CallsAssumption
    <3>2. QED
      BY <2>2, <3>1 DEF Contract!Complete, Session!BadCall
  <2>7. Contract!Begin
    BY <2>2, <2>3, <2>4, <2>5, <2>6 DEF Contract!Begin, Results
  <2>8. QED
    BY <2>7 DEF Contract!Next
<1>6. ASSUME Session!Fail, status = "running"
      PROVE  Contract!GiveUp
  <2>1. ~executed
    BY <1>6, RunFacts DEF IInv
  <2>2. status' = "ready" /\ UNCHANGED << graph, call, executed, captured >>
    BY <1>6 DEF Session!Fail, Session!plan
  <2>3. Results' = Results
    BY <2>2 DEF Results, Fetched, Session!GetValue, Session!Unavailable, Session!Term
  <2>4. QED
    BY <1>6, <2>2, <2>3 DEF Contract!GiveUp, Results
<1>7. ASSUME status = "running", NEW location, NEW mem, Session!Define(location, mem)
      PROVE  UNCHANGED << graph, status, call, Results >>
  <2>1. executed = FALSE
    BY <1>7, RunFacts DEF IInv
  <2>2. UNCHANGED << graph, status, call, executed >>
    BY <1>7 DEF Session!Define, Session!plan
  <2>3. Contract!Nothing' = Contract!Nothing
    BY DEF Contract!Nothing
  <2>4. QED
    BY <2>1, <2>2, <2>3
<1>8. CASE CallStep
  <2>1. CASE Session!FinishExecute
    <3>1. /\ status = "running" /\ status' = "ready" /\ executed' = TRUE
          /\ UNCHANGED << graph, order, call >>
      BY <2>1 DEF Session!FinishExecute, Session!plan
    <3>2. Results' = [ v \in Session!Captures |-> Meant[v] ]
      <4>1. Meant' = Meant /\ Session!Captures' = Session!Captures
        BY <3>1, MeaningStays
      <4>2. Results' = [ v \in Session!Captures' |-> Meant'[v] ]
        BY <3>1
      <4>3. QED
        BY <4>1, <4>2
    <3>3. Contract!Complete(call)
      BY <2>1, FinishedIsComplete
    <3>4. Contract!Succeed
      BY <3>1, <3>2, <3>3 DEF Contract!Succeed, Results, Session!Captures, Meant
    <3>5. QED
      BY <3>4 DEF Contract!Next
  <2>2. CASE Session!BeginKernel /\ ~Session!Fail
    BY <1>2, <2>2 DEF Session!BeginKernel, Session!plan
  <2>3. CASE Session!EndKernel
    BY <1>7, <2>3 DEF Session!EndKernel, Session!At
  <2>4. CASE ~Session!Fail /\ (Session!BindInput \/ Session!BindParameter \/ Session!BindConstant)
    <3>1. status = "running" /\ \E location, mem : Session!Define(location, mem)
      BY <2>4 DEF Session!BindInput, Session!BindParameter, Session!BindConstant, Session!At
    <3>2. QED
      BY <1>7, <3>1
  <2>5. CASE Session!Fail
    <3>1. status = "running"
      BY <1>8 DEF CallStep, Session!BindInput, Session!BindParameter, Session!BindConstant,
                  Session!BeginKernel, Session!EndKernel, Session!FinishExecute, Session!At
    <3>2. QED
      BY <1>6, <2>5, <3>1 DEF Contract!Next
  <2>6. QED
    BY <1>8, <2>1, <2>2, <2>3, <2>4, <2>5 DEF CallStep
<1>9. CASE KernelFails
  BY <1>6, <1>9 DEF KernelFails, Session!KernelFails, Session!At, Contract!Next
<1>10. CASE UNCHANGED vars
  BY <1>2, <1>10 DEF vars, schedule_vars, session_vars
<1>11. QED
  BY <1>3, <1>4, <1>5, <1>8, <1>9, <1>10 DEF Next

\* Whatever the documents and the calls: load and execute implement the abstract
\* session, which gives its owner what the graph means for this call's inputs or
\* nothing.
THEOREM ServesTheGraphHolds == Spec => ServesTheGraph
<1>1. Init => Contract!Init
  BY ContractInit
<1>2. IInv => /\ ~executed => Results = Contract!Nothing
              /\ executed => Results = [ v \in Session!Captures |-> Meant[v] ]
  BY ResultsFacts
<1>3. IInv => (~executed => Results = Contract!Nothing)
  BY <1>2
<1>4. IInv => (executed => Results = [ v \in Session!Captures |-> Meant[v] ])
  BY <1>2
<1>5. (IInv => (~executed => Results = Contract!Nothing))'
  BY <1>3, PTL
<1>6. (IInv => (executed => Results = [ v \in Session!Captures |-> Meant[v] ]))'
  BY <1>4, PTL
<1>7. IInv /\ IInv' /\ [Next]_vars => [Contract!Next]_<< graph, status, call, Results >>
  BY <1>3, <1>5, <1>6, StepsOfContract
<1>8. IInv /\ IInv' /\ [Next]_vars => [Contract!Next]_(Contract!vars)
  BY <1>7 DEF Contract!vars, Results
<1>9. QED
  BY <1>1, <1>8, IInvHolds, PTL DEF Spec, ServesTheGraph, Contract!Spec
============================================================================
