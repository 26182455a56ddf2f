------------------------- MODULE ExecutionSchedule -------------------------
(***************************************************************************)
(* build_execution_schedule of cpp/src/runtime/execution_schedule.cpp:     *)
(* Kahn's algorithm over the data dependencies and the storage order of    *)
(* the side effects, always taking the ready operation with the least id.  *)
(***************************************************************************)
EXTENDS ForgeGraph

CONSTANT Graphs  \* the graphs that may be scheduled

\* What the scheduler needs of a graph: finitely many operations with different
\* ids, each reading and writing sequences of values.
IsSchedulable(g) ==
  /\ Len(g.ops) \in Nat /\ Operations(g) = 1 .. Len(g.ops)
  /\ \A i \in Operations(g) : g.ops[i].id \in Nat /\ g.ops[i].side_effect \in BOOLEAN
  /\ \A i, j \in Operations(g) : g.ops[i].id = g.ops[j].id => i = j

ASSUME GraphsAssumption == \A g \in Graphs : IsSchedulable(g)

VARIABLES
  phase,     \* "idle", "ordering", then "scheduled" or "rejected"
  graph,     \* the argument
  indegree,  \* dependencies of each operation that are not yet scheduled
  ready,     \* operations with none left
  order,     \* schedule.operations so far: operations in execution order
  error      \* why the graph was rejected

vars == << phase, graph, indegree, ready, order, error >>

----------------------------------------------------------------------------
\* Mutated form of Edges: the side effects are not chained.
EdgesOfData(g) == DataEdges(g)

\* add_edge ignores a pair it has seen.
Edges(g) == DataEdges(g) \cup SideEffectEdges(g)

Predecessors(g, i) == { p \in Operations(g) : << p, i >> \in Edges(g) }

\* Mutated form of InitialIndegree: an input that occurs twice counts twice.
IndegreePerInput(g, i) == Len(g.ops[i].inputs)

InitialIndegree(g, i) == Cardinality(Predecessors(g, i))

Scheduled == Elements(order)

Init ==
  /\ phase = "idle"
  /\ graph = [ ops |-> << >> ]
  /\ indegree = << >>
  /\ ready = {}
  /\ order = << >>
  /\ error = "none"

RejectGraph(g, reason) ==
  /\ phase' = "rejected"
  /\ graph' = g
  /\ error' = reason
  /\ UNCHANGED << indegree, ready, order >>

\* The producers are collected, the edges counted and the operations without
\* any are ready.
StartOrdering(g) ==
  /\ phase = "idle"
  /\ IF HasDuplicateProducer(g) THEN RejectGraph(g, "duplicate_producer")
     ELSE IF HasMissingProducer(g) THEN RejectGraph(g, "missing_producer")
     ELSE /\ phase' = "ordering"
          /\ graph' = g
          /\ indegree' = [ i \in Operations(g) |-> InitialIndegree(g, i) ]
          /\ ready' = { i \in Operations(g) : indegree'[i] = 0 }
          /\ UNCHANGED << order, error >>

\* Mutated form of Least: any ready operation goes next.
LeastOrAny(i) == i \in ready

Least(i) == i \in ready /\ \A j \in ready : graph.ops[i].id <= graph.ops[j].id

Dependents(i) == { d \in Operations(graph) : << i, d >> \in Edges(graph) }

\* Mutated form of StillReady: the operation stays in the ready set.
NothingErased(i) == ready

StillReady(i) == ready \ {i}

\* One iteration of the loop: an operation is scheduled and those that waited
\* only for it become ready. The code refuses to count below zero.
ScheduleNext(i) ==
  /\ phase = "ordering"
  /\ Least(i)
  /\ order' = Append(order, i)
  /\ IF \E d \in Dependents(i) : indegree[d] = 0
       THEN /\ phase' = "rejected"
            /\ error' = "dependency_underflow"
            /\ UNCHANGED << graph, indegree, ready >>
       ELSE /\ indegree' = [ d \in DOMAIN indegree |->
                               IF d \in Dependents(i) THEN indegree[d] - 1 ELSE indegree[d] ]
            /\ ready' = StillReady(i) \cup { d \in Dependents(i) : indegree'[d] = 0 }
            /\ UNCHANGED << phase, graph, error >>

\* Whatever is left when nothing is ready is on a cycle.
Finish ==
  /\ phase = "ordering" /\ ready = {}
  /\ IF Len(order) # Len(graph.ops)
       THEN phase' = "rejected" /\ error' = "cycle"
       ELSE phase' = "scheduled" /\ error' = error
  /\ UNCHANGED << graph, indegree, ready, order >>

Next ==
  \/ phase = "idle" /\ \E g \in Graphs : StartOrdering(g)
  \/ \E i \in ready : ScheduleNext(i)
  \/ Finish

Spec == Init /\ [][Next]_vars

----------------------------------------------------------------------------
(* Properties.                                                             *)

\* The shape of the state; the schedule never outgrows the graph.
TypeOK ==
  /\ phase \in {"idle", "ordering", "scheduled", "rejected"}
  /\ IsSchedulable(graph)
  /\ phase \in {"ordering", "scheduled"} => indegree \in [Operations(graph) -> Nat]
  /\ ready \subseteq Operations(graph)
  /\ order \in Seq(Operations(graph)) /\ Len(order) <= Len(graph.ops)
  /\ error \in {"none", "duplicate_producer", "missing_producer",
                "dependency_underflow", "cycle"}

\* The counters mean what the loop takes them for: an operation's indegree is
\* the number of operations it still waits for, it is ready exactly when that
\* is zero and it has not run, and nothing is scheduled twice.
CountsAreExact ==
  phase \in {"ordering", "scheduled"} =>
    /\ \A i \in Operations(graph) :
         indegree[i] = Cardinality(Predecessors(graph, i) \ Scheduled)
    /\ ready = { i \in Operations(graph) \ Scheduled : indegree[i] = 0 }
    /\ \A m, n \in DOMAIN order : order[m] = order[n] => m = n

Position(i) == CHOOSE n \in DOMAIN order : order[n] = i

\* At any time, an operation that has been scheduled comes after the producer
\* of every value it reads and after every side effect stored before it, if it
\* is one itself.
DependenciesFirst ==
  \A i \in Scheduled :
    /\ \A p \in Operations(graph) :
         Writes(graph, p) \cap Reads(graph, i) # {} =>
           p \in Scheduled /\ Position(p) < Position(i)
    /\ i \in SideEffects(graph) =>
         \A p \in SideEffects(graph) :
           p < i => p \in Scheduled /\ Position(p) < Position(i)

\* A rejected graph is really bad, a scheduled one really good: "cycle" is
\* reported exactly when some operations wait for each other, and the counters
\* never underflow.
RejectsOnlyCycles ==
  /\ error # "dependency_underflow"
  /\ (error = "cycle") <=>
       /\ phase \notin {"idle", "ordering"}
       /\ ~HasDuplicateProducer(graph) /\ ~HasMissingProducer(graph)
       /\ \E S \in SUBSET Operations(graph) :
            S # {} /\ \A i \in S : Predecessors(graph, i) \cap S # {}

Respects(perm, g) ==
  \A m, n \in DOMAIN perm : << perm[m], perm[n] >> \in Edges(g) => m < n

Precedes(p, q, g) ==
  \E n \in DOMAIN p :
    /\ \A m \in 1 .. n - 1 : p[m] = q[m]
    /\ g.ops[p[n]].id < g.ops[q[n]].id

\* The schedule is the least topological order by ids: it does not depend on
\* the order in which the operations are stored, the side effects apart.
LeastTopologicalOrder ==
  phase = "scheduled" =>
    \A perm \in [1 .. Len(order) -> Operations(graph)] :
      (\A m, n \in DOMAIN perm : perm[m] = perm[n] => m = n) /\ Respects(perm, graph) =>
        perm = order \/ Precedes(order, perm, graph)
============================================================================
