---------------------- MODULE ExecutionScheduleProofs ----------------------
(***************************************************************************)
(* Proofs about ExecutionSchedule, for every set of schedulable graphs.    *)
(***************************************************************************)
EXTENDS ExecutionSchedule, SharedLemmas

(***************************************************************************)
(* The inductive invariant.                                                *)
(***************************************************************************)

\* The order lists operations once, each after its predecessors.
OrderInv ==
  /\ order \in Seq(Operations(graph))
  /\ \A m, n \in 1 .. Len(order) : order[m] = order[n] => m = n
  /\ \A n \in 1 .. Len(order) : \A p \in Predecessors(graph, order[n]) :
       \E m \in 1 .. n - 1 : order[m] = p

\* The counters and the ready set mean what they are for.
CountInv ==
  phase \in {"ordering", "scheduled"} =>
    /\ indegree \in [Operations(graph) -> Nat]
    /\ \A i \in Operations(graph) :
         indegree[i] = Cardinality(Predecessors(graph, i) \ Scheduled)
    /\ ready = { i \in Operations(graph) \ Scheduled : indegree[i] = 0 }

\* The operations of S wait for each other.
Waiting(S) == S # {} /\ \A i \in S : Predecessors(graph, i) \cap S # {}

\* Why the call has ended, if it has.
EndInv ==
  /\ phase = "idle" => order = << >> /\ ready = {}
  /\ phase # "rejected" => error = "none"
  /\ phase \in {"ordering", "scheduled"} =>
       ~HasDuplicateProducer(graph) /\ ~HasMissingProducer(graph)
  /\ phase = "scheduled" => Len(order) = Len(graph.ops)
  /\ phase = "rejected" =>
       \/ error = "duplicate_producer" /\ HasDuplicateProducer(graph)
       \/ error = "missing_producer" /\ HasMissingProducer(graph)
       \/ /\ error = "cycle"
          /\ ~HasDuplicateProducer(graph) /\ ~HasMissingProducer(graph)
          /\ \E S \in SUBSET Operations(graph) : Waiting(S)

IInv ==
  /\ phase \in {"idle", "ordering", "scheduled", "rejected"}
  /\ IsSchedulable(graph)
  /\ ready \subseteq Operations(graph)
  /\ OrderInv
  /\ CountInv
  /\ EndInv

(***************************************************************************)
(* Graphs and sequences.                                                   *)
(***************************************************************************)

\* A schedulable graph has finitely many operations.
LEMMA OperationsFacts ==
  ASSUME NEW g, IsSchedulable(g)
  PROVE  /\ Len(g.ops) \in Nat
         /\ Operations(g) = 1 .. Len(g.ops)
         /\ IsFiniteSet(Operations(g))
         /\ Cardinality(Operations(g)) = Len(g.ops)
<1>1. Len(g.ops) \in Nat /\ Operations(g) = 1 .. Len(g.ops)
  BY DEF IsSchedulable
<1>2. IsFiniteSet(1 .. Len(g.ops)) /\ Cardinality(1 .. Len(g.ops)) = Len(g.ops)
  <2>1. /\ IsFiniteSet(1 .. Len(g.ops))
        /\ Cardinality(1 .. Len(g.ops)) = IF 1 > Len(g.ops) THEN 0 ELSE Len(g.ops) - 1 + 1
    BY <1>1, FS_Interval
  <2>2. QED
    BY <1>1, <2>1
<1>3. QED
  BY <1>1, <1>2

\* Predecessors are operations.
LEMMA PredecessorsAreOperations ==
  ASSUME NEW g, NEW i
  PROVE  Predecessors(g, i) \subseteq Operations(g)
BY DEF Predecessors

\* A sequence without repetition is as long as the set of its elements.
LEMMA DistinctElements ==
  ASSUME NEW T, NEW s \in Seq(T),
         \A m, n \in 1 .. Len(s) : s[m] = s[n] => m = n
  PROVE  /\ Elements(s) = { s[n] : n \in 1 .. Len(s) }
         /\ Elements(s) \subseteq T
         /\ IsFiniteSet(Elements(s))
         /\ Cardinality(Elements(s)) = Len(s)
<1>1. Len(s) \in Nat /\ DOMAIN s = 1 .. Len(s) /\ s \in [1 .. Len(s) -> T]
  BY LenProperties
<1>2. Elements(s) = { s[n] : n \in 1 .. Len(s) }
  BY <1>1 DEF Elements
<1>3. Elements(s) \subseteq T
  BY <1>1, <1>2
<1>4. s \in [1 .. Len(s) -> Elements(s)]
  BY <1>1, <1>2
<1>5. s \in Bijection(1 .. Len(s), Elements(s))
  BY <1>2, <1>4 DEF Bijection, Injection, Surjection, IsInjective
<1>6. ExistsBijection(1 .. Len(s), Elements(s))
  BY <1>5 DEF ExistsBijection
<1>7. IsFiniteSet(1 .. Len(s)) /\ Cardinality(1 .. Len(s)) = Len(s)
  <2>1. /\ IsFiniteSet(1 .. Len(s))
        /\ Cardinality(1 .. Len(s)) = IF 1 > Len(s) THEN 0 ELSE Len(s) - 1 + 1
    BY <1>1, FS_Interval
  <2>2. QED
    BY <1>1, <2>1
<1>8. IsFiniteSet(Elements(s)) /\ Cardinality(Elements(s)) = Cardinality(1 .. Len(s))
  BY <1>6, <1>7, FS_Bijection
<1>9. QED
  BY <1>2, <1>3, <1>7, <1>8

\* The schedule never outgrows the graph, and holds all of it when it is as long.
LEMMA ScheduledFacts ==
  ASSUME IsSchedulable(graph), OrderInv
  PROVE  /\ Scheduled = { order[n] : n \in 1 .. Len(order) }
         /\ Scheduled \subseteq Operations(graph)
         /\ Len(order) \in Nat /\ Len(order) <= Len(graph.ops)
         /\ Len(order) = Len(graph.ops) <=> Scheduled = Operations(graph)
<1>1. /\ Scheduled = { order[n] : n \in 1 .. Len(order) }
      /\ Scheduled \subseteq Operations(graph)
      /\ Cardinality(Scheduled) = Len(order)
  BY DistinctElements DEF OrderInv, Scheduled
<1>2. IsFiniteSet(Operations(graph)) /\ Cardinality(Operations(graph)) = Len(graph.ops)
  BY OperationsFacts
<1>3. /\ Cardinality(Scheduled) <= Cardinality(Operations(graph))
      /\ Cardinality(Operations(graph)) = Cardinality(Scheduled) =>
           Operations(graph) = Scheduled
  BY <1>1, <1>2, FS_Subset
<1>4. Len(order) \in Nat
  BY LenProperties DEF OrderInv
<1>5. Len(order) <= Len(graph.ops)
  BY <1>1, <1>2, <1>3
<1>6. Len(order) = Len(graph.ops) <=> Scheduled = Operations(graph)
  <2>1. Len(order) = Len(graph.ops) => Scheduled = Operations(graph)
    BY <1>1, <1>2, <1>3
  <2>2. Scheduled = Operations(graph) => Len(order) = Len(graph.ops)
    BY <1>1, <1>2
  <2>3. QED
    BY <2>1, <2>2
<1>7. QED
  BY <1>1, <1>4, <1>5, <1>6

(***************************************************************************)
(* The steps.                                                              *)
(***************************************************************************)

\* The initial state has the empty graph and the empty order.
LEMMA InitEstablishes == Init => IInv
<1> SUFFICES ASSUME Init PROVE IInv
  OBVIOUS
<1>1. /\ << >> \in Seq({}) /\ Len(<< >>) = 0 /\ DOMAIN << >> = 1 .. 0
  <2>1. << >> \in Seq({}) /\ Len(<< >>) = 0
    BY EmptySeq
  <2>2. DOMAIN << >> = 1 .. Len(<< >>)
    BY <2>1, LenProperties
  <2>3. QED
    BY <2>1, <2>2
<1>2. graph.ops = << >> /\ order = << >>
  BY DEF Init
<1>3. IsSchedulable(graph)
  BY <1>1, <1>2 DEF IsSchedulable, Operations
<1>4. OrderInv
  <2>1. order \in Seq(Operations(graph))
    BY <1>2, EmptySeq
  <2>2. QED
    BY <1>1, <1>2, <2>1 DEF OrderInv
<1>5. CountInv /\ EndInv /\ ready \subseteq Operations(graph)
  BY DEF Init, CountInv, EndInv
<1>6. QED
  BY <1>3, <1>4, <1>5 DEF IInv, Init

\* What RejectGraph leaves: the order is still empty.
LEMMA RejectGraphPreserves ==
  ASSUME IInv, phase = "idle", NEW g, IsSchedulable(g), NEW reason,
         RejectGraph(g, reason),
         \/ reason = "duplicate_producer" /\ HasDuplicateProducer(g)
         \/ reason = "missing_producer" /\ HasMissingProducer(g)
  PROVE  IInv'
<1>1. /\ phase' = "rejected" /\ graph' = g /\ error' = reason
      /\ order' = << >> /\ ready' = {}
  BY DEF RejectGraph, IInv, EndInv
<1>2. IsSchedulable(graph')
  BY <1>1
<1>3. OrderInv'
  <2>1. order' \in Seq(Operations(graph')) /\ Len(order') = 0
    BY <1>1, EmptySeq
  <2>2. QED
    BY <2>1 DEF OrderInv
<1>4. CountInv' /\ EndInv' /\ ready' \subseteq Operations(graph')
  BY <1>1 DEF CountInv, EndInv
<1>5. QED
  BY <1>1, <1>2, <1>3, <1>4 DEF IInv

\* When the ordering starts nothing is scheduled, so every predecessor counts.
LEMMA StartOrderingPreserves ==
  ASSUME IInv, phase = "idle", NEW g, IsSchedulable(g), StartOrdering(g)
  PROVE  IInv'
<1>1. CASE HasDuplicateProducer(g)
  BY <1>1, RejectGraphPreserves DEF StartOrdering
<1>2. CASE ~HasDuplicateProducer(g) /\ HasMissingProducer(g)
  BY <1>2, RejectGraphPreserves DEF StartOrdering
<1>3. CASE ~HasDuplicateProducer(g) /\ ~HasMissingProducer(g)
  <2>1. /\ phase' = "ordering" /\ graph' = g
        /\ indegree' = [ i \in Operations(g) |-> InitialIndegree(g, i) ]
        /\ ready' = { i \in Operations(g) : indegree'[i] = 0 }
        /\ order' = << >> /\ error' = "none"
    BY <1>3 DEF StartOrdering, IInv, EndInv
  <2>2. order' \in Seq(Operations(g)) /\ Len(order') = 0 /\ Scheduled' = {}
    <3>1. order' \in Seq(Operations(g)) /\ Len(order') = 0
      BY <2>1, EmptySeq
    <3>2. DOMAIN order' = {}
      BY <3>1, LenProperties
    <3>3. QED
      BY <3>1, <3>2 DEF Scheduled, Elements
  <2>3. OrderInv'
    BY <2>1, <2>2 DEF OrderInv
  <2>4. \A i \in Operations(g) : Cardinality(Predecessors(g, i)) \in Nat
    <3> SUFFICES ASSUME NEW i \in Operations(g)
                 PROVE  Cardinality(Predecessors(g, i)) \in Nat
      OBVIOUS
    <3>1. IsFiniteSet(Predecessors(g, i))
      BY OperationsFacts, PredecessorsAreOperations, FS_Subset
    <3>2. QED
      BY <3>1, FS_CardinalityType
  <2>5. CountInv'
    <3>1. indegree' \in [Operations(g) -> Nat]
      BY <2>1, <2>4 DEF InitialIndegree
    <3>2. \A i \in Operations(g) :
            indegree'[i] = Cardinality(Predecessors(g, i) \ Scheduled')
      BY <2>1, <2>2 DEF InitialIndegree
    <3>3. ready' = { i \in Operations(g) \ Scheduled' : indegree'[i] = 0 }
      BY <2>1, <2>2
    <3>4. QED
      BY <2>1, <3>1, <3>2, <3>3 DEF CountInv
  <2>6. EndInv'
    BY <1>3, <2>1 DEF EndInv
  <2>7. QED
    BY <2>1, <2>3, <2>5, <2>6 DEF IInv
<1>4. QED
  BY <1>1, <1>2, <1>3

\* An iteration never counts below zero: a dependent of the operation that runs
\* still waits for it.
LEMMA NoUnderflow ==
  ASSUME IInv, phase = "ordering", NEW i \in ready
  PROVE  \A d \in Dependents(i) : indegree[d] # 0
<1> SUFFICES ASSUME NEW d \in Dependents(i) PROVE indegree[d] # 0
  OBVIOUS
<1>1. d \in Operations(graph) /\ i \in Predecessors(graph, d)
  BY DEF Dependents, Predecessors, IInv
<1>2. i \notin Scheduled
  BY DEF IInv, CountInv
<1>3. IsFiniteSet(Predecessors(graph, d) \ Scheduled)
  BY OperationsFacts, PredecessorsAreOperations, FS_Subset DEF IInv
<1>4. Cardinality(Predecessors(graph, d) \ Scheduled) # 0
  BY <1>1, <1>2, <1>3, FS_EmptySet
<1>5. QED
  BY <1>1, <1>4 DEF IInv, CountInv

\* What one iteration changes.
LEMMA ScheduleNextFacts ==
  ASSUME IInv, NEW i \in ready, ScheduleNext(i)
  PROVE  /\ phase = "ordering" /\ phase' = phase /\ graph' = graph /\ error' = error
         /\ i \in Operations(graph) /\ i \notin Scheduled /\ indegree[i] = 0
         /\ order' = Append(order, i)
         /\ indegree' = [ d \in DOMAIN indegree |->
                            IF d \in Dependents(i) THEN indegree[d] - 1 ELSE indegree[d] ]
         /\ ready' = (ready \ {i}) \cup { d \in Dependents(i) : indegree'[d] = 0 }
<1>1. phase = "ordering"
  BY DEF ScheduleNext
<1>2. \A d \in Dependents(i) : indegree[d] # 0
  BY <1>1, NoUnderflow
<1>3. i \in Operations(graph) /\ i \notin Scheduled /\ indegree[i] = 0
  BY <1>1 DEF IInv, CountInv
<1>4. QED
  BY <1>1, <1>2, <1>3 DEF ScheduleNext, StillReady

\* The order grows by one operation, all of whose predecessors it holds.
LEMMA ScheduleNextOrder ==
  ASSUME IInv, NEW i \in ready, ScheduleNext(i)
  PROVE  OrderInv' /\ Scheduled' = Scheduled \cup {i}
<1> DEFINE Ops == Operations(graph)
<1>1. /\ graph' = graph /\ i \in Ops /\ i \notin Scheduled /\ order' = Append(order, i)
      /\ phase = "ordering" /\ indegree[i] = 0
  BY ScheduleNextFacts
<1>2. /\ order \in Seq(Ops)
      /\ \A m, n \in 1 .. Len(order) : order[m] = order[n] => m = n
      /\ \A n \in 1 .. Len(order) : \A p \in Predecessors(graph, order[n]) :
           \E m \in 1 .. n - 1 : order[m] = p
  BY DEF IInv, OrderInv
<1>3. Len(order) \in Nat
  BY <1>2, LenProperties
<1>4. Scheduled = { order[n] : n \in 1 .. Len(order) }
  BY <1>2, DistinctElements DEF Scheduled
<1>5. /\ order' \in Seq(Ops) /\ Len(order') = Len(order) + 1
      /\ \A n \in 1 .. Len(order) : order'[n] = order[n]
      /\ order'[Len(order) + 1] = i
  BY <1>1, <1>2, AppendProperties
<1>6. \A m, n \in 1 .. Len(order') : order'[m] = order'[n] => m = n
  <2> SUFFICES ASSUME NEW m \in 1 .. Len(order'), NEW n \in 1 .. Len(order'),
                      order'[m] = order'[n]
               PROVE  m = n
    OBVIOUS
  <2>1. CASE m \in 1 .. Len(order) /\ n \in 1 .. Len(order)
    BY <1>2, <1>5, <2>1
  <2>2. CASE m = Len(order) + 1 /\ n \in 1 .. Len(order)
    BY <1>1, <1>4, <1>5, <2>2
  <2>3. CASE m \in 1 .. Len(order) /\ n = Len(order) + 1
    BY <1>1, <1>4, <1>5, <2>3
  <2>4. CASE m = Len(order) + 1 /\ n = Len(order) + 1
    BY <2>4
  <2>5. QED
    BY <1>3, <1>5, <2>1, <2>2, <2>3, <2>4
<1>7. Scheduled' = Scheduled \cup {i}
  <2>1. Scheduled' = { order'[n] : n \in 1 .. Len(order') }
    BY <1>5, <1>6, DistinctElements DEF Scheduled
  <2>2. 1 .. Len(order') = (1 .. Len(order)) \cup {Len(order) + 1}
    BY <1>3, <1>5
  <2>3. QED
    BY <1>4, <1>5, <2>1, <2>2
<1>8. Predecessors(graph, i) \subseteq Scheduled
  <2>1. IsFiniteSet(Predecessors(graph, i) \ Scheduled)
    BY OperationsFacts, PredecessorsAreOperations, FS_Subset DEF IInv
  <2>2. Cardinality(Predecessors(graph, i) \ Scheduled) = 0
    BY <1>1 DEF IInv, CountInv
  <2>3. QED
    BY <2>1, <2>2, FS_EmptySet
<1>9. \A n \in 1 .. Len(order') : \A p \in Predecessors(graph, order'[n]) :
        \E m \in 1 .. n - 1 : order'[m] = p
  <2> SUFFICES ASSUME NEW n \in 1 .. Len(order'), NEW p \in Predecessors(graph, order'[n])
               PROVE  \E m \in 1 .. n - 1 : order'[m] = p
    OBVIOUS
  <2>1. CASE n \in 1 .. Len(order)
    <3>1. p \in Predecessors(graph, order[n])
      BY <1>5, <2>1
    <3>2. PICK m \in 1 .. n - 1 : order[m] = p
      BY <1>2, <2>1, <3>1
    <3>3. order'[m] = p
      BY <1>3, <1>5, <2>1, <3>2
    <3>4. QED
      BY <3>3
  <2>2. CASE n = Len(order) + 1
    <3>1. p \in Scheduled
      BY <1>5, <1>8, <2>2
    <3>2. PICK m \in 1 .. Len(order) : order[m] = p
      BY <1>4, <3>1
    <3>3. m \in 1 .. n - 1 /\ order'[m] = p
      BY <1>3, <1>5, <2>2, <3>2
    <3>4. QED
      BY <3>3
  <2>3. QED
    BY <1>3, <1>5, <2>1, <2>2
<1>10. OrderInv'
  BY <1>1, <1>5, <1>6, <1>9 DEF OrderInv, Predecessors, Edges
<1>11. QED
  BY <1>7, <1>10

\* The counters go down by one for exactly the dependents of what was scheduled.
LEMMA ScheduleNextCounts ==
  ASSUME IInv, NEW i \in ready, ScheduleNext(i)
  PROVE  CountInv'
<1> DEFINE Ops == Operations(graph)
           Left(d) == Predecessors(graph, d) \ Scheduled
<1>1. /\ phase = "ordering" /\ phase' = phase /\ graph' = graph
      /\ i \in Ops /\ i \notin Scheduled /\ indegree[i] = 0
      /\ indegree' = [ d \in DOMAIN indegree |->
                         IF d \in Dependents(i) THEN indegree[d] - 1 ELSE indegree[d] ]
      /\ ready' = (ready \ {i}) \cup { d \in Dependents(i) : indegree'[d] = 0 }
  BY ScheduleNextFacts
<1>2. Scheduled' = Scheduled \cup {i}
  BY ScheduleNextOrder
<1>3. /\ indegree \in [Ops -> Nat]
      /\ \A d \in Ops : indegree[d] = Cardinality(Left(d))
      /\ ready = { d \in Ops \ Scheduled : indegree[d] = 0 }
  BY <1>1 DEF IInv, CountInv
<1>4. \A d \in Ops : IsFiniteSet(Left(d))
  BY OperationsFacts, PredecessorsAreOperations, FS_Subset DEF IInv
<1>5. \A d \in Ops : d \in Dependents(i) <=> i \in Left(d)
  BY <1>1 DEF Dependents, Predecessors
<1>6. \A d \in Ops : Cardinality(Left(d) \ {i}) =
                       IF i \in Left(d) THEN Cardinality(Left(d)) - 1 ELSE Cardinality(Left(d))
  BY <1>4, FS_RemoveElement
<1>7. \A d \in Ops : indegree'[d] = Cardinality(Left(d) \ {i})
  BY <1>1, <1>3, <1>5, <1>6
<1>8. \A d \in Ops : Left(d) \ {i} = Predecessors(graph, d) \ Scheduled'
  BY <1>2
<1>9. \A d \in Ops : IsFiniteSet(Left(d) \ {i})
  BY <1>4, FS_Subset
<1>10. indegree' \in [Ops -> Nat]
  <2>1. \A d \in Ops : Cardinality(Left(d) \ {i}) \in Nat
    BY <1>9, FS_CardinalityType
  <2>2. DOMAIN indegree' = Ops
    BY <1>1, <1>3
  <2>3. \A d \in Ops : indegree'[d] \in Nat
    BY <1>7, <2>1
  <2>4. indegree' = [ d \in Ops |-> indegree'[d] ]
    BY <1>1, <1>3, <2>2
  <2>5. QED
    BY <2>3, <2>4
<1>11. Dependents(i) \subseteq Ops
  BY DEF Dependents
<1>12. i \notin Dependents(i)
  <2>1. Cardinality(Left(i)) = 0
    BY <1>1, <1>3
  <2>2. Left(i) = {}
    BY <1>1, <1>4, <2>1, FS_EmptySet
  <2>3. QED
    BY <1>1, <1>5, <2>2
<1>13. \A d \in Dependents(i) : d \notin Scheduled
  <2> SUFFICES ASSUME NEW d \in Dependents(i), d \in Scheduled
               PROVE  FALSE
    OBVIOUS
  <2>1. PICK n \in 1 .. Len(order) : order[n] = d
    BY ScheduledFacts DEF IInv
  <2>2. i \in Predecessors(graph, d)
    BY <1>1 DEF Dependents, Predecessors
  <2>3. PICK m \in 1 .. n - 1 : order[m] = i
    BY <2>1, <2>2 DEF IInv, OrderInv
  <2>4. m \in 1 .. Len(order)
    BY <2>1, <2>3, ScheduledFacts DEF IInv
  <2>5. i \in Scheduled
    BY <2>3, <2>4, ScheduledFacts DEF IInv
  <2>6. QED
    BY <1>1, <2>5
<1>14. ready' = { d \in Ops \ Scheduled' : indegree'[d] = 0 }
  <2>1. \A d \in Ops : d \notin Dependents(i) => indegree'[d] = indegree[d]
    BY <1>1, <1>3
  <2>2. \A d \in Dependents(i) : d \notin ready
    <3> SUFFICES ASSUME NEW d \in Dependents(i) PROVE indegree[d] # 0
      BY <1>3
    <3>1. QED
      BY <1>1, NoUnderflow
  <2>3. \A d \in Ops : d \in ready' <=> d \in Ops \ Scheduled' /\ indegree'[d] = 0
    <3> SUFFICES ASSUME NEW d \in Ops
                 PROVE  d \in ready' <=> d \in Ops \ Scheduled' /\ indegree'[d] = 0
      OBVIOUS
    <3>1. CASE d \in Dependents(i)
      BY <1>1, <1>2, <1>12, <1>13, <2>2, <3>1
    <3>2. CASE d \notin Dependents(i)
      BY <1>1, <1>2, <1>3, <2>1, <3>2
    <3>3. QED
      BY <3>1, <3>2
  <2>4. ready' \subseteq Ops
    BY <1>1, <1>3, <1>11
  <2>5. QED
    BY <2>3, <2>4
<1>15. \A d \in Ops : indegree'[d] = Cardinality(Predecessors(graph, d) \ Scheduled')
  BY <1>7, <1>8
<1>16. \A d : Predecessors(graph', d) = Predecessors(graph, d)
  BY <1>1
<1>17. Operations(graph') = Ops
  BY <1>1
<1> HIDE DEF Ops, Left
<1>18. QED
  BY <1>1, <1>10, <1>14, <1>15, <1>16, <1>17 DEF CountInv

\* One iteration keeps the invariant.
LEMMA ScheduleNextPreserves ==
  ASSUME IInv, NEW i \in ready, ScheduleNext(i)
  PROVE  IInv'
<1>1. /\ phase = "ordering" /\ phase' = phase /\ graph' = graph /\ error' = error
  BY ScheduleNextFacts
<1>2. OrderInv'
  BY ScheduleNextOrder
<1>3. CountInv'
  BY ScheduleNextCounts
<1>4. IsSchedulable(graph')
  BY <1>1 DEF IInv
<1>5. EndInv'
  BY <1>1 DEF IInv, EndInv
<1>6. ready' \subseteq Operations(graph')
  BY <1>1, <1>3 DEF CountInv
<1>7. QED
  BY <1>1, <1>2, <1>3, <1>4, <1>5, <1>6 DEF IInv

\* When nothing is ready, what has not been scheduled waits for itself.
LEMMA FinishPreserves ==
  ASSUME IInv, Finish
  PROVE  IInv'
<1> DEFINE Rest == Operations(graph) \ Scheduled
<1>1. /\ phase = "ordering" /\ ready = {} /\ error = "none"
      /\ UNCHANGED << graph, indegree, ready, order >>
  BY DEF Finish, IInv, EndInv
<1>2. OrderInv' /\ IsSchedulable(graph') /\ Scheduled' = Scheduled
  BY <1>1 DEF IInv, OrderInv, Predecessors, Edges, Scheduled
<1>3. \A i \in Rest : Predecessors(graph, i) \cap Rest # {}
  <2> SUFFICES ASSUME NEW i \in Rest
               PROVE  Predecessors(graph, i) \cap Rest # {}
    OBVIOUS
  <2>1. indegree[i] # 0
    BY <1>1 DEF IInv, CountInv
  <2>2. Cardinality(Predecessors(graph, i) \ Scheduled) # 0
    BY <1>1, <2>1 DEF IInv, CountInv
  <2>3. Predecessors(graph, i) \ Scheduled # {}
    BY <2>2, FS_EmptySet
  <2>4. QED
    BY <2>3, PredecessorsAreOperations
<1>4. CASE Len(order) # Len(graph.ops)
  <2>1. Rest # {}
    BY <1>4, ScheduledFacts DEF IInv
  <2>2. phase' = "rejected" /\ error' = "cycle"
    BY <1>4 DEF Finish
  <2>3. \E S \in SUBSET Operations(graph) : Waiting(S)
    <3>1. Waiting(Rest) /\ Rest \in SUBSET Operations(graph)
      BY <1>3, <2>1 DEF Waiting
    <3>2. QED
      BY <3>1
  <2>4. EndInv'
    BY <1>1, <2>2, <2>3 DEF IInv, EndInv, Waiting
  <2>5. CountInv'
    BY <2>2 DEF CountInv
  <2>6. QED
    BY <1>1, <1>2, <2>2, <2>4, <2>5 DEF IInv
<1>5. CASE Len(order) = Len(graph.ops)
  <2>1. phase' = "scheduled" /\ error' = "none"
    BY <1>1, <1>5 DEF Finish
  <2>2. EndInv'
    BY <1>1, <1>5, <2>1 DEF IInv, EndInv
  <2>3. CountInv'
    BY <1>1, <1>2, <2>1 DEF IInv, CountInv
  <2>4. QED
    BY <1>1, <1>2, <2>1, <2>2, <2>3 DEF IInv
<1>6. QED
  BY <1>4, <1>5

\* The invariant reads nothing but the variables.
LEMMA StutterPreserves == IInv /\ UNCHANGED vars => IInv'
<1> SUFFICES ASSUME IInv, UNCHANGED vars PROVE IInv'
  OBVIOUS
<1>1. /\ phase' = phase /\ graph' = graph /\ indegree' = indegree
      /\ ready' = ready /\ order' = order /\ error' = error
  BY DEF vars
<1>2. OrderInv'
  BY <1>1 DEF IInv, OrderInv
<1>3. Scheduled' = Scheduled
  BY <1>1 DEF Scheduled
<1>4. CountInv'
  BY <1>1, <1>3 DEF IInv, CountInv
<1>5. EndInv'
  BY <1>1 DEF IInv, EndInv, Waiting
<1>6. QED
  BY <1>1, <1>2, <1>4, <1>5 DEF IInv

\* Every step keeps the invariant.
LEMMA NextPreserves == IInv /\ [Next]_vars => IInv'
<1> SUFFICES ASSUME IInv, [Next]_vars PROVE IInv'
  OBVIOUS
<1>1. CASE phase = "idle" /\ \E g \in Graphs : StartOrdering(g)
  BY <1>1, StartOrderingPreserves, GraphsAssumption
<1>2. CASE \E i \in ready : ScheduleNext(i)
  BY <1>2, ScheduleNextPreserves
<1>3. CASE Finish
  BY <1>3, FinishPreserves
<1>4. CASE UNCHANGED vars
  BY <1>4, StutterPreserves
<1>5. QED
  BY <1>1, <1>2, <1>3, <1>4 DEF Next

\* The invariant holds in every reachable state of build_execution_schedule.
THEOREM Invariance == Spec => []IInv
BY InitEstablishes, NextPreserves, PTL DEF Spec

(***************************************************************************)
(* The properties.                                                         *)
(***************************************************************************)

\* build_execution_schedule keeps the shape of its state, and the schedule never
\* outgrows the graph.
THEOREM TypeCorrect == Spec => []TypeOK
<1>1. IInv => TypeOK
  <2> SUFFICES ASSUME IInv PROVE TypeOK
    OBVIOUS
  <2>1. Len(order) <= Len(graph.ops)
    BY ScheduledFacts DEF IInv
  <2>2. error \in {"none", "duplicate_producer", "missing_producer",
                   "dependency_underflow", "cycle"}
    BY DEF IInv, EndInv
  <2>3. order \in Seq(Operations(graph))
    BY DEF IInv, OrderInv
  <2>4. phase \in {"ordering", "scheduled"} => indegree \in [Operations(graph) -> Nat]
    BY DEF IInv, CountInv
  <2>5. QED
    BY <2>1, <2>2, <2>3, <2>4 DEF IInv, TypeOK
<1>2. QED
  BY Invariance, <1>1, PTL

\* The in-degrees always count what an operation still waits for, and nothing is
\* scheduled twice.
THEOREM CountsAreExactHolds == Spec => []CountsAreExact
<1>1. IInv => CountsAreExact
  <2> SUFFICES ASSUME IInv PROVE CountsAreExact
    OBVIOUS
  <2>1. DOMAIN order = 1 .. Len(order)
    BY LenProperties DEF IInv, OrderInv
  <2>2. \A m, n \in DOMAIN order : order[m] = order[n] => m = n
    BY <2>1 DEF IInv, OrderInv
  <2>3. QED
    BY <2>2 DEF IInv, CountInv, CountsAreExact
<1>2. QED
  BY Invariance, <1>1, PTL

\* No set of operations waits for itself in a graph that has been scheduled: the
\* first of them to run would run before the one it waits for.
LEMMA ScheduledIsAcyclic ==
  ASSUME IInv, phase = "scheduled", NEW S \in SUBSET Operations(graph), Waiting(S)
  PROVE  FALSE
<1> DEFINE At == { n \in 1 .. Len(order) : order[n] \in S }
<1>1. Len(order) \in Nat /\ Scheduled = { order[n] : n \in 1 .. Len(order) }
  BY ScheduledFacts DEF IInv
<1>2. S \subseteq Scheduled
  BY ScheduledFacts DEF IInv, EndInv
<1>3. At # {}
  <2>1. PICK i \in S : TRUE
    BY DEF Waiting
  <2>2. PICK n \in 1 .. Len(order) : order[n] = i
    BY <1>1, <1>2
  <2>3. QED
    BY <2>1, <2>2
<1>4. PICK n \in At : \A x \in At : n <= x
  <2>1. At \in SUBSET Nat
    BY <1>1
  <2>2. QED
    BY <1>3, <2>1, LeastElement
<1>5. PICK p \in Predecessors(graph, order[n]) : p \in S
  BY DEF Waiting
<1>6. PICK m \in 1 .. n - 1 : order[m] = p
  BY <1>5 DEF IInv, OrderInv
<1>7. m \in At
  BY <1>1, <1>5, <1>6
<1>8. QED
  BY <1>1, <1>4, <1>6, <1>7

\* "graph contains a cycle" is reported for graphs with a cycle and for no
\* others, and "dependency underflow" never.
THEOREM RejectsOnlyCyclesHolds == Spec => []RejectsOnlyCycles
<1>1. IInv => RejectsOnlyCycles
  <2> SUFFICES ASSUME IInv PROVE RejectsOnlyCycles
    OBVIOUS
  <2>1. error # "dependency_underflow"
    BY DEF IInv, EndInv
  <2>2. ASSUME error = "cycle"
        PROVE  /\ phase \notin {"idle", "ordering"}
               /\ ~HasDuplicateProducer(graph) /\ ~HasMissingProducer(graph)
               /\ \E S \in SUBSET Operations(graph) : Waiting(S)
    BY <2>2 DEF IInv, EndInv
  <2>3. ASSUME phase \notin {"idle", "ordering"},
               ~HasDuplicateProducer(graph), ~HasMissingProducer(graph),
               \E S \in SUBSET Operations(graph) : Waiting(S)
        PROVE  error = "cycle"
    <3>1. phase # "scheduled"
      BY <2>3, ScheduledIsAcyclic
    <3>2. phase = "rejected"
      BY <2>3, <3>1 DEF IInv
    <3>3. QED
      BY <2>3, <3>2 DEF IInv, EndInv
  <2>4. (\E S \in SUBSET Operations(graph) : Waiting(S)) <=>
          \E S \in SUBSET Operations(graph) :
            S # {} /\ \A i \in S : Predecessors(graph, i) \cap S # {}
    BY DEF Waiting
  <2>5. QED
    BY <2>1, <2>2, <2>3, <2>4 DEF RejectsOnlyCycles
<1>2. QED
  BY Invariance, <1>1, PTL

\* A position of the order is where the operation is.
LEMMA PositionOfScheduled ==
  ASSUME IInv, NEW n \in 1 .. Len(order)
  PROVE  Position(order[n]) = n
<1>1. DOMAIN order = 1 .. Len(order)
  BY LenProperties DEF IInv, OrderInv
<1>2. \A m, k \in 1 .. Len(order) : order[m] = order[k] => m = k
  BY DEF IInv, OrderInv
<1>3. QED
  BY <1>1, <1>2 DEF Position

\* An operation that has run came after each of its predecessors.
LEMMA AfterPredecessors ==
  ASSUME IInv, NEW i \in Scheduled, NEW p \in Predecessors(graph, i)
  PROVE  p \in Scheduled /\ Position(p) < Position(i)
<1>1. Len(order) \in Nat /\ Scheduled = { order[n] : n \in 1 .. Len(order) }
  BY ScheduledFacts DEF IInv
<1>2. PICK n \in 1 .. Len(order) : order[n] = i
  BY <1>1
<1>3. PICK m \in 1 .. n - 1 : order[m] = p
  BY <1>2 DEF IInv, OrderInv
<1>4. m \in 1 .. Len(order) /\ m < n
  BY <1>1, <1>3
<1>5. Position(i) = n /\ Position(p) = m
  BY <1>2, <1>3, <1>4, PositionOfScheduled
<1>6. QED
  BY <1>1, <1>3, <1>4, <1>5

\* Along the chain of side effects: the last one that did not come in order
\* would be chained to one that did.
LEMMA EffectsInOrder ==
  ASSUME IInv, NEW i \in Scheduled, i \in SideEffects(graph),
         NEW p \in SideEffects(graph), p < i
  PROVE  p \in Scheduled /\ Position(p) < Position(i)
<1> DEFINE Fine(q) == q \in Scheduled /\ Position(q) < Position(i)
           Bad == { q \in SideEffects(graph) : q < i /\ ~Fine(q) }
<1>1. /\ Len(graph.ops) \in Nat /\ Operations(graph) = 1 .. Len(graph.ops)
      /\ SideEffects(graph) \subseteq Operations(graph)
  BY OperationsFacts DEF IInv, SideEffects
<1>2. ASSUME Bad # {} PROVE FALSE
  <2>1. PICK q \in Bad : \A x \in Bad : x <= q
    <3>1. Bad \in SUBSET (0 .. Len(graph.ops))
      BY <1>1
    <3>2. QED
      BY <1>1, <1>2, <3>1, GreatestElement
  <2> DEFINE Later == { k \in SideEffects(graph) : q < k }
  <2>2. i \in Later /\ Later \in SUBSET Nat
    BY <1>1
  <2>3. PICK k \in Later : \A x \in Later : k <= x
    BY <2>2, LeastElement
  <2>4. q \in SideEffects(graph) /\ k \in SideEffects(graph) /\ q < k /\ q < i /\ k <= i
    BY <2>2, <2>3
  <2>5. \A x \in SideEffects(graph) : ~(q < x /\ x < k)
    BY <1>1, <2>3, <2>4
  <2>6. << q, k >> \in SideEffectEdges(graph)
    BY <2>4, <2>5 DEF SideEffectEdges
  <2>7. q \in Predecessors(graph, k)
    BY <1>1, <2>4, <2>6 DEF Predecessors, Edges
  <2>8. k \in Scheduled /\ (k = i \/ Position(k) < Position(i))
    <3>1. CASE k = i
      BY <3>1
    <3>2. CASE k # i
      <4>1. k < i /\ ~(k <= q)
        BY <1>1, <2>4, <3>2
      <4>2. k \notin Bad
        BY <2>1, <4>1
      <4>3. QED
        BY <2>4, <4>1, <4>2
    <3>3. QED
      BY <3>1, <3>2
  <2>9. q \in Scheduled /\ Position(q) < Position(k)
    BY <2>7, <2>8, AfterPredecessors
  <2>10. \A x \in Scheduled : Position(x) \in Nat
    <3> SUFFICES ASSUME NEW x \in Scheduled PROVE Position(x) \in Nat
      OBVIOUS
    <3>1. PICK n \in 1 .. Len(order) : order[n] = x
      BY ScheduledFacts DEF IInv
    <3>2. QED
      BY <3>1, PositionOfScheduled
  <2>11. Fine(q)
    BY <2>8, <2>9, <2>10
  <2>12. QED
    BY <2>1, <2>11
<1>3. p \notin Bad
  BY <1>2
<1>4. QED
  BY <1>3

\* At any time, what has been scheduled came after the producers of what it
\* reads and after the side effects stored before it.
THEOREM DependenciesFirstHolds == Spec => []DependenciesFirst
<1>1. IInv => DependenciesFirst
  <2> SUFFICES ASSUME IInv, NEW i \in Scheduled
               PROVE  /\ \A p \in Operations(graph) :
                           Writes(graph, p) \cap Reads(graph, i) # {} =>
                             p \in Scheduled /\ Position(p) < Position(i)
                      /\ i \in SideEffects(graph) =>
                           \A p \in SideEffects(graph) :
                             p < i => p \in Scheduled /\ Position(p) < Position(i)
    BY DEF DependenciesFirst
  <2>1. ASSUME NEW p \in Operations(graph), Writes(graph, p) \cap Reads(graph, i) # {}
        PROVE  p \in Scheduled /\ Position(p) < Position(i)
    <3>1. i \in Operations(graph)
      BY ScheduledFacts DEF IInv
    <3>2. p \in Predecessors(graph, i)
      BY <2>1, <3>1 DEF Predecessors, Edges, DataEdges
    <3>3. QED
      BY <3>2, AfterPredecessors
  <2>2. ASSUME i \in SideEffects(graph), NEW p \in SideEffects(graph), p < i
        PROVE  p \in Scheduled /\ Position(p) < Position(i)
    BY <2>2, EffectsInOrder
  <2>3. QED
    BY <2>1, <2>2
<1>2. QED
  BY Invariance, <1>1, PTL

(***************************************************************************)
(* The least topological order.                                            *)
(***************************************************************************)

\* What has been scheduled before the nth operation.
Before(n) == { order[m] : m \in 1 .. n - 1 }

\* Of the operations that could have gone next, the one with the least id did.
GreedyInv ==
  \A n \in 1 .. Len(order) : \A i \in Operations(graph) \ Before(n) :
    Predecessors(graph, i) \subseteq Before(n) =>
      graph.ops[order[n]].id <= graph.ops[i].id

\* Whoever waits for nobody is in the ready set, and the least id of that set is
\* taken.
LEMMA ScheduleNextIsGreedy ==
  ASSUME IInv, GreedyInv, NEW i \in ready, ScheduleNext(i)
  PROVE  GreedyInv'
<1>1. /\ graph' = graph /\ phase = "ordering" /\ order' = Append(order, i)
  BY ScheduleNextFacts
<1>2. order \in Seq(Operations(graph)) /\ Len(order) \in Nat /\ i \in Operations(graph)
  BY LenProperties DEF IInv, OrderInv
<1>3. /\ Len(order') = Len(order) + 1
      /\ \A n \in 1 .. Len(order) : order'[n] = order[n]
      /\ order'[Len(order) + 1] = i
  BY <1>1, <1>2, AppendProperties
<1>4. \A n \in 1 .. Len(order) + 1 : Before(n)' = Before(n)
  BY <1>2, <1>3 DEF Before
<1>5. Before(Len(order) + 1) = Scheduled
  <2>1. Scheduled = { order[m] : m \in 1 .. Len(order) }
    BY ScheduledFacts DEF IInv
  <2>2. 1 .. (Len(order) + 1) - 1 = 1 .. Len(order)
    BY <1>2
  <2>3. QED
    BY <2>1, <2>2 DEF Before
<1>6. ASSUME NEW j \in Operations(graph) \ Scheduled, Predecessors(graph, j) \subseteq Scheduled
      PROVE  graph.ops[i].id <= graph.ops[j].id
  <2>1. Predecessors(graph, j) \ Scheduled = {}
    BY <1>6
  <2>2. Cardinality(Predecessors(graph, j) \ Scheduled) = 0
    BY <2>1, FS_EmptySet
  <2>3. j \in ready
    BY <1>1, <2>2 DEF IInv, CountInv
  <2>4. QED
    BY <2>3 DEF ScheduleNext, Least
<1>7. SUFFICES ASSUME NEW n \in 1 .. Len(order'), NEW j \in Operations(graph) \ Before(n),
                      Predecessors(graph, j) \subseteq Before(n)
               PROVE  graph.ops[order'[n]].id <= graph.ops[j].id
  <2>1. \A n \in 1 .. Len(order') : Before(n)' = Before(n)
    BY <1>3, <1>4
  <2>2. \A j : Predecessors(graph, j)' = Predecessors(graph, j)
    BY <1>1 DEF Predecessors, Edges
  <2>3. QED
    BY <1>1, <1>7, <2>1, <2>2 DEF GreedyInv
<1>8. CASE n \in 1 .. Len(order)
  BY <1>3, <1>7, <1>8 DEF GreedyInv
<1>9. CASE n = Len(order) + 1
  BY <1>3, <1>7, <1>5, <1>6, <1>9
<1>10. QED
  BY <1>2, <1>3, <1>8, <1>9

\* Nothing else schedules an operation.
LEMMA NextIsGreedy ==
  ASSUME IInv, GreedyInv, [Next]_vars
  PROVE  GreedyInv'
<1>1. CASE phase = "idle" /\ \E g \in Graphs : StartOrdering(g)
  <2>1. order' = order /\ order = << >>
    BY <1>1 DEF StartOrdering, RejectGraph, IInv, EndInv
  <2>2. Len(order') = 0
    BY <2>1, EmptySeq
  <2>3. QED
    BY <2>2 DEF GreedyInv
<1>2. CASE \E i \in ready : ScheduleNext(i)
  BY <1>2, ScheduleNextIsGreedy
<1>3. CASE Finish \/ UNCHANGED vars
  <2>1. graph' = graph /\ order' = order
    BY <1>3 DEF Finish, vars
  <2>2. (\A n : Before(n)' = Before(n))
        /\ \A i : Predecessors(graph, i)' = Predecessors(graph, i)
    BY <2>1 DEF Before, Predecessors, Edges
  <2>3. QED
    BY <2>1, <2>2 DEF GreedyInv
<1>4. QED
  BY <1>1, <1>2, <1>3 DEF Next

THEOREM GreedyInvariance == Spec => []GreedyInv
<1>1. Init => GreedyInv
  BY EmptySeq DEF Init, GreedyInv
<1>2. IInv /\ GreedyInv /\ [Next]_vars => GreedyInv'
  BY NextIsGreedy
<1>3. QED
  BY <1>1, <1>2, Invariance, PTL DEF Spec

\* Where another topological order parts from the schedule, it takes an operation
\* that was ready and has a greater id.
LEMMA GreedyIsLeast ==
  ASSUME IInv, GreedyInv, phase = "scheduled",
         NEW perm \in [1 .. Len(order) -> Operations(graph)],
         \A m, n \in DOMAIN perm : perm[m] = perm[n] => m = n,
         Respects(perm, graph), perm # order
  PROVE  Precedes(order, perm, graph)
<1>1. /\ Len(order) \in Nat /\ Len(order) = Len(graph.ops)
      /\ order \in [1 .. Len(order) -> Operations(graph)] /\ DOMAIN order = 1 .. Len(order)
      /\ DOMAIN perm = 1 .. Len(order)
  BY LenProperties DEF IInv, OrderInv, EndInv
<1>2. \A p \in Operations(graph) : \E k \in 1 .. Len(order) : perm[k] = p
  <2>1. perm \in Seq(Operations(graph)) /\ Len(perm) = Len(order)
    <3>1. PICK k \in Nat : k = Len(order)
      BY <1>1
    <3>2. perm \in [1 .. k -> Operations(graph)]
      BY <3>1
    <3>3. perm \in Seq(Operations(graph))
      BY <3>2
    <3>4. QED
      BY <1>1, <3>3, LenProperties
  <2>2. /\ Elements(perm) = { perm[n] : n \in 1 .. Len(perm) }
        /\ Elements(perm) \subseteq Operations(graph)
        /\ Cardinality(Elements(perm)) = Len(perm)
    BY <1>1, <2>1, DistinctElements
  <2>3. IsFiniteSet(Operations(graph)) /\ Cardinality(Operations(graph)) = Len(graph.ops)
    BY OperationsFacts DEF IInv
  <2>4. Operations(graph) = Elements(perm)
    BY <1>1, <2>1, <2>2, <2>3, FS_Subset
  <2>5. QED
    BY <2>1, <2>2, <2>4
<1> DEFINE Differ == { m \in 1 .. Len(order) : perm[m] # order[m] }
<1>3. Differ \in SUBSET Nat /\ Differ # {}
  <2>1. Differ # {}
    BY <1>1
  <2>2. QED
    BY <2>1
<1>4. PICK n \in Differ : \A m \in Differ : n <= m
  BY <1>3, LeastElement
<1>5. n \in 1 .. Len(order) /\ perm[n] # order[n]
  OBVIOUS
<1>6. \A m \in 1 .. n - 1 : m \in 1 .. Len(order) /\ order[m] = perm[m]
  <2> SUFFICES ASSUME NEW m \in 1 .. n - 1
               PROVE  m \in 1 .. Len(order) /\ order[m] = perm[m]
    OBVIOUS
  <2>1. m \in 1 .. Len(order) /\ ~(n <= m)
    BY <1>1, <1>5
  <2>2. m \notin Differ
    BY <1>4, <2>1
  <2>3. QED
    BY <2>1, <2>2
<1> HIDE DEF Differ
<1>7. Before(n) = { perm[m] : m \in 1 .. n - 1 }
  BY <1>6 DEF Before
<1>8. perm[n] \in Operations(graph) \ Before(n)
  <2>1. \A m \in 1 .. n - 1 : m # n
    BY <1>5
  <2>2. \A m \in 1 .. n - 1 : perm[m] # perm[n]
    BY <1>1, <1>5, <1>6, <2>1
  <2>3. QED
    BY <1>5, <1>7, <2>2
<1>9. Predecessors(graph, perm[n]) \subseteq Before(n)
  <2> SUFFICES ASSUME NEW p \in Predecessors(graph, perm[n])
               PROVE  p \in Before(n)
    OBVIOUS
  <2>1. p \in Operations(graph) /\ << p, perm[n] >> \in Edges(graph)
    BY DEF Predecessors
  <2>2. PICK k \in 1 .. Len(order) : perm[k] = p
    BY <1>2, <2>1
  <2>3. k < n
    BY <1>1, <1>5, <2>1, <2>2 DEF Respects
  <2>4. k \in 1 .. n - 1
    BY <1>1, <1>5, <2>2, <2>3
  <2>5. QED
    BY <1>7, <2>2, <2>4
<1>10. graph.ops[order[n]].id <= graph.ops[perm[n]].id
  BY <1>5, <1>8, <1>9 DEF GreedyInv
<1>11. graph.ops[order[n]].id # graph.ops[perm[n]].id
       /\ graph.ops[order[n]].id \in Nat /\ graph.ops[perm[n]].id \in Nat
  BY <1>1, <1>5, <1>8 DEF IInv, IsSchedulable
<1>12. graph.ops[order[n]].id < graph.ops[perm[n]].id
  BY <1>10, <1>11
<1>13. QED
  BY <1>1, <1>5, <1>6, <1>12 DEF Precedes

\* The schedule is the least topological order by ids, so that it depends on the
\* order of storage only through the chain of side effects (the ordered ready set
\* of build_execution_schedule).
THEOREM LeastTopologicalOrderHolds == Spec => []LeastTopologicalOrder
<1>1. IInv /\ GreedyInv => LeastTopologicalOrder
  BY GreedyIsLeast DEF LeastTopologicalOrder
<1>2. QED
  BY <1>1, Invariance, GreedyInvariance, PTL
============================================================================
