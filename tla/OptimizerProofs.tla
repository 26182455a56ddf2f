-------------------------- MODULE OptimizerProofs --------------------------
(***************************************************************************)
(* Proofs about Optimizer, for every set of documents and graphs: what the *)
(* passes may never do to the side effects of a graph and to the order in  *)
(* which it is stored, what they leave without a reader, that a graph the  *)
(* loader accepts stays one, that what a graph computes is kept, and that  *)
(* one that verifies is broken in one case only.                           *)
(***************************************************************************)
EXTENDS Optimizer, SharedLemmas

(***************************************************************************)
(* Sequences, and sets of numbers in increasing order.                     *)
(***************************************************************************)

\* A sequence is a function on 1 .. Len.
LEMMA SequenceFacts ==
  ASSUME NEW s, IsSequence(s)
  PROVE  /\ Len(s) \in Nat /\ DOMAIN s = 1 .. Len(s)
         /\ Elements(s) = { s[k] : k \in 1 .. Len(s) }
<1>1. Len(s) \in Nat /\ DOMAIN s = 1 .. Len(s)
  BY LenProperties DEF IsSequence
<1>2. QED
  BY <1>1 DEF Elements

\* Such a function is a sequence.
LEMMA FunctionIsSequence ==
  ASSUME NEW k \in Nat, NEW f, f = [ i \in 1 .. k |-> f[i] ]
  PROVE  IsSequence(f) /\ Len(f) = k /\ DOMAIN f = 1 .. k
<1> DEFINE E == { f[i] : i \in 1 .. k }
<1>1. DOMAIN f = 1 .. k
  OBVIOUS
<1>2. f \in [ 1 .. k -> E ]
  OBVIOUS
<1>3. f \in Seq(E)
  BY <1>2
<1>4. Elements(f) = E
  BY <1>1 DEF Elements
<1>5. Len(f) = k
  <2>1. Len(f) \in Nat /\ DOMAIN f = 1 .. Len(f)
    BY <1>3, LenProperties
  <2>2. QED
    BY <1>1, <2>1
<1>6. QED
  BY <1>1, <1>3, <1>4, <1>5 DEF IsSequence

\* How many elements of the set come before this one, itself included.
PlaceIn(S, n) == Cardinality({ m \in S : m <= n })

\* Places are in the order of the elements.
LEMMA PlacesIncrease ==
  ASSUME NEW S \in SUBSET Nat, IsFiniteSet(S)
  PROVE  /\ Cardinality(S) \in Nat
         /\ \A n \in S : PlaceIn(S, n) \in 1 .. Cardinality(S)
         /\ \A m, n \in S : m < n => PlaceIn(S, m) < PlaceIn(S, n)
<1> DEFINE Upto(n) == { m \in S : m <= n }
<1>1. Cardinality(S) \in Nat
  BY FS_CardinalityType
<1>2. \A n \in S : /\ IsFiniteSet(Upto(n)) /\ Cardinality(Upto(n)) \in Nat
                   /\ Cardinality(Upto(n)) <= Cardinality(S)
  <2> SUFFICES ASSUME NEW n \in S
               PROVE  /\ IsFiniteSet(Upto(n)) /\ Cardinality(Upto(n)) \in Nat
                      /\ Cardinality(Upto(n)) <= Cardinality(S)
    OBVIOUS
  <2>1. Upto(n) \subseteq S
    OBVIOUS
  <2> HIDE DEF Upto
  <2>2. IsFiniteSet(Upto(n)) /\ Cardinality(Upto(n)) <= Cardinality(S)
    BY <2>1, FS_Subset
  <2>3. QED
    BY <2>2, FS_CardinalityType
<1>3. \A n \in S : n \in Upto(n)
  OBVIOUS
<1>4. ASSUME NEW m \in S, NEW n \in S, m < n
      PROVE  Cardinality(Upto(m)) < Cardinality(Upto(n))
  <2>0. \A x \in S : x \in Nat
    OBVIOUS
  <2>1. Upto(m) \subseteq Upto(n) /\ n \notin Upto(m) /\ n \in Upto(n)
    <3>1. \A x \in S : x <= m => x <= n
      BY <1>4, <2>0
    <3>2. ~(n <= m) /\ n <= n
      BY <1>4, <2>0
    <3>3. QED
      BY <3>1, <3>2
  <2>2. IsFiniteSet(Upto(n)) /\ Cardinality(Upto(m)) \in Nat /\ Cardinality(Upto(n)) \in Nat
    BY <1>2
  <2> HIDE DEF Upto
  <2>3. Upto(m) # Upto(n)
    BY <2>1
  <2>4. /\ Cardinality(Upto(m)) <= Cardinality(Upto(n))
        /\ Cardinality(Upto(n)) = Cardinality(Upto(m)) => Upto(n) = Upto(m)
    BY <2>1, <2>2, FS_Subset
  <2>5. QED
    BY <2>2, <2>3, <2>4
<1>5. \A n \in S : Cardinality(Upto(n)) # 0
  <2> SUFFICES ASSUME NEW n \in S PROVE Cardinality(Upto(n)) # 0
    OBVIOUS
  <2>1. Upto(n) # {}
    BY <1>3
  <2>2. QED
    BY <1>2, <2>1, FS_EmptySet
<1>6. \A n \in S : PlaceIn(S, n) = Cardinality(Upto(n))
  BY DEF PlaceIn
<1> HIDE DEF Upto
<1>7. QED
  BY <1>1, <1>2, <1>4, <1>5, <1>6

\* Every place up to the number of elements is taken.
LEMMA PlacesAreTaken ==
  ASSUME NEW S \in SUBSET Nat, IsFiniteSet(S), NEW k \in 1 .. Cardinality(S)
  PROVE  \E n \in S : PlaceIn(S, n) = k
<1> DEFINE N == Cardinality(S)
           places == { PlaceIn(S, n) : n \in S }
           place == [ n \in S |-> PlaceIn(S, n) ]
<1>1. /\ N \in Nat
      /\ \A n \in S : PlaceIn(S, n) \in 1 .. N
      /\ \A m, n \in S : m < n => PlaceIn(S, m) < PlaceIn(S, n)
  BY PlacesIncrease
<1>2. \A m, n \in S : PlaceIn(S, m) = PlaceIn(S, n) => m = n
  <2> SUFFICES ASSUME NEW m \in S, NEW n \in S, PlaceIn(S, m) = PlaceIn(S, n)
               PROVE  m = n
    OBVIOUS
  <2>1. m \in Nat /\ n \in Nat /\ PlaceIn(S, m) \in Nat
    BY <1>1
  <2>2. ~(m < n) /\ ~(n < m)
    BY <1>1, <2>1
  <2>3. QED
    BY <2>1, <2>2
<1>3. place \in Bijection(S, places)
  <2>1. place \in [ S -> places ]
    OBVIOUS
  <2>2. \A m, n \in S : place[m] = place[n] => m = n
    BY <1>2
  <2>3. \A p \in places : \E n \in S : place[n] = p
    OBVIOUS
  <2> HIDE DEF place, places
  <2>4. QED
    BY <2>1, <2>2, <2>3 DEF Bijection, Injection, Surjection, IsInjective
<1>4. IsFiniteSet(places) /\ Cardinality(places) = N
  BY <1>3, FS_Bijection DEF ExistsBijection
<1>5. places \subseteq 1 .. N
  BY <1>1
<1>6. IsFiniteSet(1 .. N) /\ Cardinality(1 .. N) = N
  <2>1. IsFiniteSet(1 .. N) /\ Cardinality(1 .. N) = IF 1 > N THEN 0 ELSE N - 1 + 1
    BY <1>1, FS_Interval
  <2>2. QED
    BY <1>1, <2>1
<1>7. places = 1 .. N
  <2> HIDE DEF places, N
  <2>1. QED
    BY <1>4, <1>5, <1>6, FS_Subset
<1>8. QED
  BY <1>7

\* InOrder lists the elements, each at its place.
LEMMA InOrderFacts ==
  ASSUME NEW S \in SUBSET Nat, IsFiniteSet(S)
  PROVE  LET s == InOrder(S)
         IN  /\ s \in Seq(S) /\ Len(s) = Cardinality(S) /\ DOMAIN s = 1 .. Len(s)
             /\ \A k \in 1 .. Len(s) : s[k] \in S /\ PlaceIn(S, s[k]) = k
             /\ \A n \in S : PlaceIn(S, n) \in 1 .. Len(s) /\ s[PlaceIn(S, n)] = n
             /\ \A j, k \in 1 .. Len(s) : j < k => s[j] < s[k]
<1> DEFINE s == InOrder(S)
           N == Cardinality(S)
<1>1. /\ N \in Nat
      /\ \A n \in S : PlaceIn(S, n) \in 1 .. N
      /\ \A m, n \in S : m < n => PlaceIn(S, m) < PlaceIn(S, n)
  BY PlacesIncrease
<1>2. \A k \in 1 .. N : \E n \in S : PlaceIn(S, n) = k
  BY PlacesAreTaken
<1>3. s = [ k \in 1 .. N |-> CHOOSE n \in S : PlaceIn(S, n) = k ]
  BY DEF InOrder, PlaceIn
<1>4. \A k \in 1 .. N : s[k] \in S /\ PlaceIn(S, s[k]) = k
  BY <1>2, <1>3
<1>5. DOMAIN s = 1 .. N /\ s \in [ 1 .. N -> S ]
  BY <1>3, <1>4
<1> HIDE DEF s
<1>6. s \in Seq(S) /\ Len(s) = N
  <2>1. PICK k \in Nat : k = N
    BY <1>1
  <2>2. s \in Seq(S)
    BY <1>5, <2>1
  <2>3. Len(s) \in Nat /\ DOMAIN s = 1 .. Len(s)
    BY <2>2, LenProperties
  <2>4. QED
    BY <1>1, <1>5, <2>2, <2>3
<1>7. \A m, n \in S : PlaceIn(S, m) <= PlaceIn(S, n) => m <= n
  <2> SUFFICES ASSUME NEW m \in S, NEW n \in S, PlaceIn(S, m) <= PlaceIn(S, n), ~(m <= n)
               PROVE  FALSE
    OBVIOUS
  <2>1. m \in Nat /\ n \in Nat /\ PlaceIn(S, m) \in Nat /\ PlaceIn(S, n) \in Nat
    BY <1>1
  <2>2. PlaceIn(S, n) < PlaceIn(S, m)
    BY <1>1, <2>1
  <2>3. QED
    BY <2>1, <2>2
<1>8. \A n \in S : s[PlaceIn(S, n)] = n
  <2> SUFFICES ASSUME NEW n \in S PROVE s[PlaceIn(S, n)] = n
    OBVIOUS
  <2> DEFINE m == s[PlaceIn(S, n)]
  <2>1. PlaceIn(S, n) \in 1 .. N
    BY <1>1
  <2>2. m \in S /\ PlaceIn(S, m) = PlaceIn(S, n)
    BY <1>4, <2>1
  <2> HIDE DEF m
  <2>3. PlaceIn(S, n) \in Nat /\ m \in Nat /\ n \in Nat
    BY <2>1, <2>2
  <2>4. m <= n /\ n <= m
    BY <1>7, <2>2, <2>3
  <2>5. QED
    BY <2>3, <2>4 DEF m
<1>9. \A j, k \in 1 .. N : j < k => s[j] < s[k]
  <2> SUFFICES ASSUME NEW j \in 1 .. N, NEW k \in 1 .. N, j < k
               PROVE  s[j] < s[k]
    OBVIOUS
  <2>1. s[j] \in S /\ s[k] \in S /\ PlaceIn(S, s[j]) = j /\ PlaceIn(S, s[k]) = k
    BY <1>4
  <2>2. j \in Nat /\ k \in Nat
    BY <1>1
  <2>3. PlaceIn(S, s[j]) <= PlaceIn(S, s[k])
    BY <2>1, <2>2
  <2>4. s[j] <= s[k]
    BY <1>7, <2>1, <2>3
  <2>5. s[j] \in Nat /\ s[k] \in Nat /\ s[j] # s[k]
    <3>1. j # k
      BY <2>2
    <3>2. QED
      BY <2>1, <3>1
  <2>6. QED
    BY <2>4, <2>5
<1>10. QED
  BY <1>1, <1>4, <1>5, <1>6, <1>8, <1>9 DEF s

(***************************************************************************)
(* Graphs.                                                                 *)
(***************************************************************************)

\* What the passes rely on, wherever the graph comes from.
IsGraph(g) == HasOperations(g) /\ HasResults(g)

\* Operations and side effects are finite sets of positions.
LEMMA PositionFacts ==
  ASSUME NEW g, HasOperations(g)
  PROVE  /\ Len(g.ops) \in Nat /\ Operations(g) = 1 .. Len(g.ops)
         /\ Operations(g) \in SUBSET Nat /\ IsFiniteSet(Operations(g))
         /\ SideEffects(g) \subseteq Operations(g)
         /\ SideEffects(g) \in SUBSET Nat /\ IsFiniteSet(SideEffects(g))
<1>1. Len(g.ops) \in Nat /\ Operations(g) = 1 .. Len(g.ops)
  BY SequenceFacts DEF HasOperations, Operations
<1>2. IsFiniteSet(Operations(g))
  BY <1>1, FS_Interval
<1>3. SideEffects(g) \subseteq Operations(g)
  BY DEF SideEffects
<1>4. IsFiniteSet(SideEffects(g))
  BY <1>2, <1>3, FS_Subset
<1>5. QED
  BY <1>1, <1>2, <1>3, <1>4

\* An operation writes its result and nothing else, and nobody else does.
LEMMA ResultFacts ==
  ASSUME NEW g, IsGraph(g), NEW i \in Operations(g)
  PROVE  /\ Writes(g, i) = { Output(g, i) }
         /\ \A v : v \in Writes(g, i) => Producers(g, v) = {i} /\ Producer(g, v) = i
<1>1. IsSequence(g.ops[i].outputs) /\ Len(g.ops[i].outputs) = 1
  BY DEF IsGraph, HasOperations, HasResults, IsOperation
<1>2. Writes(g, i) = { g.ops[i].outputs[k] : k \in 1 .. 1 }
  BY <1>1, SequenceFacts DEF Writes
<1>3. Writes(g, i) = { Output(g, i) }
  BY <1>2 DEF Output
<1>4. ASSUME NEW v \in Writes(g, i), NEW j \in Operations(g), v \in Writes(g, j)
      PROVE  j = i
  <2>1. Writes(g, i) \cap Writes(g, j) # {}
    BY <1>4
  <2>2. QED
    BY <2>1 DEF IsGraph, HasResults, HasDuplicateProducer
<1>5. QED
  BY <1>3, <1>4 DEF Producers, Producer

\* An operation reads its operands.
LEMMA OperandFacts ==
  ASSUME NEW g, HasOperations(g), NEW i \in Operations(g)
  PROVE  /\ Len(g.ops[i].inputs) \in Nat
         /\ DOMAIN g.ops[i].inputs = 1 .. Len(g.ops[i].inputs)
         /\ Reads(g, i) = { g.ops[i].inputs[k] : k \in 1 .. Len(g.ops[i].inputs) }
<1>1. IsSequence(g.ops[i].inputs)
  BY DEF HasOperations, IsOperation
<1>2. QED
  BY <1>1, SequenceFacts DEF Reads

\* The operations of the graph are stored in an order in which they can run.
Topological(g) == \A e \in DataEdges(g) : e[1] < e[2]

\* Pair by pair.
LEMMA TopologicalFacts ==
  ASSUME NEW g
  PROVE  Topological(g) <=> \A i, j \in Operations(g) : Writes(g, i) \cap Reads(g, j) # {} => i < j
<1>1. ASSUME Topological(g), NEW i \in Operations(g), NEW j \in Operations(g),
             Writes(g, i) \cap Reads(g, j) # {}
      PROVE  i < j
  <2>1. << i, j >> \in DataEdges(g)
    BY <1>1 DEF DataEdges
  <2>2. QED
    BY <1>1, <2>1 DEF Topological
<1>2. ASSUME \A i, j \in Operations(g) : Writes(g, i) \cap Reads(g, j) # {} => i < j
      PROVE  Topological(g)
  BY <1>2 DEF Topological, DataEdges
<1>3. QED
  BY <1>1, <1>2

(***************************************************************************)
(* Graphs with other operands: the loops of the passes.                    *)
(***************************************************************************)

\* h has the operations of g, whatever they read.
Follows(h, g) ==
  /\ {"ops", "values", "inputs", "outputs"} \subseteq DOMAIN h
  /\ IsSequence(h.ops) /\ Len(h.ops) = Len(g.ops)
  /\ h.inputs = g.inputs /\ h.outputs = g.outputs
  /\ \A i \in 1 .. Len(g.ops) :
       /\ IsOperation(h.ops[i])
       /\ h.ops[i].id = g.ops[i].id
       /\ h.ops[i].outputs = g.ops[i].outputs
       /\ h.ops[i].side_effect = g.ops[i].side_effect

\* It has the same producers and side effects.
LEMMA FollowsFacts ==
  ASSUME NEW g, NEW h, IsGraph(g), Follows(h, g)
  PROVE  /\ IsGraph(h)
         /\ Operations(h) = Operations(g) /\ SideEffects(h) = SideEffects(g)
         /\ h.inputs = g.inputs /\ h.outputs = g.outputs
         /\ \A i \in Operations(g) : Writes(h, i) = Writes(g, i) /\ Output(h, i) = Output(g, i)
         /\ Effects(h) = Effects(g)
<1>1. Len(g.ops) \in Nat /\ Operations(g) = 1 .. Len(g.ops) /\ Operations(h) = 1 .. Len(g.ops)
  BY PositionFacts, SequenceFacts DEF IsGraph, Follows, Operations
<1>2. HasOperations(h)
  BY <1>1 DEF HasOperations, Follows
<1>3. \A i \in Operations(g) : Writes(h, i) = Writes(g, i) /\ Output(h, i) = Output(g, i)
  BY <1>1 DEF Follows, Writes, Output
<1>4. HasResults(h)
  <2>1. \A i \in Operations(h) : Len(h.ops[i].outputs) = 1
    BY <1>1 DEF IsGraph, HasResults, Follows
  <2>2. ~HasDuplicateProducer(h)
    <3>1. ~HasDuplicateProducer(g)
      BY DEF IsGraph, HasResults
    <3>2. \A i \in Operations(h) : i \in Operations(g) /\ h.ops[i].outputs = g.ops[i].outputs
      BY <1>1 DEF Follows
    <3>3. QED
      BY <1>1, <1>3, <3>1, <3>2 DEF HasDuplicateProducer
  <2>3. QED
    BY <2>1, <2>2 DEF HasResults
<1>5. SideEffects(h) = SideEffects(g)
  BY <1>1 DEF SideEffects, Follows
<1>6. Effects(h) = Effects(g)
  <2> DEFINE marked == InOrder(SideEffects(g))
  <2>1. \A k \in DOMAIN marked : marked[k] \in 1 .. Len(g.ops)
    <3>1. SideEffects(g) \in SUBSET Nat /\ IsFiniteSet(SideEffects(g))
          /\ SideEffects(g) \subseteq 1 .. Len(g.ops)
      BY <1>1, PositionFacts DEF IsGraph
    <3>2. QED
      BY <3>1, InOrderFacts
  <2>2. \A k \in DOMAIN marked : h.ops[marked[k]].id = g.ops[marked[k]].id
    BY <2>1 DEF Follows
  <2>3. Effects(g) = [ k \in DOMAIN marked |-> g.ops[marked[k]].id ]
    BY DEF Effects
  <2>4. Effects(h) = [ k \in DOMAIN marked |-> h.ops[marked[k]].id ]
    BY <1>5 DEF Effects
  <2> HIDE DEF marked
  <2>5. QED
    BY <2>2, <2>3, <2>4
<1>7. QED
  BY <1>1, <1>2, <1>3, <1>4, <1>5, <1>6 DEF IsGraph, Follows

\* A graph follows itself, and what follows it is followed in turn.
LEMMA FollowsIsTransitive ==
  ASSUME NEW g, IsGraph(g)
  PROVE  /\ Follows(g, g)
         /\ \A h, f : Follows(h, g) /\ Follows(f, h) => Follows(f, g)
<1>1. Operations(g) = 1 .. Len(g.ops)
  BY PositionFacts DEF IsGraph
<1>2. Follows(g, g)
  BY <1>1 DEF Follows, IsGraph, HasOperations
<1>3. ASSUME NEW h, NEW f, Follows(h, g), Follows(f, h)
      PROVE  Follows(f, g)
  BY <1>3 DEF Follows
<1>4. QED
  BY <1>2, <1>3

\* A graph built from g operation by operation follows it, and is topological if
\* the new operands come before those that read them.
LEMMA NewOperandsFollow ==
  ASSUME NEW g, IsGraph(g), NEW h,
         {"ops", "values", "inputs", "outputs"} \subseteq DOMAIN h,
         h.inputs = g.inputs, h.outputs = g.outputs,
         h.ops = [ i \in 1 .. Len(g.ops) |-> h.ops[i] ],
         \A i \in Operations(g) :
           /\ IsOperation(h.ops[i])
           /\ h.ops[i].id = g.ops[i].id
           /\ h.ops[i].outputs = g.ops[i].outputs
           /\ h.ops[i].side_effect = g.ops[i].side_effect
  PROVE  /\ Follows(h, g)
         /\ (\A i, j \in Operations(g) : Writes(g, i) \cap Reads(h, j) # {} => i < j)
              => Topological(h)
<1>1. Len(g.ops) \in Nat /\ Operations(g) = 1 .. Len(g.ops)
  BY PositionFacts DEF IsGraph
<1>2. IsSequence(h.ops) /\ Len(h.ops) = Len(g.ops)
  BY <1>1, FunctionIsSequence
<1>3. Follows(h, g)
  BY <1>1, <1>2 DEF Follows
<1>4. /\ Operations(h) = Operations(g)
      /\ \A i \in Operations(g) : Writes(h, i) = Writes(g, i)
  BY <1>3, FollowsFacts
<1>5. QED
  BY <1>3, <1>4, TopologicalFacts

\* What ConstantFoldingPass makes of one operation.
LEMMA FoldKeeps ==
  ASSUME NEW g, IsGraph(g), NEW n \in Operations(g)
  PROVE  LET h == FoldedAt(g, n)
         IN  Follows(h, g) /\ (Topological(g) => Topological(h))
<1> DEFINE h == FoldedAt(g, n)
<1>0. Len(g.ops) \in Nat /\ Operations(g) = 1 .. Len(g.ops) /\ DOMAIN g.ops = 1 .. Len(g.ops)
  BY PositionFacts DEF IsGraph, Operations
<1>1. {"ops", "values", "inputs", "outputs"} \subseteq DOMAIN g /\ IsOperation(g.ops[n])
  BY DEF IsGraph, HasOperations
<1>2. /\ {"ops", "values", "inputs", "outputs"} \subseteq DOMAIN h
      /\ h.inputs = g.inputs /\ h.outputs = g.outputs
  BY <1>1 DEF FoldedAt
<1>3. DOMAIN h.ops = 1 .. Len(g.ops) /\ h.ops = [ i \in 1 .. Len(g.ops) |-> h.ops[i] ]
  BY <1>0, <1>1 DEF FoldedAt
<1>4. \A i \in Operations(g) : i # n => h.ops[i] = g.ops[i]
  BY <1>0, <1>1 DEF FoldedAt
<1>5. /\ DOMAIN h.ops[n] = DOMAIN g.ops[n]
      /\ h.ops[n].type = "constant" /\ h.ops[n].inputs = << >>
      /\ h.ops[n].id = g.ops[n].id /\ h.ops[n].outputs = g.ops[n].outputs
      /\ h.ops[n].side_effect = g.ops[n].side_effect
  BY <1>0, <1>1 DEF FoldedAt, IsOperation
<1> HIDE DEF h
<1>6. IsSequence(<< >>) /\ Len(<< >>) = 0 /\ Elements(<< >>) = {}
  <2>1. << >> \in Seq({}) /\ Len(<< >>) = 0
    BY EmptySeq
  <2>2. DOMAIN << >> = 1 .. 0
    BY <2>1, LenProperties
  <2>3. QED
    BY <2>1, <2>2 DEF IsSequence, Elements
<1>7. IsOperation(h.ops[n])
  BY <1>1, <1>5, <1>6 DEF IsOperation, OperationTypes
<1>8. \A i \in Operations(g) :
        /\ IsOperation(h.ops[i])
        /\ h.ops[i].id = g.ops[i].id
        /\ h.ops[i].outputs = g.ops[i].outputs
        /\ h.ops[i].side_effect = g.ops[i].side_effect
  BY <1>4, <1>5, <1>7 DEF IsGraph, HasOperations
<1>9. \A j \in Operations(g) : Reads(h, j) = IF j = n THEN {} ELSE Reads(g, j)
  BY <1>4, <1>5, <1>6 DEF Reads
<1>10. /\ Follows(h, g)
       /\ (\A i, j \in Operations(g) : Writes(g, i) \cap Reads(h, j) # {} => i < j)
            => Topological(h)
  BY <1>2, <1>3, <1>8, NewOperandsFollow
<1>11. QED
  BY <1>9, <1>10, TopologicalFacts DEF h

\* What the elimination of a reshape or a transpose makes of the graph: those who
\* read its result read its operand.
LEMMA ReplacementKeeps ==
  ASSUME NEW g, IsGraph(g), NEW n \in Operations(g), Len(g.ops[n].inputs) = 1
  PROVE  LET h == ReplaceAllUses(g, Output(g, n), g.ops[n].inputs[1])
         IN  Follows(h, g) /\ (Topological(g) => Topological(h))
<1> DEFINE from == Output(g, n)
           to   == g.ops[n].inputs[1]
           h    == ReplaceAllUses(g, from, to)
<1>0. Len(g.ops) \in Nat /\ Operations(g) = 1 .. Len(g.ops) /\ DOMAIN g.ops = 1 .. Len(g.ops)
  BY PositionFacts DEF IsGraph, Operations
<1>1. {"ops", "values", "inputs", "outputs"} \subseteq DOMAIN g
  BY DEF IsGraph, HasOperations
<1> DEFINE inputs(i) == [ k \in DOMAIN g.ops[i].inputs |->
                            IF g.ops[i].inputs[k] = from THEN to ELSE g.ops[i].inputs[k] ]
<1>2. /\ {"ops", "values", "inputs", "outputs"} \subseteq DOMAIN h
      /\ h.inputs = g.inputs /\ h.outputs = g.outputs
  BY <1>1 DEF ReplaceAllUses
<1>3. h.ops = [ i \in 1 .. Len(g.ops) |-> [ g.ops[i] EXCEPT !.inputs = inputs(i) ] ]
  BY <1>0, <1>1 DEF ReplaceAllUses
<1> HIDE DEF h, from, to
<1>4. ASSUME NEW i \in Operations(g)
      PROVE  /\ IsSequence(inputs(i)) /\ Len(inputs(i)) = Len(g.ops[i].inputs)
             /\ \A v \in Elements(inputs(i)) :
                  v \in Reads(g, i) \/ (v = to /\ from \in Reads(g, i))
  <2>1. Len(g.ops[i].inputs) \in Nat /\ DOMAIN g.ops[i].inputs = 1 .. Len(g.ops[i].inputs)
    BY <1>4, OperandFacts DEF IsGraph
  <2>2. inputs(i) = [ k \in 1 .. Len(g.ops[i].inputs) |-> inputs(i)[k] ]
    BY <2>1
  <2>3. \A k \in DOMAIN inputs(i) :
          inputs(i)[k] = IF g.ops[i].inputs[k] = from THEN to ELSE g.ops[i].inputs[k]
    OBVIOUS
  <2>4. DOMAIN inputs(i) = DOMAIN g.ops[i].inputs
    OBVIOUS
  <2> HIDE DEF inputs
  <2>5. IsSequence(inputs(i)) /\ Len(inputs(i)) = Len(g.ops[i].inputs)
    BY <2>1, <2>2, FunctionIsSequence
  <2>6. \A v \in Elements(inputs(i)) :
          v \in Reads(g, i) \/ (v = to /\ from \in Reads(g, i))
    BY <2>3, <2>4 DEF Elements, Reads
  <2>7. QED
    BY <2>5, <2>6
<1> HIDE DEF inputs
<1>5. \A i \in Operations(g) :
        /\ IsOperation(h.ops[i])
        /\ h.ops[i].id = g.ops[i].id
        /\ h.ops[i].outputs = g.ops[i].outputs
        /\ h.ops[i].side_effect = g.ops[i].side_effect
        /\ h.ops[i].inputs = inputs(i)
  BY <1>0, <1>3, <1>4 DEF IsGraph, HasOperations, IsOperation
<1>6. /\ Follows(h, g)
      /\ (\A i, j \in Operations(g) : Writes(g, i) \cap Reads(h, j) # {} => i < j)
            => Topological(h)
  <2>1. h.ops = [ i \in 1 .. Len(g.ops) |-> h.ops[i] ]
    BY <1>3
  <2>2. QED
    BY <1>2, <1>5, <2>1, NewOperandsFollow
<1>7. ASSUME Topological(g), NEW i \in Operations(g), NEW j \in Operations(g),
             Writes(g, i) \cap Reads(h, j) # {}
      PROVE  i < j
  <2>1. PICK v : v \in Writes(g, i) /\ v \in Elements(inputs(j))
    BY <1>5, <1>7 DEF Reads
  <2>2. CASE v \in Reads(g, j)
    BY <1>7, <2>1, <2>2, TopologicalFacts
  <2>3. CASE v = to /\ from \in Reads(g, j)
    <3>1. to \in Reads(g, n)
      BY OperandFacts DEF to, IsGraph
    <3>2. from \in Writes(g, n)
      BY ResultFacts DEF from
    <3>3. i < n
      BY <1>7, <2>1, <2>3, <3>1, TopologicalFacts
    <3>4. n < j
      BY <1>7, <2>3, <3>2, TopologicalFacts
    <3>5. QED
      BY <1>0, <3>3, <3>4
  <2>4. QED
    BY <1>4, <2>1, <2>2, <2>3
<1>8. QED
  BY <1>6, <1>7 DEF h, from, to

\* A sequence with one more element.
LEMMA AppendFacts ==
  ASSUME NEW s, IsSequence(s), NEW v
  PROVE  /\ IsSequence(Append(s, v)) /\ Len(Append(s, v)) = Len(s) + 1
         /\ Elements(Append(s, v)) = Elements(s) \cup {v}
         /\ \A k \in 1 .. Len(s) : Append(s, v)[k] = s[k]
         /\ Append(s, v)[Len(s) + 1] = v
<1> DEFINE E == Elements(s) \cup {v}
           t == Append(s, v)
<1>1. s \in Seq(E)
  <2>1. s \in Seq(Elements(s)) /\ Elements(s) \subseteq E
    BY DEF IsSequence
  <2> HIDE DEF E
  <2>2. QED
    BY <2>1, SeqMonotonic
<1>2. v \in E
  OBVIOUS
<1> HIDE DEF E
<1>3. /\ t \in Seq(E) /\ Len(t) = Len(s) + 1
      /\ \A k \in 1 .. Len(s) : t[k] = s[k]
      /\ t[Len(s) + 1] = v
  BY <1>1, <1>2, AppendProperties
<1>4. Len(s) \in Nat /\ DOMAIN s = 1 .. Len(s) /\ DOMAIN t = 1 .. Len(s) + 1
  BY <1>1, <1>3, LenProperties
<1>5. Elements(t) = E
  <2>1. \A k \in DOMAIN t : t[k] \in E
    BY <1>3, LenProperties
  <2>2. \A k \in DOMAIN s : k \in DOMAIN t /\ t[k] = s[k]
    BY <1>3, <1>4
  <2>3. Len(s) + 1 \in DOMAIN t
    BY <1>4
  <2> HIDE DEF t
  <2>4. QED
    BY <1>3, <2>1, <2>2, <2>3 DEF E, Elements
<1>6. QED
  BY <1>3, <1>5 DEF IsSequence, E

\* The operations a fusion is made of stand in a chain, and no side effect is
\* among those that go.
LEMMA FusionFacts ==
  ASSUME NEW g, IsGraph(g), NEW n \in Operations(g), NEW first, Fuses(first, g, n)
  PROVE  LET fusion == Fusion(g, n)
         IN  /\ fusion.add \in Operations(g) /\ fusion.base \in Operations(g)
             /\ ~g.ops[fusion.add].side_effect /\ ~g.ops[fusion.base].side_effect
             /\ g.ops[fusion.base].type \in {"linear", "mat_mul"}
             /\ Writes(g, fusion.add) \cap Reads(g, n) # {}
             /\ Writes(g, fusion.base) \cap Reads(g, fusion.add) # {}
             /\ fusion.bias \in Reads(g, fusion.add)
<1> DEFINE fusion == Fusion(g, n)
           sum == g.ops[n].inputs[1]
           a == Producer(g, sum)
           k == ProjectedOperand(g, g.ops[a])
           projected(i) == \E j \in Producers(g, g.ops[a].inputs[i]) : IsProjection(g.ops[j])
<1>1. /\ fusion.add = a
      /\ fusion.base = (IF k = 0 THEN 0 ELSE Producer(g, g.ops[a].inputs[k]))
      /\ fusion.bias = (IF k = 0 THEN 0 ELSE g.ops[a].inputs[3 - k])
  BY DEF Fusion
<1>2. /\ Len(g.ops[n].inputs) = 1 /\ Producers(g, sum) # {}
      /\ Len(g.ops[fusion.add].inputs) = 2 /\ ~g.ops[fusion.add].side_effect
      /\ fusion.base # 0
  BY DEF Fuses
<1> HIDE DEF fusion
<1>3. a \in Operations(g) /\ sum \in Writes(g, a)
  <2>1. PICK i \in Operations(g) : sum \in Writes(g, i)
    BY <1>2 DEF Producers
  <2>2. QED
    BY <2>1, ResultFacts
<1>4. sum \in Reads(g, n)
  BY <1>2, OperandFacts DEF IsGraph
<1> HIDE DEF a, sum
<1>5. k \in {1, 2} /\ projected(k)
  BY <1>1, <1>2 DEF ProjectedOperand
<1> HIDE DEF k
<1>6. PICK b \in Producers(g, g.ops[a].inputs[k]) : IsProjection(g.ops[b])
  BY <1>5
<1>7. b \in Operations(g) /\ g.ops[a].inputs[k] \in Writes(g, b)
  BY DEF Producers
<1>8. fusion.base = b
  BY <1>1, <1>5, <1>7, ResultFacts
<1>9. Reads(g, a) = { g.ops[a].inputs[i] : i \in 1 .. 2 }
  <2>1. Len(g.ops[a].inputs) = 2
    BY <1>1, <1>2
  <2>2. Reads(g, a) = { g.ops[a].inputs[i] : i \in 1 .. Len(g.ops[a].inputs) }
    BY <1>3, OperandFacts DEF IsGraph
  <2>3. QED
    BY <2>1, <2>2
<1>10. g.ops[a].inputs[k] \in Reads(g, a) /\ g.ops[a].inputs[3 - k] \in Reads(g, a)
  BY <1>5, <1>9
<1>11. fusion.bias \in Reads(g, a)
  BY <1>1, <1>5, <1>10
<1>12. ~g.ops[b].side_effect /\ g.ops[b].type \in {"linear", "mat_mul"}
  BY <1>6 DEF IsProjection
<1>13. QED
  BY <1>1, <1>2, <1>3, <1>4, <1>7, <1>8, <1>10, <1>11, <1>12 DEF fusion

\* What FuseBiasGELUPass makes of one operation: it reads what the projection has
\* read, and the bias.
LEMMA FusionKeeps ==
  ASSUME NEW g, IsGraph(g), NEW n \in Operations(g), NEW first, Fuses(first, g, n)
  PROVE  LET h == FusedAt(g, n)
         IN  Follows(h, g) /\ (Topological(g) => Topological(h))
<1> DEFINE h == FusedAt(g, n)
           a == Fusion(g, n).add
           b == Fusion(g, n).base
           v == Fusion(g, n).bias
           inputs == Append(g.ops[b].inputs, v)
<1>0. Len(g.ops) \in Nat /\ Operations(g) = 1 .. Len(g.ops) /\ DOMAIN g.ops = 1 .. Len(g.ops)
  BY PositionFacts DEF IsGraph, Operations
<1>1. {"ops", "values", "inputs", "outputs"} \subseteq DOMAIN g /\ IsOperation(g.ops[n])
  BY DEF IsGraph, HasOperations
<1>2. /\ {"ops", "values", "inputs", "outputs"} \subseteq DOMAIN h
      /\ h.inputs = g.inputs /\ h.outputs = g.outputs
  BY <1>1 DEF FusedAt
<1>3. DOMAIN h.ops = 1 .. Len(g.ops) /\ h.ops = [ i \in 1 .. Len(g.ops) |-> h.ops[i] ]
  BY <1>0, <1>1 DEF FusedAt
<1>4. \A i \in Operations(g) : i # n => h.ops[i] = g.ops[i]
  BY <1>0, <1>1 DEF FusedAt
<1>5. /\ DOMAIN h.ops[n] = DOMAIN g.ops[n]
      /\ h.ops[n].type = g.ops[b].type /\ h.ops[n].inputs = inputs
      /\ h.ops[n].id = g.ops[n].id /\ h.ops[n].outputs = g.ops[n].outputs
      /\ h.ops[n].side_effect = g.ops[n].side_effect
  BY <1>0, <1>1 DEF FusedAt, IsOperation
<1> HIDE DEF h
<1>6. /\ a \in Operations(g) /\ b \in Operations(g)
      /\ g.ops[b].type \in {"linear", "mat_mul"}
      /\ Writes(g, a) \cap Reads(g, n) # {}
      /\ Writes(g, b) \cap Reads(g, a) # {}
      /\ v \in Reads(g, a)
  BY FusionFacts
<1> HIDE DEF a, b, v
<1>7. IsSequence(inputs) /\ Len(inputs) > 0 /\ Elements(inputs) = Reads(g, b) \cup {v}
  <2>1. IsSequence(g.ops[b].inputs) /\ Len(g.ops[b].inputs) \in Nat
    BY <1>6, SequenceFacts DEF IsGraph, HasOperations, IsOperation
  <2>2. QED
    BY <2>1, AppendFacts DEF Reads
<1> HIDE DEF inputs
<1>8. IsOperation(h.ops[n])
  BY <1>1, <1>5, <1>6, <1>7 DEF IsOperation, OperationTypes
<1>9. \A i \in Operations(g) :
        /\ IsOperation(h.ops[i])
        /\ h.ops[i].id = g.ops[i].id
        /\ h.ops[i].outputs = g.ops[i].outputs
        /\ h.ops[i].side_effect = g.ops[i].side_effect
  BY <1>4, <1>5, <1>8 DEF IsGraph, HasOperations
<1>10. /\ Follows(h, g)
       /\ (\A i, j \in Operations(g) : Writes(g, i) \cap Reads(h, j) # {} => i < j)
            => Topological(h)
  BY <1>2, <1>3, <1>9, NewOperandsFollow
<1>11. ASSUME Topological(g), NEW i \in Operations(g), NEW j \in Operations(g),
              Writes(g, i) \cap Reads(h, j) # {}
       PROVE  i < j
  <2>1. CASE j # n
    BY <1>4, <1>11, <2>1, TopologicalFacts DEF Reads
  <2>2. CASE j = n
    <3>1. a < n /\ b < a
      BY <1>6, <1>11, TopologicalFacts
    <3>2. Reads(h, n) = Reads(g, b) \cup {v}
      BY <1>5, <1>7 DEF Reads
    <3>3. Writes(g, i) \cap Reads(g, b) # {} \/ Writes(g, i) \cap Reads(g, a) # {}
      BY <1>6, <1>11, <2>2, <3>2
    <3>4. i < b \/ i < a
      BY <1>6, <1>11, <3>3, TopologicalFacts
    <3>5. QED
      BY <1>0, <1>6, <2>2, <3>1, <3>4
  <2>3. QED
    BY <2>1, <2>2
<1>12. QED
  BY <1>10, <1>11 DEF h

\* The passes that are a loop over the operations.
Loops == {"fold", "reshape", "transpose", "fuse"}

\* An iteration that rewrites keeps the operations and their order, and none of
\* those it removes is a side effect.
LEMMA RewriteKeeps ==
  ASSUME NEW g, IsGraph(g), NEW n \in Operations(g), NEW first,
         NEW pass \in Loops, Rewrites(pass, first, g, n)
  PROVE  LET h == RewrittenAt(pass, g, n)
         IN  /\ Follows(h, g) /\ (Topological(g) => Topological(h))
             /\ RemovedAt(pass, g, n) \subseteq Operations(g) \ SideEffects(g)
<1>1. CASE pass = "fold"
  <2>1. RewrittenAt(pass, g, n) = FoldedAt(g, n) /\ RemovedAt(pass, g, n) = {}
    BY <1>1 DEF RewrittenAt, RemovedAt
  <2>2. QED
    BY <2>1, FoldKeeps
<1>2. CASE pass \in {"reshape", "transpose"}
  <2>1. /\ RewrittenAt(pass, g, n) = ReplaceAllUses(g, Output(g, n), g.ops[n].inputs[1])
        /\ RemovedAt(pass, g, n) = {n}
    BY <1>2 DEF RewrittenAt, RemovedAt
  <2>2. Removable(g, n, pass)
    BY <1>2 DEF Rewrites, RedundantReshape, RedundantTranspose
  <2>3. Len(g.ops[n].inputs) = 1
    BY <1>2, <2>2 DEF Removable, OpType, IsGraph, HasOperations, IsOperation
  <2>4. n \notin SideEffects(g)
    BY <2>2 DEF Removable, SideEffects
  <2>5. QED
    BY <2>1, <2>3, <2>4, ReplacementKeeps
<1>3. CASE pass = "fuse"
  <2>1. /\ RewrittenAt(pass, g, n) = FusedAt(g, n)
        /\ RemovedAt(pass, g, n) = { Fusion(g, n).add, Fusion(g, n).base }
        /\ Fuses(first, g, n)
    BY <1>3 DEF RewrittenAt, RemovedAt, Rewrites
  <2>2. /\ Fusion(g, n).add \in Operations(g) \ SideEffects(g)
        /\ Fusion(g, n).base \in Operations(g) \ SideEffects(g)
    BY <2>1, FusionFacts DEF SideEffects
  <2>3. QED
    BY <2>1, <2>2, FusionKeeps
<1>4. QED
  BY <1>1, <1>2, <1>3 DEF Loops

\* One iteration of the loop.
Iteration(pass, first, g, n) ==
  IF Rewrites(pass, first, g, n) THEN RewrittenAt(pass, g, n) ELSE g

\* p has the graphs after the first k iterations.
AreIterations(pass, first, k, p) ==
  p = [ n \in 0 .. k |-> IF n = 0 THEN first ELSE Iteration(pass, first, p[n - 1], n) ]

\* There are such graphs for any number of iterations.
LEMMA IterationsExist ==
  ASSUME NEW pass, NEW first, NEW k \in Nat
  PROVE  \E p : AreIterations(pass, first, k, p)
<1> DEFINE Exist(n) == \E p : AreIterations(pass, first, n, p)
           Missing == { n \in 0 .. k : ~Exist(n) }
<1>1. Exist(0)
  <2>1. AreIterations(pass, first, 0, [ n \in 0 .. 0 |-> first ])
    BY DEF AreIterations
  <2>2. QED
    BY <2>1
<1>2. ASSUME NEW m \in Nat \ {0}, Exist(m - 1)
      PROVE  Exist(m)
  <2>1. PICK p : AreIterations(pass, first, m - 1, p)
    BY <1>2
  <2> DEFINE q == [ n \in 0 .. m |-> IF n < m THEN p[n] ELSE Iteration(pass, first, p[m - 1], m) ]
  <2>2. \A n \in 0 .. m - 1 : p[n] = IF n = 0 THEN first ELSE Iteration(pass, first, p[n - 1], n)
    BY <2>1 DEF AreIterations
  <2>3. \A n \in 0 .. m : q[n] = IF n = 0 THEN first ELSE Iteration(pass, first, q[n - 1], n)
    <3> SUFFICES ASSUME NEW n \in 0 .. m
                 PROVE  q[n] = IF n = 0 THEN first ELSE Iteration(pass, first, q[n - 1], n)
      OBVIOUS
    <3>1. n # 0 => q[n - 1] = p[n - 1]
      OBVIOUS
    <3>2. CASE n < m
      BY <2>2, <3>1, <3>2
    <3>3. CASE n = m
      BY <3>1, <3>3
    <3>4. QED
      BY <3>2, <3>3
  <2>4. q = [ n \in 0 .. m |-> IF n = 0 THEN first ELSE Iteration(pass, first, q[n - 1], n) ]
    BY <2>3
  <2>5. QED
    BY <2>4 DEF AreIterations
<1> HIDE DEF Exist
<1>3. Missing = {}
  <2> SUFFICES ASSUME Missing # {}
               PROVE  FALSE
    OBVIOUS
  <2>0. Missing \in SUBSET Nat
    OBVIOUS
  <2>1. PICK m \in Missing : \A n \in Missing : m <= n
    <3> HIDE DEF Missing
    <3>1. QED
      BY <2>0, LeastElement
  <2>2. m \in Nat \ {0} /\ ~Exist(m)
    BY <1>1
  <2>3. Exist(m - 1)
    BY <2>1, <2>2
  <2>4. QED
    BY <1>2, <2>2, <2>3
<1>4. Exist(k)
  BY <1>3
<1>5. QED
  BY <1>4 DEF Exist

\* Rewritten has them for all operations of the graph.
LEMMA RewrittenIsIteration ==
  ASSUME NEW pass, NEW g, Len(g.ops) \in Nat
  PROVE  /\ Rewritten(pass, g)[0] = g
         /\ \A n \in 1 .. Len(g.ops) :
              Rewritten(pass, g)[n] = Iteration(pass, g, Rewritten(pass, g)[n - 1], n)
<1> DEFINE P(q) == q = [ n \in 0 .. Len(g.ops) |->
                           IF n = 0 THEN g ELSE Iteration(pass, g, q[n - 1], n) ]
           q == CHOOSE q : P(q)
<1>1. P(q)
  BY IterationsExist DEF AreIterations
<1>2. Rewritten(pass, g) = q
  BY DEF Rewritten, Iteration
<1>3. AreIterations(pass, g, Len(g.ops), Rewritten(pass, g))
  BY <1>1, <1>2 DEF AreIterations
<1>4. PICK r : r = Rewritten(pass, g) /\ AreIterations(pass, g, Len(g.ops), r)
  BY <1>3
<1>5. r[0] = g /\ \A n \in 1 .. Len(g.ops) : r[n] = Iteration(pass, g, r[n - 1], n)
  BY <1>4 DEF AreIterations
<1>6. QED
  BY <1>4, <1>5

\* So at every iteration the graph has the operations it had at first, in an order
\* that is as good.
LEMMA LoopKeeps ==
  ASSUME NEW pass \in Loops, NEW g, IsGraph(g)
  PROVE  \A n \in 0 .. Len(g.ops) :
           LET h == Rewritten(pass, g)[n]
           IN  Follows(h, g) /\ (Topological(g) => Topological(h))
<1> DEFINE h(n) == Rewritten(pass, g)[n]
           Fine(n) == Follows(h(n), g) /\ (Topological(g) => Topological(h(n)))
           Bad == { n \in 0 .. Len(g.ops) : ~Fine(n) }
<1>1. Len(g.ops) \in Nat /\ Operations(g) = 1 .. Len(g.ops)
  BY PositionFacts DEF IsGraph
<1>2. /\ h(0) = g
      /\ \A n \in 1 .. Len(g.ops) : h(n) = Iteration(pass, g, h(n - 1), n)
  BY <1>1, RewrittenIsIteration
<1> HIDE DEF h
<1>3. Fine(0)
  BY <1>2, FollowsIsTransitive
<1>4. ASSUME NEW m \in 1 .. Len(g.ops), Fine(m - 1)
      PROVE  Fine(m)
  <2>1. h(m) = Iteration(pass, g, h(m - 1), m)
    BY <1>2
  <2>2. IsGraph(h(m - 1)) /\ m \in Operations(h(m - 1))
    BY <1>1, <1>4, FollowsFacts
  <2>3. CASE Rewrites(pass, g, h(m - 1), m)
    <3>1. h(m) = RewrittenAt(pass, h(m - 1), m)
      BY <2>1, <2>3 DEF Iteration
    <3>2. Follows(h(m), h(m - 1)) /\ (Topological(h(m - 1)) => Topological(h(m)))
      BY <2>2, <2>3, <3>1, RewriteKeeps
    <3>3. QED
      BY <1>4, <3>2, FollowsIsTransitive
  <2>4. CASE ~Rewrites(pass, g, h(m - 1), m)
    BY <1>4, <2>1, <2>4 DEF Iteration
  <2>5. QED
    BY <2>3, <2>4
<1> HIDE DEF Fine
<1>5. Bad = {}
  <2> SUFFICES ASSUME Bad # {}
               PROVE  FALSE
    OBVIOUS
  <2>1. Bad \in SUBSET Nat
    BY <1>1
  <2>2. PICK m \in Bad : \A n \in Bad : m <= n
    <3> HIDE DEF Bad
    <3>1. QED
      BY <2>1, LeastElement
  <2>3. m \in 1 .. Len(g.ops) /\ ~Fine(m)
    BY <1>1, <1>3
  <2>4. Fine(m - 1)
    BY <1>1, <2>2, <2>3
  <2>5. QED
    BY <1>4, <2>3, <2>4
<1>6. \A n \in 0 .. Len(g.ops) : Fine(n)
  BY <1>5
<1>7. QED
  BY <1>6 DEF Fine, h

\* And none of the operations that go is a side effect.
LEMMA RemovedFacts ==
  ASSUME NEW pass \in Loops, NEW g, IsGraph(g)
  PROVE  Removed(pass, g) \subseteq Operations(g) \ SideEffects(g)
<1> DEFINE h(n) == Rewritten(pass, g)[n]
<1>1. Len(g.ops) \in Nat /\ Operations(g) = 1 .. Len(g.ops)
  BY PositionFacts DEF IsGraph
<1>2. Removed(pass, g) =
        UNION { RemovedAt(pass, h(n - 1), n) :
                  n \in { n \in Operations(g) : Rewrites(pass, g, h(n - 1), n) } }
  BY DEF Removed
<1> HIDE DEF h
<1>3. ASSUME NEW n \in Operations(g), Rewrites(pass, g, h(n - 1), n)
      PROVE  RemovedAt(pass, h(n - 1), n) \subseteq Operations(g) \ SideEffects(g)
  <2>1. n - 1 \in 0 .. Len(g.ops)
    BY <1>1
  <2>2. Follows(h(n - 1), g)
    BY <2>1, LoopKeeps DEF h
  <2>3. /\ IsGraph(h(n - 1)) /\ Operations(h(n - 1)) = Operations(g)
        /\ SideEffects(h(n - 1)) = SideEffects(g)
    BY <2>2, FollowsFacts
  <2>4. QED
    BY <1>3, <2>3, RewriteKeeps
<1>4. QED
  BY <1>2, <1>3

(***************************************************************************)
(* Graphs with their operations in other places.                           *)
(***************************************************************************)

\* Different operations of the graph.
IsSelection(g, order) ==
  /\ order \in Seq(Operations(g))
  /\ \A m, n \in 1 .. Len(order) : order[m] = order[n] => m = n

\* h has those operations of g, in that order.
Rearranges(h, g, order) ==
  /\ IsSelection(g, order)
  /\ {"ops", "values", "inputs", "outputs"} \subseteq DOMAIN h
  /\ IsSequence(h.ops) /\ Len(h.ops) = Len(order)
  /\ h.inputs = g.inputs /\ h.outputs = g.outputs
  /\ \A n \in 1 .. Len(order) : h.ops[n] = g.ops[order[n]]

\* Reordered rearranges the graph.
LEMMA ReorderedRearranges ==
  ASSUME NEW g, HasOperations(g), NEW order, IsSelection(g, order)
  PROVE  Rearranges(Reordered(g, order), g, order)
<1> DEFINE h == Reordered(g, order)
<1>1. Len(order) \in Nat /\ DOMAIN order = 1 .. Len(order)
  BY LenProperties DEF IsSelection
<1>2. {"ops", "values", "inputs", "outputs"} \subseteq DOMAIN g
  BY DEF HasOperations
<1>3. /\ {"ops", "values", "inputs", "outputs"} \subseteq DOMAIN h
      /\ h.inputs = g.inputs /\ h.outputs = g.outputs
      /\ h.ops = [ n \in 1 .. Len(order) |-> g.ops[order[n]] ]
  BY <1>1, <1>2 DEF Reordered
<1> HIDE DEF h
<1>4. IsSequence(h.ops) /\ Len(h.ops) = Len(order)
  BY <1>1, <1>3, FunctionIsSequence
<1>5. QED
  BY <1>3, <1>4 DEF Rearranges, h

\* A selected operation reads and writes what it did.
LEMMA RearrangedFacts ==
  ASSUME NEW g, HasOperations(g), NEW h, NEW order, Rearranges(h, g, order)
  PROVE  /\ Len(order) \in Nat /\ \A n \in 1 .. Len(order) : order[n] \in Operations(g)
         /\ HasOperations(h) /\ Operations(h) = 1 .. Len(order)
         /\ \A n \in 1 .. Len(order) :
              /\ Reads(h, n) = Reads(g, order[n]) /\ Writes(h, n) = Writes(g, order[n])
              /\ n \in SideEffects(h) <=> order[n] \in SideEffects(g)
         /\ SideEffects(h) \subseteq 1 .. Len(order)
         /\ HasResults(g) => HasResults(h)
<1>1. Len(order) \in Nat /\ \A n \in 1 .. Len(order) : order[n] \in Operations(g)
  BY LenProperties DEF Rearranges, IsSelection
<1>2. Operations(h) = 1 .. Len(order)
  BY SequenceFacts DEF Rearranges, Operations
<1>3. \A n \in 1 .. Len(order) : h.ops[n] = g.ops[order[n]]
  BY DEF Rearranges
<1>4. HasOperations(h)
  BY <1>1, <1>2, <1>3 DEF HasOperations, Rearranges
<1>5. \A n \in 1 .. Len(order) :
        /\ Reads(h, n) = Reads(g, order[n]) /\ Writes(h, n) = Writes(g, order[n])
        /\ n \in SideEffects(h) <=> order[n] \in SideEffects(g)
  BY <1>1, <1>2, <1>3 DEF Reads, Writes, SideEffects
<1>6. SideEffects(h) \subseteq 1 .. Len(order)
  BY <1>2 DEF SideEffects
<1>7. ASSUME HasResults(g)
      PROVE  HasResults(h)
  <2>1. \A n \in Operations(h) : Len(h.ops[n].outputs) = 1
    BY <1>1, <1>2, <1>3, <1>7 DEF HasResults
  <2>2. ASSUME NEW m \in Operations(h), NEW n \in Operations(h), m # n,
               Writes(h, m) \cap Writes(h, n) # {}
        PROVE  FALSE
    <3>1. order[m] \in Operations(g) /\ order[n] \in Operations(g) /\ order[m] # order[n]
      BY <1>1, <1>2, <2>2 DEF Rearranges, IsSelection
    <3>2. Writes(g, order[m]) \cap Writes(g, order[n]) # {}
      BY <1>2, <1>5, <2>2
    <3>3. QED
      BY <1>7, <3>1, <3>2 DEF HasResults, HasDuplicateProducer
  <2>3. QED
    BY <2>1, <2>2 DEF HasResults, HasDuplicateProducer
<1>8. QED
  BY <1>1, <1>2, <1>4, <1>5, <1>6, <1>7

\* It is topological if those who write a value come before those who read it.
LEMMA RearrangedTopologically ==
  ASSUME NEW g, HasOperations(g), NEW h, NEW order, Rearranges(h, g, order),
         \A m, n \in 1 .. Len(order) : << order[m], order[n] >> \in DataEdges(g) => m < n
  PROVE  Topological(h)
<1> SUFFICES ASSUME NEW m \in Operations(h), NEW n \in Operations(h),
                    Writes(h, m) \cap Reads(h, n) # {}
             PROVE  m < n
  BY TopologicalFacts
<1>1. /\ m \in 1 .. Len(order) /\ n \in 1 .. Len(order)
      /\ order[m] \in Operations(g) /\ order[n] \in Operations(g)
      /\ Writes(h, m) = Writes(g, order[m]) /\ Reads(h, n) = Reads(g, order[n])
  BY RearrangedFacts
<1>2. << order[m], order[n] >> \in DataEdges(g)
  BY <1>1 DEF DataEdges
<1>3. QED
  BY <1>1, <1>2

\* What of a graph comes before a side effect is as much as before, if no side
\* effect is left out and none has overtaken another one.
LEMMA EffectPlaces ==
  ASSUME NEW g, HasOperations(g), NEW h, NEW order, Rearranges(h, g, order),
         \A i \in SideEffects(g) : \E n \in 1 .. Len(order) : order[n] = i,
         \A m, n \in SideEffects(h) : m < n => order[m] < order[n]
  PROVE  /\ Cardinality(SideEffects(h)) = Cardinality(SideEffects(g))
         /\ \A n \in SideEffects(h) : PlaceIn(SideEffects(h), n) = PlaceIn(SideEffects(g), order[n])
<1> DEFINE M == SideEffects(h)
           S == SideEffects(g)
<1>1. /\ M \in SUBSET Nat /\ IsFiniteSet(M) /\ S \in SUBSET Nat /\ IsFiniteSet(S)
      /\ M \subseteq 1 .. Len(order)
      /\ \A n \in 1 .. Len(order) : n \in M <=> order[n] \in S
  BY PositionFacts, RearrangedFacts
<1>2. \A m, n \in 1 .. Len(order) : order[m] = order[n] => m = n
  BY DEF Rearranges, IsSelection
<1> HIDE DEF M, S
<1>3. \A m, n \in M : m <= n <=> order[m] <= order[n]
  <2> SUFFICES ASSUME NEW m \in M, NEW n \in M
               PROVE  m <= n <=> order[m] <= order[n]
    OBVIOUS
  <2>1. m \in Nat /\ n \in Nat /\ order[m] \in Nat /\ order[n] \in Nat
    BY <1>1
  <2>2. (m < n => order[m] < order[n]) /\ (n < m => order[n] < order[m])
    BY DEF M
  <2>3. m = n \/ m < n \/ n < m
    BY <2>1
  <2>4. QED
    BY <2>1, <2>2, <2>3
<1>4. ASSUME NEW A \in SUBSET M, NEW B \in SUBSET S,
             \A n \in A : order[n] \in B,
             \A i \in B : \E n \in A : order[n] = i
      PROVE  Cardinality(A) = Cardinality(B)
  <2> DEFINE f == [ n \in A |-> order[n] ]
  <2>1. f \in [ A -> B ] /\ \A m, n \in A : f[m] = f[n] => m = n
    BY <1>1, <1>2, <1>4
  <2>2. \A i \in B : \E n \in A : f[n] = i
    BY <1>4
  <2>3. IsFiniteSet(A)
    BY <1>1, FS_Subset
  <2> HIDE DEF f
  <2>4. f \in Bijection(A, B)
    BY <2>1, <2>2 DEF Bijection, Injection, Surjection, IsInjective
  <2>5. QED
    BY <2>3, <2>4, FS_Bijection DEF ExistsBijection
<1>5. \A i \in S : \E n \in M : order[n] = i
  BY <1>1 DEF S
<1>6. \A n \in M : order[n] \in S
  BY <1>1
<1>7. Cardinality(M) = Cardinality(S)
  <2>1. M \in SUBSET M /\ S \in SUBSET S
    OBVIOUS
  <2>2. QED
    BY <1>4, <1>5, <1>6, <2>1
<1>8. ASSUME NEW n \in M
      PROVE  PlaceIn(M, n) = PlaceIn(S, order[n])
  <2> DEFINE A == { m \in M : m <= n }
             B == { i \in S : i <= order[n] }
  <2>1. A \in SUBSET M /\ B \in SUBSET S
    OBVIOUS
  <2>2. \A m \in A : order[m] \in B
    BY <1>3, <1>6
  <2>3. \A i \in B : \E m \in A : order[m] = i
    <3> SUFFICES ASSUME NEW i \in B PROVE \E m \in A : order[m] = i
      OBVIOUS
    <3>1. PICK m \in M : order[m] = i
      BY <1>5
    <3>2. m \in A
      BY <1>3, <3>1
    <3>3. QED
      BY <3>1, <3>2
  <2> HIDE DEF A, B
  <2>4. Cardinality(A) = Cardinality(B)
    BY <1>4, <2>1, <2>2, <2>3
  <2>5. QED
    BY <2>4 DEF PlaceIn, A, B
<1>9. QED
  BY <1>7, <1>8 DEF M, S

\* Then the graph has the same side effects in the same order.
LEMMA RearrangedEffects ==
  ASSUME NEW g, HasOperations(g), NEW h, NEW order, Rearranges(h, g, order),
         \A i \in SideEffects(g) : \E n \in 1 .. Len(order) : order[n] = i,
         \A m, n \in SideEffects(h) : m < n => order[m] < order[n]
  PROVE  Effects(h) = Effects(g)
<1> DEFINE M == SideEffects(h)
           S == SideEffects(g)
           N == Cardinality(S)
           here == InOrder(M)
           there == InOrder(S)
<1>1. HasOperations(h)
  BY RearrangedFacts
<1>2. Cardinality(M) = N /\ \A n \in M : PlaceIn(M, n) = PlaceIn(S, order[n])
  BY EffectPlaces
<1>3. /\ DOMAIN here = 1 .. N
      /\ \A k \in 1 .. N : here[k] \in M /\ PlaceIn(M, here[k]) = k
  <2>1. M \in SUBSET Nat /\ IsFiniteSet(M)
    BY <1>1, PositionFacts
  <2>2. QED
    BY <1>2, <2>1, InOrderFacts
<1>4. /\ DOMAIN there = 1 .. N
      /\ \A i \in S : there[PlaceIn(S, i)] = i
  <2>1. S \in SUBSET Nat /\ IsFiniteSet(S)
    BY PositionFacts
  <2>2. QED
    BY <2>1, InOrderFacts
<1>5. \A n \in M : n \in 1 .. Len(order) /\ order[n] \in S /\ h.ops[n] = g.ops[order[n]]
  BY RearrangedFacts DEF Rearranges
<1>6. Effects(h) = [ k \in 1 .. N |-> h.ops[here[k]].id ]
  BY <1>3 DEF Effects
<1>7. Effects(g) = [ k \in 1 .. N |-> g.ops[there[k]].id ]
  BY <1>4 DEF Effects
<1> HIDE DEF M, S, N, here, there
<1>8. \A k \in 1 .. N : h.ops[here[k]].id = g.ops[there[k]].id
  <2> SUFFICES ASSUME NEW k \in 1 .. N PROVE h.ops[here[k]].id = g.ops[there[k]].id
    OBVIOUS
  <2>1. here[k] \in M /\ PlaceIn(S, order[here[k]]) = k
    BY <1>2, <1>3
  <2>2. there[k] = order[here[k]]
    BY <1>4, <1>5, <2>1
  <2>3. QED
    BY <1>5, <2>1, <2>2
<1>9. QED
  BY <1>6, <1>7, <1>8

\* What stays when operations are erased stays in its order.
LEMMA ErasedRearranges ==
  ASSUME NEW g, HasOperations(g), NEW positions, NEW values
  PROVE  LET h     == Erased(g, positions, values)
             order == InOrder(Operations(g) \ positions)
         IN  /\ Rearranges(h, g, order)
             /\ \A n \in 1 .. Len(order) : order[n] \in Operations(g) \ positions
             /\ \A i \in Operations(g) \ positions : \E n \in 1 .. Len(order) : order[n] = i
             /\ \A m, n \in 1 .. Len(order) : m < n => order[m] < order[n]
<1> DEFINE Left == Operations(g) \ positions
           order == InOrder(Left)
           r == Reordered(g, order)
           h == Erased(g, positions, values)
<1>1. Left \in SUBSET Nat /\ IsFiniteSet(Left) /\ Left \subseteq Operations(g)
  <2>1. Operations(g) \in SUBSET Nat /\ IsFiniteSet(Operations(g)) /\ Left \subseteq Operations(g)
    BY PositionFacts
  <2>2. QED
    BY <2>1, FS_Subset
<1> HIDE DEF Left
<1>2. /\ order \in Seq(Left) /\ Len(order) = Cardinality(Left)
      /\ \A n \in 1 .. Len(order) : order[n] \in Left
      /\ \A i \in Left : PlaceIn(Left, i) \in 1 .. Len(order) /\ order[PlaceIn(Left, i)] = i
      /\ \A m, n \in 1 .. Len(order) : m < n => order[m] < order[n]
  BY <1>1, InOrderFacts
<1> HIDE DEF order
<1>3. IsSelection(g, order)
  <2>1. order \in Seq(Operations(g))
    BY <1>1, <1>2, SeqMonotonic
  <2>2. ASSUME NEW m \in 1 .. Len(order), NEW n \in 1 .. Len(order), order[m] = order[n]
        PROVE  m = n
    <3>1. Len(order) \in Nat
      BY <1>2, LenProperties
    <3>2. m \in Nat /\ n \in Nat /\ order[m] \in Nat
      <4>1. order[m] \in Left
        BY <1>2
      <4>2. m \in Nat /\ n \in Nat
        BY <3>1
      <4>3. QED
        BY <1>1, <4>1, <4>2
    <3>3. ~(m < n) /\ ~(n < m)
      BY <1>2, <2>2, <3>2
    <3>4. QED
      BY <3>2, <3>3
  <2>3. QED
    BY <2>1, <2>2 DEF IsSelection
<1>4. Rearranges(r, g, order)
  BY <1>3, ReorderedRearranges
<1>5. /\ h.ops = r.ops /\ h.inputs = r.inputs /\ h.outputs = r.outputs
      /\ DOMAIN h = DOMAIN r
  <2>1. h = [ r EXCEPT !.values = [ v \in DOMAIN g.values \ values |-> g.values[v] ] ]
    BY DEF Erased, order, Left
  <2>2. {"ops", "values", "inputs", "outputs"} \subseteq DOMAIN r
    BY <1>4 DEF Rearranges
  <2> HIDE DEF h, r
  <2>3. QED
    BY <2>1, <2>2
<1> HIDE DEF h, r
<1>6. Rearranges(h, g, order)
  BY <1>4, <1>5 DEF Rearranges
<1>7. QED
  BY <1>2, <1>6 DEF order, h, Left

\* Erasing what is no side effect keeps the side effects, and the order.
LEMMA ErasedFacts ==
  ASSUME NEW g, IsGraph(g), NEW positions, positions \cap SideEffects(g) = {}, NEW values
  PROVE  LET h == Erased(g, positions, values)
         IN  /\ IsGraph(h) /\ Effects(h) = Effects(g)
             /\ Topological(g) => Topological(h)
<1> DEFINE h == Erased(g, positions, values)
           order == InOrder(Operations(g) \ positions)
<1>0. HasOperations(g) /\ HasResults(g)
  BY DEF IsGraph
<1>1. /\ Rearranges(h, g, order)
      /\ \A i \in Operations(g) \ positions : \E n \in 1 .. Len(order) : order[n] = i
      /\ \A m, n \in 1 .. Len(order) : m < n => order[m] < order[n]
  BY <1>0, ErasedRearranges
<1> HIDE DEF h, order
<1>2. /\ Len(order) \in Nat /\ \A n \in 1 .. Len(order) : order[n] \in Operations(g)
      /\ HasOperations(h) /\ HasResults(h) /\ SideEffects(h) \subseteq 1 .. Len(order)
  BY <1>0, <1>1, RearrangedFacts
<1>3. \A i \in SideEffects(g) : \E n \in 1 .. Len(order) : order[n] = i
  BY <1>0, <1>1, PositionFacts
<1>4. \A m, n \in SideEffects(h) : m < n => order[m] < order[n]
  BY <1>1, <1>2
<1>5. Effects(h) = Effects(g)
  BY <1>0, <1>1, <1>3, <1>4, RearrangedEffects
<1>6. ASSUME Topological(g)
      PROVE  Topological(h)
  <2>1. ASSUME NEW m \in 1 .. Len(order), NEW n \in 1 .. Len(order),
               << order[m], order[n] >> \in DataEdges(g)
        PROVE  m < n
    <3>1. order[m] < order[n]
      BY <1>6, <2>1 DEF Topological
    <3>2. /\ m \in Nat /\ n \in Nat /\ order[m] \in Nat /\ order[n] \in Nat
      BY <1>0, <1>2, PositionFacts
    <3>3. m # n /\ ~(n < m)
      BY <1>1, <3>1, <3>2
    <3>4. QED
      BY <3>2, <3>3
  <2>2. QED
    BY <1>0, <1>1, <2>1, RearrangedTopologically
<1>7. QED
  BY <1>2, <1>5, <1>6 DEF IsGraph, h

\* So does a whole loop, with what it erases at its end.
LEMMA RunLoopFacts ==
  ASSUME NEW g, IsGraph(g), NEW pass \in Loops
  PROVE  LET h == RunLoop(pass, g)
         IN  /\ IsGraph(h) /\ Effects(h) = Effects(g)
             /\ Topological(g) => Topological(h)
<1> DEFINE last == Rewritten(pass, g)[Len(g.ops)]
           removed == Removed(pass, g)
           values == { Output(g, i) : i \in removed }
<1>1. Len(g.ops) \in 0 .. Len(g.ops)
  BY PositionFacts DEF IsGraph
<1>2. Follows(last, g) /\ (Topological(g) => Topological(last))
  BY <1>1, LoopKeeps
<1>3. IsGraph(last) /\ SideEffects(last) = SideEffects(g) /\ Effects(last) = Effects(g)
  BY <1>2, FollowsFacts
<1>4. removed \cap SideEffects(last) = {}
  BY <1>3, RemovedFacts
<1>5. RunLoop(pass, g) = Erased(last, removed, values)
  BY DEF RunLoop
<1> HIDE DEF last, removed, values
<1>6. /\ IsGraph(Erased(last, removed, values))
      /\ Effects(Erased(last, removed, values)) = Effects(last)
      /\ Topological(last) => Topological(Erased(last, removed, values))
  BY <1>3, <1>4, ErasedFacts
<1>7. QED
  BY <1>2, <1>3, <1>5, <1>6

(***************************************************************************)
(* Canonicalisation.                                                       *)
(***************************************************************************)

\* Attributes are no part of what the order depends on.
LEMMA AttributesFacts ==
  ASSUME NEW g, IsGraph(g)
  PROVE  LET h == WithCanonicalAttributes(g)
         IN  /\ IsGraph(h) /\ Effects(h) = Effects(g)
             /\ Operations(h) = Operations(g) /\ DataEdges(h) = DataEdges(g)
             /\ SideEffects(h) = SideEffects(g)
<1> DEFINE h == WithCanonicalAttributes(g)
<1>0. Len(g.ops) \in Nat /\ Operations(g) = 1 .. Len(g.ops) /\ DOMAIN g.ops = 1 .. Len(g.ops)
  BY PositionFacts DEF IsGraph, Operations
<1>1. {"ops", "values", "inputs", "outputs"} \subseteq DOMAIN g
  BY DEF IsGraph, HasOperations
<1>2. /\ {"ops", "values", "inputs", "outputs"} \subseteq DOMAIN h
      /\ h.inputs = g.inputs /\ h.outputs = g.outputs
      /\ h.ops = [ i \in 1 .. Len(g.ops) |->
                     [ g.ops[i] EXCEPT !.attributes = CanonicalAttributes(g, g.ops[i]) ] ]
  BY <1>0, <1>1 DEF WithCanonicalAttributes
<1> HIDE DEF h
<1>3. \A i \in Operations(g) :
        /\ IsOperation(h.ops[i])
        /\ h.ops[i].id = g.ops[i].id
        /\ h.ops[i].outputs = g.ops[i].outputs
        /\ h.ops[i].side_effect = g.ops[i].side_effect
        /\ h.ops[i].inputs = g.ops[i].inputs
  BY <1>0, <1>2 DEF IsGraph, HasOperations, IsOperation
<1>4. Follows(h, g)
  <2>1. h.ops = [ i \in 1 .. Len(g.ops) |-> h.ops[i] ]
    BY <1>2
  <2>2. QED
    BY <1>2, <1>3, <2>1, NewOperandsFollow
<1>5. /\ IsGraph(h) /\ Effects(h) = Effects(g)
      /\ Operations(h) = Operations(g) /\ SideEffects(h) = SideEffects(g)
      /\ \A i \in Operations(g) : Writes(h, i) = Writes(g, i)
  BY <1>4, FollowsFacts
<1>6. \A i \in Operations(g) : Reads(h, i) = Reads(g, i)
  BY <1>3 DEF Reads
<1>7. DataEdges(h) = DataEdges(g)
  BY <1>5, <1>6 DEF DataEdges
<1>8. QED
  BY <1>5, <1>7 DEF h

\* In an ordering with the chain of side effects, no side effect overtakes another
\* one: of those that come after a given one, the first that overtook it would be
\* chained to one that did not.
LEMMA ChainInOrder ==
  ASSUME NEW g, HasOperations(g), NEW edges, SideEffectEdges(g) \subseteq edges,
         NEW order, IsOrdering(g, edges, order),
         NEW m \in 1 .. Len(order), order[m] \in SideEffects(g),
         NEW n \in 1 .. Len(order), order[n] \in SideEffects(g), order[m] < order[n]
  PROVE  m < n
<1> DEFINE S == SideEffects(g)
           Late(j) == \E k \in 1 .. Len(order) : order[k] = j /\ ~(m < k)
           Bad == { j \in S : order[m] < j /\ Late(j) }
<1>1. S \in SUBSET Nat /\ S \subseteq 0 .. Len(g.ops) /\ Len(g.ops) \in Nat
  BY PositionFacts
<1>2. /\ Len(order) \in Nat
      /\ \A j, k \in 1 .. Len(order) : order[j] = order[k] => j = k
      /\ \A k \in 1 .. Len(order), e \in edges :
           e[2] = order[k] => \E j \in 1 .. k - 1 : order[j] = e[1]
  BY LenProperties DEF IsOrdering
<1>3. ASSUME Bad # {} PROVE FALSE
  <2>1. PICK b \in Bad : \A x \in Bad : b <= x
    <3>1. Bad \in SUBSET Nat
      BY <1>1
    <3>2. QED
      BY <1>3, <3>1, LeastElement
  <2>2. b \in S /\ order[m] < b
    OBVIOUS
  <2>3. PICK k \in 1 .. Len(order) : order[k] = b /\ ~(m < k)
    OBVIOUS
  <2> DEFINE Earlier == { j \in S : j < b }
  <2>4. PICK c \in Earlier : \A x \in Earlier : x <= c
    <3>1. order[m] \in Earlier /\ Earlier \in SUBSET (0 .. Len(g.ops))
      BY <1>1, <2>2
    <3> HIDE DEF Earlier
    <3>2. QED
      BY <1>1, <3>1, GreatestElement
  <2>5. c \in S /\ c < b /\ order[m] <= c
    BY <2>2, <2>4
  <2>6. \A x \in S : ~(c < x /\ x < b)
    BY <1>1, <2>4, <2>5
  <2>7. << c, b >> \in edges
    BY <2>2, <2>5, <2>6 DEF SideEffectEdges
  <2>8. PICK j \in 1 .. k - 1 : order[j] = c
    BY <1>2, <2>3, <2>7
  <2>9. j \in 1 .. Len(order) /\ j < k
    BY <1>2, <2>3, <2>8
  <2>10. c # order[m]
    <3>1. m # j
      BY <1>2, <2>3, <2>9
    <3>2. QED
      BY <1>2, <2>8, <2>9, <3>1
  <2>11. order[m] < c
    BY <1>1, <2>5, <2>10
  <2>12. ~(m < j)
    BY <1>2, <2>3, <2>9
  <2>13. c \in Bad
    BY <2>5, <2>8, <2>9, <2>11, <2>12
  <2>14. b <= c
    BY <2>1, <2>13
  <2>15. QED
    BY <1>1, <2>2, <2>5, <2>14
<1>4. order[n] \notin Bad
  BY <1>3
<1>5. QED
  BY <1>4

\* CanonicalisationPass keeps the side effects and leaves an order in which the
\* operations can run.
LEMMA CanonicaliseFacts ==
  ASSUME NEW g, IsGraph(g), Len(StableOrder(g)) = Len(g.ops)
  PROVE  LET h == Canonicalise(g)
         IN  IsGraph(h) /\ Effects(h) = Effects(g) /\ Topological(h)
<1> DEFINE f == WithCanonicalAttributes(g)
           h == Canonicalise(g)
           order == StableOrder(g)
           edges == DataEdges(g) \cup SideEffectEdges(g)
<1>1. /\ Len(g.ops) \in Nat /\ Operations(g) = 1 .. Len(g.ops)
      /\ \A i \in Operations(g) : g.ops[i].id \in Nat
      /\ HasOperations(g)
  BY PositionFacts DEF IsGraph, HasOperations, IsOperation
<1>2. IsOrdering(g, edges, order)
  BY <1>1, LeastFirstIsOrdering DEF StableOrder
<1>3. h = Reordered(f, order)
  BY DEF Canonicalise
<1>4. /\ IsGraph(f) /\ Effects(f) = Effects(g)
      /\ Operations(f) = Operations(g) /\ DataEdges(f) = DataEdges(g)
      /\ SideEffects(f) = SideEffects(g)
  BY AttributesFacts
<1>5. Len(order) = Len(g.ops)
  OBVIOUS
<1> HIDE DEF f, h, order, edges
<1>6. \A i \in Operations(g) : \E n \in 1 .. Len(order) : order[n] = i
  BY <1>1, <1>2, <1>5, FullOrderingIsOnto
<1>7. IsSelection(f, order)
  BY <1>2, <1>4 DEF IsSelection, IsOrdering
<1>8. Rearranges(h, f, order) /\ HasOperations(f) /\ HasResults(f)
  BY <1>3, <1>4, <1>7, ReorderedRearranges DEF IsGraph
<1>9. /\ Len(order) \in Nat
      /\ HasOperations(h) /\ HasResults(h)
      /\ \A n \in 1 .. Len(order) :
           /\ order[n] \in Operations(g)
           /\ n \in SideEffects(h) <=> order[n] \in SideEffects(g)
      /\ SideEffects(h) \subseteq 1 .. Len(order)
  BY <1>4, <1>8, RearrangedFacts
<1>10. Effects(h) = Effects(f)
  <2>1. \A i \in SideEffects(f) : \E n \in 1 .. Len(order) : order[n] = i
    BY <1>4, <1>6, <1>8, PositionFacts
  <2>2. ASSUME NEW m \in SideEffects(h), NEW n \in SideEffects(h), m < n
        PROVE  order[m] < order[n]
    <3>1. /\ m \in 1 .. Len(order) /\ order[m] \in SideEffects(g)
          /\ n \in 1 .. Len(order) /\ order[n] \in SideEffects(g)
      BY <1>9
    <3>2. ~(n < m) /\ m # n
      BY <1>9, <2>2, <3>1
    <3>3. SideEffectEdges(g) \subseteq edges
      BY DEF edges
    <3>4. ~(order[n] < order[m])
      BY <1>1, <1>2, <3>1, <3>2, <3>3, ChainInOrder
    <3>5. order[m] # order[n]
      BY <1>7, <3>1, <3>2 DEF IsSelection
    <3>6. order[m] \in Nat /\ order[n] \in Nat
      BY <1>1, <3>1, PositionFacts
    <3>7. QED
      BY <3>4, <3>5, <3>6
  <2>3. QED
    BY <1>8, <2>1, <2>2, RearrangedEffects
<1>11. Topological(h)
  <2>1. ASSUME NEW m \in 1 .. Len(order), NEW n \in 1 .. Len(order),
               << order[m], order[n] >> \in DataEdges(f)
        PROVE  m < n
    <3>1. << order[m], order[n] >> \in edges
      BY <1>4, <2>1 DEF edges
    <3>2. PICK k \in 1 .. n - 1 : order[k] = order[m]
      BY <1>2, <3>1 DEF IsOrdering
    <3>3. k \in 1 .. Len(order) /\ k < n
      BY <1>9, <3>2
    <3>4. k = m
      BY <1>7, <3>2, <3>3 DEF IsSelection
    <3>5. QED
      BY <3>3, <3>4
  <2>2. QED
    BY <1>8, <2>1, RearrangedTopologically
<1>12. QED
  BY <1>4, <1>9, <1>10, <1>11 DEF IsGraph, h

(***************************************************************************)
(* Dead code.                                                              *)
(***************************************************************************)

\* One round of the worklist of LiveValues.
LiveRound(g, before) ==
  before \cup UNION { Reads(g, i) : i \in { i \in Operations(g) : Writes(g, i) \cap before # {} } }

\* p has the live values after the first k rounds.
AreLiveRounds(g, k, p) ==
  p = [ n \in 0 .. k |-> IF n = 0 THEN Roots(g) ELSE LiveRound(g, p[n - 1]) ]

\* There are such values for any number of rounds.
LEMMA LiveRoundsExist ==
  ASSUME NEW g, NEW k \in Nat
  PROVE  \E p : AreLiveRounds(g, k, p)
<1> DEFINE Exist(n) == \E p : AreLiveRounds(g, n, p)
           Missing == { n \in 0 .. k : ~Exist(n) }
<1>1. Exist(0)
  <2>1. AreLiveRounds(g, 0, [ n \in 0 .. 0 |-> Roots(g) ])
    BY DEF AreLiveRounds
  <2>2. QED
    BY <2>1
<1>2. ASSUME NEW m \in Nat \ {0}, Exist(m - 1)
      PROVE  Exist(m)
  <2>1. PICK p : AreLiveRounds(g, m - 1, p)
    BY <1>2
  <2> DEFINE q == [ n \in 0 .. m |-> IF n < m THEN p[n] ELSE LiveRound(g, p[m - 1]) ]
  <2>2. \A n \in 0 .. m - 1 : p[n] = IF n = 0 THEN Roots(g) ELSE LiveRound(g, p[n - 1])
    BY <2>1 DEF AreLiveRounds
  <2>3. \A n \in 0 .. m : q[n] = IF n = 0 THEN Roots(g) ELSE LiveRound(g, q[n - 1])
    <3> SUFFICES ASSUME NEW n \in 0 .. m
                 PROVE  q[n] = IF n = 0 THEN Roots(g) ELSE LiveRound(g, q[n - 1])
      OBVIOUS
    <3>1. n # 0 => q[n - 1] = p[n - 1]
      OBVIOUS
    <3>2. CASE n < m
      BY <2>2, <3>1, <3>2
    <3>3. CASE n = m
      BY <3>1, <3>3
    <3>4. QED
      BY <3>2, <3>3
  <2>4. q = [ n \in 0 .. m |-> IF n = 0 THEN Roots(g) ELSE LiveRound(g, q[n - 1]) ]
    BY <2>3
  <2>5. QED
    BY <2>4 DEF AreLiveRounds
<1> HIDE DEF Exist
<1>3. Missing = {}
  <2> SUFFICES ASSUME Missing # {}
               PROVE  FALSE
    OBVIOUS
  <2>0. Missing \in SUBSET Nat
    OBVIOUS
  <2>1. PICK m \in Missing : \A n \in Missing : m <= n
    <3> HIDE DEF Missing
    <3>1. QED
      BY <2>0, LeastElement
  <2>2. m \in Nat \ {0} /\ ~Exist(m)
    BY <1>1
  <2>3. Exist(m - 1)
    BY <2>1, <2>2
  <2>4. QED
    BY <1>2, <2>2, <2>3
<1>4. Exist(k)
  BY <1>3
<1>5. QED
  BY <1>4 DEF Exist

\* LiveValues has the last of them.
LEMMA LiveValuesIsRound ==
  ASSUME NEW g, Len(g.ops) \in Nat
  PROVE  \E p : AreLiveRounds(g, Len(g.ops), p) /\ LiveValues(g) = p[Len(g.ops)]
<1> DEFINE P(q) == q = [ n \in 0 .. Len(g.ops) |->
                           IF n = 0 THEN Roots(g) ELSE LiveRound(g, q[n - 1]) ]
           q == CHOOSE q : P(q)
<1>1. P(q)
  BY LiveRoundsExist DEF AreLiveRounds
<1>2. LiveValues(g) = q[Len(g.ops)]
  BY DEF LiveValues, LiveRound
<1>3. QED
  BY <1>1, <1>2 DEF AreLiveRounds

\* A live value is a root, or read by an operation that writes a live value.
LEMMA LiveFacts ==
  ASSUME NEW g, Len(g.ops) \in Nat
  PROVE  /\ Roots(g) \subseteq LiveValues(g)
         /\ \A v \in LiveValues(g) \ Roots(g) :
              \E i \in Operations(g) : v \in Reads(g, i) /\ Writes(g, i) \cap LiveValues(g) # {}
<1> DEFINE N == Len(g.ops)
           Fine(live) == /\ Roots(g) \subseteq live
                         /\ \A v \in live \ Roots(g) :
                              \E i \in Operations(g) : v \in Reads(g, i) /\ Writes(g, i) \cap live # {}
<1>1. PICK p : AreLiveRounds(g, N, p) /\ LiveValues(g) = p[N]
  BY LiveValuesIsRound
<1> DEFINE Bad == { n \in 0 .. N : ~Fine(p[n]) }
<1>2. p[0] = Roots(g) /\ \A n \in 1 .. N : p[n] = LiveRound(g, p[n - 1])
  BY <1>1 DEF AreLiveRounds
<1>3. Fine(Roots(g))
  OBVIOUS
<1>4. ASSUME NEW live, Fine(live)
      PROVE  Fine(LiveRound(g, live))
  <2>1. live \subseteq LiveRound(g, live)
    BY DEF LiveRound
  <2>2. ASSUME NEW v \in LiveRound(g, live), v \notin live
        PROVE  \E i \in Operations(g) : v \in Reads(g, i) /\ Writes(g, i) \cap live # {}
    BY <2>2 DEF LiveRound
  <2>3. ASSUME NEW v \in LiveRound(g, live) \ Roots(g)
        PROVE  \E i \in Operations(g) :
                 v \in Reads(g, i) /\ Writes(g, i) \cap LiveRound(g, live) # {}
    <3>1. PICK i \in Operations(g) : v \in Reads(g, i) /\ Writes(g, i) \cap live # {}
      BY <1>4, <2>2
    <3>2. QED
      BY <2>1, <3>1
  <2>4. QED
    BY <1>4, <2>1, <2>3
<1> HIDE DEF Fine
<1>5. Bad = {}
  <2> SUFFICES ASSUME Bad # {}
               PROVE  FALSE
    OBVIOUS
  <2>0. Bad \in SUBSET Nat
    OBVIOUS
  <2>1. PICK m \in Bad : \A n \in Bad : m <= n
    <3> HIDE DEF Bad
    <3>1. QED
      BY <2>0, LeastElement
  <2>2. m \in 1 .. N /\ ~Fine(p[m])
    BY <1>2, <1>3
  <2>3. Fine(p[m - 1])
    BY <2>1, <2>2
  <2>4. QED
    BY <1>2, <1>4, <2>2, <2>3
<1>6. Fine(p[N])
  BY <1>5
<1>7. QED
  BY <1>1, <1>6 DEF Fine

\* Only results of side effects have neither a declaration nor a reader.
NoneElseUnread(g) ==
  \A i \in Operations(g) :
    \/ g.ops[i].side_effect
    \/ Writes(g, i) \subseteq g.inputs \cup g.outputs
    \/ \E j \in Operations(g) : Writes(g, i) \cap Reads(g, j) # {}

\* DeadCodeEliminationPass keeps the side effects and the order, and whatever else
\* it keeps has a reader that it keeps as well.
LEMMA DeadCodeFacts ==
  ASSUME NEW g, IsGraph(g)
  PROVE  LET h == EliminateDeadCode(g)
         IN  /\ IsGraph(h) /\ Effects(h) = Effects(g)
             /\ Topological(g) => Topological(h)
             /\ NoneElseUnread(h)
<1> DEFINE h == EliminateDeadCode(g)
           live == LiveValues(g)
           dead == { i \in Operations(g) : Writes(g, i) \cap live = {} }
           values == DOMAIN g.values \ live
           order == InOrder(Operations(g) \ dead)
<1>0. HasOperations(g) /\ HasResults(g) /\ Len(g.ops) \in Nat
  BY PositionFacts DEF IsGraph
<1>1. /\ Roots(g) \subseteq live
      /\ \A v \in live \ Roots(g) :
           \E i \in Operations(g) : v \in Reads(g, i) /\ Writes(g, i) \cap live # {}
  BY <1>0, LiveFacts
<1>2. h = Erased(g, dead, values)
  BY DEF EliminateDeadCode
<1> HIDE DEF live, values, h
<1>3. dead \cap SideEffects(g) = {}
  <2> SUFFICES ASSUME NEW i \in dead, i \in SideEffects(g)
               PROVE  FALSE
    OBVIOUS
  <2>1. Output(g, i) \in Writes(g, i)
    BY ResultFacts
  <2>2. Output(g, i) \in live
    BY <1>1 DEF Roots
  <2>3. QED
    BY <2>1, <2>2
<1>4. /\ Rearranges(h, g, order)
      /\ \A n \in 1 .. Len(order) : order[n] \in Operations(g) \ dead
      /\ \A i \in Operations(g) \ dead : \E n \in 1 .. Len(order) : order[n] = i
  BY <1>0, <1>2, ErasedRearranges
<1> HIDE DEF order
<1>5. /\ Operations(h) = 1 .. Len(order)
      /\ h.inputs = g.inputs /\ h.outputs = g.outputs
      /\ \A n \in 1 .. Len(order) :
           /\ h.ops[n] = g.ops[order[n]]
           /\ Reads(h, n) = Reads(g, order[n]) /\ Writes(h, n) = Writes(g, order[n])
  <2>1. /\ h.inputs = g.inputs /\ h.outputs = g.outputs
        /\ \A n \in 1 .. Len(order) : h.ops[n] = g.ops[order[n]]
    BY <1>4 DEF Rearranges
  <2>2. /\ Operations(h) = 1 .. Len(order)
        /\ \A n \in 1 .. Len(order) :
             Reads(h, n) = Reads(g, order[n]) /\ Writes(h, n) = Writes(g, order[n])
    BY <1>0, <1>4, RearrangedFacts
  <2>3. QED
    BY <2>1, <2>2
<1>6. ASSUME NEW n \in Operations(h), ~h.ops[n].side_effect,
             ~(Writes(h, n) \subseteq h.inputs \cup h.outputs)
      PROVE  \E m \in Operations(h) : Writes(h, n) \cap Reads(h, m) # {}
  <2> DEFINE i == order[n]
             v == Output(g, i)
  <2>1. i \in Operations(g) /\ Writes(g, i) \cap live # {}
    BY <1>4, <1>5
  <2>2. Writes(g, i) = {v} /\ \A j \in Operations(g) : v \in Writes(g, j) => j = i
    <3>1. \A j \in Operations(g) : v \in Writes(g, j) => Producer(g, v) = j
      BY ResultFacts
    <3>2. Writes(g, i) = {v}
      BY <2>1, ResultFacts
    <3>3. QED
      BY <2>1, <3>1, <3>2
  <2> HIDE DEF i, v
  <2>3. v \in live
    BY <2>1, <2>2
  <2>4. v \notin Roots(g)
    <3> SUFFICES ASSUME v \in Roots(g) PROVE FALSE
      OBVIOUS
    <3>1. v \notin g.inputs \cup g.outputs
      BY <1>5, <1>6, <2>2 DEF i
    <3>2. PICK s \in SideEffects(g) : v = Output(g, s)
      BY <3>1 DEF Roots
    <3>3. s \in Operations(g) /\ v \in Writes(g, s)
      BY <1>0, <3>2, PositionFacts, ResultFacts
    <3>4. s = i
      BY <2>2, <3>3
    <3>5. g.ops[i].side_effect
      BY <3>4 DEF SideEffects
    <3>6. QED
      BY <1>5, <1>6, <3>5 DEF i
  <2>5. PICK j \in Operations(g) : v \in Reads(g, j) /\ Writes(g, j) \cap live # {}
    BY <1>1, <2>3, <2>4
  <2>6. PICK m \in 1 .. Len(order) : order[m] = j
    BY <1>4, <2>5
  <2>7. v \in Reads(h, m) /\ v \in Writes(h, n) /\ m \in Operations(h)
    BY <1>5, <2>2, <2>5, <2>6 DEF i
  <2>8. QED
    BY <2>7
<1>7. NoneElseUnread(h)
  BY <1>6 DEF NoneElseUnread
<1> HIDE DEF dead
<1>8. IsGraph(h) /\ Effects(h) = Effects(g) /\ (Topological(g) => Topological(h))
  BY <1>2, <1>3, ErasedFacts
<1>9. QED
  BY <1>7, <1>8 DEF h

(***************************************************************************)
(* The passes of an optimization, and the graphs it starts from.           *)
(***************************************************************************)

PassNames == {"verify", "canonicalise", "dead_code"} \cup Loops

\* What every pass keeps, what canonicalisation and the elimination of dead code
\* add, and that verification changes nothing.
LEMMA ApplyFacts ==
  ASSUME NEW g, IsGraph(g), NEW pass \in PassNames,
         pass = "canonicalise" => HasStableOrder(g)
  PROVE  LET h == Apply(pass, g)
         IN  /\ IsGraph(h) /\ Effects(h) = Effects(g)
             /\ Topological(g) \/ pass = "canonicalise" => Topological(h)
             /\ pass = "dead_code" => NoneElseUnread(h)
             /\ pass = "verify" => h = g
<1>1. CASE pass = "verify"
  <2>1. Apply(pass, g) = g
    BY <1>1 DEF Apply
  <2>2. QED
    BY <1>1, <2>1
<1>2. CASE pass = "canonicalise"
  <2>1. Apply(pass, g) = Canonicalise(g) /\ Len(StableOrder(g)) = Len(g.ops)
    BY <1>2 DEF Apply, HasStableOrder
  <2>2. QED
    BY <1>2, <2>1, CanonicaliseFacts
<1>3. CASE pass \in Loops
  <2>1. Apply(pass, g) = RunLoop(pass, g)
    BY <1>3 DEF Apply, Loops
  <2>2. pass \notin {"verify", "canonicalise", "dead_code"}
    BY <1>3 DEF Loops
  <2>3. QED
    BY <1>3, <2>1, <2>2, RunLoopFacts
<1>4. CASE pass = "dead_code"
  <2>1. Apply(pass, g) = EliminateDeadCode(g)
    BY <1>4 DEF Apply
  <2>2. QED
    BY <1>4, <2>1, DeadCodeFacts
<1>5. QED
  BY <1>1, <1>2, <1>3, <1>4 DEF PassNames

\* What the loader accepts and gives out is a graph.
LEMMA LoadedIsGraph ==
  ASSUME NEW d, HasOperations(d), Accepts(d)
  PROVE  IsGraph(Loaded(d))
<1> DEFINE order == LoadOrder(d)
           h == Loaded(d)
<1>1. HasResults(d)
  BY DEF Accepts, ReferencesExist, ProducersExist, HasResults
<1>2. Len(d.ops) \in Nat /\ \A i \in Operations(d) : d.ops[i].id \in Nat
  BY PositionFacts DEF HasOperations, IsOperation
<1>3. IsOrdering(d, DataEdges(d), order)
  BY <1>2, LeastFirstIsOrdering DEF LoadOrder
<1>4. h = Reordered(d, order)
  BY DEF Loaded
<1> HIDE DEF order, h
<1>5. IsSelection(d, order)
  BY <1>3 DEF IsSelection, IsOrdering
<1>6. Rearranges(h, d, order)
  BY <1>4, <1>5, ReorderedRearranges
<1>7. HasOperations(h) /\ HasResults(h)
  BY <1>1, <1>6, RearrangedFacts
<1>8. QED
  BY <1>7 DEF IsGraph, h

\* The pipelines and what is left of them after some of the passes.
Remaining ==
  { << "verify" >>, << "dead_code" >>, << "fold", "dead_code" >>,
    << "canonicalise", "fold", "dead_code" >>,
    << "fuse", "dead_code" >>, << "transpose", "fuse", "dead_code" >>,
    << "reshape", "transpose", "fuse", "dead_code" >>,
    << "fold", "reshape", "transpose", "fuse", "dead_code" >>,
    << "canonicalise", "fold", "reshape", "transpose", "fuse", "dead_code" >> }

\* Canonicalisation is the first pass where there is one, and the elimination of
\* dead code the last one.
LEMMA RemainingFacts ==
  /\ \A level \in Levels : Pipeline(level) \in Remaining
  /\ \A p \in Remaining :
       /\ Head(p) \in PassNames
       /\ Len(p) = 1 => p = << "verify" >> \/ p = << "dead_code" >>
       /\ Len(p) # 1 => Tail(p) \in Remaining /\ Head(Tail(p)) \notin {"verify", "canonicalise"}
       /\ Head(p) = "verify" => p = << "verify" >>
       /\ p = << "verify" >> => Head(p) = "verify"
       /\ p = << "dead_code" >> => Head(p) = "dead_code"
<1> DEFINE Fine(p) ==
      /\ Head(p) \in PassNames
      /\ Len(p) = 1 => p = << "verify" >> \/ p = << "dead_code" >>
      /\ Len(p) # 1 => Tail(p) \in Remaining /\ Head(Tail(p)) \notin {"verify", "canonicalise"}
      /\ Head(p) = "verify" => p = << "verify" >>
      /\ p = << "verify" >> => Head(p) = "verify"
      /\ p = << "dead_code" >> => Head(p) = "dead_code"
<1>1. Fine(<< "verify" >>)
  BY DEF PassNames
<1>2. Fine(<< "dead_code" >>)
  BY DEF PassNames
<1>3. Fine(<< "fold", "dead_code" >>)
  BY DEF PassNames, Loops, Remaining
<1>4. Fine(<< "canonicalise", "fold", "dead_code" >>)
  BY DEF PassNames, Remaining
<1>5. Fine(<< "fuse", "dead_code" >>)
  BY DEF PassNames, Loops, Remaining
<1>6. Fine(<< "transpose", "fuse", "dead_code" >>)
  BY DEF PassNames, Loops, Remaining
<1>7. Fine(<< "reshape", "transpose", "fuse", "dead_code" >>)
  BY DEF PassNames, Loops, Remaining
<1>8. Fine(<< "fold", "reshape", "transpose", "fuse", "dead_code" >>)
  BY DEF PassNames, Loops, Remaining
<1>9. Fine(<< "canonicalise", "fold", "reshape", "transpose", "fuse", "dead_code" >>)
  BY DEF PassNames, Remaining
<1> HIDE DEF Fine
<1>10. \A p \in Remaining : Fine(p)
  BY <1>1, <1>2, <1>3, <1>4, <1>5, <1>6, <1>7, <1>8, <1>9 DEF Remaining
<1>11. \A level \in Levels : Pipeline(level) \in Remaining
  BY LevelsAssumption DEF Pipeline, Remaining
<1>12. QED
  BY <1>10, <1>11 DEF Fine

(***************************************************************************)
(* The inductive invariant.                                                *)
(***************************************************************************)

\* How far the optimization is.
ProgressInv ==
  /\ runs \in Nat
  /\ status \in {"idle", "running", "optimized", "failed", "refused"}
  /\ status # "idle" => runs > 0
  /\ status = "running" => passes \in Remaining /\ stage \in {"pre", "pass", "post"}
  /\ status = "running" /\ passes = << "verify" >> => ~changed

\* What every pass finds and leaves.
GraphInv ==
  /\ runs > 0 => IsGraph(graph)
  /\ SideEffectsKept
  /\ Canonicalised => Topological(graph)

\* What the last pass leaves.
EndInv ==
  /\ status = "running" /\ stage = "post" /\ passes = << "dead_code" >> => NoneElseUnread(graph)
  /\ status = "optimized" /\ changed => NoneElseUnread(graph)

IInv == ProgressInv /\ GraphInv /\ EndInv

\* Nothing has been optimized yet.
LEMMA InitEstablishes == Init => IInv
BY DEF Init, IInv, ProgressInv, GraphInv, EndInv, SideEffectsKept, Canonicalised

\* An optimization starts from a graph, with the first pass of a pipeline.
LEMMA OptimizePreserves ==
  ASSUME IInv, NEW g, IsGraph(g), NEW level \in Levels, Optimize(g, level)
  PROVE  IInv'
<1>1. /\ runs' = runs + 1 /\ original' = g /\ graph' = g /\ passes' = Pipeline(level)
      /\ stage' = "pre" /\ status' = "running" /\ changed' = FALSE
  BY DEF Optimize
<1>2. passes' \in Remaining
  BY <1>1, RemainingFacts
<1>3. runs' \in Nat /\ runs' > 0
  BY <1>1 DEF IInv, ProgressInv
<1>4. ProgressInv'
  BY <1>1, <1>2, <1>3 DEF ProgressInv
<1>5. ~Canonicalised'
  <2>1. Pipeline(level) = << "verify" >> \/ Head(Pipeline(level)) = "canonicalise"
    <3>1. CASE level = "O0"
      BY <3>1 DEF Pipeline
    <3>2. CASE level = "O1"
      BY <3>2 DEF Pipeline
    <3>3. CASE level = "O2"
      BY <3>3 DEF Pipeline
    <3>4. QED
      BY <3>1, <3>2, <3>3, LevelsAssumption
  <2>2. passes' = << "verify" >> => Head(passes') = "verify"
    BY <1>2, RemainingFacts
  <2>3. QED
    BY <1>1, <2>1, <2>2 DEF Canonicalised
<1>6. GraphInv'
  BY <1>1, <1>5 DEF GraphInv, SideEffectsKept
<1>7. EndInv'
  BY <1>1 DEF EndInv
<1>8. QED
  BY <1>4, <1>6, <1>7 DEF IInv

\* A verification that succeeds lets the pass run.
LEMMA PreVerifyPreserves ==
  ASSUME IInv, PreVerify
  PROVE  IInv'
<1>1. /\ status = "running" /\ stage = "pre" /\ stage' = "pass"
      /\ UNCHANGED << original, graph, passes, status, changed, runs >>
  BY DEF PreVerify
<1>2. ProgressInv'
  BY <1>1 DEF IInv, ProgressInv
<1>3. GraphInv'
  BY <1>1 DEF IInv, GraphInv, SideEffectsKept, Canonicalised
<1>4. EndInv'
  BY <1>1 DEF EndInv
<1>5. QED
  BY <1>2, <1>3, <1>4 DEF IInv

\* A pass is applied to the graph.
LEMMA RunPassPreserves ==
  ASSUME IInv, RunPass
  PROVE  IInv'
<1>1. /\ status = "running" /\ stage = "pass" /\ stage' = "post"
      /\ graph' = Apply(Head(passes), graph)
      /\ changed' = (changed \/ graph' # graph)
      /\ Head(passes) = "canonicalise" => HasStableOrder(graph)
      /\ UNCHANGED << original, passes, status, runs >>
  BY DEF RunPass
<1>2. passes \in Remaining /\ runs > 0 /\ IsGraph(graph)
  BY <1>1 DEF IInv, ProgressInv, GraphInv
<1>3. /\ Head(passes) \in PassNames
      /\ passes = << "verify" >> => Head(passes) = "verify"
      /\ passes = << "dead_code" >> => Head(passes) = "dead_code"
  BY <1>2, RemainingFacts
<1>4. /\ IsGraph(graph') /\ Effects(graph') = Effects(graph)
      /\ Topological(graph) \/ Head(passes) = "canonicalise" => Topological(graph')
      /\ Head(passes) = "dead_code" => NoneElseUnread(graph')
      /\ Head(passes) = "verify" => graph' = graph
  BY <1>1, <1>2, <1>3, ApplyFacts
<1>5. ProgressInv'
  <2>1. passes' = << "verify" >> => ~changed'
    BY <1>1, <1>3, <1>4 DEF IInv, ProgressInv
  <2>2. QED
    BY <1>1, <2>1 DEF IInv, ProgressInv
<1>6. GraphInv'
  <2>1. SideEffectsKept'
    BY <1>1, <1>2, <1>4 DEF IInv, GraphInv, SideEffectsKept
  <2>2. ASSUME Canonicalised'
        PROVE  Topological(graph')
    <3>1. Head(passes) # "verify"
      BY <1>1, <2>2 DEF Canonicalised
    <3>2. Head(passes) = "canonicalise" \/ Canonicalised
      BY <1>1, <3>1 DEF Canonicalised
    <3>3. QED
      BY <1>4, <3>2 DEF IInv, GraphInv
  <2>3. QED
    BY <1>4, <2>1, <2>2 DEF GraphInv
<1>7. EndInv'
  BY <1>1, <1>3, <1>4 DEF EndInv
<1>8. QED
  BY <1>5, <1>6, <1>7 DEF IInv

\* An optimization that fails keeps the side effects as well.
LEMMA FailurePreserves ==
  ASSUME IInv, PassFails \/ VerificationFails
  PROVE  IInv'
<1>1. /\ status = "running" /\ status' = "failed"
      /\ UNCHANGED << original, passes, stage, changed, runs >>
      /\ graph' = graph \/ graph' = WithCanonicalAttributes(graph)
  BY DEF PassFails, VerificationFails, Abort
<1>2. runs > 0 /\ IsGraph(graph) /\ Effects(graph) = Effects(original)
  BY <1>1 DEF IInv, ProgressInv, GraphInv, SideEffectsKept
<1>3. IsGraph(graph') /\ Effects(graph') = Effects(graph)
  BY <1>1, <1>2, AttributesFacts
<1>4. ProgressInv'
  BY <1>1 DEF IInv, ProgressInv
<1>5. GraphInv'
  BY <1>1, <1>2, <1>3 DEF GraphInv, SideEffectsKept, Canonicalised
<1>6. EndInv'
  BY <1>1 DEF EndInv
<1>7. QED
  BY <1>4, <1>5, <1>6 DEF IInv

\* The next pass finds what this one has left.
LEMMA PostVerifyPreserves ==
  ASSUME IInv, PostVerify
  PROVE  IInv'
<1>1. /\ status = "running" /\ stage = "post" /\ stage' = "pre"
      /\ passes' = Tail(passes)
      /\ status' = IF Len(passes) = 1 THEN "optimized" ELSE "running"
      /\ UNCHANGED << original, graph, changed, runs >>
  BY DEF PostVerify
<1>2. passes \in Remaining /\ runs > 0
  BY <1>1 DEF IInv, ProgressInv
<1>3. /\ Len(passes) = 1 => passes = << "verify" >> \/ passes = << "dead_code" >>
      /\ Len(passes) # 1 =>
           Tail(passes) \in Remaining /\ Head(Tail(passes)) \notin {"verify", "canonicalise"}
      /\ Head(passes) = "verify" => passes = << "verify" >>
      /\ Tail(passes) = << "verify" >> => Len(passes) = 1
  <2>1. /\ Len(passes) = 1 => passes = << "verify" >> \/ passes = << "dead_code" >>
        /\ Len(passes) # 1 =>
             Tail(passes) \in Remaining /\ Head(Tail(passes)) \notin {"verify", "canonicalise"}
        /\ Head(passes) = "verify" => passes = << "verify" >>
    BY <1>2, RemainingFacts
  <2>2. Head(<< "verify" >>) = "verify"
    OBVIOUS
  <2>3. QED
    BY <2>1, <2>2
<1>4. ProgressInv'
  BY <1>1, <1>2, <1>3 DEF IInv, ProgressInv
<1>5. GraphInv'
  <2>1. ASSUME Canonicalised'
        PROVE  Topological(graph)
    <3>1. Len(passes) # 1
      BY <1>1, <2>1 DEF Canonicalised
    <3>2. Head(passes) # "verify"
      <4>1. Len(<< "verify" >>) = 1
        OBVIOUS
      <4>2. QED
        BY <1>3, <3>1, <4>1
    <3>3. Canonicalised
      BY <1>1, <3>2 DEF Canonicalised
    <3>4. QED
      BY <3>3 DEF IInv, GraphInv
  <2>2. QED
    BY <1>1, <2>1 DEF IInv, GraphInv, SideEffectsKept
<1>6. EndInv'
  <2>1. ASSUME Len(passes) = 1, changed
        PROVE  NoneElseUnread(graph)
    BY <1>1, <1>3, <2>1 DEF IInv, ProgressInv, EndInv
  <2>2. QED
    BY <1>1, <2>1 DEF EndInv
<1>7. QED
  BY <1>4, <1>5, <1>6 DEF IInv

\* What is loaded again is a graph; what is refused stays.
LEMMA ReloadPreserves ==
  ASSUME IInv, Reload
  PROVE  IInv'
<1>1. /\ status = "optimized"
      /\ \/ Accepts(graph) /\ graph' = Loaded(graph) /\ status' = "idle"
         \/ graph' = graph /\ status' = "refused"
      /\ UNCHANGED << original, passes, stage, changed, runs >>
  BY DEF Reload
<1>2. runs > 0 /\ IsGraph(graph)
  BY <1>1 DEF IInv, ProgressInv, GraphInv
<1>3. IsGraph(graph')
  BY <1>1, <1>2, LoadedIsGraph DEF IsGraph
<1>4. ProgressInv'
  BY <1>1 DEF IInv, ProgressInv
<1>5. GraphInv'
  BY <1>1, <1>3 DEF IInv, GraphInv, SideEffectsKept, Canonicalised
<1>6. EndInv'
  BY <1>1 DEF EndInv
<1>7. QED
  BY <1>4, <1>5, <1>6 DEF IInv

\* Every step keeps the invariant.
LEMMA NextPreserves ==
  ASSUME IInv, [Next]_vars
  PROVE  IInv'
<1>1. ASSUME NEW level \in Levels, runs = 0,
             NEW d \in Documents, Accepts(d), Optimize(Loaded(d), level)
      PROVE  IInv'
  <2>1. IsGraph(Loaded(d))
    BY <1>1, GraphsAssumption, LoadedIsGraph
  <2>2. QED
    BY <1>1, <2>1, OptimizePreserves
<1>2. ASSUME NEW level \in Levels, runs = 0, NEW g \in Graphs, Optimize(g, level)
      PROVE  IInv'
  <2>1. IsGraph(g)
    BY GraphsAssumption DEF IsGraph
  <2>2. QED
    BY <1>2, <2>1, OptimizePreserves
<1>3. ASSUME NEW level \in Levels, runs > 0, Optimize(graph, level)
      PROVE  IInv'
  <2>1. IsGraph(graph)
    BY <1>3 DEF IInv, GraphInv
  <2>2. QED
    BY <1>3, <2>1, OptimizePreserves
<1>4. CASE PreVerify
  BY <1>4, PreVerifyPreserves
<1>5. CASE RunPass
  BY <1>5, RunPassPreserves
<1>6. CASE PassFails \/ VerificationFails
  BY <1>6, FailurePreserves
<1>7. CASE PostVerify
  BY <1>7, PostVerifyPreserves
<1>8. CASE Reload
  BY <1>8, ReloadPreserves
<1>9. CASE UNCHANGED vars
  BY <1>9 DEF vars, IInv, ProgressInv, GraphInv, EndInv, SideEffectsKept, Canonicalised
<1>10. QED
  BY <1>1, <1>2, <1>3, <1>4, <1>5, <1>6, <1>7, <1>8, <1>9 DEF Next

\* The invariant holds at every state of an optimization.
THEOREM Invariance == Spec => []IInv
<1>1. Init => IInv
  BY InitEstablishes
<1>2. IInv /\ [Next]_vars => IInv'
  BY NextPreserves
<1>3. QED
  BY <1>1, <1>2, PTL DEF Spec

(***************************************************************************)
(* The results.                                                            *)
(***************************************************************************)

\* Through all rewriting, also of an optimization that fails, the side effects are
\* those of the graph it was given, in its order (stable_topological_order,
\* and the side_effect checks of the passes).
THEOREM SideEffectsKeptHolds == Spec => []SideEffectsKept
<1>1. IInv => SideEffectsKept
  BY DEF IInv, GraphInv
<1>2. QED
  BY <1>1, Invariance, PTL

\* From the canonicalisation on, every pass finds and leaves the operations in an
\* order in which they can run, whatever it replaces, fuses or erases.
THEOREM StoredTopologicallyHolds == Spec => []StoredTopologically
<1>1. IInv => StoredTopologically
  BY DEF IInv, GraphInv, StoredTopologically, Topological
<1>2. QED
  BY <1>1, Invariance, PTL

\* An optimization that has rewritten something leaves no value without a reader
\* but results of side effects and declared ones (the worklist of
\* DeadCodeEliminationPass is the last word of every pipeline that rewrites).
THEOREM OnlySideEffectsUnreadHolds == Spec => []OnlySideEffectsUnread
<1>1. IInv => OnlySideEffectsUnread
  BY DEF IInv, EndInv, OnlySideEffectsUnread, NoneElseUnread
<1>2. QED
  BY <1>1, Invariance, PTL

(***************************************************************************)
(* What the loader asks of a graph, without the order in which it looks:   *)
(* that values and operations are in step, and that the outputs belong to  *)
(* every set of values that has the inputs and what they reach.            *)
(***************************************************************************)

WellFormed(g) == IsGraph(g) /\ ReferencesExist(g) /\ ProducersExist(g) /\ RolesAgree(g)

\* With a value, the set has the results of whoever reads it.
Closed(g, C) ==
  /\ g.inputs \subseteq C
  /\ \A i \in Operations(g) : Reads(g, i) \cap C # {} => Writes(g, i) \subseteq C

Linked(g) == \A C : Closed(g, C) => g.outputs \subseteq C

\* In an order of all operations it is the least set that has the inputs and what
\* they reach.
LEMMA ConnectedFacts ==
  ASSUME NEW g, HasOperations(g), NEW order, IsOrdering(g, DataEdges(g), order),
         Len(order) = Len(g.ops)
  PROVE  /\ Closed(g, Connected(g, order))
         /\ \A C : Closed(g, C) => Connected(g, order) \subseteq C
<1> DEFINE N == Len(order)
<1>0. /\ N \in Nat /\ Operations(g) = 1 .. N
      /\ \A n \in 1 .. N : order[n] \in Operations(g)
      /\ \A m, n \in 1 .. N : order[m] = order[n] => m = n
  BY PositionFacts, LenProperties DEF IsOrdering
<1>1. PICK p : AreConnectedRounds(g, order, N, p) /\ Connected(g, order) = p[N]
  BY <1>0, ConnectedIsRound
<1>2. p[0] = g.inputs /\ \A n \in 1 .. N : p[n] = ConnectedRound(g, order[n], p[n - 1])
  BY <1>0, <1>1 DEF AreConnectedRounds
<1>3. \A i \in Operations(g) : \E n \in 1 .. N : order[n] = i
  BY <1>0, FullOrderingIsOnto
<1> HIDE DEF N
<1>4. \A n \in 0 .. N : \A m \in 0 .. n : p[m] \subseteq p[n]
  <2> DEFINE S == { n \in 0 .. N : \A m \in 0 .. n : p[m] \subseteq p[n] }
  <2>1. 0 \in S
    BY <1>0
  <2>2. ASSUME NEW n \in 1 .. N, n - 1 \in S
        PROVE  n \in S
    <3>1. p[n - 1] \subseteq p[n]
      BY <1>2 DEF ConnectedRound
    <3>2. \A m \in 0 .. n : m = n \/ m \in 0 .. n - 1
      BY <1>0
    <3>3. QED
      BY <1>0, <2>2, <3>1, <3>2
  <2>3. S \in SUBSET (0 .. N)
    OBVIOUS
  <2> HIDE DEF S
  <2>4. \A n \in 0 .. N : n \in S
    BY <1>0, <2>1, <2>2, <2>3, UpTo
  <2>5. QED
    BY <2>4 DEF S
<1>5. \A n \in 0 .. N : \A v \in p[n] :
        v \in g.inputs \/ \E k \in 1 .. n : v \in Writes(g, order[k]) /\ v \in p[k]
  <2> DEFINE Traced(n) == \A v \in p[n] :
               v \in g.inputs \/ \E k \in 1 .. n : v \in Writes(g, order[k]) /\ v \in p[k]
             S == { n \in 0 .. N : Traced(n) }
  <2>1. 0 \in S
    BY <1>0, <1>2
  <2>2. ASSUME NEW n \in 1 .. N, Traced(n - 1)
        PROVE  Traced(n)
    <3> SUFFICES ASSUME NEW v \in p[n], v \notin g.inputs
                 PROVE  \E k \in 1 .. n : v \in Writes(g, order[k]) /\ v \in p[k]
      OBVIOUS
    <3>1. CASE v \in p[n - 1]
      <4>1. PICK k \in 1 .. n - 1 : v \in Writes(g, order[k]) /\ v \in p[k]
        BY <2>2, <3>1
      <4>2. k \in 1 .. n
        BY <1>0
      <4>3. QED
        BY <4>1, <4>2
    <3>2. CASE v \notin p[n - 1]
      <4>1. v \in Writes(g, order[n])
        BY <1>2, <3>2 DEF ConnectedRound
      <4>2. n \in 1 .. n
        BY <1>0
      <4>3. QED
        BY <4>1, <4>2
    <3>3. QED
      BY <3>1, <3>2
  <2> HIDE DEF Traced
  <2>3. \A n \in 1 .. N : n - 1 \in S => n \in S
    BY <2>2
  <2>4. S \in SUBSET (0 .. N)
    OBVIOUS
  <2> HIDE DEF S
  <2>5. \A n \in 0 .. N : n \in S
    BY <1>0, <2>1, <2>3, <2>4, UpTo
  <2>6. QED
    BY <2>5 DEF S, Traced
<1>6. ASSUME NEW i \in Operations(g), Reads(g, i) \cap p[N] # {}
      PROVE  Writes(g, i) \subseteq p[N]
  <2>1. PICK m \in 1 .. N : order[m] = i
    BY <1>3
  <2>2. PICK v \in Reads(g, i) : v \in p[N]
    BY <1>6
  <2>3. m - 1 \in 0 .. N /\ m \in 0 .. N /\ N \in 0 .. N
    BY <1>0
  <2>4. v \in p[m - 1]
    <3>1. CASE v \in g.inputs
      <4>1. 0 \in 0 .. m - 1
        BY <1>0
      <4>2. QED
        BY <1>2, <1>4, <2>3, <3>1, <4>1
    <3>2. CASE v \notin g.inputs
      <4>1. PICK k \in 1 .. N : v \in Writes(g, order[k]) /\ v \in p[k]
        BY <1>5, <2>2, <2>3, <3>2
      <4>2. << order[k], order[m] >> \in DataEdges(g)
        BY <1>0, <2>1, <2>2, <4>1 DEF DataEdges
      <4>3. PICK j \in 1 .. m - 1 : order[j] = order[k]
        <5>1. \A e \in DataEdges(g) : e[2] = order[m] => \E j \in 1 .. m - 1 : order[j] = e[1]
          BY DEF IsOrdering, N
        <5>2. QED
          BY <4>2, <5>1
      <4>4. j = k
        <5>1. j \in 1 .. N
          BY <1>0
        <5>2. QED
          BY <1>0, <4>3, <5>1
      <4>5. k \in 0 .. m - 1
        BY <1>0, <4>4
      <4>6. QED
        BY <1>4, <2>3, <4>1, <4>5
    <3>3. QED
      BY <3>1, <3>2
  <2>5. Writes(g, i) \subseteq p[m]
    BY <1>2, <2>1, <2>2, <2>4 DEF ConnectedRound
  <2>6. m \in 0 .. N /\ p[m] \subseteq p[N]
    BY <1>0, <1>4, <2>3
  <2>7. QED
    BY <2>5, <2>6
<1>7. g.inputs \subseteq p[N]
  <2>1. 0 \in 0 .. N /\ N \in 0 .. N
    BY <1>0
  <2>2. QED
    BY <1>2, <1>4, <2>1
<1>8. ASSUME NEW C, Closed(g, C)
      PROVE  p[N] \subseteq C
  <2> DEFINE S == { n \in 0 .. N : p[n] \subseteq C }
  <2>1. 0 \in S
    BY <1>0, <1>2, <1>8 DEF Closed
  <2>2. ASSUME NEW n \in 1 .. N, p[n - 1] \subseteq C
        PROVE  p[n] \subseteq C
    BY <1>0, <1>2, <1>8, <2>2 DEF Closed, ConnectedRound
  <2>3. S \in SUBSET (0 .. N) /\ \A n \in 1 .. N : n - 1 \in S => n \in S
    BY <2>2
  <2> HIDE DEF S
  <2>4. N \in S
    <3>1. N \in 0 .. N
      BY <1>0
    <3>2. QED
      BY <1>0, <2>1, <2>3, <3>1, UpTo
  <2>5. QED
    BY <2>4 DEF S
<1>9. Closed(g, p[N])
  BY <1>6, <1>7 DEF Closed
<1>10. QED
  BY <1>1, <1>8, <1>9

\* If there is an order in which all operations can run, the loader finds one: of those
\* it has not got yet, the first one in that order is ready.
LEMMA AnyOrderIsEnough ==
  ASSUME NEW g, HasOperations(g), NEW run, IsOrdering(g, DataEdges(g), run),
         Len(run) = Len(g.ops)
  PROVE  Len(LoadOrder(g)) = Len(g.ops)
<1> DEFINE N == Len(g.ops)
           edges == DataEdges(g)
<1>0. N \in Nat /\ Operations(g) = 1 .. N /\ \A i \in Operations(g) : g.ops[i].id \in Nat
  BY PositionFacts DEF HasOperations, IsOperation
<1>1. PICK p : AreExtensions(g, edges, N, p) /\ LeastFirst(g, edges) = p[N]
  BY <1>0, LeastFirstIsExtension
<1> HIDE DEF N, edges
<1>2. p[0] = << >> /\ \A n \in 1 .. N : p[n] = Extension(g, edges, p[n - 1])
  BY <1>0, <1>1 DEF AreExtensions
<1> DEFINE Grown(n) == IsOrdering(g, edges, p[n]) /\ Len(p[n]) = n
           S == { n \in 0 .. N : Grown(n) }
<1>3. \A i \in Operations(g) : \E k \in 1 .. N : run[k] = i
  BY <1>0, FullOrderingIsOnto DEF N
<1>4. /\ \A k \in 1 .. N : run[k] \in Operations(g)
      /\ \A k \in 1 .. N : \A e \in edges :
           e[2] = run[k] => \E j \in 1 .. k - 1 : run[j] = e[1]
  BY LenProperties DEF IsOrdering, N, edges
<1>5. Grown(0)
  BY <1>2, EmptySeq DEF IsOrdering
<1>6. ASSUME NEW n \in 1 .. N, Grown(n - 1)
      PROVE  Grown(n)
  <2> DEFINE s == p[n - 1]
             undone == Operations(g) \ Elements(s)
  <2>1. /\ s \in Seq(Operations(g)) /\ Len(s) = n - 1 /\ DOMAIN s = 1 .. n - 1
        /\ IsOrdering(g, edges, s)
    BY <1>6, LenProperties DEF IsOrdering
  <2> HIDE DEF s
  <2>2. undone # {}
    <3> SUFFICES ASSUME 1 .. N \subseteq Elements(s) PROVE FALSE
      BY <1>0
    <3>1. IsFiniteSet(1 .. n - 1) /\ Cardinality(1 .. n - 1) = n - 1
      <4>1. 1 \in Int /\ n - 1 \in Int
        BY <1>0
      <4>2. /\ IsFiniteSet(1 .. n - 1)
            /\ Cardinality(1 .. n - 1) = IF 1 > n - 1 THEN 0 ELSE (n - 1) - 1 + 1
        BY <4>1, FS_Interval
      <4>3. QED
        BY <1>0, <4>2
    <3>2. s \in Surjection(1 .. n - 1, Elements(s))
      <4>1. Elements(s) = { s[k] : k \in 1 .. n - 1 }
        BY <2>1 DEF Elements
      <4>2. s = [ k \in 1 .. n - 1 |-> s[k] ]
        BY <2>1
      <4>3. s \in [ 1 .. n - 1 -> Elements(s) ]
        BY <4>1, <4>2
      <4>4. QED
        BY <4>1, <4>3 DEF Surjection
    <3>3. IsFiniteSet(Elements(s)) /\ Cardinality(Elements(s)) <= n - 1
      BY <3>1, <3>2, FS_Surjection
    <3>4. Cardinality(1 .. N) = N
      BY <1>0, FS_Interval
    <3>5. Cardinality(1 .. N) <= Cardinality(Elements(s))
      BY <3>3, FS_Subset
    <3>6. Cardinality(Elements(s)) \in Nat
      BY <3>3, FS_CardinalityType
    <3>7. QED
      BY <1>0, <3>3, <3>4, <3>5, <3>6
  <2>3. PICK k \in 1 .. N : run[k] \in undone /\ \A j \in 1 .. N : run[j] \in undone => k <= j
    <3> DEFINE K == { k \in 1 .. N : run[k] \in undone }
    <3> HIDE DEF undone
    <3>1. K \in SUBSET Nat
      BY <1>0
    <3>2. K # {}
      BY <1>3, <2>2 DEF undone
    <3>3. PICK k \in K : \A j \in K : k <= j
      <4> HIDE DEF K
      <4>1. QED
        BY <3>1, <3>2, LeastElement
    <3>4. QED
      BY <3>3
  <2>4. \A e \in edges : e[2] = run[k] => e[1] \in Elements(s)
    <3> SUFFICES ASSUME NEW e \in edges, e[2] = run[k]
                 PROVE  e[1] \in Elements(s)
      OBVIOUS
    <3>1. PICK j \in 1 .. k - 1 : run[j] = e[1]
      BY <1>4
    <3>2. j \in 1 .. N /\ ~(k <= j)
      BY <1>0
    <3>3. run[j] \notin undone /\ run[j] \in Operations(g)
      BY <1>4, <2>3, <3>2
    <3>4. QED
      BY <3>1, <3>3
  <2>5. Candidates(g, edges, s) # {}
    BY <2>3, <2>4 DEF Candidates
  <2>6. IsOrdering(g, edges, p[n])
    BY <1>0, <1>2, <2>1, ExtensionKeepsOrdering DEF s
  <2>7. Len(p[n]) = n
    <3>1. PICK c : p[n] = Append(s, c)
      BY <1>2, <2>5 DEF Extension, s
    <3>2. Len(Append(s, c)) = Len(s) + 1
      <4>1. s \in Seq(Operations(g) \cup {c})
        BY <2>1
      <4>2. QED
        BY <4>1, AppendProperties
    <3>3. QED
      BY <2>1, <3>1, <3>2
  <2>8. QED
    BY <2>6, <2>7
<1> HIDE DEF Grown
<1>7. S \in SUBSET (0 .. N) /\ 0 \in S /\ \A n \in 1 .. N : n - 1 \in S => n \in S
  BY <1>0, <1>5, <1>6
<1>8. N \in 0 .. N
  BY <1>0
<1> HIDE DEF S
<1>9. N \in S
  BY <1>0, <1>7, <1>8, UpTo
<1>10. QED
  BY <1>1, <1>9 DEF S, Grown, LoadOrder, N, edges

\* If they are stored in such an order, that is one.
LEMMA TopologicalHasOrder ==
  ASSUME NEW g, HasOperations(g), Topological(g)
  PROVE  Len(LoadOrder(g)) = Len(g.ops)
<1> DEFINE N == Len(g.ops)
           stored == [ i \in 1 .. N |-> i ]
<1>0. N \in Nat /\ Operations(g) = 1 .. N
  BY PositionFacts
<1> HIDE DEF N
<1>1. stored \in Seq(Operations(g)) /\ Len(stored) = N
  <2>1. stored \in [ 1 .. N -> 1 .. N ]
    OBVIOUS
  <2>2. stored \in Seq(1 .. N)
    BY <1>0, <2>1
  <2>3. Len(stored) \in Nat /\ DOMAIN stored = 1 .. Len(stored) /\ DOMAIN stored = 1 .. N
    BY <2>2, LenProperties
  <2>4. QED
    BY <1>0, <2>2, <2>3
<1>2. ASSUME NEW n \in 1 .. N, NEW e \in DataEdges(g), e[2] = stored[n]
      PROVE  \E m \in 1 .. n - 1 : stored[m] = e[1]
  <2>1. e[1] \in 1 .. N /\ e[1] < n
    BY <1>0, <1>2 DEF Topological, DataEdges
  <2>2. e[1] \in 1 .. n - 1 /\ stored[e[1]] = e[1]
    BY <1>0, <2>1
  <2>3. QED
    BY <2>2
<1>3. \A m, n \in 1 .. N : stored[m] = stored[n] => m = n
  OBVIOUS
<1> HIDE DEF stored
<1>4. IsOrdering(g, DataEdges(g), stored)
  BY <1>1, <1>2, <1>3 DEF IsOrdering
<1>5. QED
  BY <1>1, <1>4, AnyOrderIsEnough DEF N

\* So a graph with all that is accepted, and what is accepted has it.
LEMMA AcceptsFacts ==
  ASSUME NEW g, HasOperations(g)
  PROVE  /\ Accepts(g) => WellFormed(g) /\ Linked(g)
         /\ WellFormed(g) /\ Linked(g) /\ Topological(g) => Accepts(g)
<1> DEFINE order == LoadOrder(g)
<1>1. IsOrdering(g, DataEdges(g), order)
  BY PositionFacts, LeastFirstIsOrdering DEF LoadOrder, HasOperations, IsOperation
<1>2. ASSUME Accepts(g)
      PROVE  WellFormed(g) /\ Linked(g)
  <2>1. WellFormed(g)
    BY <1>2 DEF Accepts, WellFormed, IsGraph, HasResults, ReferencesExist, ProducersExist
  <2>2. Len(order) = Len(g.ops) /\ g.outputs \subseteq Connected(g, order)
    BY <1>2 DEF Accepts
  <2>3. QED
    BY <1>1, <2>1, <2>2, ConnectedFacts DEF Linked
<1>3. ASSUME WellFormed(g), Linked(g), Topological(g)
      PROVE  Accepts(g)
  <2>1. Len(order) = Len(g.ops)
    BY <1>3, TopologicalHasOrder
  <2>2. g.outputs \subseteq Connected(g, order)
    BY <1>1, <1>3, <2>1, ConnectedFacts DEF Linked
  <2>3. QED
    BY <1>3, <2>1, <2>2 DEF Accepts, WellFormed
<1>4. QED
  BY <1>2, <1>3

(***************************************************************************)
(* What canonicalisation and erasing do to such a graph.                   *)
(***************************************************************************)

\* The operations at these positions write these values, with which no other
\* operation and no declared output has to do.
Apart(g, positions, values) ==
  /\ positions \subseteq Operations(g)
  /\ \A i \in positions : Writes(g, i) \subseteq values
  /\ \A i \in Operations(g) \ positions : (Reads(g, i) \cup Writes(g, i)) \cap values = {}
  /\ values \cap g.outputs = {}

Separates(g, positions, values) == Apart(g, positions, values) /\ values \cap g.inputs = {}

\* Without both, in whatever order, the graph is as good: with the values, a set
\* that is closed in what is left is closed in the whole graph.
LEMMA SelectionReloads ==
  ASSUME NEW g, WellFormed(g), Linked(g),
         NEW positions, NEW values, Separates(g, positions, values),
         NEW h, NEW order, Rearranges(h, g, order),
         \A n \in 1 .. Len(order) : order[n] \notin positions,
         \A i \in Operations(g) \ positions : \E n \in 1 .. Len(order) : order[n] = i,
         DOMAIN h.values = DOMAIN g.values \ values,
         \A v \in DOMAIN h.values : h.values[v] = g.values[v]
  PROVE  WellFormed(h) /\ Linked(h)
<1>0. HasOperations(g) /\ HasResults(g)
  BY DEF WellFormed, IsGraph
<1>1. /\ HasOperations(h) /\ HasResults(h) /\ Operations(h) = 1 .. Len(order)
      /\ \A n \in 1 .. Len(order) :
           /\ order[n] \in Operations(g)
           /\ Reads(h, n) = Reads(g, order[n]) /\ Writes(h, n) = Writes(g, order[n])
  BY <1>0, RearrangedFacts
<1>2. /\ h.inputs = g.inputs /\ h.outputs = g.outputs
      /\ \A n \in 1 .. Len(order) : h.ops[n] = g.ops[order[n]]
  BY DEF Rearranges
<1>3. \A n \in 1 .. Len(order) : order[n] \in Operations(g) \ positions
  BY <1>1
<1>4. ReferencesExist(h)
  <2>1. \A v \in h.inputs : v \in DOMAIN h.values /\ Kind(h, v) = "input"
    BY <1>2 DEF WellFormed, ReferencesExist, Separates, Apart, Kind
  <2>2. \A v \in h.outputs : v \in DOMAIN h.values /\ Kind(h, v) = "output"
    BY <1>2 DEF WellFormed, ReferencesExist, Separates, Apart, Kind
  <2>3. ASSUME NEW n \in Operations(h)
        PROVE  Len(h.ops[n].outputs) = 1 /\ Reads(h, n) \cup Writes(h, n) \subseteq DOMAIN h.values
    <3>1. order[n] \in Operations(g) \ positions
      BY <1>1, <1>3
    <3>2. /\ Len(g.ops[order[n]].outputs) = 1
          /\ Reads(g, order[n]) \cup Writes(g, order[n]) \subseteq DOMAIN g.values \ values
      BY <3>1 DEF WellFormed, ReferencesExist, Separates, Apart
    <3>3. QED
      BY <1>1, <1>2, <3>2
  <2>4. QED
    BY <2>1, <2>2, <2>3 DEF ReferencesExist
<1>5. ProducersExist(h)
  <2>1. ~HasDuplicateProducer(h)
    BY <1>1 DEF HasResults
  <2>2. ASSUME NEW v \in DOMAIN h.values
        PROVE  \E n \in Operations(h) : v \in Writes(h, n)
    <3>1. PICK i \in Operations(g) : v \in Writes(g, i)
      BY DEF WellFormed, ProducersExist
    <3>2. i \notin positions
      BY <3>1 DEF Separates, Apart
    <3>3. PICK n \in 1 .. Len(order) : order[n] = i
      BY <3>2
    <3>4. QED
      BY <1>1, <3>1, <3>3
  <2>3. QED
    BY <2>1, <2>2 DEF ProducersExist
<1>6. RolesAgree(h)
  <2> SUFFICES ASSUME NEW n \in Operations(h), NEW v \in Writes(h, n)
               PROVE  Kind(h, v) \in KindsProducedBy(h.ops[n].type)
    BY DEF RolesAgree
  <2>1. order[n] \in Operations(g) /\ v \in Writes(g, order[n]) /\ h.ops[n] = g.ops[order[n]]
    BY <1>1, <1>2
  <2>2. v \in DOMAIN h.values
    BY <1>4 DEF ReferencesExist
  <2>3. Kind(g, v) \in KindsProducedBy(g.ops[order[n]].type)
    BY <2>1 DEF WellFormed, RolesAgree
  <2>4. QED
    BY <2>1, <2>2, <2>3 DEF Kind
<1>7. Linked(h)
  <2> SUFFICES ASSUME NEW C, Closed(h, C)
               PROVE  h.outputs \subseteq C
    BY DEF Linked
  <2> DEFINE D == C \cup values
  <2>1. ASSUME NEW i \in Operations(g), Reads(g, i) \cap D # {}
        PROVE  Writes(g, i) \subseteq D
    <3>1. CASE i \in positions
      BY <3>1 DEF Separates, Apart
    <3>2. CASE i \notin positions
      <4>1. PICK n \in 1 .. Len(order) : order[n] = i
        BY <3>2
      <4>2. Reads(g, i) \cap values = {}
        BY <3>2 DEF Separates, Apart
      <4>3. Reads(h, n) \cap C # {} /\ n \in Operations(h)
        BY <1>1, <2>1, <4>1, <4>2
      <4>4. Writes(h, n) \subseteq C
        BY <4>3 DEF Closed
      <4>5. QED
        BY <1>1, <4>1, <4>4
    <3>3. QED
      BY <3>1, <3>2
  <2>2. g.inputs \subseteq D
    BY <1>2 DEF Closed
  <2> HIDE DEF D
  <2>3. g.outputs \subseteq D
    BY <2>1, <2>2 DEF Linked, Closed
  <2>4. QED
    BY <1>2, <2>3 DEF D, Separates, Apart
<1>8. QED
  BY <1>1, <1>4, <1>5, <1>6, <1>7 DEF WellFormed, IsGraph

\* Erasing what is separate.
LEMMA ErasedReloads ==
  ASSUME NEW g, WellFormed(g), Linked(g),
         NEW positions, NEW values, Separates(g, positions, values)
  PROVE  LET h == Erased(g, positions, values)
         IN  WellFormed(h) /\ Linked(h)
<1> DEFINE h == Erased(g, positions, values)
           order == InOrder(Operations(g) \ positions)
<1>0. HasOperations(g)
  BY DEF WellFormed, IsGraph
<1>1. /\ Rearranges(h, g, order)
      /\ \A n \in 1 .. Len(order) : order[n] \in Operations(g) \ positions
      /\ \A i \in Operations(g) \ positions : \E n \in 1 .. Len(order) : order[n] = i
  BY <1>0, ErasedRearranges
<1>2. h.values = [ v \in DOMAIN g.values \ values |-> g.values[v] ]
  BY <1>0 DEF Erased, Reordered, HasOperations
<1> HIDE DEF h, order
<1>3. /\ DOMAIN h.values = DOMAIN g.values \ values
      /\ \A v \in DOMAIN h.values : h.values[v] = g.values[v]
  BY <1>2
<1>4. WellFormed(h) /\ Linked(h)
  BY <1>1, <1>3, SelectionReloads
<1>5. QED
  BY <1>4 DEF h

\* Operations that write and read the same, and are of the same kind, are as good.
LEMMA SameReadsReload ==
  ASSUME NEW g, WellFormed(g), Linked(g), NEW h, Follows(h, g), h.values = g.values,
         \A i \in Operations(g) : Reads(h, i) = Reads(g, i) /\ h.ops[i].type = g.ops[i].type
  PROVE  WellFormed(h) /\ Linked(h)
<1>1. /\ IsGraph(h) /\ Operations(h) = Operations(g)
      /\ h.inputs = g.inputs /\ h.outputs = g.outputs
      /\ \A i \in Operations(g) : Writes(h, i) = Writes(g, i)
  BY FollowsFacts DEF WellFormed
<1>2. ReferencesExist(h)
  BY <1>1 DEF WellFormed, ReferencesExist, Kind, IsGraph, HasResults
<1>3. ProducersExist(h)
  BY <1>1 DEF WellFormed, ProducersExist, IsGraph, HasResults
<1>4. RolesAgree(h)
  BY <1>1 DEF WellFormed, RolesAgree, Kind
<1>5. Linked(h)
  BY <1>1 DEF Linked, Closed
<1>6. QED
  BY <1>1, <1>2, <1>3, <1>4, <1>5 DEF WellFormed

\* CanonicalisationPass changes attributes and the order.
LEMMA CanonicaliseReloads ==
  ASSUME NEW g, WellFormed(g), Linked(g), Len(StableOrder(g)) = Len(g.ops)
  PROVE  LET h == Canonicalise(g)
         IN  WellFormed(h) /\ Linked(h)
<1> DEFINE f == WithCanonicalAttributes(g)
           h == Canonicalise(g)
           order == StableOrder(g)
           edges == DataEdges(g) \cup SideEffectEdges(g)
<1>0. IsGraph(g)
  BY DEF WellFormed
<1>1. /\ Len(g.ops) \in Nat /\ Operations(g) = 1 .. Len(g.ops) /\ DOMAIN g.ops = 1 .. Len(g.ops)
      /\ \A i \in Operations(g) : g.ops[i].id \in Nat
      /\ {"ops", "values", "inputs", "outputs"} \subseteq DOMAIN g
  BY <1>0, PositionFacts DEF IsGraph, HasOperations, IsOperation, Operations
<1>2. IsOrdering(g, edges, order)
  BY <1>1, LeastFirstIsOrdering DEF StableOrder
<1>3. h = Reordered(f, order)
  BY DEF Canonicalise
<1>4. /\ {"ops", "values", "inputs", "outputs"} \subseteq DOMAIN f
      /\ f.inputs = g.inputs /\ f.outputs = g.outputs /\ f.values = g.values
      /\ f.ops = [ i \in 1 .. Len(g.ops) |->
                     [ g.ops[i] EXCEPT !.attributes = CanonicalAttributes(g, g.ops[i]) ] ]
  BY <1>1 DEF WithCanonicalAttributes
<1>5. Len(order) = Len(g.ops)
  OBVIOUS
<1> HIDE DEF f, h, order, edges
<1>6. \A i \in Operations(g) :
        /\ IsOperation(f.ops[i])
        /\ f.ops[i].id = g.ops[i].id
        /\ f.ops[i].outputs = g.ops[i].outputs
        /\ f.ops[i].side_effect = g.ops[i].side_effect
        /\ f.ops[i].inputs = g.ops[i].inputs
  BY <1>0, <1>1, <1>4 DEF IsGraph, HasOperations, IsOperation
<1>7. Follows(f, g)
  <2>1. f.ops = [ i \in 1 .. Len(g.ops) |-> f.ops[i] ]
    BY <1>4
  <2>2. QED
    BY <1>0, <1>4, <1>6, <2>1, NewOperandsFollow
<1>8. WellFormed(f) /\ Linked(f)
  <2>1. ASSUME NEW i \in Operations(g)
        PROVE  Reads(f, i) = Reads(g, i) /\ f.ops[i].type = g.ops[i].type
    <3>1. Reads(f, i) = Reads(g, i)
      BY <1>6 DEF Reads
    <3>2. f.ops[i] = [ g.ops[i] EXCEPT !.attributes = CanonicalAttributes(g, g.ops[i]) ]
      BY <1>1, <1>4
    <3>3. "type" \in DOMAIN g.ops[i]
      BY <1>0 DEF IsGraph, HasOperations, IsOperation
    <3>4. QED
      BY <3>1, <3>2, <3>3
  <2>2. QED
    BY <1>4, <1>7, <2>1, SameReadsReload
<1>9. HasOperations(f) /\ Operations(f) = Operations(g)
  BY <1>0, <1>7, FollowsFacts DEF IsGraph
<1>10. IsSelection(f, order)
  BY <1>2, <1>9 DEF IsSelection, IsOrdering
<1>11. Rearranges(h, f, order)
  BY <1>3, <1>9, <1>10, ReorderedRearranges
<1>12. \A i \in Operations(f) : \E n \in 1 .. Len(order) : order[n] = i
  BY <1>1, <1>2, <1>5, <1>9, FullOrderingIsOnto
<1>13. h.values = f.values
  BY <1>3, <1>4 DEF Reordered
<1>14. WellFormed(h) /\ Linked(h)
  <2>1. Separates(f, {}, {})
    BY DEF Separates, Apart
  <2>2. QED
    BY <1>8, <1>11, <1>12, <1>13, <2>1, SelectionReloads
<1>15. QED
  BY <1>14 DEF h

(***************************************************************************)
(* What an iteration of a loop does to such a graph. From a set that is    *)
(* closed afterwards, the values that lose their connection are taken      *)
(* away, and it is closed before.                                          *)
(***************************************************************************)

\* What ConstantFoldingPass changes.
LEMMA FoldChanges ==
  ASSUME NEW g, IsGraph(g), NEW n \in Operations(g), Foldable(g, n)
  PROVE  LET h == FoldedAt(g, n)
         IN  /\ \A i \in Operations(g) \ {n} : h.ops[i] = g.ops[i]
             /\ h.ops[n].type = "constant" /\ Reads(h, n) = {}
             /\ DOMAIN h.values = DOMAIN g.values
             /\ \A v \in DOMAIN g.values :
                  Kind(h, v) = IF v = Output(g, n) THEN KindOfFolded(g, v) ELSE Kind(g, v)
<1> DEFINE h == FoldedAt(g, n)
<1>0. DOMAIN g.ops = 1 .. Len(g.ops) /\ Operations(g) = 1 .. Len(g.ops)
  BY PositionFacts DEF IsGraph, Operations
<1>1. {"ops", "values", "inputs", "outputs"} \subseteq DOMAIN g /\ IsOperation(g.ops[n])
  BY DEF IsGraph, HasOperations
<1>2. \A i \in Operations(g) \ {n} : h.ops[i] = g.ops[i]
  BY <1>0, <1>1 DEF FoldedAt
<1>3. h.ops[n].type = "constant" /\ h.ops[n].inputs = << >>
  BY <1>0, <1>1 DEF FoldedAt, IsOperation
<1>4. Reads(h, n) = {}
  <2>1. << >> \in Seq({}) /\ Len(<< >>) = 0
    BY EmptySeq
  <2>2. DOMAIN << >> = 1 .. 0
    BY <2>1, LenProperties
  <2>3. QED
    BY <1>3, <2>2 DEF Reads, Elements
<1>5. h.values = [ g.values EXCEPT ![Output(g, n)].kind = KindOfFolded(g, Output(g, n)) ]
  BY <1>1 DEF FoldedAt
<1>6. Output(g, n) \in DOMAIN g.values
  BY DEF Foldable
<1> HIDE DEF h
<1>7. ASSUME NEW v \in DOMAIN g.values
      PROVE  v # Output(g, n) => Kind(h, v) = Kind(g, v)
  BY <1>5 DEF Kind
<1>8. Kind(h, Output(g, n)) = KindOfFolded(g, Output(g, n))
  <2>1. h.values[Output(g, n)] =
          [ g.values[Output(g, n)] EXCEPT !.kind = KindOfFolded(g, Output(g, n)) ]
    BY <1>5, <1>6
  <2>2. QED
    BY <2>1 DEF Kind
<1>9. DOMAIN h.values = DOMAIN g.values
  BY <1>5
<1>10. QED
  BY <1>2, <1>3, <1>4, <1>7, <1>8, <1>9 DEF h

\* A folded operation and the constants it read were not connected.
LEMMA FoldReloads ==
  ASSUME NEW g, WellFormed(g), Linked(g), NEW n \in Operations(g), Foldable(g, n)
  PROVE  LET h == FoldedAt(g, n)
         IN  WellFormed(h) /\ Linked(h)
<1> DEFINE h == FoldedAt(g, n)
           v == Output(g, n)
<1>0. IsGraph(g)
  BY DEF WellFormed
<1>1. /\ \A i \in Operations(g) \ {n} : h.ops[i] = g.ops[i]
      /\ h.ops[n].type = "constant" /\ Reads(h, n) = {}
      /\ DOMAIN h.values = DOMAIN g.values
      /\ \A w \in DOMAIN g.values :
           Kind(h, w) = IF w = v THEN KindOfFolded(g, w) ELSE Kind(g, w)
  BY <1>0, FoldChanges
<1>2. Follows(h, g)
  BY <1>0, FoldKeeps
<1> HIDE DEF h
<1>3. /\ IsGraph(h) /\ Operations(h) = Operations(g)
      /\ h.inputs = g.inputs /\ h.outputs = g.outputs
      /\ \A i \in Operations(g) : Writes(h, i) = Writes(g, i)
  BY <1>0, <1>2, FollowsFacts
<1>4. \A i \in Operations(g) \ {n} : Reads(h, i) = Reads(g, i)
  BY <1>1 DEF Reads
<1>5. Writes(g, n) = {v} /\ \A i \in Operations(g) : v \in Writes(g, i) => i = n
  <2>1. \A i \in Operations(g) : v \in Writes(g, i) => Producer(g, v) = i
    BY <1>0, ResultFacts
  <2>2. Writes(g, n) = {v}
    BY <1>0, ResultFacts
  <2>3. QED
    BY <2>1, <2>2
<1>6. Kind(g, v) \in {"intermediate", "output"}
  <2>1. g.ops[n].type \in {"add", "multiply", "divide", "gelu"}
    BY DEF Foldable
  <2>2. Kind(g, v) \in KindsProducedBy(g.ops[n].type)
    BY <1>5 DEF WellFormed, RolesAgree
  <2>3. QED
    BY <2>1, <2>2 DEF KindsProducedBy
<1>7. v \notin g.inputs /\ v \in DOMAIN g.values
  BY <1>5, <1>6 DEF WellFormed, ReferencesExist
<1> HIDE DEF v
<1>8. ReferencesExist(h)
  <2>1. \A w \in h.inputs : w \in DOMAIN h.values /\ Kind(h, w) = "input"
    BY <1>1, <1>3, <1>7 DEF WellFormed, ReferencesExist
  <2>2. \A w \in h.outputs : w \in DOMAIN h.values /\ Kind(h, w) = "output"
    BY <1>1, <1>3 DEF WellFormed, ReferencesExist, KindOfFolded
  <2>3. \A i \in Operations(h) :
          Len(h.ops[i].outputs) = 1 /\ Reads(h, i) \cup Writes(h, i) \subseteq DOMAIN h.values
    BY <1>1, <1>3, <1>4 DEF WellFormed, ReferencesExist, IsGraph, HasResults
  <2>4. QED
    BY <2>1, <2>2, <2>3 DEF ReferencesExist
<1>9. ProducersExist(h)
  BY <1>1, <1>3 DEF WellFormed, ProducersExist, IsGraph, HasResults
<1>10. RolesAgree(h)
  <2> SUFFICES ASSUME NEW i \in Operations(g), NEW w \in Writes(g, i)
               PROVE  Kind(h, w) \in KindsProducedBy(h.ops[i].type)
    BY <1>3 DEF RolesAgree
  <2>1. w \in DOMAIN g.values
    BY DEF WellFormed, ReferencesExist
  <2>2. CASE i = n
    <3>1. w = v /\ Kind(h, v) = KindOfFolded(g, v)
      BY <1>1, <1>5, <1>7, <2>2
    <3>2. KindOfFolded(g, v) \in {"constant", "output"}
      BY DEF KindOfFolded, WellFormed, ReferencesExist
    <3>3. KindsProducedBy(h.ops[i].type) = {"constant", "output"}
      BY <1>1, <2>2 DEF KindsProducedBy
    <3>4. QED
      BY <3>1, <3>2, <3>3
  <2>3. CASE i # n
    <3>1. w # v
      BY <1>5, <2>3
    <3>2. Kind(h, w) = Kind(g, w) /\ h.ops[i].type = g.ops[i].type
      BY <1>1, <2>1, <2>3, <3>1
    <3>3. Kind(g, w) \in KindsProducedBy(g.ops[i].type)
      BY DEF WellFormed, RolesAgree
    <3>4. QED
      BY <3>2, <3>3
  <2>4. QED
    BY <2>2, <2>3
<1>11. \A w \in Reads(g, n) : \A i \in Operations(g) :
         w \in Writes(g, i) => g.ops[i].type = "constant" /\ Reads(g, i) = {}
  <2> SUFFICES ASSUME NEW w \in Reads(g, n), NEW i \in Operations(g), w \in Writes(g, i)
               PROVE  g.ops[i].type = "constant" /\ Reads(g, i) = {}
    OBVIOUS
  <2>1. PICK j \in Producers(g, w) : g.ops[j].type = "constant"
    BY DEF Foldable, IsScalarConstant, OpType
  <2>2. Producers(g, w) = {i}
    BY <1>0, ResultFacts
  <2>3. g.ops[i].type = "constant"
    BY <2>1, <2>2
  <2>4. Len(g.ops[i].inputs) = 0
    BY <1>0, <2>3 DEF IsGraph, HasOperations, IsOperation
  <2>5. QED
    BY <1>0, <2>3, <2>4, OperandFacts DEF IsGraph
<1>12. Reads(g, n) \cap g.inputs = {}
  <2> SUFFICES ASSUME NEW w \in Reads(g, n), w \in g.inputs
               PROVE  FALSE
    OBVIOUS
  <2>1. PICK i \in Operations(g) : w \in Writes(g, i)
    BY DEF WellFormed, ReferencesExist, ProducersExist
  <2>2. Kind(g, w) \in KindsProducedBy("constant")
    BY <1>11, <2>1 DEF WellFormed, RolesAgree
  <2>3. Kind(g, w) = "input"
    BY DEF WellFormed, ReferencesExist
  <2>4. QED
    BY <2>2, <2>3 DEF KindsProducedBy
<1>13. Linked(h)
  <2> SUFFICES ASSUME NEW C, Closed(h, C)
               PROVE  h.outputs \subseteq C
    BY DEF Linked
  <2> DEFINE D == C \ Reads(g, n)
  <2>1. ASSUME NEW i \in Operations(g), Reads(g, i) \cap D # {}
        PROVE  Writes(g, i) \subseteq D
    <3>1. i # n
      BY <2>1
    <3>2. Writes(g, i) \subseteq C
      BY <1>3, <1>4, <2>1, <3>1 DEF Closed
    <3>3. Writes(g, i) \cap Reads(g, n) = {}
      BY <1>11, <2>1
    <3>4. QED
      BY <3>2, <3>3
  <2>2. g.inputs \subseteq D
    BY <1>3, <1>12 DEF Closed
  <2> HIDE DEF D
  <2>3. g.outputs \subseteq D
    BY <2>1, <2>2 DEF Linked, Closed
  <2>4. QED
    BY <1>3, <2>3 DEF D
<1>14. QED
  BY <1>3, <1>8, <1>9, <1>10, <1>13 DEF WellFormed, h

\* What replace_all_uses changes.
LEMMA ReplacementChanges ==
  ASSUME NEW g, IsGraph(g), NEW from, NEW to
  PROVE  LET h == ReplaceAllUses(g, from, to)
         IN  /\ h.values = g.values
             /\ \A i \in Operations(g) :
                  /\ h.ops[i].type = g.ops[i].type
                  /\ h.ops[i].attributes = g.ops[i].attributes
                  /\ Reads(h, i) = IF from \in Reads(g, i) THEN (Reads(g, i) \ {from}) \cup {to}
                                   ELSE Reads(g, i)
<1> DEFINE h == ReplaceAllUses(g, from, to)
           inputs(i) == [ k \in DOMAIN g.ops[i].inputs |->
                            IF g.ops[i].inputs[k] = from THEN to ELSE g.ops[i].inputs[k] ]
<1>0. DOMAIN g.ops = 1 .. Len(g.ops) /\ Operations(g) = 1 .. Len(g.ops)
  BY PositionFacts DEF IsGraph, Operations
<1>1. {"ops", "values", "inputs", "outputs"} \subseteq DOMAIN g
  BY DEF IsGraph, HasOperations
<1>2. h.values = g.values
  BY <1>1 DEF ReplaceAllUses
<1>3. h.ops = [ i \in 1 .. Len(g.ops) |-> [ g.ops[i] EXCEPT !.inputs = inputs(i) ] ]
  BY <1>0, <1>1 DEF ReplaceAllUses
<1> HIDE DEF h
<1>4. ASSUME NEW i \in Operations(g)
      PROVE  /\ h.ops[i].type = g.ops[i].type /\ h.ops[i].attributes = g.ops[i].attributes
             /\ h.ops[i].inputs = inputs(i)
  <2>1. h.ops[i] = [ g.ops[i] EXCEPT !.inputs = inputs(i) ]
    BY <1>0, <1>3
  <2>2. {"type", "inputs", "attributes"} \subseteq DOMAIN g.ops[i]
    BY DEF IsGraph, HasOperations, IsOperation
  <2> HIDE DEF inputs
  <2>3. QED
    BY <2>1, <2>2
<1>5. ASSUME NEW i \in Operations(g)
      PROVE  Elements(inputs(i)) = IF from \in Reads(g, i) THEN (Reads(g, i) \ {from}) \cup {to}
                                   ELSE Reads(g, i)
  BY DEF Elements, Reads
<1>6. QED
  BY <1>2, <1>4, <1>5 DEF Reads, h

\* What the operand of an eliminated operation does not reach, its result does not.
LEMMA ReplacementReloads ==
  ASSUME NEW g, WellFormed(g), Linked(g), NEW n \in Operations(g),
         g.ops[n].type \in {"reshape", "transpose"}, Output(g, n) # g.ops[n].inputs[1]
  PROVE  LET h == ReplaceAllUses(g, Output(g, n), g.ops[n].inputs[1])
         IN  WellFormed(h) /\ Linked(h)
<1> DEFINE from == Output(g, n)
           to   == g.ops[n].inputs[1]
           h    == ReplaceAllUses(g, from, to)
<1>0. IsGraph(g) /\ HasOperations(g)
  BY DEF WellFormed, IsGraph
<1>1. Len(g.ops[n].inputs) = 1
  BY <1>0 DEF HasOperations, IsOperation
<1>2. Follows(h, g)
  BY <1>0, <1>1, ReplacementKeeps
<1>3. Reads(g, n) = {to}
  BY <1>0, <1>1, OperandFacts
<1>4. Writes(g, n) = {from} /\ \A i \in Operations(g) : from \in Writes(g, i) => i = n
  <2>1. \A i \in Operations(g) : from \in Writes(g, i) => Producer(g, from) = i
    BY <1>0, ResultFacts
  <2>2. Writes(g, n) = {from}
    BY <1>0, ResultFacts
  <2>3. QED
    BY <2>1, <2>2
<1>5. from # to
  OBVIOUS
<1> HIDE DEF from, to
<1>6. /\ h.values = g.values
      /\ \A i \in Operations(g) :
           /\ h.ops[i].type = g.ops[i].type
           /\ Reads(h, i) = IF from \in Reads(g, i) THEN (Reads(g, i) \ {from}) \cup {to}
                            ELSE Reads(g, i)
  BY <1>0, ReplacementChanges
<1> HIDE DEF h
<1>7. /\ IsGraph(h) /\ Operations(h) = Operations(g)
      /\ h.inputs = g.inputs /\ h.outputs = g.outputs
      /\ \A i \in Operations(g) : Writes(h, i) = Writes(g, i)
  BY <1>0, <1>2, FollowsFacts
<1>8. ReferencesExist(h)
  <2>1. to \in DOMAIN g.values
    BY <1>3 DEF WellFormed, ReferencesExist
  <2>2. \A i \in Operations(g) : Reads(h, i) \cup Writes(h, i) \subseteq DOMAIN h.values
    BY <1>6, <1>7, <2>1 DEF WellFormed, ReferencesExist
  <2>3. \A i \in Operations(h) : Len(h.ops[i].outputs) = 1
    BY <1>7 DEF IsGraph, HasResults
  <2>4. QED
    BY <1>6, <1>7, <2>2, <2>3 DEF WellFormed, ReferencesExist, Kind
<1>9. ProducersExist(h)
  BY <1>6, <1>7 DEF WellFormed, ProducersExist, IsGraph, HasResults
<1>10. RolesAgree(h)
  BY <1>6, <1>7 DEF WellFormed, RolesAgree, Kind
<1>11. from \notin g.inputs
  <2>1. Kind(g, from) \in KindsProducedBy(g.ops[n].type)
    BY <1>4 DEF WellFormed, RolesAgree
  <2>2. Kind(g, from) # "input"
    BY <2>1 DEF KindsProducedBy
  <2>3. QED
    BY <2>2 DEF WellFormed, ReferencesExist
<1>12. Linked(h)
  <2> SUFFICES ASSUME NEW C, Closed(h, C)
               PROVE  h.outputs \subseteq C
    BY DEF Linked
  <2> DEFINE D == IF to \in C THEN C ELSE C \ {from}
  <2>1. ASSUME NEW i \in Operations(g), Reads(g, i) \cap D # {}
        PROVE  Writes(g, i) \subseteq D
    <3>1. PICK w \in Reads(g, i) : w \in D
      BY <2>1
    <3>2. Reads(h, i) \cap C # {} /\ (to \notin C => i # n)
      <4>1. CASE w = from
        <5>1. to \in C /\ to \in Reads(h, i)
          BY <1>6, <3>1, <4>1
        <5>2. QED
          BY <5>1
      <4>2. CASE w # from
        <5>1. w \in Reads(h, i) /\ w \in C
          BY <1>6, <3>1, <4>2
        <5>2. i = n => to \in C
          BY <1>3, <3>1
        <5>3. QED
          BY <5>1, <5>2
      <4>3. QED
        BY <4>1, <4>2
    <3>3. Writes(g, i) \subseteq C
      BY <1>7, <3>2 DEF Closed
    <3>4. QED
      BY <1>4, <3>2, <3>3
  <2>2. g.inputs \subseteq D
    BY <1>7, <1>11 DEF Closed
  <2>3. D \subseteq C
    OBVIOUS
  <2> HIDE DEF D
  <2>4. g.outputs \subseteq D
    BY <2>1, <2>2 DEF Linked, Closed
  <2>5. QED
    BY <1>7, <2>3, <2>4
<1>13. WellFormed(h) /\ Linked(h)
  BY <1>7, <1>8, <1>9, <1>10, <1>12 DEF WellFormed
<1>14. QED
  BY <1>13 DEF h, from, to

\* The parts of a fusion: the activation reads the sum and nothing else, the
\* addition the product and the bias, and sum and product have one use.
LEMMA FusionParts ==
  ASSUME NEW g, IsGraph(g), NEW n \in Operations(g), NEW first, Fuses(first, g, n)
  PROVE  LET a == Fusion(g, n).add
             b == Fusion(g, n).base
         IN  /\ a \in Operations(g) /\ b \in Operations(g)
             /\ g.ops[n].type = "gelu" /\ Reads(g, n) = { Output(g, a) }
             /\ g.ops[a].type = "add" /\ Len(g.ops[a].inputs) = 2
             /\ IsProjection(g.ops[b])
             /\ \E k \in {1, 2} : /\ g.ops[a].inputs[k] = Output(g, b)
                                  /\ g.ops[a].inputs[3 - k] = Fusion(g, n).bias
             /\ SingleUse(first, Output(g, a)) /\ SingleUse(first, Output(g, b))
<1> DEFINE fusion == Fusion(g, n)
           sum == g.ops[n].inputs[1]
           a == Producer(g, sum)
           k == ProjectedOperand(g, g.ops[a])
           projected(i) == \E j \in Producers(g, g.ops[a].inputs[i]) : IsProjection(g.ops[j])
<1>1. /\ fusion.add = a
      /\ fusion.base = (IF k = 0 THEN 0 ELSE Producer(g, g.ops[a].inputs[k]))
      /\ fusion.bias = (IF k = 0 THEN 0 ELSE g.ops[a].inputs[3 - k])
  BY DEF Fusion
<1>2. /\ g.ops[n].type = "gelu" /\ Len(g.ops[n].inputs) = 1 /\ Producers(g, sum) # {}
      /\ g.ops[fusion.add].type = "add" /\ Len(g.ops[fusion.add].inputs) = 2
      /\ SingleUse(first, sum) /\ SingleUse(first, Output(g, fusion.base))
      /\ fusion.base # 0
  BY DEF Fuses, IsExactGelu, OpType
<1> HIDE DEF fusion
<1>3. a \in Operations(g) /\ Writes(g, a) = {sum} /\ Output(g, a) = sum
  <2>1. PICK i \in Operations(g) : sum \in Writes(g, i)
    BY <1>2 DEF Producers
  <2>2. a = i /\ Writes(g, i) = { Output(g, i) }
    BY <2>1, ResultFacts
  <2>3. QED
    BY <2>1, <2>2
<1>4. Reads(g, n) = {sum}
  BY <1>2, OperandFacts DEF IsGraph
<1> HIDE DEF a, sum
<1>5. k \in {1, 2} /\ projected(k)
  BY <1>1, <1>2 DEF ProjectedOperand
<1> HIDE DEF k
<1>6. PICK b \in Producers(g, g.ops[a].inputs[k]) : IsProjection(g.ops[b])
  BY <1>5
<1>7. b \in Operations(g) /\ g.ops[a].inputs[k] \in Writes(g, b)
  BY DEF Producers
<1>8. fusion.base = b /\ g.ops[a].inputs[k] = Output(g, b)
  <2>1. Producer(g, g.ops[a].inputs[k]) = b /\ Writes(g, b) = { Output(g, b) }
    BY <1>7, ResultFacts
  <2>2. QED
    BY <1>1, <1>5, <1>7, <2>1
<1>9. fusion.bias = g.ops[a].inputs[3 - k]
  BY <1>1, <1>5
<1>10. QED
  BY <1>1, <1>2, <1>3, <1>4, <1>5, <1>6, <1>7, <1>8, <1>9 DEF fusion

\* What FuseBiasGELUPass changes.
LEMMA FusionChanges ==
  ASSUME NEW g, IsGraph(g), NEW n \in Operations(g), NEW first, Fuses(first, g, n)
  PROVE  LET h == FusedAt(g, n)
             b == Fusion(g, n).base
         IN  /\ h.values = g.values
             /\ \A i \in Operations(g) \ {n} : h.ops[i] = g.ops[i]
             /\ h.ops[n].type = g.ops[b].type
             /\ Len(h.ops[n].inputs) = 3
             /\ Reads(h, n) = Reads(g, b) \cup { Fusion(g, n).bias }
<1> DEFINE h == FusedAt(g, n)
           b == Fusion(g, n).base
           v == Fusion(g, n).bias
           inputs == Append(g.ops[b].inputs, v)
<1>0. DOMAIN g.ops = 1 .. Len(g.ops) /\ Operations(g) = 1 .. Len(g.ops)
  BY PositionFacts DEF IsGraph, Operations
<1>1. {"ops", "values", "inputs", "outputs"} \subseteq DOMAIN g /\ IsOperation(g.ops[n])
  BY DEF IsGraph, HasOperations
<1>2. h.values = g.values
  BY <1>1 DEF FusedAt
<1>3. \A i \in Operations(g) \ {n} : h.ops[i] = g.ops[i]
  BY <1>0, <1>1 DEF FusedAt
<1>4. h.ops[n].type = g.ops[b].type /\ h.ops[n].inputs = inputs
  BY <1>0, <1>1 DEF FusedAt, IsOperation
<1> HIDE DEF h
<1>5. b \in Operations(g) /\ IsProjection(g.ops[b])
  BY FusionParts
<1> HIDE DEF b, v
<1>6. IsSequence(g.ops[b].inputs) /\ Len(g.ops[b].inputs) = 2
  BY <1>5 DEF IsGraph, HasOperations, IsOperation, IsProjection
<1>7. Len(inputs) = 3 /\ Elements(inputs) = Reads(g, b) \cup {v}
  <2>1. /\ Len(inputs) = Len(g.ops[b].inputs) + 1
        /\ Elements(inputs) = Elements(g.ops[b].inputs) \cup {v}
    BY <1>6, AppendFacts
  <2>2. QED
    BY <1>6, <2>1 DEF Reads
<1>8. Reads(h, n) = Reads(g, b) \cup {v} /\ Len(h.ops[n].inputs) = 3
  BY <1>4, <1>7 DEF Reads
<1>9. QED
  BY <1>2, <1>3, <1>4, <1>8 DEF h, b, v

\* What a projection and a bias do not reach, their sum does not.
LEMMA FusionReloads ==
  ASSUME NEW g, WellFormed(g), Linked(g), NEW n \in Operations(g), NEW first, Fuses(first, g, n)
  PROVE  LET h == FusedAt(g, n)
         IN  WellFormed(h) /\ Linked(h)
<1> DEFINE h == FusedAt(g, n)
           a == Fusion(g, n).add
           b == Fusion(g, n).base
           v == Fusion(g, n).bias
<1>0. IsGraph(g)
  BY DEF WellFormed
<1>1. /\ a \in Operations(g) /\ b \in Operations(g)
      /\ g.ops[n].type = "gelu" /\ Reads(g, n) = { Output(g, a) }
      /\ g.ops[a].type = "add" /\ Len(g.ops[a].inputs) = 2
      /\ IsProjection(g.ops[b])
      /\ \E k \in {1, 2} : g.ops[a].inputs[k] = Output(g, b) /\ g.ops[a].inputs[3 - k] = v
  BY <1>0, FusionParts
<1>2. /\ h.values = g.values
      /\ \A i \in Operations(g) \ {n} : h.ops[i] = g.ops[i]
      /\ h.ops[n].type = g.ops[b].type
      /\ Reads(h, n) = Reads(g, b) \cup {v}
  BY <1>0, FusionChanges
<1>3. Follows(h, g)
  BY <1>0, FusionKeeps
<1> HIDE DEF h, a, b, v
<1>4. /\ IsGraph(h) /\ Operations(h) = Operations(g)
      /\ h.inputs = g.inputs /\ h.outputs = g.outputs
      /\ \A i \in Operations(g) : Writes(h, i) = Writes(g, i)
  BY <1>0, <1>3, FollowsFacts
<1>5. \A i \in Operations(g) \ {n} : Reads(h, i) = Reads(g, i) /\ h.ops[i].type = g.ops[i].type
  BY <1>2 DEF Reads
<1>6. Reads(g, a) = { Output(g, b), v }
  <2>1. Reads(g, a) = { g.ops[a].inputs[k] : k \in 1 .. 2 }
    BY <1>0, <1>1, OperandFacts DEF IsGraph
  <2>2. Reads(g, a) = { g.ops[a].inputs[1], g.ops[a].inputs[2] }
    BY <2>1
  <2>3. QED
    BY <1>1, <2>2
<1>7. \A i \in Operations(g) :
        /\ Output(g, a) \in Writes(g, i) => i = a
        /\ Output(g, b) \in Writes(g, i) => i = b
  <2> SUFFICES ASSUME NEW i \in Operations(g)
               PROVE  /\ Output(g, a) \in Writes(g, i) => i = a
                      /\ Output(g, b) \in Writes(g, i) => i = b
    OBVIOUS
  <2>1. Output(g, a) \in Writes(g, a) /\ Output(g, b) \in Writes(g, b)
    BY <1>0, <1>1, ResultFacts
  <2>2. Producer(g, Output(g, a)) = a /\ Producer(g, Output(g, b)) = b
    BY <1>0, <1>1, <2>1, ResultFacts
  <2>3. QED
    BY <1>0, <2>2, ResultFacts
<1>8. KindsProducedBy(h.ops[n].type) = KindsProducedBy(g.ops[n].type)
  BY <1>1, <1>2 DEF KindsProducedBy, IsProjection
<1>9. ReferencesExist(h)
  <2>1. Reads(h, n) \subseteq DOMAIN g.values
    BY <1>1, <1>2, <1>6 DEF WellFormed, ReferencesExist
  <2>2. \A i \in Operations(g) : Reads(h, i) \cup Writes(h, i) \subseteq DOMAIN h.values
    BY <1>2, <1>4, <1>5, <2>1 DEF WellFormed, ReferencesExist
  <2>3. \A i \in Operations(h) : Len(h.ops[i].outputs) = 1
    BY <1>4 DEF IsGraph, HasResults
  <2>4. QED
    BY <1>2, <1>4, <2>2, <2>3 DEF WellFormed, ReferencesExist, Kind
<1>10. ProducersExist(h)
  BY <1>2, <1>4 DEF WellFormed, ProducersExist, IsGraph, HasResults
<1>11. RolesAgree(h)
  BY <1>2, <1>4, <1>5, <1>8 DEF WellFormed, RolesAgree, Kind
<1>12. g.inputs \cap { Output(g, a), Output(g, b) } = {}
  <2>1. Output(g, a) \in Writes(g, a) /\ Output(g, b) \in Writes(g, b)
    BY <1>0, <1>1, ResultFacts
  <2>2. /\ Kind(g, Output(g, a)) \in KindsProducedBy(g.ops[a].type)
        /\ Kind(g, Output(g, b)) \in KindsProducedBy(g.ops[b].type)
    BY <1>1, <2>1 DEF WellFormed, RolesAgree
  <2>3. Kind(g, Output(g, a)) # "input" /\ Kind(g, Output(g, b)) # "input"
    BY <1>1, <2>2 DEF KindsProducedBy, IsProjection
  <2>4. QED
    BY <2>3 DEF WellFormed, ReferencesExist
<1>13. Linked(h)
  <2> SUFFICES ASSUME NEW C, Closed(h, C)
               PROVE  h.outputs \subseteq C
    BY DEF Linked
  <2> DEFINE D == IF Reads(h, n) \cap C # {} THEN C ELSE C \ { Output(g, a), Output(g, b) }
  <2>1. ASSUME NEW i \in Operations(g), Reads(g, i) \cap D # {}
        PROVE  Writes(g, i) \subseteq D
    <3>1. CASE Reads(h, n) \cap C # {}
      <4>1. Reads(h, i) \cap C # {}
        BY <1>5, <2>1, <3>1
      <4>2. QED
        BY <1>4, <3>1, <4>1 DEF Closed
    <3>2. CASE Reads(h, n) \cap C = {}
      <4>1. i # n
        BY <1>1, <2>1, <3>2
      <4>2. i # a
        BY <1>2, <1>6, <2>1, <3>2
      <4>3. i # b
        BY <1>2, <2>1, <3>2
      <4>4. Writes(g, i) \subseteq C
        BY <1>4, <1>5, <2>1, <4>1 DEF Closed
      <4>5. QED
        BY <1>7, <3>2, <4>2, <4>3, <4>4
    <3>3. QED
      BY <3>1, <3>2
  <2>2. g.inputs \subseteq D
    BY <1>4, <1>12 DEF Closed
  <2>3. D \subseteq C
    OBVIOUS
  <2> HIDE DEF D
  <2>4. g.outputs \subseteq D
    BY <2>1, <2>2 DEF Linked, Closed
  <2>5. QED
    BY <1>4, <2>3, <2>4
<1>14. WellFormed(h) /\ Linked(h)
  BY <1>4, <1>9, <1>10, <1>11, <1>13 DEF WellFormed
<1>15. QED
  BY <1>14 DEF h

\* An operation does not read its own result.
LEMMA NoSelfReading ==
  ASSUME NEW g, IsGraph(g), Topological(g), NEW n \in Operations(g)
  PROVE  Output(g, n) \notin Reads(g, n)
<1>1. Output(g, n) \in Writes(g, n) /\ n \in Nat
  BY ResultFacts, PositionFacts DEF IsGraph
<1>2. ~(n < n)
  BY <1>1
<1>3. QED
  BY <1>1, <1>2, TopologicalFacts

\* So a graph the loader would accept stays one at every iteration.
LEMMA RewriteReloads ==
  ASSUME NEW g, WellFormed(g), Linked(g), Topological(g), NEW n \in Operations(g), NEW first,
         NEW pass \in Loops, Rewrites(pass, first, g, n)
  PROVE  LET h == RewrittenAt(pass, g, n)
         IN  WellFormed(h) /\ Linked(h)
<1>1. CASE pass = "fold"
  <2>1. RewrittenAt(pass, g, n) = FoldedAt(g, n) /\ Foldable(g, n)
    BY <1>1 DEF RewrittenAt, Rewrites
  <2>2. QED
    BY <2>1, FoldReloads
<1>2. CASE pass \in {"reshape", "transpose"}
  <2>1. RewrittenAt(pass, g, n) = ReplaceAllUses(g, Output(g, n), g.ops[n].inputs[1])
    BY <1>2 DEF RewrittenAt
  <2>2. g.ops[n].type \in {"reshape", "transpose"}
    BY <1>2 DEF Rewrites, RedundantReshape, RedundantTranspose, Removable, OpType
  <2>3. IsGraph(g) /\ Len(g.ops[n].inputs) = 1
    BY <2>2 DEF WellFormed, IsGraph, HasOperations, IsOperation
  <2>4. g.ops[n].inputs[1] \in Reads(g, n)
    BY <2>3, OperandFacts DEF IsGraph
  <2>5. Output(g, n) # g.ops[n].inputs[1]
    BY <2>3, <2>4, NoSelfReading
  <2>6. QED
    BY <2>1, <2>2, <2>5, ReplacementReloads
<1>3. CASE pass = "fuse"
  <2>1. RewrittenAt(pass, g, n) = FusedAt(g, n) /\ Fuses(first, g, n)
    BY <1>3 DEF RewrittenAt, Rewrites
  <2>2. QED
    BY <2>1, FusionReloads
<1>4. QED
  BY <1>1, <1>2, <1>3 DEF Loops

\* And at the end of the loop.
LEMMA LoopReloads ==
  ASSUME NEW pass \in Loops, NEW g, WellFormed(g), Linked(g), Topological(g)
  PROVE  \A n \in 0 .. Len(g.ops) :
           LET h == Rewritten(pass, g)[n]
           IN  WellFormed(h) /\ Linked(h)
<1> DEFINE h(n) == Rewritten(pass, g)[n]
           Fine(n) == WellFormed(h(n)) /\ Linked(h(n))
           S == { n \in 0 .. Len(g.ops) : Fine(n) }
<1>0. IsGraph(g) /\ Len(g.ops) \in Nat /\ Operations(g) = 1 .. Len(g.ops)
  BY PositionFacts DEF IsGraph, WellFormed
<1>1. /\ h(0) = g
      /\ \A n \in 1 .. Len(g.ops) : h(n) = Iteration(pass, g, h(n - 1), n)
  BY <1>0, RewrittenIsIteration
<1>2. \A n \in 0 .. Len(g.ops) : Follows(h(n), g) /\ Topological(h(n))
  BY <1>0, LoopKeeps
<1> HIDE DEF h
<1>3. ASSUME NEW n \in 1 .. Len(g.ops), Fine(n - 1)
      PROVE  Fine(n)
  <2>1. h(n) = Iteration(pass, g, h(n - 1), n) /\ n - 1 \in 0 .. Len(g.ops)
    BY <1>0, <1>1
  <2>2. n \in Operations(h(n - 1)) /\ Topological(h(n - 1))
    BY <1>0, <1>2, <2>1, FollowsFacts
  <2>3. CASE Rewrites(pass, g, h(n - 1), n)
    <3>1. h(n) = RewrittenAt(pass, h(n - 1), n)
      BY <2>1, <2>3 DEF Iteration
    <3>2. QED
      BY <1>3, <2>2, <2>3, <3>1, RewriteReloads
  <2>4. CASE ~Rewrites(pass, g, h(n - 1), n)
    BY <1>3, <2>1, <2>4 DEF Iteration
  <2>5. QED
    BY <2>3, <2>4
<1>4. Fine(0)
  BY <1>1
<1> HIDE DEF Fine
<1>5. S \in SUBSET (0 .. Len(g.ops)) /\ 0 \in S
      /\ \A n \in 1 .. Len(g.ops) : n - 1 \in S => n \in S
  BY <1>0, <1>3, <1>4
<1> HIDE DEF S
<1>6. \A n \in 0 .. Len(g.ops) : n \in S
  BY <1>0, <1>5, UpTo
<1>7. QED
  BY <1>6 DEF S, Fine, h

(***************************************************************************)
(* What a loop removes at its end is apart from the rest by then.          *)
(***************************************************************************)

\* Of what has been eliminated so far, nobody reads the result any more: the
\* operand that takes its place was still read.
LEMMA EliminationIsApart ==
  ASSUME NEW pass \in {"reshape", "transpose"}, NEW g, IsGraph(g), Topological(g)
  PROVE  LET removed == Removed(pass, g)
         IN  Apart(Rewritten(pass, g)[Len(g.ops)], removed, { Output(g, i) : i \in removed })
<1> DEFINE h(n) == Rewritten(pass, g)[n]
           N == Len(g.ops)
           removed == Removed(pass, g)
           values == { Output(g, i) : i \in removed }
           Quiet(n) == \A i \in removed : i <= n =>
                         \A j \in 1 .. N : Output(g, i) \notin Reads(h(n), j)
           S == { n \in 0 .. N : Quiet(n) }
<1>0. IsGraph(g) /\ N \in Nat /\ Operations(g) = 1 .. N /\ pass \in Loops
  BY PositionFacts DEF IsGraph, Loops
<1>1. \A n \in 1 .. N : h(n) = Iteration(pass, g, h(n - 1), n)
  BY <1>0, RewrittenIsIteration
<1>2. \A n \in 0 .. N : Follows(h(n), g) /\ Topological(h(n))
  BY <1>0, LoopKeeps
<1>3. \A n \in 1 .. N : n \in removed <=> Rewrites(pass, g, h(n - 1), n)
  BY <1>0 DEF Removed, RemovedAt
<1>4. removed \subseteq 1 .. N
  BY <1>0, RemovedFacts
<1> HIDE DEF h, removed, N
<1>5. \A n \in 0 .. N :
        /\ Operations(h(n)) = 1 .. N /\ h(n).inputs = g.inputs /\ h(n).outputs = g.outputs
        /\ \A i \in 1 .. N : Writes(h(n), i) = Writes(g, i) /\ Output(h(n), i) = Output(g, i)
        /\ IsGraph(h(n))
  BY <1>0, <1>2, FollowsFacts
<1>6. ASSUME NEW n \in removed
      PROVE  /\ h(n - 1).ops[n].type = pass /\ Output(g, n) \notin g.outputs
             /\ h(n) = ReplaceAllUses(h(n - 1), Output(g, n), h(n - 1).ops[n].inputs[1])
             /\ h(n - 1).ops[n].inputs[1] \in Reads(h(n - 1), n)
             /\ Output(g, n) # h(n - 1).ops[n].inputs[1]
             /\ n \in 1 .. N /\ n - 1 \in 0 .. N
  <2>1. n \in 1 .. N /\ n - 1 \in 0 .. N
    BY <1>0, <1>4
  <2>2. Rewrites(pass, g, h(n - 1), n)
    BY <1>3, <2>1
  <2>3. Removable(h(n - 1), n, pass)
    BY <2>2 DEF Rewrites, RedundantReshape, RedundantTranspose
  <2>4. h(n - 1).ops[n].type = pass /\ Output(h(n - 1), n) \notin h(n - 1).outputs
    BY <2>3 DEF Removable, OpType
  <2>5. Output(h(n - 1), n) = Output(g, n) /\ h(n - 1).outputs = g.outputs
    BY <1>5, <2>1
  <2>6. h(n) = RewrittenAt(pass, h(n - 1), n)
    BY <1>1, <2>1, <2>2 DEF Iteration
  <2>7. h(n) = ReplaceAllUses(h(n - 1), Output(g, n), h(n - 1).ops[n].inputs[1])
    BY <2>5, <2>6 DEF RewrittenAt
  <2>8. IsGraph(h(n - 1)) /\ n \in Operations(h(n - 1)) /\ Topological(h(n - 1))
    BY <1>2, <1>5, <2>1
  <2>9. h(n - 1).ops[n].inputs[1] \in Reads(h(n - 1), n)
    <3>1. Len(h(n - 1).ops[n].inputs) = 1
      BY <2>4, <2>8 DEF IsGraph, HasOperations, IsOperation
    <3>2. QED
      BY <2>8, <3>1, OperandFacts DEF IsGraph
  <2>10. Output(h(n - 1), n) \notin Reads(h(n - 1), n)
    BY <2>8, NoSelfReading
  <2>11. QED
    BY <2>1, <2>4, <2>5, <2>7, <2>9, <2>10
<1>7. ASSUME NEW n \in 1 .. N, Quiet(n - 1)
      PROVE  Quiet(n)
  <2> SUFFICES ASSUME NEW i \in removed, i <= n, NEW j \in 1 .. N
               PROVE  Output(g, i) \notin Reads(h(n), j)
    OBVIOUS
  <2>1. CASE n \in removed
    <3> DEFINE from == Output(g, n)
               to   == h(n - 1).ops[n].inputs[1]
    <3>1. h(n) = ReplaceAllUses(h(n - 1), from, to) /\ to \in Reads(h(n - 1), n) /\ from # to
      BY <1>6, <2>1
    <3> HIDE DEF from, to
    <3>2. IsGraph(h(n - 1)) /\ j \in Operations(h(n - 1)) /\ n - 1 \in 0 .. N
      BY <1>0, <1>5
    <3>3. Reads(h(n), j) = IF from \in Reads(h(n - 1), j)
                           THEN (Reads(h(n - 1), j) \ {from}) \cup {to} ELSE Reads(h(n - 1), j)
      <4>1. PICK f : f = h(n - 1)
        OBVIOUS
      <4>2. IsGraph(f) /\ j \in Operations(f) /\ h(n) = ReplaceAllUses(f, from, to)
        BY <3>1, <3>2, <4>1
      <4>3. \A m \in Operations(f) :
              Reads(ReplaceAllUses(f, from, to), m) =
                IF from \in Reads(f, m) THEN (Reads(f, m) \ {from}) \cup {to}
                ELSE Reads(f, m)
        BY <4>2, ReplacementChanges
      <4>4. QED
        BY <4>1, <4>2, <4>3
    <3>4. CASE i = n
      BY <3>1, <3>3, <3>4 DEF from
    <3>5. CASE i # n
      <4>1. i <= n - 1
        BY <1>0, <1>4, <3>5
      <4>2. Output(g, i) \notin Reads(h(n - 1), j) /\ Output(g, i) # to
        BY <1>7, <3>1, <4>1
      <4>3. QED
        BY <3>3, <4>2
    <3>6. QED
      BY <3>4, <3>5
  <2>2. CASE n \notin removed
    <3>1. h(n) = h(n - 1)
      BY <1>1, <1>3, <2>2 DEF Iteration
    <3>2. i <= n - 1
      BY <1>0, <1>4, <2>2
    <3>3. QED
      BY <1>7, <3>1, <3>2
  <2>3. QED
    BY <2>1, <2>2
<1>8. Quiet(0)
  BY <1>0, <1>4
<1> HIDE DEF Quiet
<1>9. S \in SUBSET (0 .. N) /\ 0 \in S /\ \A n \in 1 .. N : n - 1 \in S => n \in S
  BY <1>0, <1>7, <1>8
<1>10. N \in 0 .. N
  BY <1>0
<1> HIDE DEF S
<1>11. N \in S
  BY <1>0, <1>9, <1>10, UpTo
<1>12. \A i \in removed : \A j \in 1 .. N : Output(g, i) \notin Reads(h(N), j)
  BY <1>0, <1>4, <1>11 DEF S, Quiet
<1>13. \A i \in 1 .. N : Writes(h(N), i) = { Output(g, i) }
  BY <1>0, <1>5, <1>10, ResultFacts
<1>14. \A i, j \in 1 .. N : Output(g, i) = Output(g, j) => i = j
  <2> SUFFICES ASSUME NEW i \in 1 .. N, NEW j \in 1 .. N, Output(g, i) = Output(g, j)
               PROVE  i = j
    OBVIOUS
  <2>1. Output(g, i) \in Writes(g, i) /\ Output(g, i) \in Writes(g, j)
    BY <1>0, ResultFacts
  <2>2. QED
    BY <1>0, <2>1, ResultFacts
<1>15. \A i \in removed : Output(g, i) \notin g.outputs
  BY <1>6
<1>16. Apart(h(N), removed, values)
  <2>1. removed \subseteq Operations(h(N)) /\ Operations(h(N)) = 1 .. N
    BY <1>4, <1>5, <1>10
  <2>2. \A i \in removed : Writes(h(N), i) \subseteq values
    BY <1>4, <1>13
  <2>3. \A i \in (1 .. N) \ removed : (Reads(h(N), i) \cup Writes(h(N), i)) \cap values = {}
    BY <1>4, <1>12, <1>13, <1>14
  <2>4. values \cap h(N).outputs = {}
    BY <1>5, <1>10, <1>15
  <2>5. QED
    BY <2>1, <2>2, <2>3, <2>4 DEF Apart
<1>17. QED
  BY <1>16 DEF h, removed, N

\* A value with one use is read once, by one operation.
LEMMA SingleUseFacts ==
  ASSUME NEW g, IsGraph(g), NEW v, SingleUse(g, v)
  PROVE  /\ \A i, j \in Operations(g) : v \in Reads(g, i) /\ v \in Reads(g, j) => i = j
         /\ \A i \in Operations(g) : \A k, l \in {1, 2} :
              Len(g.ops[i].inputs) = 2 /\ g.ops[i].inputs[k] = v /\ g.ops[i].inputs[l] = v => k = l
<1> DEFINE Places(i) == { k \in DOMAIN g.ops[i].inputs : g.ops[i].inputs[k] = v }
           parts == { {i} \X Places(i) : i \in Operations(g) }
           uses == UNION parts
           f == [ i \in Operations(g) |-> {i} \X Places(i) ]
<1>1. Cardinality(uses) = 1
  BY DEF SingleUse, Uses
<1>2. \A i \in Operations(g) : IsFiniteSet(Places(i))
  <2> SUFFICES ASSUME NEW i \in Operations(g)
               PROVE  IsFiniteSet(Places(i))
    OBVIOUS
  <2>1. Len(g.ops[i].inputs) \in Nat /\ DOMAIN g.ops[i].inputs = 1 .. Len(g.ops[i].inputs)
    BY OperandFacts DEF IsGraph
  <2>2. IsFiniteSet(1 .. Len(g.ops[i].inputs))
    BY <2>1, FS_Interval
  <2>3. Places(i) \subseteq 1 .. Len(g.ops[i].inputs)
    BY <2>1
  <2>4. QED
    BY <2>2, <2>3, FS_Subset
<1>3. \A T \in parts : IsFiniteSet(T)
  <2> SUFFICES ASSUME NEW i \in Operations(g)
               PROVE  IsFiniteSet({i} \X Places(i))
    OBVIOUS
  <2>1. IsFiniteSet({i}) /\ IsFiniteSet(Places(i))
    BY <1>2, FS_Singleton
  <2> HIDE DEF Places
  <2>2. QED
    BY <2>1, FS_Product
<1>4. \A i \in Operations(g) : \A k \in Places(i) : << i, k >> \in uses
  OBVIOUS
<1> HIDE DEF Places
<1>5. IsFiniteSet(parts)
  <2>1. IsFiniteSet(Operations(g))
    BY PositionFacts DEF IsGraph
  <2>2. f \in Surjection(Operations(g), parts)
    BY DEF Surjection
  <2> HIDE DEF f, parts
  <2>3. QED
    BY <2>1, <2>2, FS_Surjection
<1> HIDE DEF parts
<1>6. IsFiniteSet(uses)
  BY <1>3, <1>5, FS_UNION
<1> HIDE DEF uses
<1>7. PICK u : uses = {u}
  BY <1>1, <1>6, FS_Singleton
<1>8. \A i, j \in Operations(g) : \A k \in Places(i) : \A l \in Places(j) : i = j /\ k = l
  <2> SUFFICES ASSUME NEW i \in Operations(g), NEW j \in Operations(g),
                      NEW k \in Places(i), NEW l \in Places(j)
               PROVE  i = j /\ k = l
    OBVIOUS
  <2>1. << i, k >> = u /\ << j, l >> = u
    BY <1>4, <1>7
  <2>2. << i, k >> = << j, l >>
    BY <2>1
  <2>3. QED
    BY <2>2
<1>9. \A i \in Operations(g) : v \in Reads(g, i) => \E k \in Places(i) : TRUE
  BY DEF Reads, Elements, Places
<1>10. \A i \in Operations(g) : \A k \in {1, 2} :
         Len(g.ops[i].inputs) = 2 /\ g.ops[i].inputs[k] = v => k \in Places(i)
  <2> SUFFICES ASSUME NEW i \in Operations(g), NEW k \in {1, 2},
                      Len(g.ops[i].inputs) = 2, g.ops[i].inputs[k] = v
               PROVE  k \in Places(i)
    OBVIOUS
  <2>1. DOMAIN g.ops[i].inputs = 1 .. Len(g.ops[i].inputs)
    BY OperandFacts DEF IsGraph
  <2>2. QED
    BY <2>1 DEF Places
<1>11. QED
  BY <1>8, <1>9, <1>10

\* A chain of a projection b, an addition a of it and the bias v, and the activation n,
\* in which sum and product are read nowhere else.
IsChain(g, n, a, b, v) ==
  /\ a \in Operations(g) /\ b \in Operations(g)
  /\ g.ops[n].type = "gelu" /\ Reads(g, n) = { Output(g, a) }
  /\ g.ops[a].type = "add" /\ Len(g.ops[a].inputs) = 2
  /\ IsProjection(g.ops[b])
  /\ \E k \in {1, 2} : g.ops[a].inputs[k] = Output(g, b) /\ g.ops[a].inputs[3 - k] = v
  /\ SingleUse(g, Output(g, a)) /\ SingleUse(g, Output(g, b))

\* What a chain reads from outside is no sum and no product of a chain.
LEMMA ChainsApart ==
  ASSUME NEW g, IsGraph(g),
         NEW n \in Operations(g), NEW a, NEW b, NEW v, IsChain(g, n, a, b, v),
         NEW n2 \in Operations(g), NEW a2, NEW b2, NEW v2, IsChain(g, n2, a2, b2, v2),
         n = n2 => b = b2,
         NEW w \in Reads(g, b) \cup {v}
  PROVE  w # Output(g, a2) /\ w # Output(g, b2)
<1>1. PICK k \in {1, 2} : g.ops[a].inputs[k] = Output(g, b) /\ g.ops[a].inputs[3 - k] = v
  BY DEF IsChain
<1>2. PICK k2 \in {1, 2} : g.ops[a2].inputs[k2] = Output(g, b2) /\ g.ops[a2].inputs[3 - k2] = v2
  BY DEF IsChain
<1>3. /\ a \in Operations(g) /\ b \in Operations(g)
      /\ a2 \in Operations(g) /\ b2 \in Operations(g)
      /\ Len(g.ops[a].inputs) = 2 /\ Len(g.ops[a2].inputs) = 2
  BY DEF IsChain
<1>4. /\ g.ops[a].type = "add" /\ g.ops[b].type \in {"linear", "mat_mul"}
      /\ g.ops[n2].type = "gelu" /\ g.ops[a2].type = "add"
  BY DEF IsChain, IsProjection
<1>5. Output(g, b) \in Reads(g, a) /\ v \in Reads(g, a) /\ Output(g, b2) \in Reads(g, a2)
  BY <1>1, <1>2, <1>3, OperandFacts DEF IsGraph
<1>6. Output(g, a2) \in Reads(g, n2)
  BY DEF IsChain
<1>7. w \in Reads(g, b) \/ w = v
  OBVIOUS
<1>8. w # Output(g, a2)
  <2> SUFFICES ASSUME w = Output(g, a2) PROVE FALSE
    OBVIOUS
  <2>1. SingleUse(g, w)
    BY DEF IsChain
  <2>2. b = n2 \/ a = n2
    BY <1>3, <1>5, <1>6, <1>7, <2>1, SingleUseFacts
  <2>3. QED
    BY <1>4, <2>2
<1>9. w # Output(g, b2)
  <2> SUFFICES ASSUME w = Output(g, b2) PROVE FALSE
    OBVIOUS
  <2>1. SingleUse(g, w) /\ SingleUse(g, Output(g, b))
    BY DEF IsChain
  <2>2. b = a2 \/ (a = a2 /\ w = v)
    BY <1>3, <1>5, <1>7, <2>1, SingleUseFacts
  <2>3. a = a2 /\ w = v
    BY <1>4, <2>2
  <2>4. n = n2
    <3>1. Output(g, a) \in Reads(g, n) /\ Output(g, a) \in Reads(g, n2) /\ SingleUse(g, Output(g, a))
      BY <1>6, <2>3 DEF IsChain
    <3>2. QED
      BY <3>1, SingleUseFacts
  <2>5. w = Output(g, b)
    BY <2>4
  <2>6. 3 - k \in {1, 2} /\ 3 - k # k
    OBVIOUS
  <2>7. g.ops[a].inputs[k] = w /\ g.ops[a].inputs[3 - k] = w
    BY <1>1, <2>3, <2>5
  <2>8. QED
    BY <1>3, <2>1, <2>6, <2>7, SingleUseFacts
<1>10. QED
  BY <1>8, <1>9

\* The operations that are fused stand in chains of the graph the loop began with:
\* an iteration changes nothing a later one is made of.
LEMMA FusionIsApart ==
  ASSUME NEW g, IsGraph(g)
  PROVE  LET removed == Removed("fuse", g)
         IN  Apart(Rewritten("fuse", g)[Len(g.ops)], removed, { Output(g, i) : i \in removed })
<1> DEFINE h(n) == Rewritten("fuse", g)[n]
           N == Len(g.ops)
           removed == Removed("fuse", g)
           values == { Output(g, i) : i \in removed }
           a(i) == Fusion(h(i - 1), i).add
           b(i) == Fusion(h(i - 1), i).base
           v(i) == Fusion(h(i - 1), i).bias
           fused == { n \in 1 .. N : Fuses(g, h(n - 1), n) }
           Parallel(n) == \A i \in 1 .. N :
             IF i \in fused /\ i <= n
             THEN /\ h(n).ops[i].type \in {"linear", "mat_mul"} /\ Len(h(n).ops[i].inputs) = 3
                  /\ IsChain(g, i, a(i), b(i), v(i))
                  /\ Reads(h(n), i) = Reads(g, b(i)) \cup { v(i) }
             ELSE h(n).ops[i] = g.ops[i]
           S == { n \in 0 .. N : Parallel(n) }
<1>0. IsGraph(g) /\ N \in Nat /\ Operations(g) = 1 .. N /\ "fuse" \in Loops
  BY PositionFacts DEF IsGraph, Loops
<1>1. h(0) = g /\ \A n \in 1 .. N : h(n) = Iteration("fuse", g, h(n - 1), n)
  BY <1>0, RewrittenIsIteration
<1>2. \A n \in 0 .. N : Follows(h(n), g)
  BY <1>0, LoopKeeps
<1>3. removed = UNION { { a(i), b(i) } : i \in fused }
  BY <1>0 DEF Removed, RemovedAt, Rewrites
<1>4. removed \subseteq 1 .. N
  BY <1>0, RemovedFacts
<1>5. fused \subseteq 1 .. N /\ \A n \in fused : Fuses(g, h(n - 1), n)
  OBVIOUS
<1>6. \A n \in 1 .. N : h(n) = IF n \in fused THEN FusedAt(h(n - 1), n) ELSE h(n - 1)
  BY <1>1 DEF Iteration, Rewrites, RewrittenAt
<1> HIDE DEF h, removed, N, fused
<1>7. \A n \in 0 .. N :
        /\ Operations(h(n)) = 1 .. N /\ h(n).inputs = g.inputs /\ h(n).outputs = g.outputs
        /\ \A i \in 1 .. N : Writes(h(n), i) = Writes(g, i) /\ Output(h(n), i) = Output(g, i)
        /\ IsGraph(h(n))
  BY <1>0, <1>2, FollowsFacts
<1>8. ASSUME NEW n \in 1 .. N, Parallel(n - 1)
      PROVE  Parallel(n)
  <2>1. CASE n \notin fused
    <3>1. h(n) = h(n - 1)
      BY <1>6, <2>1
    <3>2. \A i \in 1 .. N : (i \in fused /\ i <= n) <=> (i \in fused /\ i <= n - 1)
      BY <1>0, <2>1
    <3>3. QED
      BY <1>8, <3>1, <3>2
  <2>2. CASE n \in fused
    <3>1. PICK f : f = h(n - 1)
      OBVIOUS
    <3>2. /\ IsGraph(f) /\ n \in Operations(f) /\ Operations(f) = 1 .. N
          /\ \A i \in 1 .. N : Output(f, i) = Output(g, i)
          /\ Fuses(g, f, n) /\ h(n) = FusedAt(f, n)
      <4>1. n - 1 \in 0 .. N
        BY <1>0
      <4>2. QED
        BY <1>5, <1>6, <1>7, <2>2, <3>1, <4>1
    <3>3. /\ a(n) = Fusion(f, n).add /\ b(n) = Fusion(f, n).base /\ v(n) = Fusion(f, n).bias
      BY <3>1
    <3> HIDE DEF a, b, v
    <3>4. /\ a(n) \in Operations(f) /\ b(n) \in Operations(f)
          /\ f.ops[n].type = "gelu" /\ Reads(f, n) = { Output(f, a(n)) }
          /\ f.ops[a(n)].type = "add" /\ Len(f.ops[a(n)].inputs) = 2
          /\ IsProjection(f.ops[b(n)])
          /\ \E k \in {1, 2} : /\ f.ops[a(n)].inputs[k] = Output(f, b(n))
                               /\ f.ops[a(n)].inputs[3 - k] = v(n)
          /\ SingleUse(g, Output(f, a(n))) /\ SingleUse(g, Output(f, b(n)))
      <4>1. LET x == Fusion(f, n).add
                y == Fusion(f, n).base
            IN  /\ x \in Operations(f) /\ y \in Operations(f)
                /\ f.ops[n].type = "gelu" /\ Reads(f, n) = { Output(f, x) }
                /\ f.ops[x].type = "add" /\ Len(f.ops[x].inputs) = 2
                /\ IsProjection(f.ops[y])
                /\ \E k \in {1, 2} : /\ f.ops[x].inputs[k] = Output(f, y)
                                     /\ f.ops[x].inputs[3 - k] = Fusion(f, n).bias
                /\ SingleUse(g, Output(f, x)) /\ SingleUse(g, Output(f, y))
        BY <3>2, FusionParts
      <4>2. QED
        BY <3>3, <4>1
    <3>5. /\ \A i \in Operations(f) \ {n} : h(n).ops[i] = f.ops[i]
          /\ h(n).ops[n].type = f.ops[b(n)].type
          /\ Len(h(n).ops[n].inputs) = 3
          /\ Reads(h(n), n) = Reads(f, b(n)) \cup { v(n) }
      <4>1. /\ \A i \in Operations(f) \ {n} : FusedAt(f, n).ops[i] = f.ops[i]
            /\ FusedAt(f, n).ops[n].type = f.ops[Fusion(f, n).base].type
            /\ Len(FusedAt(f, n).ops[n].inputs) = 3
            /\ Reads(FusedAt(f, n), n) = Reads(f, Fusion(f, n).base) \cup { Fusion(f, n).bias }
        BY <3>2, FusionChanges
      <4>2. QED
        BY <3>2, <3>3, <4>1
    <3>6. f.ops[n] = g.ops[n] /\ f.ops[a(n)] = g.ops[a(n)] /\ f.ops[b(n)] = g.ops[b(n)]
      <4>1. ~(n <= n - 1)
        BY <1>0
      <4>2. "add" \notin {"linear", "mat_mul"} /\ 2 # 3
        OBVIOUS
      <4>3. Len(f.ops[b(n)].inputs) = 2
        BY <3>4 DEF IsProjection
      <4>4. \A i \in 1 .. N :
              f.ops[i] = g.ops[i] \/ (f.ops[i].type \in {"linear", "mat_mul"}
                                       /\ Len(f.ops[i].inputs) = 3 /\ i <= n - 1)
        BY <1>8, <3>1
      <4>5. QED
        BY <3>2, <3>4, <4>1, <4>2, <4>3, <4>4
    <3>7. IsChain(g, n, a(n), b(n), v(n))
      <4>1. Reads(f, n) = Reads(g, n) /\ Output(f, a(n)) = Output(g, a(n))
            /\ Output(f, b(n)) = Output(g, b(n))
        BY <3>2, <3>4, <3>6 DEF Reads
      <4>2. QED
        BY <1>0, <3>2, <3>4, <3>6, <4>1 DEF IsChain
    <3>8. ASSUME NEW i \in 1 .. N
          PROVE  IF i \in fused /\ i <= n
                 THEN /\ h(n).ops[i].type \in {"linear", "mat_mul"}
                      /\ Len(h(n).ops[i].inputs) = 3
                      /\ IsChain(g, i, a(i), b(i), v(i))
                      /\ Reads(h(n), i) = Reads(g, b(i)) \cup { v(i) }
                 ELSE h(n).ops[i] = g.ops[i]
      <4>1. CASE i = n
        <5>1. Reads(f, b(n)) = Reads(g, b(n)) /\ n <= n
          BY <1>0, <3>6 DEF Reads
        <5>2. h(n).ops[n].type \in {"linear", "mat_mul"}
          BY <3>4, <3>5 DEF IsProjection
        <5>3. QED
          BY <2>2, <3>5, <3>7, <4>1, <5>1, <5>2
      <4>2. CASE i # n
        <5>1. i <= n <=> i <= n - 1
          BY <1>0, <4>2
        <5>2. h(n).ops[i] = h(n - 1).ops[i]
          BY <3>1, <3>2, <3>5, <4>2
        <5>3. Reads(h(n), i) = Reads(h(n - 1), i)
          BY <5>2 DEF Reads
        <5>4. QED
          BY <1>8, <5>1, <5>2, <5>3
      <4>3. QED
        BY <4>1, <4>2
    <3>9. QED
      BY <3>8
  <2>3. QED
    BY <2>1, <2>2
<1>9. Parallel(0)
  <2>1. \A i \in 1 .. N : ~(i <= 0)
    BY <1>0
  <2>2. QED
    BY <1>1, <2>1
<1> HIDE DEF Parallel
<1>10. S \in SUBSET (0 .. N) /\ 0 \in S /\ \A n \in 1 .. N : n - 1 \in S => n \in S
  BY <1>0, <1>8, <1>9
<1>11. N \in 0 .. N
  BY <1>0
<1> HIDE DEF S
<1>12. N \in S
  BY <1>0, <1>10, <1>11, UpTo
<1> HIDE DEF a, b, v
<1>13. /\ \A i \in fused : /\ IsChain(g, i, a(i), b(i), v(i))
                           /\ Reads(h(N), i) = Reads(g, b(i)) \cup { v(i) }
       /\ \A i \in (1 .. N) \ fused : Reads(h(N), i) = Reads(g, i)
  <2>1. \A i \in 1 .. N : i <= N
    BY <1>0
  <2>2. Parallel(N)
    BY <1>12 DEF S
  <2>3. \A i \in fused : /\ IsChain(g, i, a(i), b(i), v(i))
                         /\ Reads(h(N), i) = Reads(g, b(i)) \cup { v(i) }
    BY <1>5, <2>1, <2>2 DEF Parallel
  <2>4. \A i \in (1 .. N) \ fused : h(N).ops[i] = g.ops[i]
    BY <2>2 DEF Parallel
  <2>5. QED
    BY <2>3, <2>4 DEF Reads
<1>14. \A i \in 1 .. N : Writes(h(N), i) = { Output(g, i) }
  BY <1>0, <1>7, <1>11, ResultFacts
<1>15. \A i, j \in 1 .. N : Output(g, i) = Output(g, j) => i = j
  <2> SUFFICES ASSUME NEW i \in 1 .. N, NEW j \in 1 .. N, Output(g, i) = Output(g, j)
               PROVE  i = j
    OBVIOUS
  <2>1. Output(g, i) \in Writes(g, i) /\ Output(g, i) \in Writes(g, j)
    BY <1>0, ResultFacts
  <2>2. QED
    BY <1>0, <2>1, ResultFacts
<1>16. ASSUME NEW j \in (1 .. N) \ removed, NEW i \in fused
       PROVE  Output(g, a(i)) \notin Reads(h(N), j) /\ Output(g, b(i)) \notin Reads(h(N), j)
  <2>1. /\ IsChain(g, i, a(i), b(i), v(i)) /\ i \in 1 .. N
        /\ a(i) \in 1 .. N /\ b(i) \in 1 .. N /\ a(i) \in removed /\ b(i) \in removed
    BY <1>0, <1>3, <1>5, <1>13 DEF IsChain
  <2>2. CASE j \in fused
    <3>1. IsChain(g, j, a(j), b(j), v(j)) /\ Reads(h(N), j) = Reads(g, b(j)) \cup { v(j) }
      BY <1>13, <2>2
    <3>2. j = i => b(j) = b(i)
      OBVIOUS
    <3>3. \A w \in Reads(g, b(j)) \cup { v(j) } : w # Output(g, a(i)) /\ w # Output(g, b(i))
      <4> SUFFICES ASSUME NEW w \in Reads(g, b(j)) \cup { v(j) }
                   PROVE  w # Output(g, a(i)) /\ w # Output(g, b(i))
        OBVIOUS
      <4>1. j \in Operations(g) /\ i \in Operations(g)
        BY <1>0, <2>1
      <4>2. QED
        BY <1>0, <2>1, <3>1, <3>2, <4>1, ChainsApart
    <3>4. QED
      BY <3>1, <3>3
  <2>3. CASE j \notin fused
    <3>1. Reads(h(N), j) = Reads(g, j) /\ j \in 1 .. N
      BY <1>13, <2>3
    <3>2. SingleUse(g, Output(g, a(i))) /\ SingleUse(g, Output(g, b(i)))
      BY <2>1 DEF IsChain
    <3>3. Output(g, a(i)) \in Reads(g, i)
      BY <2>1 DEF IsChain
    <3>4. Output(g, b(i)) \in Reads(g, a(i))
      <4>1. PICK k \in {1, 2} : g.ops[a(i)].inputs[k] = Output(g, b(i))
        BY <2>1 DEF IsChain
      <4>2. Len(g.ops[a(i)].inputs) = 2
        BY <2>1 DEF IsChain
      <4>3. QED
        BY <1>0, <2>1, <4>1, <4>2, OperandFacts DEF IsGraph
    <3>5. Output(g, a(i)) \notin Reads(g, j)
      BY <1>0, <2>1, <2>3, <3>1, <3>2, <3>3, SingleUseFacts
    <3>6. Output(g, b(i)) \notin Reads(g, j)
      BY <1>0, <2>1, <3>1, <3>2, <3>4, SingleUseFacts
    <3>7. QED
      BY <3>1, <3>5, <3>6
  <2>4. QED
    BY <2>2, <2>3
<1>17. ASSUME NEW i \in removed
       PROVE  Output(g, i) \notin g.outputs
  <2>1. PICK j \in fused : i \in { a(j), b(j) }
    BY <1>3
  <2>2. IsChain(g, j, a(j), b(j), v(j)) /\ i \in Operations(g)
    BY <1>0, <1>4, <1>13
  <2>3. SingleUse(g, Output(g, i))
    BY <2>1, <2>2 DEF IsChain
  <2>4. QED
    BY <2>3 DEF SingleUse
<1>18. Apart(h(N), removed, values)
  <2>1. removed \subseteq Operations(h(N)) /\ Operations(h(N)) = 1 .. N
    BY <1>4, <1>7, <1>11
  <2>2. \A i \in removed : Writes(h(N), i) \subseteq values
    BY <1>4, <1>14
  <2>3. ASSUME NEW j \in (1 .. N) \ removed, NEW w \in Reads(h(N), j) \cup Writes(h(N), j),
               NEW m \in removed, w = Output(g, m)
        PROVE  FALSE
    <3>1. PICK i \in fused : m \in { a(i), b(i) }
      BY <1>3
    <3>2. w \notin Reads(h(N), j)
      BY <1>16, <2>3, <3>1
    <3>3. w = Output(g, j)
      BY <1>14, <3>2
    <3>4. QED
      BY <1>4, <1>15, <2>3, <3>3
  <2>4. values \cap h(N).outputs = {}
    BY <1>7, <1>11, <1>17
  <2>5. QED
    BY <2>1, <2>2, <2>3, <2>4 DEF Apart
<1>19. QED
  BY <1>18 DEF h, removed, N

\* What a loop erases is apart.
LEMMA LoopIsApart ==
  ASSUME NEW pass \in Loops, NEW g, IsGraph(g), Topological(g)
  PROVE  LET removed == Removed(pass, g)
         IN  Apart(Rewritten(pass, g)[Len(g.ops)], removed, { Output(g, i) : i \in removed })
<1> DEFINE last == Rewritten(pass, g)[Len(g.ops)]
           removed == Removed(pass, g)
           values == { Output(g, i) : i \in removed }
<1>1. CASE pass = "fold"
  <2>1. removed = {}
    BY <1>1 DEF Removed, RemovedAt
  <2> HIDE DEF removed, last
  <2>2. values = {}
    BY <2>1
  <2>3. Apart(last, removed, values)
    BY <2>1, <2>2 DEF Apart
  <2>4. QED
    BY <2>3 DEF last, removed
<1>2. CASE pass \in {"reshape", "transpose"}
  BY <1>2, EliminationIsApart
<1>3. CASE pass = "fuse"
  BY <1>3, FusionIsApart
<1>4. QED
  BY <1>1, <1>2, <1>3 DEF Loops

\* No declared input is erased: what writes one is no operation of a kind that goes.
LEMMA RemovedIsNoInput ==
  ASSUME NEW pass \in Loops, NEW g, WellFormed(g), Linked(g), Topological(g),
         NEW i \in Removed(pass, g)
  PROVE  Output(g, i) \notin g.inputs
<1> DEFINE h(n) == Rewritten(pass, g)[n]
           N == Len(g.ops)
<1>0. IsGraph(g) /\ N \in Nat /\ Operations(g) = 1 .. N
  BY PositionFacts DEF IsGraph, WellFormed
<1>1. PICK n \in 1 .. N : Rewrites(pass, g, h(n - 1), n) /\ i \in RemovedAt(pass, h(n - 1), n)
  BY <1>0 DEF Removed
<1>2. n - 1 \in 0 .. N
  BY <1>0
<1>3. WellFormed(h(n - 1)) /\ Follows(h(n - 1), g)
  BY <1>0, <1>2, LoopReloads, LoopKeeps
<1>4. PICK f : f = h(n - 1)
  OBVIOUS
<1> HIDE DEF h
<1>5. /\ WellFormed(f) /\ IsGraph(f) /\ n \in Operations(f) /\ f.inputs = g.inputs
      /\ Operations(f) = Operations(g) /\ Output(f, i) = Output(g, i)
      /\ Rewrites(pass, g, f, n) /\ i \in RemovedAt(pass, f, n)
  <2>1. i \in Operations(g)
    BY <1>0, RemovedFacts
  <2>2. QED
    BY <1>0, <1>1, <1>3, <1>4, <2>1, FollowsFacts DEF WellFormed
<1>6. i \in Operations(f) /\ f.ops[i].type \in {"reshape", "transpose", "add", "linear", "mat_mul"}
  <2>1. CASE pass = "fold"
    BY <1>5, <2>1 DEF RemovedAt
  <2>2. CASE pass \in {"reshape", "transpose"}
    BY <1>5, <2>2 DEF RemovedAt, Rewrites, RedundantReshape, RedundantTranspose, Removable, OpType
  <2>3. CASE pass = "fuse"
    <3>1. Fuses(g, f, n) /\ i \in { Fusion(f, n).add, Fusion(f, n).base }
      BY <1>5, <2>3 DEF RemovedAt, Rewrites
    <3>2. LET a == Fusion(f, n).add
              b == Fusion(f, n).base
          IN  /\ a \in Operations(f) /\ b \in Operations(f)
              /\ f.ops[a].type = "add" /\ IsProjection(f.ops[b])
      BY <1>5, <3>1, FusionParts
    <3>3. QED
      BY <3>1, <3>2 DEF IsProjection
  <2>4. QED
    BY <2>1, <2>2, <2>3 DEF Loops
<1>7. Output(f, i) \in Writes(f, i)
  BY <1>5, <1>6, ResultFacts
<1>8. Kind(f, Output(f, i)) # "input"
  <2>1. Kind(f, Output(f, i)) \in KindsProducedBy(f.ops[i].type)
    BY <1>5, <1>6, <1>7 DEF WellFormed, RolesAgree
  <2>2. QED
    BY <1>6, <2>1 DEF KindsProducedBy
<1>9. QED
  BY <1>5, <1>8 DEF WellFormed, ReferencesExist

\* A whole loop, with what it erases at its end.
LEMMA RunLoopReloads ==
  ASSUME NEW pass \in Loops, NEW g, WellFormed(g), Linked(g), Topological(g)
  PROVE  LET h == RunLoop(pass, g)
         IN  WellFormed(h) /\ Linked(h)
<1> DEFINE last == Rewritten(pass, g)[Len(g.ops)]
           removed == Removed(pass, g)
           values == { Output(g, i) : i \in removed }
<1>0. IsGraph(g) /\ Len(g.ops) \in 0 .. Len(g.ops)
  BY PositionFacts DEF IsGraph, WellFormed
<1>1. WellFormed(last) /\ Linked(last) /\ Follows(last, g)
  BY <1>0, LoopReloads, LoopKeeps
<1>2. Apart(last, removed, values)
  BY <1>0, LoopIsApart
<1>3. \A i \in removed : Output(g, i) \notin g.inputs
  BY RemovedIsNoInput
<1>4. RunLoop(pass, g) = Erased(last, removed, values)
  BY DEF RunLoop
<1> HIDE DEF last, removed
<1>5. last.inputs = g.inputs
  BY <1>0, <1>1, FollowsFacts
<1>6. Separates(last, removed, values)
  BY <1>2, <1>3, <1>5 DEF Separates
<1> HIDE DEF values
<1>7. WellFormed(Erased(last, removed, values)) /\ Linked(Erased(last, removed, values))
  BY <1>1, <1>6, ErasedReloads
<1>8. QED
  BY <1>4, <1>7

\* In a graph that is stored in an order in which it can run there are enough rounds
\* to find whatever is live: what the producer of a live value reads is live.
LEMMA LiveValuesAreClosed ==
  ASSUME NEW g, IsGraph(g), Topological(g), NEW i \in Operations(g),
         Output(g, i) \in LiveValues(g)
  PROVE  Reads(g, i) \subseteq LiveValues(g)
<1> DEFINE N == Len(g.ops)
           live == LiveValues(g)
<1>0. N \in Nat /\ Operations(g) = 1 .. N
  BY PositionFacts DEF IsGraph
<1>1. PICK p : AreLiveRounds(g, N, p) /\ live = p[N]
  BY <1>0, LiveValuesIsRound
<1>2. p[0] = Roots(g) /\ \A n \in 1 .. N : p[n] = LiveRound(g, p[n - 1])
  BY <1>0, <1>1 DEF AreLiveRounds
<1>3. \A v \in live \ Roots(g) :
        \E j \in Operations(g) : v \in Reads(g, j) /\ Writes(g, j) \cap live # {}
  BY <1>0, LiveFacts
<1> HIDE DEF N, live
<1>4. \A n \in 0 .. N : \A m \in 0 .. n : p[m] \subseteq p[n]
  <2> DEFINE S == { n \in 0 .. N : \A m \in 0 .. n : p[m] \subseteq p[n] }
  <2>1. 0 \in S
    BY <1>0
  <2>2. ASSUME NEW n \in 1 .. N, n - 1 \in S
        PROVE  n \in S
    <3>1. p[n - 1] \subseteq p[n]
      BY <1>2 DEF LiveRound
    <3>2. \A m \in 0 .. n : m = n \/ m \in 0 .. n - 1
      BY <1>0
    <3>3. QED
      BY <1>0, <2>2, <3>1, <3>2
  <2>3. S \in SUBSET (0 .. N)
    OBVIOUS
  <2> HIDE DEF S
  <2>4. \A n \in 0 .. N : n \in S
    BY <1>0, <2>1, <2>2, <2>3, UpTo
  <2>5. QED
    BY <2>4 DEF S
<1>5. ASSUME NEW n \in 1 .. N, NEW j \in Operations(g), Output(g, j) \in p[n - 1]
      PROVE  Reads(g, j) \subseteq p[n]
  <2>1. Writes(g, j) \cap p[n - 1] # {}
    BY <1>5, ResultFacts
  <2>2. QED
    BY <1>2, <2>1 DEF LiveRound
<1> DEFINE Found(k) == \A j \in 1 .. N :
             N - j < k /\ Output(g, j) \in live => Output(g, j) \in p[N - j]
           T == { k \in 0 .. N : Found(k) }
<1>6. ASSUME NEW k \in 1 .. N, Found(k - 1)
      PROVE  Found(k)
  <2> SUFFICES ASSUME NEW j \in 1 .. N, N - j < k, Output(g, j) \in live
               PROVE  Output(g, j) \in p[N - j]
    OBVIOUS
  <2>1. N - j \in 0 .. N /\ 0 \in 0 .. N - j
    BY <1>0
  <2>2. CASE Output(g, j) \in Roots(g)
    BY <1>2, <1>4, <2>1, <2>2
  <2>3. CASE Output(g, j) \notin Roots(g)
    <3>1. PICK r \in Operations(g) : Output(g, j) \in Reads(g, r) /\ Writes(g, r) \cap live # {}
      BY <1>3, <2>3
    <3>2. j < r /\ r \in 1 .. N /\ Output(g, r) \in live
      <4>1. Output(g, j) \in Writes(g, j) /\ j \in Operations(g)
        BY <1>0, ResultFacts
      <4>2. Writes(g, r) = { Output(g, r) }
        BY ResultFacts
      <4>3. QED
        BY <1>0, <3>1, <4>1, <4>2, TopologicalFacts
    <3>3. N - r < k - 1 /\ N - r + 1 \in 1 .. N /\ N - r + 1 \in 0 .. N - j
          /\ (N - r + 1) - 1 = N - r
      BY <1>0, <3>2
    <3>4. Output(g, r) \in p[N - r]
      BY <1>6, <3>2, <3>3
    <3>5. Output(g, j) \in p[N - r + 1]
      BY <1>5, <3>1, <3>3, <3>4
    <3>6. QED
      BY <1>4, <2>1, <3>3, <3>5
  <2>4. QED
    BY <2>2, <2>3
<1>7. Found(0)
  <2>1. \A j \in 1 .. N : ~(N - j < 0)
    BY <1>0
  <2>2. QED
    BY <2>1
<1> HIDE DEF Found
<1>8. T \in SUBSET (0 .. N) /\ 0 \in T /\ \A n \in 1 .. N : n - 1 \in T => n \in T
  BY <1>0, <1>6, <1>7
<1>9. N \in 0 .. N
  BY <1>0
<1> HIDE DEF T
<1>10. Found(N)
  <2>1. N \in T
    BY <1>0, <1>8, <1>9, UpTo
  <2>2. QED
    BY <2>1 DEF T
<1>11. N - i < N /\ N - i + 1 \in 1 .. N /\ (N - i + 1) - 1 = N - i /\ i \in 1 .. N
       /\ N - i + 1 \in 0 .. N
  BY <1>0
<1>12. Output(g, i) \in p[N - i]
  BY <1>10, <1>11 DEF Found, live
<1>13. Reads(g, i) \subseteq p[N - i + 1]
  BY <1>5, <1>11, <1>12
<1>14. p[N - i + 1] \subseteq p[N]
  BY <1>4, <1>9, <1>11
<1>15. QED
  BY <1>1, <1>13, <1>14 DEF live

\* So dead code is apart.
LEMMA DeadCodeIsApart ==
  ASSUME NEW g, IsGraph(g), Topological(g), OperandsExist(g)
  PROVE  LET live == LiveValues(g)
             dead == { i \in Operations(g) : Writes(g, i) \cap live = {} }
             values == DOMAIN g.values \ live
         IN  /\ EliminateDeadCode(g) = Erased(g, dead, values)
             /\ Apart(g, dead, values) /\ values \cap Roots(g) = {}
<1> DEFINE live == LiveValues(g)
           dead == { i \in Operations(g) : Writes(g, i) \cap live = {} }
           values == DOMAIN g.values \ live
<1>0. Len(g.ops) \in Nat
  BY PositionFacts DEF IsGraph
<1>1. Roots(g) \subseteq live
  BY <1>0, LiveFacts
<1>2. \A i \in Operations(g) : Output(g, i) \in live => Reads(g, i) \subseteq live
  BY LiveValuesAreClosed
<1>3. EliminateDeadCode(g) = Erased(g, dead, values)
  BY DEF EliminateDeadCode
<1> HIDE DEF live
<1>4. Apart(g, dead, values)
  <2>1. \A i \in Operations(g) : Writes(g, i) \subseteq DOMAIN g.values
    BY DEF OperandsExist
  <2>2. \A i \in dead : Writes(g, i) \subseteq values
    BY <2>1
  <2>3. ASSUME NEW i \in Operations(g) \ dead
        PROVE  (Reads(g, i) \cup Writes(g, i)) \cap values = {}
    <3>1. Writes(g, i) = { Output(g, i) }
      BY ResultFacts
    <3>2. Output(g, i) \in live
      BY <3>1
    <3>3. QED
      BY <1>2, <3>1, <3>2
  <2>4. values \cap g.outputs = {}
    BY <1>1 DEF Roots
  <2> HIDE DEF values
  <2>5. dead \subseteq Operations(g)
    OBVIOUS
  <2> HIDE DEF dead
  <2>6. QED
    BY <2>2, <2>3, <2>4, <2>5 DEF Apart
<1>5. values \cap Roots(g) = {}
  BY <1>1
<1>6. QED
  BY <1>3, <1>4, <1>5 DEF live

\* Erasing it leaves a graph that is as good.
LEMMA DeadCodeReloads ==
  ASSUME NEW g, WellFormed(g), Linked(g), Topological(g)
  PROVE  LET h == EliminateDeadCode(g)
         IN  WellFormed(h) /\ Linked(h)
<1> DEFINE live == LiveValues(g)
           dead == { i \in Operations(g) : Writes(g, i) \cap live = {} }
           values == DOMAIN g.values \ live
<1>1. IsGraph(g) /\ OperandsExist(g)
  BY DEF WellFormed, ReferencesExist, OperandsExist
<1>2. /\ EliminateDeadCode(g) = Erased(g, dead, values)
      /\ Apart(g, dead, values) /\ values \cap Roots(g) = {}
  BY <1>1, DeadCodeIsApart
<1> HIDE DEF dead, values
<1>3. Separates(g, dead, values)
  BY <1>2 DEF Separates, Roots
<1>4. QED
  BY <1>2, <1>3, ErasedReloads

\* Every pass of a pipeline that canonicalises first.
LEMMA ApplyReloads ==
  ASSUME NEW g, WellFormed(g), Linked(g), NEW pass \in PassNames,
         pass = "canonicalise" => HasStableOrder(g),
         pass \notin {"verify", "canonicalise"} => Topological(g)
  PROVE  LET h == Apply(pass, g)
         IN  WellFormed(h) /\ Linked(h)
<1>1. CASE pass = "verify"
  <2>1. Apply(pass, g) = g
    BY <1>1 DEF Apply
  <2>2. QED
    BY <2>1
<1>2. CASE pass = "canonicalise"
  <2>1. Apply(pass, g) = Canonicalise(g) /\ Len(StableOrder(g)) = Len(g.ops)
    BY <1>2 DEF Apply, HasStableOrder
  <2>2. QED
    BY <2>1, CanonicaliseReloads
<1>3. CASE pass \in Loops
  <2>1. Apply(pass, g) = RunLoop(pass, g)
    BY <1>3 DEF Apply, Loops
  <2>2. Topological(g)
    BY <1>3 DEF Loops
  <2>3. QED
    BY <1>3, <2>1, <2>2, RunLoopReloads
<1>4. CASE pass = "dead_code"
  <2>1. Apply(pass, g) = EliminateDeadCode(g) /\ Topological(g)
    BY <1>4 DEF Apply
  <2>2. QED
    BY <2>1, DeadCodeReloads
<1>5. QED
  BY <1>1, <1>2, <1>3, <1>4 DEF PassNames

(***************************************************************************)
(* An optimization of a graph the loader accepts has, at every stage, a    *)
(* graph the loader accepts.                                               *)
(***************************************************************************)

ReloadInv ==
  runs > 0 /\ Accepts(original) =>
    /\ status \in {"running", "optimized"} => Accepts(graph)
    /\ status # "refused"

\* A pass makes of such a graph such a graph.
LEMMA RunPassReloads ==
  ASSUME IInv, ReloadInv, RunPass
  PROVE  ReloadInv'
<1> DEFINE pass == Head(passes)
<1>1. /\ status = "running" /\ stage = "pass" /\ graph' = Apply(pass, graph)
      /\ pass = "canonicalise" => HasStableOrder(graph)
      /\ UNCHANGED << original, passes, status, runs >>
  BY DEF RunPass
<1>2. passes \in Remaining /\ runs > 0 /\ IsGraph(graph)
  BY <1>1 DEF IInv, ProgressInv, GraphInv
<1>3. pass \in PassNames
  BY <1>2, RemainingFacts
<1>4. pass \notin {"verify", "canonicalise"} => Topological(graph)
  BY <1>1 DEF IInv, GraphInv, Canonicalised
<1> HIDE DEF pass
<1>5. /\ IsGraph(graph')
      /\ Topological(graph) \/ pass = "canonicalise" => Topological(graph')
      /\ pass = "verify" => graph' = graph
  BY <1>1, <1>2, <1>3, ApplyFacts
<1>6. ASSUME Accepts(original)
      PROVE  Accepts(graph')
  <2>1. Accepts(graph)
    BY <1>1, <1>2, <1>6 DEF ReloadInv
  <2>2. WellFormed(graph) /\ Linked(graph)
    BY <1>2, <2>1, AcceptsFacts DEF IsGraph
  <2>3. WellFormed(graph') /\ Linked(graph')
    BY <1>1, <1>3, <1>4, <2>2, ApplyReloads
  <2>4. CASE pass = "verify"
    BY <1>5, <2>1, <2>4
  <2>5. CASE pass # "verify"
    <3>1. Topological(graph')
      BY <1>4, <1>5, <2>5
    <3>2. QED
      BY <1>5, <2>3, <3>1, AcceptsFacts DEF IsGraph
  <2>6. QED
    BY <2>4, <2>5
<1>7. QED
  BY <1>1, <1>6 DEF ReloadInv

\* Every other step keeps the graph, ends the optimization or begins one.
LEMMA NextReloads ==
  ASSUME IInv, ReloadInv, [Next]_vars
  PROVE  ReloadInv'
<1>1. ASSUME NEW g, NEW level, Optimize(g, level)
      PROVE  ReloadInv'
  BY <1>1 DEF Optimize, ReloadInv
<1>2. CASE PreVerify
  BY <1>2 DEF PreVerify, ReloadInv
<1>3. CASE RunPass
  BY <1>3, RunPassReloads
<1>4. CASE PassFails \/ VerificationFails
  BY <1>4 DEF PassFails, VerificationFails, Abort, ReloadInv
<1>5. CASE PostVerify
  BY <1>5 DEF PostVerify, ReloadInv
<1>6. CASE Reload
  <2>1. status = "optimized" /\ runs > 0 /\ UNCHANGED << original, runs >>
    BY <1>6 DEF Reload, IInv, ProgressInv
  <2>2. Accepts(graph) => status' = "idle"
    BY <1>6 DEF Reload
  <2>3. QED
    BY <2>1, <2>2 DEF ReloadInv
<1>7. CASE UNCHANGED vars
  BY <1>7 DEF vars, ReloadInv
<1>8. QED
  BY <1>1, <1>2, <1>3, <1>4, <1>5, <1>6, <1>7 DEF Next

\* The graph of such an optimization is one the loader accepts.
THEOREM ReloadInvariance == Spec => []ReloadInv
<1>1. Init => ReloadInv
  BY DEF Init, ReloadInv
<1>2. IInv /\ ReloadInv /\ [Next]_vars => ReloadInv'
  BY NextReloads
<1>3. QED
  BY <1>1, <1>2, Invariance, PTL DEF Spec

\* What the optimizer makes of a graph the loader has accepted (load_graph, or a
\* caller's graph that passes the same checks) is never refused when the optimize
\* command loads it again: folding makes a constant the kind of its value, no
\* loop leaves a reader of what it erases, and every output stays connected.
THEOREM AcceptedGraphsReloadHolds == Spec => []AcceptedGraphsReload
<1>1. ReloadInv => AcceptedGraphsReload
  BY DEF ReloadInv, AcceptedGraphsReload
<1>2. QED
  BY <1>1, ReloadInvariance, PTL

(***************************************************************************)
(* The meaning of a graph, as the solution of equations.                   *)
(***************************************************************************)

\* What an operation is given, and that its result is what it computes of that.
Arguments(g, W, i) == [ k \in DOMAIN g.ops[i].inputs |-> W[g.ops[i].inputs[k]] ]

Stands(g, W, i) == W[Output(g, i)] = Denoted(g, g.ops[i], Arguments(g, W, i))

\* W is right about every operation that comes in the order of the loader; what none
\* of them writes stands for itself.
Satisfies(g, W) ==
  LET order == LoadOrder(g)
  IN  /\ \A n \in 1 .. Len(order) : Stands(g, W, order[n])
      /\ \A v \in DOMAIN g.values :
           (\A n \in 1 .. Len(order) : v \notin Writes(g, order[n])) => W[v] = Tensor(v, << >>, << >>)

\* One step of Denotation.
DenotationRound(g, i, before) ==
  With(before, [ v \in Writes(g, i) |-> Denoted(g, g.ops[i], Arguments(g, before, i)) ])

\* p has the results of the first k steps.
AreDenotations(g, order, k, p) ==
  p = [ n \in 0 .. k |-> IF n = 0 THEN [ v \in DOMAIN g.values |-> Tensor(v, << >>, << >>) ]
                         ELSE DenotationRound(g, order[n], p[n - 1]) ]

\* There are such results for any number of steps.
LEMMA DenotationsExist ==
  ASSUME NEW g, NEW order, NEW k \in Nat
  PROVE  \E p : AreDenotations(g, order, k, p)
<1> DEFINE start == [ v \in DOMAIN g.values |-> Tensor(v, << >>, << >>) ]
           Exist(n) == \E p : AreDenotations(g, order, n, p)
           Good == { n \in 0 .. k : Exist(n) }
<1>1. Exist(0)
  <2>1. AreDenotations(g, order, 0, [ n \in 0 .. 0 |-> start ])
    BY DEF AreDenotations
  <2>2. QED
    BY <2>1
<1>2. ASSUME NEW m \in 1 .. k, Exist(m - 1)
      PROVE  Exist(m)
  <2>1. PICK p : AreDenotations(g, order, m - 1, p)
    BY <1>2
  <2> DEFINE q == [ n \in 0 .. m |->
                      IF n < m THEN p[n] ELSE DenotationRound(g, order[m], p[m - 1]) ]
  <2>2. \A n \in 0 .. m - 1 :
          p[n] = IF n = 0 THEN start ELSE DenotationRound(g, order[n], p[n - 1])
    BY <2>1 DEF AreDenotations
  <2> HIDE DEF start
  <2>3. \A n \in 0 .. m :
          q[n] = IF n = 0 THEN start ELSE DenotationRound(g, order[n], q[n - 1])
    <3> SUFFICES ASSUME NEW n \in 0 .. m
                 PROVE  q[n] = IF n = 0 THEN start ELSE DenotationRound(g, order[n], q[n - 1])
      OBVIOUS
    <3>1. n # 0 => q[n - 1] = p[n - 1]
      OBVIOUS
    <3>2. CASE n < m
      BY <2>2, <3>1, <3>2
    <3>3. CASE n = m
      BY <3>1, <3>3
    <3>4. QED
      BY <3>2, <3>3
  <2>4. q = [ n \in 0 .. m |->
                IF n = 0 THEN start ELSE DenotationRound(g, order[n], q[n - 1]) ]
    BY <2>3
  <2>5. QED
    BY <2>4 DEF AreDenotations, start
<1> HIDE DEF Exist
<1>3. Good \in SUBSET (0 .. k) /\ 0 \in Good /\ \A n \in 1 .. k : n - 1 \in Good => n \in Good
  BY <1>1, <1>2
<1>4. k \in 0 .. k
  OBVIOUS
<1> HIDE DEF Good
<1>5. k \in Good
  BY <1>3, <1>4, UpTo
<1>6. QED
  BY <1>5 DEF Exist, Good

\* Denotation has the last of them.
LEMMA DenotationIsRound ==
  ASSUME NEW g, Len(LoadOrder(g)) \in Nat
  PROVE  \E p : /\ AreDenotations(g, LoadOrder(g), Len(LoadOrder(g)), p)
                /\ Denotation(g) = p[Len(LoadOrder(g))]
<1> DEFINE order == LoadOrder(g)
           P(q) == q = [ n \in 0 .. Len(order) |->
                           IF n = 0 THEN [ v \in DOMAIN g.values |-> Tensor(v, << >>, << >>) ]
                           ELSE DenotationRound(g, order[n], q[n - 1]) ]
           q == CHOOSE q : P(q)
<1>1. P(q)
  <2>1. PICK p : AreDenotations(g, order, Len(order), p)
    BY DenotationsExist
  <2>2. P(p)
    BY <2>1 DEF AreDenotations
  <2>3. QED
    BY <2>2
<1>2. Denotation(g) = q[Len(order)]
  BY DEF Denotation, DenotationRound, Arguments, LoadOrder
<1>3. QED
  BY <1>1, <1>2 DEF AreDenotations

\* What the order of the loader is, of a graph.
LEMMA LoadOrderFacts ==
  ASSUME NEW g, IsGraph(g)
  PROVE  LET order == LoadOrder(g)
         IN  /\ Len(order) \in Nat
             /\ \A n \in 1 .. Len(order) : order[n] \in Operations(g)
             /\ \A m, n \in 1 .. Len(order) : order[m] = order[n] => m = n
             /\ \A n \in 1 .. Len(order) : \A i \in Operations(g) :
                  Writes(g, i) \cap Reads(g, order[n]) # {} =>
                    \E m \in 1 .. n - 1 : order[m] = i
             /\ IsOrdering(g, DataEdges(g), order)
<1> DEFINE order == LoadOrder(g)
<1>1. IsOrdering(g, DataEdges(g), order)
  BY PositionFacts, LeastFirstIsOrdering DEF LoadOrder, IsGraph, HasOperations, IsOperation
<1> HIDE DEF order
<1>2. /\ Len(order) \in Nat
      /\ \A n \in 1 .. Len(order) : order[n] \in Operations(g)
      /\ \A m, n \in 1 .. Len(order) : order[m] = order[n] => m = n
  BY <1>1, LenProperties DEF IsOrdering
<1>3. ASSUME NEW n \in 1 .. Len(order), NEW i \in Operations(g),
             Writes(g, i) \cap Reads(g, order[n]) # {}
      PROVE  \E m \in 1 .. n - 1 : order[m] = i
  <2>1. << i, order[n] >> \in DataEdges(g)
    BY <1>2, <1>3 DEF DataEdges
  <2>2. QED
    BY <1>1, <2>1 DEF IsOrdering
<1>4. QED
  BY <1>1, <1>2, <1>3 DEF order

\* A value is computed once, and not before what it is computed of.
LEMMA DenotationSatisfies ==
  ASSUME NEW g, IsGraph(g), OperandsExist(g)
  PROVE  Satisfies(g, Denotation(g))
<1> DEFINE order == LoadOrder(g)
           N == Len(order)
           D == DOMAIN g.values
<1>1. /\ N \in Nat
      /\ \A n \in 1 .. N : order[n] \in Operations(g)
      /\ \A m, n \in 1 .. N : order[m] = order[n] => m = n
      /\ \A n \in 1 .. N : \A i \in Operations(g) :
           Writes(g, i) \cap Reads(g, order[n]) # {} => \E m \in 1 .. n - 1 : order[m] = i
  BY LoadOrderFacts
<1>2. PICK p : AreDenotations(g, order, N, p) /\ Denotation(g) = p[N]
  BY <1>1, DenotationIsRound
<1>3. /\ p[0] = [ v \in D |-> Tensor(v, << >>, << >>) ]
      /\ \A n \in 1 .. N : p[n] = DenotationRound(g, order[n], p[n - 1])
  BY <1>1, <1>2 DEF AreDenotations
<1>4. \A n \in 1 .. N : Writes(g, order[n]) \subseteq D /\ Reads(g, order[n]) \subseteq D
  BY <1>1 DEF OperandsExist
<1> HIDE DEF order, N, D
<1>5. \A n \in 0 .. N : DOMAIN p[n] = D
  <2> DEFINE S == { n \in 0 .. N : DOMAIN p[n] = D }
  <2>1. 0 \in S
    BY <1>1, <1>3
  <2>2. ASSUME NEW n \in 1 .. N, DOMAIN p[n - 1] = D
        PROVE  DOMAIN p[n] = D
    <3> DEFINE new == [ v \in Writes(g, order[n]) |->
                          Denoted(g, g.ops[order[n]], Arguments(g, p[n - 1], order[n])) ]
    <3>1. p[n] = With(p[n - 1], new) /\ DOMAIN new = Writes(g, order[n])
      BY <1>3 DEF DenotationRound
    <3> HIDE DEF new
    <3>2. DOMAIN p[n] = DOMAIN p[n - 1] \cup Writes(g, order[n])
      BY <3>1 DEF With
    <3>3. QED
      BY <1>4, <2>2, <3>2
  <2>3. S \in SUBSET (0 .. N) /\ \A n \in 1 .. N : n - 1 \in S => n \in S
    BY <2>2
  <2> HIDE DEF S
  <2>4. \A n \in 0 .. N : n \in S
    BY <1>1, <2>1, <2>3, UpTo
  <2>5. QED
    BY <2>4 DEF S
<1>6. \A n \in 1 .. N : \A v \in D :
        p[n][v] = IF v \in Writes(g, order[n])
                  THEN Denoted(g, g.ops[order[n]], Arguments(g, p[n - 1], order[n]))
                  ELSE p[n - 1][v]
  <2> SUFFICES ASSUME NEW n \in 1 .. N, NEW v \in D
               PROVE  p[n][v] = IF v \in Writes(g, order[n])
                                THEN Denoted(g, g.ops[order[n]], Arguments(g, p[n - 1], order[n]))
                                ELSE p[n - 1][v]
    OBVIOUS
  <2> DEFINE new == Denoted(g, g.ops[order[n]], Arguments(g, p[n - 1], order[n]))
  <2>1. n - 1 \in 0 .. N
    BY <1>1
  <2>2. DOMAIN p[n - 1] = D
    BY <1>5, <2>1
  <2>3. p[n] = With(p[n - 1], [ w \in Writes(g, order[n]) |-> new ])
    BY <1>3 DEF DenotationRound
  <2> HIDE DEF new
  <2>4. QED
    BY <2>2, <2>3 DEF With, new
<1>7. \A n \in 0 .. N : \A m \in 0 .. n : \A v \in D :
        (\A k \in m + 1 .. n : v \notin Writes(g, order[k])) => p[n][v] = p[m][v]
  <2> DEFINE Stays(n) == \A m \in 0 .. n : \A v \in D :
               (\A k \in m + 1 .. n : v \notin Writes(g, order[k])) => p[n][v] = p[m][v]
             S == { n \in 0 .. N : Stays(n) }
  <2>1. 0 \in S
    BY <1>1
  <2>2. ASSUME NEW n \in 1 .. N, Stays(n - 1)
        PROVE  Stays(n)
    <3> SUFFICES ASSUME NEW m \in 0 .. n, NEW v \in D,
                        \A k \in m + 1 .. n : v \notin Writes(g, order[k])
                 PROVE  p[n][v] = p[m][v]
      OBVIOUS
    <3>1. CASE m = n
      BY <3>1
    <3>2. CASE m # n
      <4>1. m \in 0 .. n - 1 /\ n \in m + 1 .. n /\ \A k \in m + 1 .. n - 1 : k \in m + 1 .. n
        BY <1>1, <3>2
      <4>2. p[n][v] = p[n - 1][v]
        BY <1>6, <4>1
      <4>3. p[n - 1][v] = p[m][v]
        BY <2>2, <4>1
      <4>4. QED
        BY <4>2, <4>3
    <3>3. QED
      BY <3>1, <3>2
  <2> HIDE DEF Stays
  <2>3. S \in SUBSET (0 .. N) /\ \A n \in 1 .. N : n - 1 \in S => n \in S
    BY <2>2
  <2> HIDE DEF S
  <2>4. \A n \in 0 .. N : n \in S
    BY <1>1, <2>1, <2>3, UpTo
  <2>5. QED
    BY <2>4 DEF S, Stays
<1>8. ASSUME NEW n \in 1 .. N
      PROVE  Stands(g, p[N], order[n])
  <2> DEFINE i == order[n]
  <2>1. i \in Operations(g) /\ Writes(g, i) = { Output(g, i) } /\ Output(g, i) \in D
    BY <1>1, <1>4, ResultFacts
  <2>2. p[n][Output(g, i)] = Denoted(g, g.ops[i], Arguments(g, p[n - 1], i))
    BY <1>6, <2>1
  <2>3. p[N][Output(g, i)] = p[n][Output(g, i)]
    <3>1. ASSUME NEW k \in n + 1 .. N
          PROVE  Output(g, i) \notin Writes(g, order[k])
      <4>1. k \in 1 .. N /\ k # n
        BY <1>1
      <4>2. order[k] \in Operations(g) /\ order[k] # i
        BY <1>1, <4>1
      <4>3. QED
        BY <2>1, <4>2, ResultFacts
    <3>2. N \in 0 .. N /\ n \in 0 .. N
      BY <1>1
    <3>3. QED
      BY <1>7, <2>1, <3>1, <3>2
  <2>4. ASSUME NEW u \in Reads(g, i)
        PROVE  p[N][u] = p[n - 1][u]
    <3>1. u \in D
      BY <1>4
    <3>2. ASSUME NEW k \in (n - 1) + 1 .. N, u \in Writes(g, order[k])
          PROVE  FALSE
      <4>1. k \in 1 .. N /\ ~(k <= n - 1)
        BY <1>1
      <4>2. PICK m \in 1 .. n - 1 : order[m] = order[k]
        BY <1>1, <3>2, <4>1
      <4>3. m \in 1 .. N
        BY <1>1
      <4>4. m = k
        BY <1>1, <4>1, <4>2, <4>3
      <4>5. QED
        BY <4>1, <4>4
    <3>3. N \in 0 .. N /\ n - 1 \in 0 .. N
      BY <1>1
    <3>4. QED
      BY <1>7, <3>1, <3>2, <3>3
  <2>5. \A k \in DOMAIN g.ops[i].inputs : g.ops[i].inputs[k] \in Reads(g, i)
    BY DEF Reads, Elements
  <2>6. Arguments(g, p[N], i) = Arguments(g, p[n - 1], i)
    BY <2>4, <2>5 DEF Arguments
  <2>7. QED
    BY <2>2, <2>3, <2>6 DEF Stands
<1>9. ASSUME NEW v \in D, \A n \in 1 .. N : v \notin Writes(g, order[n])
      PROVE  p[N][v] = Tensor(v, << >>, << >>)
  <2>1. N \in 0 .. N /\ 0 \in 0 .. N
    BY <1>1
  <2>2. \A k \in 0 + 1 .. N : v \notin Writes(g, order[k])
    BY <1>9
  <2>3. p[N][v] = p[0][v]
    BY <1>7, <2>1, <2>2
  <2>4. QED
    BY <1>3, <2>3
<1>10. QED
  BY <1>2, <1>8, <1>9 DEF Satisfies, order, N, D

\* Nothing else is right about all of them.
LEMMA DenotationIsUnique ==
  ASSUME NEW g, IsGraph(g), OperandsExist(g), NEW W, Satisfies(g, W)
  PROVE  \A v \in DOMAIN g.values : Denotation(g)[v] = W[v]
<1> DEFINE order == LoadOrder(g)
           N == Len(order)
           E == Denotation(g)
           Same(n) == \A k \in 1 .. n : W[Output(g, order[k])] = E[Output(g, order[k])]
           S == { n \in 0 .. N : Same(n) }
<1>1. /\ N \in Nat
      /\ \A n \in 1 .. N : order[n] \in Operations(g)
      /\ \A n \in 1 .. N : \A i \in Operations(g) :
           Writes(g, i) \cap Reads(g, order[n]) # {} => \E m \in 1 .. n - 1 : order[m] = i
  BY LoadOrderFacts
<1>2. Satisfies(g, E)
  BY DenotationSatisfies
<1> HIDE DEF E
<1>3. /\ \A n \in 1 .. N : Stands(g, W, order[n]) /\ Stands(g, E, order[n])
      /\ \A v \in DOMAIN g.values :
           (\A n \in 1 .. N : v \notin Writes(g, order[n])) => W[v] = E[v]
  BY <1>2 DEF Satisfies
<1>4. \A n \in 1 .. N : /\ Writes(g, order[n]) = { Output(g, order[n]) }
                        /\ Reads(g, order[n]) \subseteq DOMAIN g.values
  BY <1>1, ResultFacts DEF OperandsExist
<1> HIDE DEF order, N
<1>5. ASSUME NEW n \in 1 .. N, Same(n - 1)
      PROVE  Same(n)
  <2> DEFINE i == order[n]
  <2>1. ASSUME NEW u \in Reads(g, i)
        PROVE  W[u] = E[u]
    <3>1. CASE \A k \in 1 .. N : u \notin Writes(g, order[k])
      BY <1>3, <1>4, <3>1
    <3>2. ASSUME NEW k \in 1 .. N, u \in Writes(g, order[k])
          PROVE  W[u] = E[u]
      <4>1. PICK m \in 1 .. n - 1 : order[m] = order[k]
        BY <1>1, <3>2
      <4>2. u = Output(g, order[m])
        BY <1>4, <3>2, <4>1
      <4>3. QED
        BY <1>5, <4>1, <4>2
    <3>3. QED
      BY <3>1, <3>2
  <2>2. \A k \in DOMAIN g.ops[i].inputs : g.ops[i].inputs[k] \in Reads(g, i)
    BY DEF Reads, Elements
  <2>3. Arguments(g, W, i) = Arguments(g, E, i)
    BY <2>1, <2>2 DEF Arguments
  <2>4. W[Output(g, i)] = E[Output(g, i)]
    BY <1>3, <2>3 DEF Stands
  <2>5. \A k \in 1 .. n : k = n \/ k \in 1 .. n - 1
    BY <1>1
  <2>6. QED
    BY <1>5, <2>4, <2>5
<1>6. Same(0)
  OBVIOUS
<1> HIDE DEF Same
<1>7. S \in SUBSET (0 .. N) /\ 0 \in S /\ \A n \in 1 .. N : n - 1 \in S => n \in S
  BY <1>1, <1>5, <1>6
<1>8. N \in 0 .. N
  BY <1>1
<1> HIDE DEF S
<1>9. Same(N)
  <2>1. N \in S
    BY <1>1, <1>7, <1>8, UpTo
  <2>2. QED
    BY <2>1 DEF S
<1>10. ASSUME NEW v \in DOMAIN g.values
       PROVE  E[v] = W[v]
  <2>1. CASE \A n \in 1 .. N : v \notin Writes(g, order[n])
    BY <1>3, <2>1
  <2>2. ASSUME NEW n \in 1 .. N, v \in Writes(g, order[n])
        PROVE  E[v] = W[v]
    BY <1>4, <1>9, <2>2 DEF Same
  <2>3. QED
    BY <2>1, <2>2
<1>11. QED
  BY <1>10 DEF E

\* What an operation computes depends on its type, its attributes and its result and, for
\* three types, on shapes. Absent attributes that have a default may as well be given.
LEMMA DenotedSame ==
  ASSUME NEW g, NEW h, NEW op, NEW new, NEW args,
         new.type = op.type, new.outputs = op.outputs,
         op.type = "constant" => new.attributes["value"] = op.attributes["value"],
         op.type \in {"mat_mul", "linear"} =>
           (Has(new, "fused_activation") <=> Has(op, "fused_activation")),
         op.type = "gelu" =>
           Attribute(new, "approximate", "none") = Attribute(op, "approximate", "none"),
         op.type = "softmax" =>
           FromEnd(new.attributes["axis"], Len(ShapeOf(h, new.inputs[1]))) =
             FromEnd(op.attributes["axis"], Len(ShapeOf(g, op.inputs[1]))),
         op.type = "causal_mask" => Attribute(new, "diagonal", 0) = Attribute(op, "diagonal", 0),
         op.type \in {"reshape", "transpose"} =>
           ShapeOf(h, new.inputs[1]) = ShapeOf(g, op.inputs[1]),
         op.type = "reshape" => ShapeOf(h, op.outputs[1]) = ShapeOf(g, op.outputs[1]),
         op.type = "transpose" => new.attributes["permutation"] = op.attributes["permutation"]
  PROVE  Denoted(h, new, args) = Denoted(g, op, args)
<1>1. CASE op.type \in {"input", "parameter", "constant"}
  BY <1>1 DEF Denoted
<1>2. CASE op.type \in {"mat_mul", "linear"}
  <2>1. \A x : Activated(new, x) = Activated(op, x)
    BY <1>2 DEF Activated
  <2>2. QED
    BY <1>2, <2>1 DEF Denoted
<1>3. CASE op.type = "gelu"
  BY <1>3 DEF Denoted
<1>4. CASE op.type = "softmax"
  BY <1>4 DEF Denoted
<1>5. CASE op.type = "causal_mask"
  BY <1>5 DEF Denoted
<1>6. CASE op.type = "reshape"
  BY <1>6 DEF Denoted
<1>7. CASE op.type = "transpose"
  BY <1>7 DEF Denoted
<1>8. CASE op.type \notin {"input", "parameter", "constant", "mat_mul", "linear", "gelu",
                           "softmax", "causal_mask", "reshape", "transpose"}
  BY <1>8 DEF Denoted
<1>9. QED
  BY <1>1, <1>2, <1>3, <1>4, <1>5, <1>6, <1>7, <1>8

\* W is right about all operations.
Solves(g, W) ==
  /\ \A i \in Operations(g) : Stands(g, W, i)
  /\ \A v \in DOMAIN g.values :
       (\A i \in Operations(g) : v \notin Writes(g, i)) => W[v] = Tensor(v, << >>, << >>)

\* If the loader finds an order of all operations, that is the same.
LEMMA SatisfiesAll ==
  ASSUME NEW g, IsGraph(g), Len(LoadOrder(g)) = Len(g.ops), NEW W
  PROVE  Satisfies(g, W) <=> Solves(g, W)
<1> DEFINE order == LoadOrder(g)
<1>1. Operations(g) = 1 .. Len(g.ops) /\ Len(g.ops) \in Nat
  BY PositionFacts DEF IsGraph
<1>2. IsOrdering(g, DataEdges(g), order) /\ \A n \in 1 .. Len(order) : order[n] \in Operations(g)
  BY LoadOrderFacts
<1>3. Len(order) = Len(g.ops)
  OBVIOUS
<1>4. Satisfies(g, W) <=>
        /\ \A n \in 1 .. Len(order) : Stands(g, W, order[n])
        /\ \A v \in DOMAIN g.values :
             (\A n \in 1 .. Len(order) : v \notin Writes(g, order[n])) => W[v] = Tensor(v, << >>, << >>)
  BY DEF Satisfies
<1> HIDE DEF order
<1>5. \A i \in Operations(g) : \E n \in 1 .. Len(order) : order[n] = i
  BY <1>1, <1>2, <1>3, FullOrderingIsOnto
<1>6. QED
  BY <1>2, <1>4, <1>5 DEF Solves

\* h means what g means, as far as it has its values.
SameMeaning(h, g) ==
  /\ DOMAIN h.values \subseteq DOMAIN g.values
  /\ \A v \in DOMAIN h.values : Denotation(h)[v] = Denotation(g)[v]

\* So it does if the meaning of g is right about h.
LEMMA SolvedMeansTheSame ==
  ASSUME NEW g, NEW h, IsGraph(h), OperandsExist(h), Len(LoadOrder(h)) = Len(h.ops),
         DOMAIN h.values \subseteq DOMAIN g.values, Solves(h, Denotation(g))
  PROVE  SameMeaning(h, g)
<1>1. Satisfies(h, Denotation(g))
  BY SatisfiesAll
<1>2. \A v \in DOMAIN h.values : Denotation(h)[v] = Denotation(g)[v]
  BY <1>1, DenotationIsUnique
<1>3. QED
  BY <1>2 DEF SameMeaning

\* What the passes presume of a graph when they rewrite it: a scalar GELU is an exact one
\* (ConstantFoldingPass does not look), and a projection without a bias has no activation
\* of its own (nor does FuseBiasGELUPass).
Ordinary(g) ==
  /\ g.outputs \subseteq DOMAIN g.values
  /\ \A i \in Operations(g) :
       /\ g.ops[i].type = "gelu" /\ ShapeOf(g, Output(g, i)) = << >> => IsExactGelu(g.ops[i])
       /\ IsProjection(g.ops[i]) => ~Has(g.ops[i], "fused_activation")

\* A graph that computes what W says.
Sound(g, W) == OperandsExist(g) /\ Ordinary(g) /\ Solves(g, W)

\* An operation computes the same in a graph in which its values have the same shapes.
LEMMA SameStands ==
  ASSUME NEW g, IsGraph(g), NEW i \in Operations(g), NEW W, Stands(g, W, i),
         NEW h, NEW j, h.ops[j] = g.ops[i],
         \A v \in Reads(g, i) \cup Writes(g, i) : ShapeOf(h, v) = ShapeOf(g, v)
  PROVE  Stands(h, W, j)
<1> DEFINE op == g.ops[i]
           args == Arguments(g, W, i)
<1>0. HasOperations(g)
  BY DEF IsGraph
<1>1. h.ops[j] = op /\ Output(h, j) = Output(g, i) /\ Output(g, i) = op.outputs[1]
  BY DEF Output
<1>2. Arguments(h, W, j) = args
  BY <1>1 DEF Arguments
<1>3. W[Output(g, i)] = Denoted(g, op, args)
  BY DEF Stands
<1>4. op.type \in {"softmax", "reshape", "transpose"} =>
        ShapeOf(h, op.inputs[1]) = ShapeOf(g, op.inputs[1])
  <2> SUFFICES ASSUME op.type \in {"softmax", "reshape", "transpose"}
               PROVE  op.inputs[1] \in Reads(g, i)
    OBVIOUS
  <2>1. Len(op.inputs) = 1
    BY <1>0 DEF HasOperations, IsOperation
  <2>2. QED
    BY <1>0, <2>1, OperandFacts
<1>5. ShapeOf(h, op.outputs[1]) = ShapeOf(g, op.outputs[1])
  <2>1. Output(g, i) \in Writes(g, i)
    BY ResultFacts
  <2>2. QED
    BY <1>1, <2>1
<1> HIDE DEF op, args
<1>6. Denoted(h, op, args) = Denoted(g, op, args)
  BY <1>4, <1>5, DenotedSame
<1>7. QED
  BY <1>1, <1>2, <1>3, <1>6 DEF Stands

\* Without operations and values that are apart, in whatever order, a graph computes the same.
LEMMA SelectionIsSound ==
  ASSUME NEW g, IsGraph(g), NEW W, Sound(g, W),
         NEW positions, NEW values, Apart(g, positions, values),
         NEW h, NEW order, Rearranges(h, g, order),
         \A n \in 1 .. Len(order) : order[n] \notin positions,
         \A i \in Operations(g) \ positions : \E n \in 1 .. Len(order) : order[n] = i,
         DOMAIN h.values = DOMAIN g.values \ values,
         \A v \in DOMAIN h.values : h.values[v] = g.values[v]
  PROVE  /\ Sound(h, W)
         /\ positions \cap SideEffects(g) = {} => Observable(h) = Observable(g)
<1>0. HasOperations(g) /\ HasResults(g)
  BY DEF IsGraph
<1>1. /\ HasOperations(h) /\ HasResults(h) /\ Operations(h) = 1 .. Len(order)
      /\ SideEffects(h) \subseteq 1 .. Len(order)
      /\ \A n \in 1 .. Len(order) :
           /\ order[n] \in Operations(g)
           /\ Reads(h, n) = Reads(g, order[n]) /\ Writes(h, n) = Writes(g, order[n])
           /\ n \in SideEffects(h) <=> order[n] \in SideEffects(g)
  BY <1>0, RearrangedFacts
<1>2. /\ h.outputs = g.outputs
      /\ \A n \in 1 .. Len(order) : h.ops[n] = g.ops[order[n]] /\ Output(h, n) = Output(g, order[n])
  BY DEF Rearranges, Output
<1>3. \A n \in 1 .. Len(order) : order[n] \in Operations(g) \ positions
  BY <1>1
<1>4. OperandsExist(h)
  <2> SUFFICES ASSUME NEW n \in 1 .. Len(order)
               PROVE  Reads(h, n) \cup Writes(h, n) \subseteq DOMAIN h.values
    BY <1>1 DEF OperandsExist
  <2>1. Reads(g, order[n]) \cup Writes(g, order[n]) \subseteq DOMAIN g.values
    BY <1>1 DEF Sound, OperandsExist
  <2>2. (Reads(g, order[n]) \cup Writes(g, order[n])) \cap values = {}
    BY <1>3 DEF Apart
  <2>3. QED
    BY <1>1, <2>1, <2>2
<1>5. \A n \in 1 .. Len(order) : Output(h, n) \in DOMAIN h.values
  BY <1>0, <1>1, <1>4, ResultFacts DEF OperandsExist, IsGraph
<1>6. \A v \in DOMAIN h.values : ShapeOf(h, v) = ShapeOf(g, v)
  BY DEF ShapeOf
<1>7. Ordinary(h)
  <2>1. h.outputs \subseteq DOMAIN h.values
    BY <1>2 DEF Sound, Ordinary, Apart
  <2>2. ASSUME NEW n \in 1 .. Len(order)
        PROVE  /\ h.ops[n].type = "gelu" /\ ShapeOf(h, Output(h, n)) = << >> => IsExactGelu(h.ops[n])
               /\ IsProjection(h.ops[n]) => ~Has(h.ops[n], "fused_activation")
    <3>1. ShapeOf(h, Output(h, n)) = ShapeOf(g, Output(g, order[n]))
      BY <1>2, <1>5, <1>6
    <3>2. order[n] \in Operations(g) /\ h.ops[n] = g.ops[order[n]]
      BY <1>1, <1>2
    <3>3. QED
      BY <3>1, <3>2 DEF Sound, Ordinary
  <2>3. QED
    BY <1>1, <2>1, <2>2 DEF Ordinary
<1>8. ASSUME NEW n \in 1 .. Len(order)
      PROVE  Stands(h, W, n)
  <2>1. order[n] \in Operations(g) /\ h.ops[n] = g.ops[order[n]] /\ Stands(g, W, order[n])
    BY <1>1, <1>2 DEF Sound, Solves
  <2>2. \A v \in Reads(g, order[n]) \cup Writes(g, order[n]) : v \in DOMAIN h.values
    BY <1>1, <1>4 DEF OperandsExist
  <2>3. QED
    BY <1>6, <2>1, <2>2, SameStands
<1>9. ASSUME NEW v \in DOMAIN h.values, \A n \in Operations(h) : v \notin Writes(h, n)
      PROVE  W[v] = Tensor(v, << >>, << >>)
  <2>1. ASSUME NEW i \in Operations(g), v \in Writes(g, i)
        PROVE  FALSE
    <3>1. i \notin positions
      BY <2>1 DEF Apart
    <3>2. PICK n \in 1 .. Len(order) : order[n] = i
      BY <3>1
    <3>3. QED
      BY <1>1, <1>9, <2>1, <3>2
  <2>2. QED
    BY <2>1 DEF Sound, Solves
<1>10. Sound(h, W)
  BY <1>1, <1>4, <1>7, <1>8, <1>9 DEF Sound, Solves
<1>11. ASSUME positions \cap SideEffects(g) = {}
       PROVE  Observable(h) = Observable(g)
  <2>1. \A n \in SideEffects(h) : order[n] \in SideEffects(g) /\ Output(h, n) = Output(g, order[n])
    BY <1>1, <1>2
  <2>2. ASSUME NEW i \in SideEffects(g)
        PROVE  \E n \in SideEffects(h) : Output(h, n) = Output(g, i)
    <3>1. i \in Operations(g) \ positions
      BY <1>11 DEF SideEffects
    <3>2. PICK n \in 1 .. Len(order) : order[n] = i
      BY <3>1
    <3>3. QED
      BY <1>1, <1>2, <3>2
  <2>3. QED
    BY <1>2, <2>1, <2>2 DEF Observable
<1>12. QED
  BY <1>10, <1>11

\* Erasing what is apart.
LEMMA ErasedIsSound ==
  ASSUME NEW g, IsGraph(g), NEW W, Sound(g, W),
         NEW positions, NEW values, Apart(g, positions, values)
  PROVE  LET h == Erased(g, positions, values)
         IN  /\ Sound(h, W) /\ DOMAIN h.values = DOMAIN g.values \ values
             /\ positions \cap SideEffects(g) = {} => Observable(h) = Observable(g)
<1> DEFINE h == Erased(g, positions, values)
           order == InOrder(Operations(g) \ positions)
<1>0. HasOperations(g)
  BY DEF IsGraph
<1>1. /\ Rearranges(h, g, order)
      /\ \A n \in 1 .. Len(order) : order[n] \in Operations(g) \ positions
      /\ \A i \in Operations(g) \ positions : \E n \in 1 .. Len(order) : order[n] = i
  BY <1>0, ErasedRearranges
<1>2. h.values = [ v \in DOMAIN g.values \ values |-> g.values[v] ]
  BY <1>0 DEF Erased, Reordered, HasOperations
<1> HIDE DEF h, order
<1>3. /\ DOMAIN h.values = DOMAIN g.values \ values
      /\ \A v \in DOMAIN h.values : h.values[v] = g.values[v]
  BY <1>2
<1>4. Sound(h, W) /\ (positions \cap SideEffects(g) = {} => Observable(h) = Observable(g))
  BY <1>1, <1>3, SelectionIsSound
<1>5. QED
  BY <1>3, <1>4 DEF h

\* Another order of all operations.
LEMMA ReorderedIsSound ==
  ASSUME NEW g, IsGraph(g), NEW W, Sound(g, W), NEW edges, DataEdges(g) \subseteq edges,
         NEW order, IsOrdering(g, edges, order), Len(order) = Len(g.ops)
  PROVE  LET h == Reordered(g, order)
         IN  /\ IsGraph(h) /\ Topological(h)
             /\ Sound(h, W) /\ h.values = g.values /\ Observable(h) = Observable(g)
<1> DEFINE h == Reordered(g, order)
<1>0. HasOperations(g) /\ HasResults(g) /\ Len(g.ops) \in Nat /\ Operations(g) = 1 .. Len(g.ops)
  BY PositionFacts DEF IsGraph
<1>1. IsSelection(g, order)
  BY DEF IsSelection, IsOrdering
<1>2. Rearranges(h, g, order)
  BY <1>0, <1>1, ReorderedRearranges
<1>3. h.values = g.values
  BY <1>0 DEF Reordered, HasOperations
<1> HIDE DEF h
<1>4. \A i \in Operations(g) : \E n \in 1 .. Len(order) : order[n] = i
  BY <1>0, FullOrderingIsOnto
<1>5. IsGraph(h) /\ Len(order) \in Nat
  BY <1>0, <1>2, RearrangedFacts DEF IsGraph
<1>6. ASSUME NEW m \in 1 .. Len(order), NEW n \in 1 .. Len(order),
             << order[m], order[n] >> \in DataEdges(g)
      PROVE  m < n
  <2>1. PICK k \in 1 .. n - 1 : order[k] = order[m]
    BY <1>6 DEF IsOrdering
  <2>2. k \in 1 .. Len(order) /\ k < n
    BY <1>5, <2>1
  <2>3. k = m
    BY <1>1, <2>1, <2>2 DEF IsSelection
  <2>4. QED
    BY <2>2, <2>3
<1>7. Topological(h)
  BY <1>0, <1>2, <1>6, RearrangedTopologically
<1>8. Sound(h, W) /\ Observable(h) = Observable(g)
  <2>1. Apart(g, {}, {}) /\ {} \cap SideEffects(g) = {}
    BY DEF Apart
  <2>2. /\ \A n \in 1 .. Len(order) : order[n] \notin {}
        /\ \A i \in Operations(g) \ {} : \E n \in 1 .. Len(order) : order[n] = i
        /\ DOMAIN h.values = DOMAIN g.values \ {}
        /\ \A v \in DOMAIN h.values : h.values[v] = g.values[v]
    BY <1>3, <1>4
  <2>3. QED
    BY <1>2, <2>1, <2>2, SelectionIsSound
<1>9. QED
  BY <1>3, <1>5, <1>7, <1>8 DEF h

(***************************************************************************)
(* Canonicalisation says what was meant.                                   *)
(***************************************************************************)

\* Which attributes it gives.
LEMMA CanonicalAttributesFacts ==
  ASSUME NEW g, NEW op, NEW name, name # "no_side_effect"
  PROVE  LET new      == CanonicalAttributes(g, op)
             defaults == Defaults(op.type)
             axis     == CanonicalAxis(g, op)
         IN  /\ name \in DOMAIN new <=>
                  name \in DOMAIN axis \cup DOMAIN op.attributes \cup DOMAIN defaults
             /\ name \in DOMAIN new =>
                  new[name] = IF name \in DOMAIN axis THEN axis[name]
                              ELSE IF name \in DOMAIN op.attributes THEN op.attributes[name]
                              ELSE defaults[name]
<1> DEFINE defaults == Defaults(op.type)
           axis == CanonicalAxis(g, op)
           both == With(defaults, op.attributes)
           all == With(both, axis)
           new == CanonicalAttributes(g, op)
<1>1. new = [ n \in DOMAIN all \ {"no_side_effect"} |-> all[n] ]
  BY DEF CanonicalAttributes
<1> HIDE DEF defaults, axis, new
<1>2. /\ DOMAIN both = DOMAIN defaults \cup DOMAIN op.attributes
      /\ \A n \in DOMAIN both :
           both[n] = IF n \in DOMAIN op.attributes THEN op.attributes[n] ELSE defaults[n]
  BY DEF With
<1> HIDE DEF both
<1>3. /\ DOMAIN all = DOMAIN both \cup DOMAIN axis
      /\ \A n \in DOMAIN all : all[n] = IF n \in DOMAIN axis THEN axis[n] ELSE both[n]
  BY DEF With
<1> HIDE DEF all
<1>4. /\ DOMAIN new = DOMAIN all \ {"no_side_effect"}
      /\ \A n \in DOMAIN new : new[n] = all[n]
  BY <1>1
<1>5. /\ name \in DOMAIN new <=>
           name \in DOMAIN axis \cup DOMAIN op.attributes \cup DOMAIN defaults
      /\ name \in DOMAIN new =>
           new[name] = IF name \in DOMAIN axis THEN axis[name]
                       ELSE IF name \in DOMAIN op.attributes THEN op.attributes[name]
                       ELSE defaults[name]
  BY <1>2, <1>3, <1>4
<1>6. QED
  BY <1>5 DEF defaults, axis, new

\* An operation of a graph that verifies computes the same with them.
LEMMA CanonicalStands ==
  ASSUME NEW g, IsGraph(g), HasShapes(g), Verifies(g), NEW W, NEW i \in Operations(g)
  PROVE  LET h == WithCanonicalAttributes(g)
         IN  /\ h.ops[i].type = g.ops[i].type /\ h.ops[i].inputs = g.ops[i].inputs
             /\ Stands(g, W, i) => Stands(h, W, i)
             /\ IsExactGelu(g.ops[i]) => IsExactGelu(h.ops[i])
             /\ Has(h.ops[i], "fused_activation") => Has(g.ops[i], "fused_activation")
             /\ g.ops[i].type = "transpose" /\ Has(h.ops[i], "permutation") =>
                  /\ Has(g.ops[i], "permutation")
                  /\ h.ops[i].attributes["permutation"] = g.ops[i].attributes["permutation"]
<1> DEFINE h == WithCanonicalAttributes(g)
           op == g.ops[i]
           new == h.ops[i]
           attributes == CanonicalAttributes(g, op)
<1>1. DOMAIN g.ops = 1 .. Len(g.ops) /\ Operations(g) = 1 .. Len(g.ops)
      /\ {"ops", "values", "inputs", "outputs"} \subseteq DOMAIN g
      /\ IsOperation(op)
  BY PositionFacts DEF IsGraph, HasOperations, Operations
<1>2. h.values = g.values /\ new = [ op EXCEPT !.attributes = attributes ]
  BY <1>1 DEF WithCanonicalAttributes
<1> HIDE DEF h
<1>3. /\ new.type = op.type /\ new.inputs = op.inputs /\ new.outputs = op.outputs
      /\ new.attributes = attributes
  BY <1>1, <1>2 DEF IsOperation
<1> HIDE DEF new
<1>4. ShapeAgrees(g, i) /\ DtypeAgrees(g, i)
  BY DEF Verifies
<1> DEFINE axis == CanonicalAxis(g, op)
           defaults == Defaults(op.type)
<1>5. \A name : name # "no_side_effect" =>
        /\ name \in DOMAIN attributes <=>
             name \in DOMAIN axis \cup DOMAIN op.attributes \cup DOMAIN defaults
        /\ name \in DOMAIN attributes =>
             attributes[name] = IF name \in DOMAIN axis THEN axis[name]
                                ELSE IF name \in DOMAIN op.attributes THEN op.attributes[name]
                                ELSE defaults[name]
  BY CanonicalAttributesFacts
<1>6. /\ DOMAIN axis \subseteq {"axis"}
      /\ op.type # "softmax" /\ op.type # "rms_norm" => DOMAIN axis = {}
  BY DEF CanonicalAxis
<1>7. /\ op.type = "gelu" => defaults = [ approximate |-> "none" ]
      /\ op.type = "softmax" => defaults = [ stable |-> TRUE ]
      /\ op.type = "causal_mask" => defaults = [ diagonal |-> 0 ]
      /\ op.type \notin {"gelu", "softmax", "causal_mask"} => DOMAIN defaults = {}
  BY DEF Defaults
<1> HIDE DEF attributes, op
<1>8. op.type = "constant" => new.attributes["value"] = op.attributes["value"]
  <2> SUFFICES ASSUME op.type = "constant" PROVE attributes["value"] = op.attributes["value"]
    BY <1>3
  <2>1. "value" \in DOMAIN op.attributes
    BY <1>4 DEF DtypeAgrees, ConstantAgrees, Has, op
  <2>2. "value" \notin DOMAIN axis /\ "value" # "no_side_effect"
    BY <1>6
  <2> HIDE DEF axis, defaults
  <2>3. QED
    BY <1>5, <2>1, <2>2
<1>9. Has(new, "fused_activation") <=> Has(op, "fused_activation")
  <2>1. "fused_activation" \notin DOMAIN axis /\ "fused_activation" # "no_side_effect"
    BY <1>6
  <2>2. "fused_activation" \notin DOMAIN defaults
    BY <1>7
  <2> HIDE DEF axis, defaults
  <2>3. QED
    BY <1>3, <1>5, <2>1, <2>2 DEF Has
<1>10. op.type = "gelu" =>
         Attribute(new, "approximate", "none") = Attribute(op, "approximate", "none")
  <2> SUFFICES ASSUME op.type = "gelu"
               PROVE  Attribute(new, "approximate", "none") = Attribute(op, "approximate", "none")
    OBVIOUS
  <2>1. "approximate" \notin DOMAIN axis /\ "approximate" # "no_side_effect"
    BY <1>6
  <2>2. "approximate" \in DOMAIN defaults /\ defaults["approximate"] = "none"
    BY <1>7
  <2> HIDE DEF axis, defaults
  <2>3. QED
    BY <1>3, <1>5, <2>1, <2>2 DEF Has, Attribute
<1>11. op.type = "softmax" =>
         FromEnd(new.attributes["axis"], Len(ShapeOf(h, new.inputs[1]))) =
           FromEnd(op.attributes["axis"], Len(ShapeOf(g, op.inputs[1])))
  <2> SUFFICES ASSUME op.type = "softmax"
               PROVE  FromEnd(attributes["axis"], Len(ShapeOf(g, op.inputs[1]))) =
                        FromEnd(op.attributes["axis"], Len(ShapeOf(g, op.inputs[1])))
    BY <1>2, <1>3 DEF ShapeOf
  <2> DEFINE rank == Len(ShapeOf(g, op.inputs[1]))
  <2>1. op.inputs[1] \in DOMAIN g.values /\ 1 \in DOMAIN op.inputs
    <3>1. Len(op.inputs) = 1
      BY <1>1 DEF IsOperation, op
    <3>2. op.inputs[1] \in Reads(g, i) /\ DOMAIN op.inputs = 1 .. 1
      BY <3>1, OperandFacts DEF op, IsGraph
    <3>3. QED
      BY <3>2 DEF Verifies, OperandsExist
  <2>2. rank \in Nat
    BY <2>1, SequenceFacts DEF HasShapes
  <2>3. "axis" \in DOMAIN op.attributes /\ op.attributes["axis"] \in -rank .. rank - 1
    BY <1>4, <2>1 DEF ShapeAgrees, Has, op
  <2>4. axis = IF op.attributes["axis"] < 0 THEN [ axis |-> op.attributes["axis"] + rank ]
               ELSE [ name \in {} |-> 0 ]
    BY <2>3 DEF CanonicalAxis, Has
  <2> HIDE DEF rank, axis, defaults
  <2>5. attributes["axis"] = IF op.attributes["axis"] < 0 THEN op.attributes["axis"] + rank
                             ELSE op.attributes["axis"]
    BY <1>5, <2>3, <2>4
  <2>6. FromEnd(attributes["axis"], rank) = FromEnd(op.attributes["axis"], rank)
    BY <2>2, <2>3, <2>5 DEF FromEnd
  <2>7. QED
    BY <2>6 DEF rank
<1>12. op.type = "causal_mask" => Attribute(new, "diagonal", 0) = Attribute(op, "diagonal", 0)
  <2> SUFFICES ASSUME op.type = "causal_mask"
               PROVE  Attribute(new, "diagonal", 0) = Attribute(op, "diagonal", 0)
    OBVIOUS
  <2>1. "diagonal" \notin DOMAIN axis /\ "diagonal" # "no_side_effect"
    BY <1>6
  <2>2. "diagonal" \in DOMAIN defaults /\ defaults["diagonal"] = 0
    BY <1>7
  <2> HIDE DEF axis, defaults
  <2>3. QED
    BY <1>3, <1>5, <2>1, <2>2 DEF Has, Attribute
<1>13. op.type = "transpose" =>
         /\ Has(op, "permutation")
         /\ new.attributes["permutation"] = op.attributes["permutation"]
  <2> SUFFICES ASSUME op.type = "transpose"
               PROVE  /\ "permutation" \in DOMAIN op.attributes
                      /\ attributes["permutation"] = op.attributes["permutation"]
    BY <1>3 DEF Has
  <2>1. "permutation" \in DOMAIN op.attributes
    <3>1. \E in, out : TransposeAgrees(op, in, out)
      BY <1>4 DEF ShapeAgrees, ElementwiseTypes, op
    <3>2. QED
      BY <3>1 DEF TransposeAgrees, Has
  <2>2. "permutation" \notin DOMAIN axis /\ "permutation" # "no_side_effect"
    BY <1>6
  <2> HIDE DEF axis, defaults
  <2>3. QED
    BY <1>5, <2>1, <2>2
<1>14. \A v : ShapeOf(h, v) = ShapeOf(g, v)
  BY <1>2 DEF ShapeOf
<1> HIDE DEF axis, defaults
<1>15. \A args : Denoted(h, new, args) = Denoted(g, op, args)
  BY <1>3, <1>8, <1>9, <1>10, <1>11, <1>12, <1>13, <1>14, DenotedSame
<1>16. Stands(g, W, i) => Stands(h, W, i)
  <2>1. Output(h, i) = Output(g, i) /\ Arguments(h, W, i) = Arguments(g, W, i)
    BY <1>3 DEF Output, Arguments, new, op
  <2>2. QED
    BY <1>15, <2>1 DEF Stands, new, op
<1>17. IsExactGelu(op) => IsExactGelu(new)
  BY <1>3, <1>10 DEF IsExactGelu, Attribute
<1>18. QED
  BY <1>3, <1>9, <1>13, <1>16, <1>17 DEF h, new, op

\* The order of the loader depends on the places and the ids of the operations and on who
\* reads whom.
LEMMA SameLoadOrder ==
  ASSUME NEW g, NEW h, Len(g.ops) \in Nat, Len(h.ops) = Len(g.ops),
         Operations(h) = Operations(g), DataEdges(h) = DataEdges(g),
         \A i \in Operations(g) : h.ops[i].id = g.ops[i].id
  PROVE  LoadOrder(h) = LoadOrder(g)
<1> DEFINE N == Len(g.ops)
           edges == DataEdges(g)
<1>1. PICK p : AreExtensions(g, edges, N, p) /\ LeastFirst(g, edges) = p[N]
  BY LeastFirstIsExtension
<1>2. PICK q : AreExtensions(h, edges, N, q) /\ LeastFirst(h, edges) = q[N]
  <2>1. Len(h.ops) \in Nat
    OBVIOUS
  <2> HIDE DEF edges
  <2>2. PICK q : AreExtensions(h, edges, Len(h.ops), q) /\ LeastFirst(h, edges) = q[Len(h.ops)]
    BY <2>1, LeastFirstIsExtension
  <2>3. QED
    BY <2>2
<1> HIDE DEF N, edges
<1>3. N \in Nat /\ N \in 0 .. N
  BY DEF N
<1>4. /\ p[0] = << >> /\ \A n \in 1 .. N : p[n] = Extension(g, edges, p[n - 1])
      /\ q[0] = << >> /\ \A n \in 1 .. N : q[n] = Extension(h, edges, q[n - 1])
  BY <1>1, <1>2, <1>3 DEF AreExtensions
<1>5. ASSUME NEW s
      PROVE  Extension(h, edges, s) = Extension(g, edges, s)
  <2>1. /\ Candidates(h, edges, s) = Candidates(g, edges, s)
        /\ Candidates(g, edges, s) \subseteq Operations(g)
    BY DEF Candidates
  <2>2. (CHOOSE i \in Candidates(h, edges, s) :
           \A j \in Candidates(h, edges, s) : h.ops[i].id <= h.ops[j].id)
          = CHOOSE i \in Candidates(g, edges, s) :
              \A j \in Candidates(g, edges, s) : g.ops[i].id <= g.ops[j].id
    BY <2>1
  <2>3. CASE Candidates(g, edges, s) = {}
    BY <2>1, <2>3 DEF Extension
  <2>4. CASE Candidates(g, edges, s) # {}
    <3>1. Extension(g, edges, s) =
            Append(s, CHOOSE i \in Candidates(g, edges, s) :
                        \A j \in Candidates(g, edges, s) : g.ops[i].id <= g.ops[j].id)
      BY <2>4 DEF Extension
    <3>2. Extension(h, edges, s) =
            Append(s, CHOOSE i \in Candidates(h, edges, s) :
                        \A j \in Candidates(h, edges, s) : h.ops[i].id <= h.ops[j].id)
      BY <2>1, <2>4 DEF Extension
    <3>3. QED
      BY <2>2, <3>1, <3>2
  <2>5. QED
    BY <2>3, <2>4
<1> DEFINE S == { n \in 0 .. N : q[n] = p[n] }
<1>6. S \in SUBSET (0 .. N) /\ 0 \in S /\ \A n \in 1 .. N : n - 1 \in S => n \in S
  BY <1>3, <1>4, <1>5
<1> HIDE DEF S
<1>7. N \in S
  BY <1>3, <1>6, UpTo
<1>8. QED
  BY <1>1, <1>2, <1>7 DEF S, LoadOrder, edges

\* Canonical attributes keep who reads what, and what is presumed.
LEMMA AttributesKeep ==
  ASSUME NEW g, IsGraph(g), HasShapes(g), Verifies(g), Ordinary(g)
  PROVE  LET f == WithCanonicalAttributes(g)
         IN  /\ IsGraph(f) /\ Operations(f) = Operations(g) /\ Len(f.ops) = Len(g.ops)
             /\ DataEdges(f) = DataEdges(g)
             /\ \A i \in Operations(g) :
                  /\ f.ops[i].id = g.ops[i].id
                  /\ Reads(f, i) = Reads(g, i) /\ Writes(f, i) = Writes(g, i)
             /\ f.values = g.values
             /\ OperandsExist(f) /\ Ordinary(f) /\ Observable(f) = Observable(g)
<1> DEFINE f == WithCanonicalAttributes(g)
<1>1. /\ Len(g.ops) \in Nat /\ Operations(g) = 1 .. Len(g.ops) /\ DOMAIN g.ops = 1 .. Len(g.ops)
      /\ {"ops", "values", "inputs", "outputs"} \subseteq DOMAIN g
  BY PositionFacts DEF IsGraph, HasOperations, Operations
<1>2. /\ f.inputs = g.inputs /\ f.outputs = g.outputs /\ f.values = g.values
      /\ \A i \in 1 .. Len(g.ops) :
           f.ops[i] = [ g.ops[i] EXCEPT !.attributes = CanonicalAttributes(g, g.ops[i]) ]
  BY <1>1 DEF WithCanonicalAttributes
<1>3. /\ IsGraph(f) /\ Operations(f) = Operations(g) /\ DataEdges(f) = DataEdges(g)
      /\ SideEffects(f) = SideEffects(g)
  BY AttributesFacts
<1>4. \A i \in Operations(g) :
        /\ f.ops[i].type = g.ops[i].type /\ f.ops[i].inputs = g.ops[i].inputs
        /\ IsExactGelu(g.ops[i]) => IsExactGelu(f.ops[i])
        /\ Has(f.ops[i], "fused_activation") => Has(g.ops[i], "fused_activation")
  BY CanonicalStands
<1> HIDE DEF f
<1>5. \A i \in Operations(g) :
        /\ f.ops[i].id = g.ops[i].id /\ f.ops[i].outputs = g.ops[i].outputs
        /\ f.ops[i].side_effect = g.ops[i].side_effect
  BY <1>1, <1>2 DEF IsGraph, HasOperations, IsOperation
<1>6. Len(f.ops) = Len(g.ops)
  BY <1>1, <1>3, PositionFacts DEF IsGraph
<1>7. \A i \in Operations(g) :
        /\ Reads(f, i) = Reads(g, i) /\ Writes(f, i) = Writes(g, i) /\ Output(f, i) = Output(g, i)
  BY <1>4, <1>5 DEF Reads, Writes, Output
<1>8. OperandsExist(f)
  BY <1>2, <1>3, <1>7 DEF Verifies, OperandsExist
<1>9. Ordinary(f)
  <2>1. \A v : ShapeOf(f, v) = ShapeOf(g, v)
    BY <1>2 DEF ShapeOf
  <2>2. \A i \in Operations(g) : IsProjection(f.ops[i]) => IsProjection(g.ops[i])
    BY <1>4, <1>5 DEF IsProjection
  <2>3. QED
    BY <1>2, <1>3, <1>4, <1>7, <2>1, <2>2 DEF Ordinary
<1>10. Observable(f) = Observable(g)
  <2>1. SideEffects(g) \subseteq Operations(g)
    BY DEF SideEffects
  <2>2. QED
    BY <1>2, <1>3, <1>7, <2>1 DEF Observable
<1>11. QED
  BY <1>2, <1>3, <1>5, <1>6, <1>7, <1>8, <1>9, <1>10 DEF f

\* So the meaning is the same, also of a graph that has no order.
LEMMA AttributesMeanTheSame ==
  ASSUME NEW g, IsGraph(g), HasShapes(g), Verifies(g), Ordinary(g)
  PROVE  LET f == WithCanonicalAttributes(g)
         IN  SameMeaning(f, g)
<1> DEFINE f == WithCanonicalAttributes(g)
           order == LoadOrder(g)
<1>1. /\ IsGraph(f) /\ Operations(f) = Operations(g) /\ Len(f.ops) = Len(g.ops)
      /\ DataEdges(f) = DataEdges(g) /\ f.values = g.values /\ OperandsExist(f)
      /\ \A i \in Operations(g) : f.ops[i].id = g.ops[i].id /\ Writes(f, i) = Writes(g, i)
  BY AttributesKeep
<1>2. \A W : \A i \in Operations(g) : Stands(g, W, i) => Stands(f, W, i)
  BY CanonicalStands
<1> HIDE DEF f
<1>3. LoadOrder(f) = order
  <2>1. Len(g.ops) \in Nat
    BY PositionFacts DEF IsGraph
  <2>2. QED
    BY <1>1, <2>1, SameLoadOrder
<1>4. Satisfies(g, Denotation(g))
  BY DenotationSatisfies DEF Verifies
<1>5. \A n \in 1 .. Len(order) : order[n] \in Operations(g)
  BY LoadOrderFacts
<1>6. Satisfies(f, Denotation(g))
  BY <1>1, <1>2, <1>3, <1>4, <1>5 DEF Satisfies
<1>7. \A v \in DOMAIN f.values : Denotation(f)[v] = Denotation(g)[v]
  BY <1>1, <1>6, DenotationIsUnique
<1>8. QED
  BY <1>1, <1>7 DEF SameMeaning, f

\* And whatever the graph computes, it computes afterwards.
LEMMA AttributesAreSound ==
  ASSUME NEW g, IsGraph(g), HasShapes(g), Verifies(g), NEW W, Sound(g, W)
  PROVE  Sound(WithCanonicalAttributes(g), W)
<1> DEFINE f == WithCanonicalAttributes(g)
<1>1. /\ Operations(f) = Operations(g) /\ f.values = g.values
      /\ OperandsExist(f) /\ Ordinary(f)
      /\ \A i \in Operations(g) : Writes(f, i) = Writes(g, i)
  BY AttributesKeep DEF Sound
<1>2. \A i \in Operations(g) : Stands(g, W, i) => Stands(f, W, i)
  BY CanonicalStands
<1> HIDE DEF f
<1>3. Solves(f, W)
  BY <1>1, <1>2 DEF Sound, Solves
<1>4. QED
  BY <1>1, <1>3 DEF Sound, f

\* A whole canonicalisation.
LEMMA CanonicaliseIsSound ==
  ASSUME NEW g, IsGraph(g), HasShapes(g), Verifies(g), NEW W, Sound(g, W),
         Len(StableOrder(g)) = Len(g.ops)
  PROVE  LET h == Canonicalise(g)
         IN  /\ IsGraph(h) /\ Topological(h) /\ Sound(h, W)
             /\ h.values = g.values /\ Observable(h) = Observable(g)
<1> DEFINE f == WithCanonicalAttributes(g)
           h == Canonicalise(g)
           order == StableOrder(g)
           edges == DataEdges(g) \cup SideEffectEdges(g)
<1>1. /\ IsGraph(f) /\ Operations(f) = Operations(g) /\ Len(f.ops) = Len(g.ops)
      /\ DataEdges(f) = DataEdges(g) /\ f.values = g.values /\ Observable(f) = Observable(g)
  BY AttributesKeep DEF Sound
<1>2. Sound(f, W)
  BY AttributesAreSound
<1>3. IsOrdering(g, edges, order)
  BY PositionFacts, LeastFirstIsOrdering DEF StableOrder, IsGraph, HasOperations, IsOperation
<1>4. h = Reordered(f, order)
  BY DEF Canonicalise
<1>5. Len(order) = Len(g.ops) /\ DataEdges(g) \subseteq edges
  OBVIOUS
<1> HIDE DEF f, h, order, edges
<1>6. IsOrdering(f, edges, order)
  BY <1>1, <1>3 DEF IsOrdering
<1>7. LET r == Reordered(f, order)
      IN  /\ IsGraph(r) /\ Topological(r)
          /\ Sound(r, W) /\ r.values = f.values /\ Observable(r) = Observable(f)
  BY <1>1, <1>2, <1>5, <1>6, ReorderedIsSound
<1>8. QED
  BY <1>1, <1>4, <1>7 DEF h

(***************************************************************************)
(* The loops put one operation for another that computes the same.         *)
(***************************************************************************)

\* Folding keeps shapes and dtypes.
LEMMA FoldKeepsShapes ==
  ASSUME NEW g, IsGraph(g), HasShapes(g), NEW n \in Operations(g), Foldable(g, n)
  PROVE  LET h == FoldedAt(g, n)
         IN  /\ HasShapes(h) /\ DOMAIN h.values = DOMAIN g.values
             /\ \A v \in DOMAIN g.values :
                  ShapeOf(h, v) = ShapeOf(g, v) /\ DtypeOf(h, v) = DtypeOf(g, v)
<1> DEFINE h == FoldedAt(g, n)
<1>1. /\ Follows(h, g)
      /\ \A i \in Operations(g) \ {n} : h.ops[i] = g.ops[i]
      /\ h.ops[n].type = "constant"
      /\ DOMAIN h.values = DOMAIN g.values
  BY FoldKeeps, FoldChanges
<1>2. h.values = [ g.values EXCEPT ![Output(g, n)].kind = KindOfFolded(g, Output(g, n)) ]
  BY DEF FoldedAt, IsGraph, HasOperations
<1>3. Output(g, n) \in DOMAIN g.values
  BY DEF Foldable
<1> HIDE DEF h
<1>4. ASSUME NEW v \in DOMAIN g.values
      PROVE  /\ {"shape", "dtype"} \subseteq DOMAIN h.values[v]
             /\ h.values[v].shape = g.values[v].shape /\ h.values[v].dtype = g.values[v].dtype
  <2>1. {"shape", "dtype"} \subseteq DOMAIN g.values[v]
    BY DEF HasShapes
  <2>2. CASE v # Output(g, n)
    BY <1>2, <2>1, <2>2
  <2>3. CASE v = Output(g, n)
    <3>1. h.values[v] = [ g.values[v] EXCEPT !.kind = KindOfFolded(g, v) ]
      BY <1>2, <1>3, <2>3
    <3>2. QED
      BY <2>1, <3>1
  <2>4. QED
    BY <2>2, <2>3
<1>5. \A v \in DOMAIN g.values :
        ShapeOf(h, v) = ShapeOf(g, v) /\ DtypeOf(h, v) = DtypeOf(g, v)
  BY <1>4 DEF ShapeOf, DtypeOf
<1>6. Operations(h) = Operations(g)
  BY <1>1, FollowsFacts
<1>7. HasShapes(h)
  <2>1. \A v \in DOMAIN h.values :
          /\ {"shape", "dtype"} \subseteq DOMAIN h.values[v]
          /\ IsSequence(ShapeOf(h, v))
          /\ \A k \in DOMAIN ShapeOf(h, v) : ShapeOf(h, v)[k] \in Nat \ {0}
    BY <1>1, <1>4, <1>5 DEF HasShapes
  <2>2. \A i \in Operations(h) : h.ops[i].type = "transpose" => h.ops[i] = g.ops[i]
    BY <1>1, <1>6
  <2>3. QED
    BY <1>6, <2>1, <2>2 DEF HasShapes
<1>8. QED
  BY <1>1, <1>5, <1>7 DEF h

\* A constant has the value that is computed of the constants that were read.
LEMMA FoldIsSound ==
  ASSUME NEW g, IsGraph(g), HasShapes(g), NEW W, Sound(g, W),
         NEW n \in Operations(g), Foldable(g, n)
  PROVE  Sound(FoldedAt(g, n), W)
<1> DEFINE h == FoldedAt(g, n)
           op == g.ops[n]
           args == Arguments(g, W, n)
           folded == Tensors(Operands(g, op))
<1>0. /\ DOMAIN g.ops = 1 .. Len(g.ops) /\ Operations(g) = 1 .. Len(g.ops)
      /\ {"ops", "values", "inputs", "outputs"} \subseteq DOMAIN g /\ IsOperation(op)
  BY PositionFacts DEF IsGraph, HasOperations, Operations
<1>1. /\ Follows(h, g)
      /\ \A i \in Operations(g) \ {n} : h.ops[i] = g.ops[i]
      /\ h.ops[n].type = "constant" /\ Reads(h, n) = {}
      /\ DOMAIN h.values = DOMAIN g.values
  BY FoldKeeps, FoldChanges
<1>2. \A v \in DOMAIN g.values : ShapeOf(h, v) = ShapeOf(g, v)
  BY FoldKeepsShapes
<1>3. h.ops[n].attributes["value"].tensor = Computed(op.type, folded)
  BY <1>0 DEF FoldedAt, IsOperation
<1> HIDE DEF h
<1>4. /\ Operations(h) = Operations(g) /\ h.outputs = g.outputs
      /\ \A i \in Operations(g) : Writes(h, i) = Writes(g, i) /\ Output(h, i) = Output(g, i)
  BY <1>1, FollowsFacts
<1>5. \A i \in Operations(g) : Reads(g, i) \cup Writes(g, i) \subseteq DOMAIN g.values
  BY DEF Sound, OperandsExist
<1>6. \A i \in Operations(g) : Output(g, i) \in DOMAIN g.values
  BY <1>5, ResultFacts
<1>7. OperandsExist(h)
  <2> SUFFICES ASSUME NEW i \in Operations(g)
               PROVE  Reads(h, i) \cup Writes(h, i) \subseteq DOMAIN g.values
    BY <1>1, <1>4 DEF OperandsExist
  <2>1. i # n => Reads(h, i) = Reads(g, i)
    BY <1>1 DEF Reads
  <2>2. QED
    BY <1>1, <1>4, <1>5, <2>1
<1>8. Ordinary(h)
  <2>1. \A i \in Operations(g) : ShapeOf(h, Output(h, i)) = ShapeOf(g, Output(g, i))
    BY <1>2, <1>4, <1>6
  <2>2. ~IsProjection(h.ops[n])
    BY <1>1 DEF IsProjection
  <2>3. QED
    BY <1>1, <1>4, <2>1, <2>2 DEF Sound, Ordinary
<1>9. ASSUME NEW k \in DOMAIN op.inputs
      PROVE  args[k] = ConstantAt(g, op.inputs[k]).tensor
  <2>1. op.inputs[k] \in Reads(g, n)
    BY DEF Reads, Elements
  <2>2. PICK i \in Producers(g, op.inputs[k]) : g.ops[i].type = "constant"
    BY <2>1 DEF Foldable, IsScalarConstant, OpType
  <2>3. i \in Operations(g) /\ op.inputs[k] \in Writes(g, i)
    BY DEF Producers
  <2>4. Producer(g, op.inputs[k]) = i /\ op.inputs[k] = Output(g, i)
    BY <2>3, ResultFacts
  <2>5. W[Output(g, i)] = Denoted(g, g.ops[i], Arguments(g, W, i))
    BY <2>3 DEF Sound, Solves, Stands
  <2>6. Denoted(g, g.ops[i], Arguments(g, W, i)) = g.ops[i].attributes["value"].tensor
    BY <2>2 DEF Denoted
  <2>7. args[k] = W[op.inputs[k]]
    BY DEF Arguments
  <2>8. QED
    BY <2>4, <2>5, <2>6, <2>7 DEF ConstantAt
<1>10. args = folded
  <2>1. args = [ k \in DOMAIN op.inputs |-> args[k] ]
    BY DEF Arguments
  <2>2. folded = [ k \in DOMAIN op.inputs |-> ConstantAt(g, op.inputs[k]).tensor ]
    BY DEF Tensors, Operands
  <2> HIDE DEF args, folded, op
  <2>3. QED
    BY <1>9, <2>1, <2>2
<1>11. W[Output(g, n)] = Computed(op.type, args)
  <2>1. W[Output(g, n)] = Denoted(g, op, args)
    BY DEF Sound, Solves, Stands
  <2>2. op.type \in {"add", "multiply", "divide", "gelu"} /\ ShapeOf(g, Output(g, n)) = << >>
    BY DEF Foldable
  <2>3. CASE op.type \in {"add", "multiply", "divide"}
    <3>1. Denoted(g, op, args) = Computed(op.type, args)
      BY <2>3 DEF Denoted
    <3>2. QED
      BY <2>1, <3>1
  <2>4. CASE op.type = "gelu"
    <3>1. IsExactGelu(op)
      BY <2>2, <2>4 DEF Sound, Ordinary
    <3>2. Attribute(op, "approximate", "none") = "none"
      BY <3>1 DEF IsExactGelu, Attribute
    <3> HIDE DEF op, args
    <3>3. Denoted(g, op, args) = Tensor("gelu", args, << >>)
      BY <2>4, <3>2 DEF Denoted
    <3>4. Computed("gelu", args) = Tensor("gelu", args, << >>)
      BY DEF Computed
    <3>5. QED
      BY <2>1, <2>4, <3>3, <3>4
  <2>5. QED
    BY <2>2, <2>3, <2>4
<1> HIDE DEF args, folded, op
<1>12. Stands(h, W, n)
  <2>1. Denoted(h, h.ops[n], Arguments(h, W, n)) = h.ops[n].attributes["value"].tensor
    BY <1>1 DEF Denoted
  <2>2. QED
    BY <1>3, <1>4, <1>10, <1>11, <2>1 DEF Stands
<1>13. \A i \in Operations(g) \ {n} : Stands(h, W, i)
  <2> SUFFICES ASSUME NEW i \in Operations(g) \ {n} PROVE Stands(h, W, i)
    OBVIOUS
  <2>1. Stands(g, W, i) /\ h.ops[i] = g.ops[i]
    BY <1>1 DEF Sound, Solves
  <2>2. \A v \in Reads(g, i) \cup Writes(g, i) : ShapeOf(h, v) = ShapeOf(g, v)
    BY <1>2, <1>5
  <2>3. QED
    BY <2>1, <2>2, SameStands
<1>14. Solves(h, W)
  BY <1>1, <1>4, <1>12, <1>13 DEF Sound, Solves
<1>15. QED
  BY <1>7, <1>8, <1>14 DEF Sound, h

\* a may be read for b.
MayStandFor(g, W, a, b) ==
  a \in DOMAIN g.values /\ W[a] = W[b] /\ ShapeOf(g, a) = ShapeOf(g, b)

\* h has the operations of g; their operands may stand for those they have in g.
OtherOperands(h, g, W) ==
  /\ Follows(h, g) /\ h.values = g.values
  /\ \A i \in Operations(g) :
       /\ h.ops[i].type = g.ops[i].type /\ h.ops[i].attributes = g.ops[i].attributes
       /\ DOMAIN h.ops[i].inputs = DOMAIN g.ops[i].inputs
       /\ \A k \in DOMAIN g.ops[i].inputs :
            MayStandFor(g, W, h.ops[i].inputs[k], g.ops[i].inputs[k])

\* Then it computes the same.
LEMMA OtherOperandsAreSound ==
  ASSUME NEW g, IsGraph(g), NEW W, Sound(g, W), NEW h, OtherOperands(h, g, W)
  PROVE  Sound(h, W)
<1>1. /\ IsGraph(h) /\ Operations(h) = Operations(g) /\ h.outputs = g.outputs
      /\ \A i \in Operations(g) : Writes(h, i) = Writes(g, i) /\ Output(h, i) = Output(g, i)
  BY FollowsFacts DEF OtherOperands
<1>2. /\ h.values = g.values
      /\ \A i \in Operations(g) :
           /\ h.ops[i].type = g.ops[i].type /\ h.ops[i].attributes = g.ops[i].attributes
           /\ DOMAIN h.ops[i].inputs = DOMAIN g.ops[i].inputs
           /\ \A k \in DOMAIN g.ops[i].inputs :
                MayStandFor(g, W, h.ops[i].inputs[k], g.ops[i].inputs[k])
  BY DEF OtherOperands
<1>3. /\ Len(g.ops) \in Nat /\ Operations(g) = 1 .. Len(g.ops)
      /\ \A i \in Operations(g) :
           h.ops[i].outputs = g.ops[i].outputs /\ h.ops[i].side_effect = g.ops[i].side_effect
  BY PositionFacts DEF OtherOperands, Follows, IsGraph
<1>4. \A i \in Operations(g) : Reads(g, i) \cup Writes(g, i) \subseteq DOMAIN g.values
  BY DEF Sound, OperandsExist
<1>5. \A v : ShapeOf(h, v) = ShapeOf(g, v)
  BY <1>2 DEF ShapeOf
<1>6. OperandsExist(h)
  <2> SUFFICES ASSUME NEW i \in Operations(g)
               PROVE  Reads(h, i) \cup Writes(h, i) \subseteq DOMAIN h.values
    BY <1>1 DEF OperandsExist
  <2>1. \A k \in DOMAIN h.ops[i].inputs : h.ops[i].inputs[k] \in DOMAIN g.values
    BY <1>2 DEF MayStandFor
  <2>2. Reads(h, i) \subseteq DOMAIN g.values
    BY <2>1 DEF Reads, Elements
  <2>3. QED
    BY <1>1, <1>2, <1>4, <2>2
<1>7. Ordinary(h)
  <2>1. ASSUME NEW i \in Operations(g)
        PROVE  /\ IsExactGelu(g.ops[i]) => IsExactGelu(h.ops[i])
               /\ IsProjection(h.ops[i]) => IsProjection(g.ops[i])
               /\ Has(h.ops[i], "fused_activation") <=> Has(g.ops[i], "fused_activation")
    <3>1. Len(h.ops[i].inputs) = Len(g.ops[i].inputs)
      <4>1. /\ DOMAIN h.ops[i].inputs = 1 .. Len(h.ops[i].inputs) /\ Len(h.ops[i].inputs) \in Nat
            /\ DOMAIN g.ops[i].inputs = 1 .. Len(g.ops[i].inputs) /\ Len(g.ops[i].inputs) \in Nat
        BY <1>1, OperandFacts DEF IsGraph
      <4>2. QED
        BY <1>2, <4>1
    <3>2. QED
      BY <1>2, <1>3, <3>1 DEF IsExactGelu, IsProjection, Has
  <2>2. QED
    BY <1>1, <1>2, <1>5, <2>1 DEF Sound, Ordinary
<1>8. ASSUME NEW i \in Operations(g)
      PROVE  Stands(h, W, i)
  <2> DEFINE op == g.ops[i]
             new == h.ops[i]
             args == Arguments(g, W, i)
  <2>1. /\ new.type = op.type /\ new.attributes = op.attributes /\ new.outputs = op.outputs
        /\ DOMAIN new.inputs = DOMAIN op.inputs
        /\ \A k \in DOMAIN op.inputs : /\ W[new.inputs[k]] = W[op.inputs[k]]
                                       /\ ShapeOf(g, new.inputs[k]) = ShapeOf(g, op.inputs[k])
    BY <1>2, <1>3 DEF MayStandFor
  <2>2. Arguments(h, W, i) = args
    BY <2>1 DEF Arguments
  <2>3. op.type \in {"softmax", "reshape", "transpose"} => 1 \in DOMAIN op.inputs
    <3>1. Len(op.inputs) = 1 => 1 \in DOMAIN op.inputs
      BY OperandFacts DEF IsGraph
    <3>2. QED
      BY <3>1 DEF IsGraph, HasOperations, IsOperation
  <2>4. op.type \in {"softmax", "reshape", "transpose"} =>
          ShapeOf(h, new.inputs[1]) = ShapeOf(g, op.inputs[1])
    BY <1>5, <2>1, <2>3
  <2>5. W[Output(g, i)] = Denoted(g, op, args)
    BY DEF Sound, Solves, Stands
  <2> HIDE DEF args, op, new
  <2>6. Denoted(h, new, args) = Denoted(g, op, args)
    BY <1>5, <2>1, <2>4, DenotedSame DEF Has, Attribute
  <2>7. QED
    BY <1>1, <2>2, <2>5, <2>6 DEF Stands, new
<1>9. Solves(h, W)
  BY <1>1, <1>2, <1>8 DEF Sound, Solves
<1>10. QED
  BY <1>6, <1>7, <1>9 DEF Sound

\* A reshape or a transpose that is eliminated has the shape of its operand, and moves no
\* element.
LEMMA EliminatedKeepsShape ==
  ASSUME NEW g, IsGraph(g), HasShapes(g), Verifies(g), NEW W,
         NEW f, OtherOperands(f, g, W), NEW n \in Operations(g),
         RedundantReshape(f, n) \/ RedundantTranspose(f, n)
  PROVE  LET op == g.ops[n]
             b  == op.inputs[1]
         IN  /\ 1 \in DOMAIN op.inputs
             /\ MayStandFor(g, W, f.ops[n].inputs[1], b)
             /\ ShapeOf(g, b) = ShapeOf(g, op.outputs[1])
             /\ \/ op.type = "reshape"
                \/ /\ op.type = "transpose"
                   /\ op.attributes["permutation"] = [ k \in 1 .. Len(ShapeOf(g, b)) |-> k - 1 ]
<1> DEFINE op == g.ops[n]
           from == op.outputs[1]
           to == f.ops[n].inputs[1]
           b == op.inputs[1]
           rank == Len(ShapeOf(g, b))
<1>1. /\ f.values = g.values /\ f.ops[n].type = op.type /\ f.ops[n].attributes = op.attributes
      /\ Output(f, n) = from
      /\ \A k \in DOMAIN op.inputs : MayStandFor(g, W, f.ops[n].inputs[k], op.inputs[k])
  BY FollowsFacts DEF OtherOperands, Output
<1>2. op.type \in {"reshape", "transpose"}
  BY <1>1 DEF RedundantReshape, RedundantTranspose, Removable, OpType
<1>3. 1 \in DOMAIN op.inputs /\ b \in DOMAIN g.values
  <2>1. Len(op.inputs) = 1
    BY <1>2 DEF IsGraph, HasOperations, IsOperation
  <2>2. 1 \in DOMAIN op.inputs
    BY <2>1, OperandFacts DEF IsGraph
  <2>3. b \in Reads(g, n)
    BY <2>2 DEF Reads, Elements
  <2>4. QED
    BY <2>2, <2>3 DEF Verifies, OperandsExist
<1>4. MayStandFor(g, W, to, b)
  BY <1>1, <1>3
<1>5. CASE RedundantReshape(f, n)
  <2>1. ShapeOf(g, to) = ShapeOf(g, from) /\ op.type = "reshape"
    BY <1>1, <1>5 DEF RedundantReshape, Removable, OpType, ShapeOf
  <2>2. ShapeOf(g, b) = ShapeOf(g, from)
    BY <1>4, <2>1 DEF MayStandFor
  <2>3. QED
    BY <1>3, <1>4, <2>1, <2>2
<1>6. CASE RedundantTranspose(f, n)
  <2> DEFINE permutation == op.attributes["permutation"]
  <2>1. op.type = "transpose" /\ Has(op, "permutation") /\ IsIdentity(permutation)
    BY <1>1, <1>6 DEF RedundantTranspose, Removable, OpType, Has
  <2>2. IsSequence(permutation) /\ IsSequence(ShapeOf(g, b))
    BY <1>3, <2>1 DEF HasShapes
  <2>3. /\ Len(permutation) = rank
        /\ ShapeOf(g, from) = [ k \in DOMAIN permutation |-> ShapeOf(g, b)[permutation[k] + 1] ]
    <3> DEFINE in == [ k \in DOMAIN op.inputs |-> ShapeOf(g, op.inputs[k]) ]
    <3>1. TransposeAgrees(op, in, ShapeOf(g, from))
      BY <2>1 DEF Verifies, ShapeAgrees, ElementwiseTypes
    <3>2. in[1] = ShapeOf(g, b)
      BY <1>3
    <3> HIDE DEF in
    <3>3. QED
      BY <3>1, <3>2 DEF TransposeAgrees
  <2> HIDE DEF permutation, op, from, b, to, rank
  <2>4. /\ rank \in Nat /\ DOMAIN permutation = 1 .. rank /\ DOMAIN ShapeOf(g, b) = 1 .. rank
        /\ permutation = [ k \in 1 .. rank |-> permutation[k] ]
        /\ ShapeOf(g, b) = [ k \in 1 .. rank |-> ShapeOf(g, b)[k] ]
    <3>1. \A s : IsSequence(s) => s = [ k \in DOMAIN s |-> s[k] ]
      BY DEF IsSequence
    <3>2. /\ DOMAIN permutation = 1 .. Len(permutation)
          /\ DOMAIN ShapeOf(g, b) = 1 .. Len(ShapeOf(g, b)) /\ Len(ShapeOf(g, b)) \in Nat
      BY <2>2, SequenceFacts
    <3>3. QED
      BY <2>2, <2>3, <3>1, <3>2 DEF rank
  <2>5. \A k \in 1 .. rank : permutation[k] = k - 1
    BY <2>1, <2>4 DEF IsIdentity
  <2>6. permutation = [ k \in 1 .. rank |-> k - 1 ]
    BY <2>4, <2>5
  <2>7. ShapeOf(g, from) = ShapeOf(g, b)
    <3>1. \A k \in 1 .. rank : permutation[k] + 1 = k
      BY <2>4, <2>5
    <3>2. [ k \in 1 .. rank |-> ShapeOf(g, b)[permutation[k] + 1] ]
            = [ k \in 1 .. rank |-> ShapeOf(g, b)[k] ]
      BY <3>1
    <3>3. QED
      BY <2>3, <2>4, <3>2
  <2>8. QED
    BY <1>3, <1>4, <2>1, <2>6, <2>7 DEF permutation, rank, b, op, from, to
<1>7. QED
  BY <1>5, <1>6

\* So its operand may stand for its result.
LEMMA OperandStandsForResult ==
  ASSUME NEW g, IsGraph(g), HasShapes(g), Verifies(g), NEW W, Sound(g, W),
         NEW f, OtherOperands(f, g, W), NEW n \in Operations(g),
         RedundantReshape(f, n) \/ RedundantTranspose(f, n)
  PROVE  MayStandFor(g, W, f.ops[n].inputs[1], Output(g, n))
<1> DEFINE op == g.ops[n]
           b == op.inputs[1]
           args == Arguments(g, W, n)
<1>1. /\ 1 \in DOMAIN op.inputs
      /\ MayStandFor(g, W, f.ops[n].inputs[1], b)
      /\ ShapeOf(g, b) = ShapeOf(g, op.outputs[1])
      /\ \/ op.type = "reshape"
         \/ /\ op.type = "transpose"
            /\ op.attributes["permutation"] = [ k \in 1 .. Len(ShapeOf(g, b)) |-> k - 1 ]
  BY EliminatedKeepsShape
<1>2. W[op.outputs[1]] = Denoted(g, op, args) /\ args[1] = W[b]
  BY <1>1 DEF Sound, Solves, Stands, Arguments, Output
<1> HIDE DEF op, args
<1>3. Denoted(g, op, args) = args[1]
  BY <1>1 DEF Denoted
<1>4. QED
  BY <1>1, <1>2, <1>3 DEF MayStandFor, Output, op

\* So replacing all uses of the result keeps what every operation is given.
LEMMA ReplacementStands ==
  ASSUME NEW g, IsGraph(g), NEW W, NEW f, OtherOperands(f, g, W),
         NEW n \in Operations(g), Len(f.ops[n].inputs) = 1,
         MayStandFor(g, W, f.ops[n].inputs[1], Output(g, n))
  PROVE  OtherOperands(ReplaceAllUses(f, Output(g, n), f.ops[n].inputs[1]), g, W)
<1> DEFINE from == Output(g, n)
           to == f.ops[n].inputs[1]
           h == ReplaceAllUses(f, from, to)
<1>1. /\ IsGraph(f) /\ Operations(f) = Operations(g) /\ Output(f, n) = from
      /\ f.values = g.values
  BY FollowsFacts DEF OtherOperands
<1>2. Follows(h, g)
  <2>1. Follows(ReplaceAllUses(f, Output(f, n), f.ops[n].inputs[1]), f)
    BY <1>1, ReplacementKeeps
  <2>2. Follows(h, f) /\ Follows(f, g)
    BY <1>1, <2>1 DEF OtherOperands
  <2> HIDE DEF h
  <2>3. QED
    BY <2>2, FollowsIsTransitive
<1>3. /\ DOMAIN f.ops = 1 .. Len(f.ops) /\ Operations(f) = 1 .. Len(f.ops)
      /\ {"ops", "values", "inputs", "outputs"} \subseteq DOMAIN f
      /\ \A i \in Operations(f) : IsOperation(f.ops[i])
  BY <1>1, PositionFacts DEF IsGraph, HasOperations, Operations
<1> HIDE DEF from, to
<1>4. /\ h.values = f.values
      /\ \A i \in Operations(g) :
           h.ops[i] = [ f.ops[i] EXCEPT !.inputs =
                          [ k \in DOMAIN f.ops[i].inputs |->
                              IF f.ops[i].inputs[k] = from THEN to ELSE f.ops[i].inputs[k] ] ]
  BY <1>1, <1>3 DEF ReplaceAllUses
<1> HIDE DEF h
<1>5. \A i \in Operations(g) :
        /\ h.ops[i].type = f.ops[i].type /\ h.ops[i].attributes = f.ops[i].attributes
        /\ h.ops[i].inputs = [ k \in DOMAIN f.ops[i].inputs |->
                                 IF f.ops[i].inputs[k] = from THEN to ELSE f.ops[i].inputs[k] ]
  BY <1>1, <1>3, <1>4 DEF IsOperation
<1>6. ASSUME NEW i \in Operations(g)
      PROVE  /\ h.ops[i].type = g.ops[i].type /\ h.ops[i].attributes = g.ops[i].attributes
             /\ DOMAIN h.ops[i].inputs = DOMAIN g.ops[i].inputs
             /\ \A k \in DOMAIN g.ops[i].inputs :
                  MayStandFor(g, W, h.ops[i].inputs[k], g.ops[i].inputs[k])
  <2>1. /\ f.ops[i].type = g.ops[i].type /\ f.ops[i].attributes = g.ops[i].attributes
        /\ DOMAIN f.ops[i].inputs = DOMAIN g.ops[i].inputs
        /\ \A k \in DOMAIN g.ops[i].inputs :
             MayStandFor(g, W, f.ops[i].inputs[k], g.ops[i].inputs[k])
    BY DEF OtherOperands
  <2>2. \A k \in DOMAIN g.ops[i].inputs :
          h.ops[i].inputs[k] = IF f.ops[i].inputs[k] = from THEN to ELSE f.ops[i].inputs[k]
    BY <1>5, <2>1
  <2>3. MayStandFor(g, W, to, from)
    BY DEF from, to
  <2>4. \A k \in DOMAIN g.ops[i].inputs :
          MayStandFor(g, W, h.ops[i].inputs[k], g.ops[i].inputs[k])
    BY <2>1, <2>2, <2>3 DEF MayStandFor
  <2>5. QED
    BY <1>5, <2>1, <2>4
<1>7. QED
  BY <1>1, <1>2, <1>4, <1>6 DEF OtherOperands, h, from, to

\* A tensor that is computed of one argument, however it is given.
LEMMA OneArgument ==
  ASSUME NEW type, type \notin {"add", "multiply"}, NEW args, DOMAIN args = 1 .. 1
  PROVE  Tensor(type, args, << >>) = Tensor(type, << args[1] >>, << >>)
<1>1. \A k : k \in 1 .. 1 <=> k = 1
  OBVIOUS
<1>2. { << IF type \in {"add", "multiply"} THEN 0 ELSE k, args[k] >> : k \in DOMAIN args }
        = { << 1, args[1] >> }
  BY <1>1
<1> DEFINE one == << args[1] >>
<1>3. DOMAIN one = 1 .. 1 /\ one[1] = args[1]
  OBVIOUS
<1> HIDE DEF one
<1>4. { << IF type \in {"add", "multiply"} THEN 0 ELSE k, one[k] >> : k \in DOMAIN one }
        = { << 1, args[1] >> }
  BY <1>1, <1>3
<1>5. QED
  BY <1>2, <1>4 DEF Tensor, one

\* A sum of which one part is no literal is the same in the other order.
LEMMA SumOfTwo ==
  ASSUME NEW args, DOMAIN args = 1 .. 2, NEW k \in {1, 2}, ~IsLiteral(args[k])
  PROVE  Computed("add", args) = Computed("add", << args[k], args[3 - k] >>)
<1> DEFINE other == << args[k], args[3 - k] >>
<1>1. /\ DOMAIN other = 1 .. 2 /\ other[1] = args[k] /\ other[2] = args[3 - k]
      /\ \A j : j \in 1 .. 2 <=> j = 1 \/ j = 2
  OBVIOUS
<1> HIDE DEF other
<1>2. Computed("add", args) = Tensor("add", args, << >>)
  BY <1>1 DEF Computed
<1>3. Computed("add", other) = Tensor("add", other, << >>)
  BY <1>1 DEF Computed
<1>4. \A a : DOMAIN a = 1 .. 2 =>
        { << IF "add" \in {"add", "multiply"} THEN 0 ELSE j, a[j] >> : j \in DOMAIN a }
          = { << 0, a[1] >>, << 0, a[2] >> }
  BY <1>1
<1>5. { << 0, args[1] >>, << 0, args[2] >> } = { << 0, other[1] >>, << 0, other[2] >> }
  BY <1>1
<1>6. Tensor("add", args, << >>) = Tensor("add", other, << >>)
  BY <1>1, <1>4, <1>5 DEF Tensor
<1>7. QED
  BY <1>2, <1>3, <1>6 DEF other

\* What the fused operation is.
LEMMA FusedOperation ==
  ASSUME NEW g, IsGraph(g), NEW n \in Operations(g), NEW first, Fuses(first, g, n)
  PROVE  LET new  == FusedAt(g, n).ops[n]
             base == g.ops[Fusion(g, n).base]
         IN  /\ new.inputs = Append(base.inputs, Fusion(g, n).bias)
             /\ Has(new, "fused_activation")
             /\ DOMAIN new.inputs = 1 .. 3
             /\ new.inputs[1] = base.inputs[1] /\ new.inputs[2] = base.inputs[2]
             /\ new.inputs[3] = Fusion(g, n).bias
<1> DEFINE h == FusedAt(g, n)
           b == Fusion(g, n).base
           v == Fusion(g, n).bias
<1>0. DOMAIN g.ops = 1 .. Len(g.ops) /\ Operations(g) = 1 .. Len(g.ops)
  BY PositionFacts DEF IsGraph, Operations
<1>1. {"ops", "values", "inputs", "outputs"} \subseteq DOMAIN g /\ IsOperation(g.ops[n])
  BY DEF IsGraph, HasOperations
<1>2. h.ops[n].inputs = Append(g.ops[b].inputs, v)
  BY <1>0, <1>1 DEF FusedAt, IsOperation
<1>3. h.ops[n].attributes =
        With(g.ops[b].attributes, [ bias |-> TRUE, fused_activation |-> "GELU" ])
  BY <1>0, <1>1 DEF FusedAt, IsOperation
<1> HIDE DEF h
<1>4. b \in Operations(g) /\ IsProjection(g.ops[b])
  BY FusionParts
<1> HIDE DEF b, v
<1>5. Has(h.ops[n], "fused_activation")
  BY <1>3 DEF Has, With
<1>6. IsSequence(g.ops[b].inputs) /\ Len(g.ops[b].inputs) = 2
  BY <1>4 DEF IsGraph, HasOperations, IsOperation, IsProjection
<1>7. PICK s : s = g.ops[b].inputs
  OBVIOUS
<1>8. IsSequence(s) /\ Len(s) = 2
  BY <1>6, <1>7
<1>9. PICK t : t = Append(s, v)
  OBVIOUS
<1>10. t[1] = s[1] /\ t[2] = s[2] /\ t[3] = v /\ DOMAIN t = 1 .. 3
  <2>1. \A k \in 1 .. Len(s) : Append(s, v)[k] = s[k]
    BY <1>8, AppendFacts
  <2>2. Append(s, v)[Len(s) + 1] = v
    BY <1>8, AppendFacts
  <2>3. IsSequence(Append(s, v)) /\ Len(Append(s, v)) = Len(s) + 1
    BY <1>8, AppendFacts
  <2>4. /\ IsSequence(t) /\ Len(t) = Len(s) + 1
        /\ \A k \in 1 .. Len(s) : t[k] = s[k]
        /\ t[Len(s) + 1] = v
    BY <1>9, <2>1, <2>2, <2>3
  <2>5. DOMAIN t = 1 .. Len(t)
    BY <2>4, SequenceFacts
  <2>6. QED
    BY <1>8, <2>4, <2>5
<1>12. h.ops[n].inputs = t
  BY <1>2, <1>7, <1>9
<1>13. /\ h.ops[n].inputs = Append(g.ops[b].inputs, v) /\ DOMAIN h.ops[n].inputs = 1 .. 3
       /\ h.ops[n].inputs[1] = g.ops[b].inputs[1] /\ h.ops[n].inputs[2] = g.ops[b].inputs[2]
       /\ h.ops[n].inputs[3] = v
  BY <1>2, <1>7, <1>10, <1>12
<1>14. QED
  BY <1>5, <1>13 DEF h, b, v

\* The fused operation computes what the three of them did.
LEMMA FusionIsSound ==
  ASSUME NEW g, IsGraph(g), NEW W, Sound(g, W),
         NEW n \in Operations(g), NEW first, Fuses(first, g, n)
  PROVE  Sound(FusedAt(g, n), W)
<1> DEFINE h == FusedAt(g, n)
           a == Fusion(g, n).add
           b == Fusion(g, n).base
           v == Fusion(g, n).bias
           new == h.ops[n]
           base == g.ops[b]
           product == Tensor(base.type, << W[base.inputs[1]], W[base.inputs[2]] >>, << >>)
<1>1. /\ Follows(h, g) /\ h.values = g.values
      /\ \A i \in Operations(g) \ {n} : h.ops[i] = g.ops[i]
      /\ new.type = base.type /\ Len(new.inputs) = 3
      /\ Reads(h, n) = Reads(g, b) \cup {v}
  BY FusionKeeps, FusionChanges
<1>2. /\ a \in Operations(g) /\ b \in Operations(g)
      /\ g.ops[n].type = "gelu" /\ Reads(g, n) = { Output(g, a) }
      /\ g.ops[a].type = "add" /\ Len(g.ops[a].inputs) = 2
      /\ IsProjection(base)
      /\ \E k \in {1, 2} : g.ops[a].inputs[k] = Output(g, b) /\ g.ops[a].inputs[3 - k] = v
  BY FusionParts
<1>3. /\ Has(new, "fused_activation") /\ DOMAIN new.inputs = 1 .. 3
      /\ new.inputs[1] = base.inputs[1] /\ new.inputs[2] = base.inputs[2] /\ new.inputs[3] = v
  BY FusedOperation
<1>4. IsExactGelu(g.ops[n]) /\ Len(g.ops[n].inputs) = 1
  BY DEF Fuses
<1> HIDE DEF h, a, b, v
<1>5. PICK k \in {1, 2} : g.ops[a].inputs[k] = Output(g, b) /\ g.ops[a].inputs[3 - k] = v
  BY <1>2
<1>6. /\ Operations(h) = Operations(g) /\ h.outputs = g.outputs
      /\ \A i \in Operations(g) : Writes(h, i) = Writes(g, i) /\ Output(h, i) = Output(g, i)
  BY <1>1, FollowsFacts
<1>7. \A i \in Operations(g) : Reads(g, i) \cup Writes(g, i) \subseteq DOMAIN g.values
  BY DEF Sound, OperandsExist
<1>8. \A w : ShapeOf(h, w) = ShapeOf(g, w)
  BY <1>1 DEF ShapeOf
<1>9. DOMAIN g.ops[a].inputs = 1 .. 2 /\ DOMAIN g.ops[n].inputs = 1 .. 1
      /\ DOMAIN base.inputs = 1 .. 2
  BY <1>2, <1>4, OperandFacts DEF IsGraph, IsProjection
<1>10. OperandsExist(h)
  <2> SUFFICES ASSUME NEW i \in Operations(g)
               PROVE  Reads(h, i) \cup Writes(h, i) \subseteq DOMAIN g.values
    BY <1>1, <1>6 DEF OperandsExist
  <2>1. i # n => Reads(h, i) = Reads(g, i)
    BY <1>1 DEF Reads
  <2>2. v \in Reads(g, a)
    BY <1>5, <1>9 DEF Reads, Elements
  <2>3. QED
    BY <1>1, <1>2, <1>6, <1>7, <2>1, <2>2
<1>11. Ordinary(h)
  <2>1. ~IsProjection(new)
    BY <1>1 DEF IsProjection
  <2>2. new.type # "gelu"
    BY <1>1, <1>2 DEF IsProjection
  <2>3. QED
    BY <1>1, <1>6, <1>8, <2>1, <2>2 DEF Sound, Ordinary
<1>12. W[Output(g, b)] = product
  <2> DEFINE args == Arguments(g, W, b)
  <2>1. W[Output(g, b)] = Denoted(g, base, args)
    BY <1>2 DEF Sound, Solves, Stands
  <2>2. ~Has(base, "fused_activation") /\ base.type \in {"mat_mul", "linear"}
    BY <1>2 DEF Sound, Ordinary, IsProjection
  <2>3. DOMAIN args = 1 .. 2 /\ args[1] = W[base.inputs[1]] /\ args[2] = W[base.inputs[2]]
        /\ args = [ j \in 1 .. 2 |-> args[j] ]
    BY <1>9 DEF Arguments
  <2> HIDE DEF args, base
  <2>4. Len(args) = 2
    BY <2>3, FunctionIsSequence
  <2>5. Denoted(g, base, args) = Tensor(base.type, << args[1], args[2] >>, << >>)
    BY <2>2, <2>4 DEF Denoted, Activated
  <2>6. QED
    BY <2>1, <2>3, <2>5
<1>13. ~IsLiteral(product)
  BY <1>2 DEF IsLiteral, Tensor, IsProjection
<1> HIDE DEF product
<1>14. W[Output(g, a)] = Computed("add", << product, W[v] >>)
  <2> DEFINE args == Arguments(g, W, a)
  <2>1. W[Output(g, a)] = Denoted(g, g.ops[a], args)
    BY <1>2 DEF Sound, Solves, Stands
  <2>2. Denoted(g, g.ops[a], args) = Computed("add", args)
    BY <1>2 DEF Denoted
  <2>3. DOMAIN args = 1 .. 2 /\ args[k] = product /\ args[3 - k] = W[v]
    BY <1>5, <1>9, <1>12 DEF Arguments
  <2> HIDE DEF args
  <2>4. Computed("add", args) = Computed("add", << args[k], args[3 - k] >>)
    BY <1>13, <2>3, SumOfTwo
  <2>5. QED
    BY <2>1, <2>2, <2>3, <2>4
<1>15. W[Output(g, n)] = Tensor("gelu", << Computed("add", << product, W[v] >>) >>, << >>)
  <2> DEFINE args == Arguments(g, W, n)
             op == g.ops[n]
  <2>1. W[Output(g, n)] = Denoted(g, op, args)
    BY DEF Sound, Solves, Stands
  <2>2. Attribute(op, "approximate", "none") = "none" /\ op.type = "gelu"
    BY <1>2, <1>4 DEF IsExactGelu, Attribute
  <2>3. DOMAIN args = 1 .. 1 /\ args[1] = W[Output(g, a)]
    <3>1. op.inputs[1] \in Reads(g, n)
      BY <1>9 DEF Reads, Elements
    <3>2. QED
      BY <1>2, <1>9, <3>1 DEF Arguments
  <2> HIDE DEF args, op
  <2>4. Denoted(g, op, args) = Tensor("gelu", args, << >>)
    BY <2>2 DEF Denoted
  <2>5. Tensor("gelu", args, << >>) = Tensor("gelu", << args[1] >>, << >>)
    BY <2>3, OneArgument
  <2>6. QED
    BY <1>14, <2>1, <2>3, <2>4, <2>5
<1>16. Stands(h, W, n)
  <2> DEFINE args == Arguments(h, W, n)
  <2>1. DOMAIN args = 1 .. 3 /\ args[1] = W[base.inputs[1]] /\ args[2] = W[base.inputs[2]]
        /\ args[3] = W[v] /\ args = [ j \in 1 .. 3 |-> args[j] ]
    BY <1>3 DEF Arguments
  <2>2. new.type \in {"mat_mul", "linear"} /\ new.type = base.type
    BY <1>1, <1>2 DEF IsProjection
  <2> HIDE DEF args, new, base
  <2>3. Len(args) = 3
    BY <2>1, FunctionIsSequence
  <2>4. Denoted(h, new, args)
          = Tensor("gelu", << Computed("add", << Tensor(new.type, << args[1], args[2] >>, << >>),
                                                  args[3] >>) >>, << >>)
    BY <1>3, <2>2, <2>3 DEF Denoted, Activated
  <2>5. Tensor(new.type, << args[1], args[2] >>, << >>) = product
    BY <2>1, <2>2 DEF product
  <2>6. W[Output(h, n)] = Denoted(h, new, args)
    BY <1>6, <1>15, <2>1, <2>4, <2>5
  <2>7. QED
    BY <2>6 DEF Stands, args, new
<1>17. \A i \in Operations(g) \ {n} : Stands(h, W, i)
  <2> SUFFICES ASSUME NEW i \in Operations(g) \ {n} PROVE Stands(h, W, i)
    OBVIOUS
  <2>1. Stands(g, W, i) /\ h.ops[i] = g.ops[i]
    BY <1>1 DEF Sound, Solves
  <2>2. QED
    BY <1>8, <2>1, SameStands
<1>18. Solves(h, W)
  BY <1>1, <1>6, <1>16, <1>17 DEF Sound, Solves
<1>19. QED
  BY <1>10, <1>11, <1>18 DEF Sound, h

(***************************************************************************)
(* Whole passes.                                                           *)
(***************************************************************************)

\* Shapes and permutations stay sequences when operations are taken out or moved.
LEMMA SelectionKeepsShapes ==
  ASSUME NEW g, HasOperations(g), HasShapes(g), NEW h, NEW order, Rearranges(h, g, order),
         DOMAIN h.values \subseteq DOMAIN g.values,
         \A v \in DOMAIN h.values : h.values[v] = g.values[v]
  PROVE  HasShapes(h)
<1>1. /\ Operations(h) = 1 .. Len(order)
      /\ \A n \in 1 .. Len(order) : order[n] \in Operations(g) /\ h.ops[n] = g.ops[order[n]]
  BY RearrangedFacts DEF Rearranges
<1>2. QED
  BY <1>1 DEF HasShapes, ShapeOf

\* And when they are erased.
LEMMA ErasedKeepsShapes ==
  ASSUME NEW g, IsGraph(g), HasShapes(g), NEW positions, NEW values
  PROVE  HasShapes(Erased(g, positions, values))
<1> DEFINE h == Erased(g, positions, values)
           order == InOrder(Operations(g) \ positions)
<1>0. HasOperations(g) /\ {"ops", "values", "inputs", "outputs"} \subseteq DOMAIN g
  BY DEF IsGraph, HasOperations
<1>1. Rearranges(h, g, order)
  BY <1>0, ErasedRearranges
<1>2. h.values = [ v \in DOMAIN g.values \ values |-> g.values[v] ]
  BY <1>0 DEF Erased, Reordered
<1> HIDE DEF h, order
<1>3. HasShapes(h)
  BY <1>0, <1>1, <1>2, SelectionKeepsShapes
<1>4. QED
  BY <1>3 DEF h

\* And when an iteration of a loop rewrites the graph, which keeps its values.
LEMMA RewriteKeepsShapes ==
  ASSUME NEW g, IsGraph(g), HasShapes(g), NEW n \in Operations(g), NEW first,
         NEW pass \in Loops, Rewrites(pass, first, g, n)
  PROVE  LET h == RewrittenAt(pass, g, n)
         IN  HasShapes(h) /\ DOMAIN h.values = DOMAIN g.values
<1>1. CASE pass = "fold"
  <2>1. Foldable(g, n) /\ RewrittenAt(pass, g, n) = FoldedAt(g, n)
    BY <1>1 DEF Rewrites, RewrittenAt
  <2>2. QED
    BY <2>1, FoldKeepsShapes
<1>2. CASE pass \in {"reshape", "transpose"}
  <2> DEFINE h == ReplaceAllUses(g, Output(g, n), g.ops[n].inputs[1])
  <2>1. RewrittenAt(pass, g, n) = h
    BY <1>2 DEF RewrittenAt
  <2>2. /\ h.values = g.values
        /\ \A i \in Operations(g) :
             h.ops[i].type = g.ops[i].type /\ h.ops[i].attributes = g.ops[i].attributes
    BY ReplacementChanges
  <2>3. Operations(h) = Operations(g)
    <3>1. Follows(RewrittenAt(pass, g, n), g)
      BY RewriteKeeps
    <3>2. QED
      BY <2>1, <3>1, FollowsFacts
  <2> HIDE DEF h
  <2>4. HasShapes(h)
    BY <2>2, <2>3 DEF HasShapes, ShapeOf, Has
  <2>5. QED
    BY <2>1, <2>2, <2>4
<1>3. CASE pass = "fuse"
  <2> DEFINE h == FusedAt(g, n)
  <2>1. Fuses(first, g, n) /\ RewrittenAt(pass, g, n) = h
    BY <1>3 DEF Rewrites, RewrittenAt
  <2>2. /\ h.values = g.values
        /\ \A i \in Operations(g) \ {n} : h.ops[i] = g.ops[i]
        /\ h.ops[n].type \in {"linear", "mat_mul"}
    BY <2>1, FusionChanges, FusionFacts
  <2>3. Operations(h) = Operations(g)
    BY <2>1, FusionKeeps, FollowsFacts
  <2> HIDE DEF h
  <2>4. HasShapes(h)
    BY <2>2, <2>3 DEF HasShapes, ShapeOf
  <2>5. QED
    BY <2>1, <2>2, <2>4
<1>4. QED
  BY <1>1, <1>2, <1>3 DEF Loops

\* So at every iteration.
LEMMA LoopKeepsShapes ==
  ASSUME NEW pass \in Loops, NEW g, IsGraph(g), HasShapes(g)
  PROVE  \A n \in 0 .. Len(g.ops) :
           LET h == Rewritten(pass, g)[n]
           IN  HasShapes(h) /\ DOMAIN h.values = DOMAIN g.values
<1> DEFINE h(n) == Rewritten(pass, g)[n]
           N == Len(g.ops)
           S == { n \in 0 .. N : HasShapes(h(n)) /\ DOMAIN h(n).values = DOMAIN g.values }
<1>0. N \in Nat /\ Operations(g) = 1 .. N
  BY PositionFacts DEF IsGraph
<1>1. h(0) = g /\ \A n \in 1 .. N : h(n) = Iteration(pass, g, h(n - 1), n)
  BY <1>0, RewrittenIsIteration
<1>2. 0 \in S
  BY <1>0, <1>1
<1>3. ASSUME NEW n \in 1 .. N, n - 1 \in S
      PROVE  n \in S
  <2>0. n - 1 \in 0 .. N /\ n \in 0 .. N
    BY <1>0
  <2>1. PICK f : f = h(n - 1)
    OBVIOUS
  <2>2. h(n) = Iteration(pass, g, f, n)
    BY <1>1, <2>1
  <2>3. HasShapes(f) /\ DOMAIN f.values = DOMAIN g.values
    BY <1>3, <2>1
  <2>4. Follows(f, g)
    BY <2>0, <2>1, LoopKeeps
  <2>5. IsGraph(f) /\ n \in Operations(f)
    BY <1>0, <2>4, FollowsFacts
  <2> HIDE DEF h
  <2>6. HasShapes(h(n)) /\ DOMAIN h(n).values = DOMAIN g.values
    <3>1. CASE Rewrites(pass, g, f, n)
      <4>1. h(n) = RewrittenAt(pass, f, n)
        BY <2>2, <3>1 DEF Iteration
      <4>2. QED
        BY <2>3, <2>5, <3>1, <4>1, RewriteKeepsShapes
    <3>2. CASE ~Rewrites(pass, g, f, n)
      BY <2>2, <2>3, <3>2 DEF Iteration
    <3>3. QED
      BY <3>1, <3>2
  <2>7. QED
    BY <2>0, <2>6
<1>4. S \in SUBSET (0 .. N)
  OBVIOUS
<1> HIDE DEF S
<1>5. \A n \in 0 .. N : n \in S
  BY <1>0, <1>2, <1>3, <1>4, UpTo
<1>6. QED
  BY <1>5 DEF S

\* An iteration that folds or fuses.
LEMMA RewriteIsSound ==
  ASSUME NEW g, IsGraph(g), HasShapes(g), NEW W, Sound(g, W), NEW n \in Operations(g),
         NEW first, NEW pass \in {"fold", "fuse"}, Rewrites(pass, first, g, n)
  PROVE  Sound(RewrittenAt(pass, g, n), W)
<1>1. CASE pass = "fold"
  <2>1. Foldable(g, n) /\ RewrittenAt(pass, g, n) = FoldedAt(g, n)
    BY <1>1 DEF Rewrites, RewrittenAt
  <2>2. QED
    BY <2>1, FoldIsSound
<1>2. CASE pass = "fuse"
  <2>1. Fuses(first, g, n) /\ RewrittenAt(pass, g, n) = FusedAt(g, n)
    BY <1>2 DEF Rewrites, RewrittenAt
  <2>2. QED
    BY <2>1, FusionIsSound
<1>3. QED
  BY <1>1, <1>2

\* So every iteration that folds or fuses leaves a graph that computes the same.
LEMMA RewritingIsSound ==
  ASSUME NEW pass \in {"fold", "fuse"}, NEW g, IsGraph(g), HasShapes(g), NEW W, Sound(g, W)
  PROVE  \A n \in 0 .. Len(g.ops) : Sound(Rewritten(pass, g)[n], W)
<1> DEFINE h(n) == Rewritten(pass, g)[n]
           N == Len(g.ops)
           S == { n \in 0 .. N : Sound(h(n), W) }
<1>0. N \in Nat /\ Operations(g) = 1 .. N /\ pass \in Loops
  BY PositionFacts DEF IsGraph, Loops
<1>1. h(0) = g /\ \A n \in 1 .. N : h(n) = Iteration(pass, g, h(n - 1), n)
  BY <1>0, RewrittenIsIteration
<1>2. 0 \in S
  BY <1>0, <1>1
<1>3. ASSUME NEW n \in 1 .. N, n - 1 \in S
      PROVE  n \in S
  <2>0. n - 1 \in 0 .. N /\ n \in 0 .. N
    BY <1>0
  <2>1. PICK f : f = h(n - 1)
    OBVIOUS
  <2>2. h(n) = Iteration(pass, g, f, n)
    BY <1>1, <2>1
  <2>3. Sound(f, W)
    BY <1>3, <2>1
  <2>4. Follows(f, g) /\ HasShapes(f)
    BY <1>0, <2>0, <2>1, LoopKeeps, LoopKeepsShapes
  <2>5. IsGraph(f) /\ n \in Operations(f)
    BY <1>0, <2>4, FollowsFacts
  <2> HIDE DEF h
  <2>6. Sound(h(n), W)
    <3>1. CASE Rewrites(pass, g, f, n)
      <4>1. h(n) = RewrittenAt(pass, f, n)
        BY <2>2, <3>1 DEF Iteration
      <4>2. QED
        BY <2>3, <2>4, <2>5, <3>1, <4>1, RewriteIsSound
    <3>2. CASE ~Rewrites(pass, g, f, n)
      BY <2>2, <2>3, <3>2 DEF Iteration
    <3>3. QED
      BY <3>1, <3>2
  <2>7. QED
    BY <2>0, <2>6
<1>4. S \in SUBSET (0 .. N)
  OBVIOUS
<1> HIDE DEF S
<1>5. \A n \in 0 .. N : n \in S
  BY <1>0, <1>2, <1>3, <1>4, UpTo
<1>6. QED
  BY <1>5 DEF S

\* If the operand of what is eliminated may stand for its result, operands may stand at
\* every iteration for those there were.
LEMMA EliminationStands ==
  ASSUME NEW pass \in {"reshape", "transpose"}, NEW g, IsGraph(g), OperandsExist(g), NEW W,
         ASSUME NEW f, OtherOperands(f, g, W), NEW n \in Operations(g),
                RedundantReshape(f, n) \/ RedundantTranspose(f, n)
         PROVE  MayStandFor(g, W, f.ops[n].inputs[1], Output(g, n))
  PROVE  \A n \in 0 .. Len(g.ops) : OtherOperands(Rewritten(pass, g)[n], g, W)
<1> DEFINE h(n) == Rewritten(pass, g)[n]
           N == Len(g.ops)
           S == { n \in 0 .. N : OtherOperands(h(n), g, W) }
<1>0. N \in Nat /\ Operations(g) = 1 .. N
  BY PositionFacts DEF IsGraph
<1>1. h(0) = g /\ \A n \in 1 .. N : h(n) = Iteration(pass, g, h(n - 1), n)
  BY <1>0, RewrittenIsIteration
<1>2. 0 \in S
  <2>1. Follows(g, g)
    BY FollowsIsTransitive
  <2>2. \A i \in Operations(g) : \A k \in DOMAIN g.ops[i].inputs :
          g.ops[i].inputs[k] \in DOMAIN g.values
    BY DEF OperandsExist, Reads, Elements
  <2> HIDE DEF h
  <2>3. OtherOperands(g, g, W)
    BY <2>1, <2>2 DEF OtherOperands, MayStandFor
  <2>4. QED
    BY <1>0, <1>1, <2>3
<1>3. ASSUME NEW n \in 1 .. N, n - 1 \in S
      PROVE  n \in S
  <2>0. n - 1 \in 0 .. N /\ n \in 0 .. N
    BY <1>0
  <2>1. PICK f : f = h(n - 1)
    OBVIOUS
  <2>2. h(n) = Iteration(pass, g, f, n)
    BY <1>1, <2>1
  <2>3. OtherOperands(f, g, W)
    BY <1>3, <2>1
  <2> HIDE DEF h
  <2>4. OtherOperands(h(n), g, W)
    <3>1. CASE Rewrites(pass, g, f, n)
      <4>1. h(n) = ReplaceAllUses(f, Output(f, n), f.ops[n].inputs[1])
        BY <2>2, <3>1 DEF Iteration, RewrittenAt
      <4>2. RedundantReshape(f, n) \/ RedundantTranspose(f, n)
        BY <3>1 DEF Rewrites
      <4>3. MayStandFor(g, W, f.ops[n].inputs[1], Output(g, n))
        BY <1>0, <2>3, <4>2
      <4>4. Output(f, n) = Output(g, n) /\ IsGraph(f) /\ n \in Operations(f)
        BY <1>0, <2>3, FollowsFacts DEF OtherOperands
      <4>5. Len(f.ops[n].inputs) = 1
        BY <4>2, <4>4 DEF RedundantReshape, RedundantTranspose, Removable, OpType, IsGraph,
                          HasOperations, IsOperation
      <4>6. QED
        BY <1>0, <2>3, <4>1, <4>3, <4>4, <4>5, ReplacementStands
    <3>2. CASE ~Rewrites(pass, g, f, n)
      BY <2>2, <2>3, <3>2 DEF Iteration
    <3>3. QED
      BY <3>1, <3>2
  <2>5. QED
    BY <2>0, <2>4
<1>4. S \in SUBSET (0 .. N)
  OBVIOUS
<1> HIDE DEF S
<1>5. \A n \in 0 .. N : n \in S
  BY <1>0, <1>2, <1>3, <1>4, UpTo
<1>6. QED
  BY <1>5 DEF S

\* A whole loop, with what it erases at its end.
LEMMA RunLoopIsSound ==
  ASSUME NEW pass \in Loops, NEW g, IsGraph(g), HasShapes(g), Verifies(g), Topological(g),
         NEW W, Sound(g, W)
  PROVE  LET h == RunLoop(pass, g)
         IN  /\ Sound(h, W) /\ DOMAIN h.values \subseteq DOMAIN g.values
             /\ Observable(h) = Observable(g)
<1> DEFINE last == Rewritten(pass, g)[Len(g.ops)]
           removed == Removed(pass, g)
           values == { Output(g, i) : i \in removed }
<1>0. Len(g.ops) \in 0 .. Len(g.ops)
  BY PositionFacts DEF IsGraph
<1>1. Follows(last, g) /\ DOMAIN last.values = DOMAIN g.values
  BY <1>0, LoopKeeps, LoopKeepsShapes
<1>2. Apart(last, removed, values) /\ removed \subseteq Operations(g) \ SideEffects(g)
  BY LoopIsApart, RemovedFacts
<1>3. RunLoop(pass, g) = Erased(last, removed, values)
  BY DEF RunLoop
<1>4. Sound(last, W)
  <2>1. CASE pass \in {"fold", "fuse"}
    BY <1>0, <2>1, RewritingIsSound
  <2>2. CASE pass \in {"reshape", "transpose"}
    <3>1. OtherOperands(last, g, W)
      <4>1. ASSUME NEW f, OtherOperands(f, g, W), NEW n \in Operations(g),
                   RedundantReshape(f, n) \/ RedundantTranspose(f, n)
            PROVE  MayStandFor(g, W, f.ops[n].inputs[1], Output(g, n))
        BY <4>1, OperandStandsForResult
      <4>2. OperandsExist(g)
        BY DEF Verifies
      <4> HIDE DEF last
      <4>3. \A n \in 0 .. Len(g.ops) : OtherOperands(Rewritten(pass, g)[n], g, W)
        BY <2>2, <4>1, <4>2, EliminationStands
      <4>4. QED
        BY <1>0, <4>3 DEF last
    <3> HIDE DEF last
    <3>2. QED
      BY <3>1, OtherOperandsAreSound
  <2>3. QED
    BY <2>1, <2>2 DEF Loops
<1> HIDE DEF last, removed, values
<1>5. /\ IsGraph(last) /\ SideEffects(last) = SideEffects(g)
      /\ Observable(last) = Observable(g)
  <2>1. /\ IsGraph(last) /\ SideEffects(last) = SideEffects(g) /\ last.outputs = g.outputs
        /\ \A i \in Operations(g) : Output(last, i) = Output(g, i)
    BY <1>1, FollowsFacts
  <2>2. SideEffects(g) \subseteq Operations(g)
    BY DEF SideEffects
  <2>3. QED
    BY <2>1, <2>2 DEF Observable
<1>6. LET h == Erased(last, removed, values)
      IN  /\ Sound(h, W) /\ DOMAIN h.values = DOMAIN last.values \ values
          /\ removed \cap SideEffects(last) = {} => Observable(h) = Observable(last)
  BY <1>2, <1>4, <1>5, ErasedIsSound
<1>7. QED
  BY <1>1, <1>2, <1>3, <1>5, <1>6

\* The elimination of dead code.
LEMMA DeadCodeIsSound ==
  ASSUME NEW g, IsGraph(g), Topological(g), NEW W, Sound(g, W)
  PROVE  LET h == EliminateDeadCode(g)
         IN  /\ Sound(h, W) /\ DOMAIN h.values \subseteq DOMAIN g.values
             /\ Observable(h) = Observable(g)
<1> DEFINE live == LiveValues(g)
           dead == { i \in Operations(g) : Writes(g, i) \cap live = {} }
           values == DOMAIN g.values \ live
<1>1. EliminateDeadCode(g) = Erased(g, dead, values) /\ Apart(g, dead, values)
  BY DeadCodeIsApart DEF Sound
<1>2. Roots(g) \subseteq live
  BY LiveFacts, PositionFacts DEF IsGraph
<1>3. dead \cap SideEffects(g) = {}
  <2> SUFFICES ASSUME NEW i \in dead, i \in SideEffects(g) PROVE FALSE
    OBVIOUS
  <2>1. Writes(g, i) = { Output(g, i) }
    BY ResultFacts
  <2>2. Output(g, i) \in Roots(g)
    BY DEF Roots
  <2>3. QED
    BY <1>2, <2>1, <2>2
<1> HIDE DEF live, dead, values
<1>4. LET h == Erased(g, dead, values)
      IN  /\ Sound(h, W) /\ DOMAIN h.values = DOMAIN g.values \ values
          /\ dead \cap SideEffects(g) = {} => Observable(h) = Observable(g)
  BY <1>1, ErasedIsSound
<1>5. QED
  BY <1>1, <1>3, <1>4

\* A graph that has an order computes what it means,
LEMMA MeaningIsSound ==
  ASSUME NEW g, IsGraph(g), OperandsExist(g), Ordinary(g), Len(LoadOrder(g)) = Len(g.ops)
  PROVE  Sound(g, Denotation(g))
<1>1. Satisfies(g, Denotation(g))
  BY DenotationSatisfies
<1>2. QED
  BY <1>1, SatisfiesAll DEF Sound

\* and one that computes what another one means has its meaning.
LEMMA SoundMeansTheSame ==
  ASSUME NEW g, NEW h, IsGraph(h), Topological(h), Sound(h, Denotation(g)),
         DOMAIN h.values \subseteq DOMAIN g.values
  PROVE  SameMeaning(h, g)
<1>1. Len(LoadOrder(h)) = Len(h.ops)
  BY TopologicalHasOrder DEF IsGraph
<1>2. QED
  BY <1>1, SolvedMeansTheSame DEF Sound

\* What has become of a graph is known: what it declares and marks is, and it means what it
\* meant.
Remains(h, g) ==
  OperandsExist(h) /\ Ordinary(h) /\ Observable(h) = Observable(g) /\ SameMeaning(h, g)

\* Step by step.
LEMMA RemainsIsTransitive ==
  ASSUME NEW g, NEW h, NEW f, Remains(h, g), Remains(f, h)
  PROVE  Remains(f, g)
BY DEF Remains, SameMeaning

\* Canonical attributes keep shapes and permutations sequences.
LEMMA AttributesKeepShapes ==
  ASSUME NEW g, IsGraph(g), HasShapes(g), Verifies(g)
  PROVE  HasShapes(WithCanonicalAttributes(g))
<1> DEFINE f == WithCanonicalAttributes(g)
<1>1. Operations(f) = Operations(g)
  BY AttributesFacts
<1>2. f.values = g.values
  BY DEF WithCanonicalAttributes, IsGraph, HasOperations
<1>3. PICK W : W = {}
  OBVIOUS
<1>4. \A i \in Operations(g) :
        /\ f.ops[i].type = g.ops[i].type
        /\ g.ops[i].type = "transpose" /\ Has(f.ops[i], "permutation") =>
             /\ Has(g.ops[i], "permutation")
             /\ f.ops[i].attributes["permutation"] = g.ops[i].attributes["permutation"]
  BY CanonicalStands
<1> HIDE DEF f
<1>5. HasShapes(f)
  BY <1>1, <1>2, <1>4 DEF HasShapes, ShapeOf
<1>6. QED
  BY <1>5 DEF f

\* Every pass does.
LEMMA ApplyKeepsShapes ==
  ASSUME NEW g, IsGraph(g), HasShapes(g), Verifies(g), NEW pass \in PassNames,
         pass = "canonicalise" => HasStableOrder(g)
  PROVE  HasShapes(Apply(pass, g))
<1>1. CASE pass = "verify"
  BY <1>1 DEF Apply
<1>2. CASE pass = "canonicalise"
  <2> DEFINE f == WithCanonicalAttributes(g)
             order == StableOrder(g)
             h == Reordered(f, order)
  <2>1. Apply(pass, g) = h
    BY <1>2 DEF Apply, Canonicalise
  <2>2. IsGraph(f) /\ Operations(f) = Operations(g)
    BY AttributesFacts
  <2>3. HasShapes(f)
    BY AttributesKeepShapes
  <2>4. IsOrdering(g, DataEdges(g) \cup SideEffectEdges(g), order)
    BY PositionFacts, LeastFirstIsOrdering DEF StableOrder, IsGraph, HasOperations, IsOperation
  <2> HIDE DEF f, order
  <2>5. IsSelection(f, order)
    BY <2>2, <2>4 DEF IsSelection, IsOrdering
  <2>6. Rearranges(h, f, order) /\ HasOperations(f)
    BY <2>2, <2>5, ReorderedRearranges DEF IsGraph
  <2>7. h.values = f.values
    BY <2>6 DEF Reordered, HasOperations
  <2> HIDE DEF h
  <2>8. HasShapes(h)
    BY <2>3, <2>6, <2>7, SelectionKeepsShapes
  <2>9. QED
    BY <2>1, <2>8
<1>3. CASE pass = "dead_code"
  BY <1>3, ErasedKeepsShapes DEF Apply, EliminateDeadCode
<1>4. CASE pass \in Loops
  <2> DEFINE last == Rewritten(pass, g)[Len(g.ops)]
  <2>0. Len(g.ops) \in 0 .. Len(g.ops)
    BY PositionFacts DEF IsGraph
  <2>1. HasShapes(last) /\ Follows(last, g)
    BY <1>4, <2>0, LoopKeepsShapes, LoopKeeps
  <2>2. Apply(pass, g) = Erased(last, Removed(pass, g), { Output(g, i) : i \in Removed(pass, g) })
    BY <1>4 DEF Apply, RunLoop, Loops
  <2> HIDE DEF last
  <2>3. IsGraph(last)
    BY <2>1, FollowsFacts
  <2>4. QED
    BY <2>1, <2>2, <2>3, ErasedKeepsShapes
<1>5. QED
  BY <1>1, <1>2, <1>3, <1>4 DEF PassNames

\* Every pass keeps the meaning of a graph that verifies.
LEMMA ApplyMeansTheSame ==
  ASSUME NEW g, IsGraph(g), HasShapes(g), Verifies(g), Ordinary(g), NEW pass \in PassNames,
         pass = "canonicalise" => HasStableOrder(g),
         pass \notin {"verify", "canonicalise"} => Topological(g)
  PROVE  Remains(Apply(pass, g), g)
<1> DEFINE W == Denotation(g)
           h == Apply(pass, g)
<1>0. OperandsExist(g)
  BY DEF Verifies
<1>1. CASE pass = "verify"
  BY <1>0, <1>1 DEF Apply, Remains, SameMeaning
<1>2. CASE pass = "canonicalise"
  <2>1. Len(StableOrder(g)) = Len(g.ops)
    BY <1>2 DEF HasStableOrder
  <2>2. IsOrdering(g, DataEdges(g) \cup SideEffectEdges(g), StableOrder(g))
    BY PositionFacts, LeastFirstIsOrdering DEF StableOrder, IsGraph, HasOperations, IsOperation
  <2>3. IsOrdering(g, DataEdges(g), StableOrder(g))
    BY <2>2 DEF IsOrdering
  <2>4. Len(LoadOrder(g)) = Len(g.ops)
    BY <2>1, <2>3, AnyOrderIsEnough DEF IsGraph
  <2>5. Sound(g, W)
    BY <1>0, <2>4, MeaningIsSound
  <2>6. h = Canonicalise(g)
    BY <1>2 DEF Apply
  <2> HIDE DEF W, h
  <2>7. IsGraph(h) /\ Topological(h) /\ Sound(h, W) /\ h.values = g.values
        /\ Observable(h) = Observable(g)
    BY <2>1, <2>5, <2>6, CanonicaliseIsSound
  <2>8. SameMeaning(h, g)
    BY <2>7, SoundMeansTheSame DEF W
  <2>9. QED
    BY <2>7, <2>8 DEF Remains, Sound, h
<1>3. CASE pass \notin {"verify", "canonicalise"}
  <2>1. Topological(g)
    BY <1>3
  <2>2. Sound(g, W)
    BY <1>0, <2>1, TopologicalHasOrder, MeaningIsSound DEF IsGraph
  <2>3. IsGraph(h) /\ Topological(h)
    BY <1>3, <2>1, ApplyFacts
  <2> HIDE DEF W
  <2>4. Sound(h, W) /\ DOMAIN h.values \subseteq DOMAIN g.values /\ Observable(h) = Observable(g)
    <3>1. CASE pass = "dead_code"
      <4>1. h = EliminateDeadCode(g)
        BY <3>1 DEF Apply
      <4>2. QED
        BY <2>1, <2>2, <4>1, DeadCodeIsSound
    <3>2. CASE pass \in Loops
      <4>1. h = RunLoop(pass, g)
        BY <3>2 DEF Apply, Loops
      <4>2. QED
        BY <2>1, <2>2, <3>2, <4>1, RunLoopIsSound
    <3>3. QED
      BY <1>3, <3>1, <3>2 DEF PassNames
  <2> HIDE DEF h
  <2>5. SameMeaning(h, g)
    BY <2>3, <2>4, SoundMeansTheSame DEF W
  <2>6. QED
    BY <2>4, <2>5 DEF Remains, Sound, h
<1>4. QED
  BY <1>1, <1>2, <1>3

\* So does the loader when it reads what has been written.
LEMMA LoadedMeansTheSame ==
  ASSUME NEW g, IsGraph(g), Accepts(g), OperandsExist(g), Ordinary(g)
  PROVE  Remains(Loaded(g), g)
<1> DEFINE W == Denotation(g)
           h == Reordered(g, LoadOrder(g))
<1>1. Len(LoadOrder(g)) = Len(g.ops)
  BY DEF Accepts
<1>2. Sound(g, W)
  BY <1>1, MeaningIsSound
<1>3. IsOrdering(g, DataEdges(g), LoadOrder(g))
  BY LoadOrderFacts
<1> HIDE DEF W
<1>4. IsGraph(h) /\ Topological(h) /\ Sound(h, W) /\ h.values = g.values
      /\ Observable(h) = Observable(g)
  BY <1>1, <1>2, <1>3, ReorderedIsSound
<1> HIDE DEF h
<1>5. SameMeaning(h, g)
  BY <1>4, SoundMeansTheSame DEF W
<1>6. QED
  BY <1>4, <1>5 DEF Remains, Sound, Loaded, h

\* And keeps shapes and permutations sequences.
LEMMA LoadedKeepsShapes ==
  ASSUME NEW d, HasOperations(d), HasShapes(d), Accepts(d)
  PROVE  HasShapes(Loaded(d))
<1> DEFINE order == LoadOrder(d)
           h == Reordered(d, order)
<1>1. IsOrdering(d, DataEdges(d), order)
  BY PositionFacts, LeastFirstIsOrdering DEF LoadOrder, HasOperations, IsOperation
<1> HIDE DEF order
<1>2. Rearranges(h, d, order)
  BY <1>1, ReorderedRearranges DEF IsSelection, IsOrdering
<1>3. h.values = d.values
  BY DEF Reordered, HasOperations
<1> HIDE DEF h
<1>4. HasShapes(h)
  BY <1>2, <1>3, SelectionKeepsShapes
<1>5. QED
  BY <1>4 DEF Loaded, h, order

(***************************************************************************)
(* The meaning of the graph throughout an optimization.                    *)
(***************************************************************************)

\* A pass runs on a graph that verifies, and until then and afterwards the graph is what
\* has become of the given one.
MeaningInv ==
  /\ runs > 0 => HasShapes(graph)
  /\ status = "running" /\ stage = "pass" => Verifies(graph)
  /\ runs > 0 /\ Verifies(original) /\ Ordinary(original) => Remains(graph, original)

\* An optimization starts with the graph it is given.
LEMMA OptimizeMeansTheSame ==
  ASSUME NEW g, HasShapes(g), NEW level, Optimize(g, level)
  PROVE  MeaningInv'
<1>1. original' = g /\ graph' = g /\ stage' = "pre"
  BY DEF Optimize
<1>2. Verifies(g) /\ Ordinary(g) => Remains(g, g)
  BY DEF Remains, SameMeaning, Verifies
<1>3. QED
  BY <1>1, <1>2 DEF MeaningInv

\* A pass keeps the meaning.
LEMMA RunPassMeansTheSame ==
  ASSUME IInv, MeaningInv, RunPass
  PROVE  MeaningInv'
<1> DEFINE pass == Head(passes)
<1>1. /\ status = "running" /\ stage = "pass" /\ stage' = "post" /\ graph' = Apply(pass, graph)
      /\ pass = "canonicalise" => HasStableOrder(graph)
      /\ UNCHANGED << original, runs >>
  BY DEF RunPass
<1>2. passes \in Remaining /\ runs > 0 /\ IsGraph(graph)
  BY <1>1 DEF IInv, ProgressInv, GraphInv
<1>3. pass \in PassNames
  BY <1>2, RemainingFacts
<1>4. pass \notin {"verify", "canonicalise"} => Topological(graph)
  BY <1>1 DEF IInv, GraphInv, Canonicalised
<1> HIDE DEF pass
<1>5. HasShapes(graph) /\ Verifies(graph)
  BY <1>1, <1>2 DEF MeaningInv
<1>6. HasShapes(graph')
  BY <1>1, <1>2, <1>3, <1>5, ApplyKeepsShapes
<1>7. ASSUME Verifies(original), Ordinary(original)
      PROVE  Remains(graph', original)
  <2>1. Remains(graph, original)
    BY <1>2, <1>7 DEF MeaningInv
  <2>2. Ordinary(graph)
    BY <2>1 DEF Remains
  <2>3. Remains(graph', graph)
    BY <1>1, <1>2, <1>3, <1>4, <1>5, <2>2, ApplyMeansTheSame
  <2>4. QED
    BY <2>1, <2>3, RemainsIsTransitive
<1>8. QED
  BY <1>1, <1>6, <1>7 DEF MeaningInv

\* So does canonicalisation when it finds no order.
LEMMA PassFailsMeansTheSame ==
  ASSUME IInv, MeaningInv, PassFails
  PROVE  MeaningInv'
<1> DEFINE f == WithCanonicalAttributes(graph)
<1>1. /\ status = "running" /\ stage = "pass" /\ status' = "failed" /\ graph' = f
      /\ UNCHANGED << original, runs >>
  BY DEF PassFails, Abort
<1>2. runs > 0 /\ IsGraph(graph) /\ HasShapes(graph) /\ Verifies(graph)
  BY <1>1 DEF IInv, ProgressInv, GraphInv, MeaningInv
<1>3. HasShapes(f)
  BY <1>2, AttributesKeepShapes
<1>4. ASSUME Verifies(original), Ordinary(original)
      PROVE  Remains(f, original)
  <2>1. Remains(graph, original)
    BY <1>2, <1>4 DEF MeaningInv
  <2>2. Ordinary(graph)
    BY <2>1 DEF Remains
  <2>3. OperandsExist(f) /\ Ordinary(f) /\ Observable(f) = Observable(graph)
    BY <1>2, <2>2, AttributesKeep
  <2>4. SameMeaning(f, graph)
    BY <1>2, <2>2, AttributesMeanTheSame
  <2> HIDE DEF f
  <2>5. Remains(f, graph)
    BY <2>3, <2>4 DEF Remains
  <2>6. QED
    BY <2>1, <2>5, RemainsIsTransitive
<1> HIDE DEF f
<1>5. QED
  BY <1>1, <1>3, <1>4 DEF MeaningInv

\* And the loader.
LEMMA ReloadMeansTheSame ==
  ASSUME IInv, MeaningInv, Reload
  PROVE  MeaningInv'
<1>1. /\ status = "optimized" /\ status' # "running" /\ UNCHANGED << original, runs >>
      /\ \/ Accepts(graph) /\ graph' = Loaded(graph)
         \/ graph' = graph
  BY DEF Reload
<1>2. runs > 0 /\ IsGraph(graph) /\ HasShapes(graph)
  BY <1>1 DEF IInv, ProgressInv, GraphInv, MeaningInv
<1>3. HasShapes(graph')
  BY <1>1, <1>2, LoadedKeepsShapes DEF IsGraph
<1>4. ASSUME Verifies(original), Ordinary(original)
      PROVE  Remains(graph', original)
  <2>1. Remains(graph, original)
    BY <1>2, <1>4 DEF MeaningInv
  <2>2. CASE graph' = graph
    BY <2>1, <2>2
  <2>3. CASE Accepts(graph) /\ graph' = Loaded(graph)
    <3>1. OperandsExist(graph) /\ Ordinary(graph)
      BY <2>1 DEF Remains
    <3>2. Remains(graph', graph)
      BY <1>2, <2>3, <3>1, LoadedMeansTheSame
    <3>3. QED
      BY <2>1, <3>2, RemainsIsTransitive
  <2>4. QED
    BY <1>1, <2>2, <2>3
<1>5. QED
  BY <1>1, <1>3, <1>4 DEF MeaningInv

\* Every other step keeps the graph.
LEMMA NextMeansTheSame ==
  ASSUME IInv, MeaningInv, [Next]_vars
  PROVE  MeaningInv'
<1>1. ASSUME NEW level \in Levels, NEW d \in Documents, Accepts(d), Optimize(Loaded(d), level)
      PROVE  MeaningInv'
  <2>1. HasShapes(Loaded(d))
    BY <1>1, GraphsAssumption, LoadedKeepsShapes
  <2>2. QED
    BY <1>1, <2>1, OptimizeMeansTheSame
<1>2. ASSUME NEW level \in Levels, NEW g \in Graphs, Optimize(g, level)
      PROVE  MeaningInv'
  BY <1>2, GraphsAssumption, OptimizeMeansTheSame
<1>3. ASSUME NEW level \in Levels, runs > 0, Optimize(graph, level)
      PROVE  MeaningInv'
  BY <1>3, OptimizeMeansTheSame DEF MeaningInv
<1>4. CASE PreVerify
  BY <1>4 DEF PreVerify, MeaningInv
<1>5. CASE RunPass
  BY <1>5, RunPassMeansTheSame
<1>6. CASE PassFails
  BY <1>6, PassFailsMeansTheSame
<1>7. CASE PostVerify \/ VerificationFails
  BY <1>7 DEF PostVerify, VerificationFails, Abort, MeaningInv
<1>8. CASE Reload
  BY <1>8, ReloadMeansTheSame
<1>9. CASE UNCHANGED vars
  BY <1>9 DEF vars, MeaningInv
<1>10. QED
  BY <1>1, <1>2, <1>3, <1>4, <1>5, <1>6, <1>7, <1>8, <1>9 DEF Next

\* At every state the graph is what has become of the given one.
THEOREM MeaningInvariance == Spec => []MeaningInv
<1>1. Init => MeaningInv
  BY DEF Init, MeaningInv
<1>2. IInv /\ MeaningInv /\ [Next]_vars => MeaningInv'
  BY NextMeansTheSame
<1>3. QED
  BY <1>1, <1>2, Invariance, PTL DEF Spec

\* Whatever the passes fold, eliminate, fuse, erase and put in another order, also in
\* an optimization that fails and after the graph has been loaded again, declared
\* outputs and results of side effects are computed as the given graph says, if it
\* verifies and is ordinary.
THEOREM MeaningKeptHolds == Spec => [](Ordinary(original) => MeaningKept)
<1>1. IInv /\ MeaningInv => (Ordinary(original) => MeaningKept)
  <2> SUFFICES ASSUME IInv, MeaningInv, Ordinary(original), runs > 0, Verifies(original)
               PROVE  \A v \in Observable(original) :
                        Denotation(graph)[v] = Denotation(original)[v]
    BY DEF MeaningKept
  <2>1. Remains(graph, original)
    BY DEF MeaningInv
  <2>2. Observable(graph) \subseteq DOMAIN graph.values
    <3>1. OperandsExist(graph) /\ graph.outputs \subseteq DOMAIN graph.values
      BY <2>1 DEF Remains, Ordinary
    <3>2. IsGraph(graph)
      BY DEF IInv, GraphInv
    <3>3. \A i \in Operations(graph) : Output(graph, i) \in DOMAIN graph.values
      <4>1. \A i \in Operations(graph) : Writes(graph, i) = { Output(graph, i) }
        BY <3>2, ResultFacts
      <4>2. QED
        BY <3>1, <4>1 DEF OperandsExist
    <3>4. SideEffects(graph) \subseteq Operations(graph)
      BY DEF SideEffects
    <3>5. QED
      BY <3>1, <3>3, <3>4 DEF Observable
  <2>3. QED
    BY <2>1, <2>2 DEF Remains, SameMeaning
<1>2. QED
  BY <1>1, Invariance, MeaningInvariance, PTL

(***************************************************************************)
(* What the verifier asks of a graph, operation by operation.              *)
(***************************************************************************)

Fits(g, i) == ShapeAgrees(g, i) /\ DtypeAgrees(g, i)

\* The attributes it looks at, but for the axis.
VerifiedAttributes ==
  {"bias", "in_features", "out_features", "epsilon", "shape", "permutation", "value"}

\* The axis of new is the one of op, or that counted from the other end.
SameAxis(new, op, rank) ==
  Has(op, "axis") =>
    /\ Has(new, "axis")
    /\ \/ new.attributes["axis"] = op.attributes["axis"]
       \/ op.attributes["axis"] < 0 /\ new.attributes["axis"] = op.attributes["axis"] + rank

\* Operation j of h looks to the verifier like operation i of g.
LooksLike(h, j, g, i) ==
  LET new == h.ops[j]
      op  == g.ops[i]
  IN  /\ new.type = op.type /\ new.outputs = op.outputs
      /\ DOMAIN new.inputs = DOMAIN op.inputs /\ Len(new.inputs) = Len(op.inputs)
      /\ \A k \in DOMAIN op.inputs :
           /\ ShapeOf(h, new.inputs[k]) = ShapeOf(g, op.inputs[k])
           /\ DtypeOf(h, new.inputs[k]) = DtypeOf(g, op.inputs[k])
      /\ ShapeOf(h, op.outputs[1]) = ShapeOf(g, op.outputs[1])
      /\ DtypeOf(h, op.outputs[1]) = DtypeOf(g, op.outputs[1])
      /\ \A name \in VerifiedAttributes :
           /\ Has(new, name) <=> Has(op, name)
           /\ Has(op, name) => new.attributes[name] = op.attributes[name]
      /\ op.type \in {"softmax", "rms_norm"} => SameAxis(new, op, Len(ShapeOf(g, op.inputs[1])))

\* What computes reads something.
LEMMA FirstOperand ==
  ASSUME NEW g, HasOperations(g), NEW i \in Operations(g),
         g.ops[i].type \notin {"input", "parameter", "constant"}
  PROVE  1 \in DOMAIN g.ops[i].inputs /\ g.ops[i].inputs[1] \in Reads(g, i)
<1>1. Len(g.ops[i].inputs) > 0
  BY DEF HasOperations, IsOperation
<1>2. 1 \in DOMAIN g.ops[i].inputs
  BY <1>1, OperandFacts
<1>3. QED
  BY <1>2 DEF Reads, Elements

\* So it has the shapes that go together,
LEMMA ShapeAgreesAlike ==
  ASSUME NEW g, HasOperations(g), NEW i \in Operations(g), ShapeAgrees(g, i),
         g.ops[i].type \notin {"input", "parameter", "constant"} =>
           Len(ShapeOf(g, g.ops[i].inputs[1])) \in Nat,
         NEW h, NEW j, LooksLike(h, j, g, i)
  PROVE  ShapeAgrees(h, j)
<1> DEFINE op == g.ops[i]
           new == h.ops[j]
           in == [ k \in DOMAIN op.inputs |-> ShapeOf(g, op.inputs[k]) ]
           in2 == [ k \in DOMAIN new.inputs |-> ShapeOf(h, new.inputs[k]) ]
           out == ShapeOf(g, op.outputs[1])
           out2 == ShapeOf(h, new.outputs[1])
<1>1. in2 = in /\ out2 = out /\ new.type = op.type
  BY DEF LooksLike
<1>2. \A name \in VerifiedAttributes :
        /\ Has(new, name) <=> Has(op, name)
        /\ Has(op, name) => new.attributes[name] = op.attributes[name]
  BY DEF LooksLike
<1>3. op.type \in OperationTypes
  BY DEF HasOperations, IsOperation
<1>4. op.type \notin {"input", "parameter", "constant"} => in[1] = ShapeOf(g, op.inputs[1])
  BY FirstOperand
<1>5. op.type \in {"softmax", "rms_norm"} => SameAxis(new, op, Len(in[1])) /\ Len(in[1]) \in Nat
  BY <1>4 DEF LooksLike
<1>6. CASE op.type \in {"input", "parameter", "constant"}
  BY <1>1, <1>6 DEF ShapeAgrees, ElementwiseTypes
<1>7. CASE op.type = "mat_mul"
  <2>1. MatMulAgrees(op, in, out)
    BY <1>7 DEF ShapeAgrees, ElementwiseTypes
  <2> HIDE DEF in, out, op, new
  <2>2. MatMulAgrees(new, in, out)
    BY <1>2, <2>1 DEF MatMulAgrees, Is, VerifiedAttributes
  <2>3. MatMulAgrees(new, in2, out2)
    BY <1>1, <2>2
  <2>4. QED
    BY <1>1, <1>7, <2>3 DEF ShapeAgrees, in, out, op, new, ElementwiseTypes
<1>8. CASE op.type = "linear"
  <2>1. LinearAgrees(op, in, out)
    BY <1>8 DEF ShapeAgrees, ElementwiseTypes
  <2> HIDE DEF in, out, op, new
  <2>2. LinearAgrees(new, in, out)
    BY <1>2, <2>1 DEF LinearAgrees, Is, VerifiedAttributes
  <2>3. LinearAgrees(new, in2, out2)
    BY <1>1, <2>2
  <2>4. QED
    BY <1>1, <1>8, <2>3 DEF ShapeAgrees, in, out, op, new, ElementwiseTypes
<1>9. CASE op.type \in ElementwiseTypes
  <2>1. Broadcastable(in[1], in[2]) /\ out = Broadcast(in[1], in[2])
    BY <1>9 DEF ShapeAgrees, ElementwiseTypes
  <2> HIDE DEF in, out, in2, out2
  <2>2. Broadcastable(in2[1], in2[2]) /\ out2 = Broadcast(in2[1], in2[2])
    BY <1>1, <2>1
  <2>3. QED
    BY <1>1, <1>9, <2>2 DEF ShapeAgrees, in2, out2, ElementwiseTypes
<1>10. CASE op.type = "rms_norm"
  <2>1. RMSNormAgrees(op, in, out)
    BY <1>10 DEF ShapeAgrees, ElementwiseTypes
  <2>2. SameAxis(new, op, Len(in[1])) /\ Len(in[1]) \in Nat
    BY <1>5, <1>10
  <2> HIDE DEF in, out, op, new
  <2>3. Is(new, "axis", -1) \/ Is(new, "axis", Len(in[1]) - 1)
    BY <2>1, <2>2 DEF RMSNormAgrees, Is, SameAxis
  <2>4. RMSNormAgrees(new, in, out)
    BY <1>2, <2>1, <2>3 DEF RMSNormAgrees, VerifiedAttributes
  <2>5. RMSNormAgrees(new, in2, out2)
    BY <1>1, <2>4
  <2>6. QED
    BY <1>1, <1>10, <2>5 DEF ShapeAgrees, in, out, op, new, ElementwiseTypes
<1>11. CASE op.type = "gelu"
  <2>1. out = in[1]
    BY <1>11 DEF ShapeAgrees, ElementwiseTypes
  <2> HIDE DEF in, out, in2, out2
  <2>2. out2 = in2[1]
    BY <1>1, <2>1
  <2>3. QED
    BY <1>1, <1>11, <2>2 DEF ShapeAgrees, in2, out2, ElementwiseTypes
<1>12. CASE op.type = "softmax"
  <2>1. /\ Has(op, "axis") /\ op.attributes["axis"] \in -Len(in[1]) .. Len(in[1]) - 1
        /\ out = in[1]
    BY <1>12 DEF ShapeAgrees, ElementwiseTypes
  <2>2. SameAxis(new, op, Len(in[1])) /\ Len(in[1]) \in Nat
    BY <1>5, <1>12
  <2> HIDE DEF in, out, in2, out2, op, new
  <2>3. Has(new, "axis") /\ new.attributes["axis"] \in -Len(in[1]) .. Len(in[1]) - 1
    BY <2>1, <2>2 DEF SameAxis
  <2>4. /\ Has(new, "axis") /\ new.attributes["axis"] \in -Len(in2[1]) .. Len(in2[1]) - 1
        /\ out2 = in2[1]
    BY <1>1, <2>1, <2>3
  <2>5. QED
    BY <1>1, <1>12, <2>4 DEF ShapeAgrees, in2, out2, op, new, ElementwiseTypes
<1>13. CASE op.type = "reshape"
  <2>1. ReshapeAgrees(op, in, out)
    BY <1>13 DEF ShapeAgrees, ElementwiseTypes
  <2> HIDE DEF in, out, op, new
  <2>2. ReshapeAgrees(new, in, out)
    BY <1>2, <2>1 DEF ReshapeAgrees, VerifiedAttributes
  <2>3. ReshapeAgrees(new, in2, out2)
    BY <1>1, <2>2
  <2>4. QED
    BY <1>1, <1>13, <2>3 DEF ShapeAgrees, in, out, op, new, ElementwiseTypes
<1>14. CASE op.type = "transpose"
  <2>1. TransposeAgrees(op, in, out)
    BY <1>14 DEF ShapeAgrees, ElementwiseTypes
  <2> HIDE DEF in, out, op, new
  <2>2. TransposeAgrees(new, in, out)
    BY <1>2, <2>1 DEF TransposeAgrees, VerifiedAttributes
  <2>3. TransposeAgrees(new, in2, out2)
    BY <1>1, <2>2
  <2>4. QED
    BY <1>1, <1>14, <2>3 DEF ShapeAgrees, in, out, op, new, ElementwiseTypes
<1>15. CASE op.type = "causal_mask"
  <2>1. /\ Len(in[1]) >= 2 /\ in[1][Len(in[1]) - 1] = LastOf(in[1])
        /\ out = in[1]
    BY <1>15 DEF ShapeAgrees, ElementwiseTypes
  <2> HIDE DEF in, out, in2, out2
  <2>2. /\ Len(in2[1]) >= 2 /\ in2[1][Len(in2[1]) - 1] = LastOf(in2[1])
        /\ out2 = in2[1]
    BY <1>1, <2>1
  <2>3. QED
    BY <1>1, <1>15, <2>2 DEF ShapeAgrees, in2, out2, ElementwiseTypes
<1>16. QED
  BY <1>3, <1>6, <1>7, <1>8, <1>9, <1>10, <1>11, <1>12, <1>13, <1>14, <1>15
     DEF OperationTypes, ElementwiseTypes

\* and the dtypes.
LEMMA DtypeAgreesAlike ==
  ASSUME NEW g, HasOperations(g), NEW i \in Operations(g), DtypeAgrees(g, i),
         NEW h, NEW j, LooksLike(h, j, g, i)
  PROVE  DtypeAgrees(h, j)
<1> DEFINE op == g.ops[i]
           new == h.ops[j]
<1>1. /\ new.type = op.type /\ DOMAIN new.inputs = DOMAIN op.inputs
      /\ new.outputs[1] = op.outputs[1]
      /\ \A k \in DOMAIN op.inputs : DtypeOf(h, new.inputs[k]) = DtypeOf(g, op.inputs[k])
      /\ ShapeOf(h, op.outputs[1]) = ShapeOf(g, op.outputs[1])
      /\ DtypeOf(h, op.outputs[1]) = DtypeOf(g, op.outputs[1])
  BY DEF LooksLike
<1>2. Has(op, "value") => Has(new, "value") /\ new.attributes["value"] = op.attributes["value"]
  BY DEF LooksLike, VerifiedAttributes
<1>3. op.type \in OperationTypes
  BY DEF HasOperations, IsOperation
<1>4. op.type \notin {"input", "parameter", "constant"} => 1 \in DOMAIN op.inputs
  BY FirstOperand
<1> HIDE DEF op, new
<1>5. ASSUME NEW allowed, 1 \in DOMAIN op.inputs, SameDtype(g, op, allowed)
      PROVE  SameDtype(h, new, allowed)
  BY <1>1, <1>5 DEF SameDtype
<1>6. CASE op.type \in {"input", "parameter"}
  BY <1>1, <1>6 DEF DtypeAgrees, new
<1>7. CASE op.type = "constant"
  <2>1. ConstantAgrees(g, op)
    BY <1>7 DEF DtypeAgrees, op
  <2>2. ConstantAgrees(h, new)
    BY <1>1, <1>2, <2>1 DEF ConstantAgrees
  <2>3. QED
    BY <1>1, <1>7, <2>2 DEF DtypeAgrees, new
<1>8. CASE op.type \in {"mat_mul", "linear", "add", "multiply"}
  <2>1. SameDtype(g, op, {"float32", "int64"})
    BY <1>8 DEF DtypeAgrees, op
  <2>2. SameDtype(h, new, {"float32", "int64"})
    BY <1>4, <1>5, <1>8, <2>1
  <2>3. QED
    BY <1>1, <1>8, <2>2 DEF DtypeAgrees, new
<1>9. CASE op.type \in {"divide", "rms_norm", "gelu", "softmax", "causal_mask"}
  <2>1. SameDtype(g, op, {"float32"})
    BY <1>9 DEF DtypeAgrees, op
  <2>2. SameDtype(h, new, {"float32"})
    BY <1>4, <1>5, <1>9, <2>1
  <2>3. QED
    BY <1>1, <1>9, <2>2 DEF DtypeAgrees, new
<1>10. CASE op.type \in {"reshape", "transpose"}
  <2>1. DtypeOf(g, op.outputs[1]) = DtypeOf(g, op.inputs[1])
    BY <1>10 DEF DtypeAgrees, op
  <2>2. DtypeOf(h, new.outputs[1]) = DtypeOf(h, new.inputs[1])
    BY <1>1, <1>4, <1>10, <2>1
  <2>3. QED
    BY <1>1, <1>10, <2>2 DEF DtypeAgrees, new
<1>11. QED
  BY <1>3, <1>6, <1>7, <1>8, <1>9, <1>10 DEF OperationTypes

\* What looks like an operation that fits, fits.
LEMMA FitsAlike ==
  ASSUME NEW g, IsGraph(g), HasShapes(g), OperandsExist(g), NEW i \in Operations(g), Fits(g, i),
         NEW h, NEW j, LooksLike(h, j, g, i)
  PROVE  Fits(h, j)
<1>1. HasOperations(g)
  BY DEF IsGraph
<1>2. g.ops[i].type \notin {"input", "parameter", "constant"} =>
        Len(ShapeOf(g, g.ops[i].inputs[1])) \in Nat
  <2> SUFFICES ASSUME g.ops[i].type \notin {"input", "parameter", "constant"}
               PROVE  Len(ShapeOf(g, g.ops[i].inputs[1])) \in Nat
    OBVIOUS
  <2>1. g.ops[i].inputs[1] \in DOMAIN g.values
    BY <1>1, FirstOperand DEF OperandsExist
  <2>2. QED
    BY <2>1, SequenceFacts DEF HasShapes
<1>3. ShapeAgrees(g, i) /\ DtypeAgrees(g, i)
  BY DEF Fits
<1>4. QED
  BY <1>1, <1>2, <1>3, ShapeAgreesAlike, DtypeAgreesAlike DEF Fits

\* A projection that was fused with a bias that does not have its width.
IsWide(g, i) ==
  /\ g.ops[i].type \in {"linear", "mat_mul"} /\ DOMAIN g.ops[i].inputs = 1 .. 3
  /\ FusesWideBias(g, g.ops[i])

\* Nothing else is wrong with the graph.
AlmostVerifies(g) ==
  /\ OperandsExist(g)
  /\ \A i \in Operations(g) : Fits(g, i) \/ IsWide(g, i)

\* Then it verifies, or something is fused with such a bias.
LEMMA AlmostVerifiesFacts ==
  ASSUME NEW g
  PROVE  /\ Verifies(g) => AlmostVerifies(g)
         /\ AlmostVerifies(g) =>
              Verifies(g) \/ \E i \in Operations(g) : FusesWideBias(g, g.ops[i])
BY DEF Verifies, AlmostVerifies, Fits, IsWide

\* An operation is as right in a graph in which its values have the same shapes and dtypes.
LEMMA SameFits ==
  ASSUME NEW g, IsGraph(g), HasShapes(g), OperandsExist(g), NEW i \in Operations(g),
         NEW h, NEW j, h.ops[j] = g.ops[i],
         \A v \in Reads(g, i) \cup Writes(g, i) :
           ShapeOf(h, v) = ShapeOf(g, v) /\ DtypeOf(h, v) = DtypeOf(g, v)
  PROVE  /\ Fits(g, i) => Fits(h, j)
         /\ IsWide(g, i) => IsWide(h, j)
<1>1. g.ops[i].outputs[1] \in Writes(g, i)
  BY ResultFacts DEF Output
<1>2. \A k \in DOMAIN g.ops[i].inputs : g.ops[i].inputs[k] \in Reads(g, i)
  BY DEF Reads, Elements
<1>3. \A k \in DOMAIN g.ops[i].inputs :
        /\ ShapeOf(h, g.ops[i].inputs[k]) = ShapeOf(g, g.ops[i].inputs[k])
        /\ DtypeOf(h, g.ops[i].inputs[k]) = DtypeOf(g, g.ops[i].inputs[k])
  BY <1>2
<1>4. Fits(g, i) => Fits(h, j)
  <2>1. SameAxis(h.ops[j], g.ops[i], Len(ShapeOf(g, g.ops[i].inputs[1])))
    BY DEF SameAxis
  <2>2. LooksLike(h, j, g, i)
    BY <1>1, <1>3, <2>1 DEF LooksLike
  <2>3. QED
    BY <2>2, FitsAlike
<1>5. IsWide(g, i) => IsWide(h, j)
  <2> SUFFICES ASSUME IsWide(g, i) PROVE IsWide(h, j)
    OBVIOUS
  <2>1. 2 \in DOMAIN g.ops[i].inputs /\ 3 \in DOMAIN g.ops[i].inputs
    BY DEF IsWide
  <2>2. QED
    BY <1>3, <2>1 DEF IsWide, FusesWideBias, Width
<1>6. QED
  BY <1>4, <1>5

\* Without operations and values that are apart, in whatever order.
LEMMA SelectionAlmostVerifies ==
  ASSUME NEW g, IsGraph(g), HasShapes(g), AlmostVerifies(g),
         NEW positions, NEW values, Apart(g, positions, values),
         NEW h, NEW order, Rearranges(h, g, order),
         \A n \in 1 .. Len(order) : order[n] \notin positions,
         DOMAIN h.values = DOMAIN g.values \ values,
         \A v \in DOMAIN h.values : h.values[v] = g.values[v]
  PROVE  AlmostVerifies(h)
<1>0. HasOperations(g) /\ OperandsExist(g)
  BY DEF IsGraph, AlmostVerifies
<1>1. /\ Operations(h) = 1 .. Len(order)
      /\ \A n \in 1 .. Len(order) :
           /\ order[n] \in Operations(g) /\ h.ops[n] = g.ops[order[n]]
           /\ Reads(h, n) = Reads(g, order[n]) /\ Writes(h, n) = Writes(g, order[n])
  <2>1. \A n \in 1 .. Len(order) : h.ops[n] = g.ops[order[n]]
    BY DEF Rearranges
  <2>2. QED
    BY <1>0, <2>1, RearrangedFacts
<1>2. ASSUME NEW n \in 1 .. Len(order)
      PROVE  /\ Reads(h, n) \cup Writes(h, n) \subseteq DOMAIN h.values
             /\ Fits(h, n) \/ IsWide(h, n)
  <2>1. order[n] \in Operations(g) \ positions
    BY <1>1
  <2>2. (Reads(g, order[n]) \cup Writes(g, order[n])) \cap values = {}
    BY <2>1 DEF Apart
  <2>3. Reads(g, order[n]) \cup Writes(g, order[n]) \subseteq DOMAIN g.values
    BY <1>0, <2>1 DEF OperandsExist
  <2>4. Reads(g, order[n]) \cup Writes(g, order[n]) \subseteq DOMAIN h.values
    BY <2>2, <2>3
  <2>5. \A v \in Reads(g, order[n]) \cup Writes(g, order[n]) :
          ShapeOf(h, v) = ShapeOf(g, v) /\ DtypeOf(h, v) = DtypeOf(g, v)
    BY <2>4 DEF ShapeOf, DtypeOf
  <2>6. Fits(g, order[n]) \/ IsWide(g, order[n])
    BY <2>1 DEF AlmostVerifies
  <2>7. Fits(h, n) \/ IsWide(h, n)
    BY <1>0, <1>1, <2>1, <2>5, <2>6, SameFits
  <2>8. QED
    BY <1>1, <2>4, <2>7
<1>3. QED
  BY <1>1, <1>2 DEF AlmostVerifies, OperandsExist

\* Erasing what is apart.
LEMMA ErasedAlmostVerifies ==
  ASSUME NEW g, IsGraph(g), HasShapes(g), AlmostVerifies(g),
         NEW positions, NEW values, Apart(g, positions, values)
  PROVE  AlmostVerifies(Erased(g, positions, values))
<1> DEFINE h == Erased(g, positions, values)
           order == InOrder(Operations(g) \ positions)
<1>0. HasOperations(g)
  BY DEF IsGraph
<1>1. /\ Rearranges(h, g, order)
      /\ \A n \in 1 .. Len(order) : order[n] \in Operations(g) \ positions
  BY <1>0, ErasedRearranges
<1>2. h.values = [ v \in DOMAIN g.values \ values |-> g.values[v] ]
  BY <1>0 DEF Erased, Reordered, HasOperations
<1> HIDE DEF h, order
<1>3. /\ DOMAIN h.values = DOMAIN g.values \ values
      /\ \A v \in DOMAIN h.values : h.values[v] = g.values[v]
  BY <1>2
<1>4. AlmostVerifies(h)
  BY <1>1, <1>3, SelectionAlmostVerifies
<1>5. QED
  BY <1>4 DEF h

\* A canonicalised operation fits.
LEMMA CanonicalFits ==
  ASSUME NEW g, IsGraph(g), HasShapes(g), OperandsExist(g), NEW i \in Operations(g), Fits(g, i)
  PROVE  Fits(WithCanonicalAttributes(g), i)
<1> DEFINE h == WithCanonicalAttributes(g)
           op == g.ops[i]
           new == h.ops[i]
           axis == CanonicalAxis(g, op)
           defaults == Defaults(op.type)
<1>1. DOMAIN g.ops = 1 .. Len(g.ops) /\ Operations(g) = 1 .. Len(g.ops)
      /\ {"ops", "values", "inputs", "outputs"} \subseteq DOMAIN g
      /\ IsOperation(op)
  BY PositionFacts DEF IsGraph, HasOperations, Operations
<1>2. h.values = g.values /\ new = [ op EXCEPT !.attributes = CanonicalAttributes(g, op) ]
  BY <1>1 DEF WithCanonicalAttributes
<1> HIDE DEF h
<1>3. /\ new.type = op.type /\ new.inputs = op.inputs /\ new.outputs = op.outputs
      /\ new.attributes = CanonicalAttributes(g, op)
  BY <1>1, <1>2 DEF IsOperation
<1> HIDE DEF new
<1>4. \A name : name # "no_side_effect" =>
        /\ Has(new, name) <=> name \in DOMAIN axis \cup DOMAIN op.attributes \cup DOMAIN defaults
        /\ Has(new, name) =>
             new.attributes[name] = IF name \in DOMAIN axis THEN axis[name]
                                    ELSE IF name \in DOMAIN op.attributes THEN op.attributes[name]
                                    ELSE defaults[name]
  BY <1>3, CanonicalAttributesFacts DEF Has
<1>5. /\ DOMAIN axis \subseteq {"axis"}
      /\ DOMAIN defaults \subseteq {"approximate", "stable", "diagonal"}
  <2>1. DOMAIN axis \subseteq {"axis"}
    BY DEF CanonicalAxis
  <2>2. DOMAIN defaults \subseteq {"approximate", "stable", "diagonal"}
    BY DEF Defaults
  <2>3. QED
    BY <2>1, <2>2
<1>6. Has(op, "axis") =>
        \/ DOMAIN axis = {}
        \/ /\ "axis" \in DOMAIN axis /\ op.attributes["axis"] < 0
           /\ axis["axis"] = op.attributes["axis"] + Len(ShapeOf(g, op.inputs[1]))
  BY DEF CanonicalAxis
<1> HIDE DEF axis, defaults
<1>7. \A name \in VerifiedAttributes :
        /\ Has(new, name) <=> Has(op, name)
        /\ Has(op, name) => new.attributes[name] = op.attributes[name]
  <2> SUFFICES ASSUME NEW name \in VerifiedAttributes
               PROVE  /\ Has(new, name) <=> Has(op, name)
                      /\ Has(op, name) => new.attributes[name] = op.attributes[name]
    OBVIOUS
  <2>1. name \notin DOMAIN axis /\ name \notin DOMAIN defaults /\ name # "no_side_effect"
    BY <1>5 DEF VerifiedAttributes
  <2>2. QED
    BY <1>4, <2>1 DEF Has
<1>8. SameAxis(new, op, Len(ShapeOf(g, op.inputs[1])))
  <2> SUFFICES ASSUME Has(op, "axis")
               PROVE  /\ Has(new, "axis")
                      /\ \/ new.attributes["axis"] = op.attributes["axis"]
                         \/ /\ op.attributes["axis"] < 0
                            /\ new.attributes["axis"] =
                                 op.attributes["axis"] + Len(ShapeOf(g, op.inputs[1]))
    BY DEF SameAxis
  <2>1. Has(new, "axis") /\ new.attributes["axis"] = IF "axis" \in DOMAIN axis THEN axis["axis"]
                                                     ELSE op.attributes["axis"]
    BY <1>4 DEF Has
  <2>2. QED
    BY <1>6, <2>1
<1>9. \A v : ShapeOf(h, v) = ShapeOf(g, v) /\ DtypeOf(h, v) = DtypeOf(g, v)
  BY <1>2 DEF ShapeOf, DtypeOf
<1>10. LooksLike(h, i, g, i)
  BY <1>3, <1>7, <1>8, <1>9 DEF LooksLike, new, op
<1>11. QED
  BY <1>10, FitsAlike DEF h

\* A folded operation is a constant of the dtype its operands had.
LEMMA FoldAlmostVerifies ==
  ASSUME NEW g, IsGraph(g), HasShapes(g), AlmostVerifies(g),
         NEW n \in Operations(g), Foldable(g, n)
  PROVE  AlmostVerifies(FoldedAt(g, n))
<1> DEFINE h == FoldedAt(g, n)
           op == g.ops[n]
           operands == Operands(g, op)
           expected == DtypeOf(g, op.inputs[1])
<1>0. /\ DOMAIN g.ops = 1 .. Len(g.ops) /\ Operations(g) = 1 .. Len(g.ops)
      /\ {"ops", "values", "inputs", "outputs"} \subseteq DOMAIN g /\ IsOperation(op)
      /\ HasOperations(g) /\ OperandsExist(g)
  BY PositionFacts DEF IsGraph, HasOperations, Operations, AlmostVerifies
<1>1. /\ Follows(h, g)
      /\ \A i \in Operations(g) \ {n} : h.ops[i] = g.ops[i]
      /\ h.ops[n].type = "constant" /\ Reads(h, n) = {}
      /\ DOMAIN h.values = DOMAIN g.values
  BY FoldKeeps, FoldChanges
<1>2. \A v \in DOMAIN g.values : ShapeOf(h, v) = ShapeOf(g, v) /\ DtypeOf(h, v) = DtypeOf(g, v)
  BY FoldKeepsShapes
<1>3. Has(h.ops[n], "value") /\ h.ops[n].attributes["value"].type = FoldedType(op.type, operands)
  BY <1>0 DEF FoldedAt, IsOperation, Has
<1> HIDE DEF h
<1>4. /\ Operations(h) = Operations(g)
      /\ \A i \in Operations(g) : Writes(h, i) = Writes(g, i) /\ Output(h, i) = Output(g, i)
  BY <1>1, FollowsFacts
<1>5. \A i \in Operations(g) : Reads(g, i) \cup Writes(g, i) \subseteq DOMAIN g.values
  BY <1>0 DEF OperandsExist
<1>6. Output(g, n) \in DOMAIN g.values /\ Output(g, n) = op.outputs[1]
  BY <1>5, ResultFacts DEF Output
<1>7. OperandsExist(h)
  <2> SUFFICES ASSUME NEW i \in Operations(g)
               PROVE  Reads(h, i) \cup Writes(h, i) \subseteq DOMAIN g.values
    BY <1>1, <1>4 DEF OperandsExist
  <2>1. i # n => Reads(h, i) = Reads(g, i)
    BY <1>1 DEF Reads
  <2>2. QED
    BY <1>1, <1>4, <1>5, <2>1
<1>8. op.type \in {"add", "multiply", "divide", "gelu"} /\ ShapeOf(g, Output(g, n)) = << >>
  BY DEF Foldable
<1>9. /\ \A k \in DOMAIN op.inputs : DtypeOf(g, op.inputs[k]) = expected
      /\ op.type \in {"add", "multiply"} => expected \in {"float32", "int64"}
      /\ op.type \in {"divide", "gelu"} => expected = "float32"
      /\ DtypeOf(g, op.outputs[1]) = expected
  <2>1. Fits(g, n)
    BY <1>8 DEF AlmostVerifies, IsWide
  <2>2. DtypeAgrees(g, n)
    BY <2>1 DEF Fits
  <2>3. op.type \in {"add", "multiply"} => SameDtype(g, op, {"float32", "int64"})
    BY <2>2 DEF DtypeAgrees
  <2>4. op.type \in {"divide", "gelu"} => SameDtype(g, op, {"float32"})
    BY <2>2 DEF DtypeAgrees
  <2>5. QED
    BY <1>8, <2>3, <2>4 DEF SameDtype
<1>10. 1 \in DOMAIN op.inputs
  BY <1>0, <1>8, FirstOperand
<1>11. ASSUME NEW k \in DOMAIN op.inputs
       PROVE  operands[k].type = expected
  <2>1. op.inputs[k] \in Reads(g, n)
    BY DEF Reads, Elements
  <2>2. PICK i \in Producers(g, op.inputs[k]) : g.ops[i].type = "constant"
    BY <2>1 DEF Foldable, IsScalarConstant, OpType
  <2>3. i \in Operations(g) /\ op.inputs[k] \in Writes(g, i)
    BY DEF Producers
  <2>4. Producer(g, op.inputs[k]) = i /\ op.inputs[k] = Output(g, i)
    BY <2>3, ResultFacts
  <2>5. DtypeAgrees(g, i)
    BY <2>2, <2>3 DEF AlmostVerifies, IsWide, Fits
  <2>6. ConstantAgrees(g, g.ops[i])
    BY <2>2, <2>5 DEF DtypeAgrees
  <2>7. DtypeOf(g, op.inputs[k]) = g.ops[i].attributes["value"].type
    BY <2>4, <2>6 DEF ConstantAgrees, Output
  <2>8. operands[k] = g.ops[i].attributes["value"]
    BY <2>4 DEF Operands, ConstantAt
  <2>9. QED
    BY <1>9, <2>7, <2>8
<1>12. FoldedType(op.type, operands) = expected
  <2>1. DOMAIN operands = DOMAIN op.inputs
    BY DEF Operands
  <2> HIDE DEF op, operands, expected
  <2>2. (\A k \in DOMAIN operands : operands[k].type = "int64") <=> expected = "int64"
    BY <1>10, <1>11, <2>1
  <2>3. CASE op.type \in {"add", "multiply"}
    BY <1>9, <2>2, <2>3 DEF FoldedType
  <2>4. CASE op.type \in {"divide", "gelu"}
    BY <1>9, <2>4 DEF FoldedType
  <2>5. QED
    BY <1>8, <2>3, <2>4
<1>13. Fits(h, n)
  <2>1. ShapeAgrees(h, n)
    BY <1>1 DEF ShapeAgrees, ElementwiseTypes
  <2>2. h.ops[n].outputs[1] = Output(g, n)
    BY <1>4 DEF Output
  <2>3. ConstantAgrees(h, h.ops[n])
    BY <1>2, <1>3, <1>6, <1>8, <1>9, <1>12, <2>2 DEF ConstantAgrees
  <2>4. DtypeAgrees(h, n)
    BY <1>1, <2>3 DEF DtypeAgrees
  <2>5. QED
    BY <2>1, <2>4 DEF Fits
<1>14. \A i \in Operations(g) \ {n} : Fits(h, i) \/ IsWide(h, i)
  <2> SUFFICES ASSUME NEW i \in Operations(g) \ {n} PROVE Fits(h, i) \/ IsWide(h, i)
    OBVIOUS
  <2>1. (Fits(g, i) \/ IsWide(g, i)) /\ h.ops[i] = g.ops[i]
    BY <1>1 DEF AlmostVerifies
  <2>2. \A v \in Reads(g, i) \cup Writes(g, i) :
          ShapeOf(h, v) = ShapeOf(g, v) /\ DtypeOf(h, v) = DtypeOf(g, v)
    BY <1>2, <1>5
  <2>3. QED
    BY <1>0, <2>1, <2>2, SameFits
<1>15. QED
  BY <1>4, <1>7, <1>13, <1>14 DEF AlmostVerifies, h

\* The sum of something and a bias as wide as its last dimension has its shape.
LEMMA BiasedShape ==
  ASSUME NEW shape, IsSequence(shape), Len(shape) > 0,
         \A k \in DOMAIN shape : shape[k] \in Nat \ {0},
         NEW bias, bias = << LastOf(shape) >>
  PROVE  Broadcast(shape, bias) = shape /\ Broadcast(bias, shape) = shape
<1> DEFINE rank == Len(shape)
<1>1. /\ rank \in Nat /\ rank > 0 /\ DOMAIN shape = 1 .. rank
      /\ shape = [ k \in 1 .. rank |-> shape[k] ]
  <2>1. rank \in Nat /\ DOMAIN shape = 1 .. rank
    BY SequenceFacts
  <2>2. shape = [ k \in DOMAIN shape |-> shape[k] ]
    BY DEF IsSequence
  <2>3. QED
    BY <2>1, <2>2
<1>2. Len(bias) = 1 /\ bias[1] = shape[rank]
  BY DEF LastOf
<1>3. Rank(shape, bias) = rank /\ Rank(bias, shape) = rank
  BY <1>1, <1>2 DEF Rank
<1>4. ASSUME NEW k \in 1 .. rank
      PROVE  /\ DimensionFromEnd(shape, rank - k) = shape[k]
             /\ DimensionFromEnd(bias, rank - k) = IF k = rank THEN shape[k] ELSE 1
             /\ shape[k] \in Nat \ {0}
  <2>1. rank - k < Len(shape) /\ Len(shape) - (rank - k) = k
    BY <1>1
  <2>2. rank - k < Len(bias) <=> k = rank
    BY <1>1, <1>2
  <2>3. k = rank => Len(bias) - (rank - k) = 1
    BY <1>1, <1>2
  <2> HIDE DEF rank
  <2>4. QED
    BY <1>1, <1>2, <2>1, <2>2, <2>3 DEF DimensionFromEnd
<1>5. /\ Broadcast(shape, bias) =
           [ k \in 1 .. rank |->
               IF DimensionFromEnd(shape, rank - k) > DimensionFromEnd(bias, rank - k)
               THEN DimensionFromEnd(shape, rank - k) ELSE DimensionFromEnd(bias, rank - k) ]
      /\ Broadcast(bias, shape) =
           [ k \in 1 .. rank |->
               IF DimensionFromEnd(bias, rank - k) > DimensionFromEnd(shape, rank - k)
               THEN DimensionFromEnd(bias, rank - k) ELSE DimensionFromEnd(shape, rank - k) ]
  BY <1>3 DEF Broadcast
<1> HIDE DEF rank
<1>6. /\ Broadcast(shape, bias) = [ k \in 1 .. rank |-> shape[k] ]
      /\ Broadcast(bias, shape) = [ k \in 1 .. rank |-> shape[k] ]
  <2>1. \A k \in 1 .. rank :
          LET s == DimensionFromEnd(shape, rank - k)
              b == DimensionFromEnd(bias, rank - k)
          IN  /\ (IF s > b THEN s ELSE b) = shape[k]
              /\ (IF b > s THEN b ELSE s) = shape[k]
    BY <1>4
  <2>2. QED
    BY <1>5, <2>1
<1>7. QED
  BY <1>1, <1>6

\* The last of a sequence that two more elements were put to.
LEMMA LastOfTwoMore ==
  ASSUME NEW s, IsSequence(s), NEW a, NEW b
  PROVE  LET t == s \o << a, b >>
         IN  Len(t) = Len(s) + 2 /\ LastOf(t) = b
<1> DEFINE E == Elements(s) \cup {a, b}
<1>1. s \in Seq(E) /\ << a, b >> \in Seq(E)
  <2>1. s \in Seq(Elements(s)) /\ Elements(s) \subseteq E /\ a \in E /\ b \in E
    BY DEF IsSequence
  <2> HIDE DEF E
  <2>2. QED
    BY <2>1, SeqMonotonic
<1>2. Len(s) \in Nat /\ Len(<< a, b >>) = 2
  BY SequenceFacts
<1> HIDE DEF E
<1>3. /\ Len(s \o << a, b >>) = Len(s) + Len(<< a, b >>)
      /\ \A i \in 1 .. Len(s) + Len(<< a, b >>) :
           (s \o << a, b >>)[i] = IF i <= Len(s) THEN s[i] ELSE << a, b >>[i - Len(s)]
  BY <1>1, ConcatProperties
<1>4. (s \o << a, b >>)[Len(s) + 2] = b
  BY <1>2, <1>3
<1>5. QED
  BY <1>2, <1>3, <1>4 DEF LastOf

\* A matrix product with a bias as wide as its last dimension has the shape it had.
LEMMA MatMulWithBias ==
  ASSUME NEW op, NEW in, NEW out, MatMulAgrees(op, in, out),
         IsSequence(in[1]), IsSequence(in[2]),
         NEW new, Is(new, "bias", TRUE), NEW more, Len(more) = 3,
         more[1] = in[1], more[2] = in[2], more[3] = << LastOf(in[2]) >>
  PROVE  /\ Len(out) > 0 /\ LastOf(out) = LastOf(in[2])
         /\ MatMulAgrees(new, more, out)
<1> DEFINE left == in[1]
           right == in[2]
           batch == Broadcast(Batch(left), Batch(right))
           expected == batch \o << left[Len(left) - 1], LastOf(right) >>
<1>1. /\ Len(left) >= 2 /\ Len(right) >= 2
      /\ LastOf(left) = right[Len(right) - 1]
      /\ Broadcastable(Batch(left), Batch(right))
      /\ out = expected
  BY DEF MatMulAgrees
<1>2. Len(left) \in Nat /\ Len(right) \in Nat
  BY SequenceFacts
<1>3. Len(Batch(left)) \in Nat /\ Len(Batch(right)) \in Nat
  <2>1. ASSUME NEW s, IsSequence(s), Len(s) >= 2 PROVE Len(Batch(s)) \in Nat
    <3>1. Len(s) \in Nat /\ DOMAIN s = 1 .. Len(s)
      BY <2>1, SequenceFacts
    <3>2. \A i \in 1 .. Len(s) - 2 : s[i] \in Elements(s)
      BY <2>1, <3>1, SequenceFacts
    <3>3. SubSeq(s, 1, Len(s) - 2) \in Seq(Elements(s))
      BY <3>1, <3>2, SubSeqProperties
    <3>4. QED
      BY <3>3, LenProperties DEF Batch
  <2>2. QED
    BY <1>1, <2>1
<1>4. IsSequence(batch)
  <2>1. Rank(Batch(left), Batch(right)) \in Nat
    BY <1>3 DEF Rank
  <2>2. batch = [ k \in 1 .. Rank(Batch(left), Batch(right)) |-> batch[k] ]
    BY DEF Broadcast
  <2> HIDE DEF batch
  <2>3. QED
    BY <2>1, <2>2, FunctionIsSequence
<1> HIDE DEF batch
<1>5. Len(out) = Len(batch) + 2 /\ LastOf(out) = LastOf(right)
  BY <1>1, <1>4, LastOfTwoMore
<1>6. MatMulAgrees(new, more, out)
  BY <1>1, <1>5 DEF MatMulAgrees, batch
<1>7. Len(batch) \in Nat
  BY <1>4, SequenceFacts
<1>8. QED
  BY <1>5, <1>6, <1>7

\* So has the product of a linear projection.
LEMMA LinearWithBias ==
  ASSUME NEW op, NEW in, NEW out, LinearAgrees(op, in, out), IsSequence(in[1]),
         NEW new, Is(new, "bias", TRUE),
         \A name : name \notin {"bias", "fused_activation"} /\ Has(op, name) =>
           Has(new, name) /\ new.attributes[name] = op.attributes[name],
         NEW more, Len(more) = 3,
         more[1] = in[1], more[2] = in[2], more[3] = << in[2][1] >>
  PROVE  /\ Len(out) > 0 /\ LastOf(out) = in[2][1]
         /\ LinearAgrees(new, more, out)
<1>1. /\ Len(in[1]) >= 1 /\ Len(in[2]) = 2 /\ LastOf(in[1]) = in[2][2]
      /\ Is(op, "in_features", in[2][2]) /\ Is(op, "out_features", in[2][1])
      /\ out = [ in[1] EXCEPT ![Len(in[1])] = in[2][1] ]
  BY DEF LinearAgrees
<1>2. /\ Len(in[1]) \in Nat /\ DOMAIN in[1] = 1 .. Len(in[1])
      /\ in[1] \in Seq(Elements(in[1]))
  BY SequenceFacts DEF IsSequence
<1>3. DOMAIN out = 1 .. Len(in[1]) /\ out[Len(in[1])] = in[2][1]
  BY <1>1, <1>2
<1>4. Len(out) = Len(in[1])
  <2>1. out = [ k \in 1 .. Len(in[1]) |-> out[k] ]
    BY <1>1, <1>2
  <2>2. QED
    BY <1>2, <2>1, FunctionIsSequence
<1>5. LinearAgrees(new, more, out)
  BY <1>1 DEF LinearAgrees, Is, Has
<1>6. QED
  BY <1>1, <1>2, <1>3, <1>4, <1>5 DEF LastOf

\* The attributes of a fused operation are those of the projection, and its bias.
LEMMA FusedAttributes ==
  ASSUME NEW g, IsGraph(g), NEW n \in Operations(g), NEW first, Fuses(first, g, n)
  PROVE  LET new  == FusedAt(g, n).ops[n]
             base == g.ops[Fusion(g, n).base]
         IN  /\ Is(new, "bias", TRUE)
             /\ \A name : name \notin {"bias", "fused_activation"} /\ Has(base, name) =>
                  Has(new, name) /\ new.attributes[name] = base.attributes[name]
<1> DEFINE h == FusedAt(g, n)
           b == Fusion(g, n).base
<1>0. DOMAIN g.ops = 1 .. Len(g.ops) /\ Operations(g) = 1 .. Len(g.ops)
  BY PositionFacts DEF IsGraph, Operations
<1>1. {"ops", "values", "inputs", "outputs"} \subseteq DOMAIN g /\ IsOperation(g.ops[n])
  BY DEF IsGraph, HasOperations
<1>2. h.ops[n].attributes =
        With(g.ops[b].attributes, [ bias |-> TRUE, fused_activation |-> "GELU" ])
  BY <1>0, <1>1 DEF FusedAt, IsOperation
<1> HIDE DEF h, b
<1>3. QED
  BY <1>2 DEF Is, Has, With, h, b

\* A bias as wide as the projection leaves the sum the shape of the projection.
LEMMA FusedShapes ==
  ASSUME NEW g, IsGraph(g), HasShapes(g), AlmostVerifies(g), NEW n \in Operations(g), NEW first,
         Fuses(first, g, n)
  PROVE  LET op   == g.ops[n]
             a    == Fusion(g, n).add
             b    == Fusion(g, n).base
             bias == Fusion(g, n).bias
             product == ShapeOf(g, Output(g, b))
         IN  /\ ShapeOf(g, bias) = << LastOf(product) >> /\ Len(product) > 0 =>
                  ShapeOf(g, op.outputs[1]) = product
             /\ DtypeOf(g, op.outputs[1]) = "float32"
             /\ DtypeOf(g, Output(g, b)) = "float32" /\ DtypeOf(g, bias) = "float32"
<1> DEFINE op == g.ops[n]
           a == Fusion(g, n).add
           b == Fusion(g, n).base
           bias == Fusion(g, n).bias
           product == ShapeOf(g, Output(g, b))
           sum == ShapeOf(g, Output(g, a))
<1>0. HasOperations(g) /\ OperandsExist(g)
  BY DEF IsGraph, AlmostVerifies
<1>1. /\ a \in Operations(g) /\ b \in Operations(g)
      /\ op.type = "gelu" /\ Reads(g, n) = { Output(g, a) }
      /\ g.ops[a].type = "add" /\ Len(g.ops[a].inputs) = 2
  BY FusionParts
<1>2. PICK k \in {1, 2} : g.ops[a].inputs[k] = Output(g, b) /\ g.ops[a].inputs[3 - k] = bias
  BY FusionParts
<1> HIDE DEF a, b, bias
<1>3. 1 \in DOMAIN op.inputs /\ op.inputs[1] = Output(g, a)
  BY <1>0, <1>1, FirstOperand
<1>4. DOMAIN g.ops[a].inputs = 1 .. 2
  BY <1>0, <1>1, OperandFacts
<1>5. Fits(g, n) /\ Fits(g, a)
  BY <1>1 DEF AlmostVerifies, IsWide
<1>6. ShapeOf(g, op.outputs[1]) = sum
  BY <1>1, <1>3, <1>5 DEF Fits, ShapeAgrees, ElementwiseTypes
<1>7. sum = Broadcast(ShapeOf(g, g.ops[a].inputs[1]), ShapeOf(g, g.ops[a].inputs[2]))
  BY <1>1, <1>4, <1>5 DEF Fits, ShapeAgrees, ElementwiseTypes, Output
<1>8. Output(g, b) \in DOMAIN g.values
  BY <1>0, <1>1, ResultFacts DEF OperandsExist
<1>9. IsSequence(product) /\ \A i \in DOMAIN product : product[i] \in Nat \ {0}
  BY <1>8 DEF HasShapes
<1>10. ASSUME ShapeOf(g, bias) = << LastOf(product) >>, Len(product) > 0
       PROVE  sum = product
  <2>1. /\ Broadcast(product, ShapeOf(g, bias)) = product
        /\ Broadcast(ShapeOf(g, bias), product) = product
    <3> HIDE DEF product
    <3>1. QED
      BY <1>9, <1>10, BiasedShape
  <2>2. \/ sum = Broadcast(product, ShapeOf(g, bias))
        \/ sum = Broadcast(ShapeOf(g, bias), product)
    BY <1>2, <1>7
  <2>3. QED
    BY <2>1, <2>2
<1>11. DtypeOf(g, op.outputs[1]) = "float32" /\ DtypeOf(g, Output(g, a)) = "float32"
  <2>1. SameDtype(g, op, {"float32"})
    BY <1>1, <1>5 DEF Fits, DtypeAgrees
  <2>2. QED
    BY <1>3, <2>1 DEF SameDtype
<1>12. DtypeOf(g, Output(g, b)) = "float32" /\ DtypeOf(g, bias) = "float32"
  <2>1. SameDtype(g, g.ops[a], {"float32", "int64"})
    BY <1>1, <1>5 DEF Fits, DtypeAgrees
  <2>2. DtypeOf(g, g.ops[a].inputs[1]) = "float32" /\ DtypeOf(g, g.ops[a].inputs[2]) = "float32"
    BY <1>4, <1>11, <2>1 DEF SameDtype, Output
  <2>3. QED
    BY <1>2, <2>2
<1>13. QED
  BY <1>6, <1>10, <1>11, <1>12 DEF a, b, bias

\* So the fused operation fits, or its bias does not have the width of the projection.
LEMMA FusedFits ==
  ASSUME NEW g, IsGraph(g), HasShapes(g), AlmostVerifies(g), NEW n \in Operations(g), NEW first,
         Fuses(first, g, n)
  PROVE  LET h == FusedAt(g, n)
         IN  Fits(h, n) \/ IsWide(h, n)
<1> DEFINE h == FusedAt(g, n)
           b == Fusion(g, n).base
           bias == Fusion(g, n).bias
           base == g.ops[b]
           new == h.ops[n]
           width == Width(g, base)
           in == [ k \in DOMAIN base.inputs |-> ShapeOf(g, base.inputs[k]) ]
           more == [ k \in DOMAIN new.inputs |-> ShapeOf(h, new.inputs[k]) ]
           product == ShapeOf(g, Output(g, b))
<1>0. HasOperations(g) /\ OperandsExist(g)
  BY DEF IsGraph, AlmostVerifies
<1>1. /\ b \in Operations(g) /\ IsProjection(base)
      /\ h.values = g.values /\ new.type = base.type
  BY FusionParts, FusionChanges
<1>2. /\ DOMAIN new.inputs = 1 .. 3 /\ Has(new, "fused_activation")
      /\ new.inputs[1] = base.inputs[1] /\ new.inputs[2] = base.inputs[2]
      /\ new.inputs[3] = bias
  BY FusedOperation
<1>3. /\ Is(new, "bias", TRUE)
      /\ \A name : name \notin {"bias", "fused_activation"} /\ Has(base, name) =>
           Has(new, name) /\ new.attributes[name] = base.attributes[name]
  BY FusedAttributes
<1>4. new.outputs[1] = g.ops[n].outputs[1]
  <2>1. Follows(h, g)
    BY FusionKeeps
  <2>2. QED
    BY <2>1, FollowsFacts DEF Output
<1>5. /\ ShapeOf(g, bias) = << LastOf(product) >> /\ Len(product) > 0 =>
           ShapeOf(g, g.ops[n].outputs[1]) = product
      /\ DtypeOf(g, g.ops[n].outputs[1]) = "float32"
      /\ DtypeOf(g, Output(g, b)) = "float32" /\ DtypeOf(g, bias) = "float32"
  BY FusedShapes
<1> HIDE DEF h, b, bias
<1>6. DOMAIN base.inputs = 1 .. 2
  BY <1>0, <1>1, OperandFacts DEF IsProjection
<1>7. \A v : ShapeOf(h, v) = ShapeOf(g, v) /\ DtypeOf(h, v) = DtypeOf(g, v)
  BY <1>1 DEF ShapeOf, DtypeOf
<1>8. CASE ShapeOf(g, bias) # << width >>
  <2>1. Width(h, new) = width /\ ShapeOf(h, new.inputs[3]) = ShapeOf(g, bias)
    BY <1>1, <1>2, <1>7 DEF Width
  <2>2. FusesWideBias(h, new)
    BY <1>2, <1>8, <2>1 DEF FusesWideBias
  <2>3. QED
    BY <1>1, <1>2, <2>2 DEF IsWide, IsProjection, h
<1>9. CASE ShapeOf(g, bias) = << width >>
  <2>1. Fits(g, b)
    BY <1>1, <1>6 DEF AlmostVerifies, IsWide
  <2>2. IsSequence(in[1]) /\ IsSequence(in[2])
    <3>1. base.inputs[1] \in DOMAIN g.values /\ base.inputs[2] \in DOMAIN g.values
      BY <1>0, <1>1, <1>6 DEF OperandsExist, Reads, Elements
    <3>2. QED
      BY <1>6, <3>1 DEF HasShapes
  <2>3. /\ DOMAIN more = 1 .. 3 /\ more[1] = in[1] /\ more[2] = in[2]
        /\ more[3] = << width >>
    BY <1>2, <1>6, <1>7, <1>9
  <2>4. Len(more) = 3
    <3>1. more = [ k \in 1 .. 3 |-> more[k] ]
      BY <2>3
    <3> HIDE DEF more
    <3>2. QED
      BY <3>1, FunctionIsSequence
  <2>5. /\ ShapeOf(h, new.outputs[1]) = product
        /\ new.type = "mat_mul" => MatMulAgrees(new, more, product)
        /\ new.type = "linear" => LinearAgrees(new, more, product)
    <3>1. CASE base.type = "mat_mul"
      <4>1. MatMulAgrees(base, in, product)
        BY <2>1, <3>1 DEF Fits, ShapeAgrees, ElementwiseTypes, Output
      <4>2. width = LastOf(in[2])
        BY <1>6, <3>1 DEF Width
      <4> HIDE DEF in, more, product, new, base, width
      <4>3. Len(product) > 0 /\ LastOf(product) = width /\ MatMulAgrees(new, more, product)
        BY <1>3, <2>2, <2>3, <2>4, <4>1, <4>2, MatMulWithBias
      <4>4. ShapeOf(h, new.outputs[1]) = product
        BY <1>4, <1>5, <1>7, <1>9, <4>3
      <4>5. QED
        BY <1>1, <3>1, <4>3, <4>4
    <3>2. CASE base.type = "linear"
      <4>1. LinearAgrees(base, in, product)
        BY <2>1, <3>2 DEF Fits, ShapeAgrees, ElementwiseTypes, Output
      <4>2. width = in[2][1]
        BY <1>6, <3>2 DEF Width
      <4> HIDE DEF in, more, product, new, base, width
      <4>3. Len(product) > 0 /\ LastOf(product) = width /\ LinearAgrees(new, more, product)
        <5>1. /\ IsSequence(in[1]) /\ Len(more) = 3
              /\ more[1] = in[1] /\ more[2] = in[2] /\ more[3] = << in[2][1] >>
          BY <2>2, <2>3, <2>4, <4>2
        <5>2. /\ Len(product) > 0 /\ LastOf(product) = in[2][1]
              /\ LinearAgrees(new, more, product)
          BY <1>3, <4>1, <5>1, LinearWithBias
        <5>3. QED
          BY <4>2, <5>2
      <4>4. ShapeOf(h, new.outputs[1]) = product
        BY <1>4, <1>5, <1>7, <1>9, <4>3
      <4>5. QED
        BY <1>1, <3>2, <4>3, <4>4
    <3>3. QED
      BY <1>1, <3>1, <3>2 DEF IsProjection
  <2>6. ShapeAgrees(h, n)
    BY <1>1, <2>5 DEF ShapeAgrees, ElementwiseTypes, IsProjection
  <2>7. SameDtype(h, new, {"float32", "int64"})
    <3>1. SameDtype(g, base, {"float32", "int64"})
      BY <1>1, <2>1 DEF Fits, DtypeAgrees, IsProjection
    <3>2. DtypeOf(g, base.inputs[1]) = "float32" /\ DtypeOf(g, base.inputs[2]) = "float32"
      BY <1>5, <1>6, <3>1 DEF SameDtype, Output
    <3>3. \A k \in DOMAIN new.inputs : DtypeOf(h, new.inputs[k]) = "float32"
      BY <1>2, <1>5, <1>7, <3>2
    <3>4. DtypeOf(h, new.outputs[1]) = "float32"
      BY <1>4, <1>5, <1>7
    <3> HIDE DEF new
    <3>5. QED
      BY <1>2, <3>3, <3>4 DEF SameDtype
  <2>8. DtypeAgrees(h, n)
    BY <1>1, <2>7 DEF DtypeAgrees, IsProjection
  <2>9. QED
    BY <2>6, <2>8 DEF Fits, h
<1>10. QED
  BY <1>8, <1>9

\* The rest of the graph stays as it was.
LEMMA FusionAlmostVerifies ==
  ASSUME NEW g, IsGraph(g), HasShapes(g), AlmostVerifies(g), NEW n \in Operations(g), NEW first,
         Fuses(first, g, n)
  PROVE  AlmostVerifies(FusedAt(g, n))
<1> DEFINE h == FusedAt(g, n)
           b == Fusion(g, n).base
<1>0. HasOperations(g) /\ OperandsExist(g)
  BY DEF IsGraph, AlmostVerifies
<1>1. /\ Follows(h, g) /\ h.values = g.values
      /\ \A i \in Operations(g) \ {n} : h.ops[i] = g.ops[i]
      /\ Reads(h, n) = Reads(g, b) \cup { Fusion(g, n).bias }
  BY FusionKeeps, FusionChanges
<1>2. b \in Operations(g) /\ Fusion(g, n).bias \in Reads(g, Fusion(g, n).add)
      /\ Fusion(g, n).add \in Operations(g)
  <2>1. PICK k \in {1, 2} : g.ops[Fusion(g, n).add].inputs[3 - k] = Fusion(g, n).bias
    BY FusionParts
  <2>2. /\ b \in Operations(g) /\ Fusion(g, n).add \in Operations(g)
        /\ Len(g.ops[Fusion(g, n).add].inputs) = 2
    BY FusionParts
  <2>3. DOMAIN g.ops[Fusion(g, n).add].inputs = 1 .. 2
    BY <1>0, <2>2, OperandFacts
  <2>4. 3 - k \in 1 .. 2
    OBVIOUS
  <2>5. QED
    BY <2>1, <2>2, <2>3, <2>4 DEF Reads, Elements
<1>3. Fits(h, n) \/ IsWide(h, n)
  BY FusedFits
<1> HIDE DEF h, b
<1>4. /\ Operations(h) = Operations(g)
      /\ \A i \in Operations(g) : Writes(h, i) = Writes(g, i)
  BY <1>1, FollowsFacts
<1>5. \A i \in Operations(g) : Reads(g, i) \cup Writes(g, i) \subseteq DOMAIN g.values
  BY <1>0 DEF OperandsExist
<1>6. ASSUME NEW i \in Operations(g) \ {n}
      PROVE  Fits(h, i) \/ IsWide(h, i)
  <2>1. Fits(g, i) \/ IsWide(g, i)
    BY DEF AlmostVerifies
  <2>2. \A v : ShapeOf(h, v) = ShapeOf(g, v) /\ DtypeOf(h, v) = DtypeOf(g, v)
    BY <1>1 DEF ShapeOf, DtypeOf
  <2>3. QED
    BY <1>0, <1>1, <2>1, <2>2, SameFits
<1>7. ASSUME NEW i \in Operations(g)
      PROVE  Reads(h, i) \cup Writes(h, i) \subseteq DOMAIN h.values
  <2>1. i # n => Reads(h, i) = Reads(g, i)
    BY <1>1 DEF Reads
  <2>2. QED
    BY <1>1, <1>2, <1>4, <1>5, <2>1
<1>8. QED
  BY <1>3, <1>4, <1>6, <1>7 DEF AlmostVerifies, OperandsExist, h

\* Operands of the same shape and dtype are as good to the verifier.
LEMMA OtherOperandsAlmostVerify ==
  ASSUME NEW g, IsGraph(g), HasShapes(g), Verifies(g), NEW W,
         \A v \in DOMAIN g.values : W[v] = DtypeOf(g, v),
         NEW h, OtherOperands(h, g, W)
  PROVE  AlmostVerifies(h)
<1>0. HasOperations(g) /\ OperandsExist(g)
  BY DEF IsGraph, Verifies
<1>1. /\ IsGraph(h) /\ Operations(h) = Operations(g) /\ h.values = g.values
      /\ \A i \in Operations(g) : Writes(h, i) = Writes(g, i)
  BY FollowsFacts DEF OtherOperands
<1>2. ASSUME NEW i \in Operations(g)
      PROVE  /\ Reads(h, i) \cup Writes(h, i) \subseteq DOMAIN h.values
             /\ Fits(h, i)
  <2> DEFINE op == g.ops[i]
             new == h.ops[i]
  <2>1. /\ new.type = op.type /\ new.attributes = op.attributes
        /\ DOMAIN new.inputs = DOMAIN op.inputs
        /\ \A k \in DOMAIN op.inputs : MayStandFor(g, W, new.inputs[k], op.inputs[k])
    BY DEF OtherOperands
  <2>2. new.outputs = op.outputs
    <3>1. Operations(g) = 1 .. Len(g.ops)
      BY <1>0, PositionFacts
    <3>2. QED
      BY <3>1 DEF OtherOperands, Follows
  <2>3. Len(new.inputs) = Len(op.inputs)
    <3>1. /\ Len(op.inputs) \in Nat /\ DOMAIN op.inputs = 1 .. Len(op.inputs)
          /\ Len(new.inputs) \in Nat /\ DOMAIN new.inputs = 1 .. Len(new.inputs)
      BY <1>0, <1>1, OperandFacts DEF IsGraph
    <3> HIDE DEF op, new
    <3>2. QED
      BY <2>1, <3>1
  <2>4. Reads(g, i) \cup Writes(g, i) \subseteq DOMAIN g.values
    BY <1>0 DEF OperandsExist
  <2>5. \A k \in DOMAIN op.inputs :
          /\ new.inputs[k] \in DOMAIN g.values /\ op.inputs[k] \in DOMAIN g.values
          /\ ShapeOf(h, new.inputs[k]) = ShapeOf(g, op.inputs[k])
          /\ DtypeOf(h, new.inputs[k]) = DtypeOf(g, op.inputs[k])
    <3>1. \A k \in DOMAIN op.inputs : op.inputs[k] \in DOMAIN g.values
      BY <2>4 DEF Reads, Elements
    <3>2. \A v : ShapeOf(h, v) = ShapeOf(g, v) /\ DtypeOf(h, v) = DtypeOf(g, v)
      BY <1>1 DEF ShapeOf, DtypeOf
    <3> HIDE DEF op, new
    <3>3. QED
      BY <2>1, <3>1, <3>2 DEF MayStandFor
  <2>6. Reads(h, i) \subseteq DOMAIN g.values
    BY <2>1, <2>5 DEF Reads, Elements
  <2>7. /\ ShapeOf(h, op.outputs[1]) = ShapeOf(g, op.outputs[1])
        /\ DtypeOf(h, op.outputs[1]) = DtypeOf(g, op.outputs[1])
    BY <1>1 DEF ShapeOf, DtypeOf
  <2>8. LooksLike(h, i, g, i)
    BY <2>1, <2>2, <2>3, <2>5, <2>7 DEF LooksLike, SameAxis, Has
  <2>9. Fits(g, i)
    BY DEF Verifies, Fits
  <2>10. Fits(h, i)
    BY <1>0, <2>8, <2>9, FitsAlike
  <2>11. QED
    BY <1>1, <2>4, <2>6, <2>10
<1>3. QED
  BY <1>1, <1>2 DEF AlmostVerifies, OperandsExist

\* So a graph almost verifies after reshapes or transposes have been eliminated,
LEMMA EliminationAlmostVerifies ==
  ASSUME NEW pass \in {"reshape", "transpose"}, NEW g, IsGraph(g), HasShapes(g), Verifies(g)
  PROVE  AlmostVerifies(Rewritten(pass, g)[Len(g.ops)])
<1> DEFINE W == [ v \in DOMAIN g.values |-> DtypeOf(g, v) ]
           last == Rewritten(pass, g)[Len(g.ops)]
<1>0. OperandsExist(g) /\ Len(g.ops) \in 0 .. Len(g.ops)
  BY PositionFacts DEF Verifies, IsGraph
<1>1. \A v \in DOMAIN g.values : W[v] = DtypeOf(g, v)
  OBVIOUS
<1> HIDE DEF W
<1>2. ASSUME NEW f, OtherOperands(f, g, W), NEW n \in Operations(g),
             RedundantReshape(f, n) \/ RedundantTranspose(f, n)
      PROVE  MayStandFor(g, W, f.ops[n].inputs[1], Output(g, n))
  <2> DEFINE op == g.ops[n]
             b == op.inputs[1]
  <2>1. /\ 1 \in DOMAIN op.inputs /\ MayStandFor(g, W, f.ops[n].inputs[1], b)
        /\ ShapeOf(g, b) = ShapeOf(g, op.outputs[1])
        /\ \/ op.type = "reshape"
           \/ /\ op.type = "transpose"
              /\ op.attributes["permutation"] = [ k \in 1 .. Len(ShapeOf(g, b)) |-> k - 1 ]
    BY <1>2, EliminatedKeepsShape
  <2>2. b \in DOMAIN g.values /\ Output(g, n) \in DOMAIN g.values
    <3>1. b \in Reads(g, n)
      BY <2>1 DEF Reads, Elements
    <3>2. Output(g, n) \in Writes(g, n)
      BY ResultFacts
    <3>3. QED
      BY <1>0, <3>1, <3>2 DEF OperandsExist
  <2>3. DtypeOf(g, op.outputs[1]) = DtypeOf(g, b)
    BY <2>1 DEF Verifies, DtypeAgrees
  <2>4. W[b] = W[Output(g, n)] /\ ShapeOf(g, b) = ShapeOf(g, Output(g, n))
    BY <1>1, <2>1, <2>2, <2>3 DEF Output
  <2> HIDE DEF b, op
  <2>5. QED
    BY <2>1, <2>4 DEF MayStandFor
<1> HIDE DEF last
<1>3. \A n \in 0 .. Len(g.ops) : OtherOperands(Rewritten(pass, g)[n], g, W)
  BY <1>0, <1>2, EliminationStands
<1>4. OtherOperands(last, g, W)
  BY <1>0, <1>3 DEF last
<1>5. AlmostVerifies(last)
  BY <1>1, <1>4, OtherOperandsAlmostVerify
<1>6. QED
  BY <1>5 DEF last

\* and at every iteration that folds or fuses.
LEMMA RewritingAlmostVerifies ==
  ASSUME NEW pass \in {"fold", "fuse"}, NEW g, IsGraph(g), HasShapes(g), Verifies(g)
  PROVE  \A n \in 0 .. Len(g.ops) : AlmostVerifies(Rewritten(pass, g)[n])
<1> DEFINE h(n) == Rewritten(pass, g)[n]
           N == Len(g.ops)
           S == { n \in 0 .. N : AlmostVerifies(h(n)) }
<1>0. N \in Nat /\ Operations(g) = 1 .. N /\ pass \in Loops
  BY PositionFacts DEF IsGraph, Loops
<1>1. h(0) = g /\ \A n \in 1 .. N : h(n) = Iteration(pass, g, h(n - 1), n)
  BY <1>0, RewrittenIsIteration
<1>2. 0 \in S
  BY <1>0, <1>1, AlmostVerifiesFacts
<1>3. ASSUME NEW n \in 1 .. N, n - 1 \in S
      PROVE  n \in S
  <2>0. n - 1 \in 0 .. N /\ n \in 0 .. N
    BY <1>0
  <2>1. PICK f : f = h(n - 1)
    OBVIOUS
  <2>2. h(n) = Iteration(pass, g, f, n)
    BY <1>1, <2>1
  <2>3. AlmostVerifies(f)
    BY <1>3, <2>1
  <2>4. Follows(f, g) /\ HasShapes(f)
    BY <1>0, <2>0, <2>1, LoopKeeps, LoopKeepsShapes
  <2>5. IsGraph(f) /\ n \in Operations(f)
    BY <1>0, <2>4, FollowsFacts
  <2> HIDE DEF h
  <2>6. AlmostVerifies(h(n))
    <3>1. CASE ~Rewrites(pass, g, f, n)
      BY <2>2, <2>3, <3>1 DEF Iteration
    <3>2. CASE pass = "fold" /\ Rewrites(pass, g, f, n)
      <4>1. Foldable(f, n) /\ h(n) = FoldedAt(f, n)
        BY <2>2, <3>2 DEF Iteration, Rewrites, RewrittenAt
      <4>2. QED
        BY <2>3, <2>4, <2>5, <4>1, FoldAlmostVerifies
    <3>3. CASE pass = "fuse" /\ Rewrites(pass, g, f, n)
      <4>1. Fuses(g, f, n) /\ h(n) = FusedAt(f, n)
        BY <2>2, <3>3 DEF Iteration, Rewrites, RewrittenAt
      <4>2. QED
        BY <2>3, <2>4, <2>5, <4>1, FusionAlmostVerifies
    <3>4. QED
      BY <3>1, <3>2, <3>3
  <2>7. QED
    BY <2>0, <2>6
<1>4. S \in SUBSET (0 .. N)
  OBVIOUS
<1> HIDE DEF S
<1>5. \A n \in 0 .. N : n \in S
  BY <1>0, <1>2, <1>3, <1>4, UpTo
<1>6. QED
  BY <1>5 DEF S

\* Every pass makes of a graph that verifies one that almost does.
LEMMA ApplyAlmostVerifies ==
  ASSUME NEW g, IsGraph(g), HasShapes(g), Verifies(g), NEW pass \in PassNames,
         pass = "canonicalise" => HasStableOrder(g),
         pass \notin {"verify", "canonicalise"} => Topological(g)
  PROVE  AlmostVerifies(Apply(pass, g))
<1>0. HasOperations(g) /\ OperandsExist(g) /\ AlmostVerifies(g)
  BY AlmostVerifiesFacts DEF IsGraph, Verifies
<1>1. CASE pass = "verify"
  BY <1>0, <1>1 DEF Apply
<1>2. CASE pass = "canonicalise"
  <2> DEFINE f == WithCanonicalAttributes(g)
             order == StableOrder(g)
             h == Reordered(f, order)
  <2>1. Apply(pass, g) = h
    BY <1>2 DEF Apply, Canonicalise
  <2>2. IsGraph(f) /\ Operations(f) = Operations(g)
    BY AttributesFacts
  <2>3. HasShapes(f)
    BY AttributesKeepShapes
  <2>4. AlmostVerifies(f)
    <3>1. \A i \in Operations(g) : Fits(f, i)
      BY <1>0, CanonicalFits DEF Verifies, Fits
    <3>2. OperandsExist(f)
      <4>1. f.values = g.values
        BY <1>0 DEF WithCanonicalAttributes, HasOperations
      <4>2. ASSUME NEW i \in Operations(g)
            PROVE  Reads(f, i) = Reads(g, i) /\ Writes(f, i) = Writes(g, i)
        <5>1. /\ DOMAIN g.ops = 1 .. Len(g.ops) /\ Operations(g) = 1 .. Len(g.ops)
              /\ IsOperation(g.ops[i])
          BY <1>0, PositionFacts DEF HasOperations, Operations
        <5>2. f.ops[i] = [ g.ops[i] EXCEPT !.attributes = CanonicalAttributes(g, g.ops[i]) ]
          BY <1>0, <5>1 DEF WithCanonicalAttributes, HasOperations
        <5> HIDE DEF f
        <5>3. f.ops[i].inputs = g.ops[i].inputs /\ f.ops[i].outputs = g.ops[i].outputs
          BY <5>1, <5>2 DEF IsOperation
        <5>4. QED
          BY <5>3 DEF Reads, Writes
      <4> HIDE DEF f
      <4>3. QED
        BY <1>0, <2>2, <4>1, <4>2 DEF OperandsExist
    <3> HIDE DEF f
    <3>3. QED
      BY <2>2, <3>1, <3>2 DEF AlmostVerifies
  <2>5. IsOrdering(g, DataEdges(g) \cup SideEffectEdges(g), order)
    BY PositionFacts, LeastFirstIsOrdering DEF StableOrder, IsGraph, HasOperations, IsOperation
  <2> HIDE DEF f, order
  <2>6. IsSelection(f, order)
    BY <2>2, <2>5 DEF IsSelection, IsOrdering
  <2>7. Rearranges(h, f, order) /\ HasOperations(f)
    BY <2>2, <2>6, ReorderedRearranges DEF IsGraph
  <2>8. h.values = f.values
    BY <2>7 DEF Reordered, HasOperations
  <2> HIDE DEF h
  <2>9. /\ Apart(f, {}, {})
        /\ \A n \in 1 .. Len(order) : order[n] \notin {}
        /\ DOMAIN h.values = DOMAIN f.values \ {}
        /\ \A v \in DOMAIN h.values : h.values[v] = f.values[v]
    BY <2>8 DEF Apart
  <2>10. AlmostVerifies(h)
    BY <2>2, <2>3, <2>4, <2>7, <2>9, SelectionAlmostVerifies
  <2>11. QED
    BY <2>1, <2>10
<1>3. CASE pass = "dead_code"
  <2> DEFINE live == LiveValues(g)
             dead == { i \in Operations(g) : Writes(g, i) \cap live = {} }
             values == DOMAIN g.values \ live
  <2>1. EliminateDeadCode(g) = Erased(g, dead, values) /\ Apart(g, dead, values)
    BY <1>0, <1>3, DeadCodeIsApart
  <2> HIDE DEF live, dead, values
  <2>2. AlmostVerifies(Erased(g, dead, values))
    BY <1>0, <2>1, ErasedAlmostVerifies
  <2>3. QED
    BY <1>3, <2>1, <2>2 DEF Apply
<1>4. CASE pass \in Loops
  <2> DEFINE last == Rewritten(pass, g)[Len(g.ops)]
             removed == Removed(pass, g)
             values == { Output(g, i) : i \in removed }
  <2>0. Len(g.ops) \in 0 .. Len(g.ops)
    BY PositionFacts DEF IsGraph
  <2>1. HasShapes(last) /\ Follows(last, g)
    BY <1>4, <2>0, LoopKeepsShapes, LoopKeeps
  <2>2. Apply(pass, g) = Erased(last, removed, values)
    BY <1>4 DEF Apply, RunLoop, Loops
  <2>3. Apart(last, removed, values)
    <3>1. Topological(g)
      BY <1>4 DEF Loops
    <3>2. QED
      BY <1>4, <3>1, LoopIsApart
  <2>4. AlmostVerifies(last)
    <3>1. CASE pass \in {"fold", "fuse"}
      BY <2>0, <3>1, RewritingAlmostVerifies
    <3>2. CASE pass \in {"reshape", "transpose"}
      BY <3>2, EliminationAlmostVerifies
    <3>3. QED
      BY <1>4, <3>1, <3>2 DEF Loops
  <2> HIDE DEF last, removed, values
  <2>5. IsGraph(last)
    BY <2>1, FollowsFacts
  <2>6. AlmostVerifies(Erased(last, removed, values))
    BY <2>1, <2>3, <2>4, <2>5, ErasedAlmostVerifies
  <2>7. QED
    BY <2>2, <2>6
<1>5. QED
  BY <1>1, <1>2, <1>3, <1>4 DEF PassNames

(***************************************************************************)
(* What a pass can break.                                                  *)
(***************************************************************************)

\* After a pass the graph almost verifies; if it does not, that was all.
WideInv ==
  /\ status = "running" /\ stage = "post" => AlmostVerifies(graph)
  /\ OnlyWideBiasBreaksGraphs

\* The verification after a pass.
LEMMA VerificationFailsWide ==
  ASSUME WideInv, VerificationFails
  PROVE  WideInv'
<1>1. /\ status = "running" /\ stage \in {"pre", "post"} /\ ~Verifies(graph)
      /\ status' = "failed" /\ stage' = stage /\ graph' = graph
  BY DEF VerificationFails, Abort
<1>2. ASSUME stage = "post"
      PROVE  \E i \in Operations(graph) : FusesWideBias(graph, graph.ops[i])
  BY <1>1, <1>2, AlmostVerifiesFacts DEF WideInv
<1>3. QED
  BY <1>1, <1>2 DEF WideInv, OnlyWideBiasBreaksGraphs

\* A pass runs on a graph that verifies.
LEMMA RunPassWide ==
  ASSUME IInv, MeaningInv, RunPass
  PROVE  WideInv'
<1> DEFINE pass == Head(passes)
<1>1. /\ status = "running" /\ stage = "pass" /\ status' = status /\ stage' = "post"
      /\ graph' = Apply(pass, graph)
      /\ pass = "canonicalise" => HasStableOrder(graph)
  BY DEF RunPass
<1>2. passes \in Remaining /\ runs > 0 /\ IsGraph(graph)
  BY <1>1 DEF IInv, ProgressInv, GraphInv
<1>3. pass \in PassNames
  BY <1>2, RemainingFacts
<1>4. pass \notin {"verify", "canonicalise"} => Topological(graph)
  BY <1>1 DEF IInv, GraphInv, Canonicalised
<1> HIDE DEF pass
<1>5. HasShapes(graph) /\ Verifies(graph)
  BY <1>1, <1>2 DEF MeaningInv
<1>6. AlmostVerifies(graph')
  BY <1>1, <1>2, <1>3, <1>4, <1>5, ApplyAlmostVerifies
<1>7. QED
  BY <1>1, <1>6 DEF WideInv, OnlyWideBiasBreaksGraphs

\* Every other step ends the stage after the pass, or keeps everything.
LEMMA NextWide ==
  ASSUME IInv, MeaningInv, WideInv, [Next]_vars
  PROVE  WideInv'
<1>1. ASSUME NEW g, NEW level, Optimize(g, level)
      PROVE  WideInv'
  BY <1>1 DEF Optimize, WideInv, OnlyWideBiasBreaksGraphs
<1>2. CASE PreVerify
  BY <1>2 DEF PreVerify, WideInv, OnlyWideBiasBreaksGraphs
<1>3. CASE RunPass
  BY <1>3, RunPassWide
<1>4. CASE PassFails
  BY <1>4 DEF PassFails, Abort, WideInv, OnlyWideBiasBreaksGraphs
<1>5. CASE PostVerify
  BY <1>5 DEF PostVerify, WideInv, OnlyWideBiasBreaksGraphs
<1>6. CASE VerificationFails
  BY <1>6, VerificationFailsWide
<1>7. CASE Reload
  BY <1>7 DEF Reload, WideInv, OnlyWideBiasBreaksGraphs
<1>8. CASE UNCHANGED vars
  BY <1>8 DEF vars, WideInv, OnlyWideBiasBreaksGraphs
<1>9. QED
  BY <1>1, <1>2, <1>3, <1>4, <1>5, <1>6, <1>7, <1>8 DEF Next

\* A graph that verifies is broken by a pass in one case only, a bias wider than the
\* projection FuseBiasGELUPass fuses it with; everything else the passes fold, eliminate,
\* erase and put in another order has the shapes and dtypes the verifier asks for, and no
\* operand is gone.
THEOREM OnlyWideBiasBreaksGraphsHolds == Spec => []OnlyWideBiasBreaksGraphs
<1>1. Init => WideInv
  BY DEF Init, WideInv, OnlyWideBiasBreaksGraphs
<1>2. IInv /\ MeaningInv /\ WideInv /\ [Next]_vars => WideInv'
  BY NextWide
<1>3. WideInv => OnlyWideBiasBreaksGraphs
  BY DEF WideInv
<1>4. QED
  BY <1>1, <1>2, <1>3, Invariance, MeaningInvariance, PTL DEF Spec
============================================================================
