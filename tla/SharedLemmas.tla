---------------------------- MODULE SharedLemmas ----------------------------
(***************************************************************************)
(* What the proofs about several components rest on: extreme elements of   *)
(* sets of naturals and, for every document of ForgeGraph and GraphLoader, *)
(* what the topological order of the loader is and what a graph it has let *)
(* through has.                                                            *)
(*                                                                         *)
(* LeastFirst is defined by recursion over the length of the order. That   *)
(* the function of that recursion exists, and what its values have, goes   *)
(* by the least length at which it would be otherwise.                     *)
(***************************************************************************)
EXTENDS GraphLoader, SequenceTheorems, FiniteSetTheorems, WellFoundedInduction, TLAPS

(***************************************************************************)
(* Extreme elements.                                                       *)
(***************************************************************************)

\* A nonempty set of naturals has a least element.
LEMMA LeastElement ==
  ASSUME NEW S \in SUBSET Nat, S # {}
  PROVE  \E m \in S : \A x \in S : m <= x
<1> DEFINE R == OpToRel(<, Nat)
<1>1. IsWellFoundedOn(R, Nat)
  BY NatLessThanWellFounded
<1> HIDE DEF R
<1>2. \E m \in S : \A x \in S : <<x, m>> \notin R
  BY <1>1, WFMin
<1>3. PICK m \in S : \A x \in S : <<x, m>> \notin R
  BY <1>2
<1>4. \A x \in S : ~(x < m)
  BY <1>3 DEF R, OpToRel
<1>5. QED
  BY <1>4, SMT

\* A nonempty set of naturals below a bound has a greatest element.
LEMMA GreatestElement ==
  ASSUME NEW n \in Nat, NEW S \in SUBSET (0..n), S # {}
  PROVE  \E m \in S : \A x \in S : x <= m
<1> DEFINE T == { n - x : x \in S }
<1>1. T \in SUBSET Nat /\ T # {}
  <2>1. PICK x \in S : TRUE
    OBVIOUS
  <2>2. n - x \in T
    BY <2>1
  <2>3. T \in SUBSET Nat
    OBVIOUS
  <2>4. QED
    BY <2>2, <2>3
<1>2. PICK d \in T : \A y \in T : d <= y
  BY <1>1, LeastElement
<1>3. PICK m \in S : d = n - m
  BY <1>2
<1>4. \A x \in S : n - m <= n - x
  BY <1>2, <1>3
<1>5. QED
  BY <1>4, SMT

\* What holds at 0, and at every number if it holds at the one before, holds up to N.
LEMMA UpTo ==
  ASSUME NEW N \in Nat, NEW S \in SUBSET (0 .. N), 0 \in S,
         \A n \in 1 .. N : n - 1 \in S => n \in S
  PROVE  \A n \in 0 .. N : n \in S
<1> DEFINE Bad == (0 .. N) \ S
<1> SUFFICES ASSUME Bad # {} PROVE FALSE
  OBVIOUS
<1>0. Bad \in SUBSET Nat
  OBVIOUS
<1>1. PICK m \in Bad : \A n \in Bad : m <= n
  <2> HIDE DEF Bad
  <2>1. QED
    BY <1>0, LeastElement
<1>2. m \in 1 .. N /\ m - 1 \in 0 .. N
  OBVIOUS
<1>3. m - 1 \in S
  BY <1>1, <1>2
<1>4. QED
  BY <1>2, <1>3

\* A function on 1 .. n is a sequence of that length.
LEMMA FunctionToSequence ==
  ASSUME NEW S, NEW n \in Nat, NEW f \in [ 1 .. n -> S ]
  PROVE  f \in Seq(S) /\ Len(f) = n /\ DOMAIN f = 1 .. n
<1>1. f \in Seq(S) /\ DOMAIN f = 1 .. n
  OBVIOUS
<1>2. Len(f) \in Nat /\ DOMAIN f = 1 .. Len(f)
  BY <1>1, LenProperties
<1>3. \A k \in Int : k \in 1 .. n <=> k \in 1 .. Len(f)
  BY <1>1, <1>2
<1>4. (n + 1 \in 1 .. n <=> n + 1 \in 1 .. Len(f))
      /\ (Len(f) + 1 \in 1 .. n <=> Len(f) + 1 \in 1 .. Len(f))
  BY <1>2, <1>3
<1>. QED BY <1>1, <1>2, <1>4

(***************************************************************************)
(* The order.                                                              *)
(***************************************************************************)

\* The operations that may come next.
Candidates(g, edges, before) ==
  { i \in Operations(g) \ Elements(before) :
      \A e \in edges : e[2] = i => e[1] \in Elements(before) }

\* One iteration of the loop of LeastFirst.
Extension(g, edges, before) ==
  IF Candidates(g, edges, before) = {} THEN before
  ELSE Append(before, CHOOSE i \in Candidates(g, edges, before) :
                        \A j \in Candidates(g, edges, before) : g.ops[i].id <= g.ops[j].id)

\* p has the results of the first k iterations.
AreExtensions(g, edges, k, p) ==
  p = [ n \in 0 .. k |-> IF n = 0 THEN << >> ELSE Extension(g, edges, p[n - 1]) ]

\* There are such results for any number of iterations.
LEMMA ExtensionsExist ==
  ASSUME NEW g, NEW edges, NEW k \in Nat
  PROVE  \E p : AreExtensions(g, edges, k, p)
<1> DEFINE Exist(n) == \E p : AreExtensions(g, edges, n, p)
           Missing == { n \in 0 .. k : ~Exist(n) }
<1>1. Exist(0)
  <2>1. AreExtensions(g, edges, 0, [ n \in 0 .. 0 |-> << >> ])
    BY DEF AreExtensions
  <2>2. QED
    BY <2>1
<1>2. ASSUME NEW m \in Nat \ {0}, Exist(m - 1)
      PROVE  Exist(m)
  <2>1. PICK p : AreExtensions(g, edges, m - 1, p)
    BY <1>2
  <2> DEFINE q == [ n \in 0 .. m |-> IF n < m THEN p[n] ELSE Extension(g, edges, p[m - 1]) ]
  <2>2. \A n \in 0 .. m - 1 : p[n] = IF n = 0 THEN << >> ELSE Extension(g, edges, p[n - 1])
    BY <2>1 DEF AreExtensions
  <2>3. \A n \in 0 .. m : q[n] = IF n = 0 THEN << >> ELSE Extension(g, edges, q[n - 1])
    <3> SUFFICES ASSUME NEW n \in 0 .. m
                 PROVE  q[n] = IF n = 0 THEN << >> ELSE Extension(g, edges, q[n - 1])
      OBVIOUS
    <3>1. n # 0 => q[n - 1] = p[n - 1]
      OBVIOUS
    <3>2. CASE n < m
      BY <2>2, <3>1, <3>2
    <3>3. CASE n = m
      BY <3>1, <3>3
    <3>4. QED
      BY <3>2, <3>3
  <2>4. q = [ n \in 0 .. m |-> IF n = 0 THEN << >> ELSE Extension(g, edges, q[n - 1]) ]
    BY <2>3
  <2>5. QED
    BY <2>4 DEF AreExtensions
<1> HIDE DEF Exist
<1>3. Missing = {}
  <2> SUFFICES ASSUME Missing # {}
               PROVE  FALSE
    OBVIOUS
  <2>0. Missing \in SUBSET Nat
    OBVIOUS
  <2>1. PICK m \in Missing : \A n \in Missing : m <= n
    <3> HIDE DEF Missing
    <3>1. QED
      BY <2>0, LeastElement
  <2>2. m \in Nat \ {0} /\ ~Exist(m)
    BY <1>1
  <2>3. Exist(m - 1)
    BY <2>1, <2>2
  <2>4. QED
    BY <1>2, <2>2, <2>3
<1>4. Exist(k)
  BY <1>3
<1>5. QED
  BY <1>4 DEF Exist

\* LeastFirst is the last of them.
LEMMA LeastFirstIsExtension ==
  ASSUME NEW g, NEW edges, Len(g.ops) \in Nat
  PROVE  \E p : /\ AreExtensions(g, edges, Len(g.ops), p)
                /\ LeastFirst(g, edges) = p[Len(g.ops)]
<1> DEFINE P(q) == q = [ n \in 0 .. Len(g.ops) |->
                           IF n = 0 THEN << >> ELSE Extension(g, edges, q[n - 1]) ]
           q == CHOOSE q : P(q)
<1>1. P(q)
  BY ExtensionsExist DEF AreExtensions
<1>2. LeastFirst(g, edges) = q[Len(g.ops)]
  BY DEF LeastFirst, Extension, Candidates
<1>3. QED
  BY <1>1, <1>2 DEF AreExtensions

\* A sequence of different operations in which edges go forward: what an edge
\* comes from stands before what it goes to.
IsOrdering(g, edges, s) ==
  /\ s \in Seq(Operations(g))
  /\ \A m, n \in 1 .. Len(s) : s[m] = s[n] => m = n
  /\ \A n \in 1 .. Len(s), e \in edges :
       e[2] = s[n] => \E m \in 1 .. n - 1 : s[m] = e[1]

\* An iteration keeps that.
LEMMA ExtensionKeepsOrdering ==
  ASSUME NEW g, NEW edges, NEW s, IsOrdering(g, edges, s),
         \A i \in Operations(g) : g.ops[i].id \in Nat
  PROVE  /\ IsOrdering(g, edges, Extension(g, edges, s))
         /\ Len(Extension(g, edges, s)) <= Len(s) + 1
<1> DEFINE ready == Candidates(g, edges, s)
<1>0. s \in Seq(Operations(g)) /\ Len(s) \in Nat /\ DOMAIN s = 1 .. Len(s)
  BY LenProperties DEF IsOrdering
<1>1. CASE ready = {}
  BY <1>0, <1>1 DEF Extension
<1>2. CASE ready # {}
  <2> DEFINE IsLeast(i) == \A j \in ready : g.ops[i].id <= g.ops[j].id
             c == CHOOSE i \in ready : IsLeast(i)
  <2>1. \E i \in ready : IsLeast(i)
    <3> DEFINE ids == { g.ops[i].id : i \in ready }
    <3>1. ids \in SUBSET Nat /\ ids # {}
      BY <1>2 DEF Candidates
    <3>2. PICK m \in ids : \A x \in ids : m <= x
      BY <3>1, LeastElement
    <3>3. QED
      BY <3>2
  <2>2. c \in ready
    BY <2>1
  <2> DEFINE t == Append(s, c)
  <2>3. Extension(g, edges, s) = t
    BY <1>2 DEF Extension
  <2> HIDE DEF c, IsLeast
  <2>4. /\ c \in Operations(g) /\ c \notin Elements(s)
        /\ \A e \in edges : e[2] = c => e[1] \in Elements(s)
    BY <2>2 DEF Candidates
  <2>5. /\ t \in Seq(Operations(g)) /\ Len(t) = Len(s) + 1
        /\ \A n \in 1 .. Len(s) : t[n] = s[n]
        /\ t[Len(s) + 1] = c
    BY <1>0, <2>4, AppendProperties
  <2> HIDE DEF t
  <2>6. \A i \in Elements(s) : \E m \in 1 .. Len(s) : s[m] = i
    BY <1>0 DEF Elements
  <2>7. \A n \in 1 .. Len(s) : s[n] \in Elements(s)
    BY <1>0 DEF Elements
  <2>8. \A m, n \in 1 .. Len(t) : t[m] = t[n] => m = n
    <3> SUFFICES ASSUME NEW m \in 1 .. Len(t), NEW n \in 1 .. Len(t), t[m] = t[n]
                 PROVE  m = n
      OBVIOUS
    <3>1. (m \in 1 .. Len(s) \/ m = Len(s) + 1) /\ (n \in 1 .. Len(s) \/ n = Len(s) + 1)
      BY <1>0, <2>5
    <3>2. QED
      BY <2>4, <2>5, <2>7, <3>1 DEF IsOrdering
  <2>9. ASSUME NEW n \in 1 .. Len(t), NEW e \in edges, e[2] = t[n]
        PROVE  \E m \in 1 .. n - 1 : t[m] = e[1]
    <3>1. CASE n \in 1 .. Len(s)
      <4>1. PICK m \in 1 .. n - 1 : s[m] = e[1]
        BY <2>5, <2>9, <3>1 DEF IsOrdering
      <4>2. m \in 1 .. Len(s)
        BY <1>0, <3>1
      <4>3. QED
        BY <2>5, <4>1, <4>2
    <3>2. CASE n = Len(s) + 1
      <4>1. e[1] \in Elements(s)
        BY <2>4, <2>5, <2>9, <3>2
      <4>2. PICK m \in 1 .. Len(s) : s[m] = e[1]
        BY <2>6, <4>1
      <4>3. m \in 1 .. n - 1 /\ t[m] = e[1]
        BY <1>0, <2>5, <3>2, <4>2
      <4>4. QED
        BY <4>3
    <3>3. QED
      BY <1>0, <2>5, <3>1, <3>2
  <2>10. QED
    BY <1>0, <2>3, <2>5, <2>8, <2>9 DEF IsOrdering
<1>3. QED
  BY <1>1, <1>2

\* LeastFirst gives an ordering that is no longer than the graph.
LEMMA LeastFirstIsOrdering ==
  ASSUME NEW g, NEW edges, Len(g.ops) \in Nat,
         \A i \in Operations(g) : g.ops[i].id \in Nat
  PROVE  IsOrdering(g, edges, LeastFirst(g, edges))
<1>1. PICK p : /\ AreExtensions(g, edges, Len(g.ops), p)
               /\ LeastFirst(g, edges) = p[Len(g.ops)]
  BY LeastFirstIsExtension
<1> DEFINE N == Len(g.ops)
           Bad == { n \in 0 .. N : ~IsOrdering(g, edges, p[n]) }
<1>2. p[0] = << >> /\ \A n \in 1 .. N : p[n] = Extension(g, edges, p[n - 1])
  BY <1>1 DEF AreExtensions
<1>3. IsOrdering(g, edges, << >>)
  BY EmptySeq DEF IsOrdering
<1>4. Bad = {}
  <2> SUFFICES ASSUME Bad # {}
               PROVE  FALSE
    OBVIOUS
  <2>0. Bad \in SUBSET Nat
    OBVIOUS
  <2>1. PICK m \in Bad : \A n \in Bad : m <= n
    <3> HIDE DEF Bad
    <3>1. QED
      BY <2>0, LeastElement
  <2>2. m \in 1 .. N /\ ~IsOrdering(g, edges, p[m])
    BY <1>2, <1>3
  <2>3. IsOrdering(g, edges, p[m - 1])
    BY <2>1, <2>2
  <2>4. QED
    BY <1>2, <2>2, <2>3, ExtensionKeepsOrdering
<1>5. QED
  BY <1>1, <1>4

\* An ordering as long as the graph has all its operations.
LEMMA FullOrderingIsOnto ==
  ASSUME NEW g, NEW edges, NEW s, IsOrdering(g, edges, s),
         Len(g.ops) \in Nat, Operations(g) = 1 .. Len(g.ops), Len(s) = Len(g.ops)
  PROVE  \A i \in Operations(g) : \E n \in 1 .. Len(s) : s[n] = i
<1> DEFINE Ops == 1 .. Len(g.ops)
<1>1. s \in [Ops -> Ops] /\ \A m, n \in Ops : s[m] = s[n] => m = n
  BY LenProperties DEF IsOrdering
<1>2. IsFiniteSet(Ops)
  BY FS_Interval
<1> HIDE DEF Ops
<1>3. s \in Injection(Ops, Ops)
  BY <1>1 DEF Injection, IsInjective
<1>4. s \in Surjection(Ops, Ops)
  BY <1>2, <1>3, FS_Injection
<1>5. \A i \in Ops : \E n \in Ops : s[n] = i
  BY <1>4 DEF Surjection
<1>6. QED
  BY <1>5 DEF Ops

\* One step of the search for what the inputs reach.
ConnectedRound(g, i, before) ==
  before \cup (IF Reads(g, i) \cap before # {} THEN Writes(g, i) ELSE {})

\* p has the results of the first k steps.
AreConnectedRounds(g, order, k, p) ==
  p = [ n \in 0 .. k |-> IF n = 0 THEN g.inputs ELSE ConnectedRound(g, order[n], p[n - 1]) ]

\* There are such results for any number of steps.
LEMMA ConnectedRoundsExist ==
  ASSUME NEW g, NEW order, NEW k \in Nat
  PROVE  \E p : AreConnectedRounds(g, order, k, p)
<1> DEFINE Exist(n) == \E p : AreConnectedRounds(g, order, n, p)
           Good == { n \in 0 .. k : Exist(n) }
<1>1. Exist(0)
  <2>1. AreConnectedRounds(g, order, 0, [ n \in 0 .. 0 |-> g.inputs ])
    BY DEF AreConnectedRounds
  <2>2. QED
    BY <2>1
<1>2. ASSUME NEW m \in 1 .. k, Exist(m - 1)
      PROVE  Exist(m)
  <2>1. PICK p : AreConnectedRounds(g, order, m - 1, p)
    BY <1>2
  <2> DEFINE q == [ n \in 0 .. m |->
                      IF n < m THEN p[n] ELSE ConnectedRound(g, order[m], p[m - 1]) ]
  <2>2. \A n \in 0 .. m - 1 :
          p[n] = IF n = 0 THEN g.inputs ELSE ConnectedRound(g, order[n], p[n - 1])
    BY <2>1 DEF AreConnectedRounds
  <2>3. \A n \in 0 .. m :
          q[n] = IF n = 0 THEN g.inputs ELSE ConnectedRound(g, order[n], q[n - 1])
    <3> SUFFICES ASSUME NEW n \in 0 .. m
                 PROVE  q[n] = IF n = 0 THEN g.inputs ELSE ConnectedRound(g, order[n], q[n - 1])
      OBVIOUS
    <3>1. n # 0 => q[n - 1] = p[n - 1]
      OBVIOUS
    <3>2. CASE n < m
      BY <2>2, <3>1, <3>2
    <3>3. CASE n = m
      BY <3>1, <3>3
    <3>4. QED
      BY <3>2, <3>3
  <2>4. q = [ n \in 0 .. m |->
                IF n = 0 THEN g.inputs ELSE ConnectedRound(g, order[n], q[n - 1]) ]
    BY <2>3
  <2>5. QED
    BY <2>4 DEF AreConnectedRounds
<1> HIDE DEF Exist
<1>3. Good \in SUBSET (0 .. k) /\ 0 \in Good /\ \A n \in 1 .. k : n - 1 \in Good => n \in Good
  BY <1>1, <1>2
<1> HIDE DEF Good
<1>4. k \in Good
  BY <1>3, UpTo
<1>5. QED
  BY <1>4 DEF Exist, Good

\* Connected has the last of them.
LEMMA ConnectedIsRound ==
  ASSUME NEW g, NEW order, Len(order) \in Nat
  PROVE  \E p : AreConnectedRounds(g, order, Len(order), p) /\ Connected(g, order) = p[Len(order)]
<1> DEFINE P(q) == q = [ n \in 0 .. Len(order) |->
                           IF n = 0 THEN g.inputs ELSE ConnectedRound(g, order[n], q[n - 1]) ]
           q == CHOOSE q : P(q)
<1>1. P(q)
  <2>1. PICK p : AreConnectedRounds(g, order, Len(order), p)
    BY ConnectedRoundsExist
  <2>2. P(p)
    BY <2>1 DEF AreConnectedRounds
  <2>3. QED
    BY <2>2
<1>2. Connected(g, order) = q[Len(order)]
  BY DEF Connected, ConnectedRound
<1>3. QED
  BY <1>1, <1>2 DEF AreConnectedRounds

(***************************************************************************)
(* What a loaded graph has.                                                *)
(***************************************************************************)

\* No operation reads what itself or a later one writes.
Forward(g) == \A i, j \in Operations(g) : Writes(g, i) \cap Reads(g, j) # {} => i < j

\* A graph as the loader gives it out.
IsLoaded(g) ==
  /\ IsDocument(g)
  /\ ReferencesExist(g)
  /\ ProducersExist(g)
  /\ RolesAgree(g)
  /\ Forward(g)

\* Reordering keeps everything but the places of the operations.
LEMMA ReorderedFacts ==
  ASSUME NEW d, IsDocument(d), NEW edges, NEW order, IsOrdering(d, edges, order)
  PROVE  LET g == Reordered(d, order)
         IN  /\ g.values = d.values /\ g.inputs = d.inputs /\ g.outputs = d.outputs
             /\ Len(g.ops) = Len(order) /\ Operations(g) = 1 .. Len(order)
             /\ \A n \in 1 .. Len(order) : g.ops[n] = d.ops[order[n]]
             /\ {"ops", "values", "inputs", "outputs"} \subseteq DOMAIN g
<1> DEFINE g == Reordered(d, order)
           ops == [ n \in DOMAIN order |-> d.ops[order[n]] ]
           Stored == { d.ops[i] : i \in Operations(d) }
<1>1. /\ Len(order) \in Nat /\ DOMAIN order = 1 .. Len(order)
      /\ \A n \in 1 .. Len(order) : order[n] \in Operations(d)
  BY LenProperties DEF IsOrdering
<1>2. g.ops = ops /\ g.values = d.values /\ g.inputs = d.inputs /\ g.outputs = d.outputs
      /\ {"ops", "values", "inputs", "outputs"} \subseteq DOMAIN g
  BY DEF Reordered, IsDocument
<1>3. ops \in Seq(Stored) /\ Len(ops) = Len(order)
  <2>1. PICK k \in Nat : k = Len(order)
    BY <1>1
  <2>2. ops \in [ 1 .. k -> Stored ]
    BY <1>1, <2>1
  <2>3. QED
    BY <2>1, <2>2
<1>4. QED
  BY <1>1, <1>2, <1>3 DEF Operations

\* What the loader lets through is as the components after it need it: every
\* value has one producer of the right kind, which is stored before those that
\* read the value.
LEMMA AcceptedIsLoaded ==
  ASSUME NEW d, IsDocument(d), Accepts(d)
  PROVE  IsLoaded(Loaded(d))
<1> DEFINE g == Loaded(d)
           order == LoadOrder(d)
           N == Len(d.ops)
<1>1. N \in Nat /\ Operations(d) = 1 .. N
  BY DEF IsDocument
<1>2. IsOrdering(d, DataEdges(d), order)
  BY LeastFirstIsOrdering DEF LoadOrder, IsDocument
<1>3. Len(order) = N
  BY DEF Accepts
<1> HIDE DEF order
<1>4. /\ g.values = d.values /\ g.inputs = d.inputs /\ g.outputs = d.outputs
      /\ Len(g.ops) = N /\ Operations(g) = 1 .. N
      /\ \A n \in 1 .. N : g.ops[n] = d.ops[order[n]]
      /\ {"ops", "values", "inputs", "outputs"} \subseteq DOMAIN g
  BY <1>2, <1>3, ReorderedFacts DEF Loaded, order
<1> HIDE DEF g
<1>5. /\ \A n \in 1 .. N : order[n] \in 1 .. N
      /\ \A m, n \in 1 .. N : order[m] = order[n] => m = n
  BY <1>1, <1>2, <1>3, LenProperties DEF IsOrdering
<1>6. \A i \in 1 .. N : \E n \in 1 .. N : order[n] = i
  BY <1>1, <1>2, <1>3, FullOrderingIsOnto
<1>7. \A n \in 1 .. N : Reads(g, n) = Reads(d, order[n]) /\ Writes(g, n) = Writes(d, order[n])
  BY <1>4 DEF Reads, Writes
<1>8. IsDocument(g)
  <2>1. \A n \in Operations(g) :
          /\ g.ops[n].id \in Nat /\ g.ops[n].side_effect \in BOOLEAN
          /\ g.ops[n].inputs \in Seq(Nat) /\ g.ops[n].outputs \in Seq(Nat)
    <3> SUFFICES ASSUME NEW n \in 1 .. N
                 PROVE  /\ g.ops[n].id \in Nat /\ g.ops[n].side_effect \in BOOLEAN
                        /\ g.ops[n].inputs \in Seq(Nat) /\ g.ops[n].outputs \in Seq(Nat)
      BY <1>4
    <3>1. g.ops[n] = d.ops[order[n]] /\ order[n] \in Operations(d)
      BY <1>1, <1>4, <1>5
    <3>2. QED
      BY <3>1 DEF IsDocument
  <2>2. \A m, n \in Operations(g) : g.ops[m].id = g.ops[n].id => m = n
    <3> SUFFICES ASSUME NEW m \in 1 .. N, NEW n \in 1 .. N, g.ops[m].id = g.ops[n].id
                 PROVE  m = n
      BY <1>4
    <3>1. /\ g.ops[m] = d.ops[order[m]] /\ order[m] \in Operations(d)
          /\ g.ops[n] = d.ops[order[n]] /\ order[n] \in Operations(d)
      BY <1>1, <1>4, <1>5
    <3>2. order[m] = order[n]
      BY <3>1 DEF IsDocument
    <3>3. QED
      BY <1>5, <3>2
  <2>3. QED
    BY <1>1, <1>4, <2>1, <2>2 DEF IsDocument
<1>9. ReferencesExist(g)
  BY <1>1, <1>4, <1>5, <1>7 DEF Accepts, ReferencesExist, Kind
<1>10. ProducersExist(g)
  <2>1. ~HasDuplicateProducer(g)
    <3>1. ~HasDuplicateProducer(d)
      BY DEF Accepts, ProducersExist
    <3>2. ASSUME NEW m \in 1 .. N, NEW n \in 1 .. N, m # n
          PROVE  Writes(g, m) \cap Writes(g, n) = {}
      BY <1>1, <1>5, <1>7, <3>1, <3>2 DEF HasDuplicateProducer
    <3>3. ASSUME NEW i \in 1 .. N, NEW m \in DOMAIN g.ops[i].outputs,
                 NEW n \in DOMAIN g.ops[i].outputs, m # n
          PROVE  g.ops[i].outputs[m] # g.ops[i].outputs[n]
      <4>1. g.ops[i] = d.ops[order[i]] /\ order[i] \in Operations(d)
        BY <1>1, <1>4, <1>5
      <4>2. QED
        BY <3>1, <3>3, <4>1 DEF HasDuplicateProducer
    <3>4. QED
      BY <1>4, <3>2, <3>3 DEF HasDuplicateProducer
  <2>2. ASSUME NEW v \in DOMAIN g.values
        PROVE  \E n \in Operations(g) : v \in Writes(g, n)
    <3>1. PICK i \in Operations(d) : v \in Writes(d, i)
      BY <1>4 DEF Accepts, ProducersExist
    <3>2. PICK n \in 1 .. N : order[n] = i
      BY <1>1, <1>6
    <3>3. QED
      BY <1>4, <1>7, <3>1, <3>2
  <2>3. QED
    BY <2>1, <2>2 DEF ProducersExist
<1>11. RolesAgree(g)
  BY <1>1, <1>4, <1>5, <1>7 DEF Accepts, RolesAgree, Kind
<1>12. Forward(g)
  <2> SUFFICES ASSUME NEW i \in 1 .. N, NEW j \in 1 .. N, Writes(g, i) \cap Reads(g, j) # {}
               PROVE  i < j
    BY <1>4 DEF Forward
  <2>1. << order[i], order[j] >> \in DataEdges(d)
    BY <1>1, <1>5, <1>7 DEF DataEdges
  <2>2. PICK m \in 1 .. j - 1 : order[m] = order[i]
    BY <1>2, <1>3, <2>1 DEF IsOrdering
  <2>3. m \in 1 .. N
    BY <1>1
  <2>4. QED
    BY <1>5, <2>2, <2>3
<1>13. QED
  BY <1>8, <1>9, <1>10, <1>11, <1>12 DEF IsLoaded, g
============================================================================
