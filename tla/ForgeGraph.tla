----------------------------- MODULE ForgeGraph -----------------------------
(***************************************************************************)
(* The graph of cpp/include/forgeir/ir/graph.hpp, as much of it as the     *)
(* scheduler, the planner, the session and the passes look at.             *)
(*                                                                         *)
(* A graph has its operations in storage order. An operation has an id (a  *)
(* number, its rank among the operation ids: the code only compares ids),  *)
(* a type, the values it reads and writes, and the side_effect attribute.  *)
(***************************************************************************)
EXTENDS Integers, Sequences, FiniteSets

\* The set of elements of a sequence.
Elements(seq) == { seq[i] : i \in DOMAIN seq }

Operations(g) == DOMAIN g.ops

Reads(g, i) == Elements(g.ops[i].inputs)

Writes(g, i) == Elements(g.ops[i].outputs)

SideEffects(g) == { i \in Operations(g) : g.ops[i].side_effect }

\* Two operations write one value, or one operation lists it twice.
HasDuplicateProducer(g) ==
  \/ \E i, j \in Operations(g) : i # j /\ Writes(g, i) \cap Writes(g, j) # {}
  \/ \E i \in Operations(g) : \E m, n \in DOMAIN g.ops[i].outputs :
       m # n /\ g.ops[i].outputs[m] = g.ops[i].outputs[n]

HasMissingProducer(g) ==
  \E i \in Operations(g) : \E v \in Reads(g, i) :
    \A j \in Operations(g) : v \notin Writes(g, j)

\* An operation depends on the producers of its inputs. A pair occurs once,
\* however many inputs it stands for.
DataEdges(g) ==
  { e \in Operations(g) \X Operations(g) :
      Writes(g, e[1]) \cap Reads(g, e[2]) # {} }

\* The contents of a tensor, as a term: the operation that computed it, the
\* contents it computed it from and, for an input, the call that gave it.
Term(i, args, tag) == [ op |-> i, args |-> args, tag |-> tag ]

\* Each side effect depends on the one stored before it.
SideEffectEdges(g) ==
  { e \in SideEffects(g) \X SideEffects(g) :
      /\ e[1] < e[2]
      /\ \A k \in SideEffects(g) : ~(e[1] < k /\ k < e[2]) }

\* Kahn's algorithm with the least id first, as loader and passes have it. The
\* order is shorter than the graph when the edges have a cycle.
LeastFirst(g, edges) ==
  LET prefix[n \in 0 .. Len(g.ops)] ==
        IF n = 0 THEN << >>
        ELSE LET before == prefix[n - 1]
                 done   == Elements(before)
                 ready  == { i \in Operations(g) \ done :
                               \A e \in edges : e[2] = i => e[1] \in done }
             IN  IF ready = {} THEN before
                 ELSE Append(before, CHOOSE i \in ready :
                        \A j \in ready : g.ops[i].id <= g.ops[j].id)
  IN  prefix[Len(g.ops)]

\* g with its operations in that order.
Reordered(g, order) == [ g EXCEPT !.ops = [ n \in DOMAIN order |-> g.ops[order[n]] ] ]
============================================================================
