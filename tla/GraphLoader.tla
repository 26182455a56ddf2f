---------------------------- MODULE GraphLoader ----------------------------
(***************************************************************************)
(* GraphLoader::load_from_json of cpp/src/ir/graph_loader.cpp, from the    *)
(* parsed document on: the structural checks and the order in which the    *)
(* operations of a loaded graph are stored. It keeps no state, so it is a  *)
(* module of operators.                                                    *)
(*                                                                         *)
(* A document is a graph (ForgeGraph) with its declared inputs and outputs *)
(* and, for every value, its kind. Field types, id syntax, arities, dtypes *)
(* and digests are not modelled: a document here has passed them.          *)
(***************************************************************************)
EXTENDS ForgeGraph

ValueKinds == {"input", "parameter", "constant", "intermediate", "output"}

\* What has passed the checks that are not modelled: operations with different
\* ids, and values, each with a kind. A value is a number, its rank among the
\* value ids.
IsDocument(d) ==
  /\ {"ops", "values", "inputs", "outputs"} \subseteq DOMAIN d
  /\ Len(d.ops) \in Nat /\ Operations(d) = 1 .. Len(d.ops)
  /\ \A i \in Operations(d) :
       LET op == d.ops[i]
       IN  /\ op.id \in Nat /\ op.side_effect \in BOOLEAN
           /\ op.inputs \in Seq(Nat) /\ op.outputs \in Seq(Nat)
  /\ \A i, j \in Operations(d) : d.ops[i].id = d.ops[j].id => i = j
  /\ DOMAIN d.values \subseteq Nat /\ IsFiniteSet(DOMAIN d.values)
  /\ \A v \in DOMAIN d.values : d.values[v].kind \in ValueKinds

Kind(g, v) == g.values[v].kind

\* Declared inputs and outputs are values of that kind, every operation has one
\* output and names values of the document.
ReferencesExist(g) ==
  /\ \A v \in g.inputs : v \in DOMAIN g.values /\ Kind(g, v) = "input"
  /\ \A v \in g.outputs : v \in DOMAIN g.values /\ Kind(g, v) = "output"
  /\ \A i \in Operations(g) :
       Len(g.ops[i].outputs) = 1 /\ Reads(g, i) \cup Writes(g, i) \subseteq DOMAIN g.values

\* Every value has one producer.
ProducersExist(g) ==
  /\ ~HasDuplicateProducer(g)
  /\ DOMAIN g.values \subseteq UNION { Writes(g, i) : i \in Operations(g) }

KindsProducedBy(type) ==
  CASE type \in {"input", "parameter"} -> {type}
    [] type = "constant" -> {"constant", "output"}
    [] OTHER             -> {"intermediate", "output"}

RolesAgree(g) ==
  \A i \in Operations(g) :
    \A v \in Writes(g, i) : Kind(g, v) \in KindsProducedBy(g.ops[i].type)

\* deterministic_topological_order. The side effects are not chained here.
LoadOrder(g) == LeastFirst(g, DataEdges(g))

\* The values some declared input reaches.
Connected(g, order) ==
  LET after[n \in 0 .. Len(order)] ==
        IF n = 0 THEN g.inputs
        ELSE LET before == after[n - 1]
             IN  before \cup
                 (IF Reads(g, order[n]) \cap before # {} THEN Writes(g, order[n]) ELSE {})
  IN  after[Len(order)]

Accepts(g) ==
  /\ ReferencesExist(g)
  /\ ProducersExist(g)
  /\ RolesAgree(g)
  /\ Len(LoadOrder(g)) = Len(g.ops)
  /\ g.outputs \subseteq Connected(g, LoadOrder(g))

\* The loaded graph stores its operations in that order.
Loaded(g) == Reordered(g, LoadOrder(g))
============================================================================
