----------------------------- MODULE Optimizer -----------------------------
(***************************************************************************)
(* The optimizer of cpp/src/passes: optimize_graph and its levels, the     *)
(* PassManager with a verification on either side of every pass, and the   *)
(* passes themselves, each of which rewrites the graph in place; then the  *)
(* optimize command's reload of the graph it has written.                  *)
(*                                                                         *)
(* A pass is one operation after the other; no state survives it but the   *)
(* graph, so a pass is one action and its loop a function over positions.  *)
(* The rewrite records and the diagnostics are not modelled, and the       *)
(* explicit marker side_effect=false is the attribute "no_side_effect".    *)
(* Integers are exact; the other arithmetic of floats is uninterpreted.    *)
(***************************************************************************)
EXTENDS GraphLoader, SemanticVerifier

CONSTANTS
  Documents,  \* graphs as a file has them
  Graphs,     \* graphs built by a caller of the C++ interface
  Levels,     \* among "O0", "O1" and "O2"
  MaxRuns,    \* bound on the optimizations one after the other
  MaxI64      \* the largest int64_t

IsSequence(s) == s \in Seq(Elements(s))

OperationTypes ==
  {"input", "parameter", "constant", "mat_mul", "linear", "add", "multiply", "divide",
   "rms_norm", "gelu", "softmax", "reshape", "transpose", "causal_mask"}

\* What an operation is in a graph, wherever it comes from. The verifier reads the
\* first operand of whatever computes.
IsOperation(op) ==
  /\ {"id", "type", "inputs", "outputs", "attributes", "side_effect"} \subseteq DOMAIN op
  /\ op.id \in Nat /\ op.type \in OperationTypes /\ op.side_effect \in BOOLEAN
  /\ IsSequence(op.inputs) /\ IsSequence(op.outputs)
  /\ op.type = "constant" => Len(op.inputs) = 0
  /\ op.type \notin {"input", "parameter", "constant"} => Len(op.inputs) > 0
  /\ op.type \in {"reshape", "transpose", "softmax"} => Len(op.inputs) = 1

HasOperations(g) ==
  /\ {"ops", "values", "inputs", "outputs"} \subseteq DOMAIN g
  /\ IsSequence(g.ops)
  /\ \A i \in Operations(g) : IsOperation(g.ops[i])

\* Every operation has one result, which no other one has.
HasResults(g) ==
  /\ \A i \in Operations(g) : Len(g.ops[i].outputs) = 1
  /\ ~HasDuplicateProducer(g)

\* Values have a shape and a dtype. Shapes and permutations are sequences, dimensions
\* positive (Shape::create).
HasShapes(g) ==
  /\ \A v \in DOMAIN g.values :
       /\ {"shape", "dtype"} \subseteq DOMAIN g.values[v]
       /\ IsSequence(ShapeOf(g, v))
       /\ \A k \in DOMAIN ShapeOf(g, v) : ShapeOf(g, v)[k] \in Nat \ {0}
  /\ \A i \in Operations(g) :
       g.ops[i].type = "transpose" /\ Has(g.ops[i], "permutation") =>
         IsSequence(g.ops[i].attributes["permutation"])

\* The passes take ids for operations and results for their producers; for a
\* document the loader sees to the results.
ASSUME GraphsAssumption ==
  /\ \A g \in Documents \cup Graphs :
       /\ HasOperations(g) /\ HasShapes(g)
       /\ \A i, j \in Operations(g) : g.ops[i].id = g.ops[j].id => i = j
  /\ \A g \in Graphs : HasResults(g)
ASSUME LevelsAssumption == Levels \subseteq {"O0", "O1", "O2"}

VARIABLES
  original,  \* the graph the current optimization was given
  graph,
  passes,    \* the passes that have not finished, the current one first
  stage,     \* "pre", "pass" or "post" of that one
  status,    \* "idle", "running", "optimized", "failed" or "refused"
  changed,   \* PassManagerResult.changed
  runs

vars == << original, graph, passes, stage, status, changed, runs >>

OpType(g, i) == g.ops[i].type

Output(g, i) == g.ops[i].outputs[1]

Producers(g, v) == { i \in Operations(g) : v \in Writes(g, i) }

Producer(g, v) == CHOOSE i \in Operations(g) : v \in Writes(g, i)

\* How often a value is read.
Uses(g, v) ==
  LET places(op) == { k \in DOMAIN op.inputs : op.inputs[k] = v }
  IN  Cardinality(UNION { {i} \X places(g.ops[i]) : i \in Operations(g) })

\* A finite set of numbers in increasing order.
InOrder(S) ==
  [ k \in 1 .. Cardinality(S) |->
      CHOOSE n \in S : Cardinality({ m \in S : m <= n }) = k ]

\* The operations at the positions and the values in the set go.
Erased(g, positions, values) ==
  [ Reordered(g, InOrder(Operations(g) \ positions)) EXCEPT
      !.values = [ v \in DOMAIN g.values \ values |-> g.values[v] ] ]

\* Attributes on top of others.
With(attributes, more) ==
  [ name \in DOMAIN attributes \cup DOMAIN more |->
      IF name \in DOMAIN more THEN more[name] ELSE attributes[name] ]

----------------------------------------------------------------------------
(* CanonicalisationPass.                                                   *)

\* The attributes an operation has when nothing is said.
Defaults(type) ==
  CASE type = "gelu"        -> [ approximate |-> "none" ]
    [] type = "softmax"     -> [ stable |-> TRUE ]
    [] type = "causal_mask" -> [ diagonal |-> 0 ]
    [] OTHER                -> [ name \in {} |-> 0 ]

\* A negative axis counts from the end of the first operand's shape.
CanonicalAxis(g, op) ==
  IF op.type \in {"softmax", "rms_norm"} /\ Has(op, "axis") /\ op.attributes["axis"] < 0
    THEN [ axis |-> op.attributes["axis"] + Len(ShapeOf(g, op.inputs[1])) ]
    ELSE [ name \in {} |-> 0 ]

CanonicalAttributes(g, op) ==
  LET all == With(With(Defaults(op.type), op.attributes), CanonicalAxis(g, op))
  IN  [ name \in DOMAIN all \ {"no_side_effect"} |-> all[name] ]

WithCanonicalAttributes(g) ==
  [ g EXCEPT !.ops = [ n \in DOMAIN g.ops |->
      [ g.ops[n] EXCEPT !.attributes = CanonicalAttributes(g, g.ops[n]) ] ] ]

\* Mutated forms of StableOrder: the side effects are not chained; the least id
\* goes first, whatever it depends on.
OrderOfData(g) == LeastFirst(g, DataEdges(g))

OrderOfIds(g) == LeastFirst(g, {})

\* stable_topological_order.
StableOrder(g) == LeastFirst(g, DataEdges(g) \cup SideEffectEdges(g))

Canonicalise(g) == Reordered(WithCanonicalAttributes(g), StableOrder(g))

----------------------------------------------------------------------------
(* ConstantFoldingPass.                                                    *)

\* A tensor, as what computed it of what. The arguments of an addition and of a
\* multiplication have no order.
Tensor(op, args, dims) ==
  [ op |-> op, dims |-> dims,
    args |-> { << IF op \in {"add", "multiply"} THEN 0 ELSE k, args[k] >> :
                 k \in DOMAIN args } ]

Literal(n) == Tensor("literal", << >>, << n >>)

IsLiteral(tensor) == tensor.op = "literal"

\* Scalar arithmetic.
Computed(type, args) ==
  IF type \in {"add", "multiply"} /\ \A k \in DOMAIN args : IsLiteral(args[k])
    THEN LET left  == args[1].dims[1]
             right == args[2].dims[1]
         IN  Literal(IF type = "add" THEN left + right ELSE left * right)
    ELSE Tensor(type, args, << >>)

IsScalarConstant(g, v) ==
  \E i \in Producers(g, v) : OpType(g, i) = "constant" /\ Has(g.ops[i], "value")

ConstantAt(g, v) == g.ops[Producer(g, v)].attributes["value"]

FoldedType(type, operands) ==
  IF type \in {"add", "multiply"} /\ \A k \in DOMAIN operands : operands[k].type = "int64"
    THEN "int64" ELSE "float32"

Tensors(operands) == [ k \in DOMAIN operands |-> operands[k].tensor ]

\* fold_scalar: integers are not folded out of range, nothing is divided by
\* zero. The approximation of GELU is not looked at. (The detour of the integers
\* through a long double of 64 bits of precision is exact where it is in range.)
FoldsScalar(type, operands) ==
  /\ \A k \in DOMAIN operands : operands[k].type # "boolean"
  /\ type = "divide" => operands[2].tensor # Literal(0)
  /\ FoldedType(type, operands) = "int64" =>
       Computed(type, Tensors(operands)).dims[1] \in -MaxI64 - 1 .. MaxI64

Operands(g, op) == [ k \in DOMAIN op.inputs |-> ConstantAt(g, op.inputs[k]) ]

Foldable(g, n) ==
  LET op == g.ops[n]
  IN  /\ op.type \in {"add", "multiply", "divide", "gelu"} /\ ~op.side_effect
      /\ Output(g, n) \in DOMAIN g.values /\ ShapeOf(g, Output(g, n)) = << >>
      /\ \A v \in Reads(g, n) : IsScalarConstant(g, v)
      /\ FoldsScalar(op.type, Operands(g, op))

\* Mutated form of KindOfFolded: the value stays an intermediate.
KindOfUnfolded(g, v) == Kind(g, v)

KindOfFolded(g, v) == IF v \in g.outputs THEN Kind(g, v) ELSE "constant"

\* The operation becomes a constant in its place.
FoldedAt(g, n) ==
  LET op    == g.ops[n]
      value == [ type   |-> FoldedType(op.type, Operands(g, op)),
                 tensor |-> Computed(op.type, Tensors(Operands(g, op))) ]
  IN  [ g EXCEPT !.ops[n].type = "constant",
                 !.ops[n].inputs = << >>,
                 !.ops[n].attributes = [ value |-> value, folded_from |-> op.type ],
                 !.values[Output(g, n)].kind = KindOfFolded(g, Output(g, n)) ]

----------------------------------------------------------------------------
(* RedundantReshapeEliminationPass, RedundantTransposeEliminationPass.     *)

\* replace_all_uses.
ReplaceAllUses(g, from, to) ==
  [ g EXCEPT !.ops = [ n \in DOMAIN g.ops |->
      [ g.ops[n] EXCEPT !.inputs =
          [ k \in DOMAIN @ |-> IF @[k] = from THEN to ELSE @[k] ] ] ] ]

\* Operation n leaves its only operand as it is, and its result is free to go.
Removable(g, n, type) ==
  OpType(g, n) = type /\ ~g.ops[n].side_effect /\ Output(g, n) \notin g.outputs

RedundantReshape(g, n) ==
  /\ Removable(g, n, "reshape")
  /\ ShapeOf(g, g.ops[n].inputs[1]) = ShapeOf(g, Output(g, n))

\* Mutated form of IsIdentity: the first dimension decides.
BeginsInPlace(permutation) == permutation = << >> \/ permutation[1] = 0

IsIdentity(permutation) == \A k \in DOMAIN permutation : permutation[k] = k - 1

RedundantTranspose(g, n) ==
  /\ Removable(g, n, "transpose")
  /\ Has(g.ops[n], "permutation") /\ IsIdentity(g.ops[n].attributes["permutation"])

----------------------------------------------------------------------------
(* FuseBiasGELUPass.                                                       *)

IsExactGelu(op) ==
  op.type = "gelu" /\ (Has(op, "approximate") => op.attributes["approximate"] = "none")

\* Mutated form of SingleUse: other readers do not matter.
AnyUse(g, v) == v \notin g.outputs

\* Nobody else reads the value, and it is not declared.
SingleUse(g, v) == Uses(g, v) = 1 /\ v \notin g.outputs

IsProjection(op) ==
  op.type \in {"linear", "mat_mul"} /\ Len(op.inputs) = 2 /\ ~op.side_effect

\* The first operand of an addition that a projection computes, or 0.
ProjectedOperand(g, op) ==
  LET projected(k) ==
        op.type = "add" /\ \E i \in Producers(g, op.inputs[k]) : IsProjection(g.ops[i])
  IN  CASE projected(1) -> 1 [] ~projected(1) /\ projected(2) -> 2 [] OTHER -> 0

\* What the fusion at operation n is made of: the projection, the addition and
\* the bias.
Fusion(g, n) ==
  LET gelu == g.ops[n]
      add  == Producer(g, gelu.inputs[1])
      k    == ProjectedOperand(g, g.ops[add])
  IN  [ add |-> add,
        base |-> IF k = 0 THEN 0 ELSE Producer(g, g.ops[add].inputs[k]),
        bias |-> IF k = 0 THEN 0 ELSE g.ops[add].inputs[3 - k] ]

IsBias(g, v, sum) ==
  /\ Kind(g, v) \in {"parameter", "constant"}
  /\ ShapeOf(g, sum) # << >>
  /\ ShapeOf(g, v) = << LastOf(ShapeOf(g, sum)) >>

\* The uses are those the graph had before the pass.
Fuses(before, g, n) ==
  LET sum    == g.ops[n].inputs[1]
      fusion == Fusion(g, n)
      base   == g.ops[fusion.base]
  IN  /\ IsExactGelu(g.ops[n]) /\ Len(g.ops[n].inputs) = 1 /\ ~g.ops[n].side_effect
      /\ Producers(g, sum) # {}
      /\ OpType(g, fusion.add) = "add" /\ Len(g.ops[fusion.add].inputs) = 2
      /\ ~g.ops[fusion.add].side_effect
      /\ SingleUse(before, sum)
      /\ fusion.base # 0 /\ SingleUse(before, Output(g, fusion.base))
      /\ IsBias(g, fusion.bias, sum)
      /\ base.type = "linear" => Is(base, "bias", FALSE)

FusedAt(g, n) ==
  LET fusion == Fusion(g, n)
      base   == g.ops[fusion.base]
  IN  [ g EXCEPT !.ops[n].type = base.type,
                 !.ops[n].inputs = Append(base.inputs, fusion.bias),
                 !.ops[n].attributes =
                    With(base.attributes, [ bias |-> TRUE, fused_activation |-> "GELU" ]) ]

----------------------------------------------------------------------------
(* The loops of these passes: in storage order, so that an iteration sees  *)
(* what those before it have rewritten. What is removed is erased at the   *)
(* end.                                                                    *)

\* Whether the pass rewrites operation n; first is the graph it was given.
Rewrites(pass, first, g, n) ==
  CASE pass = "fold"      -> Foldable(g, n)
    [] pass = "reshape"   -> RedundantReshape(g, n)
    [] pass = "transpose" -> RedundantTranspose(g, n)
    [] pass = "fuse"      -> Fuses(first, g, n)

RewrittenAt(pass, g, n) ==
  CASE pass = "fold" -> FoldedAt(g, n)
    [] pass = "fuse" -> FusedAt(g, n)
    [] OTHER         -> ReplaceAllUses(g, Output(g, n), g.ops[n].inputs[1])

\* The graph after so many iterations.
Rewritten(pass, first) ==
  LET after[n \in 0 .. Len(first.ops)] ==
        IF n = 0 THEN first
        ELSE LET before == after[n - 1]
             IN  IF Rewrites(pass, first, before, n) THEN RewrittenAt(pass, before, n)
                 ELSE before
  IN  after

\* The operations that operation n replaces, or that are nothing without it.
RemovedAt(pass, g, n) ==
  CASE pass = "fold" -> {}
    [] pass = "fuse" -> { Fusion(g, n).add, Fusion(g, n).base }
    [] OTHER         -> {n}

Removed(pass, g) ==
  LET after == Rewritten(pass, g)
  IN  UNION { RemovedAt(pass, after[n - 1], n) :
                n \in { n \in Operations(g) : Rewrites(pass, g, after[n - 1], n) } }

RunLoop(pass, g) ==
  LET removed == Removed(pass, g)
  IN  Erased(Rewritten(pass, g)[Len(g.ops)], removed, { Output(g, i) : i \in removed })

----------------------------------------------------------------------------
(* DeadCodeEliminationPass.                                                *)

Roots(g) == g.inputs \cup g.outputs \cup { Output(g, i) : i \in SideEffects(g) }

\* Mutated form of LiveValues: a value somebody reads is live.
ReadValues(g) == Roots(g) \cup UNION { Reads(g, i) : i \in Operations(g) }

\* The worklist, which only grows: whatever the producer of a live value reads is live.
LiveValues(g) ==
  LET live[n \in 0 .. Len(g.ops)] ==
        IF n = 0 THEN Roots(g)
        ELSE LET before == live[n - 1]
                 needed == { i \in Operations(g) : Writes(g, i) \cap before # {} }
             IN  before \cup UNION { Reads(g, i) : i \in needed }
  IN  live[Len(g.ops)]

EliminateDeadCode(g) ==
  LET live == LiveValues(g)
  IN  Erased(g, { i \in Operations(g) : Writes(g, i) \cap live = {} },
             DOMAIN g.values \ live)

----------------------------------------------------------------------------
(* PassManager and optimize_graph.                                         *)

Pipeline(level) ==
  CASE level = "O0" -> << "verify" >>
    [] level = "O1" -> << "canonicalise", "fold", "dead_code" >>
    [] level = "O2" -> << "canonicalise", "fold", "reshape", "transpose", "fuse", "dead_code" >>

Apply(pass, g) ==
  CASE pass = "verify"       -> g
    [] pass = "canonicalise" -> Canonicalise(g)
    [] pass = "dead_code"    -> EliminateDeadCode(g)
    [] OTHER                 -> RunLoop(pass, g)

Init ==
  /\ original = [ ops |-> << >> ] /\ graph = original
  /\ passes = << >> /\ stage = "pre" /\ status = "idle" /\ changed = FALSE
  /\ runs = 0

\* optimize_graph.
Optimize(g, level) ==
  /\ runs < MaxRuns /\ runs' = runs + 1
  /\ original' = g /\ graph' = g
  /\ passes' = Pipeline(level) /\ stage' = "pre" /\ status' = "running" /\ changed' = FALSE

\* The first failure ends it; the graph is left as the passes have made it.
Abort == status' = "failed" /\ UNCHANGED << original, passes, stage, changed, runs >>

PreVerify ==
  /\ status = "running" /\ stage = "pre" /\ Verifies(graph)
  /\ stage' = "pass"
  /\ UNCHANGED << original, graph, passes, status, changed, runs >>

\* Canonicalisation finds a producer for every operand, and an order.
HasStableOrder(g) ==
  ~HasMissingProducer(g) /\ Len(StableOrder(g)) = Len(g.ops)

RunPass ==
  /\ status = "running" /\ stage = "pass"
  /\ Head(passes) = "canonicalise" => HasStableOrder(graph)
  /\ graph' = Apply(Head(passes), graph)
  /\ changed' = (changed \/ graph' # graph)
  /\ stage' = "post"
  /\ UNCHANGED << original, passes, status, runs >>

\* Canonicalisation finds none, after it has seen to the attributes.
PassFails ==
  /\ status = "running" /\ stage = "pass"
  /\ Head(passes) = "canonicalise" /\ ~HasStableOrder(graph)
  /\ graph' = WithCanonicalAttributes(graph)
  /\ Abort

PostVerify ==
  /\ status = "running" /\ stage = "post" /\ Verifies(graph)
  /\ passes' = Tail(passes) /\ stage' = "pre"
  /\ status' = IF Len(passes) = 1 THEN "optimized" ELSE "running"
  /\ UNCHANGED << original, graph, changed, runs >>

VerificationFails ==
  /\ status = "running" /\ stage \in {"pre", "post"} /\ ~Verifies(graph)
  /\ Abort
  /\ UNCHANGED graph

\* optimize writes the graph to a file and loads the file again, in this run of
\* the program or the next.
Reload ==
  /\ status = "optimized"
  /\ IF Accepts(graph) THEN graph' = Loaded(graph) /\ status' = "idle"
                       ELSE graph' = graph /\ status' = "refused"
  /\ UNCHANGED << original, passes, stage, changed, runs >>

\* A second optimization starts from the graph in memory or from the loaded one.
Next ==
  \/ \E level \in Levels :
       \/ /\ runs = 0
          /\ \/ \E d \in Documents : Accepts(d) /\ Optimize(Loaded(d), level)
             \/ \E g \in Graphs : Optimize(g, level)
       \/ /\ runs > 0 /\ status \in {"optimized", "idle"}
          /\ Optimize(graph, level)
  \/ PreVerify \/ RunPass \/ PassFails \/ PostVerify \/ VerificationFails
  \/ Reload

Spec == Init /\ [][Next]_vars

----------------------------------------------------------------------------
(* What is promised.                                                       *)

\* What an operation computes, independently of how the passes decide: layout
\* changes that change nothing are no operation, a bias is an addition.
Activated(op, tensor) ==
  IF Has(op, "fused_activation") THEN Tensor("gelu", << tensor >>, << >>) ELSE tensor

FromEnd(axis, rank) == IF axis < 0 THEN axis + rank ELSE axis

Attribute(op, name, default) == IF Has(op, name) THEN op.attributes[name] ELSE default

Denoted(g, op, args) ==
  LET rank   == Len(ShapeOf(g, op.inputs[1]))
      target == ShapeOf(g, op.outputs[1])
  IN  CASE op.type \in {"input", "parameter"} -> Tensor(op.outputs[1], << >>, << >>)
        [] op.type = "constant" -> op.attributes["value"].tensor
        [] op.type \in {"mat_mul", "linear"} ->
             LET product == Tensor(op.type, << args[1], args[2] >>, << >>)
             IN  Activated(op, IF Len(args) = 2 THEN product
                               ELSE Computed("add", << product, args[3] >>))
        [] op.type = "gelu" ->
             Tensor(IF Attribute(op, "approximate", "none") = "none" THEN "gelu" ELSE "other_gelu",
                    args, << >>)
        [] op.type = "softmax" ->
             Tensor("softmax", args, << FromEnd(op.attributes["axis"], rank) >>)
        [] op.type = "causal_mask" ->
             Tensor("causal_mask", args, << Attribute(op, "diagonal", 0) >>)
        [] op.type = "reshape" ->
             IF target = ShapeOf(g, op.inputs[1]) THEN args[1]
             ELSE Tensor("reshape", args, target)
        [] op.type = "transpose" ->
             LET permutation == op.attributes["permutation"]
             IN  IF permutation = [ k \in 1 .. rank |-> k - 1 ] THEN args[1]
                 ELSE Tensor("transpose", args, permutation)
        [] OTHER -> Computed(op.type, args)

\* The tensor every value stands for, in an order in which it can be computed. A
\* value nobody produces stands for itself.
Denotation(g) ==
  LET order == LeastFirst(g, DataEdges(g))
      after[n \in 0 .. Len(order)] ==
        IF n = 0 THEN [ v \in DOMAIN g.values |-> Tensor(v, << >>, << >>) ]
        ELSE LET before == after[n - 1]
                 op     == g.ops[order[n]]
                 args   == [ k \in DOMAIN op.inputs |-> before[op.inputs[k]] ]
             IN  With(before, [ v \in Writes(g, order[n]) |-> Denoted(g, op, args) ])
  IN  after[Len(order)]

Observable(g) == g.outputs \cup { Output(g, i) : i \in SideEffects(g) }

\* Whatever the passes have rewritten, at every stage, also of an optimization
\* that fails, and after a reload: declared outputs and the results of side
\* effects are computed as the given graph says, if it verifies.
MeaningKept ==
  runs > 0 /\ Verifies(original) =>
    LET now == Denotation(graph)
        was == Denotation(original)
    IN  \A v \in Observable(original) : now[v] = was[v]

Effects(g) ==
  LET marked == InOrder(SideEffects(g))
  IN  [ k \in DOMAIN marked |-> g.ops[marked[k]].id ]

\* No pass drops, adds, duplicates or reorders a side effect, whatever
\* dependencies come and go (stable_topological_order chains them).
SideEffectsKept == runs > 0 /\ status # "idle" => Effects(graph) = Effects(original)

\* The pipeline has canonicalised the graph.
Canonicalised ==
  /\ status = "running" /\ Head(passes) # "verify"
  /\ Head(passes) = "canonicalise" => stage = "post"

\* From the canonicalisation on, every pass finds and leaves the operations in an
\* order in which they can run: folding relies on it to fold a chain in one go.
StoredTopologically ==
  Canonicalised => \A e \in DataEdges(graph) : e[1] < e[2]

\* The loader accepts what the optimizer makes of a graph it has accepted: kinds
\* follow what produces a value, producers and values stay in step, and no
\* output loses its connection to the inputs.
AcceptedGraphsReload == runs > 0 /\ Accepts(original) => status # "refused"

\* After an optimization that rewrites, the only values nobody reads are results
\* of side effects, the one reason the planner still has to refuse the graph
\* (memory_planner.cpp: an intermediate without a use).
OnlySideEffectsUnread ==
  status = "optimized" /\ changed =>
    \A i \in Operations(graph) :
      \/ graph.ops[i].side_effect
      \/ Writes(graph, i) \subseteq graph.inputs \cup graph.outputs
      \/ \E j \in Operations(graph) : Writes(graph, i) \cap Reads(graph, j) # {}

\* "A second execution of each pass produces no rewrite and reports
\* changed=false" (docs/architecture/optimization_passes.md), wherever in a
\* pipeline the pass has run and whatever the passes before it have left.
SecondPassChangesNothing ==
  status = "running" /\ stage = "post" => Apply(Head(passes), graph) = graph

\* The width of a projection: the last dimension of its result.
Width(g, op) ==
  LET right == ShapeOf(g, op.inputs[2])
  IN  IF op.type = "linear" THEN right[1] ELSE LastOf(right)

FusesWideBias(g, op) ==
  Has(op, "fused_activation") /\ ShapeOf(g, op.inputs[3]) # << Width(g, op) >>

\* A pass breaks a graph that verifies in one case only, a bias wider than the
\* projection it is fused with. In particular no pass removes what somebody
\* still reads, although uses and producers are looked up in maps taken before
\* its rewrites.
OnlyWideBiasBreaksGraphs ==
  status = "failed" /\ stage = "post" =>
    \E i \in Operations(graph) : FusesWideBias(graph, graph.ops[i])

\* The passes keep a graph that verifies one that verifies: FuseBiasGELUPass
\* "safely fuses" (docs/phase_reports/phase_06.md). Does not hold.
PassesKeepGraphsValid == ~(status = "failed" /\ stage = "post")

\* "Only scalar Add, Mul, Div, and exact GELU" is folded
\* (docs/architecture/optimization_passes.md). Does not hold.
OnlyExactGeluFolds ==
  runs > 0 =>
    \A i \in Operations(graph) : Is(graph.ops[i], "folded_from", "gelu") =>
      \A j \in Operations(original) :
        original.ops[j].id = graph.ops[i].id /\ OpType(original, j) = "gelu" =>
          IsExactGelu(original.ops[j])
=============================================================================
