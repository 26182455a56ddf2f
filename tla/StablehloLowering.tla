-------------------------- MODULE StablehloLowering --------------------------
(***************************************************************************)
(* The StableHLO bridge, cpp/src/mlir/stablehlo_lowering.cpp: a verified   *)
(* graph is lowered operation by operation, most of them to several        *)
(* instructions that pass temporaries on.                                  *)
(*                                                                         *)
(* The text is a sequence of instructions in static single assignment; the *)
(* arguments of @main come first, as instructions without operands. An     *)
(* emit_... operator takes what has been emitted so far and gives it with  *)
(* its own instructions appended; "last" is the name that it returns.      *)
(* Literals and dialect prefixes are left out.                             *)
(***************************************************************************)
EXTENDS SemanticVerifier

CONSTANTS Graphs  \* the graphs that are lowered

VARIABLES
  lowering,  \* the graph, its operation that is next, and the status
  text       \* code, the number of the next temporary, and the last name

loweringVars == << lowering, text >>

----------------------------------------------------------------------------
(* Emitting.                                                               *)

Type(dtype, shape) == [ dtype |-> dtype, shape |-> shape ]

TypeOf(g, v) == Type(DtypeOf(g, v), ShapeOf(g, v))

\* A value keeps its id; temporaries are numbered.
Ssa(v) == << "value", v >>
Temporary(n) == << "forgeir", n >>

temporary(t) == Temporary(t.next)

emit_generic(t, result, name, operands, types, type, attribute) ==
  [ code |-> Append(t.code, [ result |-> result, name |-> name, operands |-> operands,
                              types |-> types, type |-> type, attribute |-> attribute ]),
    next |-> IF result = temporary(t) THEN t.next + 1 ELSE t.next,
    last |-> result ]

Declare(t, name, type) == emit_generic(t, name, "argument", << >>, << >>, type, << >>)

emit_constant(t, result, type) ==
  emit_generic(t, result, "constant", << >>, << >>, type, << >>)

emit_dense_constant(t, shape) == emit_constant(t, temporary(t), Type("float32", shape))

\* An operation of operands that have the type of the result.
emit_like(t, result, name, operands, type) ==
  emit_generic(t, result, name, operands, [ k \in DOMAIN operands |-> type ], type, << >>)

emit_unary(t, name, operand, type) == emit_like(t, temporary(t), name, << operand >>, type)

emit_binary(t, result, name, left, right, type) ==
  emit_like(t, result, name, << left, right >>, type)

\* The axes of the result that those of an operand become, aligned at the end.
Trailing(from, to) == [ k \in DOMAIN from |-> Len(to) - Len(from) + k - 1 ]

\* Mutated form of emit_broadcast: it always aligns at the end.
emit_broadcast_trailing(t, operand, dtype, from, to, dimensions) ==
  IF from = to THEN [ t EXCEPT !.last = operand ]
  ELSE emit_generic(t, temporary(t), "broadcast_in_dim", << operand >>,
                    << Type(dtype, from) >>, Type(dtype, to), Trailing(from, to))

emit_broadcast(t, operand, dtype, from, to, dimensions) ==
  IF from = to THEN [ t EXCEPT !.last = operand ]
  ELSE emit_generic(t, temporary(t), "broadcast_in_dim", << operand >>,
                    << Type(dtype, from) >>, Type(dtype, to), dimensions)

WithoutAxis(shape, axis) ==
  SubSeq(shape, 1, axis) \o SubSeq(shape, axis + 2, Len(shape))

\* The reduction and the one instruction of its body take a temporary each.
emit_reduce(t, input, initial, shape, axis) ==
  LET reduced == emit_generic(t, temporary(t), "reduce", << input, initial >>,
                   << Type("float32", shape), Type("float32", << >>) >>,
                   Type("float32", WithoutAxis(shape, axis)), axis)
  IN  [ reduced EXCEPT !.next = @ + 1 ]

----------------------------------------------------------------------------
(* Operations.                                                             *)

emit_elementwise(t, g, op) ==
  LET out == TypeOf(g, op.outputs[1])
      Widened(u, v) == emit_broadcast(u, Ssa(v), out.dtype, ShapeOf(g, v), out.shape,
                                      Trailing(ShapeOf(g, v), out.shape))
      left  == Widened(t, op.inputs[1])
      right == Widened(left, op.inputs[2])
  IN  emit_binary(right, Ssa(op.outputs[1]), op.type, left.last, right.last, out)

\* Exact GELU: half of input * (erf(input / sqrt(2)) + 1).
emit_gelu(t, input, result, shape) ==
  LET type == Type("float32", shape)
      sqrt_two   == emit_dense_constant(t, shape)
      scaled     == emit_binary(sqrt_two, temporary(sqrt_two), "divide", input, sqrt_two.last, type)
      erf        == emit_unary(scaled, "erf", scaled.last, type)
      one        == emit_dense_constant(erf, shape)
      shifted    == emit_binary(one, temporary(one), "add", erf.last, one.last, type)
      multiplied == emit_binary(shifted, temporary(shifted), "multiply", input, shifted.last, type)
      half       == emit_dense_constant(multiplied, shape)
  IN  emit_binary(half, result, "multiply", multiplied.last, half.last, type)

\* The operands of the product, brought to the batch of the result.
BatchedOperands(t, g, op) ==
  LET out == TypeOf(g, op.outputs[1])
      batch == Batch(out.shape)
      Target(v) == batch \o SubSeq(ShapeOf(g, v), Len(ShapeOf(g, v)) - 1, Len(ShapeOf(g, v)))
      Widened(u, v) == emit_broadcast(u, Ssa(v), out.dtype, ShapeOf(g, v), Target(v),
                                      Trailing(ShapeOf(g, v), out.shape))
      left  == Widened(t, op.inputs[1])
      right == Widened(left, op.inputs[2])
  IN  [ after |-> right, names |-> << left.last, right.last >>,
        types |-> << Type(out.dtype, Target(op.inputs[1])), Type(out.dtype, Target(op.inputs[2])) >>,
        batch |-> Len(batch), contracting |-> << Len(batch) + 1, Len(batch) >> ]

\* The weight of a linear operation is transposed; there is no batch.
LinearOperands(t, g, op) ==
  LET left   == TypeOf(g, op.inputs[1])
      weight == ShapeOf(g, op.inputs[2])
      dtype  == DtypeOf(g, op.outputs[1])
      turned == Type(dtype, << weight[2], weight[1] >>)
      right  == emit_generic(t, temporary(t), "transpose", << Ssa(op.inputs[2]) >>,
                             << Type(dtype, weight) >>, turned, << 1, 0 >>)
  IN  [ after |-> right, names |-> << Ssa(op.inputs[1]), right.last >>,
        types |-> << Type(dtype, left.shape), turned >>,
        batch |-> 0, contracting |-> << Len(left.shape) - 1, 0 >> ]

FusedGelu(op) == Has(op, "fused_activation")

emit_matmul(t, g, op) ==
  LET result == Ssa(op.outputs[1])
      out == TypeOf(g, op.outputs[1])
      biased == Len(op.inputs) = 3
      in == IF op.type = "linear" THEN LinearOperands(t, g, op) ELSE BatchedOperands(t, g, op)
      Result(u, more) == IF more THEN temporary(u) ELSE result
      dot == emit_generic(in.after, Result(in.after, biased \/ FusedGelu(op)), "dot_general",
               in.names, in.types, out, [ batch |-> in.batch, contracting |-> in.contracting ])
      bias == emit_broadcast(dot, Ssa(op.inputs[3]), out.dtype, ShapeOf(g, op.inputs[3]),
                             out.shape, << Len(out.shape) - 1 >>)
      sum == IF biased
             THEN emit_binary(bias, Result(bias, FusedGelu(op)), "add", dot.last, bias.last, out)
             ELSE dot
  IN  IF FusedGelu(op) THEN emit_gelu(sum, sum.last, result, out.shape) ELSE sum

emit_rms_norm(t, g, op) ==
  LET input == Ssa(op.inputs[1])
      shape == ShapeOf(g, op.inputs[1])
      axis  == Len(shape) - 1
      row   == WithoutAxis(shape, axis)
      full    == Type("float32", shape)
      reduced == Type("float32", row)
      square  == emit_binary(t, temporary(t), "multiply", input, input, full)
      zero    == emit_dense_constant(square, << >>)
      sum     == emit_reduce(zero, square.last, zero.last, shape, axis)
      count   == emit_dense_constant(sum, row)
      mean    == emit_binary(count, temporary(count), "divide", sum.last, count.last, reduced)
      epsilon == emit_dense_constant(mean, row)
      variance == emit_binary(epsilon, temporary(epsilon), "add", mean.last, epsilon.last, reduced)
      root    == emit_unary(variance, "rsqrt", variance.last, reduced)
      spread  == emit_broadcast(root, root.last, "float32", row, shape,
                                [ k \in DOMAIN row |-> k - 1 ])
      normalized == emit_binary(spread, temporary(spread), "multiply", input, spread.last, full)
      weight  == emit_broadcast(normalized, Ssa(op.inputs[2]), "float32",
                                ShapeOf(g, op.inputs[2]), shape, << axis >>)
  IN  emit_binary(weight, Ssa(op.outputs[1]), "multiply", normalized.last, weight.last, full)

emit_softmax(t, g, op) ==
  LET input == Ssa(op.inputs[1])
      shape == ShapeOf(g, op.inputs[1])
      full  == Type("float32", shape)
      given == op.attributes["axis"]
      axis  == IF given < 0 THEN given + Len(shape) ELSE given
      row   == WithoutAxis(shape, axis)
      Spread(u) == emit_broadcast(u, u.last, "float32", row, shape,
                     [ k \in DOMAIN row |-> IF k - 1 < axis THEN k - 1 ELSE k ])
      minimum == emit_dense_constant(t, << >>)
      maximum == Spread(emit_reduce(minimum, input, minimum.last, shape, axis))
      shifted == emit_binary(maximum, temporary(maximum), "subtract", input, maximum.last, full)
      power   == emit_unary(shifted, "exponential", shifted.last, full)
      zero    == emit_dense_constant(power, << >>)
      sum     == Spread(emit_reduce(zero, power.last, zero.last, shape, axis))
  IN  emit_binary(sum, Ssa(op.outputs[1]), "divide", power.last, sum.last, full)

emit_operation(t, g, op) ==
  LET result == Ssa(op.outputs[1])
      type == TypeOf(g, op.outputs[1])
      input == Ssa(op.inputs[1])
      Moved(name, attribute) ==
        emit_generic(t, result, name, << input >>, << TypeOf(g, op.inputs[1]) >>, type, attribute)
  IN  CASE op.type \in {"input", "parameter"} -> t
        [] op.type = "constant" -> emit_constant(t, result, type)
        [] op.type \in {"mat_mul", "linear"} -> emit_matmul(t, g, op)
        [] op.type \in ElementwiseTypes -> emit_elementwise(t, g, op)
        [] op.type = "rms_norm"  -> emit_rms_norm(t, g, op)
        [] op.type = "gelu"      -> emit_gelu(t, input, result, type.shape)
        [] op.type = "softmax"   -> emit_softmax(t, g, op)
        [] op.type = "reshape"   -> Moved("reshape", << >>)
        [] op.type = "transpose" -> Moved("transpose", op.attributes["permutation"])

\* The arguments of @main, in the order of the operations that stand for them.
emit_header(g) ==
  LET header[n \in 0 .. Len(g.ops)] ==
        IF n = 0 THEN [ code |-> << >>, next |-> 0, last |-> << >> ]
        ELSE LET op == g.ops[n]
             IN  IF op.type \in {"input", "parameter"}
                 THEN Declare(header[n - 1], Ssa(op.outputs[1]), TypeOf(g, op.outputs[1]))
                 ELSE header[n - 1]
  IN  header[Len(g.ops)]

----------------------------------------------------------------------------
(* Lowering.                                                               *)

\* GELU is lowered for float32 only, and only if no other form is asked for.
UnsupportedGelu(g, op) ==
  \/ DtypeOf(g, op.outputs[1]) # "float32"
  \/ Has(op, "approximate") /\ ~Is(op, "approximate", "none")

\* What fails an operation, before or after a part of it has been emitted.
Unsupported(g, op) ==
  \/ op.type = "causal_mask"
  \/ op.type = "constant" /\ op.attributes["value"].data = "infinity"
  \/ op.type = "gelu" /\ UnsupportedGelu(g, op)
  \/ /\ op.type \in {"mat_mul", "linear"} /\ FusedGelu(op)
     /\ ~Is(op, "fused_activation", "GELU") \/ UnsupportedGelu(g, op)
  \/ op.type \in {"rms_norm", "softmax"} /\ DtypeOf(g, op.outputs[1]) # "float32"

NoText == [ code |-> << >>, next |-> 0, last |-> << >> ]

Current == lowering.graph.ops[lowering.at]

HasNext == lowering.status = "lowering" /\ lowering.at \in Operations(lowering.graph)

Lower ==
  /\ lowering.status = "idle"
  /\ \E g \in Graphs :
       IF Verifies(g)
       THEN /\ lowering' = [ graph |-> g, at |-> 1, status |-> "lowering" ]
            /\ text' = emit_header(g)
       ELSE /\ lowering' = [ graph |-> g, at |-> 1, status |-> "failed_precondition" ]
            /\ UNCHANGED text

EmitOperation ==
  /\ HasNext /\ ~Unsupported(lowering.graph, Current)
  /\ text' = emit_operation(text, lowering.graph, Current)
  /\ lowering' = [ lowering EXCEPT !.at = @ + 1 ]

\* What has been emitted is dropped.
FailOperation ==
  /\ HasNext /\ Unsupported(lowering.graph, Current)
  /\ text' = NoText
  /\ lowering' = [ lowering EXCEPT !.status = "unsupported" ]

EmitReturn ==
  /\ lowering.status = "lowering" /\ lowering.at > Len(lowering.graph.ops)
  /\ lowering' = [ lowering EXCEPT !.status = "ok" ]
  /\ text' = emit_generic(text, << "none" >>, "return",
               [ n \in DOMAIN lowering.graph.outputs |-> Ssa(lowering.graph.outputs[n]) ],
               [ n \in DOMAIN lowering.graph.outputs |->
                   TypeOf(lowering.graph, lowering.graph.outputs[n]) ], Type("none", << >>), << >>)

LoweringInit == lowering = [ graph |-> << >>, at |-> 0, status |-> "idle" ] /\ text = NoText

LoweringNext == Lower \/ EmitOperation \/ FailOperation \/ EmitReturn
=============================================================================
