-------------------------- MODULE SemanticVerifier --------------------------
(***************************************************************************)
(* The shape and dtype rules of cpp/src/passes/semantic_verifier.cpp, by   *)
(* which GraphVerifierPass accepts or refuses a graph. No state.           *)
(*                                                                         *)
(* On top of ForgeGraph, a value has a shape and a dtype, and an operation *)
(* a type of OperationType and attributes, a function of those that are    *)
(* present. The value of a constant knows its type in JSON.                *)
(***************************************************************************)
EXTENDS ForgeGraph

ShapeOf(g, v) == g.values[v].shape

DtypeOf(g, v) == g.values[v].dtype

Has(op, name) == name \in DOMAIN op.attributes

Is(op, name, value) == Has(op, name) /\ op.attributes[name] = value

LastOf(seq) == seq[Len(seq)]

----------------------------------------------------------------------------
(* Shapes.                                                                 *)

\* The dimension at this distance from the last one; 1 where there is none.
DimensionFromEnd(shape, offset) ==
  IF offset < Len(shape) THEN shape[Len(shape) - offset] ELSE 1

Rank(left, right) == IF Len(left) > Len(right) THEN Len(left) ELSE Len(right)

Broadcastable(left, right) ==
  \A offset \in 0 .. Rank(left, right) - 1 :
    LET l == DimensionFromEnd(left, offset)
        r == DimensionFromEnd(right, offset)
    IN  l = r \/ l = 1 \/ r = 1

\* broadcast_dimensions: the larger of the two, dimension by dimension.
Broadcast(left, right) ==
  LET rank == Rank(left, right)
  IN  [ k \in 1 .. rank |->
          LET l == DimensionFromEnd(left, rank - k)
              r == DimensionFromEnd(right, rank - k)
          IN  IF l > r THEN l ELSE r ]

Batch(shape) == SubSeq(shape, 1, Len(shape) - 2)

MatMulAgrees(op, in, out) ==
  LET left  == in[1]
      right == in[2]
      expected == Broadcast(Batch(left), Batch(right))
                    \o << left[Len(left) - 1], LastOf(right) >>
  IN  /\ Len(left) >= 2 /\ Len(right) >= 2
      /\ LastOf(left) = right[Len(right) - 1]
      /\ Broadcastable(Batch(left), Batch(right))
      /\ Len(in) = 3 => Is(op, "bias", TRUE) /\ in[3] = << LastOf(expected) >>
      /\ out = expected

LinearAgrees(op, in, out) ==
  LET input  == in[1]
      weight == in[2]
  IN  /\ Len(input) >= 1 /\ Len(weight) = 2
      /\ Has(op, "bias")
      /\ Len(in) = IF op.attributes["bias"] THEN 3 ELSE 2
      /\ LastOf(input) = weight[2]
      /\ Is(op, "in_features", weight[2]) /\ Is(op, "out_features", weight[1])
      /\ Len(in) = 3 => in[3] = << weight[1] >>
      /\ out = [ input EXCEPT ![Len(input)] = weight[1] ]

RMSNormAgrees(op, in, out) ==
  /\ Len(in[1]) >= 1
  /\ in[2] = << LastOf(in[1]) >>
  /\ Is(op, "axis", -1) \/ Is(op, "axis", Len(in[1]) - 1)
  /\ Has(op, "epsilon") /\ op.attributes["epsilon"] > 0
  /\ out = in[1]

Product(shape) ==
  LET product[n \in 0 .. Len(shape)] == IF n = 0 THEN 1 ELSE product[n - 1] * shape[n]
  IN  product[Len(shape)]

ReshapeAgrees(op, in, out) ==
  /\ Has(op, "shape")
  /\ LET target == op.attributes["shape"]
     IN  /\ \A k \in DOMAIN target : target[k] > 0
         /\ Product(in[1]) = Product(target)
         /\ out = target

TransposeAgrees(op, in, out) ==
  /\ Has(op, "permutation")
  /\ LET permutation == op.attributes["permutation"]
     IN  /\ Len(permutation) = Len(in[1])
         /\ Elements(permutation) = 0 .. Len(in[1]) - 1
         /\ out = [ k \in DOMAIN permutation |-> in[1][permutation[k] + 1] ]

ElementwiseTypes == {"add", "multiply", "divide"}

ShapeAgrees(g, i) ==
  LET op  == g.ops[i]
      in  == [ k \in DOMAIN op.inputs |-> ShapeOf(g, op.inputs[k]) ]
      out == ShapeOf(g, op.outputs[1])
  IN  CASE op.type \in {"input", "parameter", "constant"} -> TRUE
        [] op.type = "mat_mul"  -> MatMulAgrees(op, in, out)
        [] op.type = "linear"   -> LinearAgrees(op, in, out)
        [] op.type \in ElementwiseTypes ->
             Broadcastable(in[1], in[2]) /\ out = Broadcast(in[1], in[2])
        [] op.type = "rms_norm" -> RMSNormAgrees(op, in, out)
        [] op.type = "gelu"     -> out = in[1]
        [] op.type = "softmax"  ->
             /\ Has(op, "axis") /\ op.attributes["axis"] \in -Len(in[1]) .. Len(in[1]) - 1
             /\ out = in[1]
        [] op.type = "reshape"   -> ReshapeAgrees(op, in, out)
        [] op.type = "transpose" -> TransposeAgrees(op, in, out)
        [] op.type = "causal_mask" ->
             /\ Len(in[1]) >= 2 /\ in[1][Len(in[1]) - 1] = LastOf(in[1])
             /\ out = in[1]

----------------------------------------------------------------------------
(* Dtypes.                                                                 *)

SameDtype(g, op, allowed) ==
  LET expected == DtypeOf(g, op.inputs[1])
  IN  /\ \A k \in DOMAIN op.inputs : DtypeOf(g, op.inputs[k]) = expected
      /\ expected \in allowed
      /\ DtypeOf(g, op.outputs[1]) = expected

\* A constant is a scalar of the dtype its value has in JSON.
ConstantAgrees(g, op) ==
  /\ Has(op, "value")
  /\ ShapeOf(g, op.outputs[1]) = << >>
  /\ DtypeOf(g, op.outputs[1]) = op.attributes["value"].type

DtypeAgrees(g, i) ==
  LET op == g.ops[i]
  IN  CASE op.type \in {"input", "parameter"} -> TRUE
        [] op.type = "constant" -> ConstantAgrees(g, op)
        [] op.type \in {"mat_mul", "linear", "add", "multiply"} ->
             SameDtype(g, op, {"float32", "int64"})
        [] op.type \in {"divide", "rms_norm", "gelu", "softmax", "causal_mask"} ->
             SameDtype(g, op, {"float32"})
        [] op.type \in {"reshape", "transpose"} ->
             DtypeOf(g, op.outputs[1]) = DtypeOf(g, op.inputs[1])

\* The verifier looks up every operand and throws if one is gone.
OperandsExist(g) ==
  \A i \in Operations(g) : Reads(g, i) \cup Writes(g, i) \subseteq DOMAIN g.values

Verifies(g) ==
  /\ OperandsExist(g)
  /\ \A i \in Operations(g) : ShapeAgrees(g, i) /\ DtypeAgrees(g, i)
=============================================================================
