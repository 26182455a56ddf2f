--------------------------- MODULE TensorMeaning ---------------------------
(***************************************************************************)
(* What an operation means, element by element, in coordinates: the        *)
(* reference that the kernels are compared with. It knows no strides, no   *)
(* tiles and no threads, and takes its operators from                      *)
(* docs/architecture/cpu_runtime.md, "Operators".                          *)
(*                                                                         *)
(* A tensor is stored in row-major order, its elements numbered from 0. An *)
(* element of a result is the function applied and the elements read, each *)
(* as << operand, element >>, in the order in which they are accumulated.  *)
(* Numbers are not modelled.                                               *)
(***************************************************************************)
EXTENDS SemanticVerifier

CONSTANTS
  MinFloat,   \* the least positive float, and the greatest, in the units in
  MaxFloat    \* which epsilon, a double in the graph, is given

\* The attribute as a float: what is too small becomes 0 and what is too great
\* infinity.
IsFinitePositiveFloat(epsilon) == MinFloat <= epsilon /\ epsilon <= MaxFloat

Element(f, reads) == [ f |-> f, reads |-> reads ]

\* The positions of a tensor, one coordinate from 0 per axis.
Coordinates(shape) ==
  { c \in [ DOMAIN shape -> UNION { 0 .. shape[k] - 1 : k \in DOMAIN shape } ] :
      \A k \in DOMAIN shape : c[k] < shape[k] }

\* The element stored for a position.
Position(shape, c) ==
  LET element[n \in 0 .. Len(shape)] ==
        IF n = 0 THEN 0 ELSE element[n - 1] * shape[n] + c[n]
  IN  element[Len(shape)]

\* The position of a broadcast operand that is used at position c.
Aligned(shape, c) ==
  [ k \in DOMAIN shape |-> IF shape[k] = 1 THEN 0 ELSE c[k + Len(c) - Len(shape)] ]

\* The positions that differ from c in this axis only, in order.
Along(shape, c, axis) == [ n \in 1 .. shape[axis] |-> [ c EXCEPT ![axis] = n - 1 ] ]

\* The reads of two sequences of positions in turn.
InTurn(left, right) ==
  [ n \in 1 .. 2 * Len(left) |->
      IF n % 2 = 1 THEN << 1, left[(n + 1) \div 2] >> ELSE << 2, right[n \div 2] >> ]

MeaningOfMatMul(in, c) ==
  LET batch  == Batch(c)
      row    == c[Len(c) - 1]
      column == LastOf(c)
      left   == [ n \in 1 .. LastOf(in[1]) |->
                    Position(in[1], Aligned(Batch(in[1]), batch) \o << row, n - 1 >>) ]
      right  == [ n \in 1 .. LastOf(in[1]) |->
                    Position(in[2], Aligned(Batch(in[2]), batch) \o << n - 1, column >>) ]
  IN  InTurn(left, right)

MeaningOfLinear(in, c) ==
  InTurn([ n \in 1 .. in[2][2] |-> Position(in[1], [ c EXCEPT ![Len(c)] = n - 1 ]) ],
         [ n \in 1 .. in[2][2] |-> Position(in[2], << LastOf(c), n - 1 >>) ])

\* The whole line through c, then c itself.
MeaningOfLine(shape, c, axis) ==
  LET line == Along(shape, c, axis)
  IN  [ n \in DOMAIN line |-> << 1, Position(shape, line[n]) >> ]
        \o << << 1, Position(shape, c) >> >>

Axis(op, shape) ==
  IF op.attributes["axis"] < 0 THEN op.attributes["axis"] + Len(shape) + 1
  ELSE op.attributes["axis"] + 1

\* The element at position c of what op computes from operands of these shapes.
Meaning(op, in, out, c) ==
  LET here == << 1, Position(out, c) >>
      bias == << << 3, LastOf(c) >> >>
      product == IF op.type = "linear" THEN MeaningOfLinear(in, c) ELSE MeaningOfMatMul(in, c)
  IN  CASE op.type \in {"mat_mul", "linear"} ->
             IF Len(in) = 3 THEN Element("gelu", product \o bias) ELSE Element("sum", product)
        [] op.type \in ElementwiseTypes ->
             Element(op.type, << << 1, Position(in[1], Aligned(in[1], c)) >>,
                                 << 2, Position(in[2], Aligned(in[2], c)) >> >>)
        [] op.type = "rms_norm" ->
             Element("rms_norm", MeaningOfLine(out, c, Len(out)) \o << << 2, LastOf(c) >> >>)
        [] op.type = "gelu"    -> Element("gelu", << here >>)
        [] op.type = "softmax" -> Element("softmax", MeaningOfLine(out, c, Axis(op, out)))
        [] op.type = "reshape" -> Element("copy", << here >>)
        [] op.type = "transpose" ->
             LET permutation == op.attributes["permutation"]
                 source == [ k \in DOMAIN c |->
                               c[CHOOSE j \in DOMAIN c : permutation[j] = k - 1] ]
             IN  Element("copy", << << 1, Position(in[1], source) >> >>)
        [] op.type = "causal_mask" ->
             LET diagonal == IF Has(op, "diagonal") THEN op.attributes["diagonal"] ELSE 0
             IN  IF LastOf(c) > c[Len(c) - 1] + diagonal THEN Element("-inf", << >>)
                 ELSE Element("copy", << here >>)

\* The stored contents are what the operation means, at every position.
IsMeaning(contents, op, in, out) ==
  /\ DOMAIN contents = { Position(out, c) : c \in Coordinates(out) }
  /\ \A c \in Coordinates(out) : contents[Position(out, c)] = Meaning(op, in, out, c)
=============================================================================
