---------------------------- MODULE MCOptimizer ----------------------------
(***************************************************************************)
(* Graphs for the optimizer: families around each pass, with the variations*)
(* its guards tell apart, as files have them and, stored the other way     *)
(* round or not acceptable to the loader, as a C++ caller builds them.     *)
(***************************************************************************)
EXTENDS Optimizer

None == [ name \in {} |-> 0 ]

Op(id, type, inputs, output, attributes) ==
  [ id |-> id, type |-> type, inputs |-> inputs, outputs |-> << output >>,
    attributes |-> attributes, side_effect |-> FALSE ]

Marked(op, marked) == [ op EXCEPT !.side_effect = marked ]

Value(kind, shape) == [ kind |-> kind, shape |-> shape, dtype |-> "float32" ]

Integer(kind) == [ kind |-> kind, shape |-> << >>, dtype |-> "int64" ]

Constant(type, n) == [ value |-> [ type |-> type, tensor |-> Literal(n) ] ]

\* The inputs and outputs are declared by kind.
Graph(ops, values) ==
  [ ops |-> ops, values |-> values,
    inputs  |-> { v \in DOMAIN values : values[v].kind = "input" },
    outputs |-> { v \in DOMAIN values : values[v].kind = "output" } ]

\* The same operations, stored the other way round.
Backwards(g) == [ g EXCEPT !.ops = [ n \in DOMAIN @ |-> @[Len(@) + 1 - n] ] ]

----------------------------------------------------------------------------
(* A projection, its bias and its GELU, and another reader of one of them. *)

Projection(type, width) ==
  IF type = "linear"
    THEN Op(4, "linear", << "x", "w" >>, "p",
            [ bias |-> FALSE, in_features |-> 2, out_features |-> width ])
    ELSE Op(4, "mat_mul", << "x", "w" >>, "p", None)

\* What else is in the graph: the reader of value v, with what it makes of it.
Reader(v, kind, marked) ==
  [ op |-> Marked(Op(0, "softmax", << v >>, "z", [ axis |-> -1 ]), marked), kind |-> kind ]

Readers == { Reader("s", "intermediate", FALSE), Reader("p", "output", FALSE),
             Reader("p", "intermediate", TRUE), Reader("x", "output", FALSE) }

Chain(type, width, swapped, reader, declared) ==
  LET values ==
        [ x |-> Value("input", << 2, 2 >>), b |-> Value("parameter", << 2 >>),
          w |-> Value("parameter", IF type = "linear" THEN << width, 2 >> ELSE << 2, width >>),
          p |-> Value(IF declared THEN "output" ELSE "intermediate", << 2, width >>),
          s |-> Value("intermediate", << 2, 2 >>), y |-> Value("output", << 2, 2 >>) ]
  IN  Graph(<< Op(9, "input", << >>, "x", None), Op(8, "parameter", << >>, "w", None),
               Op(7, "parameter", << >>, "b", [ no_side_effect |-> TRUE ]),
               Projection(type, width),
               Op(5, "add", IF swapped THEN << "b", "p" >> ELSE << "p", "b" >>, "s", None),
               Op(6, "gelu", << "s" >>, "y", None), reader.op >>,
            With(values, [ z |-> Value(reader.kind, values[reader.op.inputs[1]].shape) ]))

Chains ==
  { Chain(type, 2, swapped, reader, FALSE) :
      type \in {"linear", "mat_mul"}, swapped \in BOOLEAN, reader \in Readers }
  \cup { Chain("linear", 2, FALSE, Reader("x", "output", FALSE), TRUE) }

Simple == Chain("mat_mul", 2, FALSE, Reader("x", "output", FALSE), FALSE)

\* Chains that miss one condition of the fusion: an operation is marked, the GELU
\* is another one, nothing is projected, or the bias is no parameter until an
\* identity is removed.
SpoiledChains ==
  { [ Simple EXCEPT !.ops[n].side_effect = TRUE ] : n \in 4 .. 6 }
  \cup { [ Simple EXCEPT !.ops[6].attributes = [ approximate |-> "tanh" ] ],
         [ Simple EXCEPT !.ops[5].inputs = << "x", "b" >> ],
         [ Simple EXCEPT
             !.ops = Append(@, Op(3, "reshape", << "b" >>, "c", [ shape |-> << 2 >> ])),
             !.ops[5].inputs = << "p", "c" >>,
             !.values = With(@, [ c |-> Value("intermediate", << 2 >>) ]) ] }

\* A product of a matrix and a batch of them.
Batched(g) ==
  [ g EXCEPT !.values = [ v \in DOMAIN @ |->
      IF v \in {"w", "p", "s", "y"} THEN [ @[v] EXCEPT !.shape = << 2 >> \o @ ] ELSE @[v] ] ]

WideChains ==
  LET Wide(type) == Chain(type, 1, FALSE, Reader("x", "output", FALSE), FALSE)
  IN  { Wide("linear"), Wide("mat_mul"), Batched(Wide("mat_mul")) }

----------------------------------------------------------------------------
(* Layout changes in a row, some of them identities.                       *)

Cube == << 2, 2, 2 >>

Layouts(shape, permutation, marked, kind) ==
  Graph(<< Op(6, "input", << >>, "x", None),
           Marked(Op(5, "reshape", << "x" >>, "r", [ shape |-> shape ]), marked),
           Op(4, "reshape", << "r" >>, "q", [ shape |-> Cube ]),
           Op(3, "transpose", << "q" >>, "t", [ permutation |-> permutation ]),
           Op(1, "causal_mask", << "t" >>, "m", None),
           Op(2, "softmax", << "m" >>, "y", [ axis |-> -2 ]) >>,
        [ x |-> Value("input", Cube), r |-> Value("intermediate", shape),
          q |-> Value("intermediate", Cube), t |-> Value(kind, Cube),
          m |-> Value("intermediate", Cube), y |-> Value("output", Cube) ])

LayoutGraphs ==
  { Layouts(shape, permutation, marked, kind) :
      shape \in { Cube, << 4, 2 >> }, permutation \in { << 0, 1, 2 >>, << 0, 2, 1 >> },
      marked \in BOOLEAN, kind \in {"intermediate", "output"} }

----------------------------------------------------------------------------
(* Arithmetic on scalar constants, in a chain, that scales an input.       *)

Scalars(first, second, last, marked) ==
  Graph(<< Op(1, "input", << >>, "x", None),
           Op(8, "constant", << >>, "c", Constant("float32", first)),
           Op(7, "constant", << >>, "d", Constant("float32", second)),
           Marked(Op(6, "divide", << "c", "d" >>, "e", None), marked),
           Op(5, "add", << "c", "d" >>, "f", None),
           Op(4, last, IF last = "gelu" THEN << "f" >> ELSE << "f", "e" >>, "h", None),
           Op(3, "multiply", << "x", "h" >>, "y", None),
           Op(2, "rms_norm", << "y", "w" >>, "n", [ axis |-> -1, epsilon |-> 1 ]),
           Op(9, "parameter", << >>, "w", None) >>,
        [ x |-> Value("input", << 2 >>), c |-> Value("constant", << >>),
          d |-> Value("constant", << >>), e |-> Value("intermediate", << >>),
          f |-> Value("intermediate", << >>), h |-> Value("intermediate", << >>),
          y |-> Value("output", << 2 >>), w |-> Value("parameter", << 2 >>),
          n |-> Value("intermediate", << 2 >>) ])

\* Integers, in and out of the range of an int64_t; the product may be declared.
Integers64(n, kind) ==
  Graph(<< Op(1, "input", << >>, "x", None),
           Op(2, "constant", << >>, "c", Constant("int64", n)),
           Op(3, "multiply", << "c", "c" >>, "d", None),
           Op(4, "add", << "d", "c" >>, "e", None),
           Op(5, "add", << "x", "e" >>, "y", None) >>,
        [ x |-> Integer("input"), c |-> Integer("constant"), d |-> Integer(kind),
          e |-> Integer("intermediate"), y |-> Integer("output") ])

ScalarGraphs ==
  { Scalars(2, second, last, marked) :
      second \in {0, 1}, last \in {"add", "gelu", "multiply"}, marked \in BOOLEAN }
  \cup { Integers64(n, "intermediate") : n \in {1, 2, 3} }

\* GELU with the other approximation.
TanhGraph ==
  LET g == Scalars(2, 1, "gelu", FALSE)
  IN  [ g EXCEPT !.ops[6].attributes = [ approximate |-> "tanh" ] ]

----------------------------------------------------------------------------
(* Side effects stored against their ids, or against their data; a value   *)
(* without a producer; a graph that does not verify.                       *)

TwoEffects(first, second) ==
  Graph(<< Op(1, "input", << >>, "x", None),
           Marked(Op(5, "gelu", << first >>, "u", None), TRUE),
           Marked(Op(3, "gelu", << second >>, "v", None), TRUE),
           Op(2, "gelu", << "x" >>, "y", None), Op(4, "gelu", << "x" >>, "z", None) >>,
        [ x |-> Value("input", << 2 >>), u |-> Value("intermediate", << 2 >>),
          v |-> Value("intermediate", << 2 >>), y |-> Value("output", << 2 >>),
          z |-> Value("intermediate", << 2 >>) ])

CallersGraphs ==
  { Backwards(g) : g \in { Chain("linear", 2, FALSE, reader, FALSE) : reader \in Readers } }
  \cup { Backwards(Layouts(Cube, << 0, 1, 2 >>, TRUE, "intermediate")),
         Backwards(Scalars(2, 1, "add", FALSE)), Integers64(1, "output"),
         TwoEffects("x", "y"), TwoEffects("u", "x"), TwoEffects("v", "x"),
         [ TwoEffects("x", "nobody") EXCEPT
             !.values = With(@, [ nobody |-> Value("intermediate", << 2 >>) ]) ],
         [ TwoEffects("x", "y") EXCEPT !.values["z"].shape = << 3 >> ] }

AllDocuments == Chains \cup SpoiledChains \cup WideChains \cup LayoutGraphs \cup ScalarGraphs

TanhDocuments == { TanhGraph }

NoGraphs == {}
=============================================================================
