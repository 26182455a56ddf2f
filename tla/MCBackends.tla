----------------------------- MODULE MCBackends -----------------------------
(***************************************************************************)
(* Requests for the two backends, and graphs for the bridge, which is what *)
(* else computes a verified graph. Tiles have 2 rows, columns and inner    *)
(* elements, blocks 4 threads, so extents of 1, 2, 3 and 5 have tiles and  *)
(* strides that are whole, cut off and missing. Most dimensions in the     *)
(* graphs are 2, so that types do not tell axes apart.                     *)
(***************************************************************************)
EXTENDS Backends, StablehloMeaning, TLC

Plain == [ note |-> "none" ]

CpuRequest(type, attributes, in, out, tiled) ==
  [ op |-> [ type |-> type, attributes |-> attributes ], in |-> in, out |-> out,
    contiguous |-> TRUE, tiled |-> tiled ]

Direct(type, attributes, in, out) == CpuRequest(type, attributes, in, out, FALSE)

Fused == [ bias |-> TRUE, fused_activation |-> "GELU", fused_activation_approximate |-> "none" ]

Fusions ==
  { Fused, [ Fused EXCEPT !.fused_activation_approximate = "tanh" ], [ bias |-> TRUE ] }

MatMuls ==
  { << << << 3, 5 >>, << 5, 3 >> >>, << 3, 3 >> >>,
    << << << 1, 2 >>, << 2, 1 >> >>, << 1, 1 >> >>,
    << << << 2, 1, 2, 3 >>, << 3, 3, 2 >> >>, << 2, 3, 2, 2 >> >>,
    << << << 2, 2 >>, << 2, 2, 3 >> >>, << 2, 2, 3 >> >> }

Features(attributes, i, o) == attributes @@ [ in_features |-> i, out_features |-> o ]

Linears ==
  { << << 2, 2, 5 >>, 3 >>, << << 1 >>, 1 >>, << << 3, 2 >>, 4 >> }

LinearRequest(attributes, case, biases, tiled) ==
  LET i == LastOf(case[1])
      in == << case[1], << case[2], i >> >> \o biases
  IN  CpuRequest("linear", Features(attributes, i, case[2]), in,
                 [ case[1] EXCEPT ![Len(case[1])] = case[2] ], tiled)

ProductRequests ==
  UNION { { CpuRequest("mat_mul", Plain, m[1], m[2], tiled) : m \in MatMuls }
          \cup { CpuRequest("mat_mul", f, Append(m[1], << LastOf(m[2]) >>), m[2], tiled) :
                   f \in Fusions, m \in MatMuls }
          \cup { LinearRequest([ bias |-> FALSE ], l, << >>, tiled) : l \in Linears }
          \cup { LinearRequest(f, l, << << l[2] >> >>, tiled) : f \in Fusions, l \in Linears }
          \cup { LinearRequest(Fused, << << 2, 3 >>, 2 >>, << << 3 >> >>, tiled),
                 CpuRequest("mat_mul", Plain, << << 2, 3 >>, << 2, 3 >> >>, << 2, 3 >>, tiled) } :
          tiled \in BOOLEAN }

BinaryRequests ==
  { Direct("add", Plain, << << 2, 3 >>, << 3 >> >>, << 2, 3 >>),
    Direct("multiply", Plain, << << 2, 1, 3 >>, << 4, 1 >> >>, << 2, 4, 3 >>),
    Direct("divide", Plain, << << >>, << 2, 2 >> >>, << 2, 2 >>),
    Direct("add", Plain, << << >>, << >> >>, << >>),
    Direct("add", Plain, << << 2 >>, << 3 >> >>, << 3 >>),
    Direct("add", Plain, << << 8, 1 >>, << 8 >> >>, << 8, 8 >>) }

Permutations3 ==
  { p \in [ 1 .. 3 -> 0 .. 2 ] : \A i, j \in 1 .. 3 : p[i] = p[j] => i = j }

OtherRequests ==
  { Direct("rms_norm", [ axis |-> -1, epsilon |-> e ], << << 2, 3 >>, << 3 >> >>, << 2, 3 >>) :
      e \in {0, 1, 2, 4} }
  \cup { Direct("gelu", a, << << 2, 2 >> >>, << 2, 2 >>) :
           a \in { Plain, [ approximate |-> "none" ], [ approximate |-> "tanh" ] } }
  \cup { Direct("softmax", [ axis |-> axis ], << << 2, 3, 2 >> >>, << 2, 3, 2 >>) :
           axis \in -4 .. 3 }
  \cup { Direct("reshape", [ shape |-> out ], << << 2, 3 >> >>, out) :
           out \in { << 3, 2 >>, << 6 >>, << 4 >> } }
  \cup { Direct("transpose", [ permutation |-> p ], << << 2, 3, 4 >> >>,
                [ k \in 1 .. 3 |-> << 2, 3, 4 >>[p[k] + 1] ]) : p \in Permutations3 }
  \cup { Direct("transpose", [ permutation |-> << 0, 0 >> ], << << 2, 2 >> >>, << 2, 2 >>) }
  \cup { Direct("causal_mask", [ masked_value |-> "-inf", diagonal |-> d ],
                << << 2, 3, 3 >> >>, << 2, 3, 3 >>) : d \in { -1, 0, 2, NotAnInteger } }
  \cup { Direct("causal_mask", [ masked_value |-> m ], << << 2, 2 >> >>, << 2, 2 >>) :
           m \in { "-inf", "0" } }
  \cup { Direct("gelu", Plain, << << 2 >>, << 2 >> >>, << 2 >>),
         Direct("rms_norm", [ axis |-> 0, epsilon |-> 2 ], << << 2 >> >>, << 2 >>),
         Direct("gelu", [ diagonal |-> NotAnInteger ], << << 2 >> >>, << 2 >>),
         [ Direct("gelu", Plain, << << 2 >> >>, << 2 >>) EXCEPT !.contiguous = FALSE ],
         Direct("constant", Plain, << >>, << >>) }

AllCpuRequests == ProductRequests \cup BinaryRequests \cup OtherRequests

----------------------------------------------------------------------------

Profile(kernel, rows, width) ==
  [ entry |-> "profile", kernel |-> kernel, rows |-> rows, width |-> width,
    inputSize |-> rows * width,
    auxiliarySize |-> IF kernel \in {"rms_norm", "fused_bias_gelu"} THEN width ELSE 0,
    epsilon |-> MinFloat, warmups |-> 1, measured |-> 1 ]

Execute(type, attributes, in, out) ==
  [ entry |-> "execute", op |-> [ type |-> type, attributes |-> attributes ],
    in |-> in, out |-> out, contiguous |-> TRUE, memory |-> "device" ]

SoftmaxRequests ==
  { Execute("softmax", [ axis |-> 1 ], << << 1, 3 >> >>, << 1, 3 >>) }

GoodCudaRequests ==
  SoftmaxRequests \cup
  { Profile("gelu", 2, 3), Profile("fused_bias_gelu", 3, 2), Profile("rms_norm", 1, 5),
    Profile("softmax", 1, 2), [ Profile("gelu", 1, 1) EXCEPT !.warmups = 2, !.measured = 2 ],
    Execute("gelu", Plain, << << 5 >> >>, << 5 >>),
    Execute("rms_norm", [ axis |-> -1, epsilon |-> 2 ], << << 2, 1 >>, << 1 >> >>, << 2, 1 >>) }

BadCudaRequests ==
  { Profile("softmax", 4, 1), Profile("gelu", 1, 6), Profile("gelu", 0, 1),
    [ Profile("gelu", 1, 1) EXCEPT !.measured = 0 ],
    [ Profile("rms_norm", 1, 2) EXCEPT !.epsilon = 0 ],
    Execute("rms_norm", [ axis |-> -1, epsilon |-> 1 ], << << 1, 2 >>, << 2 >> >>, << 1, 2 >>),
    [ Execute("gelu", Plain, << << 2 >> >>, << 2 >>) EXCEPT !.memory = "host" ],
    Execute("gelu", [ approximate |-> "tanh" ], << << 2 >> >>, << 2 >>),
    Execute("softmax", [ axis |-> 0 ], << << 2, 2 >> >>, << 2, 2 >>),
    Execute("add", Plain, << << 2 >>, << 2 >> >>, << 2 >>),
    Execute("gelu", Plain, << << >> >>, << >>) }

AllCudaRequests == GoodCudaRequests \cup BadCudaRequests

----------------------------------------------------------------------------

Node(type, attributes, inputs, result) ==
  [ type |-> type, attributes |-> attributes, inputs |-> inputs, outputs |-> << result >> ]

Input(v) == Node("input", Plain, << >>, v)

Typed(dtype, shapes) == [ v \in DOMAIN shapes |-> [ shape |-> shapes[v], dtype |-> dtype ] ]

GraphFrom(ops, values, outputs) == [ ops |-> ops, values |-> values, outputs |-> outputs ]

\* One operation and its operands.
OneOperation(dtype, request) ==
  LET n == Len(request.in)
  IN  GraphFrom([ v \in 1 .. n |-> Input(v) ]
                  \o << Node(request.op.type, request.op.attributes, [ v \in 1 .. n |-> v ], n + 1) >>,
                Typed(dtype, Append(request.in, request.out)), << n + 1 >>)

\* An attention block without its mask: norm, projection, scores, softmax, sum.
Block ==
  LET square == << 2, 2 >>
  IN  GraphFrom(
        << Input(1), Node("parameter", Plain, << >>, 2), Node("parameter", Plain, << >>, 3),
           Node("rms_norm", [ axis |-> 1, epsilon |-> 2 ], << 1, 2 >>, 4),
           Node("linear", Features(Fused, 2, 2), << 4, 3, 2 >>, 5),
           Node("transpose", [ permutation |-> << 1, 0 >> ], << 5 >>, 6),
           Node("mat_mul", Plain, << 4, 6 >>, 7),
           Node("constant", [ value |-> [ type |-> "float32", data |-> "scale" ] ], << >>, 8),
           Node("divide", Plain, << 7, 8 >>, 9),
           Node("softmax", [ axis |-> -1 ], << 9 >>, 10),
           Node("mat_mul", [ bias |-> TRUE ], << 10, 5, 2 >>, 11),
           Node("add", Plain, << 11, 1 >>, 12),
           Node("reshape", [ shape |-> << 1, 4 >> ], << 12 >>, 13) >>,
        Typed("float32", << square, << 2 >>, square, square, square, square, square, << >>, square,
                            square, square, square, << 1, 4 >> >>),
        << 13, 10 >>)

Infinite ==
  GraphFrom(<< Node("constant", [ value |-> [ type |-> "float32", data |-> "infinity" ] ],
                    << >>, 1) >>, Typed("float32", << << >> >>), << 1 >>)

SomeGraphs ==
  { Block, Infinite }
  \cup { OneOperation("float32", r) : r \in
           { Direct("softmax", [ axis |-> axis ], << << 2, 2, 2 >> >>, << 2, 2, 2 >>) :
               axis \in -4 .. 2 }
           \cup { Direct("softmax", [ axis |-> 0 ], << << 2 >> >>, << 2 >>),
                  Direct("rms_norm", [ axis |-> -1, epsilon |-> 2 ],
                         << << 2, 2, 2 >>, << 2 >> >>, << 2, 2, 2 >>),
                  Direct("rms_norm", [ axis |-> 0, epsilon |-> 2 ], << << 2 >>, << 2 >> >>, << 2 >>),
                  Direct("transpose", [ permutation |-> << 1, 2, 0 >> ],
                         << << 2, 2, 2 >> >>, << 2, 2, 2 >>),
                  Direct("mat_mul", Fused, << << 2, 1, 2, 2 >>, << 2, 2, 2 >>, << 2 >> >>,
                         << 2, 2, 2, 2 >>),
                  Direct("mat_mul", [ Fused EXCEPT !.fused_activation = "tanh" ],
                         << << 2, 2 >>, << 2, 2 >>, << 2 >> >>, << 2, 2 >>),
                  Direct("gelu", [ approximate |-> "tanh" ], << << 2 >> >>, << 2 >>),
                  Direct("causal_mask", Plain, << << 2, 2 >> >>, << 2, 2 >>) }
           \cup BinaryRequests
           \cup { LinearRequest([ bias |-> FALSE ], l, << >>, FALSE) : l \in Linears }
           \cup { LinearRequest(Fused, << << 1 >>, 1 >>, << << 1 >> >>, FALSE) } }
  \cup { OneOperation("int64", CpuRequest("mat_mul", a, << << 2, 2 >>, << 2, 2 >>, << 2 >> >>,
                                         << 2, 2 >>, FALSE)) : a \in { Fused, [ bias |-> TRUE ] } }

----------------------------------------------------------------------------

MCInit == Init /\ LoweringInit

MCNext ==
  \/ lowering.status = "idle" /\ Next /\ UNCHANGED loweringVars
  \/ backend = "none" /\ LoweringNext /\ UNCHANGED << backend, cpuVars, cudaVars >>

MCSpec ==
  MCInit /\ [][MCNext]_<< backend, cpuVars, cudaVars, loweringVars >> /\ CudaFairness
=============================================================================
