----------------------------- MODULE MCArtifacts -----------------------------
(***************************************************************************)
(* Small instances of what goes in and out of the program: two processes   *)
(* that write files into one directory, a session that is benchmarked and  *)
(* executed, or a graph file that is loaded, written and edited.           *)
(***************************************************************************)
EXTENDS RuntimeBenchmark, BenchmarkRunner, GraphDocument, TLC

VARIABLE run  \* which of the three it is

\* The session: an input, a parameter and two kernels, the second reading the
\* result of the first; or the first alone, or a constant as the output.
Op(type, id, inputs, output) ==
  [ type |-> type, id |-> id, inputs |-> inputs, outputs |-> << output >>,
    side_effect |-> FALSE,
    key |-> IF type = "parameter" THEN "weights" ELSE "none",
    content |-> CASE type = "parameter" -> "trained"
                  [] type = "constant"  -> "scalar"
                  [] OTHER              -> "none" ]

Value(kind) == [ kind |-> kind, bytes |-> 1 ]

Chain ==
  [ graph |-> [ ops |-> << Op("input", 1, << >>, 1), Op("parameter", 2, << >>, 2),
                           Op("compute", 3, << 1, 2 >>, 3), Op("compute", 4, << 3, 1 >>, 4) >>,
                values |-> << Value("input"), Value("parameter"),
                              Value("intermediate"), Value("output") >>,
                inputs |-> {1}, outputs |-> {4} ],
    order |-> << 1, 2, 3, 4 >>,
    offset |-> (3 :> 0) @@ (4 :> 2),
    arena_size |-> 4 ]

Constant ==
  [ graph |-> [ ops |-> << Op("input", 1, << >>, 1), Op("constant", 2, << >>, 2),
                           Op("compute", 3, << 1, 2 >>, 3) >>,
                values |-> << Value("input"), Value("constant"), Value("output") >>,
                inputs |-> {1}, outputs |-> {3} ],
    order |-> << 1, 2, 3 >>,
    offset |-> 3 :> 0,
    arena_size |-> 2 ]

Arguments(inputs, parameters, captures) ==
  [ tag |-> 0, inputs |-> inputs, parameters |-> parameters, captures |-> captures ]

SomeCalls ==
  LET input == 1 :> "right"
      weights == "weights" :> "trained"
  IN  { Arguments(input, weights, {}), Arguments(input, weights, {1, 3}),
        Arguments(1 :> "wrong", weights, {}), Arguments(input, Empty, {3}),
        Arguments((1 :> "right") @@ (3 :> "right"), weights, {}) }

\* Up to the maxima, which are 1 and 2, and beyond them.
SomeOptions == { [ warmups |-> w, measured |-> m ] : w \in 0 .. 2, m \in 0 .. 3 }

\* The processes.
Forced == [ name |-> "benchmark", force |-> TRUE ]
Unforced == [ name |-> "benchmark", force |-> FALSE ]
Command(name, in, base) == [ name |-> name, in |-> in, base |-> base ]

Given == << "given", "graph" >>
Optimize == Command("optimize", Given, "out")

SomeScenarios ==
  { << Unforced, Unforced >>, << Forced, Unforced >>, << Forced, Forced >>,
    << Optimize, Command("verify", << "out", "graph" >>, "out") >>,
    << Optimize, Command("plan-memory", << "out", "graph" >>, "out") >>,
    << Command("optimize", Given, "given"), Optimize >>,
    << Optimize, Command("emit-mlir", << "out", "graph" >>, "out") >>,
    << Command("optimize", << "out", "pass_report" >>, "out"), Command("verify", Given, "given") >> }

PathsOf(scenario) ==
  UNION { FilesOf(GivenSteps(scenario[p]), "read") \cup Written(GivenSteps(scenario[p]))
          : p \in DOMAIN scenario }

SomePaths == UNION { PathsOf(scenario) : scenario \in SomeScenarios }

\* A graph to work on, and what an earlier optimize has left.
OldFiles == { Given } \cup { << "out", part >> : part \in {"graph", "pass_report"} }

\* The same alone, and beside a finished benchmark.
FilesBeforehand == { OldFiles, OldFiles \cup { f \in SomePaths : f[1] = Run } }

\* The graph files: an input, a parameter, a projection and its activation, with
\* ids that do not follow the listing, and fields the loader does not know.
Item(id, shape, kind) ==
  [ id |-> id, semantic_name |-> "name", dtype |-> "float32", kind |-> kind, shape |-> shape,
    comment |-> "of the exporter" ]

Node(id, type, inputs, output) ==
  [ id |-> id, type |-> type, semantic_name |-> "name", inputs |-> inputs,
    outputs |-> << output >>,
    attributes |-> IF type = "parameter" THEN [ content_sha256 |-> "digest" ] ELSE << >> ]

Plain ==
  Rehashed([
    graph_schema_version |-> "1.0", producer_version |-> "0.1", comment |-> "of the exporter",
    model_configuration_hash |-> "digest",
    weight_manifest |-> [ reference |-> "manifest", sha256 |-> "digest", comment |-> "more",
                          weight_archive |-> "weight_tensors.npz",
                          weight_archive_sha256 |-> "digest" ],
    inputs |-> << 1 >>, outputs |-> << 4 >>,
    values |-> << Item(1, << 2, 2 >>, "input"), Item(2, << 2, 2 >>, "parameter"),
                  Item(3, << 2, 2 >>, "intermediate"), Item(4, << 2, 2 >>, "output") >>,
    operations |-> << Node(3, "parameter", << >>, 2), Node(4, "input", << >>, 1),
                      Node(2, "linear", << 1, 2 >>, 3), Node(1, "gelu", << 3 >>, 4) >> ])

\* Two operations between the same ones, ready together.
Fork ==
  [ Plain EXCEPT
      !.values = [ @ EXCEPT ![2] = Item(2, << 2, 2 >>, "intermediate") ],
      !.operations = << Node(9, "input", << >>, 1), Node(7, "gelu", << 1 >>, 2),
                        Node(5, "softmax", << 1 >>, 3), Node(1, "add", << 2, 3 >>, 4) >> ]

Without(object, field) == [ f \in DOMAIN object \ {field} |-> object[f] ]

\* What the loader refuses, each with a digest that is right.
Refused ==
  LET Values(v) == [ Plain EXCEPT !.values[1] = v ]
      Nodes(n, op) == [ Plain EXCEPT !.operations[n] = op ]
      v1 == Plain.values[1]
      shapes == { << -1, 2 >>, << 0 >>, << 9 >>, << 6, 6 >>, << 4, 3 >> }
  IN  { Without(Plain, f) : f \in GraphFields }
      \cup { Values(Without(v1, f)) : f \in ValueFields }
      \cup { Values([ v1 EXCEPT !.shape = shape ]) : shape \in shapes }
      \cup { Nodes(3, Without(Plain.operations[3], f)) : f \in OperationFields }
      \cup { Nodes(4, Node(id, "gelu", << 3 >>, 4)) : id \in {0, 2, 3} }
      \cup { Nodes(4, Node(1, "gelu", inputs, output)) :
               inputs \in { << >>, << 0 >>, << 2 >>, << 4 >>, << 5 >>, << 1, 3 >> },
               output \in {1, 2, 3, 4, 5} }
      \cup { [ Plain EXCEPT !.graph_schema_version = "2.0" ],
             [ Plain EXCEPT !.weight_manifest.weight_archive = "other.npz" ],
             [ Plain EXCEPT !.weight_manifest = Without(@, "sha256") ],
             [ Plain EXCEPT !.inputs = << 1, 1 >> ], [ Plain EXCEPT !.outputs = << 3 >> ],
             [ Plain EXCEPT !.values = Append(@, Item(5, << 2 >>, "intermediate")) ],
             Values([ v1 EXCEPT !.id = 2 ]), Values([ v1 EXCEPT !.dtype = "float64" ]),
             Values([ v1 EXCEPT !.kind = "scratch" ]), Values([ v1 EXCEPT !.kind = "output" ]),
             Nodes(1, [ Plain.operations[1] EXCEPT !.attributes = << >> ]),
             Nodes(1, [ Plain.operations[1] EXCEPT !.id = 4 ]),
             Nodes(4, Node(1, "convolution", << 3 >>, 4)),
             Nodes(3, Node(2, "linear", << 1, 2, 2 >>, 3)),
             Nodes(3, Node(2, "linear", << 3, 2 >>, 3)) }

SomeGraphFiles ==
  { Plain, Rehashed(Fork), [ malformed |-> TRUE ], Without(Plain, "graph_hash") }
    \cup { Rehashed(document) : document \in { d \in Refused : "graph_hash" \in DOMAIN d } }

----------------------------------------------------------------------------

MCInit ==
  /\ run \in {"files", "session", "document"}
  /\ IF run = "files" THEN RunnerInit
     ELSE /\ files = [ f \in Paths |-> Absent ]
          /\ procs = [ p \in Processes |-> Process([ name |-> "none" ], << >>) ]
          /\ faults = 0 /\ directory = FALSE /\ hashed = << >> /\ mixed = {}
  /\ \E p \in IF run = "session" THEN { Chain, Constant } ELSE { Chain } :
       /\ graph = p.graph /\ order = p.order
       /\ offset = p.offset /\ arena_size = p.arena_size
  /\ Init /\ BenchInit
  /\ IF run = "document" THEN DocumentInit
     ELSE file = Plain /\ loaded = NotLoaded /\ edits = 0

MCNext ==
  /\ UNCHANGED run
  /\ \/ run = "files" /\ RunnerNext /\ UNCHANGED << vars, benchVars, documentVars >>
     \/ run = "session" /\ BenchNext /\ UNCHANGED << runnerVars, documentVars >>
     \/ run = "document" /\ DocumentNext /\ UNCHANGED << vars, benchVars, runnerVars >>

MCSpec == MCInit /\ [][MCNext]_<< run, vars, benchVars, runnerVars, documentVars >>
============================================================================
