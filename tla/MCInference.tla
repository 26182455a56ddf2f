---------------------------- MODULE MCInference ----------------------------
(***************************************************************************)
(* Small instances of Inference: an input, a parameter and four kernels.   *)
(***************************************************************************)
EXTENDS Inference, SequencesExt

Op(type, id, inputs, output, effect) ==
  [ type |-> type, id |-> id, inputs |-> inputs, outputs |-> << output >>,
    side_effect |-> effect,
    key |-> IF type = "parameter" THEN "weights" ELSE "none",
    content |-> CASE type = "parameter" -> "trained"
                  [] type = "constant"  -> "scalar"
                  [] OTHER              -> "none" ]

\* Value v is written by the operation stored at v. Values 3 to 6 are computed
\* and read the values given; 6 is the output.
Document(reads, sizes, ids, effects, outputs) ==
  [ ops |-> << Op("input", ids[1], << >>, 1, FALSE),
               Op("parameter", ids[2], << >>, 2, FALSE) >>
            \o [ k \in 1..4 |-> Op("compute", ids[k + 2], reads[k], k + 2, k + 2 \in effects) ],
    values |-> [ v \in 1..6 |->
                   [ kind |-> CASE v = 1 -> "input" [] v = 2 -> "parameter"
                                [] v > 2 /\ v \in outputs -> "output"
                                [] OTHER -> "intermediate",
                     bytes |-> IF v < 3 THEN 2 ELSE sizes[v - 2] ] ],
    inputs |-> {1}, outputs |-> outputs ]

\* Graphs of every shape: chains, forks, joins, a value read twice or kept for
\* long, and some that leave an intermediate unread.
Shapes ==
  { << << 1, 2 >>, r4, r5, r6 >> :
      r4 \in { << 3 >>, << 1 >>, << 3, 2 >> },
      r5 \in { << 4 >>, << 3 >>, << 4, 3 >>, << 2, 1 >> },
      r6 \in { << 5 >>, << 5, 4 >>, << 3, 5 >>, << 5, 5 >> } }

Ordinary ==
  { Document(reads, sizes, ids, {}, outputs) :
      reads \in Shapes,
      sizes \in { << 1, 2, 1, 2 >>, << 3, 1, 4, 1 >> },
      ids \in { << 1, 2, 3, 4, 5, 6 >>, << 6, 5, 4, 3, 2, 1 >> },
      outputs \in { {6}, {4, 6} } }

\* Side effects whose ids do not follow the document.
InOrder ==
  { Document(reads, << 1, 2, 1, 2 >>, ids, effects, {6}) :
      reads \in { << << 1, 2 >>, << 1 >>, << 3, 4 >>, << 5 >> >>,
                  << << 1 >>, << 2, 1 >>, << 4 >>, << 5, 3 >> >>,
                  << << 1 >>, << 1 >>, << 3 >>, << 5, 4 >> >> },
      ids \in { << 1, 2, 3, 4, 5, 6 >>, << 1, 2, 5, 4, 3, 6 >>, << 6, 5, 4, 3, 2, 1 >> },
      effects \in { {3, 4}, {4, 5}, {3, 4, 6} } }

\* The same, listed backwards: the loader does not ask for topological order.
Backwards ==
  { [ d EXCEPT !.ops = Reverse(d.ops) ] : d \in InOrder }

Effects == InOrder \cup Backwards

\* A constant that is an output, cycles, what the loader refuses, and tensors
\* that are too large.
Odd ==
  LET plain == Document(<< << 1, 2 >>, << 3 >>, << 4 >>, << 5 >> >>,
                        << 1, 2, 1, 2 >>, << 1, 2, 3, 4, 5, 6 >>, {}, {6})
  IN  { [ plain EXCEPT !.ops[4] = Op("constant", 4, << >>, 4, FALSE),
                       !.ops[5].inputs = << 4, 3 >>,
                       !.values[4].kind = kind ] : kind \in {"constant", "output"} }
      \cup { [ plain EXCEPT !.ops[3].inputs = << 5 >> ],
             [ plain EXCEPT !.ops[4].outputs = << 3 >> ],
             [ plain EXCEPT !.values[5].kind = "parameter" ],
             [ plain EXCEPT !.outputs = {5} ],
             [ plain EXCEPT !.ops[3].inputs = << 2 >> ],
             [ plain EXCEPT !.values[4].bytes = 97 ],
             [ plain EXCEPT !.values[1].bytes = 99 ] }

AllDocuments == Ordinary \cup Effects \cup Odd

FewDocuments == Effects \cup Odd

Arguments(inputs, parameters, captures) ==
  [ tag |-> 0, inputs |-> inputs, parameters |-> parameters, captures |-> captures ]

Right == [ v \in {1} |-> "right" ]
Trained == [ k \in {"weights"} |-> "trained" ]
None == [ v \in {} |-> 0 ]

\* Good calls with and without captures, and one of each kind of bad call.
SomeCalls ==
  { Arguments(Right, Trained, {}),
    Arguments(Right, Trained, {1, 3, 5}),
    Arguments(None, Trained, {}),
    Arguments([ v \in {1} |-> "wrong" ], Trained, {4}),
    Arguments(Right, [ k \in {"weights"} |-> "other" ], {1}),
    Arguments(Right, None, {}),
    Arguments([ v \in {1, 3} |-> "right" ], Trained, {}),
    Arguments(Right, Trained, {7}) }
============================================================================
