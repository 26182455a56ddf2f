------------------------ MODULE MCExecutionSchedule ------------------------
(***************************************************************************)
(* Small instances of ExecutionSchedule. Value v is the one operation v    *)
(* writes, unless the graph is made to break that.                         *)
(***************************************************************************)
EXTENDS ExecutionSchedule, FiniteSetsExt

\* The graph with the given edges, ids, side effects.
GraphOf(n, edges, ids, effects) ==
  [ ops |-> [ i \in 1..n |->
      [ id |-> ids[i],
        inputs |-> SelectSeq([k \in 1..n |-> k], LAMBDA p : << p, i >> \in edges),
        outputs |-> << i >>,
        side_effect |-> i \in effects ] ] ]

\* Every dependency relation on three operations, cyclic or not.
AllOfThree ==
  { GraphOf(3, edges, ids, effects) :
      edges \in SUBSET ((1..3) \X (1..3)),
      ids \in { << 1, 2, 3 >>, << 3, 1, 2 >>, << 2, 3, 1 >> },
      effects \in {{}, {1, 3}, {2, 3}, {1, 2, 3}} }

\* Four operations with up to three dependencies.
SomeOfFour ==
  { GraphOf(4, edges, ids, effects) :
      edges \in UNION { kSubset(k, { e \in (1..4) \X (1..4) : e[1] # e[2] }) : k \in 0..3 },
      ids \in { << 2, 4, 1, 3 >>, << 4, 3, 2, 1 >>, << 1, 3, 4, 2 >> },
      effects \in {{}, {1, 3}, {1, 2, 4}} }

\* Values without a producer or with two, and a value read or written twice.
Malformed ==
  { [ ops |-> << [ id |-> 1, inputs |-> ins, outputs |-> << 1 >>, side_effect |-> FALSE ],
                 [ id |-> 2, inputs |-> << 1, 1 >>, outputs |-> outs, side_effect |-> FALSE ] >> ] :
      ins \in {<< >>, << 2 >>, << 9 >>}, outs \in {<< 2 >>, << 1 >>, << 2, 3 >>, << 2, 2 >>} }

Schedulable == AllOfThree \cup SomeOfFour \cup Malformed
============================================================================
