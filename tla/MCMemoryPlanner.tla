-------------------------- MODULE MCMemoryPlanner --------------------------
(***************************************************************************)
(* Small instances of MemoryPlanner.                                       *)
(***************************************************************************)
EXTENDS MemoryPlanner

Value(definition, uses, kind, declared, bytes) ==
  [ definition |-> definition, uses |-> uses, kind |-> kind,
    declared |-> declared, bytes |-> bytes ]

Call(boundary, values) ==
  [ backend |-> "cpu", alignment |-> 2, boundary |-> boundary, values |-> values ]

\* The arena values an operation at this index can define: an output, or an
\* intermediate last read by a later operation.
ArenaValuesAt(index, boundary, sizes) ==
  { Value(index, {}, "output", TRUE, bytes) : bytes \in sizes } \cup
  { Value(index, {last}, "intermediate", FALSE, bytes) :
      last \in index + 1 .. boundary - 1, bytes \in sizes }

\* Five arena values of two sizes, the last of the larger one, one defined per
\* operation, and an operation behind them that can read them all. Values 1 and
\* 3 swap their ids with respect to the schedule.
Chains ==
  { Call(6, << v1, v2, v3, v4, v5 >>) :
      v1 \in ArenaValuesAt(2, 6, {2, 3}), v2 \in ArenaValuesAt(1, 6, {2, 3}),
      v3 \in ArenaValuesAt(0, 6, {2, 3}), v4 \in ArenaValuesAt(3, 6, {2, 3}),
      v5 \in ArenaValuesAt(4, 6, {3}) }

\* Four arena values of three sizes behind an input; the first operation after
\* it defines two of them.
Forks ==
  { Call(5, << v1, v2, v3, v4, Value(0, {1}, "input", FALSE, 2) >>) :
      v1 \in ArenaValuesAt(1, 5, {1, 4, 6}), v2 \in ArenaValuesAt(1, 5, {1, 4, 6}),
      v3 \in ArenaValuesAt(2, 5, {1, 4, 6}), v4 \in ArenaValuesAt(3, 5, {1, 4, 6}) }

\* A value with everything the planner can be given, right or wrong, near the
\* limit of the integers, which the configuration puts at 63.
AnyValues ==
  { Value(d, u, k, declared, bytes) :
      d \in -1..1, u \in {{}, {0}, {1}}, k \in Kinds, declared \in BOOLEAN,
      bytes \in {0, 1, 32, 63} }

\* Another one, of which only the size and the lifetime differ.
Neighbours ==
  { Value(d, u, k, k = "output", bytes) :
      d \in {0, 1}, u \in {{}, {1}}, k \in {"input", "intermediate", "output"},
      bytes \in {1, 32} }

Edges ==
  { Call(2, << v, w >>) : v \in AnyValues, w \in Neighbours }
    \cup
  { [ backend |-> b, alignment |-> a, boundary |-> 2,
      values |-> << Value(1, {}, "output", TRUE, 1) >> ] :
      b \in {Unnamed, "cpu"}, a \in {0, 1, 3, 4} }

PlannerRequests == Chains \cup Forks \cup Edges
============================================================================
