--------------------------- MODULE RuntimeSession ---------------------------
(***************************************************************************)
(* RuntimeSession of cpp/src/runtime/runtime_session.cpp: a loaded graph   *)
(* with its plan and one arena, executed again and again by its owner.     *)
(*                                                                         *)
(* The contents of a tensor are a term: the operation that computed them   *)
(* and the terms it computed them from. Every byte of the arena remembers  *)
(* of which tensor it holds which byte, so a tensor that something else    *)
(* was written into reads as Garbled. A kernel does not write its result   *)
(* at once: between its start and its end the result's bytes are garbled,  *)
(* as the CPU kernels clear and accumulate in place.                       *)
(***************************************************************************)
EXTENDS ForgeGraph

CONSTANTS
  Calls,    \* the arguments execute may be given
  MaxCalls  \* bound on the calls of execute

VARIABLES
  graph,       \* graph_, as GraphLoader has stored it
  order,       \* memory_plan_.schedule: operations in execution order
  offset,      \* memory_plan_: arena offset of the values that have one
  arena_size,  \* arena_.size_bytes()
  status,      \* "unloaded", "ready" between calls, "running" within execute
  call,        \* the arguments of the current or last call
  cursor,      \* the operation of the loop, a position of order
  computing,   \* the kernel of that operation is running
  values,      \* where each value defined so far in this call is
  memory,      \* the bytes of the arena
  trace,       \* trace_
  captured,    \* captured_values_
  executed,    \* executed_
  calls        \* calls of execute so far

plan == << graph, order, offset, arena_size >>

vars == << plan, status, call, cursor, computing, values, memory, trace,
           captured, executed, calls >>

----------------------------------------------------------------------------
(* Contents.                                                               *)

\* What is in memory nobody has written, and what is left of a tensor that
\* something else was written into.
Garbled == Term(0, << >>, 0)

ByteSize(v) == graph.values[v].bytes

Extent(at, size) == at .. at + size - 1

Stored(mem, at, size, term) ==
  [ c \in DOMAIN mem |-> IF c \in Extent(at, size) THEN << term, c - at >> ELSE mem[c] ]

ReadBack(mem, at, size) ==
  LET term == mem[at][1]
  IN  IF \A c \in Extent(at, size) : mem[c] = << term, c - at >> THEN term ELSE Garbled

External(term) == [ space |-> "external", at |-> 0, term |-> term ]

InArena(at) == [ space |-> "arena", at |-> at, term |-> Garbled ]

Contents(v, location, mem) ==
  IF location.space = "external" THEN location.term
  ELSE ReadBack(mem, location.at, ByteSize(v))

Empty == [ v \in {} |-> 0 ]

With(f, v, x) == [ w \in DOMAIN f \cup {v} |-> IF w = v THEN x ELSE f[w] ]

NoCall == [ tag |-> 0, inputs |-> Empty, parameters |-> Empty, captures |-> {} ]

----------------------------------------------------------------------------
(* load.                                                                   *)

Init ==
  /\ status = "unloaded"
  /\ call = NoCall
  /\ cursor = 0
  /\ computing = FALSE
  /\ values = Empty
  /\ memory = Empty
  /\ trace = << >>
  /\ captured = Empty
  /\ executed = FALSE
  /\ calls = 0

\* The arena is allocated once; every call of execute works in it.
Load ==
  /\ status = "unloaded"
  /\ status' = "ready"
  /\ memory' = [ c \in Extent(0, arena_size) |-> << Garbled, c >> ]
  /\ UNCHANGED << plan, call, cursor, computing, values, trace, captured, executed, calls >>

----------------------------------------------------------------------------
(* execute.                                                                *)

Captures == call.captures \cup graph.outputs

\* What execute refuses before it runs anything.
BadCall(c) ==
  \/ ~(c.captures \subseteq DOMAIN graph.values)
  \/ ~(DOMAIN c.inputs \subseteq graph.inputs)

\* Mutated form of Cleared: the copies of the last call are kept.
KeptCaptures == captured

Cleared == Empty

\* Mutated form of TraceAtStart: the records of the last call are kept.
KeptTrace == trace

TraceAtStart == << >>

\* Results and trace of the last call are given up first, whatever becomes of
\* this one. A parameter the graph does not have is not refused.
Execute(c) ==
  /\ status = "ready" /\ calls < MaxCalls
  /\ calls' = calls + 1
  /\ call' = [ c EXCEPT !.tag = calls + 1 ]
  /\ trace' = TraceAtStart
  /\ captured' = Cleared
  /\ executed' = FALSE
  /\ values' = Empty
  /\ computing' = FALSE
  /\ IF BadCall(c)
       THEN status' = "ready" /\ cursor' = 0
       ELSE status' = "running" /\ cursor' = 1
  /\ UNCHANGED << plan, memory >>

Current == order[cursor]

Result(i) == graph.ops[i].outputs[1]

At(type) ==
  /\ status = "running" /\ cursor \in DOMAIN order
  /\ graph.ops[Current].type = type

\* Mutated form of Fail: the operation is tried again.
FailRetrying == UNCHANGED vars

\* An early return: the session can be called again, its results are not
\* available, its trace and its copies are left half filled.
Fail ==
  /\ status' = "ready"
  /\ computing' = FALSE
  /\ UNCHANGED << plan, call, cursor, values, memory, trace, captured, executed, calls >>

\* The end of an iteration: the value is defined, the operation traced and, if
\* it was asked for, a copy made on the spot.
Define(location, mem) ==
  LET v == Result(Current)
  IN  /\ values' = With(values, v, location)
      /\ memory' = mem
      /\ trace' = Append(trace, Current)
      /\ captured' = IF v \in Captures
                       THEN With(captured, v, Contents(v, location, mem))
                       ELSE captured
      /\ cursor' = cursor + 1
      /\ computing' = FALSE
      /\ UNCHANGED << plan, status, call, executed, calls >>

BindInput ==
  /\ At("input")
  /\ LET v == Result(Current)
     IN  IF v \in DOMAIN call.inputs /\ call.inputs[v] = "right"
           THEN Define(External(Term(Current, << >>, call.tag)), memory)
           ELSE Fail

\* A parameter is looked up by its archive key and must have the content the
\* graph was exported with.
BindParameter ==
  /\ At("parameter")
  /\ LET op == graph.ops[Current]
     IN  IF op.key \in DOMAIN call.parameters /\ call.parameters[op.key] = op.content
           THEN Define(External(Term(Current, << >>, 0)), memory)
           ELSE Fail

\* Only scalars are supported. A constant gets storage of its own, even if it
\* is a graph output that has a place in the arena.
BindConstant ==
  /\ At("constant")
  /\ IF graph.ops[Current].content = "scalar"
       THEN Define(External(Term(Current, << >>, 0)), memory)
       ELSE Fail

\* Mutated form of InsideArena: a tensor may not end where the arena does.
InsideArenaStrictly(v) == offset[v] + ByteSize(v) < arena_size

InsideArena(v) == offset[v] + ByteSize(v) <= arena_size

\* The bounds of the result and the operands are looked up, then the kernel
\* starts to write.
BeginKernel ==
  /\ At("compute") /\ ~computing
  /\ LET v == Result(Current)
     IN  IF /\ v \in DOMAIN offset
            /\ InsideArena(v)
            /\ Reads(graph, Current) \subseteq DOMAIN values
           THEN /\ computing' = TRUE
                /\ memory' = Stored(memory, offset[v], ByteSize(v), Garbled)
                /\ UNCHANGED << plan, status, call, cursor, values, trace,
                                captured, executed, calls >>
           ELSE Fail

\* The kernel has read its operands while it wrote the result.
EndKernel ==
  /\ At("compute") /\ computing
  /\ LET v == Result(Current)
         inputs == graph.ops[Current].inputs
         args == [ k \in DOMAIN inputs |-> Contents(inputs[k], values[inputs[k]], memory) ]
     IN  Define(InArena(offset[v]),
                Stored(memory, offset[v], ByteSize(v), Term(Current, args, 0)))

\* A kernel gives up after it may have written.
KernelFails ==
  /\ At("compute") /\ computing
  /\ Fail

\* Mutated form of Exhausted: the last operation is left out.
ExhaustedEarly == cursor >= Len(order)

Exhausted == cursor > Len(order)

FinishExecute ==
  /\ status = "running" /\ Exhausted
  /\ status' = "ready"
  /\ executed' = TRUE
  /\ UNCHANGED << plan, call, cursor, computing, values, memory, trace, captured, calls >>

Next ==
  \/ Load
  \/ \E c \in Calls : Execute(c)
  \/ BindInput
  \/ BindParameter
  \/ BindConstant
  \/ BeginKernel
  \/ EndKernel
  \/ KernelFails
  \/ FinishExecute

----------------------------------------------------------------------------
(* What the owner can fetch between two calls.                             *)

Unavailable == Term(0, << >>, 1)

\* get_value, and get_outputs for the graph outputs: both refuse before a
\* successful execution and for a value that was not retained.
GetValue(v) ==
  IF executed /\ v \in DOMAIN captured THEN captured[v] ELSE Unavailable
============================================================================
