--------------------------- MODULE MemoryPlanner ---------------------------
(***************************************************************************)
(* The static memory planner, plan_memory of                               *)
(* cpp/src/runtime/memory_planner.cpp.                                     *)
(*                                                                         *)
(* One call is one behaviour: the options are checked, every value of the  *)
(* graph gets a lifetime and a storage class, the naive total is summed,   *)
(* the arena values are placed one at a time in definition order (each     *)
(* iteration of the loop releases what expired, coalesces the free list    *)
(* and takes the best fit or grows the arena), the peak is measured and    *)
(* the finished plan goes through verify_memory_plan before it is given    *)
(* out.                                                                    *)
(*                                                                         *)
(* A request holds what the planner reads of the graph and its schedule.   *)
(* A value is a number, its rank among the value ids: the allocation loop  *)
(* breaks ties by value_id, and nothing else depends on the spelling.      *)
(***************************************************************************)
EXTENDS Integers, FiniteSets

CONSTANTS
  Requests,  \* the calls considered
  MaxU64     \* the largest uint64_t

Kinds == {"input", "parameter", "constant", "intermediate", "output"}

\* The empty backend name.
Unnamed == "unnamed"

\* "No operation defines this value."
NoIndex == -1

\* boundary is the number of scheduled operations (retention_boundary); a
\* value has the index of the operation that defines it, the indices of those
\* that read it, whether the graph lists it as an output, and its byte size (0
\* when a dimension is zero or dynamic).
IsRequest(r) ==
  /\ r.alignment \in 0..MaxU64
  /\ r.boundary \in Nat
  /\ DOMAIN r.values \subseteq Nat /\ IsFiniteSet(DOMAIN r.values)
  /\ \A v \in DOMAIN r.values :
       /\ r.values[v].definition \in (0 .. r.boundary - 1) \cup {NoIndex}
       /\ r.values[v].uses \subseteq 0 .. r.boundary - 1
       /\ r.values[v].kind \in Kinds
       /\ r.values[v].declared \in BOOLEAN
       /\ r.values[v].bytes \in 0..MaxU64

ASSUME MaxU64Assumption == MaxU64 \in Nat
ASSUME RequestsAssumption == \A r \in Requests : IsRequest(r)

VARIABLES
  phase,      \* where the call is; "planned" and "rejected" are its two ends
  request,    \* its argument
  tensors,    \* plan.tensors: one TensorLifetime per value
  naive,      \* plan.naive_allocation_bytes
  offset,     \* arena_offset of the values placed so far
  active,     \* values holding an ActiveAllocation
  free,       \* free_blocks
  arena_end,  \* end of the arena so far
  peak,       \* plan.peak_live_bytes
  error       \* why the call was rejected

vars == << phase, request, tensors, naive, offset, active, free, arena_end,
           peak, error >>

arena == << offset, active, free, arena_end >>

----------------------------------------------------------------------------
(* Arithmetic and lifetimes.                                               *)

IsPowerOfTwo(n) == n # 0 /\ \E k \in 0..n : n = 2^k

AlignUp(n, alignment) ==
  IF n % alignment = 0 THEN n ELSE n + (alignment - (n % alignment))

Maximum(S) == CHOOSE m \in S : \A x \in S : x <= m

DeclaredOutput(value) == value.declared \/ value.kind = "output"

StorageClass(value) ==
  CASE DeclaredOutput(value) -> "arena_output"
    [] ~DeclaredOutput(value) /\ value.kind = "input" -> "external_input"
    [] ~DeclaredOutput(value) /\ value.kind \in {"parameter", "constant"} ->
         "external_immutable"
    [] ~DeclaredOutput(value) /\ value.kind = "intermediate" -> "arena_reusable"

\* Mutated form of FinalUse: the lifetime ends with the first use.
FirstUse(value, boundary) ==
  IF DeclaredOutput(value) THEN boundary
  ELSE IF value.uses = {} THEN value.definition
  ELSE CHOOSE m \in value.uses : \A x \in value.uses : m <= x

FinalUse(value, boundary) ==
  IF DeclaredOutput(value) THEN boundary
  ELSE IF value.uses = {} THEN value.definition
  ELSE Maximum(value.uses)

Lifetime(value, r) ==
  [ definition_index |-> value.definition,
    final_use_index  |-> FinalUse(value, r.boundary),
    storage_class    |-> StorageClass(value),
    size             |-> AlignUp(value.bytes, r.alignment) ]

\* The refusals of the loop over graph.values(). The loop stops at the first
\* bad value; which one that is depends on the storage order, so any of the
\* reasons present may be the one reported.
Refusal(value, r, reason) ==
  \/ reason = "missing_definition" /\ value.definition = NoIndex
  \/ reason = "unresolved_dimension" /\ value.bytes = 0
  \/ reason = "overflow" /\ AlignUp(value.bytes, r.alignment) > MaxU64
  \/ reason = "used_before_definition"
       /\ \E use \in value.uses : use < value.definition
  \/ reason = "unused_intermediate"
       /\ value.kind = "intermediate" /\ value.uses = {} /\ ~value.declared

RefusalReasons ==
  { "missing_definition", "unresolved_dimension", "overflow",
    "used_before_definition", "unused_intermediate" }

External(v) ==
  tensors[v].storage_class \in {"external_input", "external_immutable"}

ArenaValues == { v \in DOMAIN tensors : ~External(v) }

Retained(v) == tensors[v].storage_class = "arena_output"

\* The bytes of the values in S, one element each: a total of sizes is the
\* cardinality of such a set.
Bytes(S) == UNION { {v} \X (0 .. tensors[v].size - 1) : v \in S }

LiveAt(index) ==
  { v \in ArenaValues : /\ tensors[v].definition_index <= index
                        /\ index <= tensors[v].final_use_index }

----------------------------------------------------------------------------
(* The free list.                                                          *)

Block(from, to) == [ offset |-> from, size |-> to - from ]

End(block) == block.offset + block.size

Starts(blocks) == { b.offset : b \in blocks }

Ends(blocks) == { End(b) : b \in blocks }

\* Mutated form of Coalesce: neighbours are not merged.
CoalesceNothing(blocks) == blocks

\* coalesce_free_blocks sorts by offset and merges a block into its predecessor
\* when that one ends where it starts: what is left are the maximal runs. A run
\* starts at a start that is no end and stops at the next end that is no start.
\* (Its checked additions stay below arena_end and cannot overflow.)
Coalesce(blocks) ==
  LET run_starts == Starts(blocks) \ Ends(blocks)
      run_ends   == Ends(blocks) \ Starts(blocks)
      IsRun(s, e) == /\ s < e
                     /\ \A x \in run_starts \cup run_ends : ~(s < x /\ x < e)
  IN  { Block(run[1], run[2]) :
          run \in { se \in run_starts \X run_ends : IsRun(se[1], se[2]) } }

\* Mutated form of Expired: a value is released at the operation that reads it
\* last, while that operation may be writing its own result.
ExpiredAtLastUse(index) ==
  { a \in active : tensors[a].final_use_index <= index }

\* release_expired gives up the allocations whose last use is over strictly
\* before the definition being placed.
Expired(index) == { a \in active : tensors[a].final_use_index < index }

FreeAfterRelease(index) ==
  Coalesce(free \cup { Block(offset[a], offset[a] + tensors[a].size) :
                         a \in Expired(index) })

\* Mutated form of BestFit: the smallest block, large enough or not.
SmallestBlock(blocks, size) ==
  { b \in blocks :
      \A c \in blocks : b.size < c.size \/ (b.size = c.size /\ b.offset <= c.offset) }

\* The block allocate_best_fit settles on: the smallest that is large enough,
\* the lowest of these.
BestFit(blocks, size) ==
  { b \in blocks :
      /\ size <= b.size
      /\ \A c \in blocks : size <= c.size =>
           b.size < c.size \/ (b.size = c.size /\ b.offset <= c.offset) }

\* Mutated forms of Take: an exact fit leaves an empty block behind; the rest of
\* a larger block is forgotten.
TakeLeavingEmpty(blocks, b, size) ==
  (blocks \ {b}) \cup { Block(b.offset + size, End(b)) }

TakeWhole(blocks, b, size) == blocks \ {b}

\* The low end of block b is taken; what is above it stays free.
Take(blocks, b, size) ==
  (blocks \ {b}) \cup
    (IF b.size = size THEN {} ELSE { Block(b.offset + size, End(b)) })

----------------------------------------------------------------------------
(* The call.                                                               *)

NoValues == [v \in {} |-> 0]

Init ==
  /\ phase = "idle"
  /\ request = [ backend |-> Unnamed, alignment |-> 0, boundary |-> 0,
                 values |-> NoValues ]
  /\ tensors = NoValues
  /\ naive = 0
  /\ offset = NoValues
  /\ active = {}
  /\ free = {}
  /\ arena_end = 0
  /\ peak = 0
  /\ error = "none"

Reject(reason) ==
  /\ phase' = "rejected"
  /\ error' = reason
  /\ UNCHANGED << request, tensors, naive, arena, peak >>

\* The options are checked before anything else.
PlanMemory(r) ==
  /\ phase = "idle"
  /\ request' = r
  /\ IF r.backend # Unnamed /\ IsPowerOfTwo(r.alignment)
       THEN phase' = "lifetimes" /\ error' = error
       ELSE phase' = "rejected" /\ error' = "invalid_options"
  /\ UNCHANGED << tensors, naive, arena, peak >>

RefuseValue(v, reason) ==
  /\ phase = "lifetimes"
  /\ Refusal(request.values[v], request, reason)
  /\ Reject(reason)

BuildLifetimes ==
  /\ phase = "lifetimes"
  /\ \A v \in DOMAIN request.values, reason \in RefusalReasons :
       ~Refusal(request.values[v], request, reason)
  /\ phase' = "naive"
  /\ tensors' = [ v \in DOMAIN request.values |->
                    Lifetime(request.values[v], request) ]
  /\ UNCHANGED << request, naive, arena, peak, error >>

\* Mutated form of NaiveTotal: the sum wraps around.
NaiveTotalWrapped == Cardinality(Bytes(ArenaValues)) % (MaxU64 + 1)

NaiveTotal == Cardinality(Bytes(ArenaValues))

SumNaive ==
  /\ phase = "naive"
  /\ IF NaiveTotal > MaxU64
       THEN Reject("overflow")
       ELSE /\ phase' = "allocate"
            /\ naive' = NaiveTotal
            /\ UNCHANGED << request, tensors, arena, peak, error >>

\* The allocation order: by definition index, then by value id.
Pending == ArenaValues \ DOMAIN offset

IsNext(v) ==
  /\ v \in Pending
  /\ \A w \in Pending :
       \/ tensors[v].definition_index < tensors[w].definition_index
       \/ tensors[v].definition_index = tensors[w].definition_index /\ v <= w

Place(v, at, blocks, end) ==
  /\ offset' = [ w \in DOMAIN offset \cup {v} |-> IF w = v THEN at ELSE offset[w] ]
  /\ active' = (active \ Expired(tensors[v].definition_index)) \cup {v}
  /\ free' = blocks
  /\ arena_end' = end
  /\ UNCHANGED << phase, request, tensors, naive, peak, error >>

Grow(v, blocks) ==
  IF arena_end > MaxU64 - tensors[v].size
    THEN Reject("arena_overflow")
    ELSE Place(v, arena_end, blocks, arena_end + tensors[v].size)

\* One iteration of the loop for a retained value: append_protected never
\* looks at the free list.
AppendProtected(v) ==
  /\ phase = "allocate" /\ IsNext(v) /\ Retained(v)
  /\ Grow(v, FreeAfterRelease(tensors[v].definition_index))

\* One iteration for a reusable value that fits a free block.
ReuseBlock(v) ==
  /\ phase = "allocate" /\ IsNext(v) /\ ~Retained(v)
  /\ LET blocks == FreeAfterRelease(tensors[v].definition_index)
     IN  \E b \in BestFit(blocks, tensors[v].size) :
           Place(v, b.offset, Take(blocks, b, tensors[v].size), arena_end)

\* One iteration for a reusable value that fits none.
AppendReusable(v) ==
  /\ phase = "allocate" /\ IsNext(v) /\ ~Retained(v)
  /\ LET blocks == FreeAfterRelease(tensors[v].definition_index)
     IN  /\ BestFit(blocks, tensors[v].size) = {}
         /\ Grow(v, blocks)

\* The end of the loop: the arena against the naive total, then the peak of the
\* live bytes over the operation indices and the retention boundary. (The check
\* of that sum for overflow is left out: what is live together is disjoint and
\* below arena_end, NoLiveOverlap and PlacedInArena.)
MeasurePeak ==
  /\ phase = "allocate" /\ Pending = {}
  /\ IF arena_end > naive
       THEN Reject("arena_exceeds_naive")
       ELSE LET live == { Cardinality(Bytes(LiveAt(i))) : i \in 0 .. request.boundary }
            IN  /\ phase' = "verify"
                /\ peak' = Maximum(live)
                /\ UNCHANGED << request, tensors, naive, arena, error >>

LifetimesOverlap(v, w) ==
  ~ \/ tensors[v].final_use_index < tensors[w].definition_index
    \/ tensors[w].final_use_index < tensors[v].definition_index

RangesOverlap(v, w) ==
  /\ offset[v] < offset[w] + tensors[w].size
  /\ offset[w] < offset[v] + tensors[v].size

\* verify_memory_plan: storage rules per kind, alignment and bounds of every
\* allocation, every pair of allocations, the totals.
PlanVerifies ==
  /\ \A v \in DOMAIN tensors :
       LET kind == request.values[v].kind
       IN  /\ kind \in {"input", "parameter", "constant"} => External(v)
           /\ kind = "output" =>
                Retained(v) /\ tensors[v].final_use_index = request.boundary
           /\ ~External(v) =>
                /\ v \in DOMAIN offset
                /\ offset[v] % request.alignment = 0
                /\ offset[v] + tensors[v].size <= arena_end
  /\ \A v, w \in DOMAIN offset :
       v # w /\ RangesOverlap(v, w) =>
         ~LifetimesOverlap(v, w) /\ ~Retained(v) /\ ~Retained(w)
  /\ peak <= arena_end /\ arena_end <= naive

VerifyPlan ==
  /\ phase = "verify"
  /\ IF PlanVerifies
       THEN phase' = "planned" /\ UNCHANGED << request, tensors, naive, arena, peak, error >>
       ELSE Reject("verification")

Allocate ==
  \E v \in Pending : AppendProtected(v) \/ ReuseBlock(v) \/ AppendReusable(v)

Next ==
  \/ phase = "idle" /\ \E r \in Requests : PlanMemory(r)
  \/ \E v \in DOMAIN request.values, reason \in RefusalReasons : RefuseValue(v, reason)
  \/ BuildLifetimes
  \/ SumNaive
  \/ Allocate
  \/ MeasurePeak
  \/ VerifyPlan

Spec == Init /\ [][Next]_vars

----------------------------------------------------------------------------
(* Properties.                                                             *)

Phases == { "idle", "lifetimes", "naive", "allocate", "verify", "planned",
            "rejected" }

TensorLifetimes ==
  [ definition_index : Nat, final_use_index : Nat,
    storage_class : { "external_input", "external_immutable",
                      "arena_output", "arena_reusable" },
    size : 1..MaxU64 ]

\* The shape of the state. A free block is never empty, or the list would fill
\* up with blocks that allocate_best_fit can neither use nor merge away.
TypeOK ==
  /\ phase \in Phases
  /\ IsRequest(request)
  /\ phase \in {"naive", "allocate", "verify", "planned"} =>
       tensors \in [DOMAIN request.values -> TensorLifetimes]
  /\ naive \in 0..MaxU64
  /\ DOMAIN offset \subseteq DOMAIN tensors
  /\ offset \in [DOMAIN offset -> 0..MaxU64]
  /\ active \subseteq DOMAIN offset
  /\ free \subseteq [offset : 0..MaxU64, size : 1..MaxU64]
  /\ arena_end \in 0..MaxU64
  /\ peak \in Nat

Covers(at, size, byte) == at <= byte /\ byte < at + size

\* Between two iterations of the allocation loop every byte of the arena has
\* exactly one owner: one active allocation or one free block. A byte with two
\* owners would be handed out twice, one without any would never be reused.
ArenaPartitioned ==
  phase = "allocate" =>
    /\ \A a \in active : offset[a] + tensors[a].size <= arena_end
    /\ \A b \in free : End(b) <= arena_end
    /\ \A byte \in 0 .. arena_end - 1 :
         Cardinality({ a \in active : Covers(offset[a], tensors[a].size, byte) })
         + Cardinality({ b \in free : Covers(b.offset, b.size, byte) }) = 1

\* Two placed values that share a byte of the arena are never live at the same
\* operation (reading an operand and writing the result count as the same
\* operation), and neither of them is a graph output: what a caller fetches
\* after the run was not written over by anything.
NoLiveOverlap ==
  \A v, w \in DOMAIN offset :
    v # w /\ RangesOverlap(v, w) =>
      ~LifetimesOverlap(v, w) /\ ~Retained(v) /\ ~Retained(w)

\* Every placed value lies inside the arena the session will allocate.
PlacedInArena ==
  \A v \in DOMAIN offset : offset[v] + tensors[v].size <= arena_end

\* The arena grows for a reusable value only when the bytes no live allocation
\* owns hold no gap of its size anywhere below the end of the arena: the free
\* list is merged far enough to never miss one.
GrowsOnlyWithoutGap ==
  [][ \A v \in DOMAIN offset' \ DOMAIN offset :
        arena_end' > arena_end /\ ~Retained(v) =>
          \A at \in 0 .. arena_end - tensors[v].size :
            \E a \in active' \ {v} :
              /\ offset[a] < at + tensors[v].size
              /\ at < offset[a] + tensors[a].size ]_vars

\* Once the naive total fits in a uint64_t no later step fails: the checked
\* additions of the loop, the comparison of the arena with the naive total and
\* verify_memory_plan refuse nothing, except that verification refuses a graph
\* that lists an input, a parameter or a constant among its outputs.
SelfChecksPass ==
  /\ error \notin {"arena_overflow", "arena_exceeds_naive"}
  /\ error = "verification" =>
       \E v \in DOMAIN request.values :
         /\ request.values[v].declared
         /\ request.values[v].kind \in {"input", "parameter", "constant"}
============================================================================
