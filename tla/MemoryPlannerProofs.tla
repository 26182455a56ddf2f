------------------------ MODULE MemoryPlannerProofs ------------------------
(***************************************************************************)
(* Proofs about MemoryPlanner, for every set of requests and every MaxU64. *)
(***************************************************************************)
EXTENDS MemoryPlanner, SharedLemmas, FunctionTheorems

\* Maximum picks that greatest element.
LEMMA MaximumIsGreatest ==
  ASSUME NEW n \in Nat, NEW S \in SUBSET (0..n), S # {}
  PROVE  Maximum(S) \in S /\ Maximum(S) \in 0..n /\ \A x \in S : x <= Maximum(S)
BY GreatestElement DEF Maximum

(***************************************************************************)
(* The free list.                                                          *)
(***************************************************************************)

Blocks == [offset : Nat, size : Nat \ {0}]

\* A coalesced block covers only bytes that some block covered before.
LEMMA CoalesceCoversNoMore ==
  ASSUME NEW blocks \in SUBSET Blocks, NEW c \in Coalesce(blocks),
         NEW byte \in Nat, Covers(c.offset, c.size, byte)
  PROVE  \E b \in blocks : Covers(b.offset, b.size, byte)
<1> DEFINE run_starts == Starts(blocks) \ Ends(blocks)
           run_ends == Ends(blocks) \ Starts(blocks)
<1>1. PICK s \in run_starts, e \in run_ends :
        /\ c = Block(s, e)
        /\ s < e
        /\ \A x \in run_starts \cup run_ends : ~(s < x /\ x < e)
  BY DEF Coalesce
<1>2. s \in Nat /\ e \in Nat
  BY DEF Starts, Ends, End, Blocks
<1>3. s <= byte /\ byte < e
  BY <1>1, <1>2 DEF Block, Covers
<1> DEFINE below == { x \in Starts(blocks) : x <= byte }
<1>4. below \in SUBSET (0..byte) /\ s \in below
  BY <1>2, <1>3 DEF Starts, Blocks
<1>5. PICK m \in below : \A x \in below : x <= m
  BY <1>4, GreatestElement
<1>6. PICK b \in blocks : b.offset = m
  BY <1>5 DEF Starts
<1>7. b.offset \in Nat /\ b.size \in Nat /\ b.size > 0
  BY DEF Blocks
<1>8. CASE byte < End(b)
  BY <1>5, <1>6, <1>7, <1>8 DEF Covers, End
<1>9. CASE ~(byte < End(b))
  <2>1. s < End(b) /\ End(b) < e /\ End(b) \in Ends(blocks)
    BY <1>2, <1>3, <1>4, <1>5, <1>6, <1>7, <1>9 DEF Ends, End
  <2>2. End(b) \in Starts(blocks)
    BY <1>1, <2>1
  <2>3. End(b) \in below /\ ~(End(b) <= m)
    BY <1>6, <1>7, <1>9, <2>2 DEF End
  <2>4. QED
    BY <1>5, <2>3
<1>10. QED
  BY <1>8, <1>9

\* Two coalesced blocks share no byte, and none is empty.
LEMMA CoalesceSeparates ==
  ASSUME NEW blocks \in SUBSET Blocks
  PROVE  /\ Coalesce(blocks) \in SUBSET Blocks
         /\ \A c, d \in Coalesce(blocks) :
              c # d => End(c) <= d.offset \/ End(d) <= c.offset
<1> DEFINE run_starts == Starts(blocks) \ Ends(blocks)
           run_ends == Ends(blocks) \ Starts(blocks)
<1>1. run_starts \in SUBSET Nat /\ run_ends \in SUBSET Nat
  BY DEF Starts, Ends, End, Blocks
<1>2. \A c \in Coalesce(blocks) : \E s \in run_starts, e \in run_ends :
        /\ c = Block(s, e)
        /\ s < e
        /\ \A x \in run_starts \cup run_ends : ~(s < x /\ x < e)
  BY DEF Coalesce
<1> HIDE DEF run_starts, run_ends
<1>3. Coalesce(blocks) \in SUBSET Blocks
  BY <1>1, <1>2 DEF Block, Blocks
<1>4. ASSUME NEW c \in Coalesce(blocks), NEW d \in Coalesce(blocks), c # d
      PROVE  End(c) <= d.offset \/ End(d) <= c.offset
  <2>1. PICK s \in run_starts, e \in run_ends :
          /\ c = Block(s, e)
          /\ s < e
          /\ \A x \in run_starts \cup run_ends : ~(s < x /\ x < e)
    BY <1>2
  <2>2. PICK t \in run_starts, f \in run_ends :
          /\ d = Block(t, f)
          /\ t < f
          /\ \A x \in run_starts \cup run_ends : ~(t < x /\ x < f)
    BY <1>2
  <2>3. End(c) = e /\ c.offset = s /\ End(d) = f /\ d.offset = t
    BY <1>1, <2>1, <2>2 DEF Block, End
  <2>4. s # t \/ e # f
    BY <1>4, <2>1, <2>2
  <2>5. e <= t \/ f <= s
    BY <1>1, <2>1, <2>2, <2>4, SMT
  <2>6. QED
    BY <2>3, <2>5
<1>5. QED
  BY <1>3, <1>4

\* A range that shares no byte with any of a set of blocks shares none with the
\* blocks coalesced from them.
LEMMA CoalesceKeepsClear ==
  ASSUME NEW blocks \in SUBSET Blocks, NEW at \in Nat, NEW size \in Nat \ {0},
         \A b \in blocks : at + size <= b.offset \/ End(b) <= at,
         NEW c \in Coalesce(blocks)
  PROVE  at + size <= c.offset \/ End(c) <= at
<1>1. c.offset \in Nat /\ c.size \in Nat /\ c.size > 0
  BY CoalesceSeparates DEF Blocks
<1> SUFFICES ASSUME c.offset < at + size, at < End(c)
             PROVE  FALSE
  BY <1>1 DEF End
<1> DEFINE byte == IF at <= c.offset THEN c.offset ELSE at
<1>2. byte \in Nat /\ Covers(c.offset, c.size, byte) /\ at <= byte /\ byte < at + size
  BY <1>1 DEF Covers, End
<1> HIDE DEF byte
<1>3. PICK b \in blocks : Covers(b.offset, b.size, byte)
  BY <1>2, CoalesceCoversNoMore
<1>4. QED
  BY <1>2, <1>3 DEF Covers, End, Blocks

\* Coalescing keeps blocks below whatever bound they were below.
LEMMA CoalesceStaysBelow ==
  ASSUME NEW blocks \in SUBSET Blocks, NEW limit \in Nat,
         \A b \in blocks : End(b) <= limit
  PROVE  \A c \in Coalesce(blocks) : End(c) <= limit
<1> SUFFICES ASSUME NEW c \in Coalesce(blocks)
             PROVE  End(c) <= limit
  OBVIOUS
<1>1. c.offset \in Nat /\ c.size \in Nat /\ c.size > 0
  BY CoalesceSeparates DEF Blocks
<1>2. End(c) - 1 \in Nat /\ Covers(c.offset, c.size, End(c) - 1)
  BY <1>1 DEF Covers, End
<1>3. PICK b \in blocks : Covers(b.offset, b.size, End(c) - 1)
  BY <1>2, CoalesceCoversNoMore
<1>4. QED
  BY <1>1, <1>3 DEF Covers, End, Blocks

(***************************************************************************)
(* The inductive invariant.                                                *)
(***************************************************************************)

\* What BuildLifetimes establishes: a lifetime does not end before it starts,
\* and a retained value outlives every operation.
LifetimesInv ==
  /\ DOMAIN tensors \subseteq DOMAIN request.values
  /\ tensors \in [DOMAIN tensors -> TensorLifetimes]
  /\ \A v \in DOMAIN tensors :
       /\ tensors[v].definition_index < request.boundary
       /\ tensors[v].definition_index <= tensors[v].final_use_index
       /\ Retained(v) => tensors[v].final_use_index = request.boundary

PhaseInv ==
  /\ phase \in Phases
  /\ phase \in {"lifetimes", "naive", "allocate", "verify", "planned"} =>
       request.alignment # 0
  /\ phase \in {"naive", "allocate", "verify", "planned"} =>
       DOMAIN tensors = DOMAIN request.values
  /\ phase \in {"idle", "lifetimes", "naive"} =>
       offset = NoValues /\ active = {} /\ free = {} /\ arena_end = 0
  /\ phase \in {"idle", "lifetimes"} => tensors = NoValues

\* What the values and blocks of the arena look like, taken one by one.
BoundsInv ==
  /\ DOMAIN offset \subseteq ArenaValues
  /\ offset \in [DOMAIN offset -> Nat]
  /\ active \subseteq DOMAIN offset
  /\ free \in SUBSET Blocks
  /\ arena_end \in 0..MaxU64
  /\ PlacedInArena
  /\ \A b \in free : End(b) <= arena_end

\* No byte has two owners.
Clear(v, w) ==
  \/ offset[v] + tensors[v].size <= offset[w]
  \/ offset[w] + tensors[w].size <= offset[v]

OwnersInv ==
  /\ \A v, w \in active : v # w => Clear(v, w)
  /\ \A v \in active, b \in free :
       offset[v] + tensors[v].size <= b.offset \/ End(b) <= offset[v]
  /\ \A b, c \in free : b # c => End(b) <= c.offset \/ End(c) <= b.offset

\* What has been released is dead for every value still to be placed, and was
\* never an output.
ReleasedInv ==
  /\ \A v \in DOMAIN offset, w \in Pending :
       tensors[v].definition_index <= tensors[w].definition_index
  /\ \A v \in DOMAIN offset \ active :
       /\ ~Retained(v)
       /\ \A w \in Pending : tensors[v].final_use_index < tensors[w].definition_index

NumbersInv == naive \in 0..MaxU64 /\ peak \in Nat

IInv ==
  /\ IsRequest(request)
  /\ NumbersInv
  /\ PhaseInv
  /\ LifetimesInv
  /\ BoundsInv
  /\ OwnersInv
  /\ ReleasedInv
  /\ NoLiveOverlap

(***************************************************************************)
(* The free list of one iteration.                                         *)
(***************************************************************************)

Survivors(index) == active \ Expired(index)

Separated(blocks) ==
  \A b, c \in blocks : b # c => End(b) <= c.offset \/ End(c) <= b.offset

\* The range [at, at + size) shares no byte with a block.
ClearOf(at, size, blocks) ==
  \A b \in blocks : at + size <= b.offset \/ End(b) <= at

\* After release_expired the free blocks are apart from each other and from
\* every allocation that survives, and below the end of the arena.
LEMMA ReleaseFacts ==
  ASSUME IInv, NEW index \in Nat
  PROVE  LET blocks == FreeAfterRelease(index)
         IN  /\ blocks \in SUBSET Blocks
             /\ Separated(blocks)
             /\ \A b \in blocks : End(b) <= arena_end
             /\ \A a \in Survivors(index) : ClearOf(offset[a], tensors[a].size, blocks)
<1> DEFINE released == { Block(offset[a], offset[a] + tensors[a].size) :
                           a \in Expired(index) }
           all == free \cup released
<1>1. \A a \in active : /\ a \in DOMAIN offset
                        /\ offset[a] \in Nat
                        /\ tensors[a].size \in Nat \ {0}
                        /\ offset[a] + tensors[a].size <= arena_end
  BY DEF IInv, BoundsInv, LifetimesInv, TensorLifetimes, ArenaValues, PlacedInArena
<1>2. Expired(index) \subseteq active
  BY DEF Expired
<1>3. \A b \in released : \E a \in Expired(index) :
        b = [ offset |-> offset[a], size |-> tensors[a].size ]
  BY <1>1, <1>2 DEF Block
<1> HIDE DEF released
<1>4. all \in SUBSET Blocks
  BY <1>1, <1>2, <1>3 DEF Blocks, IInv, BoundsInv
<1>5. \A b \in all : End(b) <= arena_end
  BY <1>1, <1>2, <1>3 DEF End, IInv, BoundsInv
<1>6. FreeAfterRelease(index) = Coalesce(all)
  BY DEF FreeAfterRelease, released
<1>7. arena_end \in Nat
  BY MaxU64Assumption DEF IInv, BoundsInv
<1>8. ASSUME NEW a \in Survivors(index)
      PROVE  ClearOf(offset[a], tensors[a].size, Coalesce(all))
  <2>1. a \in active /\ \A x \in Expired(index) : x # a /\ Clear(a, x)
    BY <1>2 DEF Survivors, IInv, OwnersInv
  <2>2. \A b \in free : offset[a] + tensors[a].size <= b.offset \/ End(b) <= offset[a]
    BY <2>1 DEF IInv, OwnersInv
  <2>3. \A b \in released : offset[a] + tensors[a].size <= b.offset \/ End(b) <= offset[a]
    BY <1>3, <2>1 DEF Clear, End
  <2> HIDE DEF all
  <2>4. \A b \in all : offset[a] + tensors[a].size <= b.offset \/ End(b) <= offset[a]
    BY <2>2, <2>3 DEF all
  <2>5. QED
    BY <1>1, <1>4, <2>1, <2>4, CoalesceKeepsClear DEF ClearOf
<1> HIDE DEF all
<1>9. Coalesce(all) \in SUBSET Blocks /\ Separated(Coalesce(all))
  BY <1>4, CoalesceSeparates DEF Separated
<1>10. \A b \in Coalesce(all) : End(b) <= arena_end
  BY <1>4, <1>5, <1>7, CoalesceStaysBelow
<1>11. QED
  BY <1>6, <1>8, <1>9, <1>10

\* Taking the low end of a block leaves a free list apart from what was taken.
LEMMA TakeFacts ==
  ASSUME NEW blocks \in SUBSET Blocks, Separated(blocks),
         NEW size \in Nat \ {0}, NEW b \in BestFit(blocks, size)
  PROVE  /\ Take(blocks, b, size) \in SUBSET Blocks
         /\ Separated(Take(blocks, b, size))
         /\ ClearOf(b.offset, size, Take(blocks, b, size))
         /\ \A c \in Take(blocks, b, size) :
              \E d \in blocks : d.offset <= c.offset /\ End(c) <= End(d)
<1>1. b \in blocks /\ size <= b.size /\ b \in Blocks
  BY DEF BestFit
<1>2. \A c \in Take(blocks, b, size) :
        \/ c \in blocks \ {b}
        \/ size < b.size /\ c = [ offset |-> b.offset + size, size |-> b.size - size ]
  BY <1>1 DEF Take, Block, End, Blocks
<1>3. Take(blocks, b, size) \in SUBSET Blocks
  BY <1>1, <1>2 DEF Blocks
<1>4. Separated(Take(blocks, b, size))
  BY <1>1, <1>2 DEF Separated, End, Blocks
<1>5. ClearOf(b.offset, size, Take(blocks, b, size))
  BY <1>1, <1>2 DEF Separated, ClearOf, End, Blocks
<1>6. ASSUME NEW c \in Take(blocks, b, size)
      PROVE  \E d \in blocks : d.offset <= c.offset /\ End(c) <= End(d)
  BY <1>1, <1>2 DEF End, Blocks
<1>7. QED
  BY <1>3, <1>4, <1>5, <1>6

(***************************************************************************)
(* The steps.                                                              *)
(***************************************************************************)

\* Placing v at a range that no survivor and no block of the new free list
\* shares keeps the invariant. Only a reusable value may be placed below the
\* old end of the arena.
LEMMA PlacePreserves ==
  ASSUME IInv, phase = "allocate",
         NEW v, IsNext(v),
         NEW at \in Nat, NEW blocks \in SUBSET Blocks, NEW end \in 0..MaxU64,
         Place(v, at, blocks, end),
         arena_end <= end, at + tensors[v].size <= end,
         Separated(blocks),
         \A b \in blocks : End(b) <= arena_end,
         ClearOf(at, tensors[v].size, blocks),
         \A a \in Survivors(tensors[v].definition_index) :
           /\ ClearOf(offset[a], tensors[a].size, blocks)
           /\ \/ offset[a] + tensors[a].size <= at
              \/ at + tensors[v].size <= offset[a],
         arena_end <= at \/ ~Retained(v)
  PROVE  IInv'
<1> DEFINE index == tensors[v].definition_index
<1>1. /\ v \in DOMAIN tensors /\ v \in ArenaValues /\ v \notin DOMAIN offset
      /\ v \in Pending
  BY DEF IsNext, Pending, ArenaValues
<1>2. /\ UNCHANGED << phase, request, tensors, naive, peak >>
      /\ DOMAIN offset' = DOMAIN offset \cup {v}
      /\ offset'[v] = at
      /\ \A w \in DOMAIN offset : offset'[w] = offset[w]
      /\ active' = Survivors(index) \cup {v}
      /\ free' = blocks
      /\ arena_end' = end
  BY <1>1 DEF Place, Survivors
<1>3. \A w \in DOMAIN tensors :
        /\ tensors[w].size \in Nat \ {0}
        /\ tensors[w].definition_index \in Nat
        /\ tensors[w].final_use_index \in Nat
  BY DEF IInv, LifetimesInv, TensorLifetimes
<1>4. /\ ArenaValues' = ArenaValues
      /\ Pending' = Pending \ {v}
      /\ \A w : Retained(w)' = Retained(w)
      /\ \A w, x : LifetimesOverlap(w, x)' = LifetimesOverlap(w, x)
  BY <1>2 DEF ArenaValues, External, Pending, Retained, LifetimesOverlap
<1>5. /\ DOMAIN offset \subseteq DOMAIN tensors
      /\ Survivors(index) \subseteq active
      /\ active \subseteq DOMAIN offset
  BY DEF IInv, BoundsInv, ArenaValues, Survivors
<1>6. \A w \in DOMAIN offset : offset[w] \in Nat /\ offset[w] + tensors[w].size <= arena_end
  BY DEF IInv, BoundsInv, PlacedInArena
<1>7. arena_end \in Nat /\ end \in Nat /\ request.boundary \in Nat
  BY MaxU64Assumption DEF IInv, BoundsInv, IsRequest
<1>8. \* what is released, now or before, is dead from v on
      \A w \in DOMAIN offset \ Survivors(index) :
        /\ ~Retained(w)
        /\ tensors[w].final_use_index < index
  <2> SUFFICES ASSUME NEW w \in DOMAIN offset, w \notin Survivors(index)
               PROVE  ~Retained(w) /\ tensors[w].final_use_index < index
    OBVIOUS
  <2>1. CASE w \in active
    <3>1. tensors[w].final_use_index < index
      BY <2>1 DEF Survivors, Expired
    <3>2. index < request.boundary
      BY <1>1 DEF IInv, LifetimesInv
    <3>3. Retained(w) => tensors[w].final_use_index = request.boundary
      BY <1>5 DEF IInv, LifetimesInv
    <3>4. QED
      BY <1>1, <1>3, <1>5, <1>7, <3>1, <3>2, <3>3
  <2>2. CASE w \notin active
    BY <1>1, <2>2 DEF IInv, ReleasedInv
  <2>3. QED
    BY <2>1, <2>2
<1>9. \A w \in Pending : index <= tensors[w].definition_index
  BY <1>1, <1>3 DEF IsNext, Pending, ArenaValues
<1>10. IsRequest(request)' /\ NumbersInv' /\ LifetimesInv' /\ PhaseInv'
  BY <1>2, <1>4 DEF IInv, NumbersInv, LifetimesInv, PhaseInv
<1>11. BoundsInv'
  <2>1. (DOMAIN offset)' \subseteq ArenaValues' /\ (active \subseteq DOMAIN offset)'
    BY <1>1, <1>2, <1>4, <1>5 DEF IInv, BoundsInv
  <2>2. offset' \in [DOMAIN offset' -> Nat]
    BY <1>1, <1>2, <1>6 DEF Place
  <2>3. PlacedInArena'
    BY <1>2, <1>3, <1>5, <1>6, <1>7, <1>1 DEF PlacedInArena
  <2>4. \A b \in blocks : End(b) <= end
    BY <1>7 DEF End, Blocks
  <2>5. QED
    BY <1>2, <2>1, <2>2, <2>3, <2>4 DEF BoundsInv, End
<1>12. OwnersInv'
  <2>1. \A a \in Survivors(index) :
          /\ a # v
          /\ a \in DOMAIN offset
          /\ offset'[a] = offset[a]
    BY <1>1, <1>2, <1>5
  <2>2. ASSUME NEW a \in active', NEW w \in active', a # w
        PROVE  Clear(a, w)'
    <3>1. CASE a = v \/ w = v
      BY <1>1, <1>2, <1>3, <1>5, <1>6, <2>1, <2>2, <3>1 DEF Clear
    <3>2. CASE a # v /\ w # v
      BY <1>2, <1>5, <2>1, <2>2, <3>2 DEF Clear, IInv, OwnersInv
    <3>3. QED
      BY <3>1, <3>2
  <2>3. \A a \in active' : ClearOf(offset'[a], tensors[a].size, blocks)
    BY <1>2, <2>1
  <2>4. QED
    BY <1>2, <2>2, <2>3 DEF OwnersInv, ClearOf, Separated, End
<1>13. ReleasedInv'
  <2>1. ASSUME NEW w \in DOMAIN offset', NEW x \in Pending'
        PROVE  tensors[w].definition_index <= tensors[x].definition_index
    BY <1>2, <1>4, <1>9, <2>1 DEF IInv, ReleasedInv
  <2>2. ASSUME NEW w \in DOMAIN offset', w \notin active'
        PROVE  /\ ~Retained(w)
               /\ \A x \in Pending' :
                    tensors[w].final_use_index < tensors[x].definition_index
    <3>1. w \in DOMAIN offset \ Survivors(index)
      BY <1>2, <2>2
    <3>2. \A x \in Pending' : index <= tensors[x].definition_index /\ x \in DOMAIN tensors
      BY <1>4, <1>9 DEF Pending, ArenaValues
    <3>3. QED
      BY <1>1, <1>3, <1>5, <1>8, <3>1, <3>2
  <2>3. QED
    BY <1>2, <1>4, <2>1, <2>2 DEF ReleasedInv
<1>14. NoLiveOverlap'
  <2>1. ASSUME NEW w \in DOMAIN offset, RangesOverlap(v, w)' \/ RangesOverlap(w, v)'
        PROVE  /\ ~Retained(v) /\ ~Retained(w)
               /\ tensors[w].final_use_index < index
    <3>1. ~(offset[w] + tensors[w].size <= at) /\ ~(at + tensors[v].size <= offset[w])
      BY <1>1, <1>2, <1>3, <1>5, <1>6, <2>1 DEF RangesOverlap
    <3>2. w \notin Survivors(index)
      BY <3>1
    <3>3. ~(arena_end <= at)
      BY <1>3, <1>5, <1>6, <1>7, <3>1
    <3>4. QED
      BY <1>8, <3>2, <3>3
  <2>2. \A w \in DOMAIN offset :
          RangesOverlap(v, w)' \/ RangesOverlap(w, v)' =>
            ~LifetimesOverlap(v, w) /\ ~LifetimesOverlap(w, v)
    BY <2>1 DEF LifetimesOverlap
  <2>3. \A w, x \in DOMAIN offset : RangesOverlap(w, x)' = RangesOverlap(w, x)
    BY <1>2 DEF RangesOverlap
  <2>4. QED
    BY <1>2, <1>4, <2>1, <2>2, <2>3 DEF NoLiveOverlap, IInv
<1>15. QED
  BY <1>10, <1>11, <1>12, <1>13, <1>14 DEF IInv

\* A step that moves no allocation and no block keeps the invariant of the arena.
LEMMA FramePreserves ==
  ASSUME IInv, UNCHANGED << request, tensors, arena >>, PhaseInv', NumbersInv'
  PROVE  IInv'
BY DEF IInv, LifetimesInv, BoundsInv, OwnersInv, ReleasedInv, NoLiveOverlap, arena,
       ArenaValues, External, Pending, Retained, LifetimesOverlap, RangesOverlap,
       PlacedInArena, Clear

\* A refusal keeps the invariant.
LEMMA RejectPreserves ==
  ASSUME IInv, NEW reason, Reject(reason)
  PROVE  IInv'
<1>1. UNCHANGED << request, tensors, arena >> /\ PhaseInv' /\ NumbersInv'
  BY DEF Reject, IInv, PhaseInv, NumbersInv, Phases
<1>2. QED
  BY <1>1, FramePreserves

\* The check of the options keeps the invariant.
LEMMA PlanMemoryPreserves ==
  ASSUME IInv, NEW r, IsRequest(r), PlanMemory(r)
  PROVE  IInv'
<1>1. /\ phase = "idle" /\ tensors = NoValues /\ offset = NoValues /\ active = {}
      /\ free = {} /\ arena_end = 0
  BY DEF PlanMemory, IInv, PhaseInv
<1>2. /\ request' = r /\ IsRequest(r)
      /\ UNCHANGED << tensors, naive, offset, active, free, arena_end, peak >>
      /\ \/ phase' = "lifetimes" /\ r.alignment # 0
         \/ phase' = "rejected"
  BY DEF PlanMemory, arena, IsPowerOfTwo
<1>3. IsRequest(request)' /\ NumbersInv' /\ PhaseInv'
  BY <1>1, <1>2 DEF IInv, NumbersInv, PhaseInv, Phases
<1>4. LifetimesInv'
  BY <1>1, <1>2 DEF LifetimesInv, NoValues
<1>5. BoundsInv' /\ OwnersInv' /\ ReleasedInv' /\ NoLiveOverlap'
  BY <1>1, <1>2, MaxU64Assumption
     DEF BoundsInv, OwnersInv, ReleasedInv, NoLiveOverlap, PlacedInArena, NoValues
<1>6. QED
  BY <1>3, <1>4, <1>5 DEF IInv

\* The aligned size of a nonempty value is positive, and no smaller.
LEMMA AlignUpBounds ==
  ASSUME NEW n \in Nat, NEW alignment \in Nat \ {0}
  PROVE  AlignUp(n, alignment) \in Nat /\ n <= AlignUp(n, alignment)
<1>1. n % alignment \in 0 .. alignment - 1
  OBVIOUS
<1>2. QED
  BY <1>1 DEF AlignUp

\* A value no check refuses has a lifetime of the right shape.
LEMMA LifetimeFacts ==
  ASSUME NEW r, IsRequest(r), r.alignment # 0,
         NEW v \in DOMAIN r.values,
         \A reason \in RefusalReasons : ~Refusal(r.values[v], r, reason)
  PROVE  LET t == Lifetime(r.values[v], r)
         IN  /\ t \in TensorLifetimes
             /\ t.definition_index < r.boundary
             /\ t.definition_index <= t.final_use_index
             /\ t.storage_class = "arena_output" => t.final_use_index = r.boundary
<1> DEFINE value == r.values[v]
<1>1. /\ value.uses \subseteq 0 .. r.boundary - 1 /\ r.boundary \in Nat
      /\ value.kind \in Kinds /\ value.bytes \in 0..MaxU64
      /\ r.alignment \in Nat \ {0}
      /\ value.definition \in (0 .. r.boundary - 1) \cup {NoIndex}
  BY MaxU64Assumption DEF IsRequest
<1>2. /\ value.definition # NoIndex /\ value.bytes # 0
      /\ ~(AlignUp(value.bytes, r.alignment) > MaxU64)
      /\ \A use \in value.uses : ~(use < value.definition)
  BY DEF Refusal, RefusalReasons
<1> HIDE DEF value
<1>3. value.definition \in Nat /\ value.definition < r.boundary
  BY <1>1, <1>2
<1>4. AlignUp(value.bytes, r.alignment) \in 1..MaxU64
  BY <1>1, <1>2, AlignUpBounds, MaxU64Assumption
<1>5. FinalUse(value, r.boundary) \in Nat /\ value.definition <= FinalUse(value, r.boundary)
  <2>1. CASE DeclaredOutput(value) \/ value.uses = {}
    BY <1>1, <1>3, <2>1 DEF FinalUse
  <2>2. CASE ~DeclaredOutput(value) /\ value.uses # {}
    <3>1. r.boundary - 1 \in Nat
      BY <1>1, <1>3
    <3>2. Maximum(value.uses) \in value.uses
      BY <1>1, <2>2, <3>1, MaximumIsGreatest
    <3>3. QED
      BY <1>1, <1>2, <1>3, <2>2, <3>2 DEF FinalUse
  <2>3. QED
    BY <2>1, <2>2
<1>6. /\ StorageClass(value) \in { "external_input", "external_immutable",
                                   "arena_output", "arena_reusable" }
      /\ StorageClass(value) = "arena_output" => DeclaredOutput(value)
  <2>1. CASE DeclaredOutput(value)
    BY <2>1 DEF StorageClass
  <2>2. CASE ~DeclaredOutput(value)
    <3>1. value.kind \in { "input", "parameter", "constant", "intermediate" }
      BY <1>1, <2>2 DEF Kinds, DeclaredOutput
    <3>2. QED
      BY <2>2, <3>1 DEF StorageClass
  <2>3. QED
    BY <2>1, <2>2
<1>7. Lifetime(value, r) =
        [ definition_index |-> value.definition,
          final_use_index  |-> FinalUse(value, r.boundary),
          storage_class    |-> StorageClass(value),
          size             |-> AlignUp(value.bytes, r.alignment) ]
  BY DEF Lifetime
<1>8. Lifetime(value, r) \in TensorLifetimes
  BY <1>3, <1>4, <1>5, <1>6, <1>7 DEF TensorLifetimes
<1>9. DeclaredOutput(value) => FinalUse(value, r.boundary) = r.boundary
  BY DEF FinalUse
<1>10. QED
  BY <1>3, <1>5, <1>6, <1>7, <1>8, <1>9 DEF value

\* The lifetimes built from the request satisfy what the allocation relies on.
LEMMA BuildLifetimesPreserves ==
  ASSUME IInv, BuildLifetimes
  PROVE  IInv'
<1>1. /\ phase = "lifetimes" /\ request.alignment # 0 /\ offset = NoValues
      /\ active = {} /\ free = {} /\ arena_end = 0
  BY DEF BuildLifetimes, IInv, PhaseInv
<1>2. /\ phase' = "naive"
      /\ tensors' = [ v \in DOMAIN request.values |->
                        Lifetime(request.values[v], request) ]
      /\ UNCHANGED << request, naive, offset, active, free, arena_end, peak >>
  BY DEF BuildLifetimes, arena
<1>3. \A v \in DOMAIN request.values :
        \A reason \in RefusalReasons : ~Refusal(request.values[v], request, reason)
  BY DEF BuildLifetimes
<1>4. \A v \in DOMAIN request.values :
        /\ tensors'[v] \in TensorLifetimes
        /\ tensors'[v].definition_index < request.boundary
        /\ tensors'[v].definition_index <= tensors'[v].final_use_index
        /\ tensors'[v].storage_class = "arena_output" =>
             tensors'[v].final_use_index = request.boundary
  BY <1>1, <1>2, <1>3, LifetimeFacts DEF IInv
<1>5. LifetimesInv'
  BY <1>2, <1>4 DEF LifetimesInv, Retained
<1>6. IsRequest(request)' /\ NumbersInv' /\ PhaseInv'
  BY <1>1, <1>2 DEF IInv, NumbersInv, PhaseInv, Phases
<1>7. BoundsInv' /\ OwnersInv' /\ ReleasedInv' /\ NoLiveOverlap'
  BY <1>1, <1>2, MaxU64Assumption
     DEF BoundsInv, OwnersInv, ReleasedInv, NoLiveOverlap, PlacedInArena, NoValues
<1>8. QED
  BY <1>5, <1>6, <1>7 DEF IInv

\* The bytes of any set of arena values can be counted, and a subset has no more.
LEMMA BytesAreFinite ==
  ASSUME IInv, NEW S \in SUBSET ArenaValues
  PROVE  /\ IsFiniteSet(Bytes(S))
         /\ Cardinality(Bytes(S)) \in 0 .. Cardinality(Bytes(ArenaValues))
         /\ Cardinality(Bytes(ArenaValues)) \in Nat
<1> DEFINE all == ArenaValues \X (0..MaxU64)
<1>1. ArenaValues \subseteq DOMAIN request.values
  BY DEF IInv, LifetimesInv, ArenaValues
<1>2. IsFiniteSet(ArenaValues)
  BY <1>1, FS_Subset DEF IInv, IsRequest
<1>3. IsFiniteSet(all)
  <2>1. IsFiniteSet(0..MaxU64)
    BY FS_Interval, MaxU64Assumption
  <2>2. QED
    BY <1>2, <2>1, FS_Product
<1>4. \A v \in ArenaValues : tensors[v].size \in 1..MaxU64
  BY DEF IInv, LifetimesInv, TensorLifetimes, ArenaValues
<1>5. Bytes(ArenaValues) \subseteq all
  <2>1. ASSUME NEW v \in ArenaValues
        PROVE  0 .. tensors[v].size - 1 \subseteq 0..MaxU64
    BY <1>4, MaxU64Assumption
  <2>2. QED
    BY <2>1 DEF Bytes
<1>6. Bytes(S) \subseteq Bytes(ArenaValues)
  BY DEF Bytes
<1> HIDE DEF all
<1>7. IsFiniteSet(Bytes(ArenaValues))
  BY <1>3, <1>5, FS_Subset
<1>8. /\ IsFiniteSet(Bytes(S))
      /\ Cardinality(Bytes(S)) <= Cardinality(Bytes(ArenaValues))
  BY <1>6, <1>7, FS_Subset
<1>9. Cardinality(Bytes(S)) \in Nat /\ Cardinality(Bytes(ArenaValues)) \in Nat
  BY <1>7, <1>8, FS_CardinalityType
<1>10. QED
  BY <1>8, <1>9

\* Summing the naive total keeps the invariant.
LEMMA SumNaivePreserves ==
  ASSUME IInv, SumNaive
  PROVE  IInv'
<1>1. CASE NaiveTotal > MaxU64
  BY <1>1, RejectPreserves DEF SumNaive
<1>2. CASE ~(NaiveTotal > MaxU64)
  <2>1. NaiveTotal \in Nat
    BY BytesAreFinite DEF NaiveTotal
  <2>2. NumbersInv'
    BY <1>2, <2>1, MaxU64Assumption DEF SumNaive, NumbersInv, IInv
  <2>3. UNCHANGED << request, tensors, arena >> /\ PhaseInv'
    BY <1>2 DEF SumNaive, IInv, PhaseInv, Phases
  <2>4. QED
    BY <2>2, <2>3, FramePreserves
<1>3. QED
  BY <1>1, <1>2

\* Measuring the peak keeps the invariant.
LEMMA MeasurePeakPreserves ==
  ASSUME IInv, MeasurePeak
  PROVE  IInv'
<1>1. CASE arena_end > naive
  BY <1>1, RejectPreserves DEF MeasurePeak
<1>2. CASE ~(arena_end > naive)
  <2> DEFINE live == { Cardinality(Bytes(LiveAt(i))) : i \in 0 .. request.boundary }
  <2>1. /\ phase = "allocate" /\ phase' = "verify" /\ peak' = Maximum(live)
        /\ UNCHANGED << request, tensors, naive, arena >>
    BY <1>2 DEF MeasurePeak
  <2>2. live \in SUBSET (0 .. Cardinality(Bytes(ArenaValues)))
    BY BytesAreFinite DEF LiveAt
  <2>3. live # {}
    <3>1. 0 \in 0 .. request.boundary
      BY DEF IInv, IsRequest
    <3>2. QED
      BY <3>1
  <2>4. Cardinality(Bytes(ArenaValues)) \in Nat
    BY BytesAreFinite
  <2> HIDE DEF live
  <2>5. Maximum(live) \in Nat
    <3>1. PICK n \in Nat : live \in SUBSET (0..n)
      BY <2>2, <2>4
    <3>2. Maximum(live) \in 0..n
      BY <2>3, <3>1, MaximumIsGreatest
    <3>3. QED
      BY <3>2
  <2>6. PhaseInv' /\ NumbersInv'
    BY <2>1, <2>5 DEF IInv, PhaseInv, NumbersInv, Phases, arena
  <2>7. QED
    BY <2>1, <2>6, FramePreserves
<1>3. QED
  BY <1>1, <1>2

\* Verifying the plan keeps the invariant.
LEMMA VerifyPlanPreserves ==
  ASSUME IInv, VerifyPlan
  PROVE  IInv'
<1>1. CASE PlanVerifies
  <2>1. UNCHANGED << request, tensors, arena >> /\ PhaseInv' /\ NumbersInv'
    BY <1>1 DEF VerifyPlan, IInv, PhaseInv, NumbersInv, Phases, arena
  <2>2. QED
    BY <2>1, FramePreserves
<1>2. CASE ~PlanVerifies
  BY <1>2, RejectPreserves DEF VerifyPlan
<1>3. QED
  BY <1>1, <1>2

\* Growing the arena: the new range lies above everything placed and released.
LEMMA GrowPreserves ==
  ASSUME IInv, phase = "allocate", NEW v, IsNext(v),
         Grow(v, FreeAfterRelease(tensors[v].definition_index))
  PROVE  IInv'
<1> DEFINE index == tensors[v].definition_index
           blocks == FreeAfterRelease(index)
           size == tensors[v].size
<1>1. v \in DOMAIN tensors
  BY DEF IsNext, Pending, ArenaValues
<1>2. index \in Nat /\ size \in 1..MaxU64
  BY <1>1 DEF IInv, LifetimesInv, TensorLifetimes
<1>3. arena_end \in 0..MaxU64
  BY DEF IInv, BoundsInv
<1>4. CASE arena_end > MaxU64 - size
  BY <1>4, RejectPreserves DEF Grow
<1>5. CASE ~(arena_end > MaxU64 - size)
  <2>1. Place(v, arena_end, blocks, arena_end + size)
    BY <1>5 DEF Grow
  <2>2. /\ blocks \in SUBSET Blocks
        /\ Separated(blocks)
        /\ \A b \in blocks : End(b) <= arena_end
        /\ \A a \in Survivors(index) : ClearOf(offset[a], tensors[a].size, blocks)
    BY <1>2, ReleaseFacts
  <2> HIDE DEF blocks
  <2>3. \A a \in Survivors(index) : offset[a] + tensors[a].size <= arena_end
    BY DEF Survivors, IInv, BoundsInv, PlacedInArena
  <2>4. ClearOf(arena_end, size, blocks)
    BY <2>2 DEF ClearOf
  <2>5. /\ arena_end + size \in 0..MaxU64 /\ arena_end \in Nat
        /\ arena_end <= arena_end + size /\ arena_end <= arena_end
    BY <1>2, <1>3, <1>5, MaxU64Assumption
  <2>6. QED
    BY <2>1, <2>2, <2>3, <2>4, <2>5, PlacePreserves
<1>6. QED
  BY <1>4, <1>5

\* Reusing a free block: its low end is apart from everything that survives.
LEMMA ReusePreserves ==
  ASSUME IInv, NEW v, ReuseBlock(v)
  PROVE  IInv'
<1> DEFINE index == tensors[v].definition_index
           blocks == FreeAfterRelease(index)
           size == tensors[v].size
<1>1. phase = "allocate" /\ IsNext(v) /\ ~Retained(v)
  BY DEF ReuseBlock
<1>2. index \in Nat /\ size \in 1..MaxU64 /\ size \in Nat \ {0}
  BY <1>1, MaxU64Assumption
     DEF IInv, LifetimesInv, TensorLifetimes, IsNext, Pending, ArenaValues
<1>3. PICK b \in BestFit(blocks, size) : Place(v, b.offset, Take(blocks, b, size), arena_end)
  BY DEF ReuseBlock
<1>4. /\ blocks \in SUBSET Blocks
      /\ Separated(blocks)
      /\ \A c \in blocks : End(c) <= arena_end
      /\ \A a \in Survivors(index) : ClearOf(offset[a], tensors[a].size, blocks)
  BY <1>2, ReleaseFacts
<1> HIDE DEF blocks
<1>5. b \in blocks /\ b \in Blocks /\ size <= b.size /\ b.offset \in Nat
  BY <1>3, <1>4 DEF BestFit, Blocks
<1> DEFINE rest == Take(blocks, b, size)
<1>6. /\ rest \in SUBSET Blocks
      /\ Separated(rest)
      /\ ClearOf(b.offset, size, rest)
      /\ \A c \in rest : \E d \in blocks : d.offset <= c.offset /\ End(c) <= End(d)
  BY <1>2, <1>3, <1>4, TakeFacts
<1> HIDE DEF rest
<1>7. arena_end \in Nat /\ arena_end \in 0..MaxU64
  BY MaxU64Assumption DEF IInv, BoundsInv
<1>8. \A c \in rest : End(c) <= arena_end
  BY <1>4, <1>6, <1>7 DEF End, Blocks
<1>9. \A a \in Survivors(index) : offset[a] \in Nat /\ tensors[a].size \in Nat
  BY DEF Survivors, IInv, BoundsInv, LifetimesInv, TensorLifetimes, ArenaValues
<1>10. \A a \in Survivors(index) : ClearOf(offset[a], tensors[a].size, rest)
  BY <1>4, <1>6, <1>9 DEF ClearOf, End, Blocks
<1>11. \A a \in Survivors(index) :
         offset[a] + tensors[a].size <= b.offset \/ b.offset + size <= offset[a]
  BY <1>2, <1>4, <1>5, <1>9 DEF ClearOf, End, Blocks
<1>12. b.offset + size <= arena_end
  BY <1>2, <1>4, <1>5, <1>7 DEF End, Blocks
<1>13. Place(v, b.offset, rest, arena_end)
  BY <1>3 DEF rest
<1>14. QED
  BY <1>1, <1>5, <1>6, <1>7, <1>8, <1>10, <1>11, <1>12, <1>13, PlacePreserves

(***************************************************************************)
(* The theorems.                                                           *)
(***************************************************************************)

\* The invariant holds before the call.
LEMMA InitEstablishes == Init => IInv
<1> SUFFICES ASSUME Init
             PROVE  IInv
  OBVIOUS
<1>1. /\ DOMAIN request.values = {} /\ DOMAIN tensors = {} /\ DOMAIN offset = {}
      /\ active = {} /\ free = {} /\ arena_end \in 0..MaxU64
  BY MaxU64Assumption DEF Init, NoValues
<1>2. IsRequest(request)
  <2>1. IsFiniteSet(DOMAIN request.values)
    BY <1>1, FS_EmptySet
  <2>2. request.alignment \in 0..MaxU64 /\ request.boundary \in Nat
    BY MaxU64Assumption DEF Init
  <2>3. QED
    BY <1>1, <2>1, <2>2 DEF IsRequest
<1>3. NumbersInv /\ PhaseInv
  BY MaxU64Assumption DEF Init, NumbersInv, PhaseInv, Phases, NoValues
<1>4. tensors \in [DOMAIN tensors -> TensorLifetimes] /\ offset \in [DOMAIN offset -> Nat]
  BY DEF Init, NoValues
<1>5. LifetimesInv /\ BoundsInv /\ OwnersInv /\ ReleasedInv /\ NoLiveOverlap
  BY <1>1, <1>4 DEF LifetimesInv, BoundsInv, OwnersInv, ReleasedInv,
       NoLiveOverlap, PlacedInArena
<1>6. QED
  BY <1>2, <1>3, <1>5 DEF IInv

\* Every step of the call keeps the invariant.
LEMMA NextPreserves == IInv /\ [Next]_vars => IInv'
<1> SUFFICES ASSUME IInv, [Next]_vars
             PROVE  IInv'
  OBVIOUS
<1>1. CASE phase = "idle" /\ \E r \in Requests : PlanMemory(r)
  BY <1>1, PlanMemoryPreserves, RequestsAssumption
<1>2. CASE \E v \in DOMAIN request.values, reason \in RefusalReasons : RefuseValue(v, reason)
  BY <1>2, RejectPreserves DEF RefuseValue
<1>3. CASE BuildLifetimes
  BY <1>3, BuildLifetimesPreserves
<1>4. CASE SumNaive
  BY <1>4, SumNaivePreserves
<1>5. CASE Allocate
  BY <1>5, GrowPreserves, ReusePreserves DEF Allocate, AppendProtected, AppendReusable
<1>6. CASE MeasurePeak
  BY <1>6, MeasurePeakPreserves
<1>7. CASE VerifyPlan
  BY <1>7, VerifyPlanPreserves
<1>8. CASE UNCHANGED vars
  <2>1. UNCHANGED << request, tensors, arena >> /\ PhaseInv' /\ NumbersInv'
    BY <1>8 DEF vars, arena, IInv, PhaseInv, NumbersInv
  <2>2. QED
    BY <2>1, FramePreserves
<1>9. QED
  BY <1>1, <1>2, <1>3, <1>4, <1>5, <1>6, <1>7, <1>8 DEF Next

\* The invariant holds in every state of every call.
THEOREM Invariance == Spec => []IInv
<1>1. QED
  BY InitEstablishes, NextPreserves, PTL DEF Spec

\* Type correctness: every number the planner keeps fits in a uint64_t, and no
\* free block is ever empty.
THEOREM TypeCorrect == Spec => []TypeOK
<1>1. IInv => TypeOK
  <2> SUFFICES ASSUME IInv
               PROVE  TypeOK
    OBVIOUS
  <2>1. /\ phase \in Phases /\ IsRequest(request) /\ naive \in 0..MaxU64 /\ peak \in Nat
        /\ arena_end \in 0..MaxU64 /\ active \subseteq DOMAIN offset
        /\ DOMAIN offset \subseteq DOMAIN tensors
    BY DEF IInv, PhaseInv, NumbersInv, BoundsInv, ArenaValues
  <2>2. phase \in {"naive", "allocate", "verify", "planned"} =>
          tensors \in [DOMAIN request.values -> TensorLifetimes]
    BY DEF IInv, PhaseInv, LifetimesInv
  <2>3. \A v \in DOMAIN offset : offset[v] \in 0..MaxU64
    <3>1. \A v \in DOMAIN offset : /\ offset[v] \in Nat /\ tensors[v].size \in Nat
                                   /\ offset[v] + tensors[v].size <= arena_end
      BY <2>1 DEF IInv, BoundsInv, PlacedInArena, LifetimesInv, TensorLifetimes
    <3>2. QED
      BY <2>1, <3>1, MaxU64Assumption
  <2>4. offset \in [DOMAIN offset -> 0..MaxU64]
    BY <2>3 DEF IInv, BoundsInv
  <2>5. free \subseteq [offset : 0..MaxU64, size : 1..MaxU64]
    <3>1. \A b \in free : b \in Blocks /\ End(b) <= arena_end
      BY DEF IInv, BoundsInv
    <3>2. QED
      BY <2>1, <3>1, MaxU64Assumption DEF Blocks, End
  <2>6. QED
    BY <2>1, <2>2, <2>4, <2>5 DEF TypeOK
<1>2. QED
  BY <1>1, Invariance, PTL

\* Whatever graph is planned, two values that share arena bytes are never live
\* together and neither is an output.
THEOREM NoLiveOverlapHolds == Spec => []NoLiveOverlap
<1>1. IInv => NoLiveOverlap
  BY DEF IInv
<1>2. QED
  BY <1>1, Invariance, PTL

\* Whatever graph is planned, every placed value lies inside the arena.
THEOREM PlacedInArenaHolds == Spec => []PlacedInArena
<1>1. IInv => PlacedInArena
  BY DEF IInv, BoundsInv
<1>2. QED
  BY <1>1, Invariance, PTL

(***************************************************************************)
(* How the bytes of the arena are accounted for: every byte has one owner, *)
(* the arena grows only when it has to, and the checks the planner makes   *)
(* of its own work never fail.                                             *)
(***************************************************************************)

(***************************************************************************)
(* The free list keeps every byte, in maximal runs.                        *)
(***************************************************************************)

Covered(byte, blocks) == \E b \in blocks : Covers(b.offset, b.size, byte)

\* The first byte of the run of covered bytes that ends with byte.
LEMMA RunStart ==
  ASSUME NEW blocks \in SUBSET Blocks, NEW byte \in Nat, Covered(byte, blocks)
  PROVE  \E s \in Starts(blocks) \ Ends(blocks) :
           s <= byte /\ \A x \in s .. byte : Covered(x, blocks)
<1> DEFINE S == { s \in Starts(blocks) : s <= byte /\ \A x \in s .. byte : Covered(x, blocks) }
<1>1. S \in SUBSET Nat
  BY DEF Starts, Blocks
<1>2. S # {}
  <2>1. PICK b \in blocks : Covers(b.offset, b.size, byte)
    BY DEF Covered
  <2>2. \A x \in b.offset .. byte : Covers(b.offset, b.size, x)
    BY <2>1 DEF Covers, Blocks
  <2>3. b.offset \in S
    BY <2>1, <2>2 DEF Starts, Covered, Covers
  <2>4. QED
    BY <2>3
<1>3. PICK s \in S : \A x \in S : s <= x
  BY <1>1, <1>2, LeastElement
<1>4. ASSUME s \in Ends(blocks)
      PROVE  FALSE
  <2>1. PICK b \in blocks : s = End(b)
    BY <1>4 DEF Ends
  <2>2. b.offset \in Nat /\ b.size \in Nat /\ b.size > 0 /\ s = b.offset + b.size
    BY <2>1 DEF Blocks, End
  <2>3. \A x \in b.offset .. s - 1 : Covered(x, blocks)
    BY <1>1, <2>2 DEF Covered, Covers
  <2>4. \A x \in b.offset .. byte : x \in b.offset .. s - 1 \/ x \in s .. byte
    BY <1>1, <2>2
  <2>5. b.offset \in S
    BY <1>1, <2>2, <2>3, <2>4 DEF Starts
  <2>6. QED
    BY <1>3, <2>2, <2>5
<1>5. QED
  BY <1>4

\* The byte after the run of covered bytes that begins with byte.
LEMMA RunEnd ==
  ASSUME NEW blocks \in SUBSET Blocks, NEW limit \in Nat,
         \A b \in blocks : End(b) <= limit,
         NEW byte \in Nat, Covered(byte, blocks)
  PROVE  \E e \in Ends(blocks) \ Starts(blocks) :
           byte < e /\ \A x \in byte .. e - 1 : Covered(x, blocks)
<1> DEFINE S == { e \in Ends(blocks) : byte < e /\ \A x \in byte .. e - 1 : Covered(x, blocks) }
<1>1. S \in SUBSET (0 .. limit) /\ S \in SUBSET Nat
  BY DEF Ends, End, Blocks
<1>2. S # {}
  <2>1. PICK b \in blocks : Covers(b.offset, b.size, byte)
    BY DEF Covered
  <2>2. \A x \in byte .. End(b) - 1 : Covers(b.offset, b.size, x)
    BY <2>1 DEF Covers, Blocks, End
  <2>3. End(b) \in S
    BY <2>1, <2>2 DEF Ends, Covered, Covers, End
  <2>4. QED
    BY <2>3
<1>3. PICK e \in S : \A x \in S : x <= e
  BY <1>1, <1>2, GreatestElement
<1>4. ASSUME e \in Starts(blocks)
      PROVE  FALSE
  <2>1. PICK b \in blocks : e = b.offset
    BY <1>4 DEF Starts
  <2>2. b.size \in Nat /\ b.size > 0 /\ End(b) = e + b.size
    BY <2>1 DEF Blocks, End
  <2>3. \A x \in e .. End(b) - 1 : Covered(x, blocks)
    BY <1>1, <2>1, <2>2 DEF Covered, Covers
  <2>4. \A x \in byte .. End(b) - 1 : x \in byte .. e - 1 \/ x \in e .. End(b) - 1
    BY <1>1, <2>2
  <2>5. End(b) \in S
    BY <1>1, <2>2, <2>3, <2>4 DEF Ends
  <2>6. QED
    BY <1>1, <1>3, <2>2, <2>5
<1>5. QED
  BY <1>4

\* Coalescing separate blocks loses no byte.
LEMMA CoalesceCoversAll ==
  ASSUME NEW blocks \in SUBSET Blocks, Separated(blocks), NEW limit \in Nat,
         \A b \in blocks : End(b) <= limit,
         NEW byte \in Nat, Covered(byte, blocks)
  PROVE  Covered(byte, Coalesce(blocks))
<1>1. PICK s \in Starts(blocks) \ Ends(blocks) :
        s <= byte /\ \A x \in s .. byte : Covered(x, blocks)
  BY RunStart
<1>2. PICK e \in Ends(blocks) \ Starts(blocks) :
        byte < e /\ \A x \in byte .. e - 1 : Covered(x, blocks)
  BY RunEnd
<1>3. s \in Nat /\ e \in Nat
  BY <1>1, <1>2 DEF Starts, Ends, End, Blocks
<1>4. \A x \in s .. e - 1 : Covered(x, blocks)
  BY <1>1, <1>2, <1>3
<1>5. ASSUME NEW x \in Starts(blocks), x \notin Ends(blocks), s < x, x < e
      PROVE  FALSE
  <2>1. PICK d \in blocks : d.offset = x
    BY <1>5 DEF Starts
  <2>2. x \in Nat /\ d.size \in Nat /\ d.size > 0
    BY <2>1 DEF Blocks
  <2>3. x - 1 \in s .. e - 1
    BY <1>3, <1>5, <2>2
  <2>4. PICK c \in blocks : Covers(c.offset, c.size, x - 1)
    BY <1>4, <2>3 DEF Covered
  <2>5. c.offset \in Nat /\ c.size \in Nat /\ c.offset < x /\ x <= End(c)
    BY <2>2, <2>4 DEF Covers, Blocks, End
  <2>6. End(c) = x
    BY <2>1, <2>2, <2>5 DEF Separated, End
  <2>7. QED
    BY <1>5, <2>6 DEF Ends
<1>6. ASSUME NEW x \in Ends(blocks), x \notin Starts(blocks), s < x, x < e
      PROVE  FALSE
  <2>1. PICK c \in blocks : End(c) = x
    BY <1>6 DEF Ends
  <2>2. x \in Nat /\ c.offset \in Nat /\ c.size \in Nat /\ c.offset < x
    BY <2>1 DEF Blocks, End
  <2>3. x \in s .. e - 1
    BY <1>3, <1>6, <2>2
  <2>4. PICK d \in blocks : Covers(d.offset, d.size, x)
    BY <1>4, <2>3 DEF Covered
  <2>5. d.offset \in Nat /\ d.size \in Nat /\ d.offset <= x /\ x < End(d)
    BY <2>2, <2>4 DEF Covers, Blocks, End
  <2>6. d.offset = x
    BY <2>1, <2>2, <2>5 DEF Separated, End
  <2>7. QED
    BY <1>6, <2>6 DEF Starts
<1>7. Block(s, e) \in Coalesce(blocks)
  <2>1. s < e
    BY <1>1, <1>2, <1>3
  <2>2. \A x \in (Starts(blocks) \ Ends(blocks)) \cup (Ends(blocks) \ Starts(blocks)) :
          ~(s < x /\ x < e)
    BY <1>5, <1>6
  <2> DEFINE run == << s, e >>
  <2>3. run \in (Starts(blocks) \ Ends(blocks)) \X (Ends(blocks) \ Starts(blocks))
        /\ run[1] = s /\ run[2] = e
    OBVIOUS
  <2> HIDE DEF run
  <2>4. QED
    BY <2>1, <2>2, <2>3 DEF Coalesce
<1>8. Covers(Block(s, e).offset, Block(s, e).size, byte)
  BY <1>1, <1>2, <1>3 DEF Block, Covers
<1>9. QED
  BY <1>7, <1>8 DEF Covered

\* No coalesced block ends where another starts.
LEMMA CoalesceIsMaximal ==
  ASSUME NEW blocks \in SUBSET Blocks
  PROVE  \A c, d \in Coalesce(blocks) : End(c) # d.offset
<1> DEFINE run_starts == Starts(blocks) \ Ends(blocks)
           run_ends == Ends(blocks) \ Starts(blocks)
<1>1. run_starts \in SUBSET Nat /\ run_ends \in SUBSET Nat
  BY DEF Starts, Ends, End, Blocks
<1>2. \A c \in Coalesce(blocks) : \E s \in run_starts, e \in run_ends : c = Block(s, e)
  BY DEF Coalesce
<1>3. \A c \in Coalesce(blocks) : c.offset \in run_starts /\ End(c) \in run_ends
  <2> HIDE DEF run_starts, run_ends
  <2> QED
    BY <1>1, <1>2 DEF Block, End
<1>4. QED
  BY <1>3

\* When allocate_best_fit finds nothing, no block is large enough.
LEMMA NothingFits ==
  ASSUME NEW blocks \in SUBSET Blocks, NEW size \in Nat, BestFit(blocks, size) = {}
  PROVE  \A b \in blocks : b.size < size
<1> SUFFICES ASSUME NEW b \in blocks, size <= b.size
             PROVE  FALSE
  BY DEF Blocks
<1> DEFINE fitting == { c \in blocks : size <= c.size }
           sizes == { c.size : c \in fitting }
<1>1. sizes \in SUBSET Nat /\ sizes # {}
  BY DEF Blocks
<1>2. PICK least \in sizes : \A x \in sizes : least <= x
  BY <1>1, LeastElement
<1> DEFINE offsets == { c.offset : c \in { d \in fitting : d.size = least } }
<1>3. offsets \in SUBSET Nat /\ offsets # {}
  BY <1>2 DEF Blocks
<1>4. PICK lowest \in offsets : \A x \in offsets : lowest <= x
  BY <1>3, LeastElement
<1>5. PICK c \in fitting : c.size = least /\ c.offset = lowest
  BY <1>4
<1>6. ASSUME NEW d \in blocks, size <= d.size
      PROVE  c.size < d.size \/ (c.size = d.size /\ c.offset <= d.offset)
  <2>1. d \in fitting /\ d.size \in Nat /\ c.size \in Nat
    BY <1>5, <1>6 DEF Blocks
  <2>2. c.size <= d.size
    BY <1>2, <1>5, <2>1
  <2>3. CASE c.size = d.size
    BY <1>4, <1>5, <2>1, <2>3
  <2>4. QED
    BY <2>1, <2>2, <2>3
<1>7. c \in BestFit(blocks, size)
  BY <1>5, <1>6 DEF BestFit
<1>8. QED
  BY <1>7

(***************************************************************************)
(* Every byte has an owner.                                                *)
(***************************************************************************)

\* Below the end of the arena no byte is lost. (That none has two owners is
\* OwnersInv.)
CoverInv ==
  \A byte \in 0 .. arena_end - 1 :
    \/ \E a \in active : Covers(offset[a], tensors[a].size, byte)
    \/ Covered(byte, free)

\* After release_expired every byte belongs to a survivor or to a free block, and
\* free blocks do not touch.
LEMMA ReleaseCovers ==
  ASSUME IInv, CoverInv, NEW index \in Nat
  PROVE  LET blocks == FreeAfterRelease(index)
         IN  /\ \A c, d \in blocks : End(c) # d.offset
             /\ \A byte \in 0 .. arena_end - 1 :
                  \/ \E a \in Survivors(index) : Covers(offset[a], tensors[a].size, byte)
                  \/ Covered(byte, blocks)
<1> DEFINE released == { Block(offset[a], offset[a] + tensors[a].size) :
                           a \in Expired(index) }
           all == free \cup released
<1>1. \A a \in active : /\ offset[a] \in Nat
                        /\ tensors[a].size \in Nat \ {0}
                        /\ offset[a] + tensors[a].size <= arena_end
  BY DEF IInv, BoundsInv, LifetimesInv, TensorLifetimes, ArenaValues, PlacedInArena
<1>2. Expired(index) \subseteq active
  BY DEF Expired
<1>3. /\ \A b \in released : \E a \in Expired(index) :
           b = [ offset |-> offset[a], size |-> tensors[a].size ]
      /\ \A a \in Expired(index) :
           [ offset |-> offset[a], size |-> tensors[a].size ] \in released
  BY <1>1, <1>2 DEF Block
<1> HIDE DEF released
<1>4. all \in SUBSET Blocks
  BY <1>1, <1>2, <1>3 DEF Blocks, IInv, BoundsInv
<1>5. \A b \in all : End(b) <= arena_end
  BY <1>1, <1>2, <1>3 DEF End, IInv, BoundsInv
<1>6. FreeAfterRelease(index) = Coalesce(all) /\ arena_end \in Nat
  BY MaxU64Assumption DEF FreeAfterRelease, released, IInv, BoundsInv
<1>7. Separated(all)
  <2> SUFFICES ASSUME NEW b \in all, NEW c \in all, b # c
               PROVE  End(b) <= c.offset \/ End(c) <= b.offset
    BY DEF Separated
  <2>1. CASE b \in free /\ c \in free
    BY <2>1 DEF IInv, OwnersInv
  <2>2. CASE b \in released /\ c \in free
    BY <1>2, <1>3, <2>2 DEF IInv, OwnersInv, End
  <2>3. CASE b \in free /\ c \in released
    BY <1>2, <1>3, <2>3 DEF IInv, OwnersInv, End
  <2>4. CASE b \in released /\ c \in released
    <3>1. PICK a \in Expired(index), d \in Expired(index) :
            /\ b = [ offset |-> offset[a], size |-> tensors[a].size ]
            /\ c = [ offset |-> offset[d], size |-> tensors[d].size ]
      BY <1>3, <2>4
    <3>2. Clear(a, d)
      BY <1>2, <3>1 DEF IInv, OwnersInv
    <3>3. QED
      BY <3>1, <3>2 DEF Clear, End
  <2>5. QED
    BY <2>1, <2>2, <2>3, <2>4
<1>8. ASSUME NEW byte \in 0 .. arena_end - 1
      PROVE  \/ \E a \in Survivors(index) : Covers(offset[a], tensors[a].size, byte)
             \/ Covered(byte, Coalesce(all))
  <2>1. CASE \E a \in Survivors(index) : Covers(offset[a], tensors[a].size, byte)
    BY <2>1
  <2>2. CASE \E a \in Expired(index) : Covers(offset[a], tensors[a].size, byte)
    <3>1. PICK a \in Expired(index) : Covers(offset[a], tensors[a].size, byte)
      BY <2>2
    <3>2. PICK b \in all : b = [ offset |-> offset[a], size |-> tensors[a].size ]
      BY <1>3
    <3>3. Covers(b.offset, b.size, byte)
      BY <3>1, <3>2
    <3>4. Covered(byte, all)
      BY <3>3 DEF Covered
    <3>5. QED
      BY <1>4, <1>5, <1>6, <1>7, <3>4, CoalesceCoversAll
  <2>3. CASE Covered(byte, free)
    <3>1. Covered(byte, all)
      BY <2>3 DEF Covered
    <3>2. QED
      BY <1>4, <1>5, <1>6, <1>7, <3>1, CoalesceCoversAll
  <2>4. QED
    BY <2>1, <2>2, <2>3 DEF CoverInv, Survivors
<1>9. QED
  BY <1>4, <1>6, <1>8, CoalesceIsMaximal

\* Placing v loses no byte if the survivors, v and the new free list have them all.
LEMMA PlaceCovers ==
  ASSUME IInv, NEW v, v \in Pending, NEW at, NEW blocks, NEW end,
         Place(v, at, blocks, end),
         \A byte \in 0 .. end - 1 :
           \/ \E a \in Survivors(tensors[v].definition_index) :
                Covers(offset[a], tensors[a].size, byte)
           \/ Covers(at, tensors[v].size, byte)
           \/ Covered(byte, blocks)
  PROVE  CoverInv'
<1>1. v \notin DOMAIN offset /\ active \subseteq DOMAIN offset
  BY DEF Pending, IInv, BoundsInv
<1>2. /\ tensors' = tensors /\ free' = blocks /\ arena_end' = end
      /\ offset'[v] = at
      /\ \A w \in DOMAIN offset : offset'[w] = offset[w]
      /\ active' = Survivors(tensors[v].definition_index) \cup {v}
  BY <1>1 DEF Place, Survivors
<1>3. \A a \in Survivors(tensors[v].definition_index) : offset'[a] = offset[a]
  BY <1>1, <1>2 DEF Survivors
<1>4. QED
  BY <1>2, <1>3 DEF CoverInv

\* An iteration that grows the arena gives the new bytes to v.
LEMMA GrowCovers ==
  ASSUME IInv, CoverInv, NEW v, IsNext(v),
         Grow(v, FreeAfterRelease(tensors[v].definition_index))
  PROVE  CoverInv'
<1> DEFINE index == tensors[v].definition_index
           blocks == FreeAfterRelease(index)
           size == tensors[v].size
<1>1. v \in Pending /\ index \in Nat /\ size \in 1..MaxU64 /\ arena_end \in 0..MaxU64
  BY DEF IInv, BoundsInv, LifetimesInv, TensorLifetimes, IsNext, Pending, ArenaValues
<1>2. CASE Reject("arena_overflow")
  BY <1>2 DEF Reject, arena, CoverInv
<1>3. CASE Place(v, arena_end, blocks, arena_end + size)
  <2>1. \A byte \in 0 .. arena_end - 1 :
          \/ \E a \in Survivors(index) : Covers(offset[a], tensors[a].size, byte)
          \/ Covered(byte, blocks)
    BY <1>1, ReleaseCovers
  <2> HIDE DEF blocks
  <2>2. \A byte \in 0 .. arena_end + size - 1 :
          byte \in 0 .. arena_end - 1 \/ Covers(arena_end, size, byte)
    BY <1>1, MaxU64Assumption DEF Covers
  <2>3. QED
    BY <1>1, <1>3, <2>1, <2>2, PlaceCovers
<1>4. QED
  BY <1>2, <1>3 DEF Grow

\* An iteration that reuses a block keeps the rest of it.
LEMMA ReuseCovers ==
  ASSUME IInv, CoverInv, NEW v, ReuseBlock(v)
  PROVE  CoverInv'
<1> DEFINE index == tensors[v].definition_index
           blocks == FreeAfterRelease(index)
           size == tensors[v].size
<1>1. v \in Pending /\ index \in Nat /\ size \in 1..MaxU64
  BY DEF ReuseBlock, IInv, LifetimesInv, TensorLifetimes, IsNext, Pending, ArenaValues
<1>2. PICK b \in BestFit(blocks, size) : Place(v, b.offset, Take(blocks, b, size), arena_end)
  BY DEF ReuseBlock
<1>3. /\ blocks \in SUBSET Blocks
      /\ \A byte \in 0 .. arena_end - 1 :
           \/ \E a \in Survivors(index) : Covers(offset[a], tensors[a].size, byte)
           \/ Covered(byte, blocks)
  BY <1>1, ReleaseCovers, ReleaseFacts
<1> HIDE DEF blocks
<1>4. b \in blocks /\ b.offset \in Nat /\ b.size \in Nat /\ size <= b.size
  BY <1>2, <1>3 DEF BestFit, Blocks
<1>5. ASSUME NEW byte \in Nat, Covered(byte, blocks)
      PROVE  Covers(b.offset, size, byte) \/ Covered(byte, Take(blocks, b, size))
  <2>1. PICK c \in blocks : Covers(c.offset, c.size, byte)
    BY <1>5 DEF Covered
  <2>2. CASE c # b
    BY <2>1, <2>2 DEF Covered, Take
  <2>3. CASE c = b /\ ~Covers(b.offset, size, byte)
    <3> DEFINE rest == Block(b.offset + size, End(b))
    <3>1. b.size # size /\ Covers(rest.offset, rest.size, byte)
      BY <1>1, <1>4, <2>1, <2>3 DEF Covers, Block, End
    <3>2. rest \in Take(blocks, b, size)
      BY <3>1 DEF Take
    <3>3. QED
      BY <3>1, <3>2 DEF Covered
  <2>4. QED
    BY <2>2, <2>3
<1>6. QED
  BY <1>1, <1>2, <1>3, <1>5, PlaceCovers

LEMMA NextCovers == IInv /\ CoverInv /\ [Next]_vars => CoverInv'
<1> SUFFICES ASSUME IInv, CoverInv, [Next]_vars
             PROVE  CoverInv'
  OBVIOUS
<1>1. CASE Allocate
  BY <1>1, GrowCovers, ReuseCovers DEF Allocate, AppendProtected, AppendReusable
<1>2. CASE BuildLifetimes
  <2>1. arena_end' = 0
    BY <1>2 DEF BuildLifetimes, arena, IInv, PhaseInv
  <2>2. QED
    BY <2>1 DEF CoverInv
<1>3. CASE UNCHANGED << tensors, arena >>
  BY <1>3 DEF CoverInv, Covered, arena
<1>4. QED
  <2>1. CASE phase = "idle" /\ \E r \in Requests : PlanMemory(r)
    BY <1>3, <2>1 DEF PlanMemory
  <2>2. CASE \E v \in DOMAIN request.values, reason \in RefusalReasons : RefuseValue(v, reason)
    BY <1>3, <2>2 DEF RefuseValue, Reject
  <2>3. CASE SumNaive \/ MeasurePeak \/ VerifyPlan
    BY <1>3, <2>3 DEF SumNaive, MeasurePeak, VerifyPlan, Reject
  <2>4. CASE UNCHANGED vars
    BY <1>3, <2>4 DEF vars, arena
  <2>5. QED
    BY <1>1, <1>2, <2>1, <2>2, <2>3, <2>4 DEF Next

\* No byte of the arena is ever lost.
THEOREM CoverInvariance == Spec => []CoverInv
<1>1. Init => CoverInv
  BY DEF Init, CoverInv
<1>2. QED
  BY <1>1, NextCovers, Invariance, PTL DEF Spec

\* Whatever graph is planned, every byte of the arena has exactly one owner after
\* each iteration of the allocation loop (release_expired, coalesce_free_blocks
\* and allocate_best_fit together).
THEOREM ArenaPartitionedHolds == Spec => []ArenaPartitioned
<1>1. IInv /\ CoverInv => ArenaPartitioned
  <2> SUFFICES ASSUME IInv, CoverInv, NEW byte \in 0 .. arena_end - 1
               PROVE  Cardinality({ a \in active : Covers(offset[a], tensors[a].size, byte) })
                      + Cardinality({ b \in free : Covers(b.offset, b.size, byte) }) = 1
    BY DEF ArenaPartitioned, IInv, BoundsInv, PlacedInArena
  <2> DEFINE owners == { a \in active : Covers(offset[a], tensors[a].size, byte) }
             blocks == { b \in free : Covers(b.offset, b.size, byte) }
  <2> SUFFICES Cardinality(owners) + Cardinality(blocks) = 1
    OBVIOUS
  <2>1. \A a \in active : offset[a] \in Nat /\ tensors[a].size \in Nat
    BY DEF IInv, BoundsInv, LifetimesInv, TensorLifetimes, ArenaValues
  <2>2. \A b \in free : b.offset \in Nat /\ b.size \in Nat
    BY DEF IInv, BoundsInv, Blocks
  <2>3. byte \in Int
    OBVIOUS
  <2>4. \A a, c \in owners : a = c
    BY <2>1, <2>3 DEF IInv, OwnersInv, Clear, Covers
  <2>5. \A b, c \in blocks : b = c
    BY <2>2, <2>3 DEF IInv, OwnersInv, End, Covers
  <2>6. \A a \in owners, b \in blocks : FALSE
    BY <2>1, <2>2, <2>3 DEF IInv, OwnersInv, End, Covers
  <2>7. (\E a \in owners : TRUE) \/ (\E b \in blocks : TRUE)
    BY DEF CoverInv, Covered
  <2> HIDE DEF owners, blocks
  <2>8. CASE \E a \in owners : TRUE
    <3>1. PICK a \in owners : TRUE
      BY <2>8
    <3>2. owners = {a} /\ blocks = {}
      BY <2>4, <2>6, <3>1
    <3>3. Cardinality(owners) = 1 /\ Cardinality(blocks) = 0
      BY <3>2, FS_Singleton, FS_EmptySet, Zenon
    <3>4. QED
      BY <3>3
  <2>9. CASE \E b \in blocks : TRUE
    <3>1. PICK b \in blocks : TRUE
      BY <2>9
    <3>2. blocks = {b} /\ owners = {}
      BY <2>5, <2>6, <3>1
    <3>3. Cardinality(blocks) = 1 /\ Cardinality(owners) = 0
      BY <3>2, FS_Singleton, FS_EmptySet, Zenon
    <3>4. QED
      BY <3>3
  <2>10. QED
    BY <2>7, <2>8, <2>9
<1>2. QED
  BY <1>1, Invariance, CoverInvariance, PTL

\* A gap as large as v between the survivors would be one free block.
LEMMA NoGap ==
  ASSUME IInv, CoverInv, NEW v, AppendReusable(v),
         NEW at \in 0 .. arena_end - tensors[v].size
  PROVE  \E a \in Survivors(tensors[v].definition_index) :
           offset[a] < at + tensors[v].size /\ at < offset[a] + tensors[a].size
<1> DEFINE index == tensors[v].definition_index
           blocks == FreeAfterRelease(index)
           size == tensors[v].size
<1>1. index \in Nat /\ size \in 1..MaxU64 /\ arena_end \in 0..MaxU64
  BY DEF AppendReusable, IInv, BoundsInv, LifetimesInv, TensorLifetimes, IsNext,
         Pending, ArenaValues
<1>2. size \in Nat /\ size > 0 /\ arena_end \in Nat /\ at \in Nat /\ at + size <= arena_end
  BY <1>1, MaxU64Assumption
<1>3. /\ blocks \in SUBSET Blocks
      /\ Separated(blocks)
      /\ \A c, d \in blocks : End(c) # d.offset
      /\ \A byte \in 0 .. arena_end - 1 :
           \/ \E a \in Survivors(index) : Covers(offset[a], tensors[a].size, byte)
           \/ Covered(byte, blocks)
  BY <1>1, ReleaseFacts, ReleaseCovers
<1>4. BestFit(blocks, size) = {}
  BY DEF AppendReusable
<1> HIDE DEF blocks
<1>5. \A b \in blocks : b.size < size
  BY <1>2, <1>3, <1>4, NothingFits
<1>6. SUFFICES ASSUME \A a \in Survivors(index) :
                        ~(offset[a] < at + size /\ at < offset[a] + tensors[a].size)
               PROVE  FALSE
  OBVIOUS
<1>7. \A a \in Survivors(index) : offset[a] \in Nat /\ tensors[a].size \in Nat
  BY DEF Survivors, IInv, BoundsInv, LifetimesInv, TensorLifetimes, ArenaValues
<1>8. \A byte \in at .. at + size - 1 : Covered(byte, blocks)
  <2> SUFFICES ASSUME NEW byte \in at .. at + size - 1
               PROVE  Covered(byte, blocks)
    OBVIOUS
  <2>1. byte \in 0 .. arena_end - 1 /\ byte \in Nat /\ at <= byte /\ byte < at + size
    BY <1>2
  <2>2. \A a \in Survivors(index) : ~Covers(offset[a], tensors[a].size, byte)
    BY <1>2, <1>6, <1>7, <2>1 DEF Covers
  <2>3. QED
    BY <1>3, <2>1, <2>2
<1>9. PICK c \in blocks : Covers(c.offset, c.size, at)
  BY <1>2, <1>8 DEF Covered
<1>10. c.offset \in Nat /\ c.size \in Nat /\ c.offset <= at /\ at < End(c) /\ End(c) < at + size
  BY <1>2, <1>3, <1>5, <1>9 DEF Covers, Blocks, End
<1>11. PICK d \in blocks : Covers(d.offset, d.size, End(c))
  BY <1>2, <1>8, <1>10 DEF Covered, End
<1>12. d.offset \in Nat /\ d.size \in Nat /\ d.offset <= End(c) /\ End(c) < End(d)
  BY <1>3, <1>10, <1>11 DEF Covers, Blocks, End
<1>13. d.offset = End(c)
  BY <1>3, <1>10, <1>12 DEF Separated, End
<1>14. QED
  BY <1>3, <1>13

\* The arena never grows for a reusable value while a gap of its size is there
\* (plan_memory's best fit over the coalesced list).
THEOREM GrowsOnlyWithoutGapHolds == Spec => GrowsOnlyWithoutGap
<1> DEFINE P == \A v \in DOMAIN offset' \ DOMAIN offset :
                  arena_end' > arena_end /\ ~Retained(v) =>
                    \A at \in 0 .. arena_end - tensors[v].size :
                      \E a \in active' \ {v} :
                        /\ offset[a] < at + tensors[v].size
                        /\ at < offset[a] + tensors[a].size
<1>1. IInv /\ CoverInv /\ [Next]_vars => [P]_vars
  <2> SUFFICES ASSUME IInv, CoverInv, [Next]_vars,
                      NEW v \in DOMAIN offset' \ DOMAIN offset,
                      arena_end' > arena_end, ~Retained(v),
                      NEW at \in 0 .. arena_end - tensors[v].size
               PROVE  \E a \in active' \ {v} : /\ offset[a] < at + tensors[v].size
                                               /\ at < offset[a] + tensors[a].size
    OBVIOUS
  <2>1. offset' # offset
    OBVIOUS
  <2>2. Allocate
    BY <2>1 DEF Next, vars, arena, PlanMemory, RefuseValue, BuildLifetimes, SumNaive,
                MeasurePeak, VerifyPlan, Reject
  <2>3. PICK w \in Pending : AppendProtected(w) \/ ReuseBlock(w) \/ AppendReusable(w)
    BY <2>2 DEF Allocate
  <2>4. PICK at2, blocks, end : Place(w, at2, blocks, end)
    BY <2>1, <2>3 DEF AppendProtected, ReuseBlock, AppendReusable, Grow, Reject, arena
  <2>5. w = v /\ active' = Survivors(tensors[w].definition_index) \cup {w}
    BY <2>4 DEF Place, Survivors
  <2>6. ~AppendProtected(v)
    BY DEF AppendProtected
  <2>7. arena_end \in Nat
    BY MaxU64Assumption DEF IInv, BoundsInv
  <2>8. ~ReuseBlock(v)
    BY <2>7 DEF ReuseBlock, Place
  <2>9. AppendReusable(v)
    BY <2>3, <2>5, <2>6, <2>8
  <2>10. v \notin active /\ Survivors(tensors[v].definition_index) \subseteq active
    BY DEF IInv, BoundsInv, Survivors
  <2>11. QED
    BY <2>5, <2>9, <2>10, NoGap
<1>2. QED
  BY <1>1, Invariance, CoverInvariance, PTL DEF Spec, GrowsOnlyWithoutGap

(***************************************************************************)
(* The planner's checks of its own work.                                   *)
(***************************************************************************)

Multiple(n, alignment) == \E q \in Int : n = q * alignment

AlignedBlocks(blocks) ==
  \A b \in blocks : Multiple(b.offset, request.alignment) /\ Multiple(End(b), request.alignment)

\* Everything in the arena begins and ends at a multiple of the alignment.
AlignedInv ==
  /\ \A v \in DOMAIN tensors : Multiple(tensors[v].size, request.alignment)
  /\ \A v \in DOMAIN offset : Multiple(offset[v], request.alignment)
  /\ AlignedBlocks(free)
  /\ Multiple(arena_end, request.alignment)

\* The lifetimes are those of the request, and the arena has not grown by more
\* than the sizes of the placed values.
TotalsInv ==
  /\ \A v \in DOMAIN tensors : tensors[v] = Lifetime(request.values[v], request)
  /\ phase = "allocate" => naive = NaiveTotal
  /\ arena_end <= Cardinality(Bytes(DOMAIN offset))

\* What MeasurePeak has established when the plan is verified.
MeasuredInv ==
  phase = "verify" => Pending = {} /\ peak <= arena_end /\ arena_end <= naive

ErrorInv ==
  /\ SelfChecksPass
  /\ phase # "rejected" => error = "none"

SelfCheckInv == AlignedInv /\ TotalsInv /\ MeasuredInv /\ ErrorInv

\* Multiples: their sums, and what % says of them.
LEMMA MultipleSum ==
  ASSUME NEW alignment \in Nat, NEW m \in Int, NEW n \in Int,
         Multiple(m, alignment), Multiple(n, alignment)
  PROVE  Multiple(m + n, alignment)
<1>1. PICK p \in Int, q \in Int : m = p * alignment /\ n = q * alignment
  BY DEF Multiple
<1>2. m + n = (p + q) * alignment /\ p + q \in Int
  BY <1>1
<1>3. QED
  BY <1>2 DEF Multiple

\* (n is its quotient times the alignment, plus its remainder.)
LEMMA DivisionFacts ==
  ASSUME NEW alignment \in Nat \ {0}, NEW n \in Nat
  PROVE  /\ n = alignment * (n \div alignment) + (n % alignment)
         /\ n % alignment \in 0 .. alignment - 1
         /\ n \div alignment \in Int
<1>1. n = alignment * (n \div alignment) + (n % alignment)
  OBVIOUS
<1>2. n % alignment \in 0 .. alignment - 1
  OBVIOUS
<1>3. n \div alignment \in Int
  OBVIOUS
<1>4. QED
  BY <1>1, <1>2, <1>3

LEMMA MultipleMod ==
  ASSUME NEW alignment \in Nat \ {0}, NEW n \in Nat
  PROVE  Multiple(n, alignment) <=> n % alignment = 0
<1>1. /\ n = alignment * (n \div alignment) + (n % alignment)
      /\ n % alignment \in 0 .. alignment - 1
      /\ n \div alignment \in Int
  BY DivisionFacts
<1>2. ASSUME n % alignment = 0
      PROVE  Multiple(n, alignment)
  <2>1. n = (n \div alignment) * alignment
    BY <1>1, <1>2
  <2>2. QED
    BY <1>1, <2>1 DEF Multiple
<1>3. ASSUME Multiple(n, alignment)
      PROVE  n % alignment = 0
  <2>1. PICK q \in Int : n = q * alignment
    BY <1>3 DEF Multiple
  <2> DEFINE d == q - (n \div alignment)
  <2>2. d \in Int /\ n % alignment = d * alignment
    BY <1>1, <2>1
  <2> HIDE DEF d
  <2>3. d <= 0
    <3> SUFFICES ASSUME d >= 1
                 PROVE  FALSE
      BY <2>2
    <3>1. d * alignment >= alignment
      BY <2>2
    <3>2. QED
      BY <1>1, <2>2, <3>1
  <2>4. d >= 0
    <3> SUFFICES ASSUME d <= -1
                 PROVE  FALSE
      BY <2>2
    <3>1. d * alignment <= -alignment
      BY <2>2
    <3>2. QED
      BY <1>1, <2>2, <3>1
  <2>5. QED
    BY <2>2, <2>3, <2>4
<1>4. QED
  BY <1>2, <1>3

\* align_up returns a multiple.
LEMMA AlignUpIsMultiple ==
  ASSUME NEW n \in Nat, NEW alignment \in Nat \ {0}
  PROVE  Multiple(AlignUp(n, alignment), alignment)
<1>1. CASE n % alignment = 0
  BY <1>1, MultipleMod DEF AlignUp
<1>2. CASE n % alignment # 0
  <2>1. /\ n = alignment * (n \div alignment) + (n % alignment)
        /\ n % alignment \in 0 .. alignment - 1
        /\ n \div alignment \in Int
    BY DivisionFacts
  <2>2. AlignUp(n, alignment) = n + (alignment - (n % alignment))
    BY <1>2 DEF AlignUp
  <2> DEFINE d == n \div alignment
             r == n % alignment
  <2>3. n = alignment * d + r /\ d \in Int /\ r \in Int
        /\ AlignUp(n, alignment) = n + (alignment - r)
    BY <2>1, <2>2
  <2> HIDE DEF d, r
  <2>4. n + (alignment - r) = (d + 1) * alignment /\ d + 1 \in Int
    BY <2>3
  <2>5. QED
    BY <2>3, <2>4 DEF Multiple
<1>3. QED
  BY <1>1, <1>2

\* The size of one more value.
LEMMA BytesOfOneMore ==
  ASSUME IInv, NEW S \in SUBSET ArenaValues, NEW v \in ArenaValues, v \notin S
  PROVE  Cardinality(Bytes(S \cup {v})) = Cardinality(Bytes(S)) + tensors[v].size
<1> DEFINE own == 0 .. tensors[v].size - 1
           mine == {v} \X own
<1>1. tensors[v].size \in Nat \ {0}
  BY DEF IInv, LifetimesInv, TensorLifetimes, ArenaValues
<1>2. IsFiniteSet(own) /\ Cardinality(own) = tensors[v].size
  <2>1. IsFiniteSet(own) /\ Cardinality(own) =
          IF 0 > tensors[v].size - 1 THEN 0 ELSE (tensors[v].size - 1) - 0 + 1
    BY <1>1, FS_Interval
  <2>2. QED
    BY <1>1, <2>1
<1>3. IsFiniteSet({v}) /\ Cardinality({v}) = 1
  BY FS_Singleton, Zenon
<1> HIDE DEF own
<1>4. IsFiniteSet(mine) /\ Cardinality(mine) = Cardinality({v}) * Cardinality(own)
  BY <1>2, <1>3, FS_Product
<1>5. Cardinality(mine) = tensors[v].size
  BY <1>1, <1>2, <1>3, <1>4
<1>6. IsFiniteSet(Bytes(S)) /\ Cardinality(Bytes(S)) \in Nat
  BY BytesAreFinite
<1>7. Bytes(S \cup {v}) = Bytes(S) \cup mine
  BY DEF Bytes, own
<1>8. Bytes(S) \cap mine = {}
  BY DEF Bytes
<1> HIDE DEF mine
<1>9. Cardinality(Bytes(S) \cup mine) = Cardinality(Bytes(S)) + Cardinality(mine) - Cardinality({})
  <2>1. Cardinality(Bytes(S) \cup mine) =
          Cardinality(Bytes(S)) + Cardinality(mine) - Cardinality(Bytes(S) \cap mine)
    BY <1>4, <1>6, FS_Union
  <2>2. QED
    BY <1>8, <2>1
<1>10. Cardinality({}) = 0
  BY FS_EmptySet
<1>11. Cardinality(Bytes(S) \cup mine) = Cardinality(Bytes(S)) + tensors[v].size
  BY <1>1, <1>5, <1>6, <1>9, <1>10
<1>12. QED
  BY <1>7, <1>11, Zenon

\* Placed values that are live at one operation lie side by side in the arena.
LEMMA LiveFits ==
  ASSUME IInv, Pending = {}, NEW i \in Nat
  PROVE  Cardinality(Bytes(LiveAt(i))) <= arena_end
<1> DEFINE S == Bytes(LiveAt(i))
           T == 0 .. arena_end - 1
           f == [ x \in S |-> offset[x[1]] + x[2] ]
<1>1. arena_end \in Nat
  BY MaxU64Assumption DEF IInv, BoundsInv
<1>2. LiveAt(i) \subseteq DOMAIN offset
  BY DEF LiveAt, Pending
<1>3. \A v \in DOMAIN offset : /\ offset[v] \in Nat
                               /\ tensors[v].size \in Nat
                               /\ tensors[v].definition_index \in Nat
                               /\ tensors[v].final_use_index \in Nat
                               /\ offset[v] + tensors[v].size <= arena_end
  BY DEF IInv, BoundsInv, PlacedInArena, LifetimesInv, TensorLifetimes, ArenaValues
<1>4. \A x \in S : /\ x = << x[1], x[2] >>
                   /\ x[1] \in LiveAt(i) /\ x[1] \in DOMAIN offset
                   /\ x[2] \in Nat /\ x[2] < tensors[x[1]].size
  BY <1>2, <1>3 DEF Bytes
<1>5. \A x \in S : f[x] \in T
  BY <1>1, <1>3, <1>4
<1>6. ASSUME NEW x \in S, NEW y \in S, f[x] = f[y]
      PROVE  x = y
  <2>1. offset[x[1]] + x[2] = offset[y[1]] + y[2]
    BY <1>6
  <2>2. CASE x[1] = y[1]
    <3>1. x[2] = y[2]
      BY <1>3, <1>4, <2>1, <2>2
    <3>2. QED
      BY <1>4, <2>2, <3>1
  <2>3. CASE x[1] # y[1]
    <3>1. RangesOverlap(x[1], y[1])
      BY <1>3, <1>4, <2>1 DEF RangesOverlap
    <3>2. LifetimesOverlap(x[1], y[1])
      BY <1>3, <1>4 DEF LifetimesOverlap, LiveAt
    <3>3. QED
      BY <1>4, <2>3, <3>1, <3>2 DEF IInv, NoLiveOverlap
  <2>4. QED
    BY <2>2, <2>3
<1>7. f \in Injection(S, T)
  <2>1. f \in [S -> T]
    BY <1>5
  <2> HIDE DEF S, T
  <2>2. QED
    BY <1>6, <2>1, Fun_IsInj
<1>8. IsFiniteSet(T) /\ Cardinality(T) = arena_end
  <2>1. IsFiniteSet(T) /\ Cardinality(T) =
          IF 0 > arena_end - 1 THEN 0 ELSE (arena_end - 1) - 0 + 1
    BY <1>1, FS_Interval
  <2>2. QED
    BY <1>1, <2>1
<1> HIDE DEF S, T, f
<1>9. Cardinality(S) <= Cardinality(T)
  BY <1>7, <1>8, FS_Injection
<1>10. QED
  BY <1>8, <1>9 DEF S

\* A step that moves nothing in the arena keeps what is said of it.
LEMMA FrameChecks ==
  ASSUME SelfCheckInv, UNCHANGED << request, tensors, arena >>,
         phase' = "allocate" => naive' = NaiveTotal,
         MeasuredInv', ErrorInv'
  PROVE  SelfCheckInv'
<1>1. AlignedInv'
  BY DEF SelfCheckInv, AlignedInv, AlignedBlocks, Multiple, End, arena
<1>2. ArenaValues' = ArenaValues
  BY DEF ArenaValues, External
<1>3. \A S : Bytes(S)' = Bytes(S)
  BY DEF Bytes
<1>4. NaiveTotal' = NaiveTotal
  BY <1>2 DEF NaiveTotal, Bytes
<1>5. Cardinality(Bytes(DOMAIN offset))' = Cardinality(Bytes(DOMAIN offset))
  BY DEF Bytes, arena
<1>6. TotalsInv'
  BY <1>4, <1>5 DEF SelfCheckInv, TotalsInv, arena
<1>7. QED
  BY <1>1, <1>6 DEF SelfCheckInv

\* A refusal that is no failed check of the planner's own work.
LEMMA RefusalChecks ==
  ASSUME SelfCheckInv, NEW reason, Reject(reason),
         reason \notin {"arena_overflow", "arena_exceeds_naive", "verification"}
  PROVE  SelfCheckInv'
<1>1. UNCHANGED << request, tensors, arena >> /\ phase' = "rejected"
  BY DEF Reject
<1>2. ErrorInv' /\ MeasuredInv'
  BY <1>1 DEF Reject, ErrorInv, SelfChecksPass, MeasuredInv
<1>3. QED
  BY <1>1, <1>2, FrameChecks

LEMMA PlanMemoryChecks ==
  ASSUME IInv, SelfCheckInv, NEW r, IsRequest(r), PlanMemory(r)
  PROVE  SelfCheckInv'
<1>1. /\ phase = "idle" /\ error = "none" /\ DOMAIN tensors = {} /\ DOMAIN offset = {}
      /\ free = {} /\ arena_end = 0
  BY DEF PlanMemory, IInv, PhaseInv, NoValues, SelfCheckInv, ErrorInv
<1>2. /\ UNCHANGED << tensors, arena_end, free, offset >>
      /\ phase' \in {"lifetimes", "rejected"}
      /\ error' = IF phase' = "lifetimes" THEN "none" ELSE "invalid_options"
  BY <1>1 DEF PlanMemory, arena
<1>3. r.alignment \in Nat /\ request' = r
  BY MaxU64Assumption DEF PlanMemory, IsRequest
<1>4. AlignedInv'
  <2>1. 0 = 0 * r.alignment
    BY <1>3
  <2>2. QED
    BY <1>1, <1>2, <1>3, <2>1 DEF AlignedInv, AlignedBlocks, Multiple
<1>5. TotalsInv'
  <2>1. Bytes(DOMAIN offset)' = {}
    BY <1>1, <1>2 DEF Bytes
  <2>2. Cardinality({}) = 0
    BY FS_EmptySet
  <2>3. QED
    BY <1>1, <1>2, <2>1, <2>2 DEF TotalsInv
<1>6. MeasuredInv' /\ ErrorInv'
  BY <1>2 DEF MeasuredInv, ErrorInv, SelfChecksPass
<1>7. QED
  BY <1>4, <1>5, <1>6 DEF SelfCheckInv

LEMMA BuildLifetimesChecks ==
  ASSUME IInv, SelfCheckInv, BuildLifetimes
  PROVE  SelfCheckInv'
<1>1. /\ request.alignment # 0 /\ DOMAIN offset = {} /\ free = {} /\ arena_end = 0
  BY DEF BuildLifetimes, IInv, PhaseInv, NoValues
<1>2. /\ phase = "lifetimes" /\ phase' = "naive" /\ error' = error
      /\ tensors' = [ v \in DOMAIN request.values |->
                        Lifetime(request.values[v], request) ]
      /\ UNCHANGED << request, offset, free, arena_end >>
  BY DEF BuildLifetimes, arena
<1>3. AlignedInv'
  <2>1. request.alignment \in Nat \ {0} /\ 0 = 0 * request.alignment
    BY <1>1, MaxU64Assumption DEF IInv, IsRequest
  <2>2. \A v \in DOMAIN request.values : request.values[v].bytes \in Nat
    BY MaxU64Assumption DEF IInv, IsRequest
  <2>3. \A v \in DOMAIN tensors' :
          tensors'[v].size = AlignUp(request.values[v].bytes, request.alignment)
    BY <1>2 DEF Lifetime
  <2>4. \A v \in DOMAIN tensors' : Multiple(tensors'[v].size, request.alignment)
    BY <1>2, <2>1, <2>2, <2>3, AlignUpIsMultiple
  <2>5. Multiple(0, request.alignment)
    BY <2>1 DEF Multiple
  <2>6. QED
    BY <1>1, <1>2, <2>4, <2>5 DEF AlignedInv, AlignedBlocks
<1>4. TotalsInv'
  <2>1. (Bytes(DOMAIN offset))' = {}
    BY <1>1, <1>2 DEF Bytes
  <2>2. Cardinality((Bytes(DOMAIN offset))') = 0
    BY <2>1, FS_EmptySet, Zenon
  <2>3. (arena_end <= Cardinality(Bytes(DOMAIN offset)))'
    BY <1>1, <1>2, <2>2
  <2>4. \A v \in DOMAIN tensors' : tensors'[v] = Lifetime(request'.values[v], request')
    BY <1>2
  <2>5. QED
    BY <1>2, <2>3, <2>4 DEF TotalsInv
<1>5. MeasuredInv' /\ ErrorInv'
  BY <1>2 DEF MeasuredInv, ErrorInv, SelfCheckInv, SelfChecksPass
<1>6. QED
  BY <1>3, <1>4, <1>5 DEF SelfCheckInv

LEMMA SumNaiveChecks ==
  ASSUME IInv, SelfCheckInv, SumNaive
  PROVE  SelfCheckInv'
<1>1. CASE NaiveTotal > MaxU64
  BY <1>1, RefusalChecks DEF SumNaive
<1>2. CASE ~(NaiveTotal > MaxU64)
  <2>1. /\ phase = "naive" /\ phase' = "allocate" /\ naive' = NaiveTotal
        /\ UNCHANGED << request, tensors, arena, error >>
    BY <1>2 DEF SumNaive
  <2>2. MeasuredInv' /\ ErrorInv'
    BY <2>1 DEF MeasuredInv, ErrorInv, SelfCheckInv, SelfChecksPass
  <2>3. QED
    BY <2>1, <2>2, FrameChecks
<1>3. QED
  BY <1>1, <1>2

\* After release_expired the free list is still aligned.
LEMMA ReleaseAligned ==
  ASSUME IInv, SelfCheckInv, NEW index \in Nat
  PROVE  AlignedBlocks(FreeAfterRelease(index))
<1> DEFINE released == { Block(offset[a], offset[a] + tensors[a].size) :
                           a \in Expired(index) }
           all == free \cup released
<1>1. \A a \in Expired(index) :
        /\ offset[a] \in Nat /\ tensors[a].size \in Nat
        /\ Multiple(offset[a], request.alignment)
        /\ Multiple(tensors[a].size, request.alignment)
  BY DEF Expired, IInv, BoundsInv, LifetimesInv, TensorLifetimes, ArenaValues,
         SelfCheckInv, AlignedInv
<1>2. request.alignment \in Nat
  BY MaxU64Assumption DEF IInv, IsRequest
<1>3. \A a \in Expired(index) : Multiple(offset[a] + tensors[a].size, request.alignment)
  BY <1>1, <1>2, MultipleSum
<1>4. \A b \in released : \E a \in Expired(index) :
        b.offset = offset[a] /\ End(b) = offset[a] + tensors[a].size
  BY <1>1 DEF Block, End
<1>5. AlignedBlocks(all)
  <2> HIDE DEF released
  <2>1. AlignedBlocks(released)
    BY <1>1, <1>3, <1>4 DEF AlignedBlocks
  <2>2. QED
    BY <2>1 DEF AlignedBlocks, SelfCheckInv, AlignedInv
<1>6. \A x \in Starts(all) \cup Ends(all) : Multiple(x, request.alignment)
  BY <1>5 DEF Starts, Ends, AlignedBlocks
<1>7. all \in SUBSET Blocks
  <2>1. \A a \in Expired(index) : tensors[a].size \in Nat \ {0}
    BY DEF Expired, IInv, BoundsInv, LifetimesInv, TensorLifetimes, ArenaValues
  <2>2. QED
    BY <1>1, <2>1 DEF IInv, BoundsInv, Blocks, Block
<1> HIDE DEF all
<1>8. \A c \in Coalesce(all) : \E s \in Starts(all), e \in Ends(all) :
        c = Block(s, e) /\ s \in Nat /\ e \in Nat
  BY <1>7 DEF Coalesce, Starts, Ends, End, Blocks
<1>9. AlignedBlocks(Coalesce(all))
  BY <1>6, <1>8 DEF AlignedBlocks, Block, End
<1>10. QED
  BY <1>9 DEF FreeAfterRelease, all

\* Placing v keeps the checks if what is given out and what is left is aligned
\* and the arena grows by v at most.
LEMMA PlaceChecks ==
  ASSUME IInv, SelfCheckInv, phase = "allocate", NEW v, v \in Pending,
         NEW at, NEW blocks, NEW end, Place(v, at, blocks, end),
         Multiple(at, request.alignment), AlignedBlocks(blocks),
         Multiple(end, request.alignment),
         end \in {arena_end, arena_end + tensors[v].size}
  PROVE  SelfCheckInv'
<1>1. v \in ArenaValues /\ v \notin DOMAIN offset /\ DOMAIN offset \in SUBSET ArenaValues
  BY DEF Pending, IInv, BoundsInv
<1>2. /\ UNCHANGED << phase, request, tensors, naive, peak, error >>
      /\ DOMAIN offset' = DOMAIN offset \cup {v}
      /\ offset'[v] = at
      /\ \A w \in DOMAIN offset : offset'[w] = offset[w]
      /\ free' = blocks
      /\ arena_end' = end
  BY <1>1 DEF Place
<1>3. AlignedInv'
  BY <1>2 DEF SelfCheckInv, AlignedInv, AlignedBlocks
<1>4. TotalsInv'
  <2>1. Cardinality(Bytes(DOMAIN offset \cup {v})) =
          Cardinality(Bytes(DOMAIN offset)) + tensors[v].size
    BY <1>1, BytesOfOneMore
  <2>2. /\ Cardinality(Bytes(DOMAIN offset)) \in Nat
        /\ tensors[v].size \in Nat /\ arena_end \in Nat
        /\ arena_end <= Cardinality(Bytes(DOMAIN offset))
    <3>1. Cardinality(Bytes(DOMAIN offset)) \in Nat
      BY <1>1, BytesAreFinite
    <3>2. tensors[v].size \in Nat /\ arena_end \in Nat
      BY <1>1, MaxU64Assumption
         DEF IInv, BoundsInv, LifetimesInv, TensorLifetimes, ArenaValues
    <3>3. QED
      BY <3>1, <3>2 DEF SelfCheckInv, TotalsInv
  <2>3. end <= Cardinality(Bytes(DOMAIN offset \cup {v}))
    BY <2>1, <2>2
  <2>4. Cardinality(Bytes(DOMAIN offset))' = Cardinality(Bytes(DOMAIN offset \cup {v}))
    BY <1>2 DEF Bytes
  <2>5. NaiveTotal' = NaiveTotal
    BY <1>2 DEF NaiveTotal, Bytes, ArenaValues, External
  <2>6. QED
    BY <1>2, <2>3, <2>4, <2>5 DEF SelfCheckInv, TotalsInv
<1>5. MeasuredInv' /\ ErrorInv'
  BY <1>2 DEF MeasuredInv, ErrorInv, SelfChecksPass, SelfCheckInv
<1>6. QED
  BY <1>3, <1>4, <1>5 DEF SelfCheckInv

\* The checked addition of an iteration that grows the arena does not overflow.
LEMMA GrowChecks ==
  ASSUME IInv, SelfCheckInv, phase = "allocate", NEW v, IsNext(v),
         Grow(v, FreeAfterRelease(tensors[v].definition_index))
  PROVE  SelfCheckInv'
<1> DEFINE index == tensors[v].definition_index
           blocks == FreeAfterRelease(index)
           size == tensors[v].size
           placed == DOMAIN offset
<1>1. /\ v \in ArenaValues /\ v \notin placed /\ placed \in SUBSET ArenaValues
      /\ v \in Pending
  BY DEF IsNext, Pending, IInv, BoundsInv
<1>2. index \in Nat /\ size \in Nat /\ arena_end \in Nat /\ request.alignment \in Nat
  BY <1>1, MaxU64Assumption
     DEF IInv, IsRequest, BoundsInv, LifetimesInv, TensorLifetimes, ArenaValues
<1>3. arena_end + size <= MaxU64
  <2>1. Cardinality(Bytes(placed \cup {v})) = Cardinality(Bytes(placed)) + size
    BY <1>1, BytesOfOneMore
  <2>2. /\ Cardinality(Bytes(placed)) \in Nat
        /\ Cardinality(Bytes(placed \cup {v})) <= Cardinality(Bytes(ArenaValues))
        /\ Cardinality(Bytes(ArenaValues)) \in Nat
    <3>1. placed \cup {v} \in SUBSET ArenaValues
      BY <1>1
    <3>2. QED
      BY <1>1, <3>1, BytesAreFinite
  <2>3. naive = Cardinality(Bytes(ArenaValues)) /\ naive <= MaxU64
    BY MaxU64Assumption DEF SelfCheckInv, TotalsInv, NaiveTotal, IInv, NumbersInv
  <2>4. arena_end <= Cardinality(Bytes(placed))
    BY DEF SelfCheckInv, TotalsInv
  <2> HIDE DEF placed
  <2>5. QED
    BY <1>2, <2>1, <2>2, <2>3, <2>4, MaxU64Assumption
<1>4. Place(v, arena_end, blocks, arena_end + size)
  BY <1>2, <1>3, MaxU64Assumption DEF Grow
<1>5. AlignedBlocks(blocks)
  BY <1>2, ReleaseAligned
<1>6. Multiple(arena_end, request.alignment) /\ Multiple(size, request.alignment)
  BY <1>1 DEF SelfCheckInv, AlignedInv, ArenaValues
<1>7. Multiple(arena_end + size, request.alignment)
  <2>1. arena_end \in Int /\ size \in Int
    BY <1>2
  <2>2. QED
    BY <1>2, <1>6, <2>1, MultipleSum, Zenon
<1> HIDE DEF blocks
<1>8. QED
  BY <1>1, <1>4, <1>5, <1>6, <1>7, PlaceChecks

\* Reuse takes an aligned part of an aligned block.
LEMMA ReuseChecks ==
  ASSUME IInv, SelfCheckInv, NEW v, ReuseBlock(v)
  PROVE  SelfCheckInv'
<1> DEFINE index == tensors[v].definition_index
           blocks == FreeAfterRelease(index)
           size == tensors[v].size
<1>1. v \in Pending /\ v \in ArenaValues /\ phase = "allocate"
  BY DEF ReuseBlock, IsNext, Pending
<1>2. index \in Nat /\ size \in Nat /\ request.alignment \in Nat
  BY <1>1, MaxU64Assumption DEF IInv, IsRequest, LifetimesInv, TensorLifetimes, ArenaValues
<1>3. PICK b \in BestFit(blocks, size) : Place(v, b.offset, Take(blocks, b, size), arena_end)
  BY DEF ReuseBlock
<1>4. AlignedBlocks(blocks) /\ blocks \in SUBSET Blocks
  BY <1>2, ReleaseAligned, ReleaseFacts
<1> HIDE DEF blocks
<1>5. b \in blocks /\ b.offset \in Nat /\ b.size \in Nat
  BY <1>3, <1>4 DEF BestFit, Blocks
<1>6. Multiple(b.offset, request.alignment) /\ Multiple(size, request.alignment)
  BY <1>1, <1>4, <1>5 DEF AlignedBlocks, SelfCheckInv, AlignedInv, ArenaValues
<1>7. Multiple(b.offset + size, request.alignment)
  <2>1. b.offset \in Int /\ size \in Int
    BY <1>2, <1>5
  <2>2. QED
    BY <1>2, <1>6, <2>1, MultipleSum, Zenon
<1>8. AlignedBlocks(Take(blocks, b, size))
  <2> DEFINE rest == Block(b.offset + size, End(b))
  <2>1. rest.offset = b.offset + size /\ End(rest) = End(b)
    BY <1>2, <1>5 DEF Block, End
  <2>2. \A c \in Take(blocks, b, size) : c \in blocks \/ c = rest
    BY DEF Take
  <2> HIDE DEF rest
  <2>3. QED
    BY <1>4, <1>5, <1>7, <2>1, <2>2 DEF AlignedBlocks
<1>9. Multiple(arena_end, request.alignment)
  BY DEF SelfCheckInv, AlignedInv
<1>10. QED
  BY <1>1, <1>3, <1>6, <1>8, <1>9, PlaceChecks

\* The comparison of the arena with the naive total passes, and the live bytes of
\* no operation exceed the arena.
LEMMA MeasurePeakChecks ==
  ASSUME IInv, SelfCheckInv, MeasurePeak
  PROVE  SelfCheckInv'
<1> DEFINE live == { Cardinality(Bytes(LiveAt(i))) : i \in 0 .. request.boundary }
<1>1. phase = "allocate" /\ Pending = {}
  BY DEF MeasurePeak
<1>2. arena_end \in Nat /\ request.boundary \in Nat
  BY MaxU64Assumption DEF IInv, BoundsInv, IsRequest
<1>3. arena_end <= naive /\ naive \in Nat
  <2>1. DOMAIN offset \in SUBSET ArenaValues
    BY DEF IInv, BoundsInv
  <2>2. /\ Cardinality(Bytes(DOMAIN offset)) \in Nat
        /\ Cardinality(Bytes(DOMAIN offset)) <= Cardinality(Bytes(ArenaValues))
        /\ Cardinality(Bytes(ArenaValues)) \in Nat
    BY <2>1, BytesAreFinite
  <2>3. naive = Cardinality(Bytes(ArenaValues)) /\ arena_end <= Cardinality(Bytes(DOMAIN offset))
    BY <1>1 DEF SelfCheckInv, TotalsInv, NaiveTotal
  <2>4. QED
    BY <1>2, <2>2, <2>3
<1>4. /\ phase' = "verify" /\ peak' = Maximum(live)
      /\ UNCHANGED << request, tensors, naive, arena, error >>
  BY <1>2, <1>3 DEF MeasurePeak
<1>5. Maximum(live) <= arena_end
  <2>1. \A i \in 0 .. request.boundary :
          /\ Cardinality(Bytes(LiveAt(i))) <= arena_end
          /\ Cardinality(Bytes(LiveAt(i))) \in Nat
    <3> SUFFICES ASSUME NEW i \in 0 .. request.boundary
                 PROVE  /\ Cardinality(Bytes(LiveAt(i))) <= arena_end
                        /\ Cardinality(Bytes(LiveAt(i))) \in Nat
      OBVIOUS
    <3>1. i \in Nat /\ LiveAt(i) \in SUBSET ArenaValues
      BY DEF LiveAt
    <3>2. Cardinality(Bytes(LiveAt(i))) <= arena_end
      BY <1>1, <3>1, LiveFits
    <3>3. Cardinality(Bytes(LiveAt(i))) \in Nat
      BY <3>1, BytesAreFinite
    <3>4. QED
      BY <3>2, <3>3
  <2>2. live \in SUBSET (0 .. arena_end)
    BY <1>2, <2>1
  <2>3. live # {}
    <3>1. 0 \in 0 .. request.boundary
      BY <1>2
    <3>2. QED
      BY <3>1
  <2> HIDE DEF live
  <2>4. Maximum(live) \in 0 .. arena_end
    BY <1>2, <2>2, <2>3, MaximumIsGreatest
  <2>5. QED
    BY <1>2, <2>4
<1> HIDE DEF live
<1>6. MeasuredInv'
  <2>1. Pending' = Pending
    BY <1>4 DEF Pending, ArenaValues, External, arena
  <2>2. QED
    BY <1>1, <1>3, <1>4, <1>5, <2>1 DEF MeasuredInv, arena
<1>7. ErrorInv'
  BY <1>1, <1>4 DEF ErrorInv, SelfCheckInv, SelfChecksPass
<1>8. QED
  BY <1>4, <1>6, <1>7, FrameChecks

\* verify_memory_plan passes what plan_memory has built, unless the graph lists an
\* external value among its outputs.
LEMMA PlanIsSound ==
  ASSUME IInv, SelfCheckInv, phase = "verify",
         \A v \in DOMAIN request.values :
           ~ /\ request.values[v].declared
             /\ request.values[v].kind \in {"input", "parameter", "constant"}
  PROVE  PlanVerifies
<1>1. /\ DOMAIN tensors = DOMAIN request.values
      /\ Pending = {} /\ peak <= arena_end /\ arena_end <= naive
      /\ request.alignment \in Nat \ {0}
  BY MaxU64Assumption
     DEF IInv, PhaseInv, LifetimesInv, SelfCheckInv, MeasuredInv, IsRequest
<1>2. ASSUME NEW v \in DOMAIN tensors
      PROVE  LET kind == request.values[v].kind
             IN  /\ kind \in {"input", "parameter", "constant"} => External(v)
                 /\ kind = "output" =>
                      Retained(v) /\ tensors[v].final_use_index = request.boundary
                 /\ ~External(v) =>
                      /\ v \in DOMAIN offset
                      /\ offset[v] % request.alignment = 0
                      /\ offset[v] + tensors[v].size <= arena_end
  <2> DEFINE value == request.values[v]
  <2>1. /\ tensors[v].storage_class = StorageClass(value)
        /\ tensors[v].final_use_index = FinalUse(value, request.boundary)
    BY DEF SelfCheckInv, TotalsInv, Lifetime
  <2>2. ~(value.declared /\ value.kind \in {"input", "parameter", "constant"})
    BY <1>1
  <2> HIDE DEF value
  <2>3. CASE value.kind \in {"input", "parameter", "constant"}
    <3>1. ~DeclaredOutput(value)
      BY <2>2, <2>3 DEF DeclaredOutput
    <3>2. StorageClass(value) \in {"external_input", "external_immutable"}
      <4>1. CASE value.kind = "input"
        BY <3>1, <4>1 DEF StorageClass
      <4>2. CASE value.kind \in {"parameter", "constant"}
        BY <3>1, <4>2 DEF StorageClass
      <4>3. QED
        BY <2>3, <4>1, <4>2
    <3>3. External(v)
      BY <2>1, <3>2 DEF External
    <3>4. QED
      BY <2>3, <3>3 DEF value
  <2>4. CASE value.kind \notin {"input", "parameter", "constant"}
    <3>1. value.kind = "output" =>
            Retained(v) /\ tensors[v].final_use_index = request.boundary
      <4> SUFFICES ASSUME value.kind = "output"
                   PROVE  Retained(v) /\ tensors[v].final_use_index = request.boundary
        OBVIOUS
      <4>1. DeclaredOutput(value)
        BY DEF DeclaredOutput
      <4>2. StorageClass(value) = "arena_output"
            /\ FinalUse(value, request.boundary) = request.boundary
        BY <4>1 DEF StorageClass, FinalUse
      <4>3. QED
        BY <2>1, <4>2 DEF Retained
    <3>2. ASSUME ~External(v)
          PROVE  /\ v \in DOMAIN offset
                 /\ offset[v] % request.alignment = 0
                 /\ offset[v] + tensors[v].size <= arena_end
      <4>1. v \in DOMAIN offset
        BY <1>1, <3>2 DEF Pending, ArenaValues
      <4>2. offset[v] \in Nat /\ offset[v] + tensors[v].size <= arena_end
        BY <4>1 DEF IInv, BoundsInv, PlacedInArena
      <4>3. Multiple(offset[v], request.alignment)
        BY <4>1 DEF SelfCheckInv, AlignedInv
      <4>4. offset[v] % request.alignment = 0
        BY <1>1, <4>2, <4>3, MultipleMod
      <4>5. QED
        BY <4>1, <4>2, <4>4
    <3>3. QED
      BY <2>4, <3>1, <3>2 DEF value
  <2>5. QED
    BY <2>3, <2>4
<1>3. \A v, w \in DOMAIN offset :
        v # w /\ RangesOverlap(v, w) =>
          ~LifetimesOverlap(v, w) /\ ~Retained(v) /\ ~Retained(w)
  BY DEF IInv, NoLiveOverlap
<1>4. QED
  BY <1>1, <1>2, <1>3 DEF PlanVerifies

LEMMA VerifyPlanChecks ==
  ASSUME IInv, SelfCheckInv, VerifyPlan
  PROVE  SelfCheckInv'
<1>1. phase = "verify" /\ error = "none" /\ UNCHANGED << request, tensors, arena >>
      /\ phase' \in {"planned", "rejected"}
  BY DEF VerifyPlan, Reject, SelfCheckInv, ErrorInv
<1>2. ErrorInv'
  <2>1. CASE PlanVerifies
    BY <1>1, <2>1 DEF VerifyPlan, ErrorInv, SelfChecksPass
  <2>2. CASE ~PlanVerifies
    <3>1. phase' = "rejected" /\ error' = "verification" /\ request' = request
      BY <1>1, <2>2 DEF VerifyPlan, Reject
    <3>2. \E v \in DOMAIN request.values :
            /\ request.values[v].declared
            /\ request.values[v].kind \in {"input", "parameter", "constant"}
      BY <1>1, <2>2, PlanIsSound
    <3>3. QED
      BY <3>1, <3>2 DEF ErrorInv, SelfChecksPass
  <2>3. QED
    BY <2>1, <2>2
<1>3. MeasuredInv' /\ phase' # "allocate"
  BY <1>1 DEF MeasuredInv
<1>4. QED
  BY <1>1, <1>2, <1>3, FrameChecks

LEMMA NextChecks == IInv /\ SelfCheckInv /\ [Next]_vars => SelfCheckInv'
<1> SUFFICES ASSUME IInv, SelfCheckInv, [Next]_vars
             PROVE  SelfCheckInv'
  OBVIOUS
<1>1. CASE phase = "idle" /\ \E r \in Requests : PlanMemory(r)
  BY <1>1, PlanMemoryChecks, RequestsAssumption
<1>2. CASE \E v \in DOMAIN request.values, reason \in RefusalReasons : RefuseValue(v, reason)
  BY <1>2, RefusalChecks DEF RefuseValue, RefusalReasons
<1>3. CASE BuildLifetimes
  BY <1>3, BuildLifetimesChecks
<1>4. CASE SumNaive
  BY <1>4, SumNaiveChecks
<1>5. CASE Allocate
  BY <1>5, GrowChecks, ReuseChecks DEF Allocate, AppendProtected, AppendReusable
<1>6. CASE MeasurePeak
  BY <1>6, MeasurePeakChecks
<1>7. CASE VerifyPlan
  BY <1>7, VerifyPlanChecks
<1>8. CASE UNCHANGED vars
  <2>1. /\ UNCHANGED << request, tensors, arena >>
        /\ UNCHANGED << phase, naive, peak, error >>
    BY <1>8 DEF vars, arena
  <2>2. Pending' = Pending
    BY <2>1 DEF Pending, ArenaValues, External, arena
  <2>3. MeasuredInv' /\ ErrorInv'
    BY <2>1, <2>2 DEF SelfCheckInv, MeasuredInv, ErrorInv, SelfChecksPass, arena
  <2>4. QED
    BY <2>1, <2>3, FrameChecks DEF SelfCheckInv, TotalsInv
<1>9. QED
  BY <1>1, <1>2, <1>3, <1>4, <1>5, <1>6, <1>7, <1>8 DEF Next

LEMMA InitChecks == Init => SelfCheckInv
<1> SUFFICES ASSUME Init
             PROVE  SelfCheckInv
  OBVIOUS
<1>1. /\ DOMAIN tensors = {} /\ DOMAIN offset = {} /\ free = {} /\ arena_end = 0
      /\ phase = "idle" /\ error = "none" /\ request.alignment = 0
  BY DEF Init, NoValues
<1>2. AlignedInv
  <2>1. Multiple(0, 0)
    BY DEF Multiple
  <2>2. QED
    BY <1>1, <2>1 DEF AlignedInv, AlignedBlocks
<1>3. TotalsInv
  <2>1. Bytes(DOMAIN offset) = {}
    BY <1>1 DEF Bytes
  <2>2. Cardinality(Bytes(DOMAIN offset)) = 0
    BY <2>1, FS_EmptySet, Zenon
  <2>3. QED
    BY <1>1, <2>2 DEF TotalsInv
<1>4. MeasuredInv /\ ErrorInv
  BY <1>1 DEF MeasuredInv, ErrorInv, SelfChecksPass
<1>5. QED
  BY <1>2, <1>3, <1>4 DEF SelfCheckInv

\* What the planner checks of its own work holds all along.
THEOREM SelfCheckInvariance == Spec => []SelfCheckInv
<1>1. QED
  BY InitChecks, NextChecks, Invariance, PTL DEF Spec

\* Whatever graph is planned, once the naive total fits in a uint64_t neither the
\* checked additions of the loop nor verify_memory_plan refuse what plan_memory
\* has built, unless the graph lists an external value among its outputs.
THEOREM SelfChecksPassHolds == Spec => []SelfChecksPass
<1>1. SelfCheckInv => SelfChecksPass
  BY DEF SelfCheckInv, ErrorInv
<1>2. QED
  BY <1>1, SelfCheckInvariance, PTL
============================================================================
