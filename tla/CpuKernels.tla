----------------------------- MODULE CpuKernels -----------------------------
(***************************************************************************)
(* The CPU backend, cpp/src/runtime/cpu_backend.cpp: CpuBackend::execute   *)
(* and the kernels it calls, down to which stored elements each stored     *)
(* element of the output is computed from, and in which order. What an     *)
(* operation means is TensorMeaning's; here are strides, offsets and tiles.*)
(*                                                                         *)
(* A request is an operation, the shapes of its operands and of its        *)
(* output, whether the views are contiguous, and the implementation of     *)
(* MatMul and Linear that the backend was made with.                       *)
(*                                                                         *)
(* The tiled product takes one step per tile; every other kernel runs in   *)
(* one step, as nothing looks at its output before it returns.             *)
(***************************************************************************)
EXTENDS TensorMeaning

CONSTANTS
  CpuRequests,  \* the requests that are made
  Tile,         \* kTile
  MaxU64,       \* the greatest uint64_t
  NotAnInteger  \* a JSON value that is none

ASSUME TileAssumption == Tile \in Nat \ {0}

\* OperationType.
OperationTypes ==
  {"input", "parameter", "constant", "mat_mul", "linear", "add", "multiply", "divide", "rms_norm",
   "gelu", "softmax", "reshape", "transpose", "causal_mask"}

\* The type of an operation, the shapes and the attributes have been read.
ASSUME CpuRequestsAssumption ==
  \A r \in CpuRequests :
    /\ r.op.type \in OperationTypes
    /\ r.in \in Seq(Seq(Nat)) /\ r.out \in Seq(Nat)
    /\ Has(r.op, "axis") => r.op.attributes["axis"] \in Int
    /\ Has(r.op, "permutation") => r.op.attributes["permutation"] \in Seq(Int)

VARIABLES
  cpu,      \* the request, with where it stands and its status
  at,       \* the origin of the tile: batch, row, column and inner
  product   \* the output tensor, by element

cpuVars == << cpu, at, product >>

----------------------------------------------------------------------------
(* Index arithmetic.                                                       *)

\* Dimensions are at least 1, so a prefix of the product overflows only if the
\* product does.
checked_tensor_element_count(shape) ==
  (\A k \in DOMAIN shape : shape[k] > 0) /\ Product(shape) <= MaxU64

row_major_strides(shape) ==
  LET stride[k \in DOMAIN shape] ==
        IF k = Len(shape) THEN 1 ELSE stride[k + 1] * shape[k + 1]
  IN  stride

\* What a loop over the axes adds up.
SumOf(terms) ==
  LET sum[n \in 0 .. Len(terms)] == IF n = 0 THEN 0 ELSE sum[n - 1] + terms[n]
  IN  sum[Len(terms)]

\* Mutated form of broadcast_input_index: a broadcast axis is not skipped.
InputIndexOfEveryAxis(index, outShape, inShape, inStrides) ==
  LET delta   == Len(outShape) - Len(inShape)
      strides == row_major_strides(outShape)
  IN  SumOf([ k \in DOMAIN inShape |->
                ((index \div strides[k + delta]) % outShape[k + delta]) * inStrides[k] ])

\* A broadcast axis of the input contributes nothing.
broadcast_input_index(index, outShape, inShape, inStrides) ==
  LET delta   == Len(outShape) - Len(inShape)
      strides == row_major_strides(outShape)
      Coordinate(k) == (index \div strides[k + delta]) % outShape[k + delta]
  IN  SumOf([ k \in DOMAIN inShape |->
                IF inShape[k] = 1 THEN 0 ELSE Coordinate(k) * inStrides[k] ])

\* The axes of the batch have the strides they have in the whole operand.
batch_base_offset(batch, outBatch, inShape) ==
  broadcast_input_index(batch, outBatch, Batch(inShape), row_major_strides(inShape))

\* The operands and the output have sizes. (Their addresses are the session's.)
validate_view(r) ==
  /\ checked_tensor_element_count(r.out)
  /\ \A k \in DOMAIN r.in : checked_tensor_element_count(r.in[k])

\* A kernel's loop over the stored elements of the output.
ForEachElement(r, Compute(_)) == [ index \in 0 .. Product(r.out) - 1 |-> Compute(index) ]

----------------------------------------------------------------------------
(* Add, Mul and Div.                                                       *)

BinaryAccepts(r) ==
  /\ Len(r.in) = 2
  /\ Broadcastable(r.in[1], r.in[2]) /\ r.out = Broadcast(r.in[1], r.in[2])

elementwise_binary(r) ==
  LET Read(operand, index) ==
        << operand, broadcast_input_index(index, r.out, r.in[operand],
                                          row_major_strides(r.in[operand])) >>
  IN  ForEachElement(r, LAMBDA index :
        Element(r.op.type, << Read(1, index), Read(2, index) >>))

----------------------------------------------------------------------------
(* MatMul and Linear: the loops, the same for both but for their extents   *)
(* and for where they read and write.                                      *)

MatMulAccepts(r) ==
  LET left  == r.in[1]
      right == r.in[2]
  IN  /\ Len(r.in) \in {2, 3}
      /\ Len(left) >= 2 /\ Len(right) >= 2 /\ Len(r.out) >= 2
      /\ LastOf(left) = right[Len(right) - 1]
      /\ r.out[Len(r.out) - 1] = left[Len(left) - 1] /\ LastOf(r.out) = LastOf(right)
      /\ Broadcastable(Batch(left), Batch(right))
      /\ Batch(r.out) = Broadcast(Batch(left), Batch(right))

MatMulExtents(r) ==
  [ batch |-> Product(Batch(r.out)), row |-> r.out[Len(r.out) - 1],
    column |-> LastOf(r.out), inner |-> LastOf(r.in[1]) ]

\* The rows of the input are those of the output: nothing compares them.
LinearAccepts(r) ==
  /\ Len(r.in) \in {2, 3}
  /\ r.in[1] # << >> /\ Len(r.in[2]) = 2 /\ r.out # << >>
  /\ r.in[2][2] = LastOf(r.in[1]) /\ LastOf(r.out) = r.in[2][1]

LinearExtents(r) ==
  [ batch |-> 1, row |-> Product(r.out) \div r.in[2][1],
    column |-> r.in[2][1], inner |-> LastOf(r.in[1]) ]

Extents(r) == IF r.op.type = "linear" THEN LinearExtents(r) ELSE MatMulExtents(r)

LeftAt(r, i) ==
  (IF r.op.type = "linear" THEN 0 ELSE batch_base_offset(i.batch, Batch(r.out), r.in[1]))
    + i.row * Extents(r).inner + i.inner

RightAt(r, i) ==
  IF r.op.type = "linear" THEN i.column * Extents(r).inner + i.inner
  ELSE batch_base_offset(i.batch, Batch(r.out), r.in[2]) + i.inner * Extents(r).column + i.column

OutAt(e, i) == i.batch * e.row * e.column + i.row * e.column + i.column

\* sum += left * right for inner in first .. last - 1, on top of reads.
Accumulate(r, reads, i, first, last) ==
  LET sum[n \in first .. last] ==
        IF n = first THEN reads
        ELSE LET before == sum[n - 1]
                 j      == [ i EXCEPT !.inner = n - 1 ]
             IN  before \o << << 1, LeftAt(r, j) >>, << 2, RightAt(r, j) >> >>
  IN  sum[last]

\* The direct loops, over every element: the one at index has these indices.
reference_matmul(r) ==
  LET e == Extents(r)
  IN  ForEachElement(r, LAMBDA index :
        LET i == [ batch |-> index \div (e.row * e.column), row |-> (index \div e.column) % e.row,
                   column |-> index % e.column, inner |-> 0 ]
        IN  Element("sum", Accumulate(r, << >>, i, 0, e.inner)))

Cleared(r) == ForEachElement(r, LAMBDA index : Element("sum", << >>))

FirstTile == [ batch |-> 0, row |-> 0, column |-> 0, inner |-> 0 ]

Least(a, b) == IF a < b THEN a ELSE b

\* What one turn of the tile loops adds: the reads of the tile's inner range,
\* to each element of the tile.
tiled_matmul(r, origin, output) ==
  LET e == Extents(r)
      Ends(axis) == Least(origin[axis] + Tile, e[axis]) - 1
      cells == { [ origin EXCEPT !.row = row, !.column = column ] :
                   row \in origin.row .. Ends("row"), column \in origin.column .. Ends("column") }
  IN  [ index \in DOMAIN output |->
          IF \E i \in cells : OutAt(e, i) = index
          THEN LET i == CHOOSE i \in cells : OutAt(e, i) = index
               IN  Element("sum", Accumulate(r, output[index].reads, i, origin.inner,
                                             Ends("inner") + 1))
          ELSE output[index] ]

\* The tile after origin, inner fastest and batch slowest.
NextTile(e, origin) ==
  IF origin.inner + Tile < e.inner THEN [ origin EXCEPT !.inner = @ + Tile ]
  ELSE IF origin.column + Tile < e.column
  THEN [ origin EXCEPT !.inner = 0, !.column = @ + Tile ]
  ELSE IF origin.row + Tile < e.row
  THEN [ origin EXCEPT !.inner = 0, !.column = 0, !.row = @ + Tile ]
  ELSE [ FirstTile EXCEPT !.batch = origin.batch + 1 ]

\* Bias and GELU, in place over a finished product.
FusedContract(r) ==
  Is(r.op, "fused_activation", "GELU") /\ Is(r.op, "fused_activation_approximate", "none")

apply_fused_bias_gelu(r, output) ==
  [ index \in DOMAIN output |->
      Element("gelu", output[index].reads \o << << 3, index % LastOf(r.out) >> >>) ]

----------------------------------------------------------------------------
(* The other kernels.                                                      *)

RMSNormAccepts(r) ==
  /\ Len(r.in) = 2 /\ r.in[1] # << >> /\ r.in[1] = r.out
  /\ r.in[2] = << LastOf(r.in[1]) >>
  /\ Has(r.op, "epsilon") /\ IsFinitePositiveFloat(r.op.attributes["epsilon"])

rms_norm(r) ==
  LET width == LastOf(r.out)
  IN  ForEachElement(r, LAMBDA index :
        LET row == index \div width
        IN  Element("rms_norm",
              [ n \in 1 .. width |-> << 1, row * width + n - 1 >> ]
                \o << << 1, index >>, << 2, index % width >> >>))

ExactGelu(op) == Has(op, "approximate") => op.attributes["approximate"] = "none"

gelu(r) == ForEachElement(r, LAMBDA index : Element("gelu", << << 1, index >> >>))

\* Mutated form of SoftmaxAxis: a negative axis does not count from the end.
AxisAsGiven(r) == r.op.attributes["axis"]

SoftmaxAxis(r) ==
  LET axis == r.op.attributes["axis"] IN IF axis < 0 THEN axis + Len(r.out) ELSE axis

SoftmaxAccepts(r) ==
  /\ Len(r.in) = 1 /\ r.in[1] = r.out /\ r.out # << >>
  /\ Has(r.op, "axis") /\ SoftmaxAxis(r) \in 0 .. Len(r.out) - 1

\* The line through an element starts at base and advances by inner.
softmax(r) ==
  LET axis  == SoftmaxAxis(r) + 1
      inner == Product(SubSeq(r.out, axis + 1, Len(r.out)))
      size  == r.out[axis]
  IN  ForEachElement(r, LAMBDA index :
        LET base == (index \div (size * inner)) * size * inner + (index % inner)
        IN  Element("softmax", [ n \in 1 .. size |-> << 1, base + (n - 1) * inner >> ]
                                 \o << << 1, index >> >>))

reshape(r) == ForEachElement(r, LAMBDA index : Element("copy", << << 1, index >> >>))

TransposeAccepts(r) ==
  /\ Len(r.in) = 1 /\ Len(r.in[1]) = Len(r.out)
  /\ Has(r.op, "permutation")
  /\ LET permutation == r.op.attributes["permutation"]
     IN  /\ Len(permutation) = Len(r.out)
         /\ Elements(permutation) = 0 .. Len(r.out) - 1
         /\ \A k \in DOMAIN r.out : r.out[k] = r.in[1][permutation[k] + 1]

transpose(r) ==
  LET permutation == r.op.attributes["permutation"]
      out == row_major_strides(r.out)
      in  == row_major_strides(r.in[1])
      Source(index) ==
        SumOf([ k \in DOMAIN r.out |->
                  ((index \div out[k]) % r.out[k]) * in[permutation[k] + 1] ])
  IN  ForEachElement(r, LAMBDA index : Element("copy", << << 1, Source(index) >> >>))

CausalMaskAccepts(r) ==
  /\ Len(r.in) = 1 /\ r.in[1] = r.out /\ Len(r.out) >= 2
  /\ r.out[Len(r.out) - 1] = LastOf(r.out)

DiagonalIsInteger(op) == op.type = "causal_mask" => ~Is(op, "diagonal", NotAnInteger)

Diagonal(op) == IF Has(op, "diagonal") THEN op.attributes["diagonal"] ELSE 0

\* (A diagonal so large that a row added to it leaves the int64_t is undefined in
\* the code and not modelled.)
causal_mask(r) ==
  LET query == r.out[Len(r.out) - 1]
      key   == LastOf(r.out)
  IN  ForEachElement(r, LAMBDA index :
        LET within == index % (query * key)
        IN  IF within % key > (within \div key) + Diagonal(r.op) THEN Element("-inf", << >>)
            ELSE Element("copy", << << 1, index >> >>))

----------------------------------------------------------------------------
(* CpuBackend::execute.                                                    *)

Products == {"mat_mul", "linear"}

Declarations == {"input", "parameter", "constant"}

\* What a kernel refuses as malformed: invalid_argument.
WellFormed(r) ==
  LET type == r.op.type
  IN  /\ validate_view(r)
      /\ type \notin Declarations
      /\ type = "mat_mul" => MatMulAccepts(r)
      /\ type = "linear"  => LinearAccepts(r)
      /\ type \in ElementwiseTypes => BinaryAccepts(r)
      /\ type = "rms_norm"  => RMSNormAccepts(r)
      /\ type = "gelu"      => Len(r.in) = 1 /\ r.in[1] = r.out
      /\ type = "softmax"   => SoftmaxAccepts(r)
      /\ type = "reshape"   => Len(r.in) = 1 /\ Product(r.in[1]) = Product(r.out)
      /\ type = "transpose" => TransposeAccepts(r)
      /\ type = "causal_mask" => CausalMaskAccepts(r)

\* What is refused as unsupported: a view at once, an attribute by the kernel.
Supported(r) ==
  /\ r.contiguous
  /\ r.op.type = "gelu" => ExactGelu(r.op)
  /\ r.op.type = "causal_mask" => Is(r.op, "masked_value", "-inf")

Kernel(r) ==
  CASE r.op.type \in Products         -> reference_matmul(r)
    [] r.op.type \in ElementwiseTypes -> elementwise_binary(r)
    [] r.op.type = "rms_norm"    -> rms_norm(r)
    [] r.op.type = "gelu"        -> gelu(r)
    [] r.op.type = "softmax"     -> softmax(r)
    [] r.op.type = "reshape"     -> reshape(r)
    [] r.op.type = "transpose"   -> transpose(r)
    [] r.op.type = "causal_mask" -> causal_mask(r)

Tiled(r) == r.op.type \in Products /\ r.tiled

Answer(status) == cpu' = [ cpu EXCEPT !.status = status ]

\* The arena holds what an earlier value left.
CpuInit ==
  /\ cpu = [ status |-> "idle" ]
  /\ at = FirstTile
  /\ product = << >>

CpuCall ==
  /\ cpu.status = "idle"
  /\ \E r \in CpuRequests :
       /\ cpu' = [ status |-> "called", request |-> r ]
       /\ product' = ForEachElement(r, LAMBDA index : Element("stale", << << 0, index >> >>))
  /\ UNCHANGED at

Accepted(r) == WellFormed(r) /\ Supported(r) /\ DiagonalIsInteger(r.op)

\* The diagonal comes last.
CpuRefuse ==
  /\ cpu.status = "called" /\ ~Accepted(cpu.request)
  /\ Answer(IF cpu.request.contiguous /\ ~WellFormed(cpu.request) THEN "invalid"
            ELSE IF ~Supported(cpu.request) THEN "unsupported" ELSE "invalid")
  /\ UNCHANGED << at, product >>

RunKernel ==
  /\ cpu.status = "called" /\ ~Tiled(cpu.request) /\ Accepted(cpu.request)
  /\ product' = Kernel(cpu.request)
  /\ Answer(IF cpu.request.op.type \in Products THEN "multiplied" ELSE "ok")
  /\ UNCHANGED at

StartTiles ==
  /\ cpu.status = "called" /\ Tiled(cpu.request) /\ Accepted(cpu.request)
  /\ product' = Cleared(cpu.request)
  /\ at' = FirstTile
  /\ Answer("tiling")

RunTile ==
  /\ cpu.status = "tiling"
  /\ product' = tiled_matmul(cpu.request, at, product)
  /\ at' = NextTile(Extents(cpu.request), at)
  /\ IF at'.batch < Extents(cpu.request).batch THEN UNCHANGED cpu ELSE Answer("multiplied")

\* The bias and the contract of a fused activation are looked at only once the
\* product has been written.
FinishProduct ==
  LET r == cpu.request
      bias == r.in[3]
  IN  /\ cpu.status = "multiplied"
      /\ \/ Len(r.in) = 2 /\ Answer("ok") /\ UNCHANGED product
         \/ /\ Len(r.in) = 3 /\ (Len(bias) # 1 \/ bias[1] # LastOf(r.out))
            /\ Answer("invalid") /\ UNCHANGED product
         \/ /\ Len(r.in) = 3 /\ bias = << LastOf(r.out) >> /\ ~FusedContract(r)
            /\ Answer("unsupported") /\ UNCHANGED product
         \/ /\ Len(r.in) = 3 /\ bias = << LastOf(r.out) >> /\ FusedContract(r)
            /\ product' = apply_fused_bias_gelu(r, product) /\ Answer("ok")
      /\ UNCHANGED at

CpuReturned == cpu.status \in {"ok", "invalid", "unsupported"}

CpuNext == CpuCall \/ CpuRefuse \/ RunKernel \/ StartTiles \/ RunTile \/ FinishProduct

----------------------------------------------------------------------------
(* Properties.                                                             *)

\* The request, as the graph of one operation that GraphVerifierPass sees.
GraphOf(r) ==
  [ ops |-> << [ type |-> r.op.type, attributes |-> r.op.attributes,
                 inputs |-> [ k \in DOMAIN r.in |-> k ], outputs |-> << Len(r.in) + 1 >> ] >>,
    values |-> [ v \in 1 .. Len(r.in) + 1 |->
                   [ shape |-> IF v > Len(r.in) THEN r.out ELSE r.in[v] ] ] ]

\* expected_input_count for what computes, and what the loader lets be fused.
InputCounts(type) ==
  CASE type \in Products -> {2, 3}
    [] type \in ElementwiseTypes \cup {"rms_norm"} -> {2}
    [] type \in {"gelu", "softmax", "reshape", "transpose", "causal_mask"} -> {1}

\* A session has loaded and verified the operation and planned memory for its values.
Verified(r) ==
  /\ r.contiguous /\ r.op.type \notin Declarations
  /\ Len(r.in) \in InputCounts(r.op.type)
  /\ ShapeAgrees(GraphOf(r), 1) /\ validate_view(r)

\* A verified operation that returns has computed what it means, each element
\* from the right elements of its operands; both products accumulate along the
\* contracting dimension in increasing order, with tiles that do not divide the
\* extents, over an arena that was not cleared.
ComputesTheOperation ==
  cpu.status = "ok" /\ Verified(cpu.request) =>
    IsMeaning(product, cpu.request.op, cpu.request.in, cpu.request.out)

\* Kernels and GraphVerifierPass check the same contracts apart from each other.
\* Of what the verifier has accepted a kernel refuses as malformed only what the
\* verifier never looked at: an epsilon that is no finite positive float, and a
\* diagonal that is no integer.
VerifiedIsNotMalformed ==
  cpu.status = "invalid" /\ Verified(cpu.request) =>
    LET op == cpu.request.op
    IN  \/ op.type = "rms_norm" /\ ~IsFinitePositiveFloat(op.attributes["epsilon"])
        \/ ~DiagonalIsInteger(op)
=============================================================================
