-------------------------- MODULE BackendsProofs --------------------------

(***************************************************************************)
(* Proofs about Backends, for any requests, any number of calls and of     *)
(* failures, and any limits of the device.                                 *)
(***************************************************************************)
EXTENDS Backends, SharedLemmas

(***************************************************************************)
(* The CPU backend: what GraphVerifierPass accepts and the kernels refuse. *)
(***************************************************************************)

\* The graph of a request has the operands and the result of the request.
LEMMA GraphOfFacts ==
  ASSUME NEW r \in CpuRequests
  PROVE  LET g == GraphOf(r)
             op == g.ops[1]
         IN  /\ op.type = r.op.type /\ op.attributes = r.op.attributes
             /\ [ k \in DOMAIN op.inputs |-> ShapeOf(g, op.inputs[k]) ] = r.in
             /\ ShapeOf(g, op.outputs[1]) = r.out
<1> DEFINE g == GraphOf(r)
           op == g.ops[1]
<1>1. Len(r.in) \in Nat /\ DOMAIN r.in = 1 .. Len(r.in) /\ r.in \in [ 1 .. Len(r.in) -> Seq(Nat) ]
  <2>1. r.in \in Seq(Seq(Nat))
    BY CpuRequestsAssumption
  <2>. QED BY <2>1, LenProperties
<1>2. op = [ type |-> r.op.type, attributes |-> r.op.attributes,
             inputs |-> [ k \in DOMAIN r.in |-> k ], outputs |-> << Len(r.in) + 1 >> ]
  BY DEF GraphOf
<1>3. \A v \in 1 .. Len(r.in) + 1 : ShapeOf(g, v) = IF v > Len(r.in) THEN r.out ELSE r.in[v]
  BY DEF GraphOf, ShapeOf
<1> HIDE DEF op, g
<1>4. DOMAIN op.inputs = DOMAIN r.in /\ \A k \in DOMAIN r.in : op.inputs[k] = k
  BY <1>2
<1>5. ASSUME NEW k \in DOMAIN r.in PROVE ShapeOf(g, op.inputs[k]) = r.in[k]
  <2>1. op.inputs[k] = k /\ k \in 1 .. Len(r.in) + 1 /\ ~(k > Len(r.in))
    BY <1>1, <1>4
  <2>. QED BY <1>3, <2>1
<1>6. [ k \in DOMAIN op.inputs |-> ShapeOf(g, op.inputs[k]) ] = [ k \in DOMAIN r.in |-> r.in[k] ]
  BY <1>4, <1>5
<1>7. r.in = [ k \in DOMAIN r.in |-> r.in[k] ]
  BY <1>1
<1>8. op.outputs[1] = Len(r.in) + 1 /\ op.type = r.op.type /\ op.attributes = r.op.attributes
  BY <1>2
<1>9. ShapeOf(g, op.outputs[1]) = r.out
  BY <1>1, <1>3, <1>8
<1>. QED BY <1>6, <1>7, <1>8, <1>9 DEF op, g

\* What the verifier has accepted, by type.
Agrees(op, in, out) ==
  /\ op.type = "mat_mul" => MatMulAgrees(op, in, out)
  /\ op.type = "linear"  => LinearAgrees(op, in, out)
  /\ op.type \in ElementwiseTypes =>
       Broadcastable(in[1], in[2]) /\ out = Broadcast(in[1], in[2])
  /\ op.type = "rms_norm" => RMSNormAgrees(op, in, out)
  /\ op.type \in {"gelu", "softmax", "causal_mask"} => out = in[1]
  /\ op.type = "softmax" => Has(op, "axis") /\ op.attributes["axis"] \in -Len(in[1]) .. Len(in[1]) - 1
  /\ op.type = "reshape" => ReshapeAgrees(op, in, out)
  /\ op.type = "transpose" => TransposeAgrees(op, in, out)
  /\ op.type = "causal_mask" => Len(in[1]) >= 2 /\ in[1][Len(in[1]) - 1] = LastOf(in[1])

\* What the verifier has asked of the attributes.
LEMMA VerifiedAgrees ==
  ASSUME NEW r \in CpuRequests, Verified(r)
  PROVE  Agrees(r.op, r.in, r.out)
<1> DEFINE g == GraphOf(r)
           op == g.ops[1]
<1>1. /\ op.type = r.op.type /\ op.attributes = r.op.attributes
      /\ [ k \in DOMAIN op.inputs |-> ShapeOf(g, op.inputs[k]) ] = r.in
      /\ ShapeOf(g, op.outputs[1]) = r.out
  BY GraphOfFacts
<1>2. ShapeAgrees(g, 1)
  BY DEF Verified
<1> HIDE DEF g
<1>3. Agrees(op, r.in, r.out)
  BY <1>1, <1>2 DEF ShapeAgrees, Agrees, ElementwiseTypes
<1> HIDE DEF op
<1>4. /\ MatMulAgrees(op, r.in, r.out) <=> MatMulAgrees(r.op, r.in, r.out)
      /\ LinearAgrees(op, r.in, r.out) <=> LinearAgrees(r.op, r.in, r.out)
  BY <1>1 DEF MatMulAgrees, LinearAgrees, Has, Is
<1>5. /\ RMSNormAgrees(op, r.in, r.out) <=> RMSNormAgrees(r.op, r.in, r.out)
      /\ ReshapeAgrees(op, r.in, r.out) <=> ReshapeAgrees(r.op, r.in, r.out)
      /\ TransposeAgrees(op, r.in, r.out) <=> TransposeAgrees(r.op, r.in, r.out)
  BY <1>1 DEF RMSNormAgrees, ReshapeAgrees, TransposeAgrees, Has, Is
<1>. QED
  BY <1>1, <1>3, <1>4, <1>5, Zenon DEF Agrees, Has

\* The operands and the result of a request are shapes.
LEMMA RequestFacts ==
  ASSUME NEW r \in CpuRequests
  PROVE  /\ r.out \in Seq(Nat) /\ Len(r.out) \in Nat
         /\ Len(r.in) \in Nat
         /\ \A k \in 1 .. Len(r.in) : r.in[k] \in Seq(Nat) /\ Len(r.in[k]) \in Nat
<1>1. r.in \in Seq(Seq(Nat)) /\ r.out \in Seq(Nat)
  BY CpuRequestsAssumption
<1>2. Len(r.in) \in Nat /\ r.in \in [ 1 .. Len(r.in) -> Seq(Nat) ] /\ Len(r.out) \in Nat
  BY <1>1, LenProperties
<1>3. \A k \in 1 .. Len(r.in) : r.in[k] \in Seq(Nat)
  BY <1>2
<1>4. \A s \in Seq(Nat) : Len(s) \in Nat
  BY LenProperties
<1>. QED BY <1>1, <1>2, <1>3, <1>4

\* A verified operation has as many operands as its kernel reads.
LEMMA VerifiedCounts ==
  ASSUME NEW r, Verified(r)
  PROVE  /\ r.op.type \in Products => Len(r.in) \in {2, 3}
         /\ r.op.type \in ElementwiseTypes \cup {"rms_norm"} => Len(r.in) = 2
         /\ r.op.type \in {"gelu", "softmax", "reshape", "transpose", "causal_mask"} => Len(r.in) = 1
BY DEF Verified, InputCounts, Products, ElementwiseTypes

\* The broadcast shape is one.
LEMMA BroadcastIsShape ==
  ASSUME NEW left \in Seq(Nat), NEW right \in Seq(Nat)
  PROVE  Broadcast(left, right) \in Seq(Nat) /\ Len(Broadcast(left, right)) = Rank(left, right)
<1> DEFINE n == Rank(left, right)
           D(s, k) == DimensionFromEnd(s, n - k)
<1>1. /\ Len(left) \in Nat /\ left \in [ 1 .. Len(left) -> Nat ]
      /\ Len(right) \in Nat /\ right \in [ 1 .. Len(right) -> Nat ]
  BY LenProperties
<1>2. n \in Nat /\ (n = Len(left) \/ n = Len(right))
  BY <1>1 DEF Rank
<1> HIDE DEF n
<1>3. ASSUME NEW k \in 1 .. n, NEW s \in Seq(Nat) PROVE D(s, k) \in Nat
  <2>1. Len(s) \in Nat /\ s \in [ 1 .. Len(s) -> Nat ]
    BY LenProperties
  <2>2. CASE n - k < Len(s)
    <3>1. Len(s) - (n - k) \in 1 .. Len(s)
      BY <1>2, <2>1, <2>2
    <3>. QED BY <2>1, <2>2, <3>1 DEF DimensionFromEnd
  <2>. QED BY <2>2 DEF DimensionFromEnd
<1>4. Broadcast(left, right) =
        [ k \in 1 .. n |-> IF D(left, k) > D(right, k) THEN D(left, k) ELSE D(right, k) ]
  BY DEF Broadcast, n
<1> HIDE DEF D
<1>5. Broadcast(left, right) \in [ 1 .. n -> Nat ]
  BY <1>3, <1>4
<1>6. Broadcast(left, right) \in Seq(Nat) /\ Len(Broadcast(left, right)) = n
  BY <1>2, <1>5, FunctionToSequence
<1>. QED BY <1>6 DEF n

\* What a shape has that ends in two more dimensions.
LEMMA TwoMoreDimensions ==
  ASSUME NEW s \in Seq(Nat), NEW a \in Nat, NEW b \in Nat
  PROVE  LET t == s \o << a, b >> IN
         /\ Len(t) = Len(s) + 2 /\ Len(t) >= 2
         /\ t[Len(t) - 1] = a /\ LastOf(t) = b /\ Batch(t) = s
<1> DEFINE t == s \o << a, b >>
<1>1. << a, b >> \in Seq(Nat) /\ Len(<< a, b >>) = 2
  OBVIOUS
<1>2. Len(s) \in Nat
  BY LenProperties
<1>3. Len(t) = Len(s) + 2 /\ t \in Seq(Nat)
  BY <1>1, ConcatProperties
<1>4. \A i \in 1 .. Len(s) + 2 : t[i] = IF i <= Len(s) THEN s[i] ELSE << a, b >>[i - Len(s)]
  BY <1>1, ConcatProperties
<1>5. t[Len(s) + 1] = a /\ t[Len(s) + 2] = b
  BY <1>2, <1>4
<1> HIDE DEF t
<1>6. Batch(t) = SubSeq(t, 1, Len(s))
  BY <1>2, <1>3 DEF Batch
<1>7. SubSeq(t, 1, Len(s)) = s
  <2> DEFINE u == SubSeq(t, 1, Len(s))
  <2>1. \A i \in 1 .. Len(s) : t[i] = s[i]
    BY <1>2, <1>4
  <2>2. s \in [ 1 .. Len(s) -> Nat ]
    BY LenProperties
  <2>3. \A i \in 1 .. Len(s) : t[i] \in Nat
    BY <2>1, <2>2
  <2>4. /\ u \in Seq(Nat)
        /\ Len(u) = IF 1 <= Len(s) THEN Len(s) - 1 + 1 ELSE 0
        /\ \A i \in 1 .. Len(s) - 1 + 1 : u[i] = t[1 + i - 1]
    BY <1>2, <2>3, SubSeqProperties
  <2> HIDE DEF u
  <2>5. Len(u) = Len(s) /\ \A i \in 1 .. Len(s) : u[i] = s[i]
    BY <1>2, <2>1, <2>4
  <2>6. u = s
    BY <2>4, <2>5, SeqEqual
  <2>. QED BY <2>6 DEF u
<1>8. Len(t) - 1 = Len(s) + 1 /\ Len(t) >= 2
  BY <1>2, <1>3
<1>. QED BY <1>3, <1>5, <1>6, <1>7, <1>8 DEF LastOf, t

\* What a kernel refuses as malformed though it was verified.
NeverVerified(r) ==
  \/ r.op.type = "rms_norm" /\ ~IsFinitePositiveFloat(r.op.attributes["epsilon"])
  \/ ~DiagonalIsInteger(r.op)

\* A verified MatMul has the shapes the kernel asks for, and its bias.
LEMMA VerifiedMatMul ==
  ASSUME NEW r \in CpuRequests, Verified(r), r.op.type = "mat_mul"
  PROVE  MatMulAccepts(r) /\ (Len(r.in) = 3 => r.in[3] = << LastOf(r.out) >>)
<1> DEFINE left == r.in[1]
           right == r.in[2]
           batch == Broadcast(Batch(left), Batch(right))
           expected == batch \o << left[Len(left) - 1], LastOf(right) >>
<1>1. Len(r.in) = 2 \/ Len(r.in) = 3
  BY VerifiedCounts DEF Products
<1>2. left \in Seq(Nat) /\ right \in Seq(Nat)
  <2>1. PICK n : n = Len(r.in)
    OBVIOUS
  <2> n = 2 \/ n = 3
    BY <1>1, <2>1
  <2>2. 1 \in 1 .. n /\ 2 \in 1 .. n
    OBVIOUS
  <2>3. \A k \in 1 .. n : r.in[k] \in Seq(Nat) /\ Len(r.in[k]) \in Nat
    BY <2>1, RequestFacts
  <2>. QED BY <2>2, <2>3
<1>3. MatMulAgrees(r.op, r.in, r.out)
  BY VerifiedAgrees DEF Agrees
<1>4. /\ Len(left) >= 2 /\ Len(right) >= 2
      /\ LastOf(left) = right[Len(right) - 1]
      /\ Broadcastable(Batch(left), Batch(right))
      /\ Len(r.in) = 3 => r.in[3] = << LastOf(expected) >>
      /\ r.out = expected
  BY <1>3 DEF MatMulAgrees
<1> HIDE DEF left, right
<1>5. ASSUME NEW s \in Seq(Nat), Len(s) >= 2
      PROVE  /\ Batch(s) \in Seq(Nat) /\ s[Len(s) - 1] \in Nat /\ LastOf(s) \in Nat
  <2>1. Len(s) \in Nat /\ s \in [ 1 .. Len(s) -> Nat ]
    BY LenProperties
  <2>2. \A k \in 1 .. Len(s) - 2 : s[k] \in Nat
    BY <2>1
  <2>3. Batch(s) \in Seq(Nat)
    BY <2>1, <2>2, SubSeqProperties DEF Batch
  <2>4. Len(s) - 1 \in 1 .. Len(s) /\ Len(s) \in 1 .. Len(s)
    BY <1>5, <2>1
  <2>. QED BY <2>1, <2>3, <2>4 DEF LastOf
<1>6. batch \in Seq(Nat) /\ left[Len(left) - 1] \in Nat /\ LastOf(right) \in Nat
  BY <1>2, <1>4, <1>5, BroadcastIsShape
<1> HIDE DEF batch
<1>7. /\ Len(r.out) >= 2 /\ r.out[Len(r.out) - 1] = left[Len(left) - 1]
      /\ LastOf(r.out) = LastOf(right) /\ Batch(r.out) = batch
  <2>1. PICK a \in Nat, b \in Nat : a = left[Len(left) - 1] /\ b = LastOf(right)
    BY <1>6
  <2>2. r.out = batch \o << a, b >>
    BY <1>4, <2>1
  <2>3. /\ Len(r.out) >= 2 /\ r.out[Len(r.out) - 1] = a
        /\ LastOf(r.out) = b /\ Batch(r.out) = batch
    <3>1. /\ Len(batch \o << a, b >>) >= 2
          /\ (batch \o << a, b >>)[Len(batch \o << a, b >>) - 1] = a
          /\ LastOf(batch \o << a, b >>) = b /\ Batch(batch \o << a, b >>) = batch
      BY <1>6, TwoMoreDimensions
    <3>. QED BY <2>2, <3>1
  <2>. QED BY <2>1, <2>3
<1> HIDE DEF expected
<1>8. /\ Len(r.in) \in {2, 3}
      /\ Len(r.in[1]) >= 2 /\ Len(r.in[2]) >= 2 /\ Len(r.out) >= 2
      /\ LastOf(r.in[1]) = r.in[2][Len(r.in[2]) - 1]
      /\ r.out[Len(r.out) - 1] = r.in[1][Len(r.in[1]) - 1] /\ LastOf(r.out) = LastOf(r.in[2])
      /\ Broadcastable(Batch(r.in[1]), Batch(r.in[2]))
      /\ Batch(r.out) = Broadcast(Batch(r.in[1]), Batch(r.in[2]))
  BY <1>1, <1>4, <1>7 DEF left, right, batch
<1>9. Len(r.in) = 3 => r.in[3] = << LastOf(r.out) >>
  BY <1>4
<1>10. MatMulAccepts(r)
  BY <1>8, Zenon DEF MatMulAccepts
<1>. QED BY <1>9, <1>10

\* A verified Linear has the shapes its kernel asks for.
LEMMA VerifiedLinear ==
  ASSUME NEW r \in CpuRequests, Verified(r), r.op.type = "linear"
  PROVE  LinearAccepts(r) /\ (Len(r.in) = 3 => r.in[3] = << LastOf(r.out) >>)
<1> DEFINE input == r.in[1]
           weight == r.in[2]
<1>1. Len(r.in) = 2 \/ Len(r.in) = 3
  BY VerifiedCounts DEF Products
<1>2. input \in Seq(Nat) /\ weight \in Seq(Nat) /\ Len(input) \in Nat
  <2>1. PICK n : n = Len(r.in)
    OBVIOUS
  <2> n = 2 \/ n = 3
    BY <1>1, <2>1
  <2>2. 1 \in 1 .. n /\ 2 \in 1 .. n
    OBVIOUS
  <2>3. \A k \in 1 .. n : r.in[k] \in Seq(Nat) /\ Len(r.in[k]) \in Nat
    BY <2>1, RequestFacts
  <2>. QED BY <2>2, <2>3
<1>3. LinearAgrees(r.op, r.in, r.out)
  BY VerifiedAgrees DEF Agrees
<1>4. /\ Len(input) >= 1 /\ Len(weight) = 2
      /\ LastOf(input) = weight[2]
      /\ Len(r.in) = 3 => r.in[3] = << weight[1] >>
      /\ r.out = [ input EXCEPT ![Len(input)] = weight[1] ]
  BY <1>3 DEF LinearAgrees
<1> HIDE DEF input, weight
<1>5. weight[1] \in Nat /\ Len(input) \in 1 .. Len(input)
  <2>1. weight \in [ 1 .. 2 -> Nat ]
    BY <1>2, <1>4, LenProperties
  <2>. QED BY <1>2, <1>4, <2>1
<1>6. Len(r.out) = Len(input) /\ r.out[Len(input)] = weight[1]
  BY <1>2, <1>4, <1>5, ExceptSeq
<1>7. input # << >> /\ r.out # << >>
  BY <1>4, <1>6, EmptySeq
<1>. QED BY <1>1, <1>4, <1>6, <1>7 DEF LinearAccepts, LastOf, input, weight

\* So have the other operations: each kernel accepts what the verifier let through.
LEMMA VerifiedRMSNorm ==
  ASSUME NEW r \in CpuRequests, Verified(r), r.op.type = "rms_norm"
  PROVE  RMSNormAccepts(r) \/ NeverVerified(r)
<1>1. Len(r.in) = 2
  BY VerifiedCounts
<1>2. RMSNormAgrees(r.op, r.in, r.out)
  BY VerifiedAgrees DEF Agrees
<1>3. r.in[1] # << >>
  BY <1>2, EmptySeq DEF RMSNormAgrees
<1>. QED BY <1>1, <1>2, <1>3 DEF RMSNormAgrees, RMSNormAccepts, NeverVerified

\* The axis, counted from either end, is one of the result.
LEMMA VerifiedSoftmax ==
  ASSUME NEW r \in CpuRequests, Verified(r), r.op.type = "softmax"
  PROVE  SoftmaxAccepts(r)
<1> DEFINE axis == r.op.attributes["axis"]
<1>1. Len(r.in) = 1
  BY VerifiedCounts
<1>2. /\ Has(r.op, "axis") /\ axis \in -Len(r.in[1]) .. Len(r.in[1]) - 1
      /\ r.out = r.in[1]
  BY VerifiedAgrees DEF Agrees
<1>3. Len(r.out) \in Nat /\ axis \in Int
  BY <1>2, RequestFacts, CpuRequestsAssumption
<1>4. Len(r.out) >= 1
  BY <1>2, <1>3
<1>5. r.out # << >>
  BY <1>4, EmptySeq
<1>6. SoftmaxAxis(r) \in 0 .. Len(r.out) - 1
  BY <1>2, <1>3 DEF SoftmaxAxis
<1>. QED BY <1>1, <1>2, <1>5, <1>6 DEF SoftmaxAccepts

\* The permutation is one, and the result has the permuted shape.
LEMMA VerifiedTranspose ==
  ASSUME NEW r \in CpuRequests, Verified(r), r.op.type = "transpose"
  PROVE  TransposeAccepts(r)
<1> DEFINE permutation == r.op.attributes["permutation"]
<1>1. Len(r.in) = 1
  BY VerifiedCounts
<1>2. /\ Has(r.op, "permutation")
      /\ Len(permutation) = Len(r.in[1])
      /\ Elements(permutation) = 0 .. Len(r.in[1]) - 1
      /\ r.out = [ k \in DOMAIN permutation |-> r.in[1][permutation[k] + 1] ]
  BY VerifiedAgrees DEF Agrees, TransposeAgrees
<1>3. permutation \in Seq(Int)
  BY <1>2, CpuRequestsAssumption
<1>4. Len(permutation) \in Nat /\ DOMAIN permutation = 1 .. Len(permutation)
  BY <1>3, LenProperties
<1>5. r.out \in Seq(Nat)
  BY RequestFacts
<1>6. Len(r.out) \in Nat /\ DOMAIN r.out = 1 .. Len(r.out) /\ DOMAIN r.out = DOMAIN permutation
  BY <1>2, <1>5, LenProperties
<1>7. r.out \in [ 1 .. Len(permutation) -> Nat ]
  BY <1>4, <1>5, <1>6, LenProperties
<1>8. Len(r.out) = Len(permutation)
  BY <1>4, <1>7, FunctionToSequence
<1> HIDE DEF permutation
<1>9. \A k \in DOMAIN r.out : r.out[k] = r.in[1][permutation[k] + 1]
  BY <1>2, <1>6
<1>. QED BY <1>1, <1>2, <1>8, <1>9 DEF TransposeAccepts, permutation

\* As many elements as before.
LEMMA VerifiedReshape ==
  ASSUME NEW r \in CpuRequests, Verified(r), r.op.type = "reshape"
  PROVE  Len(r.in) = 1 /\ Product(r.in[1]) = Product(r.out)
BY VerifiedCounts, VerifiedAgrees DEF Agrees, ReshapeAgrees

\* One operand, of the shape of the result.
LEMMA VerifiedUnary ==
  ASSUME NEW r \in CpuRequests, Verified(r)
  PROVE  /\ r.op.type = "gelu" => Len(r.in) = 1 /\ r.in[1] = r.out
         /\ r.op.type = "causal_mask" => CausalMaskAccepts(r)
         /\ r.op.type \in ElementwiseTypes => BinaryAccepts(r)
BY VerifiedCounts, VerifiedAgrees DEF Agrees, CausalMaskAccepts, BinaryAccepts

\* So what has been verified is well-formed, with the exceptions.
LEMMA VerifiedIsWellFormed ==
  ASSUME NEW r \in CpuRequests, Verified(r)
  PROVE  /\ WellFormed(r) \/ NeverVerified(r)
         /\ r.op.type \in Products /\ Len(r.in) = 3 => r.in[3] = << LastOf(r.out) >>
<1>1. WellFormed(r) \/ NeverVerified(r)
  BY VerifiedMatMul, VerifiedLinear, VerifiedRMSNorm, VerifiedSoftmax, VerifiedTranspose,
     VerifiedReshape, VerifiedUnary DEF WellFormed, Verified
<1>2. r.op.type \in Products /\ Len(r.in) = 3 => r.in[3] = << LastOf(r.out) >>
  BY VerifiedMatMul, VerifiedLinear DEF Products
<1>. QED BY <1>1, <1>2

\* Where a call to the CPU backend stands, and why it was refused: a product under
\* way has been accepted, and its bias alone can still be malformed.
CpuInv ==
  /\ cpu.status \in {"idle", "called", "tiling", "multiplied", "ok", "invalid", "unsupported"}
  /\ cpu.status # "idle" =>
       cpu = [ status |-> cpu.status, request |-> cpu.request ] /\ cpu.request \in CpuRequests
  /\ cpu.status \in {"tiling", "multiplied"} => cpu.request.op.type \in Products
  /\ cpu.status = "invalid" =>
       LET r == cpu.request
       IN  \/ ~WellFormed(r)
           \/ ~DiagonalIsInteger(r.op)
           \/ r.op.type \in Products /\ Len(r.in) = 3 /\ r.in[3] # << LastOf(r.out) >>

\* An answer keeps the request.
LEMMA AnswerFacts ==
  ASSUME CpuInv, cpu.status # "idle", NEW status, Answer(status)
  PROVE  cpu' = [ status |-> status, request |-> cpu.request ]
BY DEF CpuInv, Answer

\* Every step of the CPU backend keeps its invariant.
LEMMA CpuPreserves ==
  ASSUME CpuInv, CpuNext
  PROVE  CpuInv'
<1>1. CASE CpuCall
  <2>1. PICK r \in CpuRequests : cpu' = [ status |-> "called", request |-> r ]
    BY <1>1 DEF CpuCall
  <2>. QED BY <2>1 DEF CpuInv
<1>2. CASE CpuRefuse
  <2> DEFINE r == cpu.request
  <2>1. cpu.status = "called" /\ ~Accepted(r)
    BY <1>2 DEF CpuRefuse
  <2>2. r \in CpuRequests
    BY <2>1 DEF CpuInv
  <2>3. CASE r.contiguous /\ ~WellFormed(r)
    <3>1. Answer("invalid")
      BY <1>2, <2>3 DEF CpuRefuse
    <3>2. cpu' = [ status |-> "invalid", request |-> r ]
      BY <2>1, <3>1, AnswerFacts
    <3>. QED BY <2>2, <2>3, <3>2 DEF CpuInv
  <2>4. CASE ~(r.contiguous /\ ~WellFormed(r)) /\ ~Supported(r)
    <3>1. Answer("unsupported")
      BY <1>2, <2>4 DEF CpuRefuse
    <3>2. cpu' = [ status |-> "unsupported", request |-> r ]
      BY <2>1, <3>1, AnswerFacts
    <3>. QED BY <2>2, <3>2 DEF CpuInv
  <2>5. CASE ~(r.contiguous /\ ~WellFormed(r)) /\ Supported(r)
    <3>1. Answer("invalid")
      BY <1>2, <2>5 DEF CpuRefuse
    <3>2. cpu' = [ status |-> "invalid", request |-> r ]
      BY <2>1, <3>1, AnswerFacts
    <3>3. ~DiagonalIsInteger(r.op)
      BY <2>1, <2>5 DEF Accepted, Supported
    <3>. QED BY <2>2, <3>2, <3>3 DEF CpuInv
  <2>. QED BY <2>3, <2>4, <2>5
<1>3. CASE RunKernel
  <2>1. cpu.status = "called"
    BY <1>3 DEF RunKernel
  <2>2. CASE cpu.request.op.type \in Products
    <3>1. Answer("multiplied")
      BY <1>3, <2>2 DEF RunKernel
    <3>2. cpu' = [ status |-> "multiplied", request |-> cpu.request ]
      BY <2>1, <3>1, AnswerFacts
    <3>. QED BY <2>1, <2>2, <3>2 DEF CpuInv
  <2>3. CASE cpu.request.op.type \notin Products
    <3>1. Answer("ok")
      BY <1>3, <2>3 DEF RunKernel
    <3>2. cpu' = [ status |-> "ok", request |-> cpu.request ]
      BY <2>1, <3>1, AnswerFacts
    <3>. QED BY <2>1, <3>2 DEF CpuInv
  <2>. QED BY <2>2, <2>3
<1>4. CASE StartTiles
  <2>1. cpu.status = "called" /\ cpu.request.op.type \in Products /\ Answer("tiling")
    BY <1>4 DEF StartTiles, Tiled
  <2>2. cpu' = [ status |-> "tiling", request |-> cpu.request ]
    BY <2>1, AnswerFacts
  <2>. QED BY <2>1, <2>2 DEF CpuInv
<1>5. CASE RunTile
  <2>1. cpu.status = "tiling" /\ (UNCHANGED cpu \/ Answer("multiplied"))
    BY <1>5 DEF RunTile
  <2>2. cpu' = cpu \/ cpu' = [ status |-> "multiplied", request |-> cpu.request ]
    BY <2>1, AnswerFacts
  <2>. QED BY <2>1, <2>2 DEF CpuInv
<1>6. CASE FinishProduct
  <2> DEFINE r == cpu.request
             bias == r.in[3]
  <2>1. cpu.status = "multiplied" /\ r \in CpuRequests /\ r.op.type \in Products
    BY <1>6 DEF FinishProduct, CpuInv
  <2>2. CASE Answer("ok")
    <3>1. cpu' = [ status |-> "ok", request |-> r ]
      BY <2>1, <2>2, AnswerFacts
    <3>. QED BY <2>1, <3>1 DEF CpuInv
  <2>3. CASE Answer("unsupported")
    <3>1. cpu' = [ status |-> "unsupported", request |-> r ]
      BY <2>1, <2>3, AnswerFacts
    <3>. QED BY <2>1, <3>1 DEF CpuInv
  <2>4. CASE Answer("invalid") /\ Len(r.in) = 3 /\ (Len(bias) # 1 \/ bias[1] # LastOf(r.out))
    <3>1. cpu' = [ status |-> "invalid", request |-> r ]
      BY <2>1, <2>4, AnswerFacts
    <3>2. bias # << LastOf(r.out) >>
      BY <2>4
    <3>. QED BY <2>1, <2>4, <3>1, <3>2 DEF CpuInv
  <2>. QED BY <1>6, <2>2, <2>3, <2>4 DEF FinishProduct
<1>. QED BY <1>1, <1>2, <1>3, <1>4, <1>5, <1>6 DEF CpuNext

\* It holds in every reachable state.
LEMMA CpuInvariance ==
  ASSUME CpuInv, [Next]_<< backend, cpuVars, cudaVars >>
  PROVE  CpuInv'
<1>1. CASE UNCHANGED cpuVars
  BY <1>1 DEF CpuInv, cpuVars
<1>2. CASE CpuNext
  BY <1>2, CpuPreserves
<1>. QED BY <1>1, <1>2 DEF Next, Create

\* Whatever the request: of what GraphVerifierPass has accepted, the CPU backend
\* refuses as malformed only an epsilon that is no finite positive float and a
\* diagonal that is no integer.
THEOREM VerifiedIsNotMalformedHolds == Spec => []VerifiedIsNotMalformed
<1>1. Init => CpuInv
  BY DEF Init, CpuInit, CpuInv
<1>2. CpuInv /\ [Next]_<< backend, cpuVars, cudaVars >> => CpuInv'
  BY CpuInvariance
<1>3. CpuInv => VerifiedIsNotMalformed
  <2>. SUFFICES ASSUME CpuInv, cpu.status = "invalid", Verified(cpu.request)
                PROVE  NeverVerified(cpu.request)
    BY DEF VerifiedIsNotMalformed, NeverVerified
  <2>. QED BY VerifiedIsWellFormed DEF CpuInv, NeverVerified
<1>. QED BY <1>1, <1>2, <1>3, PTL DEF Spec

(***************************************************************************)
(* Division, powers of two and sequences of reads.                         *)
(***************************************************************************)

\* A number is what its quotient and its remainder say.
LEMMA DivisionFacts ==
  ASSUME NEW w \in Nat \ {0}, NEW n \in Int
  PROVE  n = w * (n \div w) + (n % w) /\ (n % w) \in 0 .. w - 1 /\ (n \div w) \in Int
OBVIOUS

\* A number is its quotient and its remainder in one way only.
LEMMA QuotientAndRemainder ==
  ASSUME NEW w \in Nat \ {0}, NEW a \in Int, NEW b \in 0 .. w - 1
  PROVE  ((a * w + b) % w) = b /\ ((a * w + b) \div w) = a
OBVIOUS

\* Two positions of a matrix are equal only in the same row and column.
LEMMA SamePosition ==
  ASSUME NEW w \in Nat \ {0}, NEW a \in Int, NEW b \in 0 .. w - 1,
         NEW a2 \in Int, NEW b2 \in 0 .. w - 1, a * w + b = a2 * w + b2
  PROVE  a = a2 /\ b = b2
<1>1. ((a * w + b) % w) = b /\ ((a * w + b) \div w) = a
  BY QuotientAndRemainder
<1>2. ((a2 * w + b2) % w) = b2 /\ ((a2 * w + b2) \div w) = a2
  BY QuotientAndRemainder
<1>. QED BY <1>1, <1>2

Powers == {1, 2, 4, 8, 16, 32, 64, 128}

\* Halving goes through eight cases.
LEMMA PowerCases ==
  ASSUME NEW s \in Powers
  PROVE  s = 1 \/ s = 2 \/ s = 4 \/ s = 8 \/ s = 16 \/ s = 32 \/ s = 64 \/ s = 128
BY DEF Powers

\* The turns of the tree: from half the block down to 1, each half the one before.
LEMMA HalfOfPower ==
  ASSUME NEW s \in Powers
  PROVE  /\ s \in Nat \ {0}
         /\ \/ s = 1 /\ (s \div 2) = 0
            \/ 2 * (s \div 2) = s /\ (s \div 2) \in Powers
<1>1. /\ (1 \div 2) = 0 /\ (2 \div 2) = 1 /\ (4 \div 2) = 2 /\ (8 \div 2) = 4 /\ (16 \div 2) = 8
      /\ (32 \div 2) = 16 /\ (64 \div 2) = 32 /\ (128 \div 2) = 64
  OBVIOUS
<1>2. CASE s = 1 \/ s = 2 \/ s = 4
  BY <1>1, <1>2 DEF Powers
<1>3. CASE s = 8 \/ s = 16 \/ s = 32
  BY <1>1, <1>3 DEF Powers
<1>4. CASE s = 64 \/ s = 128
  BY <1>1, <1>4 DEF Powers
<1>. QED BY <1>2, <1>3, <1>4, PowerCases

\* The block is a power of two.
LEMMA BlockSizeFacts ==
  /\ BlockSize \in Nat \ {0}
  /\ \/ BlockSize = 1 /\ (BlockSize \div 2) = 0
     \/ 2 * (BlockSize \div 2) = BlockSize /\ (BlockSize \div 2) \in Powers
<1>1. /\ (1 \div 2) = 0 /\ (2 \div 2) = 1 /\ (4 \div 2) = 2 /\ (8 \div 2) = 4 /\ (16 \div 2) = 8
      /\ (32 \div 2) = 16 /\ (64 \div 2) = 32 /\ (128 \div 2) = 64 /\ (256 \div 2) = 128
  OBVIOUS
<1>2. CASE BlockSize = 1 \/ BlockSize = 2 \/ BlockSize = 4
  BY <1>1, <1>2 DEF Powers
<1>3. CASE BlockSize = 8 \/ BlockSize = 16 \/ BlockSize = 32
  BY <1>1, <1>3 DEF Powers
<1>4. CASE BlockSize = 64 \/ BlockSize = 128 \/ BlockSize = 256
  BY <1>1, <1>4 DEF Powers
<1>. QED BY <1>2, <1>3, <1>4, BlockSizeAssumption

\* The numbers with a remainder of s are those with this remainder of 2 * s, or with
\* the one that is s greater, and the two have as many as it has.
LEMMA HalvesOfPower ==
  ASSUME NEW s \in Powers, NEW y \in Int
  PROVE  ((y + s) \div (2 * s)) + (y \div (2 * s)) = (y \div s)
BY PowerCases

\* A remainder of s is one of 2 * s, or s more.
LEMMA RemaindersOfPower ==
  ASSUME NEW s \in Nat \ {0}, NEW y \in Int, NEW k \in 0 .. s - 1
  PROVE  (y % s) = k <=> ((y % (2 * s)) = k \/ (y % (2 * s)) = k + s)
<1>0. 2 * s \in Nat \ {0}
  OBVIOUS
<1>1. PICK p \in Int, r \in 0 .. 2 * s - 1 :
        p = (y \div (2 * s)) /\ r = (y % (2 * s)) /\ y = (2 * s) * p + r
  BY <1>0, DivisionFacts
<1>2. y = 2 * s * p + r
  BY <1>1
<1>3. CASE r < s
  <2>1. y = (2 * p) * s + r /\ 2 * p \in Int /\ r \in 0 .. s - 1
    BY <1>2, <1>3
  <2>2. (y % s) = r
    BY <2>1, QuotientAndRemainder
  <2>3. r = k <=> (r = k \/ r = k + s)
    BY <1>3
  <2>. QED BY <1>1, <2>2, <2>3, Zenon
<1>4. CASE r >= s
  <2>1. y = (2 * p + 1) * s + (r - s) /\ 2 * p + 1 \in Int /\ r - s \in 0 .. s - 1
    BY <1>2, <1>4
  <2>2. (y % s) = r - s
    BY <2>1, QuotientAndRemainder
  <2>3. r - s = k <=> (r = k \/ r = k + s)
    BY <1>4
  <2>. QED BY <1>1, <2>2, <2>3, Zenon
<1>. QED BY <1>3, <1>4

\* What a concatenation has.
LEMMA ConcatElements ==
  ASSUME NEW S, NEW s \in Seq(S), NEW t \in Seq(S)
  PROVE  /\ s \o t \in Seq(S) /\ Len(s \o t) = Len(s) + Len(t)
         /\ Len(s) \in Nat /\ Len(t) \in Nat
         /\ Elements(s \o t) = Elements(s) \cup Elements(t)
<1> DEFINE u == s \o t
<1>1. /\ u \in Seq(S) /\ Len(u) = Len(s) + Len(t)
      /\ \A i \in 1 .. Len(s) + Len(t) : u[i] = IF i <= Len(s) THEN s[i] ELSE t[i - Len(s)]
  BY ConcatProperties
<1>2. /\ Len(s) \in Nat /\ DOMAIN s = 1 .. Len(s)
      /\ Len(t) \in Nat /\ DOMAIN t = 1 .. Len(t)
      /\ Len(u) \in Nat /\ DOMAIN u = 1 .. Len(u)
  BY <1>1, LenProperties
<1> HIDE DEF u
<1>3. ASSUME NEW i \in DOMAIN u PROVE u[i] \in Elements(s) \cup Elements(t)
  <2>1. i \in 1 .. Len(s) + Len(t) /\ (i <= Len(s) => i \in DOMAIN s)
        /\ (~(i <= Len(s)) => i - Len(s) \in DOMAIN t)
    BY <1>1, <1>2
  <2>. QED BY <1>1, <2>1 DEF Elements
<1>4. ASSUME NEW i \in DOMAIN s PROVE s[i] \in Elements(u)
  <2>1. i \in 1 .. Len(s) + Len(t) /\ i <= Len(s) /\ i \in DOMAIN u
    BY <1>1, <1>2
  <2>. QED BY <1>1, <2>1 DEF Elements
<1>5. ASSUME NEW i \in DOMAIN t PROVE t[i] \in Elements(u)
  <2>1. i + Len(s) \in 1 .. Len(s) + Len(t) /\ ~(i + Len(s) <= Len(s)) /\ i + Len(s) \in DOMAIN u
        /\ i + Len(s) - Len(s) = i
    BY <1>1, <1>2
  <2>2. u[i + Len(s)] = t[i]
    BY <1>1, <2>1
  <2>. QED BY <2>1, <2>2 DEF Elements
<1>6. Elements(u) = Elements(s) \cup Elements(t)
  BY <1>3, <1>4, <1>5 DEF Elements
<1>. QED BY <1>1, <1>2, <1>6 DEF u

\* The same for reads.
LEMMA ConcatReads ==
  ASSUME NEW s \in Seq(Nat \X Nat), NEW t \in Seq(Nat \X Nat)
  PROVE  /\ s \o t \in Seq(Nat \X Nat) /\ Len(s \o t) = Len(s) + Len(t)
         /\ Len(s) \in Nat /\ Len(t) \in Nat
         /\ Elements(s \o t) = Elements(s) \cup Elements(t)
BY ConcatElements

\* The elements of short sequences.
LEMMA SingleElements ==
  /\ \A x : Len(<< x >>) = 1 /\ Elements(<< x >>) = {x}
  /\ \A x, y : Len(<< x, y >>) = 2 /\ Elements(<< x, y >>) = {x, y}
  /\ Elements(<< >>) = {} /\ Len(<< >>) = 0
BY DEF Elements

(***************************************************************************)
(* The CUDA backend: what the buffer of a call holds when it succeeds.     *)
(*                                                                         *)
(* The invariant is about the time before anything has failed, as nothing  *)
(* succeeds after that. All launches of the stream are then the same.      *)
(***************************************************************************)

IsLaunch(l) ==
  /\ l.kernel \in {"gelu", "fused_bias_gelu", "rms_norm", "softmax"}
  /\ l.rows \in Nat /\ l.width \in Nat \ {0}

IsRow(l) == l.kernel \in RowKernels

Shape(l) == << l.rows, l.width >>

Cells(l) == Coordinates(Shape(l))

\* Where the element of a cell is, and who writes it.
IndexOf(l, c) == Position(Shape(l), c)

BlockOf(l, c) == IF IsRow(l) THEN c[1] ELSE IndexOf(l, c) \div BlockSize

LaneOf(l, c) == IF IsRow(l) THEN c[2] % BlockSize ELSE IndexOf(l, c) % BlockSize

\* The element of this cell has been computed.
IsComputed(l, c) == Computes(output[calls][IndexOf(l, c)], l, c)

\* The buffer of the call is there, for as many elements as the launch writes.
HasBuffer(l) ==
  calls # 0 /\ DOMAIN output[calls] = 0 .. l.rows * l.width - 1

IsComplete(l) == \A c \in Cells(l) : IsComputed(l, c)

\* The elements a block has to write, and those a lane of the running one has.
BlockIsComputed(l, b) == \A c \in Cells(l) : BlockOf(l, c) = b => IsComputed(l, c)

LaneIsComputed(l, lane) ==
  \A c \in Cells(l) : BlockOf(l, c) = block /\ LaneOf(l, c) = lane => IsComputed(l, c)

\* These reads are one of each column of the row that is lane modulo m.
Gathers(l, reads, lane, m) ==
  /\ Len(reads) = (l.width - lane + m - 1) \div m
  /\ \A read : read \in Elements(reads) <=>
       \E column \in 0 .. l.width - 1 : column % m = lane /\ read = << 1, block * l.width + column >>

\* What a lane has to have in shared memory.
Gathered(l, lane, m) == shared[lane].f # "none" /\ Gathers(l, shared[lane].reads, lane, m)

\* No lane has its maximum yet, or every lane has.
SamePass ==
  \/ \A lane \in Lanes : threads[lane].maximum = Nothing
  \/ \A lane \in Lanes : threads[lane].maximum # Nothing

\* Before the first barrier of a reduction. In the second reduction of a Softmax
\* there may be lanes that have not collected the maximum.
Publishing(l) ==
  /\ \A lane \in Lanes :
       \/ threads[lane].at = "load"
       \/ threads[lane].at = "barrier" /\ threads[lane].stride = BlockSize \div 2
          /\ Gathered(l, lane, BlockSize)
       \/ threads[lane].at = "collect" /\ l.kernel = "softmax"
  /\ \/ \A lane \in Lanes : threads[lane].at # "collect" /\ threads[lane].maximum = Nothing
     \/ /\ \A lane \in Lanes : threads[lane].at = "collect" <=> threads[lane].maximum = Nothing
        /\ shared[0].f # "none"

Strides == { s \in Powers : 2 * s <= BlockSize }

\* Between two barriers of the tree: the half that is read is as the barrier before
\* found it.
Folding(l, stride) ==
  /\ SamePass
  /\ \A lane \in Lanes :
       \/ /\ threads[lane].at = "fold" /\ threads[lane].stride = stride
          /\ lane < 2 * stride => Gathered(l, lane, 2 * stride)
       \/ /\ threads[lane].at = "barrier" /\ threads[lane].stride = stride \div 2
          /\ lane < stride => Gathered(l, lane, stride)
          /\ stride <= lane /\ lane < 2 * stride => Gathered(l, lane, 2 * stride)

\* After the last barrier of the last reduction.
Collecting(l) ==
  /\ Gathered(l, 0, 1)
  /\ \A lane \in Lanes :
       /\ threads[lane].at \in {"collect", "done"}
       /\ l.kernel = "softmax" => threads[lane].maximum # Nothing
       /\ threads[lane].at = "done" => LaneIsComputed(l, lane)

Mapping(l) ==
  \A lane \in Lanes :
    /\ threads[lane].at \in {"map", "done"}
    /\ threads[lane].at = "done" => LaneIsComputed(l, lane)

RunningInv(l) ==
  IF IsRow(l) THEN Publishing(l) \/ (\E stride \in Strides : Folding(l, stride)) \/ Collecting(l)
  ELSE Mapping(l)

StoredElements == [ f : {"none", "max", "sum"}, reads : Seq(Nat \X Nat) ]

Registers == [ at : {"map", "load", "barrier", "fold", "collect", "done"}, stride : Nat,
               value : StoredElements, maximum : StoredElements ]

DeviceInv(l) ==
  /\ shared \in [ Lanes -> StoredElements ]
  /\ threads \in [ Lanes -> Registers ]
  /\ stream \in Seq({l})
  /\ stream = << >> => blocks = {} /\ block = NoBlock
  /\ stream # << >> => IsLaunch(l) /\ l.buffer = calls /\ HasBuffer(l)
  /\ blocks \subseteq 0 .. GridOf(l) - 1
  /\ block # NoBlock => block \in blocks /\ RunningInv(l)
  /\ blocks # {} => \A b \in 0 .. GridOf(l) - 1 : b \notin blocks => BlockIsComputed(l, b)

\* Something has been launched, and the host has not looked at it in vain.
HasLaunched ==
  \/ host.at \in {"measure", "stop", "synchronize"}
  \/ host.at = "warmup" /\ host.left < Rq.warmups
  \/ host.at \in {"free", "returned"} /\ host.outcome = "ok"

HostInv(l) ==
  /\ l = LaunchOf(Rq) /\ calls # 0
  /\ host.request \in CudaRequests
  /\ host.at \in {"called", "warmup", "measure", "stop", "launch", "synchronize", "free", "returned",
                  "terminated"}
  /\ host.left \in Int /\ host.timed \in Int
  /\ host.at \in {"warmup", "measure", "stop"} => Rq.entry = "profile"
  /\ host.at \in {"launch", "synchronize"} => Rq.entry = "execute"
  /\ host.at \in {"called", "launch", "measure", "returned"} => stream = << >>
  /\ host.at = "free" /\ (Rq.entry = "execute" \/ host.outcome = "ok") => stream = << >>
  /\ host.at \in {"called", "warmup"} => host.timed = 0
  /\ host.at = "warmup" => Rq.warmups \in Nat \ {0}
  /\ host.at = "measure" => host.timed + host.left = Rq.measured
  /\ host.at = "stop" => host.timed + host.left = Rq.measured - 1
  /\ host.at \in {"free", "returned"} /\ host.outcome = "ok" /\ Rq.entry = "profile" =>
       host.timed = Rq.measured
  /\ host.at \in {"warmup", "launch", "measure", "stop"} => IsLaunch(l) /\ HasBuffer(l)
  /\ HasLaunched /\ stream = << >> => IsComplete(l)

\* A buffer for each call.
HasOutputs == calls \in Nat /\ output = [ k \in 1 .. calls |-> output[k] ]

\* Before anything has failed.
SoundInv ==
  /\ HasOutputs /\ ~lastError
  /\ \E l : DeviceInv(l) /\ IF host.at = "idle" THEN stream = << >> ELSE HostInv(l)

CudaInv == failures = 0 => SoundInv

(***************************************************************************)
(* Cells, launches and what their elements mean.                           *)
(***************************************************************************)

\* The position of a cell, in row-major order.
LEMMA PositionInMatrix ==
  ASSUME NEW rows \in Nat, NEW width \in Nat, NEW c, c[1] \in Nat, c[2] \in Nat
  PROVE  Position(<< rows, width >>, c) = c[1] * width + c[2]
<1> DEFINE s == << rows, width >>
           P(p) == p = [ n \in 0 .. Len(s) |-> IF n = 0 THEN 0 ELSE p[n - 1] * s[n] + c[n] ]
           w == [ n \in 0 .. 2 |-> IF n = 0 THEN 0 ELSE IF n = 1 THEN c[1] ELSE c[1] * width + c[2] ]
           p == CHOOSE p : P(p)
<1>1. Len(s) = 2 /\ s[1] = rows /\ s[2] = width
  OBVIOUS
<1> HIDE DEF s
<1>2. P(w)
  <2>1. ASSUME NEW n \in 0 .. 2
        PROVE  w[n] = IF n = 0 THEN 0 ELSE w[n - 1] * s[n] + c[n]
    <3>1. n = 0 \/ n = 1 \/ n = 2
      OBVIOUS
    <3>2. w[0] = 0 /\ w[1] = c[1] /\ w[2] = c[1] * width + c[2]
      OBVIOUS
    <3>3. 0 * rows = 0 /\ 1 - 1 = 0 /\ 2 - 1 = 1
      OBVIOUS
    <3> HIDE DEF w
    <3>4. CASE n = 1
      BY <1>1, <3>2, <3>3, <3>4
    <3>5. CASE n = 2
      BY <1>1, <3>2, <3>3, <3>5
    <3>. QED BY <3>1, <3>2, <3>4, <3>5
  <2>2. w = [ n \in 0 .. 2 |-> w[n] ]
    OBVIOUS
  <2> HIDE DEF w
  <2>. QED BY <1>1, <2>1, <2>2
<1>3. P(p)
  BY <1>2
<1> HIDE DEF p, w
<1>4. p[0] = 0 /\ p[1] = p[0] * rows + c[1] /\ p[2] = p[1] * width + c[2]
  <2>1. 1 - 1 = 0 /\ 2 - 1 = 1 /\ 0 \in 0 .. 2 /\ 1 \in 0 .. 2 /\ 2 \in 0 .. 2
    OBVIOUS
  <2>2. \A n \in 0 .. 2 : p[n] = IF n = 0 THEN 0 ELSE p[n - 1] * s[n] + c[n]
    BY <1>1, <1>3
  <2>. QED BY <1>1, <2>1, <2>2
<1>5. p[2] = c[1] * width + c[2]
  BY <1>4
<1>6. Position(s, c) = p[Len(s)]
  BY DEF Position, p
<1>. QED BY <1>1, <1>5, <1>6 DEF s

\* A cell is within its row, and its index within the output.
LEMMA CellFacts ==
  ASSUME NEW l, IsLaunch(l), NEW c \in Cells(l)
  PROVE  /\ c[1] \in 0 .. l.rows - 1 /\ c[2] \in 0 .. l.width - 1
         /\ Len(c) = 2 /\ LastOf(c) = c[2]
         /\ IndexOf(l, c) = c[1] * l.width + c[2]
         /\ IndexOf(l, c) \in 0 .. l.rows * l.width - 1
<1> DEFINE s == Shape(l)
           all == UNION { 0 .. s[k] - 1 : k \in DOMAIN s }
<1>1. DOMAIN s = 1 .. 2 /\ s[1] = l.rows /\ s[2] = l.width
  BY DEF Shape
<1>2. l.rows \in Nat /\ l.width \in Nat \ {0}
  BY DEF IsLaunch
<1> HIDE DEF s
<1>3. all \subseteq Nat
  <2>1. ASSUME NEW k \in DOMAIN s PROVE 0 .. s[k] - 1 \subseteq Nat
    <3>1. s[k] \in Nat
      BY <1>1, <1>2
    <3>. QED BY <3>1
  <2>. QED BY <2>1
<1>4. c \in [ 1 .. 2 -> all ] /\ c[1] < l.rows /\ c[2] < l.width
  BY <1>1 DEF Cells, Coordinates, s
<1> HIDE DEF all
<1>6. c \in [ 1 .. 2 -> Nat ]
  BY <1>3, <1>4
<1>5. c[1] \in Nat /\ c[2] \in Nat
  BY <1>6
<1>7. Len(c) = 2
  BY <1>6, FunctionToSequence
<1>8. IndexOf(l, c) = c[1] * l.width + c[2]
  BY <1>2, <1>5, PositionInMatrix DEF IndexOf, Shape
<1>9. c[1] * l.width + c[2] \in 0 .. l.rows * l.width - 1
  <2>1. c[1] + 1 <= l.rows
    BY <1>2, <1>4, <1>5
  <2>2. (c[1] + 1) * l.width <= l.rows * l.width
    BY <1>2, <1>5, <2>1
  <2>3. c[1] * l.width \in Nat /\ l.rows * l.width \in Nat
    BY <1>2, <1>5
  <2>4. (c[1] + 1) * l.width = c[1] * l.width + l.width
    BY <1>2, <1>5
  <2>. QED BY <1>2, <1>4, <1>5, <2>2, <2>3, <2>4
<1>. QED BY <1>2, <1>4, <1>5, <1>7, <1>8, <1>9 DEF LastOf

\* The line of a cell is its row, once.
LEMMA RowOfCell ==
  ASSUME NEW l, IsLaunch(l), NEW c \in Cells(l)
  PROVE  LET line == Along(Shape(l), c, 2)
             reads == [ n \in DOMAIN line |-> << 1, Position(Shape(l), line[n]) >> ]
         IN  /\ reads \in Seq(Nat \X Nat) /\ Len(reads) = l.width
             /\ Elements(reads) = { << 1, c[1] * l.width + column >> : column \in 0 .. l.width - 1 }
<1> DEFINE line == Along(Shape(l), c, 2)
           reads == [ n \in DOMAIN line |-> << 1, Position(Shape(l), line[n]) >> ]
           w == l.width
<1>0. l.rows \in Nat /\ w \in Nat \ {0}
  BY DEF IsLaunch
<1>1. c[1] \in Nat /\ DOMAIN c = 1 .. 2
  <2>1. DOMAIN Shape(l) = 1 .. 2
    BY DEF Shape
  <2>2. DOMAIN c = 1 .. 2
    BY <2>1 DEF Cells, Coordinates
  <2>. QED BY <1>0, <2>2, CellFacts
<1>2. line = [ n \in 1 .. w |-> [ c EXCEPT ![2] = n - 1 ] ]
  BY DEF Along, Shape
<1> HIDE DEF line, w
<1>3. ASSUME NEW n \in 1 .. w
      PROVE  Position(Shape(l), line[n]) = c[1] * w + (n - 1)
  <2>1. line[n][1] = c[1] /\ line[n][2] = n - 1
    BY <1>1, <1>2
  <2>2. n - 1 \in Nat
    BY <1>0
  <2>3. Position(<< l.rows, w >>, line[n]) = line[n][1] * w + line[n][2]
    BY <1>0, <1>1, <2>1, <2>2, PositionInMatrix
  <2>. QED BY <2>1, <2>3 DEF Shape, w
<1>4. DOMAIN line = 1 .. w
  BY <1>2
<1>5. reads = [ n \in 1 .. w |-> << 1, c[1] * w + (n - 1) >> ]
  BY <1>3, <1>4
<1> HIDE DEF reads
<1>6. \A n \in 1 .. w : c[1] * w + (n - 1) \in Nat
  <2>1. c[1] * w \in Nat
    BY <1>0, <1>1
  <2>. QED BY <1>0, <2>1
<1>7. reads \in [ 1 .. w -> Nat \X Nat ]
  BY <1>5, <1>6
<1>8. reads \in Seq(Nat \X Nat) /\ Len(reads) = w /\ DOMAIN reads = 1 .. w
  BY <1>0, <1>7, FunctionToSequence
<1>9. Elements(reads) = { << 1, c[1] * w + column >> : column \in 0 .. w - 1 }
  <2>1. ASSUME NEW n \in 1 .. w
        PROVE  reads[n] \in { << 1, c[1] * w + column >> : column \in 0 .. w - 1 }
    <3>1. n - 1 \in 0 .. w - 1 /\ reads[n] = << 1, c[1] * w + (n - 1) >>
      BY <1>0, <1>5
    <3>. QED BY <3>1
  <2>2. ASSUME NEW column \in 0 .. w - 1
        PROVE  << 1, c[1] * w + column >> \in Elements(reads)
    <3>1. column + 1 \in 1 .. w /\ column + 1 - 1 = column
      BY <1>0
    <3>2. reads[column + 1] = << 1, c[1] * w + column >>
      BY <1>5, <3>1
    <3>. QED BY <1>8, <3>1, <3>2 DEF Elements
  <2>. QED BY <1>8, <2>1, <2>2 DEF Elements
<1>. QED BY <1>8, <1>9 DEF reads, line, w

\* The second coordinate of a cell, from its index.
LEMMA ColumnOfIndex ==
  ASSUME NEW l, IsLaunch(l), NEW c \in Cells(l)
  PROVE  (IndexOf(l, c) % l.width) = c[2]
<1>1. l.width \in Nat \ {0} /\ l.rows \in Nat
  BY DEF IsLaunch
<1>2. PICK w \in Nat \ {0} : w = l.width
  BY <1>1
<1>3. /\ c[1] \in 0 .. l.rows - 1 /\ c[2] \in 0 .. l.width - 1
      /\ IndexOf(l, c) = c[1] * l.width + c[2]
  BY CellFacts
<1>4. PICK a \in Int : a = c[1]
  BY <1>3
<1>5. PICK b \in 0 .. w - 1 : b = c[2]
  BY <1>2, <1>3
<1>6. ((a * w + b) % w) = b
  BY QuotientAndRemainder
<1>. QED BY <1>2, <1>3, <1>4, <1>5, <1>6

\* What a thread of an elementwise kernel writes.
LEMMA ElementwiseIsComputed ==
  ASSUME NEW l, IsLaunch(l), ~IsRow(l), NEW c \in Cells(l), NEW index, index = IndexOf(l, c)
  PROVE  Computes(Element("gelu", << << 1, index >> >> \o
                    (IF l.kernel = "fused_bias_gelu" THEN << << 2, index % l.width >> >> ELSE << >>)),
                  l, c)
<1>1. (index % l.width) = c[2] /\ LastOf(c) = c[2]
  BY ColumnOfIndex, CellFacts
<1>2. CASE l.kernel = "fused_bias_gelu"
  <2> DEFINE x == << 1, index >>
             y == << 2, c[2] >>
             left == << x >>
             right == << y >>
             pair == << x, y >>
  <2>1. MeaningOfLaunch(l, c) = Element("gelu", pair)
    BY <1>1, <1>2 DEF MeaningOfLaunch, IndexOf, Shape
  <2>2. x \in Nat \X Nat /\ y \in Nat \X Nat
    BY CellFacts DEF IsLaunch
  <2> HIDE DEF x, y
  <2>3. left \in Seq(Nat \X Nat) /\ right \in Seq(Nat \X Nat)
    BY <2>2
  <2>4. /\ Len(left) = 1 /\ Elements(left) = {x} /\ Len(right) = 1 /\ Elements(right) = {y}
        /\ Len(pair) = 2 /\ Elements(pair) = {x, y}
    BY SingleElements, Zenon
  <2> HIDE DEF left, right, pair
  <2>5. Len(left \o right) = Len(pair) /\ Elements(left \o right) = Elements(pair)
    <3>1. Len(left \o right) = Len(left) + Len(right)
          /\ Elements(left \o right) = Elements(left) \cup Elements(right)
      BY <2>3, ConcatReads
    <3>. QED BY <2>4, <3>1
  <2>6. Computes(Element("gelu", left \o right), l, c)
    BY <1>2, <2>1, <2>5 DEF Computes, Element
  <2>. QED BY <1>1, <1>2, <2>6 DEF left, right, x, y
<1>3. CASE l.kernel = "gelu"
  <2>1. MeaningOfLaunch(l, c) = Element("gelu", << << 1, index >> >>)
    BY <1>3 DEF MeaningOfLaunch, Meaning, IndexOf, Shape, ElementwiseTypes
  <2>2. << << 1, index >> >> \o << >> = << << 1, index >> >>
    OBVIOUS
  <2>. QED BY <1>3, <2>1, <2>2 DEF Computes, Element
<1>. QED BY <1>2, <1>3 DEF IsLaunch, IsRow, RowKernels

\* What a thread of a row kernel writes, from reads of the whole row.
LEMMA RowIsComputed ==
  ASSUME NEW l, IsLaunch(l), IsRow(l), NEW c \in Cells(l), block = c[1],
         NEW reads \in Seq(Nat \X Nat), Gathers(l, reads, 0, 1), NEW index, index = IndexOf(l, c),
         NEW f, l.kernel = "rms_norm" => f = l.kernel
  PROVE  Computes(Element(f, reads \o << << 1, index >> >> \o
                    (IF l.kernel = "rms_norm" THEN << << 2, index % l.width >> >> ELSE << >>)),
                  l, c)
<1> DEFINE w == l.width
           line == Along(Shape(l), c, 2)
           row == [ n \in DOMAIN line |-> << 1, Position(Shape(l), line[n]) >> ]
           here == << << 1, index >> >>
           weight == << << 2, c[2] >> >>
<1>1. w \in Nat \ {0} /\ c[1] \in Nat /\ c[2] \in Nat /\ index \in Nat
      /\ (index % w) = c[2] /\ LastOf(c) = c[2]
  BY CellFacts, ColumnOfIndex DEF IsLaunch
<1>2. row \in Seq(Nat \X Nat) /\ Len(row) = w
      /\ Elements(row) = { << 1, c[1] * w + column >> : column \in 0 .. w - 1 }
  BY RowOfCell
<1>3. Len(reads) = w /\ Elements(reads) = Elements(row)
  <2>1. (w - 0 + 1 - 1) = w /\ (w \div 1) = w
    BY <1>1
  <2>2. Len(reads) = w
    BY <2>1 DEF Gathers
  <2>3. \A column \in 0 .. w - 1 : (column % 1) = 0
    BY <1>1
  <2>4. \A read : read \in Elements(reads) <=>
          \E column \in 0 .. w - 1 : read = << 1, c[1] * w + column >>
    BY <2>3 DEF Gathers
  <2>. QED BY <1>2, <2>2, <2>4
<1>4. MeaningOfLine(Shape(l), c, 2) = row \o here
  BY DEF MeaningOfLine, IndexOf
<1> HIDE DEF row, line
<1>5. here \in Seq(Nat \X Nat) /\ weight \in Seq(Nat \X Nat)
  BY <1>1
<1> HIDE DEF here, weight, w
<1>6. /\ reads \o here \in Seq(Nat \X Nat) /\ row \o here \in Seq(Nat \X Nat)
      /\ Len(reads \o here) = Len(row \o here)
      /\ Elements(reads \o here) = Elements(row \o here)
  <2>1. reads \o here \in Seq(Nat \X Nat) /\ Len(reads \o here) = Len(reads) + Len(here)
        /\ Elements(reads \o here) = Elements(reads) \cup Elements(here)
    BY <1>5, ConcatReads
  <2>2. row \o here \in Seq(Nat \X Nat) /\ Len(row \o here) = Len(row) + Len(here)
        /\ Elements(row \o here) = Elements(row) \cup Elements(here)
    BY <1>2, <1>5, ConcatReads
  <2>. QED BY <1>2, <1>3, <2>1, <2>2
<1>7. CASE l.kernel = "rms_norm"
  <2>1. Len(Shape(l)) = 2
    BY DEF Shape
  <2>2. MeaningOfLaunch(l, c) = Element("rms_norm", row \o here \o weight)
    <3>1. MeaningOfLaunch(l, c) =
            Element("rms_norm", MeaningOfLine(Shape(l), c, Len(Shape(l))) \o << << 2, LastOf(c) >> >>)
      BY <1>7 DEF MeaningOfLaunch, Meaning, Shape, ElementwiseTypes
    <3>. QED BY <1>1, <1>4, <2>1, <3>1 DEF weight
  <2>3. /\ Len(reads \o here \o weight) = Len(row \o here \o weight)
        /\ Elements(reads \o here \o weight) = Elements(row \o here \o weight)
    <3>1. Len(reads \o here \o weight) = Len(reads \o here) + Len(weight)
          /\ Elements(reads \o here \o weight) = Elements(reads \o here) \cup Elements(weight)
      BY <1>5, <1>6, ConcatReads
    <3>2. Len(row \o here \o weight) = Len(row \o here) + Len(weight)
          /\ Elements(row \o here \o weight) = Elements(row \o here) \cup Elements(weight)
      BY <1>5, <1>6, ConcatReads
    <3>. QED BY <1>6, <3>1, <3>2
  <2>4. f = "rms_norm"
    BY <1>7
  <2>5. (IF l.kernel = "rms_norm" THEN << << 2, index % l.width >> >> ELSE << >>) = weight
    BY <1>1, <1>7 DEF weight, w
  <2>6. Computes(Element(f, reads \o here \o weight), l, c)
    BY <2>2, <2>3, <2>4 DEF Computes, Element
  <2>. QED BY <2>5, <2>6 DEF here
<1>8. CASE l.kernel = "softmax"
  <2>1. Axis([ type |-> l.kernel, attributes |-> [ axis |-> -1 ] ], Shape(l)) = 2
    BY DEF Axis, Shape
  <2>2. MeaningOfLaunch(l, c) = Element("softmax", row \o here)
    <3>1. MeaningOfLaunch(l, c) =
            Element("softmax", MeaningOfLine(Shape(l), c,
                      Axis([ type |-> l.kernel, attributes |-> [ axis |-> -1 ] ], Shape(l))))
      BY <1>8 DEF MeaningOfLaunch, Meaning, Shape, ElementwiseTypes
    <3>. QED BY <1>4, <2>1, <3>1
  <2>3. reads \o here \o << >> = reads \o here
    BY <1>6
  <2>4. Computes(Element(f, reads \o here), l, c)
    BY <1>6, <1>8, <2>2 DEF Computes, Element
  <2>. QED BY <1>8, <2>3, <2>4 DEF here
<1>. QED BY <1>7, <1>8 DEF IsRow, RowKernels

(***************************************************************************)
(* What the threads of a row gather.                                       *)
(***************************************************************************)

\* The columns of one thread: those with its remainder, each once.
LEMMA StridedColumns ==
  ASSUME NEW w \in Nat \ {0}, NEW size \in Nat \ {0}, NEW lane \in 0 .. size - 1,
         NEW n \in Int, n = ((w - lane + size - 1) \div size)
  PROVE  /\ n \in Nat
         /\ \A k \in 1 .. n : /\ lane + (k - 1) * size \in 0 .. w - 1
                              /\ ((lane + (k - 1) * size) % size) = lane
         /\ \A column \in 0 .. w - 1 :
              (column % size) = lane => \E k \in 1 .. n : column = lane + (k - 1) * size
<1>1. PICK rest \in 0 .. size - 1 : w - lane + size - 1 = size * n + rest
  <2> DEFINE top == w - lane + size - 1
  <2>1. top \in Int
    OBVIOUS
  <2>2. n = (top \div size)
    OBVIOUS
  <2> HIDE DEF top
  <2>3. top = size * n + (top % size) /\ (top % size) \in 0 .. size - 1
    BY <2>1, <2>2, DivisionFacts
  <2>4. PICK rest \in 0 .. size - 1 : top = size * n + rest
    BY <2>3
  <2>. QED BY <2>4 DEF top
<1>2. n \in Nat
  <2>1. w - lane + size - 1 > 0
    OBVIOUS
  <2>2. CASE n < 0
    <3>1. n + 1 <= 0
      BY <2>2
    <3>2. size * (n + 1) <= 0
      BY <3>1
    <3>3. size * (n + 1) = size * n + size
      OBVIOUS
    <3>4. size * n \in Int
      OBVIOUS
    <3>. QED BY <1>1, <2>1, <3>2, <3>3, <3>4
  <2>. QED BY <2>2
<1>3. ASSUME NEW k \in 1 .. n
      PROVE  /\ lane + (k - 1) * size \in 0 .. w - 1
             /\ ((lane + (k - 1) * size) % size) = lane
  <2>1. size * k <= size * n
    <3>1. n - k \in Nat
      BY <1>2
    <3>2. size * (n - k) >= 0
      BY <3>1
    <3>3. size * (n - k) = size * n - size * k
      BY <1>2
    <3>4. size * n \in Int /\ size * k \in Int
      BY <1>2
    <3>. QED BY <3>2, <3>3, <3>4
  <2>2. (k - 1) * size = size * k - size /\ size * k \in Int /\ size * n \in Int
    BY <1>2
  <2>3. k - 1 \in Nat
    BY <1>2
  <2>4. (k - 1) * size \in Nat
    BY <2>3
  <2>5. ((k - 1) * size + lane) % size = lane
    BY <2>3, QuotientAndRemainder
  <2>6. lane + (k - 1) * size = (k - 1) * size + lane
    BY <2>4
  <2>7. lane + (k - 1) * size \in 0 .. w - 1
    BY <1>1, <2>1, <2>2, <2>4
  <2>. QED BY <2>5, <2>6, <2>7
<1>4. ASSUME NEW column \in 0 .. w - 1, (column % size) = lane
      PROVE  \E k \in 1 .. n : column = lane + (k - 1) * size
  <2>1. PICK q \in Int : column = size * q + lane
    <3>1. column = size * (column \div size) + (column % size) /\ (column \div size) \in Int
      BY DivisionFacts
    <3>. QED BY <1>4, <3>1
  <2>2. q >= 0
    <3>1. CASE q + 1 <= 0
      <4>1. size * (q + 1) <= 0
        BY <3>1
      <4>2. size * (q + 1) = size * q + size /\ size * q \in Int
        OBVIOUS
      <4>. QED BY <2>1, <4>1, <4>2
    <3>. QED BY <3>1
  <2>3. q + 1 <= n
    <3>1. CASE n + 1 <= q + 1
      <4>1. n <= q
        BY <1>2, <3>1
      <4>2. size * (q - n) >= 0
        BY <1>2, <4>1
      <4>3. size * (q - n) = size * q - size * n /\ size * q \in Int /\ size * n \in Int
        BY <1>2
      <4>. QED BY <1>1, <2>1, <4>2, <4>3
    <3>. QED BY <1>2, <3>1
  <2>4. q + 1 \in 1 .. n /\ q + 1 - 1 = q /\ q * size = size * q
    BY <1>2, <2>2, <2>3
  <2>5. lane + q * size = column
    <3>1. size * q \in Int
      OBVIOUS
    <3>. QED BY <2>1, <2>4, <3>1
  <2>. QED BY <2>4, <2>5
<1>. QED BY <1>2, <1>3, <1>4

\* What a thread publishes.
LEMMA StridedGathers ==
  ASSUME NEW l, IsLaunch(l), block \in Nat, NEW lane \in Lanes, Launch = l
  PROVE  LET own == Strided(lane)
             reads == [ n \in DOMAIN own |-> << 1, own[n] >> ]
         IN  /\ reads \in Seq(Nat \X Nat) /\ Gathers(l, reads, lane, BlockSize)
             /\ \A index : index \in Elements(own) <=>
                  \E column \in 0 .. l.width - 1 :
                    column % BlockSize = lane /\ index = block * l.width + column
<1> DEFINE w == l.width
           own == Strided(lane)
           reads == [ n \in DOMAIN own |-> << 1, own[n] >> ]
           size == BlockSize
           m == (w - lane + size - 1) \div size
<1>1. w \in Nat \ {0} /\ size \in Nat \ {0} /\ lane \in 0 .. size - 1
  BY BlockSizeFacts DEF IsLaunch, Lanes
<1>2. own = [ n \in 1 .. m |-> block * w + lane + (n - 1) * size ]
  BY DEF Strided
<1>3. PICK count \in Int : count = m
  <2>1. w - lane + size - 1 \in Int
    BY <1>1
  <2>. QED BY <1>1, <2>1, DivisionFacts
<1> HIDE DEF m, size, w
<1>4. /\ count \in Nat
      /\ \A k \in 1 .. count : /\ lane + (k - 1) * size \in 0 .. w - 1
                               /\ ((lane + (k - 1) * size) % size) = lane
      /\ \A column \in 0 .. w - 1 :
           (column % size) = lane => \E k \in 1 .. count : column = lane + (k - 1) * size
  <2>1. count = ((w - lane + size - 1) \div size)
    BY <1>3 DEF m
  <2>. QED BY <1>1, <1>3, <2>1, StridedColumns, ZenonT(30)
<1> HIDE DEF own
<1>5. ASSUME NEW k \in 1 .. count
      PROVE  own[k] = block * w + (lane + (k - 1) * size) /\ own[k] \in Nat
  <2>1. block * w \in Nat /\ (k - 1) * size \in Int
    BY <1>1
  <2>2. own[k] = block * w + lane + (k - 1) * size
    BY <1>2, <1>3
  <2>. QED BY <1>1, <1>4, <2>1, <2>2
<1>6. DOMAIN own = 1 .. count
  BY <1>2, <1>3
<1>7. \A index : index \in Elements(own) <=>
        \E column \in 0 .. w - 1 : (column % size) = lane /\ index = block * w + column
  <2>1. ASSUME NEW k \in 1 .. count
        PROVE  \E column \in 0 .. w - 1 : (column % size) = lane /\ own[k] = block * w + column
    BY <1>4, <1>5
  <2>2. ASSUME NEW column \in 0 .. w - 1, (column % size) = lane
        PROVE  block * w + column \in Elements(own)
    <3>1. PICK k \in 1 .. count : column = lane + (k - 1) * size
      BY <1>4, <2>2
    <3>2. own[k] = block * w + column
      BY <1>5, <3>1
    <3>. QED BY <1>6, <3>2 DEF Elements
  <2>. QED BY <1>6, <2>1, <2>2 DEF Elements
<1>8. reads \in [ 1 .. count -> Nat \X Nat ]
  BY <1>5, <1>6
<1>9. reads \in Seq(Nat \X Nat) /\ Len(reads) = count /\ DOMAIN reads = 1 .. count
  <2> HIDE DEF reads
  <2>. QED BY <1>4, <1>8, FunctionToSequence
<1>10. \A read : read \in Elements(reads) <=> \E index \in Elements(own) : read = << 1, index >>
  BY <1>6 DEF Elements
<1>11. \A read : read \in Elements(reads) <=>
        \E column \in 0 .. w - 1 : (column % size) = lane /\ read = << 1, block * w + column >>
  <2> HIDE DEF reads
  <2>. QED BY <1>7, <1>10
<1> HIDE DEF reads
<1>12. Gathers(l, reads, lane, size)
  BY <1>3, <1>9, <1>11 DEF Gathers, m, w
<1>. QED BY <1>7, <1>9, <1>12 DEF reads, own, size, w

\* A turn of the tree: what two lanes have gathered is what the first has to have.
LEMMA HalvesGather ==
  ASSUME NEW l, IsLaunch(l), NEW stride \in Powers, NEW lane \in 0 .. stride - 1,
         NEW left \in Seq(Nat \X Nat), NEW right \in Seq(Nat \X Nat),
         Gathers(l, left, lane, 2 * stride), Gathers(l, right, lane + stride, 2 * stride)
  PROVE  left \o right \in Seq(Nat \X Nat) /\ Gathers(l, left \o right, lane, stride)
<1> DEFINE w == l.width
           m == 2 * stride
           y == w - lane + stride - 1
<1>1. w \in Nat \ {0} /\ stride \in Nat \ {0}
  BY HalfOfPower DEF IsLaunch
<1>2. /\ left \o right \in Seq(Nat \X Nat) /\ Len(left \o right) = Len(left) + Len(right)
      /\ Elements(left \o right) = Elements(left) \cup Elements(right)
  BY ConcatReads
<1>3. y \in Int /\ w - lane + m - 1 = y + stride /\ w - (lane + stride) + m - 1 = y
  BY <1>1
<1>4. Len(left) = ((y + stride) \div m) /\ Len(right) = (y \div m)
  BY <1>3 DEF Gathers
<1>5. ((y + stride) \div m) + (y \div m) = (y \div stride)
  BY <1>3, HalvesOfPower
<1>6. Len(left \o right) = (y \div stride)
  BY <1>2, <1>4, <1>5
<1>7. \A column \in 0 .. w - 1 :
        (column % stride) = lane <=> ((column % m) = lane \/ (column % m) = lane + stride)
  <2>. TAKE column \in 0 .. w - 1
  <2>1. column \in Int
    BY <1>1
  <2>. QED BY <1>1, <2>1, RemaindersOfPower
<1>8. \A read : read \in Elements(left) <=>
        \E column \in 0 .. w - 1 : (column % m) = lane /\ read = << 1, block * w + column >>
  BY DEF Gathers
<1>9. \A read : read \in Elements(right) <=>
        \E column \in 0 .. w - 1 : (column % m) = lane + stride /\ read = << 1, block * w + column >>
  BY DEF Gathers
<1> HIDE DEF w, m, y
<1>10. \A read : read \in Elements(left \o right) <=>
        \E column \in 0 .. w - 1 : (column % stride) = lane /\ read = << 1, block * w + column >>
  BY <1>2, <1>7, <1>8, <1>9
<1>. QED BY <1>2, <1>6, <1>10 DEF Gathers, w, y

(***************************************************************************)
(* The steps of the device.                                                *)
(***************************************************************************)

\* The meaning of a cell does not change, only the output.
LEMMA ComputedLater ==
  ASSUME NEW l, NEW c
  PROVE  IsComputed(l, c)' <=> Computes(output'[calls'][IndexOf(l, c)], l, c)
BY DEF IsComputed

\* A launch is under way.
LEMMA BusyDevice ==
  ASSUME NEW l, DeviceInv(l), HasOutputs, stream # << >>
  PROVE  /\ Launch = l /\ IsLaunch(l) /\ l.buffer = calls /\ HasBuffer(l)
         /\ GridOf(l) \in Nat
         /\ calls \in 1 .. calls /\ DOMAIN output = 1 .. calls
         /\ block # NoBlock => block \in Nat
<1>1. stream \in Seq({l}) /\ Len(stream) # 0 /\ Len(stream) \in Nat
  <2>1. stream \in Seq({l})
    BY DEF DeviceInv
  <2>. QED BY <2>1, LenProperties, EmptySeq
<1>2. stream[1] \in {l}
  <2>1. 1 \in 1 .. Len(stream)
    BY <1>1
  <2>2. stream \in [ 1 .. Len(stream) -> {l} ]
    BY <1>1, LenProperties
  <2>. QED BY <2>1, <2>2
<1>3. IsLaunch(l) /\ l.buffer = calls /\ HasBuffer(l)
  BY DEF DeviceInv
<1>4. GridOf(l) \in Nat
  <2>1. l.rows \in Nat /\ l.width \in Nat /\ BlockSize \in Nat \ {0}
    BY <1>3, BlockSizeFacts DEF IsLaunch
  <2>2. l.rows * l.width \in Nat
    BY <2>1
  <2>3. l.rows * l.width + BlockSize - 1 \in Nat
    BY <2>1, <2>2
  <2>4. ((l.rows * l.width + BlockSize - 1) \div BlockSize) \in Nat
    <3>1. PICK t \in Nat : t = l.rows * l.width + BlockSize - 1
      BY <2>3
    <3>2. (t \div BlockSize) \in Nat
      BY <2>1
    <3>. QED BY <3>1, <3>2
  <2>. QED BY <2>1, <2>4 DEF GridOf
<1>5. calls \in 1 .. calls /\ DOMAIN output = 1 .. calls
  BY <1>3 DEF HasOutputs, HasBuffer
<1>6. block # NoBlock => block \in Nat
  <2>1. blocks \subseteq 0 .. GridOf(l) - 1 /\ (block # NoBlock => block \in blocks)
    BY DEF DeviceInv
  <2>2. 0 .. GridOf(l) - 1 \subseteq Nat
    BY <1>4
  <2>. QED BY <2>1, <2>2
<1>. QED BY <1>2, <1>3, <1>4, <1>5, <1>6 DEF Launch

\* A step of a thread keeps the invariant if what it writes is right and the block
\* stays in order.
LEMMA ThreadPreserves ==
  ASSUME NEW l, DeviceInv(l), stream # << >>, block # NoBlock,
         UNCHANGED << stream, blocks, block, calls >>, HasBuffer(l)',
         shared' \in [ Lanes -> StoredElements ], threads' \in [ Lanes -> Registers ],
         \A c \in Cells(l) : IsComputed(l, c) => IsComputed(l, c)',
         RunningInv(l)'
  PROVE  DeviceInv(l)'
<1>1. \A b : BlockIsComputed(l, b) => BlockIsComputed(l, b)'
  BY DEF BlockIsComputed
<1>. QED BY <1>1 DEF DeviceInv

\* What was computed stays while nothing writes the output.
LEMMA QuietOutput ==
  ASSUME NEW l, UNCHANGED << output, calls >>
  PROVE  /\ HasOutputs' <=> HasOutputs
         /\ HasBuffer(l)' <=> HasBuffer(l)
         /\ \A c : IsComputed(l, c)' <=> IsComputed(l, c)
BY ComputedLater DEF HasOutputs, HasBuffer, IsComputed

\* A thread of an elementwise kernel writes its element, if it has one.
LEMMA MapPreserves ==
  ASSUME NEW l, DeviceInv(l), HasOutputs, stream # << >>, block # NoBlock, NEW lane \in Lanes,
         Map(lane), UNCHANGED calls
  PROVE  DeviceInv(l)' /\ HasOutputs'
<1> DEFINE index == block * BlockSize + lane
           size == l.rows * l.width
           e == Element("gelu", << << 1, index >> >> \o
                  (IF l.kernel = "fused_bias_gelu" THEN << << 2, index % l.width >> >> ELSE << >>))
<1>1. /\ Launch = l /\ IsLaunch(l) /\ l.buffer = calls /\ HasBuffer(l)
      /\ calls \in 1 .. calls /\ DOMAIN output = 1 .. calls /\ block \in Nat
  BY BusyDevice
<1>2. threads[lane].at = "map" /\ threads \in [ Lanes -> Registers ] /\ RunningInv(l)
  BY DEF Map, DeviceInv
<1>3. ~IsRow(l) /\ Mapping(l)
  BY <1>2 DEF RunningInv, Publishing, Folding, Collecting
<1>4. BlockSize \in Nat \ {0} /\ index \in Nat /\ lane \in 0 .. BlockSize - 1 /\ size \in Nat
  BY <1>1, BlockSizeFacts DEF Lanes, IsLaunch
<1>5. output' = IF index < size THEN [ output EXCEPT ![calls][index] = e ] ELSE output
  BY <1>1 DEF Map
<1>6. UNCHANGED << stream, blocks, block, shared >>
      /\ threads' = [ threads EXCEPT ![lane].at = "done" ]
  BY DEF Map
<1> HIDE DEF index, e, size
<1>7. /\ DOMAIN output' = 1 .. calls /\ output' = [ k \in 1 .. calls |-> output'[k] ]
      /\ DOMAIN output'[calls] = DOMAIN output[calls]
      /\ \A i \in DOMAIN output[calls] :
           output'[calls][i] = IF i = index /\ index < size THEN e ELSE output[calls][i]
  <2>1. output = [ k \in 1 .. calls |-> output[k] ]
    BY DEF HasOutputs
  <2>2. CASE index < size
    <3>1. output' = [ k \in 1 .. calls |->
                       IF k = calls THEN [ output[calls] EXCEPT ![index] = e ] ELSE output[k] ]
      BY <1>1, <1>5, <2>2
    <3>2. DOMAIN output' = 1 .. calls /\ output' = [ k \in 1 .. calls |-> output'[k] ]
          /\ output'[calls] = [ output[calls] EXCEPT ![index] = e ]
      BY <1>1, <3>1
    <3>. QED BY <2>2, <3>2
  <2>3. CASE ~(index < size)
    BY <1>1, <1>5, <2>1, <2>3
  <2>. QED BY <2>2, <2>3
<1>8. HasOutputs' /\ HasBuffer(l)'
  BY <1>1, <1>7 DEF HasOutputs, HasBuffer
<1>9. ASSUME NEW c \in Cells(l), IndexOf(l, c) = index
      PROVE  IsComputed(l, c)'
  <2>1. index \in 0 .. size - 1 /\ DOMAIN output[calls] = 0 .. size - 1
    BY <1>1, <1>9, CellFacts DEF HasBuffer, size
  <2>2. output'[calls][index] = e
    BY <1>4, <1>7, <2>1
  <2>3. Computes(e, l, c)
    BY <1>1, <1>3, <1>9, ElementwiseIsComputed DEF e
  <2>. QED BY <1>9, <2>2, <2>3, ComputedLater
<1>10. ASSUME NEW c \in Cells(l), IsComputed(l, c)
       PROVE  IsComputed(l, c)'
  <2>1. CASE IndexOf(l, c) = index
    BY <1>9, <2>1
  <2>2. CASE IndexOf(l, c) # index
    <3>1. IndexOf(l, c) \in DOMAIN output[calls]
      BY <1>1, CellFacts DEF HasBuffer
    <3>2. output'[calls][IndexOf(l, c)] = output[calls][IndexOf(l, c)]
      BY <1>7, <2>2, <3>1
    <3>. QED BY <1>10, <3>2, ComputedLater DEF IsComputed
  <2>. QED BY <2>1, <2>2
<1>11. LaneIsComputed(l, lane)'
  <2>1. ASSUME NEW c \in Cells(l), BlockOf(l, c) = block, LaneOf(l, c) = lane
        PROVE  IndexOf(l, c) = index
    <3>1. (IndexOf(l, c) \div BlockSize) = block /\ (IndexOf(l, c) % BlockSize) = lane
      BY <1>3, <2>1 DEF BlockOf, LaneOf
    <3>2. IndexOf(l, c) \in Int
      BY <1>1, CellFacts
    <3>3. IndexOf(l, c) = BlockSize * (IndexOf(l, c) \div BlockSize) + (IndexOf(l, c) % BlockSize)
      BY <1>4, <3>2, DivisionFacts
    <3>4. IndexOf(l, c) = BlockSize * block + lane /\ BlockSize * block = block * BlockSize
      BY <1>1, <1>4, <3>1, <3>3
    <3>. QED BY <3>4 DEF index
  <2>. QED BY <1>6, <1>9, <2>1 DEF LaneIsComputed
<1>12. threads' \in [ Lanes -> Registers ]
  BY <1>2, <1>6 DEF Registers
<1>13. Mapping(l)'
  <2>1. ASSUME NEW other \in Lanes
        PROVE  /\ threads'[other].at \in {"map", "done"}
               /\ threads'[other].at = "done" => LaneIsComputed(l, other)'
    <3>1. CASE other = lane
      BY <1>2, <1>6, <1>11, <3>1
    <3>2. CASE other # lane
      <4>1. threads'[other] = threads[other]
        BY <1>2, <1>6, <3>2
      <4>2. LaneIsComputed(l, other) => LaneIsComputed(l, other)'
        BY <1>6, <1>10 DEF LaneIsComputed
      <4>. QED BY <1>3, <4>1, <4>2 DEF Mapping
    <3>. QED BY <3>1, <3>2
  <2>. QED BY <2>1 DEF Mapping
<1>14. RunningInv(l)'
  BY <1>3, <1>13 DEF RunningInv, IsRow
<1>15. shared' \in [ Lanes -> StoredElements ]
  BY <1>6 DEF DeviceInv
<1>. QED BY <1>6, <1>8, <1>10, <1>12, <1>14, <1>15, ThreadPreserves

\* No thread of a row kernel reads or writes what another writes in the same turn.
LEMMA GatheredLater ==
  ASSUME NEW l, NEW lane, NEW m, shared'[lane] = shared[lane], block' = block, Gathered(l, lane, m)
  PROVE  Gathered(l, lane, m)'
BY DEF Gathered, Gathers

\* A thread publishes the columns it strides over, into its own place.
LEMMA PublishPreserves ==
  ASSUME NEW l, DeviceInv(l), HasOutputs, stream # << >>, block # NoBlock, NEW lane \in Lanes,
         Publish(lane), UNCHANGED calls
  PROVE  DeviceInv(l)' /\ HasOutputs'
<1> DEFINE own == Strided(lane)
           reads == [ n \in DOMAIN own |-> << 1, own[n] >> ]
           f == IF ReducesMaximum(lane) THEN "max" ELSE "sum"
<1>1. Launch = l /\ IsLaunch(l) /\ block \in Nat /\ HasBuffer(l)
  BY BusyDevice
<1>2. /\ threads[lane].at = "load" /\ threads \in [ Lanes -> Registers ] /\ RunningInv(l)
      /\ shared \in [ Lanes -> StoredElements ]
  BY DEF Publish, DeviceInv
<1>3. IsRow(l) /\ Publishing(l)
  BY <1>2 DEF RunningInv, Mapping, Folding, Collecting
<1>4. reads \in Seq(Nat \X Nat) /\ Gathers(l, reads, lane, BlockSize)
  BY <1>1, StridedGathers
<1>5. /\ shared' = [ shared EXCEPT ![lane] = Element(f, reads) ]
      /\ threads' = [ threads EXCEPT ![lane].at = "barrier", ![lane].stride = BlockSize \div 2 ]
      /\ UNCHANGED << stream, blocks, block, output >>
  BY DEF Publish
<1>6. f = "max" \/ f = "sum"
  OBVIOUS
<1> HIDE DEF own, reads, f
<1>7. Element(f, reads) \in StoredElements
  BY <1>4, <1>6 DEF StoredElements, Element
<1>8. shared' \in [ Lanes -> StoredElements ]
  BY <1>2, <1>5, <1>7
<1>9. (BlockSize \div 2) \in Nat
  BY BlockSizeFacts, HalfOfPower
<1>10. /\ threads' \in [ Lanes -> Registers ]
       /\ threads'[lane].at = "barrier" /\ threads'[lane].stride = (BlockSize \div 2)
       /\ \A other \in Lanes : threads'[other].maximum = threads[other].maximum
       /\ \A other \in Lanes : other # lane =>
            threads'[other] = threads[other] /\ shared'[other] = shared[other]
  BY <1>2, <1>5, <1>9 DEF Registers
<1>11. shared'[lane].f # "none" /\ Gathered(l, lane, BlockSize)'
  <2>1. shared'[lane].f = f /\ shared'[lane].reads = reads
    BY <1>2, <1>5 DEF Element
  <2>2. PICK published : published = reads
    OBVIOUS
  <2>3. Gathers(l, published, lane, BlockSize)'
    BY <1>4, <1>5, <2>2 DEF Gathers
  <2>4. shared'[lane].reads = published
    BY <2>1, <2>2
  <2>5. Gathers(l, shared[lane].reads, lane, BlockSize)'
    BY <2>3, <2>4 DEF Gathers
  <2>. QED BY <1>6, <2>1, <2>5 DEF Gathered
<1>12. Publishing(l)'
  <2>1. ASSUME NEW other \in Lanes
        PROVE  \/ threads'[other].at = "load"
               \/ threads'[other].at = "barrier" /\ threads'[other].stride = (BlockSize \div 2)
                  /\ Gathered(l, other, BlockSize)'
               \/ threads'[other].at = "collect" /\ l.kernel = "softmax"
    <3>1. CASE other = lane
      BY <1>10, <1>11, <3>1
    <3>2. CASE other # lane
      <4>1. threads'[other] = threads[other] /\ shared'[other] = shared[other] /\ block' = block
        BY <1>5, <1>10, <3>2
      <4>2. Gathered(l, other, BlockSize) => Gathered(l, other, BlockSize)'
        BY <4>1, GatheredLater
      <4>. QED BY <1>3, <4>1, <4>2 DEF Publishing
    <3>. QED BY <3>1, <3>2
  <2>2. CASE \A other \in Lanes : threads[other].at # "collect" /\ threads[other].maximum = Nothing
    <3>1. \A other \in Lanes : threads'[other].at # "collect" /\ threads'[other].maximum = Nothing
      BY <1>10, <2>2
    <3>. QED BY <2>1, <3>1 DEF Publishing, Nothing, Element
  <2>3. CASE /\ \A other \in Lanes : threads[other].at = "collect" <=> threads[other].maximum = Nothing
             /\ shared[0].f # "none"
    <3>1. \A other \in Lanes : threads'[other].at = "collect" <=> threads'[other].maximum = Nothing
      BY <1>2, <1>10, <2>3
    <3>2. shared'[0].f # "none"
      <4>1. 0 \in Lanes
        BY BlockSizeFacts DEF Lanes
      <4>. QED BY <1>10, <1>11, <2>3, <4>1
    <3>. QED BY <2>1, <3>1, <3>2 DEF Publishing, Nothing, Element
  <2>. QED BY <1>3, <2>2, <2>3 DEF Publishing
<1>13. RunningInv(l)'
  BY <1>3, <1>12 DEF RunningInv, IsRow
<1>14. HasOutputs' /\ HasBuffer(l)' /\ \A c : IsComputed(l, c) => IsComputed(l, c)'
  BY <1>1, <1>5, QuietOutput
<1>. QED BY <1>5, <1>8, <1>10, <1>13, <1>14, ThreadPreserves

\* A thread that has the maximum starts to sum, while others have yet to collect it.
LEMMA CollectMaximumPreserves ==
  ASSUME NEW l, DeviceInv(l), HasOutputs, stream # << >>, block # NoBlock, NEW lane \in Lanes,
         CollectMaximum(lane), UNCHANGED calls
  PROVE  DeviceInv(l)' /\ HasOutputs'
<1>1. Launch = l /\ IsLaunch(l) /\ block \in Nat /\ HasBuffer(l)
  BY BusyDevice
<1>2. /\ threads[lane].at = "collect" /\ threads \in [ Lanes -> Registers ] /\ RunningInv(l)
      /\ shared \in [ Lanes -> StoredElements ]
  BY DEF CollectMaximum, DeviceInv
<1>3. l.kernel = "softmax" /\ threads[lane].maximum = Nothing
  BY <1>1 DEF CollectMaximum, ReducesMaximum
<1>4. IsRow(l) /\ Publishing(l)
  BY <1>2, <1>3 DEF RunningInv, IsRow, RowKernels, Folding, Collecting
<1>5. /\ \A other \in Lanes : threads[other].at = "collect" <=> threads[other].maximum = Nothing
      /\ shared[0].f # "none"
  BY <1>2, <1>4 DEF Publishing
<1>6. /\ threads' = [ threads EXCEPT ![lane].at = "load", ![lane].maximum = shared[0] ]
      /\ UNCHANGED << stream, blocks, block, shared, output >>
  BY DEF CollectMaximum
<1>7. shared[0] \in StoredElements /\ shared[0] # Nothing
  <2>1. 0 \in Lanes
    BY BlockSizeFacts DEF Lanes
  <2>. QED BY <1>2, <1>5, <2>1 DEF Nothing, Element
<1>8. /\ threads' \in [ Lanes -> Registers ]
      /\ threads'[lane].at = "load" /\ threads'[lane].maximum # Nothing
      /\ \A other \in Lanes : other # lane => threads'[other] = threads[other]
  BY <1>2, <1>6, <1>7 DEF Registers
<1>9. Publishing(l)'
  <2>1. ASSUME NEW other \in Lanes
        PROVE  \/ threads'[other].at = "load"
               \/ threads'[other].at = "barrier" /\ threads'[other].stride = (BlockSize \div 2)
                  /\ Gathered(l, other, BlockSize)'
               \/ threads'[other].at = "collect" /\ l.kernel = "softmax"
    <3>1. CASE other = lane
      BY <1>8, <3>1
    <3>2. CASE other # lane
      <4>1. threads'[other] = threads[other] /\ shared'[other] = shared[other] /\ block' = block
        BY <1>6, <1>8, <3>2
      <4>2. Gathered(l, other, BlockSize) => Gathered(l, other, BlockSize)'
        BY <4>1, GatheredLater
      <4>. QED BY <1>4, <4>1, <4>2 DEF Publishing
    <3>. QED BY <3>1, <3>2
  <2>2. \A other \in Lanes : threads'[other].at = "collect" <=> threads'[other].maximum = Nothing
    BY <1>5, <1>8
  <2>3. shared'[0].f # "none"
    BY <1>5, <1>6
  <2>. QED BY <2>1, <2>2, <2>3 DEF Publishing, Nothing, Element
<1>10. RunningInv(l)'
  BY <1>4, <1>9 DEF RunningInv, IsRow
<1>11. HasOutputs' /\ HasBuffer(l)' /\ \A c : IsComputed(l, c) => IsComputed(l, c)'
  BY <1>1, <1>6, QuietOutput
<1>12. shared' \in [ Lanes -> StoredElements ]
  BY <1>2, <1>6
<1>. QED BY <1>6, <1>8, <1>10, <1>11, <1>12, ThreadPreserves

\* A turn reads the half that no thread writes in this turn.
LEMMA FoldPreserves ==
  ASSUME NEW l, DeviceInv(l), HasOutputs, stream # << >>, block # NoBlock, NEW lane \in Lanes,
         Fold(lane), UNCHANGED calls
  PROVE  DeviceInv(l)' /\ HasOutputs'
<1>1. Launch = l /\ IsLaunch(l) /\ block \in Nat /\ HasBuffer(l)
  BY BusyDevice
<1>2. /\ threads[lane].at = "fold" /\ threads \in [ Lanes -> Registers ] /\ RunningInv(l)
      /\ shared \in [ Lanes -> StoredElements ]
  BY DEF Fold, DeviceInv
<1>3. PICK stride \in Strides : IsRow(l) /\ Folding(l, stride)
  BY <1>2 DEF RunningInv, Mapping, Publishing, Collecting
<1>4. /\ threads[lane].stride = stride /\ SamePass
      /\ lane < 2 * stride => Gathered(l, lane, 2 * stride)
  BY <1>2, <1>3 DEF Folding
<1>5. stride \in Powers /\ stride \in Nat \ {0} /\ (stride \div 2) \in Nat /\ 2 * stride <= BlockSize
  BY HalfOfPower DEF Strides
<1>6. BlockSize \in Nat /\ lane \in 0 .. BlockSize - 1
  BY BlockSizeFacts DEF Lanes
<1>7. /\ shared' = IF lane < stride
                   THEN [ shared EXCEPT ![lane].reads = shared[lane].reads \o shared[lane + stride].reads ]
                   ELSE shared
      /\ threads' = [ threads EXCEPT ![lane].at = "barrier", ![lane].stride = stride \div 2 ]
      /\ UNCHANGED << stream, blocks, block, output >>
  BY <1>4 DEF Fold
<1>8. /\ threads' \in [ Lanes -> Registers ]
      /\ threads'[lane].at = "barrier" /\ threads'[lane].stride = (stride \div 2)
      /\ \A other \in Lanes : threads'[other].maximum = threads[other].maximum
      /\ \A other \in Lanes : other # lane =>
           threads'[other] = threads[other] /\ shared'[other] = shared[other]
  BY <1>2, <1>5, <1>7 DEF Registers
<1>9. ASSUME lane < stride
      PROVE  shared'[lane] \in StoredElements /\ Gathered(l, lane, stride)'
  <2>1. lane + stride \in Lanes /\ lane + stride < 2 * stride /\ stride <= lane + stride
        /\ lane < 2 * stride /\ lane \in 0 .. stride - 1
    BY <1>5, <1>6, <1>9 DEF Lanes
  <2>2. Gathered(l, lane + stride, 2 * stride)
    BY <1>3, <2>1 DEF Folding
  <2>3. Gathered(l, lane, 2 * stride)
    BY <1>4, <2>1
  <2> DEFINE both == shared[lane].reads \o shared[lane + stride].reads
  <2>4. shared[lane].reads \in Seq(Nat \X Nat) /\ shared[lane + stride].reads \in Seq(Nat \X Nat)
    BY <1>2, <2>1 DEF StoredElements
  <2>5. both \in Seq(Nat \X Nat) /\ Gathers(l, both, lane, stride)
    BY <1>1, <1>5, <2>1, <2>2, <2>3, <2>4, HalvesGather DEF Gathered
  <2>6. PICK gathered : gathered = both
    OBVIOUS
  <2> HIDE DEF both
  <2>7. shared'[lane] = [ shared[lane] EXCEPT !.reads = gathered ]
    BY <1>2, <1>7, <1>9, <2>6 DEF both
  <2>8. shared'[lane] \in StoredElements /\ shared'[lane].f = shared[lane].f
        /\ shared'[lane].reads = gathered
    BY <1>2, <2>5, <2>6, <2>7 DEF StoredElements
  <2>9. Gathers(l, shared[lane].reads, lane, stride)'
    BY <1>7, <2>5, <2>6, <2>8 DEF Gathers
  <2>. QED BY <2>3, <2>8, <2>9 DEF Gathered
<1>10. shared' \in [ Lanes -> StoredElements ]
  <2>1. shared'[lane] \in StoredElements
    BY <1>2, <1>7, <1>9
  <2>2. \A other \in Lanes : shared'[other] \in StoredElements
    BY <1>2, <1>8, <2>1
  <2>3. shared' = [ other \in Lanes |-> shared'[other] ]
    BY <1>2, <1>7
  <2>. QED BY <2>2, <2>3
<1>11. Folding(l, stride)'
  <2>1. ASSUME NEW other \in Lanes
        PROVE  \/ /\ threads'[other].at = "fold" /\ threads'[other].stride = stride
                  /\ other < 2 * stride => Gathered(l, other, 2 * stride)'
               \/ /\ threads'[other].at = "barrier" /\ threads'[other].stride = (stride \div 2)
                  /\ other < stride => Gathered(l, other, stride)'
                  /\ stride <= other /\ other < 2 * stride => Gathered(l, other, 2 * stride)'
    <3>1. CASE other = lane
      <4>1. ASSUME stride <= lane, lane < 2 * stride
            PROVE  Gathered(l, lane, 2 * stride)'
        <5>2. ~(lane < stride)
          BY <1>5, <1>6, <4>1
        <5>1. shared' = shared /\ block' = block
          BY <1>7, <5>2
        <5>. QED BY <1>4, <4>1, <5>1, GatheredLater
      <4>. QED BY <1>8, <1>9, <3>1, <4>1
    <3>2. CASE other # lane
      <4>1. threads'[other] = threads[other] /\ shared'[other] = shared[other] /\ block' = block
        BY <1>7, <1>8, <3>2
      <4>2. \A m : Gathered(l, other, m) => Gathered(l, other, m)'
        BY <4>1, GatheredLater
      <4>. QED BY <1>3, <4>1, <4>2 DEF Folding
    <3>. QED BY <3>1, <3>2
  <2>2. SamePass'
    BY <1>4, <1>8 DEF SamePass, Nothing, Element
  <2>. QED BY <2>1, <2>2 DEF Folding
<1>12. RunningInv(l)'
  BY <1>3, <1>11 DEF RunningInv, IsRow
<1>13. HasOutputs' /\ HasBuffer(l)' /\ \A c : IsComputed(l, c) => IsComputed(l, c)'
  BY <1>1, <1>7, QuietOutput
<1>. QED BY <1>7, <1>8, <1>10, <1>12, <1>13, ThreadPreserves

\* The elements a lane of a row kernel writes are those of its cells.
LEMMA OwnCells ==
  ASSUME NEW l, IsLaunch(l), IsRow(l), Launch = l, block \in Nat, NEW lane \in Lanes,
         NEW c \in Cells(l)
  PROVE  IndexOf(l, c) \in Elements(Strided(lane)) <=>
           BlockOf(l, c) = block /\ LaneOf(l, c) = lane
<1> DEFINE w == l.width
<1>1. w \in Nat \ {0} /\ c[1] \in Nat /\ c[2] \in 0 .. w - 1 /\ IndexOf(l, c) = c[1] * w + c[2]
  BY CellFacts DEF IsLaunch
<1>2. BlockOf(l, c) = c[1] /\ LaneOf(l, c) = (c[2] % BlockSize)
  BY DEF BlockOf, LaneOf
<1>3. \A index : index \in Elements(Strided(lane)) <=>
        \E column \in 0 .. w - 1 : (column % BlockSize) = lane /\ index = block * w + column
  BY StridedGathers
<1> HIDE DEF w
<1>4. ASSUME NEW column \in 0 .. w - 1, c[1] * w + c[2] = block * w + column
      PROVE  c[1] = block /\ c[2] = column
  <2>1. c[1] \in Int /\ block \in Int
    BY <1>1
  <2>2. PICK a \in Int, b \in 0 .. w - 1, d \in Int : a = c[1] /\ b = c[2] /\ d = block
    BY <1>1, <2>1
  <2>3. a * w + b = d * w + column
    BY <1>4, <2>2
  <2>4. a = d /\ b = column
    BY <1>1, <2>3, SamePosition
  <2>. QED BY <2>2, <2>4
<1>. QED BY <1>1, <1>2, <1>3, <1>4

\* A thread writes the elements it strides over, from reads of the whole row.
LEMMA NormalisePreserves ==
  ASSUME NEW l, DeviceInv(l), HasOutputs, stream # << >>, block # NoBlock, NEW lane \in Lanes,
         Normalise(lane), UNCHANGED calls
  PROVE  DeviceInv(l)' /\ HasOutputs'
<1> DEFINE f == IF l.kernel = "softmax" /\ threads[lane].maximum.f # "max" THEN "mixed" ELSE l.kernel
           Weight(index) == IF l.kernel = "rms_norm" THEN << << 2, index % l.width >> >> ELSE << >>
           own == Elements(Strided(lane))
           E(index) == Element(f, shared[0].reads \o << << 1, index >> >> \o Weight(index))
<1>1. /\ Launch = l /\ IsLaunch(l) /\ l.buffer = calls /\ HasBuffer(l)
      /\ calls \in 1 .. calls /\ DOMAIN output = 1 .. calls /\ block \in Nat
  BY BusyDevice
<1>2. /\ threads[lane].at = "collect" /\ threads \in [ Lanes -> Registers ] /\ RunningInv(l)
      /\ shared \in [ Lanes -> StoredElements ]
  BY DEF Normalise, DeviceInv
<1>3. l.kernel = "softmax" => threads[lane].maximum # Nothing
  BY <1>1 DEF Normalise, ReducesMaximum
<1>4. IsRow(l) /\ Collecting(l)
  <2>1. ~Mapping(l) /\ (\A stride \in Strides : ~Folding(l, stride))
    BY <1>2 DEF Mapping, Folding
  <2>2. ~Publishing(l)
    BY <1>2, <1>3 DEF Publishing
  <2>. QED BY <1>2, <2>1, <2>2 DEF RunningInv
<1>5. Gathers(l, shared[0].reads, 0, 1) /\ shared[0].reads \in Seq(Nat \X Nat)
      /\ shared[0] \in StoredElements
  <2>1. 0 \in Lanes
    BY BlockSizeFacts DEF Lanes
  <2>. QED BY <1>2, <1>4, <2>1 DEF Collecting, Gathered, StoredElements
<1>6. output' = [ output EXCEPT ![calls] = [ index \in DOMAIN @ |->
                    IF index \in own THEN E(index) ELSE @[index] ] ]
  BY <1>1 DEF Normalise
<1>7. UNCHANGED << stream, blocks, block, shared >>
      /\ threads' = [ threads EXCEPT ![lane].at = "done", ![lane].value = shared[0] ]
  BY DEF Normalise
<1> HIDE DEF own, E
<1>8. /\ DOMAIN output' = 1 .. calls /\ output' = [ k \in 1 .. calls |-> output'[k] ]
      /\ DOMAIN output'[calls] = DOMAIN output[calls]
      /\ \A i \in DOMAIN output[calls] :
           output'[calls][i] = IF i \in own THEN E(i) ELSE output[calls][i]
  <2>1. output' = [ k \in 1 .. calls |->
                      IF k = calls THEN [ index \in DOMAIN output[calls] |->
                                            IF index \in own THEN E(index) ELSE output[calls][index] ]
                      ELSE output[k] ]
    BY <1>1, <1>6
  <2>. QED BY <1>1, <2>1
<1>9. HasOutputs' /\ HasBuffer(l)'
  BY <1>1, <1>8 DEF HasOutputs, HasBuffer
<1>10. \A c \in Cells(l) : IndexOf(l, c) \in DOMAIN output[calls]
  BY <1>1, CellFacts DEF HasBuffer
<1>11. ASSUME NEW c \in Cells(l), IndexOf(l, c) \in own
       PROVE  IsComputed(l, c)'
  <2>1. block = c[1]
    BY <1>1, <1>4, <1>11, OwnCells DEF own, BlockOf
  <2>2. l.kernel = "rms_norm" => f = l.kernel
    OBVIOUS
  <2> HIDE DEF f
  <2>3. Computes(E(IndexOf(l, c)), l, c)
    BY <1>1, <1>4, <1>5, <2>1, <2>2, RowIsComputed DEF E
  <2>4. output'[calls][IndexOf(l, c)] = E(IndexOf(l, c))
    BY <1>8, <1>10, <1>11
  <2>. QED BY <2>3, <2>4, ComputedLater
<1>12. ASSUME NEW c \in Cells(l), IsComputed(l, c)
       PROVE  IsComputed(l, c)'
  <2>1. CASE IndexOf(l, c) \in own
    BY <1>11, <2>1
  <2>2. CASE IndexOf(l, c) \notin own
    <3>1. output'[calls][IndexOf(l, c)] = output[calls][IndexOf(l, c)]
      BY <1>8, <1>10, <2>2
    <3>. QED BY <1>12, <3>1, ComputedLater DEF IsComputed
  <2>. QED BY <2>1, <2>2
<1>13. LaneIsComputed(l, lane)'
  <2>1. \A c \in Cells(l) : BlockOf(l, c) = block /\ LaneOf(l, c) = lane => IndexOf(l, c) \in own
    BY <1>1, <1>4, OwnCells DEF own
  <2>. QED BY <1>7, <1>11, <2>1 DEF LaneIsComputed
<1>14. threads' \in [ Lanes -> Registers ] /\ threads'[lane].at = "done"
       /\ threads'[lane].maximum = threads[lane].maximum
       /\ \A other \in Lanes : other # lane => threads'[other] = threads[other]
  BY <1>2, <1>5, <1>7 DEF Registers
<1>15. Collecting(l)'
  <2>1. ASSUME NEW other \in Lanes
        PROVE  /\ threads'[other].at \in {"collect", "done"}
               /\ l.kernel = "softmax" => threads'[other].maximum # Nothing
               /\ threads'[other].at = "done" => LaneIsComputed(l, other)'
    <3>1. CASE other = lane
      BY <1>3, <1>13, <1>14, <3>1
    <3>2. CASE other # lane
      <4>1. threads'[other] = threads[other]
        BY <1>14, <3>2
      <4>2. LaneIsComputed(l, other) => LaneIsComputed(l, other)'
        BY <1>7, <1>12 DEF LaneIsComputed
      <4>. QED BY <1>4, <4>1, <4>2 DEF Collecting
    <3>. QED BY <3>1, <3>2
  <2>2. Gathered(l, 0, 1)'
    BY <1>4, <1>7, GatheredLater DEF Collecting
  <2>. QED BY <2>1, <2>2 DEF Collecting, Nothing, Element
<1>16. RunningInv(l)'
  BY <1>4, <1>15 DEF RunningInv, IsRow
<1>17. shared' \in [ Lanes -> StoredElements ]
  BY <1>2, <1>7
<1>. QED BY <1>7, <1>9, <1>12, <1>14, <1>16, <1>17, ThreadPreserves

\* A barrier ends a turn for all threads, and after the last one the row is gathered.
LEMMA ReleasePreserves ==
  ASSUME NEW l, DeviceInv(l), HasOutputs, stream # << >>, Release, UNCHANGED calls
  PROVE  DeviceInv(l)' /\ HasOutputs'
<1>1. block # NoBlock /\ \A lane \in Lanes : threads[lane].at = "barrier"
  BY DEF Release
<1>2. Launch = l /\ IsLaunch(l) /\ block \in Nat /\ HasBuffer(l)
  BY <1>1, BusyDevice
<1>3. threads \in [ Lanes -> Registers ] /\ RunningInv(l) /\ shared \in [ Lanes -> StoredElements ]
  BY <1>1 DEF DeviceInv
<1>4. 0 \in Lanes
  BY BlockSizeFacts DEF Lanes
<1>5. /\ threads' = [ lane \in Lanes |->
           [ threads[lane] EXCEPT !.at = IF threads[lane].stride > 0 THEN "fold" ELSE "collect" ] ]
      /\ UNCHANGED << stream, blocks, block, shared, output >>
  BY DEF Release
<1>6. /\ threads' \in [ Lanes -> Registers ]
      /\ \A lane \in Lanes : /\ threads'[lane].at = IF threads[lane].stride > 0 THEN "fold" ELSE "collect"
                             /\ threads'[lane].stride = threads[lane].stride
                             /\ threads'[lane].maximum = threads[lane].maximum
  BY <1>3, <1>5 DEF Registers
<1>7. \A lane, m : Gathered(l, lane, m) => Gathered(l, lane, m)'
  BY <1>5, GatheredLater
<1>8. IsRow(l)
  BY <1>1, <1>3, <1>4 DEF RunningInv, Mapping
<1>9. SamePass
  <2>1. CASE Publishing(l)
    BY <1>1, <2>1 DEF Publishing, SamePass
  <2>2. CASE \E stride \in Strides : Folding(l, stride)
    BY <2>2 DEF Folding
  <2>3. ~Collecting(l)
    BY <1>1, <1>4 DEF Collecting
  <2>. QED BY <1>3, <1>8, <2>1, <2>2, <2>3 DEF RunningInv
\* The turn before was the last, or there is one more.
<1>10. \/ (\A lane \in Lanes : threads[lane].stride = 0) /\ Gathered(l, 0, 1)
       \/ \E stride \in Strides : \A lane \in Lanes :
            threads[lane].stride = stride /\ (lane < 2 * stride => Gathered(l, lane, 2 * stride))
  <2>1. CASE Publishing(l)
    <3>1. \A lane \in Lanes : threads[lane].stride = (BlockSize \div 2) /\ Gathered(l, lane, BlockSize)
      BY <1>1, <2>1 DEF Publishing
    <3>2. CASE BlockSize = 1 /\ (BlockSize \div 2) = 0
      BY <1>4, <3>1, <3>2
    <3>3. CASE 2 * (BlockSize \div 2) = BlockSize /\ (BlockSize \div 2) \in Powers
      <4>1. PICK stride \in Powers : stride = (BlockSize \div 2) /\ 2 * stride = BlockSize
        BY <3>3
      <4>2. stride \in Strides
        BY <4>1, BlockSizeFacts DEF Strides
      <4>. QED BY <3>1, <4>1, <4>2
    <3>. QED BY <3>2, <3>3, BlockSizeFacts
  <2>2. ASSUME NEW stride \in Strides, Folding(l, stride)
        PROVE  \/ (\A lane \in Lanes : threads[lane].stride = 0) /\ Gathered(l, 0, 1)
               \/ \E half \in Strides : \A lane \in Lanes :
                    threads[lane].stride = half /\ (lane < 2 * half => Gathered(l, lane, 2 * half))
    <3>1. \A lane \in Lanes : threads[lane].stride = (stride \div 2)
                              /\ (lane < stride => Gathered(l, lane, stride))
      BY <1>1, <2>2 DEF Folding
    <3>2. stride \in Powers /\ 2 * stride <= BlockSize
      BY DEF Strides
    <3>3. CASE stride = 1 /\ (stride \div 2) = 0
      BY <1>4, <3>1, <3>3
    <3>4. CASE 2 * (stride \div 2) = stride /\ (stride \div 2) \in Powers
      <4>1. PICK half \in Powers : half = (stride \div 2) /\ 2 * half = stride
        BY <3>4
      <4>2. half \in Nat \ {0} /\ stride \in Nat \ {0}
        BY <3>2, <4>1, HalfOfPower
      <4>3. half \in Strides
        BY <3>2, <4>1, <4>2, BlockSizeFacts DEF Strides
      <4>. QED BY <3>1, <4>1, <4>3
    <3>. QED BY <3>2, <3>3, <3>4, HalfOfPower
  <2>3. ~Collecting(l)
    BY <1>1, <1>4 DEF Collecting
  <2>. QED BY <1>3, <1>8, <2>1, <2>2, <2>3 DEF RunningInv
<1>11. RunningInv(l)'
  <2>1. CASE (\A lane \in Lanes : threads[lane].stride = 0) /\ Gathered(l, 0, 1)
    <3>1. (\A lane \in Lanes : threads'[lane].at = "collect") /\ Gathered(l, 0, 1)'
      BY <1>6, <1>7, <2>1
    <3>2. CASE l.kernel = "softmax" /\ \A lane \in Lanes : threads[lane].maximum = Nothing
      <4>1. \A lane \in Lanes : threads'[lane].at = "collect" <=> threads'[lane].maximum = Nothing
        BY <1>6, <3>1, <3>2
      <4>2. shared'[0].f # "none"
        BY <3>1 DEF Gathered
      <4>3. Publishing(l)'
        BY <3>1, <3>2, <4>1, <4>2 DEF Publishing, Nothing, Element
      <4>. QED BY <1>8, <4>3 DEF RunningInv, IsRow
    <3>3. CASE l.kernel = "softmax" => \A lane \in Lanes : threads[lane].maximum # Nothing
      <4>1. \A lane \in Lanes : l.kernel = "softmax" => threads'[lane].maximum # Nothing
        BY <1>6, <3>3
      <4>2. Collecting(l)'
        BY <3>1, <4>1 DEF Collecting, Nothing, Element
      <4>. QED BY <1>8, <4>2 DEF RunningInv, IsRow
    <3>. QED BY <1>9, <3>2, <3>3 DEF SamePass
  <2>2. ASSUME NEW stride \in Strides,
               \A lane \in Lanes :
                 threads[lane].stride = stride /\ (lane < 2 * stride => Gathered(l, lane, 2 * stride))
        PROVE  RunningInv(l)'
    <3>1. stride > 0
      BY HalfOfPower DEF Strides
    <3>2. \A lane \in Lanes : /\ threads'[lane].at = "fold" /\ threads'[lane].stride = stride
                              /\ (lane < 2 * stride => Gathered(l, lane, 2 * stride)')
      BY <1>6, <1>7, <2>2, <3>1
    <3>3. SamePass'
      BY <1>6, <1>9 DEF SamePass, Nothing, Element
    <3>4. Folding(l, stride)'
      BY <3>2, <3>3 DEF Folding
    <3>. QED BY <1>8, <3>4 DEF RunningInv, IsRow
  <2>. QED BY <1>10, <2>1, <2>2
<1>12. HasOutputs' /\ HasBuffer(l)' /\ \A c : IsComputed(l, c) => IsComputed(l, c)'
  BY <1>2, <1>5, QuietOutput
<1>13. shared' \in [ Lanes -> StoredElements ]
  BY <1>3, <1>5
<1>. QED BY <1>1, <1>5, <1>6, <1>11, <1>12, <1>13, ThreadPreserves

\* A launch and a block begin with nothing done.
LEMMA StartPreserves ==
  ASSUME NEW l, DeviceInv(l), HasOutputs, stream # << >>, StartLaunch \/ StartBlock, UNCHANGED calls
  PROVE  DeviceInv(l)' /\ HasOutputs'
<1>1. Launch = l /\ IsLaunch(l) /\ HasBuffer(l)
  BY BusyDevice
<1>2. UNCHANGED << stream, shared, output >> /\ block = NoBlock
  BY DEF StartLaunch, StartBlock
<1>3. HasOutputs' /\ HasBuffer(l)' /\ \A c : IsComputed(l, c) => IsComputed(l, c)'
  BY <1>1, <1>2, QuietOutput
<1>4. CASE StartLaunch
  <2>1. blocks' = 0 .. GridOf(l) - 1 /\ UNCHANGED << block, threads >>
    BY <1>1, <1>4 DEF StartLaunch
  <2>. QED BY <1>2, <1>3, <2>1 DEF DeviceInv
<1>5. CASE StartBlock
  <2>1. /\ block' \in blocks /\ UNCHANGED blocks
        /\ threads' = [ lane \in Lanes |-> Thread(IF IsRow(l) THEN "load" ELSE "map") ]
    BY <1>1, <1>5 DEF StartBlock, IsRow
  <2>2. Nothing \in StoredElements
    BY DEF Nothing, Element, StoredElements
  <2>3. /\ Thread("load") \in Registers /\ Thread("load").at = "load" /\ Thread("load").maximum = Nothing
        /\ Thread("map") \in Registers /\ Thread("map").at = "map"
    BY <2>2 DEF Thread, Registers
  <2>4. threads' \in [ Lanes -> Registers ]
    BY <2>1, <2>3
  <2>5. RunningInv(l)'
    <3>1. CASE IsRow(l)
      <4>1. \A lane \in Lanes : threads'[lane].at = "load" /\ threads'[lane].maximum = Nothing
        BY <2>1, <2>3, <3>1
      <4>2. Publishing(l)'
        BY <4>1 DEF Publishing, Nothing, Element
      <4>. QED BY <3>1, <4>2 DEF RunningInv, IsRow
    <3>2. CASE ~IsRow(l)
      <4>1. \A lane \in Lanes : threads'[lane].at = "map"
        BY <2>1, <2>3, <3>2
      <4>2. Mapping(l)'
        BY <4>1 DEF Mapping
      <4>. QED BY <3>2, <4>2 DEF RunningInv, IsRow
    <3>. QED BY <3>1, <3>2
  <2>6. \A b : BlockIsComputed(l, b) => BlockIsComputed(l, b)'
    BY <1>3 DEF BlockIsComputed
  <2>. QED BY <1>2, <1>3, <2>1, <2>4, <2>5, <2>6 DEF DeviceInv
<1>. QED BY <1>4, <1>5

\* The cells of a launch are the cells of its blocks.
LEMMA CellsOfBlocks ==
  ASSUME NEW l, IsLaunch(l), NEW c \in Cells(l)
  PROVE  BlockOf(l, c) \in 0 .. GridOf(l) - 1 /\ LaneOf(l, c) \in Lanes
<1>1. /\ c[1] \in 0 .. l.rows - 1 /\ c[2] \in Nat
      /\ IndexOf(l, c) \in 0 .. l.rows * l.width - 1
  <2>1. l.width \in Nat
    BY DEF IsLaunch
  <2>. QED BY <2>1, CellFacts
<1>2. BlockSize \in Nat \ {0} /\ l.rows * l.width \in Nat
  BY BlockSizeFacts DEF IsLaunch
<1>3. LaneOf(l, c) \in Lanes
  BY <1>1, <1>2 DEF LaneOf, Lanes
<1>4. CASE IsRow(l)
  BY <1>1, <1>3, <1>4 DEF BlockOf, GridOf, IsRow
<1>5. CASE ~IsRow(l)
  <2>0. PICK size \in Nat : size = l.rows * l.width
    BY <1>2
  <2>1. PICK index \in 0 .. size - 1 : index = IndexOf(l, c)
    BY <1>1, <2>0
  <2>2. PICK n \in Int, rest \in 0 .. BlockSize - 1 :
          n = ((size + BlockSize - 1) \div BlockSize) /\ size + BlockSize - 1 = BlockSize * n + rest
    <3>1. size + BlockSize - 1 \in Int
      BY <1>2
    <3>2. PICK top \in Int : top = size + BlockSize - 1
      BY <3>1
    <3>3. top = BlockSize * (top \div BlockSize) + (top % BlockSize)
          /\ (top % BlockSize) \in 0 .. BlockSize - 1 /\ (top \div BlockSize) \in Int
      BY <1>2, DivisionFacts
    <3>. QED BY <3>2, <3>3
  <2>3. PICK b \in Int, lane \in 0 .. BlockSize - 1 :
          b = (index \div BlockSize) /\ index = BlockSize * b + lane
    <3>1. index = BlockSize * (index \div BlockSize) + (index % BlockSize)
          /\ (index % BlockSize) \in 0 .. BlockSize - 1 /\ (index \div BlockSize) \in Int
      BY <1>2, DivisionFacts
    <3>. QED BY <3>1
  <2>4. b >= 0
    <3>1. CASE b + 1 <= 0
      <4>1. BlockSize * (b + 1) <= 0
        BY <1>2, <3>1
      <4>2. BlockSize * (b + 1) = BlockSize * b + BlockSize /\ BlockSize * b \in Int
        BY <1>2
      <4>. QED BY <1>2, <2>3, <4>1, <4>2
    <3>. QED BY <3>1
  <2>5. b <= n - 1
    <3>1. CASE n <= b
      <4>1. BlockSize * (b - n) >= 0
        BY <1>2, <3>1
      <4>2. BlockSize * (b - n) = BlockSize * b - BlockSize * n
            /\ BlockSize * b \in Int /\ BlockSize * n \in Int
        BY <1>2
      <4>. QED BY <1>2, <2>2, <2>3, <4>1, <4>2
    <3>. QED BY <3>1
  <2>6. BlockOf(l, c) = b /\ GridOf(l) = n
    BY <1>5, <2>0, <2>1, <2>2, <2>3 DEF BlockOf, GridOf, IsRow
  <2>. QED BY <1>3, <2>4, <2>5, <2>6
<1>. QED BY <1>3, <1>4, <1>5

\* A launch ends when its last block does, and then every cell is computed.
LEMMA EndPreserves ==
  ASSUME NEW l, DeviceInv(l), HasOutputs, stream # << >>, EndBlock, UNCHANGED calls
  PROVE  DeviceInv(l)' /\ HasOutputs' /\ (stream' = << >> => IsComplete(l)')
<1>1. block # NoBlock /\ \A lane \in Lanes : threads[lane].at = "done"
  BY DEF EndBlock
<1>2. IsLaunch(l) /\ HasBuffer(l)
  BY BusyDevice
<1>3. /\ block' = NoBlock /\ blocks' = blocks \ {block}
      /\ stream' = IF blocks' = {} THEN Tail(stream) ELSE stream
      /\ UNCHANGED << threads, shared, output >>
  BY DEF EndBlock
<1>4. HasOutputs' /\ HasBuffer(l)' /\ \A c : IsComputed(l, c) <=> IsComputed(l, c)'
  BY <1>2, <1>3, QuietOutput
<1>5. BlockIsComputed(l, block)
  <2>1. \A lane \in Lanes : LaneIsComputed(l, lane)
    <3>1. RunningInv(l) /\ 0 \in Lanes
      BY <1>1, BlockSizeFacts DEF DeviceInv, Lanes
    <3>2. CASE IsRow(l)
      <4>1. Collecting(l)
        BY <1>1, <3>1, <3>2 DEF RunningInv, Publishing, Folding
      <4>. QED BY <1>1, <4>1 DEF Collecting
    <3>3. CASE ~IsRow(l)
      BY <1>1, <3>1, <3>3 DEF RunningInv, Mapping
    <3>. QED BY <3>2, <3>3
  <2>. QED BY <1>2, <2>1, CellsOfBlocks DEF LaneIsComputed, BlockIsComputed
<1>6. blocks # {} /\ block \in blocks
  BY <1>1 DEF DeviceInv
<1>7. \A b \in 0 .. GridOf(l) - 1 : b \notin blocks' => BlockIsComputed(l, b)'
  <2>1. \A b \in 0 .. GridOf(l) - 1 : b \notin blocks' => BlockIsComputed(l, b)
    BY <1>3, <1>5, <1>6 DEF DeviceInv
  <2>2. \A b : BlockIsComputed(l, b) => BlockIsComputed(l, b)'
    BY <1>4 DEF BlockIsComputed
  <2>. QED BY <2>1, <2>2
<1>8. stream' \in Seq({l}) /\ (stream' = << >> => blocks' = {})
  <2>1. stream \in Seq({l})
    BY DEF DeviceInv
  <2>2. Tail(stream) \in Seq({l})
    BY <2>1, HeadTailProperties
  <2>. QED BY <1>3, <2>1, <2>2
<1>9. stream' = << >> => IsComplete(l)'
  <2>. SUFFICES ASSUME stream' = << >>, NEW c \in Cells(l)
                PROVE  IsComputed(l, c)'
    BY DEF IsComplete
  <2>1. blocks' = {}
    BY <1>8
  <2>2. BlockIsComputed(l, BlockOf(l, c))'
    BY <1>2, <1>7, <2>1, CellsOfBlocks
  <2>. QED BY <2>2 DEF BlockIsComputed
<1>10. IsLaunch(l) /\ l.buffer = calls /\ blocks' \subseteq 0 .. GridOf(l) - 1
       /\ shared' \in [ Lanes -> StoredElements ] /\ threads' \in [ Lanes -> Registers ]
  BY <1>3 DEF DeviceInv
<1>11. DeviceInv(l)'
  BY <1>3, <1>4, <1>7, <1>8, <1>10 DEF DeviceInv
<1>. QED BY <1>4, <1>9, <1>11

\* A step of the device keeps what is known of it, and the launches it ends are done.
LEMMA DevicePreserves ==
  ASSUME NEW l, DeviceInv(l), HasOutputs, DeviceNext, UNCHANGED calls
  PROVE  /\ DeviceInv(l)' /\ HasOutputs' /\ stream # << >>
         /\ HasBuffer(l)'
         /\ stream' = << >> => IsComplete(l)'
<1>1. stream # << >>
  <2>1. stream = << >> => block = NoBlock
    BY DEF DeviceInv
  <2>. QED BY <2>1 DEF DeviceNext, StartLaunch, StartBlock, EndBlock, Release, ThreadStep
<1>2. IsLaunch(l) /\ HasBuffer(l)
  BY <1>1, BusyDevice
<1>3. CASE EndBlock
  <2>1. HasBuffer(l)'
    BY <1>2, <1>3, QuietOutput DEF EndBlock
  <2>. QED BY <1>1, <1>3, <2>1, EndPreserves
<1>4. ASSUME UNCHANGED stream, DeviceInv(l)', HasOutputs'
      PROVE  HasBuffer(l)' /\ ~(stream' = << >>)
  BY <1>1, <1>4 DEF DeviceInv
<1>5. CASE Release
  BY <1>1, <1>4, <1>5, ReleasePreserves DEF Release
<1>6. CASE StartLaunch \/ StartBlock
  BY <1>1, <1>4, <1>6, StartPreserves DEF StartLaunch, StartBlock
<1>7. ASSUME NEW lane \in Lanes, ThreadStep(lane)
      PROVE  DeviceInv(l)' /\ HasOutputs' /\ UNCHANGED stream
  <2>1. block # NoBlock
    BY <1>7 DEF ThreadStep
  <2>2. CASE Map(lane)
    BY <1>1, <2>1, <2>2, MapPreserves DEF Map
  <2>3. CASE Publish(lane)
    BY <1>1, <2>1, <2>3, PublishPreserves DEF Publish
  <2>4. CASE Fold(lane)
    BY <1>1, <2>1, <2>4, FoldPreserves DEF Fold
  <2>5. CASE CollectMaximum(lane)
    BY <1>1, <2>1, <2>5, CollectMaximumPreserves DEF CollectMaximum
  <2>6. CASE Normalise(lane)
    BY <1>1, <2>1, <2>6, NormalisePreserves DEF Normalise
  <2>. QED BY <1>7, <2>2, <2>3, <2>4, <2>5, <2>6 DEF ThreadStep
<1>. QED BY <1>1, <1>3, <1>4, <1>5, <1>6, <1>7 DEF DeviceNext

(***************************************************************************)
(* The steps of the host.                                                  *)
(***************************************************************************)

\* The number of elements of a tensor is a number: its partial products are.
LEMMA ProductIsNat ==
  ASSUME NEW s \in Seq(Nat \ {0})
  PROVE  Product(s) \in Nat
<1> DEFINE N == Len(s)
           P(n, p) == p = [ i \in 0 .. n |-> IF i = 0 THEN 1 ELSE p[i - 1] * s[i] ]
           Exist(n) == \E p : P(n, p)
           partial == CHOOSE p : P(N, p)
<1>1. N \in Nat /\ \A i \in 1 .. N : s[i] \in Nat
  BY LenProperties
<1> HIDE DEF N
<1>2. Exist(0)
  <2>1. P(0, [ i \in 0 .. 0 |-> 1 ])
    OBVIOUS
  <2>. QED BY <2>1
<1>3. ASSUME NEW n \in Nat \ {0}, Exist(n - 1)
      PROVE  Exist(n)
  <2>1. PICK p : P(n - 1, p)
    BY <1>3
  <2> DEFINE q == [ i \in 0 .. n |-> IF i = n THEN p[n - 1] * s[n] ELSE p[i] ]
  <2>2. \A i \in 0 .. n : q[i] = IF i = 0 THEN 1 ELSE q[i - 1] * s[i]
    <3>1. p[0] = 1 /\ \A i \in 1 .. n - 1 : p[i] = p[i - 1] * s[i]
      <4>1. \A i \in 0 .. n - 1 : p[i] = IF i = 0 THEN 1 ELSE p[i - 1] * s[i]
        BY <2>1
      <4>. QED BY <4>1
    <3>2. \A i \in 0 .. n - 1 : q[i] = p[i]
      OBVIOUS
    <3>3. q[n] = p[n - 1] * s[n]
      OBVIOUS
    <3> HIDE DEF q, P
    <3>4. ASSUME NEW i \in 0 .. n
          PROVE  q[i] = IF i = 0 THEN 1 ELSE q[i - 1] * s[i]
      <4>1. i = 0 \/ (i \in 1 .. n - 1 /\ i - 1 \in 0 .. n - 1 /\ i # 0 /\ i \in 0 .. n - 1)
            \/ (i = n /\ i # 0 /\ i - 1 \in 0 .. n - 1)
        OBVIOUS
      <4>2. 0 \in 0 .. n - 1
        OBVIOUS
      <4>. QED BY <3>1, <3>2, <3>3, <4>1, <4>2
    <3>. QED BY <3>4
  <2>3. q = [ i \in 0 .. n |-> q[i] ]
    OBVIOUS
  <2> HIDE DEF q
  <2>4. P(n, q)
    BY <2>2, <2>3
  <2>. QED BY <2>4
<1> HIDE DEF Exist
<1>4. Exist(N)
  <2> DEFINE Missing == { n \in Nat : ~Exist(n) }
  <2>. SUFFICES ASSUME Missing # {} PROVE FALSE
    BY <1>1
  <2>1. Missing \in SUBSET Nat
    OBVIOUS
  <2>2. PICK m \in Missing : \A n \in Missing : m <= n
    <3> HIDE DEF Missing
    <3>. QED BY <2>1, LeastElement
  <2>3. m \in Nat \ {0} /\ ~Exist(m)
    BY <1>2
  <2>4. Exist(m - 1)
    BY <2>2, <2>3
  <2>. QED BY <1>3, <2>3, <2>4
<1>5. P(N, partial)
  BY <1>4 DEF Exist
<1> HIDE DEF partial
<1>6. partial[0] = 1 /\ \A i \in 1 .. N : partial[i] = partial[i - 1] * s[i]
  <2>1. \A i \in 0 .. N : partial[i] = IF i = 0 THEN 1 ELSE partial[i - 1] * s[i]
    BY <1>5
  <2>. QED BY <1>1, <2>1
<1> HIDE DEF P
<1>7. \A i \in 0 .. N : partial[i] \in Nat
  <2> DEFINE Wrong == { i \in 0 .. N : partial[i] \notin Nat }
  <2>. SUFFICES ASSUME Wrong # {} PROVE FALSE
    OBVIOUS
  <2>1. Wrong \in SUBSET Nat
    OBVIOUS
  <2>2. PICK m \in Wrong : \A n \in Wrong : m <= n
    <3> HIDE DEF Wrong
    <3>. QED BY <2>1, LeastElement
  <2>3. m \in 1 .. N /\ partial[m] \notin Nat
    BY <1>1, <1>6
  <2>4. m - 1 \in 0 .. N /\ ~(m <= m - 1)
    BY <1>1, <2>3
  <2>5. partial[m - 1] \in Nat
    BY <2>2, <2>4
  <2>6. partial[m] = partial[m - 1] * s[m] /\ s[m] \in Nat
    BY <1>1, <1>6, <2>3
  <2>7. partial[m - 1] * s[m] \in Nat
    BY <2>5, <2>6
  <2>. QED BY <2>3, <2>6, <2>7
<1>8. Product(s) = partial[N]
  BY DEF Product, partial, P, N
<1>. QED BY <1>1, <1>7, <1>8

\* What passes the checks is a launch.
LEMMA CheckedIsLaunch ==
  ASSUME NEW r \in CudaRequests, Checked(r) = "ok"
  PROVE  IsLaunch(LaunchOf(r)) /\ (r.entry = "profile" \/ r.entry = "execute")
<1>1. r.entry = "profile" \/ r.entry = "execute"
  BY CudaRequestsAssumption
<1>2. CASE r.entry = "profile"
  <2>1. /\ r.kernel \in {"gelu", "fused_bias_gelu", "rms_norm", "softmax"}
        /\ r.rows \in Nat /\ r.width \in Nat
    BY <1>2, CudaRequestsAssumption
  <2>2. validate_request(r) = "ok"
    BY <1>2 DEF Checked
  <2>3. checked_element_count(r.rows, r.width) = "ok"
    BY <2>2 DEF validate_request
  <2>4. r.width > 0
    BY <2>1, <2>3 DEF checked_element_count
  <2>. QED BY <1>2, <2>1, <2>4 DEF IsLaunch, LaunchOf
<1>3. CASE r.entry = "execute"
  <2>1. r.out \in Seq(Nat \ {0})
    BY <1>3, CudaRequestsAssumption
  <2>2. r.out # << >> /\ SelectsKernel(r.op, r.in, r.out)
    BY <1>3 DEF Checked, validate_operation
  <2>3. r.op.type \in {"gelu", "rms_norm", "softmax"}
    BY <2>2 DEF SelectsKernel
  <2>4. LastOf(r.out) \in Nat \ {0}
    <3>1. Len(r.out) \in Nat /\ r.out \in [ 1 .. Len(r.out) -> Nat \ {0} ] /\ Len(r.out) # 0
      BY <2>1, <2>2, LenProperties, EmptySeq
    <3>. QED BY <3>1 DEF LastOf
  <2>5. Rows(r.out) \in Nat
    <3>1. PICK n \in Nat, w \in Nat \ {0} : n = Product(r.out) /\ w = LastOf(r.out)
      BY <2>1, <2>4, ProductIsNat
    <3>2. (n \div w) \in Nat
      OBVIOUS
    <3>. QED BY <3>1, <3>2 DEF Rows
  <2>. QED BY <1>3, <2>3, <2>4, <2>5 DEF IsLaunch, LaunchOf
<1>. QED BY <1>1, <1>2, <1>3

\* The launch of a call is the same until the next one.
LEMMA SameLaunch ==
  ASSUME NEW l, l = LaunchOf(Rq), host'.request = host.request, calls' = calls
  PROVE  l = LaunchOf(Rq)'
BY DEF LaunchOf, Rq

\* The running block is as it was while its memory is.
LEMMA QuietBlock ==
  ASSUME NEW l, UNCHANGED << block, threads, shared, output, calls >>
  PROVE  /\ RunningInv(l) => RunningInv(l)'
         /\ \A b : BlockIsComputed(l, b) => BlockIsComputed(l, b)'
         /\ IsComplete(l) => IsComplete(l)'
<1>1. \A c : IsComputed(l, c)' <=> IsComputed(l, c)
  BY QuietOutput
<1>2. \A lane : LaneIsComputed(l, lane) => LaneIsComputed(l, lane)'
  BY <1>1 DEF LaneIsComputed
<1>3. \A lane, m : Gathered(l, lane, m) => Gathered(l, lane, m)'
  BY GatheredLater
<1>4. Mapping(l) => Mapping(l)'
  BY <1>2 DEF Mapping
<1>5. Publishing(l) => Publishing(l)'
  BY <1>3 DEF Publishing, Nothing, Element
<1>6. \A stride : Folding(l, stride) => Folding(l, stride)'
  BY <1>3 DEF Folding, SamePass, Nothing, Element
<1>7. Collecting(l) => Collecting(l)'
  BY <1>2, <1>3 DEF Collecting, Nothing, Element
<1>. QED BY <1>1, <1>4, <1>5, <1>6, <1>7 DEF RunningInv, IsRow, BlockIsComputed, IsComplete

\* A step of the host that launches nothing leaves the device alone.
LEMMA QuietDevice ==
  ASSUME NEW l, DeviceInv(l), HasOutputs, UNCHANGED << deviceVars, calls >>
  PROVE  /\ DeviceInv(l)' /\ HasOutputs' /\ (HasBuffer(l) => HasBuffer(l)')
         /\ IsComplete(l) => IsComplete(l)'
<1>1. UNCHANGED << stream, blocks, block, threads, shared, output, calls >>
  BY DEF deviceVars
<1>2. /\ RunningInv(l) => RunningInv(l)'
      /\ \A b : BlockIsComputed(l, b) => BlockIsComputed(l, b)'
      /\ IsComplete(l) => IsComplete(l)'
  BY <1>1, QuietBlock
<1>3. HasOutputs' /\ (HasBuffer(l) => HasBuffer(l)')
  BY <1>1, QuietOutput
<1>. QED BY <1>1, <1>2, <1>3 DEF DeviceInv

\* A launch joins the others of the call.
LEMMA LaunchJoins ==
  ASSUME NEW l, DeviceInv(l), HasOutputs, IsLaunch(l), l.buffer = calls, HasBuffer(l),
         stream' = Append(stream, l), UNCHANGED << blocks, block, threads, shared, output, calls >>
  PROVE  DeviceInv(l)' /\ HasOutputs' /\ HasBuffer(l)' /\ stream' # << >>
<1>1. /\ RunningInv(l) => RunningInv(l)'
      /\ \A b : BlockIsComputed(l, b) => BlockIsComputed(l, b)'
  BY QuietBlock
<1>2. HasOutputs' /\ HasBuffer(l)'
  BY QuietOutput
<1>3. stream' \in Seq({l}) /\ stream' # << >>
  <2>1. stream \in Seq({l}) /\ l \in {l}
    BY DEF DeviceInv
  <2>2. stream' \in Seq({l}) /\ Len(stream') = Len(stream) + 1
    BY <2>1, AppendProperties
  <2>3. Len(stream) \in Nat /\ Len(stream') # 0
    BY <2>1, <2>2, LenProperties
  <2>. QED BY <2>2, <2>3, EmptySeq
<1>4. block # NoBlock => block \in blocks /\ RunningInv(l)
  BY DEF DeviceInv
<1>. QED BY <1>1, <1>2, <1>3, <1>4 DEF DeviceInv

(***************************************************************************)
(* The inductive invariant.                                                *)
(***************************************************************************)

\* A host that has been called has a request and the rest of a call.
IsHost(h) ==
  h.at = "idle" \/ h = [ at |-> h.at, request |-> h.request, left |-> h.left,
                         timed |-> h.timed, outcome |-> h.outcome ]

\* After a failure the error is remembered, and the host is nowhere from where it
\* could still succeed: not past a launch, nor at the end of the warm-ups with none
\* launched, as a profile has at least one.
FailureInv ==
  failures # 0 =>
    /\ lastError
    /\ host.at \notin {"measure", "stop", "synchronize"}
    /\ host.at = "warmup" => host.left # 0
    /\ host.at \in {"free", "returned"} => host.outcome # "ok"

IInv == failures \in Nat /\ lastError \in BOOLEAN /\ IsHost(host) /\ FailureInv

\* What passes the checks of a profile has a warm-up.
LEMMA CheckedProfileWarmsUp ==
  ASSUME NEW r, Checked(r) = "ok", r.entry = "profile"
  PROVE  r.warmups # 0
BY DEF Checked, validate_request

\* A call that is remembered to have failed does not succeed at its launch.
LEMMA LaunchPreserves ==
  ASSUME IInv, NEW next, launch_kernel(next), host.at # "idle", host.at \notin {"free", "returned"},
         next \in {"warmup", "stop", "synchronize"}
  PROVE  IInv'
<1>1. failures' = failures /\ lastError' = lastError
  BY DEF launch_kernel, Quiet
<1>2. CASE GridOf(LaunchOf(Rq)) > MaxGrid
  <2>1. host' = [ host EXCEPT !.at = "free", !.outcome = "overflow" ]
    BY <1>2 DEF launch_kernel, Finish
  <2>. QED BY <1>1, <2>1 DEF IInv, IsHost, FailureInv
<1>3. CASE ~(GridOf(LaunchOf(Rq)) > MaxGrid) /\ lastError
  <2>1. host' = [ host EXCEPT !.at = "free", !.outcome = "internal" ]
    BY <1>3 DEF launch_kernel, Finish
  <2>. QED BY <1>1, <2>1 DEF IInv, IsHost, FailureInv
<1>4. CASE ~(GridOf(LaunchOf(Rq)) > MaxGrid) /\ ~lastError
  <2>1. host' = [ host EXCEPT !.left = @ - 1, !.at = next ]
    BY <1>4 DEF launch_kernel
  <2>. QED BY <1>1, <1>4, <2>1 DEF IInv, IsHost, FailureInv
<1>. QED BY <1>2, <1>3, <1>4

\* Every step of the host keeps it.
LEMMA HostPreserves ==
  ASSUME IInv, HostStep \/ HostFails
  PROVE  IInv'
<1>1. CASE RefuseCall
  <2>1. host' = [ host EXCEPT !.at = "returned", !.outcome = Checked(Rq) ] /\ Checked(Rq) # "ok"
    BY <1>1 DEF RefuseCall, Return
  <2>2. host.at = "called" /\ failures' = failures /\ lastError' = lastError
    BY <1>1 DEF RefuseCall, Quiet
  <2>. QED BY <2>1, <2>2 DEF IInv, IsHost, FailureInv
<1>2. CASE Prepare
  <2>1. host' = [ host EXCEPT !.at = IF Rq.entry = "profile" THEN "warmup" ELSE "launch",
                              !.left = IF Rq.entry = "profile" THEN Rq.warmups ELSE 1 ]
    BY <1>2 DEF Prepare
  <2>2. host.at = "called" /\ failures' = failures /\ lastError' = lastError
    BY <1>2 DEF Prepare, Quiet
  <2>3. Rq.entry = "profile" => Rq.warmups # 0
    BY <1>2, CheckedProfileWarmsUp DEF Prepare
  <2>. QED BY <2>1, <2>2, <2>3 DEF IInv, IsHost, FailureInv
<1>3. CASE LaunchWarmUp
  BY <1>3, LaunchPreserves DEF LaunchWarmUp
<1>4. CASE SynchronizeWarmUp
  <2>1. host' = [ host EXCEPT !.at = "measure", !.left = Rq.measured ]
    BY <1>4 DEF SynchronizeWarmUp
  <2>2. host.at = "warmup" /\ host.left = 0 /\ failures' = failures /\ lastError' = lastError
    BY <1>4 DEF SynchronizeWarmUp, Quiet
  <2>. QED BY <2>1, <2>2 DEF IInv, IsHost, FailureInv
<1>5. CASE LaunchMeasured
  BY <1>5, LaunchPreserves DEF LaunchMeasured
<1>6. CASE SynchronizeEvent
  <2>1. host' = [ host EXCEPT !.at = "measure", !.timed = @ + 1 ]
    BY <1>6 DEF SynchronizeEvent
  <2>2. host.at = "stop" /\ failures' = failures /\ lastError' = lastError
    BY <1>6 DEF SynchronizeEvent, Quiet
  <2>. QED BY <2>1, <2>2 DEF IInv, IsHost, FailureInv
<1>7. CASE CopyBack
  <2>1. host' = [ host EXCEPT !.at = "free", !.outcome = "ok" ]
    BY <1>7 DEF CopyBack, Finish
  <2>2. host.at = "measure" /\ failures' = failures /\ lastError' = lastError
    BY <1>7 DEF CopyBack, Quiet
  <2>. QED BY <2>1, <2>2 DEF IInv, IsHost, FailureInv
<1>8. CASE LaunchOperation
  BY <1>8, LaunchPreserves DEF LaunchOperation
<1>9. CASE cudaDeviceSynchronize
  <2>1. host' = [ host EXCEPT !.at = "returned", !.outcome = "ok" ]
    BY <1>9 DEF cudaDeviceSynchronize, Return
  <2>2. host.at = "synchronize" /\ failures' = failures /\ lastError' = lastError
    BY <1>9 DEF cudaDeviceSynchronize, Quiet
  <2>. QED BY <2>1, <2>2 DEF IInv, IsHost, FailureInv
<1>10. CASE Free
  <2>1. host' = [ host EXCEPT !.at = "returned", !.outcome = host.outcome ]
    BY <1>10 DEF Free, Return
  <2>2. host.at = "free" /\ failures' = failures /\ lastError' = lastError
    BY <1>10 DEF Free, Quiet
  <2>. QED BY <2>1, <2>2 DEF IInv, IsHost, FailureInv
<1>11. CASE CudaCallFails
  <2>1. host' = [ host EXCEPT !.at = "free", !.outcome = "internal" ]
    BY <1>11 DEF CudaCallFails, Finish
  <2>2. failures' = failures + 1 /\ lastError'
    BY <1>11 DEF CudaCallFails
  <2>3. lastError' \in BOOLEAN
    BY <1>11, Zenon DEF CudaCallFails
  <2>4. host.at # "idle"
    BY <1>11 DEF CudaCallFails
  <2>5. host'.at = "free" /\ host'.outcome = "internal" /\ IsHost(host)'
    BY <2>1, <2>4 DEF IInv, IsHost
  <2>. QED BY <2>2, <2>3, <2>5 DEF IInv, FailureInv
<1>12. CASE CleanupFails
  <2>1. host' = [ host EXCEPT !.at = "terminated" ]
    BY <1>12 DEF CleanupFails
  <2>2. host.at = "free" /\ failures' = failures /\ lastError' = lastError
    BY <1>12 DEF CleanupFails, Quiet
  <2>. QED BY <2>1, <2>2 DEF IInv, IsHost, FailureInv
<1>. QED
  BY <1>1, <1>2, <1>3, <1>4, <1>5, <1>6, <1>7, <1>8, <1>9, <1>10, <1>11, <1>12
     DEF HostStep, HostFails

\* A new call begins where nothing has failed in it.
LEMMA CallPreserves ==
  ASSUME IInv, CallBackend
  PROVE  IInv'
<1>1. PICK r \in CudaRequests :
        host' = [ at |-> "called", request |-> r, left |-> 0, timed |-> 0, outcome |-> "none" ]
  BY DEF CallBackend
<1>2. failures' = failures /\ lastError' = lastError
  BY DEF CallBackend
<1>. QED BY <1>1, <1>2 DEF IInv, IsHost, FailureInv

\* The device, the choice of a backend and the CPU leave the host alone.
LEMMA OthersPreserve ==
  ASSUME IInv, UNCHANGED hostVars
  PROVE  IInv'
BY DEF IInv, IsHost, FailureInv, hostVars

\* Every step keeps it.
LEMMA NextPreserves ==
  ASSUME IInv, [Next]_<< backend, cpuVars, cudaVars >>
  PROVE  IInv'
<1>1. CASE UNCHANGED cudaVars
  BY <1>1, OthersPreserve DEF cudaVars
<1>2. CASE CallBackend
  BY <1>2, CallPreserves
<1>3. CASE HostStep \/ HostFails
  BY <1>3, HostPreserves
<1>4. CASE UNCHANGED hostVars
  BY <1>4, OthersPreserve
<1>. QED
  BY <1>1, <1>2, <1>3, <1>4 DEF Next, Create, CudaNext

\* The inductive invariant of the host holds in every reachable state.
THEOREM Invariance == Spec => []IInv
<1>1. Init => IInv
  <2>. SUFFICES ASSUME Init PROVE IInv
    OBVIOUS
  <2>1. failures = 0 /\ host = [ at |-> "idle" ]
    BY DEF Init, CudaInit
  <2>2. lastError \in BOOLEAN
    BY Zenon DEF Init, CudaInit
  <2>. QED BY <2>1, <2>2 DEF IInv, IsHost, FailureInv
<1>2. IInv /\ [Next]_<< backend, cpuVars, cudaVars >> => IInv'
  BY NextPreserves
<1>. QED BY <1>1, <1>2, PTL DEF Spec

\* However many CUDA calls fail, and wherever: once one has, no later call of the
\* process succeeds.
THEOREM NoSuccessAfterFailureHolds == Spec => []NoSuccessAfterFailure
<1>1. IInv => NoSuccessAfterFailure
  BY DEF IInv, FailureInv, NoSuccessAfterFailure
<1>. QED BY <1>1, Invariance, PTL

(***************************************************************************)
(* The whole of the CUDA backend, before anything has failed.              *)
(***************************************************************************)

\* launch_kernel, from where it is called.
LEMMA LaunchKeepsSound ==
  ASSUME IInv, SoundInv, NEW l, DeviceInv(l), HostInv(l), NEW next, launch_kernel(next),
         \/ host.at = "warmup" /\ next = "warmup" /\ host.left > 0
         \/ host.at = "measure" /\ next = "stop"
         \/ host.at = "launch" /\ next = "synchronize"
  PROVE  SoundInv'
<1>1. /\ ~lastError /\ HasOutputs /\ IsLaunch(l) /\ HasBuffer(l) /\ LaunchOf(Rq) = l
  BY DEF SoundInv, HostInv
<1>2. l.buffer = calls
  BY <1>1 DEF LaunchOf
<1>3. UNCHANGED << calls, failures, lastError, blocks, block, threads, shared, output >>
  BY DEF launch_kernel, Quiet
<1>4. ~lastError'
  BY <1>1, <1>3
<1>5. host = [ at |-> host.at, request |-> host.request, left |-> host.left,
               timed |-> host.timed, outcome |-> host.outcome ]
  BY DEF IInv, IsHost
<1>6. CASE GridOf(l) > MaxGrid
  <2>1. host' = [ host EXCEPT !.at = "free", !.outcome = "overflow" ] /\ stream' = stream
    BY <1>1, <1>6 DEF launch_kernel, Finish
  <2>2. host'.at = "free" /\ host'.outcome = "overflow" /\ host'.request = host.request
        /\ host'.left = host.left /\ host'.timed = host.timed
    BY <1>5, <2>1
  <2>3. l = LaunchOf(Rq)' /\ Rq' = Rq
    BY <1>1, <1>3, <2>2, SameLaunch DEF Rq
  <2>4. DeviceInv(l)' /\ HasOutputs'
    BY <1>1, <1>3, <2>1, QuietDevice DEF deviceVars
  <2>5. HostInv(l)'
    BY <1>3, <2>1, <2>2, <2>3 DEF HostInv, HasLaunched
  <2>. QED BY <1>4, <2>2, <2>4, <2>5 DEF SoundInv
<1>7. CASE ~(GridOf(l) > MaxGrid)
  <2>1. host' = [ host EXCEPT !.left = @ - 1, !.at = next ] /\ stream' = Append(stream, l)
    BY <1>1, <1>7 DEF launch_kernel
  <2>2. host'.at = next /\ host'.request = host.request
        /\ host'.left = host.left - 1 /\ host'.timed = host.timed
    BY <1>5, <2>1
  <2>3. l = LaunchOf(Rq)' /\ Rq' = Rq
    BY <1>1, <1>3, <2>2, SameLaunch DEF Rq
  <2>4. DeviceInv(l)' /\ HasOutputs' /\ HasBuffer(l)' /\ stream' # << >>
    BY <1>1, <1>2, <1>3, <2>1, LaunchJoins
  <2>5. HostInv(l)'
    <3>1. CASE host.at = "warmup" /\ next = "warmup"
      BY <1>1, <1>3, <2>2, <2>3, <2>4, <3>1 DEF HostInv
    <3>2. CASE host.at = "measure" /\ next = "stop"
      BY <1>1, <1>3, <2>2, <2>3, <2>4, <3>2 DEF HostInv
    <3>3. CASE host.at = "launch" /\ next = "synchronize"
      BY <1>1, <1>3, <2>2, <2>3, <2>4, <3>3 DEF HostInv
    <3>. QED BY <3>1, <3>2, <3>3
  <2>. QED BY <1>4, <2>2, <2>4, <2>5 DEF SoundInv, HostInv
<1>. QED BY <1>6, <1>7

\* The buffers of a call are made before the first launch.
LEMMA PrepareKeepsSound ==
  ASSUME IInv, SoundInv, NEW l, DeviceInv(l), HostInv(l), Prepare
  PROVE  SoundInv'
<1>1. ~lastError /\ HasOutputs /\ LaunchOf(Rq) = l /\ calls # 0 /\ stream = << >> /\ Rq \in CudaRequests
  BY DEF SoundInv, HostInv, Prepare, Rq
<1>2. host.at = "called" /\ Checked(Rq) = "ok"
  BY DEF Prepare
<1>3. UNCHANGED << calls, failures, lastError, stream, blocks, block, threads, shared >>
  BY DEF Prepare, Quiet
<1>4. ~lastError'
  BY <1>1, <1>3
<1>5. host = [ at |-> host.at, request |-> host.request, left |-> host.left,
               timed |-> host.timed, outcome |-> host.outcome ]
  BY <1>2 DEF IInv, IsHost
<1>6. IsLaunch(l) /\ (Rq.entry = "profile" \/ Rq.entry = "execute")
  BY <1>1, <1>2, CheckedIsLaunch
<1>7. host' = [ host EXCEPT !.at = IF Rq.entry = "profile" THEN "warmup" ELSE "launch",
                            !.left = IF Rq.entry = "profile" THEN Rq.warmups ELSE 1 ]
  BY DEF Prepare
<1>8. /\ host'.request = host.request /\ host'.timed = host.timed
      /\ \/ Rq.entry = "profile" /\ host'.at = "warmup" /\ host'.left = Rq.warmups
         \/ Rq.entry = "execute" /\ host'.at = "launch" /\ host'.left = 1
  BY <1>5, <1>6, <1>7
<1>9. l = LaunchOf(Rq)' /\ Rq' = Rq
  BY <1>1, <1>3, <1>8, SameLaunch DEF Rq
<1>10. HasOutputs' /\ HasBuffer(l)'
  <2> DEFINE fresh == [ index \in 0 .. l.rows * l.width - 1 |-> Nothing ]
  <2>1. output' = [ output EXCEPT ![calls] = fresh ]
    BY <1>1 DEF Prepare
  <2>2. DOMAIN fresh = 0 .. l.rows * l.width - 1
    OBVIOUS
  <2> HIDE DEF fresh
  <2>3. calls \in 1 .. calls /\ output = [ k \in 1 .. calls |-> output[k] ] /\ calls \in Nat
    BY <1>1 DEF HasOutputs
  <2>4. output' = [ k \in 1 .. calls |-> output'[k] ] /\ output'[calls] = fresh
    BY <2>1, <2>3
  <2>. QED BY <1>1, <1>3, <2>2, <2>3, <2>4 DEF HasOutputs, HasBuffer
<1>11. DeviceInv(l)'
  <2>1. blocks = {} /\ block = NoBlock
    BY <1>1 DEF DeviceInv
  <2>. QED BY <1>1, <1>3, <2>1 DEF DeviceInv
<1>12. HostInv(l)'
  <2>1. Rq.entry = "profile" => Rq.warmups \in Nat \ {0}
    BY <1>1, <1>2, CheckedProfileWarmsUp, CudaRequestsAssumption
  <2>2. host.timed = 0
    BY <1>2 DEF HostInv
  <2>3. Rq.entry = "profile" =>
          host'.left \in Int /\ host'.left \in Nat \ {0} /\ ~(host'.left < Rq.warmups)
    BY <1>8, <2>1
  <2>. QED BY <1>1, <1>3, <1>6, <1>8, <1>9, <1>10, <2>1, <2>2, <2>3 DEF HostInv, HasLaunched, Rq
<1>. QED BY <1>4, <1>8, <1>10, <1>11, <1>12 DEF SoundInv

\* The other steps of the host leave the device alone.
LEMMA QuietStepKeepsSound ==
  ASSUME IInv, SoundInv, NEW l, DeviceInv(l), HostInv(l),
         \/ RefuseCall \/ SynchronizeWarmUp \/ SynchronizeEvent \/ CopyBack
         \/ cudaDeviceSynchronize \/ Free \/ CleanupFails
  PROVE  SoundInv'
<1>1. ~lastError /\ HasOutputs /\ LaunchOf(Rq) = l
  BY DEF SoundInv, HostInv
<1>2. UNCHANGED << calls, failures, lastError >> /\ UNCHANGED deviceVars
  BY DEF RefuseCall, SynchronizeWarmUp, SynchronizeEvent, CopyBack, cudaDeviceSynchronize, Free,
         CleanupFails, Quiet
<1>3. ~lastError' /\ stream' = stream
  BY <1>1, <1>2 DEF deviceVars
<1>4. /\ DeviceInv(l)' /\ HasOutputs' /\ (HasBuffer(l) => HasBuffer(l)')
      /\ IsComplete(l) => IsComplete(l)'
  BY <1>1, <1>2, QuietDevice
<1>5. host = [ at |-> host.at, request |-> host.request, left |-> host.left,
               timed |-> host.timed, outcome |-> host.outcome ]
  BY DEF IInv, IsHost, HostInv
<1>6. ASSUME host'.request = host.request, HostInv(l)', host'.at # "idle"
      PROVE  SoundInv'
  BY <1>3, <1>4, <1>6 DEF SoundInv
<1>7. ASSUME host'.request = host.request
      PROVE  l = LaunchOf(Rq)' /\ Rq' = Rq
  BY <1>1, <1>2, <1>7, SameLaunch DEF Rq
<1>8. CASE RefuseCall
  <2>1. host' = [ host EXCEPT !.at = "returned", !.outcome = Checked(Rq) ]
        /\ Checked(Rq) # "ok" /\ host.at = "called"
    BY <1>8 DEF RefuseCall, Return
  <2>2. /\ host'.at = "returned" /\ host'.outcome # "ok" /\ host'.request = host.request
        /\ host'.left = host.left /\ host'.timed = host.timed
    BY <1>5, <2>1
  <2>3. HostInv(l)'
    BY <1>2, <1>3, <1>7, <2>1, <2>2 DEF HostInv, HasLaunched
  <2>. QED BY <1>6, <2>2, <2>3
<1>9. CASE SynchronizeWarmUp
  <2>1. host' = [ host EXCEPT !.at = "measure", !.left = Rq.measured ]
        /\ host.at = "warmup" /\ host.left = 0 /\ stream = << >>
    BY <1>9 DEF SynchronizeWarmUp
  <2>2. /\ host'.at = "measure" /\ host'.request = host.request
        /\ host'.left = Rq.measured /\ host'.timed = host.timed
    BY <1>5, <2>1
  <2>3. Rq.measured \in Nat /\ host.timed = 0
    BY <2>1, CudaRequestsAssumption DEF HostInv, Rq
  <2>4. HasLaunched
    BY <2>1 DEF HostInv, HasLaunched
  <2>5. HostInv(l)'
    BY <1>2, <1>3, <1>4, <1>7, <2>1, <2>2, <2>3, <2>4 DEF HostInv
  <2>. QED BY <1>6, <2>2, <2>5
<1>10. CASE SynchronizeEvent
  <2>1. host' = [ host EXCEPT !.at = "measure", !.timed = @ + 1 ]
        /\ host.at = "stop" /\ stream = << >>
    BY <1>10 DEF SynchronizeEvent
  <2>2. /\ host'.at = "measure" /\ host'.request = host.request
        /\ host'.left = host.left /\ host'.timed = host.timed + 1
    BY <1>5, <2>1
  <2>3. HasLaunched /\ host.left \in Int /\ host.timed \in Int
        /\ host.timed + host.left = Rq.measured - 1
    BY <2>1 DEF HostInv, HasLaunched
  <2>4. Rq.measured \in Nat
    BY <2>1, CudaRequestsAssumption DEF HostInv, Rq
  <2>5. host'.timed \in Int /\ host'.timed + host'.left = Rq.measured
    BY <2>2, <2>3, <2>4
  <2>6. HostInv(l)'
    BY <1>2, <1>3, <1>4, <1>7, <2>1, <2>2, <2>3, <2>5 DEF HostInv
  <2>. QED BY <1>6, <2>2, <2>6
<1>11. CASE CopyBack
  <2>1. host' = [ host EXCEPT !.at = "free", !.outcome = "ok" ]
        /\ host.at = "measure" /\ host.left = 0 /\ stream = << >>
    BY <1>11 DEF CopyBack, Finish
  <2>2. /\ host'.at = "free" /\ host'.outcome = "ok" /\ host'.request = host.request
        /\ host'.left = host.left /\ host'.timed = host.timed
    BY <1>5, <2>1
  <2>3. host.timed = Rq.measured
    BY <2>1 DEF HostInv
  <2>4. HasLaunched
    BY <2>1 DEF HasLaunched
  <2>5. HostInv(l)'
    BY <1>2, <1>3, <1>4, <1>7, <2>1, <2>2, <2>3, <2>4 DEF HostInv
  <2>. QED BY <1>6, <2>2, <2>5
<1>12. CASE cudaDeviceSynchronize
  <2>1. host' = [ host EXCEPT !.at = "returned", !.outcome = "ok" ]
        /\ host.at = "synchronize" /\ stream = << >>
    BY <1>12 DEF cudaDeviceSynchronize, Return
  <2>2. /\ host'.at = "returned" /\ host'.outcome = "ok" /\ host'.request = host.request
        /\ host'.left = host.left /\ host'.timed = host.timed
    BY <1>5, <2>1
  <2>3. HasLaunched /\ Rq.entry = "execute"
    BY <2>1 DEF HasLaunched, HostInv
  <2>4. HostInv(l)'
    BY <1>2, <1>3, <1>4, <1>7, <2>1, <2>2, <2>3 DEF HostInv
  <2>. QED BY <1>6, <2>2, <2>4
<1>13. CASE Free
  <2>1. host' = [ host EXCEPT !.at = "returned", !.outcome = host.outcome ]
        /\ host.at = "free" /\ (Rq.entry = "profile" => stream = << >>)
    BY <1>13 DEF Free, Return
  <2>2. /\ host'.at = "returned" /\ host'.outcome = host.outcome /\ host'.request = host.request
        /\ host'.left = host.left /\ host'.timed = host.timed
    BY <1>5, <2>1
  <2>3. stream = << >>
    <3>1. Rq.entry = "profile" \/ Rq.entry = "execute"
      BY CudaRequestsAssumption DEF HostInv, Rq
    <3>. QED BY <2>1, <3>1 DEF HostInv
  <2>4. host.outcome = "ok" => HasLaunched
    BY <2>1 DEF HasLaunched
  <2>5. host'.outcome = "ok" /\ Rq.entry = "profile" => host'.timed = Rq.measured
    BY <2>1, <2>2 DEF HostInv
  <2>6. HasLaunched' => host.outcome = "ok"
    BY <2>2 DEF HasLaunched
  <2>7. HostInv(l)'
    BY <1>2, <1>3, <1>4, <1>7, <2>1, <2>2, <2>3, <2>4, <2>5, <2>6 DEF HostInv
  <2>. QED BY <1>6, <2>2, <2>7
<1>14. CASE CleanupFails
  <2>1. host' = [ host EXCEPT !.at = "terminated" ] /\ host.at = "free"
    BY <1>14 DEF CleanupFails
  <2>2. /\ host'.at = "terminated" /\ host'.outcome = host.outcome /\ host'.request = host.request
        /\ host'.left = host.left /\ host'.timed = host.timed
    BY <1>5, <2>1
  <2>3. HostInv(l)'
    BY <1>2, <1>3, <1>7, <2>1, <2>2 DEF HostInv, HasLaunched
  <2>. QED BY <1>6, <2>2, <2>3
<1>. QED BY <1>8, <1>9, <1>10, <1>11, <1>12, <1>13, <1>14

\* Every step of the host keeps it, but one that fails with a status.
LEMMA HostKeepsSound ==
  ASSUME IInv, SoundInv, HostStep \/ CleanupFails
  PROVE  SoundInv'
<1>1. host.at # "idle"
  BY DEF HostStep, RefuseCall, Prepare, LaunchWarmUp, SynchronizeWarmUp, LaunchMeasured,
         SynchronizeEvent, CopyBack, LaunchOperation, cudaDeviceSynchronize, Free, CleanupFails
<1>2. PICK l : DeviceInv(l) /\ HostInv(l)
  BY <1>1 DEF SoundInv
<1>4. CASE LaunchWarmUp
  BY <1>2, <1>4, LaunchKeepsSound DEF LaunchWarmUp
<1>5. CASE LaunchMeasured
  BY <1>2, <1>5, LaunchKeepsSound DEF LaunchMeasured
<1>6. CASE LaunchOperation
  BY <1>2, <1>6, LaunchKeepsSound DEF LaunchOperation
<1>. QED
  BY <1>2, <1>4, <1>5, <1>6, PrepareKeepsSound, QuietStepKeepsSound DEF HostStep

\* A call finds the device as it was at first, and gets a buffer.
LEMMA CallKeepsSound ==
  ASSUME IInv, SoundInv, CallBackend
  PROVE  SoundInv'
<1>1. PICK r \in CudaRequests :
        /\ host' = [ at |-> "called", request |-> r, left |-> 0, timed |-> 0, outcome |-> "none" ]
        /\ output' = Append(output, << >>)
  BY DEF CallBackend
<1>2. calls' = calls + 1 /\ host.at \in {"idle", "returned"}
      /\ UNCHANGED << failures, lastError, stream, blocks, block, threads, shared >>
  BY DEF CallBackend
<1>3. ~lastError'
  BY <1>2 DEF SoundInv
<1>4. PICK k : DeviceInv(k) /\ stream = << >>
  BY <1>2 DEF SoundInv, HostInv
<1>5. PICK l : l = LaunchOf(Rq)'
  OBVIOUS
<1>6. DeviceInv(l)'
  <2>1. blocks = {} /\ block = NoBlock
    BY <1>4 DEF DeviceInv
  <2>2. stream' \in Seq({l})
    BY <1>2, <1>4
  <2>. QED BY <1>2, <1>4, <2>1, <2>2 DEF DeviceInv
<1>7. calls' \in Nat \ {0} /\ HasOutputs'
  <2> DEFINE S == { output[n] : n \in 1 .. calls } \cup { << >> }
  <2>1. calls \in Nat /\ output = [ n \in 1 .. calls |-> output[n] ]
    BY DEF SoundInv, HasOutputs
  <2>2. output \in [ 1 .. calls -> S ] /\ << >> \in S
    BY <2>1
  <2> HIDE DEF S
  <2>3. output \in Seq(S) /\ Len(output) = calls
    BY <2>1, <2>2, FunctionToSequence
  <2>4. output' \in Seq(S) /\ Len(output') = calls + 1
    BY <1>1, <2>2, <2>3, AppendProperties
  <2>5. output' \in [ 1 .. calls + 1 -> S ]
    BY <2>4, LenProperties
  <2>6. output' = [ n \in 1 .. calls + 1 |-> output'[n] ]
    BY <2>5
  <2>. QED BY <1>2, <2>1, <2>6 DEF HasOutputs
<1>8. HostInv(l)'
  BY <1>1, <1>2, <1>4, <1>5, <1>7 DEF HostInv, HasLaunched
<1>9. host'.at = "called"
  BY <1>1
<1>. QED BY <1>3, <1>6, <1>7, <1>8, <1>9 DEF SoundInv

\* A step of the device may end the launches the host waits for.
LEMMA DeviceKeepsSound ==
  ASSUME SoundInv, DeviceNext, UNCHANGED hostVars
  PROVE  SoundInv'
<1>1. HasOutputs /\ ~lastError
  BY DEF SoundInv
<1>2. UNCHANGED << host, calls, failures, lastError >> /\ ~lastError'
  BY <1>1 DEF hostVars
<1>3. PICK l : DeviceInv(l) /\ IF host.at = "idle" THEN stream = << >> ELSE HostInv(l)
  BY DEF SoundInv
<1>4. /\ DeviceInv(l)' /\ HasOutputs' /\ stream # << >> /\ HasBuffer(l)'
      /\ stream' = << >> => IsComplete(l)'
  BY <1>1, <1>2, <1>3, DevicePreserves
<1>5. host.at # "idle" /\ HostInv(l) /\ LaunchOf(Rq) = l
  BY <1>3, <1>4 DEF HostInv
<1>6. l = LaunchOf(Rq)' /\ Rq' = Rq
  BY <1>2, <1>5, SameLaunch DEF Rq
<1>7. HostInv(l)'
  BY <1>2, <1>4, <1>5, <1>6 DEF HostInv
<1>. QED BY <1>2, <1>4, <1>5, <1>7 DEF SoundInv

\* The choice of a backend and the CPU leave the CUDA backend alone.
LEMMA OthersKeepSound ==
  ASSUME SoundInv, UNCHANGED cudaVars
  PROVE  SoundInv'
<1>1. HasOutputs /\ ~lastError
  BY DEF SoundInv
<1>2. UNCHANGED << host, calls, failures, lastError >> /\ UNCHANGED deviceVars
  BY DEF cudaVars, hostVars
<1>3. ~lastError' /\ stream' = stream
  BY <1>1, <1>2 DEF deviceVars
<1>4. PICK l : DeviceInv(l) /\ IF host.at = "idle" THEN stream = << >> ELSE HostInv(l)
  BY DEF SoundInv
<1>5. /\ DeviceInv(l)' /\ HasOutputs' /\ (HasBuffer(l) => HasBuffer(l)')
      /\ IsComplete(l) => IsComplete(l)'
  BY <1>1, <1>2, <1>4, QuietDevice
<1>6. CASE host.at = "idle"
  BY <1>2, <1>3, <1>4, <1>5, <1>6 DEF SoundInv
<1>7. CASE host.at # "idle"
  <2>1. l = LaunchOf(Rq)' /\ Rq' = Rq
    BY <1>2, <1>4, <1>7, SameLaunch DEF Rq, HostInv
  <2>2. HasLaunched' <=> HasLaunched
    BY <1>2 DEF HasLaunched, Rq
  <2>3. HostInv(l)'
    BY <1>2, <1>3, <1>4, <1>5, <1>7, <2>1, <2>2 DEF HostInv
  <2>. QED BY <1>2, <1>3, <1>5, <1>7, <2>3 DEF SoundInv
<1>. QED BY <1>6, <1>7

\* What holds before anything has failed holds in every reachable state.
THEOREM SoundUntilFailure == Spec => []CudaInv
<1>1. Init => CudaInv
  <2>. SUFFICES ASSUME Init PROVE SoundInv
    BY DEF CudaInv
  <2>1. /\ stream = << >> /\ blocks = {} /\ block = NoBlock /\ output = << >>
        /\ threads = [ lane \in Lanes |-> Thread("done") ]
        /\ shared = [ lane \in Lanes |-> Nothing ]
        /\ host = [ at |-> "idle" ] /\ calls = 0
    BY DEF Init, CudaInit, DeviceInit
  <2>2. lastError = FALSE
    BY DEF Init, CudaInit
  <2>3. Nothing \in StoredElements /\ Thread("done") \in Registers
    BY DEF Nothing, Element, StoredElements, Thread, Registers
  <2>4. DeviceInv(0)
    BY <2>1, <2>3 DEF DeviceInv
  <2>5. HasOutputs
    BY <2>1 DEF HasOutputs
  <2>6. ~lastError
    BY <2>2
  <2>. QED BY <2>1, <2>4, <2>5, <2>6 DEF SoundInv
<1>2. IInv /\ CudaInv /\ [Next]_<< backend, cpuVars, cudaVars >> => CudaInv'
  <2>. SUFFICES ASSUME IInv, CudaInv, [Next]_<< backend, cpuVars, cudaVars >>, failures' = 0
                PROVE  SoundInv'
    BY DEF CudaInv
  <2>1. CASE UNCHANGED cudaVars
    <3>1. failures = 0
      BY <2>1 DEF cudaVars, hostVars
    <3>. QED BY <2>1, <3>1, OthersKeepSound DEF CudaInv
  <2>2. CASE CallBackend
    <3>1. failures = 0
      BY <2>2 DEF CallBackend
    <3>. QED BY <2>2, <3>1, CallKeepsSound DEF CudaInv
  <2>3. CASE HostStep \/ HostFails
    <3>1. HostStep \/ CleanupFails
      BY <2>3 DEF IInv, HostFails, CudaCallFails
    <3>2. failures = 0
      BY <3>1 DEF HostStep, RefuseCall, Prepare, LaunchWarmUp, SynchronizeWarmUp, LaunchMeasured,
         SynchronizeEvent, CopyBack, LaunchOperation, cudaDeviceSynchronize, Free, CleanupFails,
         launch_kernel, Quiet
    <3>. QED BY <3>1, <3>2, HostKeepsSound DEF CudaInv
  <2>4. CASE DeviceNext /\ UNCHANGED hostVars
    <3>1. failures = 0
      BY <2>4 DEF hostVars
    <3>. QED BY <2>4, <3>1, DeviceKeepsSound DEF CudaInv
  <2>. QED BY <2>1, <2>2, <2>3, <2>4 DEF Next, Create, CudaNext
<1>. QED BY <1>1, <1>2, Invariance, PTL DEF Spec

\* For any requests, block size and limits, and however the threads of a block, the
\* blocks and the host interleave: a call that succeeds has a whole output, every
\* element computed from the whole of its row, once, and a time for each iteration.
THEOREM SuccessReturnsTheResultHolds == Spec => []SuccessReturnsTheResult
<1>1. IInv /\ CudaInv => SuccessReturnsTheResult
  <2>. SUFFICES ASSUME IInv, CudaInv, host.at = "returned", host.outcome = "ok"
                PROVE  LET launch == LaunchOf(Rq)
                           shape == << launch.rows, launch.width >>
                       IN  /\ stream = << >>
                           /\ Rq.entry = "profile" => host.timed = Rq.measured
                           /\ \A c \in Coordinates(shape) :
                                Computes(output[calls][Position(shape, c)], launch, c)
    BY DEF SuccessReturnsTheResult
  <2>1. failures = 0
    BY DEF IInv, FailureInv
  <2>2. PICK l : DeviceInv(l) /\ HostInv(l)
    BY <2>1 DEF CudaInv, SoundInv
  <2>3. LaunchOf(Rq) = l /\ stream = << >> /\ HasLaunched
        /\ (Rq.entry = "profile" => host.timed = Rq.measured)
    BY <2>2 DEF HostInv, HasLaunched
  <2>4. IsComplete(l)
    BY <2>2, <2>3 DEF HostInv
  <2>. QED BY <2>3, <2>4 DEF IsComplete, IsComputed, IndexOf, Cells, Shape
<1>. QED BY <1>1, Invariance, SoundUntilFailure, PTL

(***************************************************************************)
(* Loops over the axes of a shape: products, sums and positions.           *)
(***************************************************************************)

\* Products of numbers are numbers.
LEMMA TimesIsNat ==
  ASSUME NEW x \in Nat, NEW y \in Nat, NEW z \in Nat
  PROVE  x * y \in Nat /\ x * y + z \in Nat
OBVIOUS

\* f begins with a and goes on by multiplying and adding.
IsLoop(f, N, a, m, t) ==
  /\ f \in [ 0 .. N -> Nat ]
  /\ f[0] = a
  /\ \A k \in 1 .. N : f[k] = f[k - 1] * m[k] + t[k]

\* There is such a function.
LEMMA LoopExists ==
  ASSUME NEW N \in Nat, NEW a \in Nat, NEW m \in [ 1 .. N -> Nat ], NEW t \in [ 1 .. N -> Nat ]
  PROVE  \E f : IsLoop(f, N, a, m, t)
<1> DEFINE Exist == { n \in 0 .. N : \E f : IsLoop(f, n, a, m, t) }
<1>1. 0 \in Exist
  <2>1. IsLoop([ i \in 0 .. 0 |-> a ], 0, a, m, t)
    BY DEF IsLoop
  <2>. QED BY <2>1
<1>2. ASSUME NEW n \in 1 .. N, n - 1 \in Exist
      PROVE  n \in Exist
  <2>1. PICK f : IsLoop(f, n - 1, a, m, t)
    BY <1>2
  <2>2. f \in [ 0 .. n - 1 -> Nat ] /\ f[0] = a
        /\ \A k \in 1 .. n - 1 : f[k] = f[k - 1] * m[k] + t[k]
    BY <2>1 DEF IsLoop
  <2> DEFINE h == [ i \in 0 .. n |-> IF i = n THEN f[n - 1] * m[n] + t[n] ELSE f[i] ]
  <2>3. f[n - 1] * m[n] + t[n] \in Nat
    <3>1. f[n - 1] \in Nat /\ m[n] \in Nat /\ t[n] \in Nat
      BY <2>2
    <3>. QED BY <3>1, TimesIsNat
  <2>4. h \in [ 0 .. n -> Nat ]
    BY <2>2, <2>3
  <2>5. h[n] = f[n - 1] * m[n] + t[n] /\ \A k \in 0 .. n - 1 : h[k] = f[k]
    OBVIOUS
  <2> HIDE DEF h
  <2>6. h[0] = a
    BY <2>2, <2>5
  <2>7. ASSUME NEW k \in 1 .. n
        PROVE  h[k] = h[k - 1] * m[k] + t[k]
    <3>1. h[k - 1] = f[k - 1]
      BY <2>5
    <3>2. CASE k = n
      BY <2>5, <3>1, <3>2
    <3>3. CASE k \in 1 .. n - 1
      <4>1. h[k] = f[k]
        BY <2>5, <3>3
      <4>2. f[k] = f[k - 1] * m[k] + t[k]
        BY <2>2, <3>3
      <4>. QED BY <3>1, <4>1, <4>2
    <3>. QED BY <3>2, <3>3
  <2>8. IsLoop(h, n, a, m, t)
    BY <2>4, <2>6, <2>7 DEF IsLoop
  <2>. QED BY <2>8
<1>3. Exist \in SUBSET (0 .. N)
  OBVIOUS
<1> HIDE DEF Exist
<1>4. \A n \in 0 .. N : n \in Exist
  BY <1>1, <1>2, <1>3, UpTo
<1>. QED BY <1>4 DEF Exist

\* Two functions are the same if each value follows from the one before.
LEMMA SameValues ==
  ASSUME NEW N \in Nat, NEW f, NEW h, h[0] = f[0],
         \A n \in 1 .. N : h[n - 1] = f[n - 1] => h[n] = f[n]
  PROVE  \A n \in 0 .. N : h[n] = f[n]
<1> DEFINE Same == { n \in 0 .. N : h[n] = f[n] }
<1>1. 0 \in Same /\ Same \in SUBSET (0 .. N)
  OBVIOUS
<1>2. \A n \in 1 .. N : n - 1 \in Same => n \in Same
  OBVIOUS
<1> HIDE DEF Same
<1>3. \A n \in 0 .. N : n \in Same
  BY <1>1, <1>2, UpTo
<1>. QED BY <1>3 DEF Same

\* And only one, as far as what it multiplies by and adds is the same.
LEMMA LoopIsUnique ==
  ASSUME NEW N \in Nat, NEW M \in Nat, NEW a, NEW m, NEW t, NEW n, NEW u, NEW f, NEW h,
         IsLoop(f, N, a, m, t), IsLoop(h, M, a, n, u), M <= N,
         \A k \in 1 .. M : m[k] = n[k] /\ t[k] = u[k]
  PROVE  \A k \in 0 .. M : f[k] = h[k]
<1>1. h[0] = f[0]
  BY DEF IsLoop
<1>2. \A k \in 1 .. M : h[k - 1] = f[k - 1] => h[k] = f[k]
  BY DEF IsLoop
<1>. QED BY <1>1, <1>2, SameValues

\* What a product adds, and what a sum multiplies by.
ZerosOf(s) == [ k \in 1 .. Len(s) |-> 0 ]
OnesOf(s) == [ k \in 1 .. Len(s) |-> 1 ]

\* The number of elements, axis by axis.
LEMMA ProductFacts ==
  ASSUME NEW s \in Seq(Nat)
  PROVE  \E f : /\ IsLoop(f, Len(s), 1, s, ZerosOf(s))
                /\ Product(s) = f[Len(s)]
<1> DEFINE N == Len(s)
           P(p) == p = [ n \in 0 .. N |-> IF n = 0 THEN 1 ELSE p[n - 1] * s[n] ]
           chosen == CHOOSE p : P(p)
<1>1. N \in Nat /\ s \in [ 1 .. N -> Nat ]
  BY LenProperties
<1>2. ZerosOf(s) \in [ 1 .. N -> Nat ] /\ \A n \in 1 .. N : ZerosOf(s)[n] = 0
  BY <1>1 DEF ZerosOf, OnesOf
<1>3. Product(s) = chosen[N]
  BY DEF Product
<1> HIDE DEF N
<1>4. PICK f : IsLoop(f, N, 1, s, ZerosOf(s))
  BY <1>1, <1>2, LoopExists
<1>5. /\ f \in [ 0 .. N -> Nat ] /\ f[0] = 1
      /\ \A n \in 1 .. N : f[n] = f[n - 1] * s[n]
  <2>1. ASSUME NEW n \in 1 .. N
        PROVE  f[n] = f[n - 1] * s[n]
    <3>1. f[n] = f[n - 1] * s[n] + ZerosOf(s)[n] /\ f[n - 1] \in Nat /\ s[n] \in Nat /\ ZerosOf(s)[n] \in Nat
      BY <1>1, <1>2, <1>4 DEF IsLoop
    <3>. QED BY <1>2, <3>1, TimesIsNat
  <2>. QED BY <1>4, <2>1 DEF IsLoop
<1>6. P(f)
  <2>1. f = [ n \in 0 .. N |-> f[n] ]
    BY <1>5
  <2>2. \A n \in 0 .. N : f[n] = IF n = 0 THEN 1 ELSE f[n - 1] * s[n]
    BY <1>1, <1>5
  <2>. QED BY <2>1, <2>2
<1>7. P(chosen)
  BY <1>6
<1> HIDE DEF chosen
<1>8. chosen[N] = f[N]
  <2>2. \A n \in 0 .. N : chosen[n] = IF n = 0 THEN 1 ELSE chosen[n - 1] * s[n]
    BY <1>7
  <2>4. chosen[0] = f[0]
    BY <1>1, <1>5, <2>2
  <2>5. \A n \in 1 .. N : chosen[n] = chosen[n - 1] * s[n]
    BY <1>1, <2>2, SMTT(20)
  <2>6. \A n \in 1 .. N : chosen[n - 1] = f[n - 1] => chosen[n] = f[n]
    BY <1>5, <2>5
  <2>7. \A n \in 0 .. N : chosen[n] = f[n]
    <3>1. N \in Nat
      BY <1>1
    <3> HIDE DEF P
    <3>. QED BY <3>1, <2>4, <2>6, SameValues
  <2>. QED BY <1>1, <2>7
<1>. QED BY <1>3, <1>4, <1>8 DEF N

\* A sum, term by term.
LEMMA SumFacts ==
  ASSUME NEW t \in Seq(Nat)
  PROVE  \E f : /\ IsLoop(f, Len(t), 0, OnesOf(t), t)
                /\ SumOf(t) = f[Len(t)]
<1> DEFINE N == Len(t)
           P(p) == p = [ n \in 0 .. N |-> IF n = 0 THEN 0 ELSE p[n - 1] + t[n] ]
           chosen == CHOOSE p : P(p)
<1>1. N \in Nat /\ t \in [ 1 .. N -> Nat ]
  BY LenProperties
<1>2. OnesOf(t) \in [ 1 .. N -> Nat ] /\ \A n \in 1 .. N : OnesOf(t)[n] = 1
  BY <1>1 DEF ZerosOf, OnesOf
<1>3. SumOf(t) = chosen[N]
  BY DEF SumOf
<1> HIDE DEF N
<1>4. PICK f : IsLoop(f, N, 0, OnesOf(t), t)
  BY <1>1, <1>2, LoopExists
<1>5. /\ f \in [ 0 .. N -> Nat ] /\ f[0] = 0
      /\ \A n \in 1 .. N : f[n] = f[n - 1] + t[n]
  <2>1. ASSUME NEW n \in 1 .. N
        PROVE  f[n] = f[n - 1] + t[n]
    <3>1. f[n] = f[n - 1] * OnesOf(t)[n] + t[n] /\ f[n - 1] \in Nat /\ OnesOf(t)[n] \in Nat /\ t[n] \in Nat
      BY <1>1, <1>2, <1>4 DEF IsLoop
    <3>. QED BY <1>2, <3>1, TimesIsNat
  <2>. QED BY <1>4, <2>1 DEF IsLoop
<1>6. P(f)
  <2>1. f = [ n \in 0 .. N |-> f[n] ]
    BY <1>5
  <2>2. \A n \in 0 .. N : f[n] = IF n = 0 THEN 0 ELSE f[n - 1] + t[n]
    BY <1>1, <1>5
  <2>. QED BY <2>1, <2>2
<1>7. P(chosen)
  BY <1>6
<1> HIDE DEF chosen
<1>8. chosen[N] = f[N]
  <2>2. \A n \in 0 .. N : chosen[n] = IF n = 0 THEN 0 ELSE chosen[n - 1] + t[n]
    BY <1>7
  <2>4. chosen[0] = f[0]
    BY <1>1, <1>5, <2>2
  <2>5. \A n \in 1 .. N : chosen[n] = chosen[n - 1] + t[n]
    BY <1>1, <2>2, SMTT(20)
  <2>6. \A n \in 1 .. N : chosen[n - 1] = f[n - 1] => chosen[n] = f[n]
    BY <1>5, <2>5
  <2>7. \A n \in 0 .. N : chosen[n] = f[n]
    <3>1. N \in Nat
      BY <1>1
    <3> HIDE DEF P
    <3>. QED BY <3>1, <2>4, <2>6, SameValues
  <2>. QED BY <1>1, <2>7
<1>. QED BY <1>3, <1>4, <1>8 DEF N

\* A position, axis by axis.
LEMMA PositionFacts ==
  ASSUME NEW s \in Seq(Nat), NEW c \in [ 1 .. Len(s) -> Nat ]
  PROVE  \E f : /\ IsLoop(f, Len(s), 0, s, c)
                /\ Position(s, c) = f[Len(s)]
<1> DEFINE N == Len(s)
           P(p) == p = [ n \in 0 .. N |-> IF n = 0 THEN 0 ELSE p[n - 1] * s[n] + c[n] ]
           chosen == CHOOSE p : P(p)
<1>1. N \in Nat /\ s \in [ 1 .. N -> Nat ] /\ c \in [ 1 .. N -> Nat ]
  BY LenProperties
<1>2. Position(s, c) = chosen[N]
  BY DEF Position
<1> HIDE DEF N
<1>3. PICK f : IsLoop(f, N, 0, s, c)
  BY <1>1, LoopExists
<1>4. /\ f \in [ 0 .. N -> Nat ] /\ f[0] = 0
      /\ \A n \in 1 .. N : f[n] = f[n - 1] * s[n] + c[n]
  <2>1. ASSUME NEW n \in 1 .. N
        PROVE  f[n] = f[n - 1] * s[n] + c[n]
    <3>1. f[n] = f[n - 1] * s[n] + c[n] /\ f[n - 1] \in Nat /\ s[n] \in Nat /\ c[n] \in Nat
      BY <1>1, <1>3, SMTT(20) DEF IsLoop
    <3>. QED BY <3>1, TimesIsNat
  <2>. QED BY <1>3, <2>1 DEF IsLoop
<1>5. P(f)
  <2>1. f = [ n \in 0 .. N |-> f[n] ]
    BY <1>4
  <2>2. \A n \in 0 .. N : f[n] = IF n = 0 THEN 0 ELSE f[n - 1] * s[n] + c[n]
    BY <1>1, <1>4
  <2>. QED BY <2>1, <2>2
<1>6. P(chosen)
  BY <1>5
<1> HIDE DEF chosen
<1>7. chosen[N] = f[N]
  <2>2. \A n \in 0 .. N : chosen[n] = IF n = 0 THEN 0 ELSE chosen[n - 1] * s[n] + c[n]
    BY <1>6
  <2>4. chosen[0] = f[0]
    BY <1>1, <1>4, <2>2
  <2>5. \A n \in 1 .. N : chosen[n] = chosen[n - 1] * s[n] + c[n]
    BY <1>1, <2>2
  <2>6. \A n \in 1 .. N : chosen[n - 1] = f[n - 1] => chosen[n] = f[n]
    BY <1>4, <2>5
  <2>7. \A n \in 0 .. N : chosen[n] = f[n]
    <3>1. N \in Nat
      BY <1>1
    <3> HIDE DEF P
    <3>. QED BY <3>1, <2>4, <2>6, SameValues, ZenonT(30)
  <2>. QED BY <1>1, <2>7
<1>. QED BY <1>2, <1>3, <1>7 DEF N

\* The next axis, within the last one's stride and outside of its own.
LEMMA Regroup ==
  ASSUME NEW x \in Nat, NEW y \in Nat, NEW z \in Nat, NEW w \in Nat
  PROVE  (x * y + z) * w = x * (w * y) + z * w
OBVIOUS

\* What is left of a coordinate and of what is within its stride is within the next.
LEMMA WithinStride ==
  ASSUME NEW y \in Nat, NEW z \in 0 .. y - 1, NEW w \in Nat, NEW rest \in 0 .. w - 1
  PROVE  z * w + rest \in 0 .. w * y - 1
<1>1. PICK d \in Nat : y = z + 1 + d
  <2>1. y - 1 - z \in Nat /\ y = z + 1 + (y - 1 - z)
    OBVIOUS
  <2>. QED BY <2>1
<1>2. w * y = z * w + w + w * d
  BY <1>1
<1>3. w * d \in Nat /\ z * w \in Nat
  OBVIOUS
<1>. QED BY <1>2, <1>3

\* Dividing twice is dividing by the product.
LEMMA DivideTwice ==
  ASSUME NEW n \in Nat, NEW w \in Nat \ {0}, NEW y \in Nat \ {0}
  PROVE  ((n \div w) \div y) = (n \div (w * y)) /\ (n \div w) \in Nat
<1> DEFINE q == n \div w
           b == n % w
           d == q \div y
           a == q % y
<1>1. n = w * q + b /\ b \in 0 .. w - 1 /\ q \in Nat
  <2>1. n = w * q + b /\ b \in 0 .. w - 1 /\ q \in Int
    BY DivisionFacts
  <2>2. n \in Nat /\ w \in Nat \ {0}
    OBVIOUS
  <2> HIDE DEF q, b
  <2>3. CASE q < 0
    <3>1. PICK e \in Nat : q = -1 - e
      <4>1. -1 - q \in Nat /\ q = -1 - (-1 - q)
        BY <2>1, <2>3
      <4>. QED BY <4>1
    <3>2. w * q = -w - w * e /\ w * e \in Nat
      BY <3>1
    <3>. QED BY <2>1, <2>2, <3>2
  <2>. QED BY <2>1, <2>3
<1>2. q = y * d + a /\ a \in 0 .. y - 1 /\ d \in Int
  BY <1>1, DivisionFacts
<1> HIDE DEF q, b, a
<1>3. a * w + b \in 0 .. w * y - 1
  BY <1>1, <1>2, WithinStride
<1>4. n = d * (w * y) + (a * w + b)
  <2> HIDE DEF d
  <2>1. n = w * (y * d + a) + b
    BY <1>1, <1>2
  <2>. QED BY <1>1, <1>2, <2>1
<1>5. w * y \in Nat \ {0}
  OBVIOUS
<1>6. PICK v \in Nat \ {0}, e \in Nat : v = w * y /\ e = a * w + b /\ e \in 0 .. v - 1
  BY <1>3, <1>5
<1>7. n = d * v + e
  BY <1>4, <1>6
<1>8. (n \div v) = d
  <2> HIDE DEF d
  <2>. QED BY <1>2, <1>6, <1>7, QuotientAndRemainder
<1>9. (n \div (w * y)) = d
  BY <1>6, <1>8
<1>. QED BY <1>1, <1>9 DEF d, q

\* The stride of an axis is the number of elements of the axes after it.
LEMMA StrideFacts ==
  ASSUME NEW s \in Seq(Nat \ {0})
  PROVE  LET w == row_major_strides(s)
             N == Len(s)
         IN  /\ w \in [ 1 .. N -> Nat \ {0} ]
             /\ N # 0 => w[N] = 1
             /\ \A k \in 1 .. N - 1 : w[k] = w[k + 1] * s[k + 1]
<1> DEFINE N == Len(s)
           P(p) == p = [ k \in DOMAIN s |-> IF k = N THEN 1 ELSE p[k + 1] * s[k + 1] ]
           w == CHOOSE p : P(p)
           m == [ n \in 1 .. N |-> s[N - n + 1] ]
           zero == [ n \in 1 .. N |-> 0 ]
<1>1. N \in Nat /\ DOMAIN s = 1 .. N /\ \A k \in 1 .. N : s[k] \in Nat \ {0}
  BY LenProperties
<1>2. row_major_strides(s) = w
  BY DEF row_major_strides
<1> HIDE DEF N
<1>3. /\ m \in [ 1 .. N -> Nat ] /\ zero \in [ 1 .. N -> Nat ]
      /\ \A n \in 1 .. N : m[n] = s[N - n + 1] /\ zero[n] = 0
  <2>1. \A n \in 1 .. N : N - n + 1 \in 1 .. N
    BY <1>1
  <2>. QED BY <1>1, <2>1
<1> HIDE DEF m, zero
<1>4. PICK f : IsLoop(f, N, 1, m, zero)
  BY <1>1, <1>3, LoopExists
<1> DEFINE g == [ k \in 1 .. N |-> f[N - k] ]
<1>5. P(g)
  <2>1. ASSUME NEW k \in 1 .. N
        PROVE  g[k] = IF k = N THEN 1 ELSE g[k + 1] * s[k + 1]
    <3>1. CASE k = N
      <4>1. N - k = 0
        BY <1>1, <3>1
      <4>. QED BY <1>4, <3>1, <4>1 DEF IsLoop
    <3>2. CASE k # N
      <4> DEFINE n == N - k
      <4>1. n \in 1 .. N /\ k + 1 \in 1 .. N /\ n - 1 = N - (k + 1) /\ N - n + 1 = k + 1
            /\ n - 1 \in 0 .. N
        BY <1>1, <3>2
      <4>2. f[n] = f[n - 1] * m[n] + zero[n] /\ f[n - 1] \in Nat
        BY <1>4, <4>1 DEF IsLoop
      <4>3. m[n] = s[k + 1] /\ zero[n] = 0 /\ s[k + 1] \in Nat
        BY <1>1, <1>3, <4>1
      <4>4. f[n] = f[n - 1] * s[k + 1]
        BY <4>2, <4>3, TimesIsNat
      <4>5. g[k] = f[n] /\ g[k + 1] = f[n - 1]
        BY <4>1
      <4>. QED BY <3>2, <4>4, <4>5
    <3>. QED BY <3>1, <3>2
  <2>. QED BY <1>1, <2>1
<1> HIDE DEF g
<1>6. P(w)
  BY <1>5
<1> HIDE DEF w
<1>7. \A k \in 1 .. N : w[k] = IF k = N THEN 1 ELSE w[k + 1] * s[k + 1]
  BY <1>1, <1>6
<1>8. w = [ k \in 1 .. N |-> w[k] ]
  BY <1>1, <1>6
<1> HIDE DEF P
<1>9. \A k \in 1 .. N : w[k] \in Nat \ {0}
  <2> DEFINE Good == { n \in 0 .. N : n # 0 => w[N - n + 1] \in Nat \ {0} }
  <2>1. 0 \in Good /\ Good \in SUBSET (0 .. N)
    BY <1>1
  <2>2. ASSUME NEW n \in 1 .. N, n - 1 \in Good
        PROVE  n \in Good
    <3> DEFINE k == N - n + 1
    <3>1. k \in 1 .. N
      BY <1>1
    <3>2. CASE k = N
      BY <1>7, <3>1, <3>2
    <3>3. CASE k # N
      <4>1. k + 1 = N - (n - 1) + 1 /\ n - 1 # 0 /\ k + 1 \in 1 .. N
        BY <1>1, <3>3
      <4>2. w[k + 1] \in Nat \ {0} /\ s[k + 1] \in Nat \ {0}
        BY <1>1, <2>2, <4>1
      <4>3. w[k] = w[k + 1] * s[k + 1]
        BY <1>7, <3>1, <3>3
      <4>4. w[k + 1] * s[k + 1] \in Nat \ {0}
        BY <4>2
      <4>. QED BY <4>3, <4>4
    <3>. QED BY <3>2, <3>3
  <2> HIDE DEF Good
  <2>3. \A n \in 0 .. N : n \in Good
    BY <1>1, <2>1, <2>2, UpTo
  <2>4. ASSUME NEW k \in 1 .. N
        PROVE  w[k] \in Nat \ {0}
    <3>1. N - k + 1 \in 0 .. N /\ N - k + 1 # 0 /\ N - (N - k + 1) + 1 = k
      BY <1>1
    <3>2. w[N - (N - k + 1) + 1] \in Nat \ {0}
      BY <2>3, <3>1 DEF Good
    <3>. QED BY <3>1, <3>2
  <2>. QED BY <2>4
<1>10. N # 0 => w[N] = 1
  BY <1>1, <1>7
<1>11. \A k \in 1 .. N - 1 : w[k] = w[k + 1] * s[k + 1]
  BY <1>1, <1>7
<1>. QED BY <1>2, <1>8, <1>9, <1>10, <1>11 DEF N

\* A coordinate is less than the dimension, and coordinates are a function on the axes.
LEMMA CoordinateFacts ==
  ASSUME NEW s \in Seq(Nat), NEW c
  PROVE  c \in Coordinates(s) <=>
           c \in [ 1 .. Len(s) -> Nat ] /\ \A k \in 1 .. Len(s) : c[k] \in 0 .. s[k] - 1
<1> DEFINE N == Len(s)
           S == UNION { 0 .. s[k] - 1 : k \in 1 .. N }
<1>1. N \in Nat /\ DOMAIN s = 1 .. N /\ \A k \in 1 .. N : s[k] \in Nat
  BY LenProperties
<1> HIDE DEF N
<1>2. Coordinates(s) = { d \in [ 1 .. N -> S ] : \A k \in 1 .. N : d[k] < s[k] }
  BY <1>1 DEF Coordinates
<1>3. S \subseteq Nat
  OBVIOUS
<1>4. ASSUME c \in Coordinates(s)
      PROVE  c \in [ 1 .. N -> Nat ] /\ \A k \in 1 .. N : c[k] \in 0 .. s[k] - 1
  <2>1. c \in [ 1 .. N -> S ] /\ \A k \in 1 .. N : c[k] < s[k]
    BY <1>2, <1>4
  <2> HIDE DEF S
  <2>2. c \in [ 1 .. N -> Nat ]
    BY <1>3, <2>1
  <2>. QED BY <1>1, <2>1, <2>2
<1>5. ASSUME c \in [ 1 .. N -> Nat ], \A k \in 1 .. N : c[k] \in 0 .. s[k] - 1
      PROVE  c \in Coordinates(s)
  <2>1. \A k \in 1 .. N : c[k] \in S /\ c[k] < s[k]
    BY <1>1, <1>5
  <2> HIDE DEF S
  <2>. QED BY <1>2, <1>5, <2>1
<1>. QED BY <1>4, <1>5 DEF N

\* A position is within the stride of every axis from what the axes before it make.
LEMMA PositionSplits ==
  ASSUME NEW s \in Seq(Nat \ {0}), NEW c \in Coordinates(s),
         NEW p, IsLoop(p, Len(s), 0, s, c), Position(s, c) = p[Len(s)]
  PROVE  LET w == row_major_strides(s)
         IN  \A k \in 1 .. Len(s) :
               \E rest \in 0 .. w[k] - 1 : Position(s, c) = p[k] * w[k] + rest
<1> DEFINE N == Len(s)
           w == row_major_strides(s)
           Good == { n \in 0 .. N :
                       n # N => \E rest \in 0 .. w[N - n] - 1 : p[N] = p[N - n] * w[N - n] + rest }
<1>1. N \in Nat /\ s \in [ 1 .. N -> Nat \ {0} ]
  BY LenProperties
<1>2. s \in Seq(Nat)
  OBVIOUS
<1>3. /\ w \in [ 1 .. N -> Nat \ {0} ]
      /\ N # 0 => w[N] = 1
      /\ \A k \in 1 .. N - 1 : w[k] = w[k + 1] * s[k + 1]
  BY StrideFacts
<1>4. \A k \in 1 .. N : c[k] \in 0 .. s[k] - 1
  BY <1>2, CoordinateFacts
<1>5. p \in [ 0 .. N -> Nat ] /\ \A k \in 1 .. N : p[k] = p[k - 1] * s[k] + c[k]
  BY DEF IsLoop
<1> HIDE DEF N, w
<1>6. 0 \in Good /\ Good \in SUBSET (0 .. N)
  <2>1. CASE N # 0
    <3>1. p[N] = p[N - 0] * w[N - 0] + 0 /\ 0 \in 0 .. w[N - 0] - 1
      BY <1>1, <1>3, <1>5, <2>1
    <3>. QED BY <1>1, <3>1
  <2>. QED BY <1>1, <2>1
<1>7. ASSUME NEW n \in 1 .. N, n - 1 \in Good
      PROVE  n \in Good
  <2>. SUFFICES ASSUME n # N
                PROVE  \E rest \in 0 .. w[N - n] - 1 : p[N] = p[N - n] * w[N - n] + rest
    OBVIOUS
  <2>1. PICK k \in 1 .. N - 1 : k = N - n
    BY <1>1
  <2>2. N - (n - 1) = k + 1 /\ k + 1 \in 1 .. N /\ n - 1 # N
    BY <1>1, <2>1
  <2>3. PICK rest \in 0 .. w[k + 1] - 1 : p[N] = p[k + 1] * w[k + 1] + rest
    BY <1>7, <2>2
  <2>4. p[k + 1] = p[k] * s[k + 1] + c[k + 1]
    BY <1>5, <2>2
  <2>5. p[k] \in Nat /\ s[k + 1] \in Nat /\ c[k + 1] \in 0 .. s[k + 1] - 1 /\ w[k + 1] \in Nat
        /\ w[k] = w[k + 1] * s[k + 1]
    BY <1>1, <1>3, <1>4, <1>5, <2>2
  <2>10. c[k + 1] \in Nat /\ rest \in Nat
    BY <2>3, <2>5
  <2>11. w[k] \in Nat
    BY <1>1, <1>3
  <2>12. (p[k] * s[k + 1] + c[k + 1]) * w[k + 1]
          = p[k] * (w[k + 1] * s[k + 1]) + c[k + 1] * w[k + 1]
    <3>1. PICK x \in Nat, y \in Nat, z \in Nat, v \in Nat :
            x = p[k] /\ y = s[k + 1] /\ z = c[k + 1] /\ v = w[k + 1]
      BY <2>5, <2>10
    <3>2. (x * y + z) * v = x * (v * y) + z * v
      BY Regroup
    <3>. QED BY <3>1, <3>2
  <2>6. p[k + 1] * w[k + 1] = p[k] * w[k] + c[k + 1] * w[k + 1]
    BY <2>4, <2>5, <2>12
  <2>7. c[k + 1] * w[k + 1] + rest \in 0 .. w[k] - 1
    BY <2>3, <2>5, WithinStride
  <2>8. p[k] * w[k] \in Nat /\ c[k + 1] * w[k + 1] \in Nat /\ rest \in Nat
    BY <2>5, <2>10, <2>11, TimesIsNat
  <2>9. p[N] = p[k] * w[k] + (c[k + 1] * w[k + 1] + rest)
    BY <2>3, <2>6, <2>8
  <2>. QED BY <2>1, <2>7, <2>9
<1> HIDE DEF Good
<1>8. \A n \in 0 .. N : n \in Good
  BY <1>1, <1>6, <1>7, UpTo
<1>9. ASSUME NEW k \in 1 .. N
      PROVE  \E rest \in 0 .. w[k] - 1 : p[N] = p[k] * w[k] + rest
  <2>1. N - k \in 0 .. N /\ N - k # N /\ N - (N - k) = k
    BY <1>1
  <2>. QED BY <1>8, <2>1 DEF Good
<1>. QED BY <1>9 DEF N, w

\* Dividing by the stride and taking the remainder gives the coordinate back.
LEMMA CoordinateOfPosition ==
  ASSUME NEW s \in Seq(Nat \ {0}), NEW c \in Coordinates(s), NEW k \in 1 .. Len(s)
  PROVE  LET w == row_major_strides(s)
         IN  ((Position(s, c) \div w[k]) % s[k]) = c[k]
<1> DEFINE N == Len(s)
           w == row_major_strides(s)
<1>1. N \in Nat /\ s \in [ 1 .. N -> Nat \ {0} ] /\ k \in 1 .. N
  BY LenProperties
<1>2. s[k] \in Nat \ {0} /\ w[k] \in Nat \ {0} /\ s \in Seq(Nat)
  <2>1. w \in [ 1 .. N -> Nat \ {0} ]
    BY StrideFacts
  <2> HIDE DEF w, N
  <2>2. s[k] \in Nat \ {0} /\ w[k] \in Nat \ {0}
    BY <1>1, <2>1
  <2>. QED BY <2>2
<1>3. c \in [ 1 .. N -> Nat ] /\ c[k] \in 0 .. s[k] - 1
  BY <1>1, <1>2, CoordinateFacts
<1>4. PICK p : IsLoop(p, N, 0, s, c) /\ Position(s, c) = p[N]
  BY <1>2, <1>3, PositionFacts
<1>5. PICK rest \in 0 .. w[k] - 1 : Position(s, c) = p[k] * w[k] + rest
  BY <1>4, PositionSplits
<1>6. p[k] = p[k - 1] * s[k] + c[k] /\ p[k] \in Nat /\ p[k - 1] \in Nat
  <2> HIDE DEF N
  <2>. QED BY <1>1, <1>4 DEF IsLoop
<1> HIDE DEF w, N
<1>7. (Position(s, c) \div w[k]) = p[k]
  <2>1. PICK v \in Nat \ {0}, x \in Int, b \in 0 .. w[k] - 1 : v = w[k] /\ x = p[k] /\ b = rest
    BY <1>2, <1>6
  <2>2. b \in 0 .. v - 1
    BY <2>1
  <2>3. ((x * v + b) \div v) = x
    BY <2>2, QuotientAndRemainder
  <2>. QED BY <1>5, <2>1, <2>3
<1>8. (p[k] % s[k]) = c[k]
  <2>1. PICK y \in Nat \ {0}, x \in Int, b \in 0 .. s[k] - 1 : y = s[k] /\ x = p[k - 1] /\ b = c[k]
    BY <1>2, <1>3, <1>6
  <2>2. b \in 0 .. y - 1
    BY <2>1
  <2>3. ((x * y + b) % y) = b
    BY <2>2, QuotientAndRemainder
  <2>. QED BY <1>6, <2>1, <2>3
<1>. QED BY <1>7, <1>8 DEF w

\* A position is the sum of the coordinates times the strides.
LEMMA PositionIsSum ==
  ASSUME NEW s \in Seq(Nat \ {0}), NEW c \in [ 1 .. Len(s) -> Nat ]
  PROVE  LET w == row_major_strides(s)
         IN  /\ [ k \in 1 .. Len(s) |-> c[k] * w[k] ] \in Seq(Nat)
             /\ Len([ k \in 1 .. Len(s) |-> c[k] * w[k] ]) = Len(s)
             /\ Position(s, c) = SumOf([ k \in 1 .. Len(s) |-> c[k] * w[k] ])
<1> DEFINE N == Len(s)
           w == row_major_strides(s)
           t == [ k \in 1 .. N |-> c[k] * w[k] ]
<1>1. N \in Nat /\ s \in Seq(Nat) /\ \A k \in 1 .. N : s[k] \in Nat
  BY LenProperties
<1>2. /\ \A k \in 1 .. N : w[k] \in Nat
      /\ N # 0 => w[N] = 1
      /\ \A k \in 1 .. N - 1 : w[k] = w[k + 1] * s[k + 1]
  BY StrideFacts
<1>3. \A k \in 1 .. N : c[k] \in Nat
  OBVIOUS
<1>4. PICK p : IsLoop(p, N, 0, s, c) /\ Position(s, c) = p[N]
  BY <1>1, PositionFacts
<1> HIDE DEF N, w
<1>5. ASSUME NEW k \in 1 .. N
      PROVE  t[k] = c[k] * w[k] /\ t[k] \in Nat
  BY <1>2, <1>3, TimesIsNat
<1>6. t \in [ 1 .. N -> Nat ]
  BY <1>5
<1>7. t \in Seq(Nat) /\ Len(t) = N
  BY <1>1, <1>6, FunctionToSequence
<1> HIDE DEF t
<1>8. PICK g : IsLoop(g, N, 0, OnesOf(t), t) /\ SumOf(t) = g[N]
  BY <1>7, SumFacts
<1>9. ASSUME NEW k \in 1 .. N
      PROVE  g[k] = g[k - 1] + t[k] /\ g[k - 1] \in Nat
  <2>1. g[k] = g[k - 1] * OnesOf(t)[k] + t[k] /\ g[k - 1] \in Nat
    BY <1>1, <1>8 DEF IsLoop
  <2>2. OnesOf(t)[k] = 1
    BY <1>7 DEF OnesOf
  <2>. QED BY <2>1, <2>2
<1>10. g[0] = 0 /\ p[0] = 0
  BY <1>8, <1>4 DEF IsLoop
<1> DEFINE Good == { k \in 0 .. N : k # 0 => g[k] = p[k] * w[k] }
<1>11. 0 \in Good /\ Good \in SUBSET (0 .. N)
  BY <1>1
<1>12. ASSUME NEW k \in 1 .. N, k - 1 \in Good
       PROVE  k \in Good
  <2>. SUFFICES g[k] = p[k] * w[k]
    OBVIOUS
  <2>1. p[k] = p[k - 1] * s[k] + c[k] /\ p[k - 1] \in Nat
    BY <1>1, <1>4 DEF IsLoop
  <2>2. s[k] \in Nat /\ c[k] \in Nat /\ w[k] \in Nat
    BY <1>1, <1>2, <1>3
  <2>3. p[k] * w[k] = p[k - 1] * (w[k] * s[k]) + c[k] * w[k]
    BY <2>1, <2>2, Regroup, SMTT(20)
  <2>4. g[k] = g[k - 1] + c[k] * w[k]
    BY <1>5, <1>9
  <2>5. CASE k = 1
    <3>1. p[k - 1] = 0 /\ g[k - 1] = 0
      BY <1>10, <2>5
    <3>2. c[k] * w[k] \in Nat /\ w[k] * s[k] \in Nat
      BY <2>2, TimesIsNat
    <3>. QED BY <2>3, <2>4, <3>1, <3>2
  <2>6. CASE k # 1
    <3>1. k - 1 \in 1 .. N - 1 /\ (k - 1) + 1 = k
      BY <1>1, <2>6
    <3>2. w[k - 1] = w[k] * s[k]
      BY <1>2, <3>1
    <3>3. g[k - 1] = p[k - 1] * w[k - 1]
      BY <1>12, <3>1
    <3>. QED BY <2>3, <2>4, <3>2, <3>3
  <2>. QED BY <2>5, <2>6
<1> HIDE DEF Good
<1>13. \A k \in 0 .. N : k \in Good
  BY <1>1, <1>11, <1>12, UpTo
<1>14. g[N] = p[N]
  <2>1. CASE N = 0
    BY <1>10, <2>1
  <2>2. CASE N # 0
    <3>1. g[N] = p[N] * w[N] /\ p[N] \in Nat /\ w[N] = 1
      BY <1>1, <1>2, <1>4, <1>13, <2>2 DEF Good, IsLoop
    <3>. QED BY <3>1
  <2>. QED BY <2>1, <2>2
<1>15. Position(s, c) = SumOf(t)
  BY <1>4, <1>8, <1>14
<1>. QED BY <1>7, <1>15 DEF N, w, t

\* A product of three, in another order.
LEMMA TimesInTurn ==
  ASSUME NEW x \in Nat, NEW y \in Nat, NEW z \in Nat
  PROVE  (x * y) * z = x * (z * y) /\ z * y \in Nat
OBVIOUS

\* So positions are among the elements.
LEMMA ProductOfRest ==
  ASSUME NEW s \in Seq(Nat \ {0}), NEW k \in 0 .. Len(s) - 1, NEW t \in Seq(Nat),
         Len(t) = Len(s) - k, \A j \in 1 .. Len(s) - k : t[j] = s[k + j]
  PROVE  Product(t) = row_major_strides(s)[k + 1] * s[k + 1]
<1> DEFINE N == Len(s)
           w == row_major_strides(s)
           M == N - k
<1>1. N \in Nat /\ s \in [ 1 .. N -> Nat \ {0} ] /\ k \in 0 .. N - 1 /\ M \in 1 .. N
  BY LenProperties
<1>2. /\ w \in [ 1 .. N -> Nat \ {0} ]
      /\ N # 0 => w[N] = 1
      /\ \A n \in 1 .. N - 1 : w[n] = w[n + 1] * s[n + 1]
  BY StrideFacts
<1>3. PICK f : IsLoop(f, M, 1, t, ZerosOf(t)) /\ Product(t) = f[M]
  BY ProductFacts
<1>4. Len(t) = M /\ \A j \in 1 .. M : t[j] = s[k + j]
  OBVIOUS
<1> HIDE DEF N, w
<1>5. ASSUME NEW j \in 1 .. M
      PROVE  f[j] = f[j - 1] * s[k + j] /\ f[j - 1] \in Nat /\ f[j] \in Nat
             /\ k + j \in 1 .. N /\ s[k + j] \in Nat /\ w[k + j] \in Nat
  <2>1. k + j \in 1 .. N /\ j - 1 \in 0 .. M /\ j \in 0 .. M /\ j \in 1 .. Len(t)
    BY <1>1, <1>4
  <2>2. s[k + j] \in Nat /\ w[k + j] \in Nat
    BY <1>1, <1>2, <2>1
  <2>3. f \in [ 0 .. M -> Nat ] /\ f[j] = f[j - 1] * t[j] + ZerosOf(t)[j]
    BY <1>3 DEF IsLoop
  <2>4. ZerosOf(t)[j] = 0 /\ t[j] = s[k + j]
    BY <1>4, <2>1 DEF ZerosOf
  <2>5. f[j - 1] \in Nat /\ f[j] \in Nat
    BY <2>1, <2>3
  <2>6. f[j - 1] * s[k + j] \in Nat
    BY <2>2, <2>5, TimesIsNat
  <2>7. f[j] = f[j - 1] * s[k + j]
    BY <2>3, <2>4, <2>6
  <2>. QED BY <2>1, <2>2, <2>5, <2>7
<1>6. f[0] = 1
  BY <1>3 DEF IsLoop
<1> DEFINE Good == { j \in 0 .. M : j # 0 => f[j] * w[k + j] = w[k + 1] * s[k + 1] }
<1>7. 0 \in Good /\ Good \in SUBSET (0 .. M)
  BY <1>1
<1>8. ASSUME NEW j \in 1 .. M, j - 1 \in Good
      PROVE  j \in Good
  <2>. SUFFICES f[j] * w[k + j] = w[k + 1] * s[k + 1]
    OBVIOUS
  <2>1. PICK x \in Nat, y \in Nat, v \in Nat : x = f[j - 1] /\ y = s[k + j] /\ v = w[k + j]
    BY <1>5
  <2>2. f[j] * w[k + j] = (x * y) * v
    BY <1>5, <2>1
  <2>3. (x * y) * v = x * (v * y) /\ v * y \in Nat
    BY TimesInTurn
  <2>4. CASE j = 1
    <3>1. x = 1
      BY <1>6, <2>1, <2>4
    <3>2. x * (v * y) = v * y
      BY <2>3, <3>1
    <3>. QED BY <2>1, <2>2, <2>3, <2>4, <3>2
  <2>5. CASE j # 1
    <3>1. k + (j - 1) \in 1 .. N - 1 /\ (k + (j - 1)) + 1 = k + j
      BY <1>1, <2>5
    <3>2. w[k + (j - 1)] = w[k + j] * s[k + j]
      BY <1>2, <3>1
    <3>3. f[j - 1] * w[k + (j - 1)] = w[k + 1] * s[k + 1]
      BY <1>8, <2>5
    <3>. QED BY <2>1, <2>2, <2>3, <3>2, <3>3
  <2>. QED BY <2>4, <2>5
<1> HIDE DEF Good
<1>9. \A j \in 0 .. M : j \in Good
  <2>1. M \in Nat
    BY <1>1
  <2> HIDE DEF M
  <2>. QED BY <1>7, <1>8, <2>1, UpTo
<1>10. f[M] * w[k + M] = w[k + 1] * s[k + 1]
  BY <1>1, <1>9 DEF Good
<1>11. w[k + M] = 1 /\ f[M] \in Nat
  BY <1>1, <1>2, <1>5
<1>. QED BY <1>3, <1>10, <1>11 DEF N, w

\* The whole product.
LEMMA ProductOfStrides ==
  ASSUME NEW s \in Seq(Nat \ {0})
  PROVE  /\ Len(s) = 0 => Product(s) = 1
         /\ Len(s) # 0 => Product(s) = row_major_strides(s)[1] * s[1]
<1>1. s \in Seq(Nat) /\ Len(s) \in Nat
  BY LenProperties
<1>2. CASE Len(s) = 0
  <2>1. PICK f : IsLoop(f, Len(s), 1, s, ZerosOf(s)) /\ Product(s) = f[Len(s)]
    BY <1>1, ProductFacts
  <2>. QED BY <1>2, <2>1 DEF IsLoop
<1>3. CASE Len(s) # 0
  <2>1. 0 \in 0 .. Len(s) - 1 /\ Len(s) = Len(s) - 0 /\ \A j \in 1 .. Len(s) - 0 : s[j] = s[0 + j]
    BY <1>1, <1>3
  <2>2. Product(s) = row_major_strides(s)[0 + 1] * s[0 + 1]
    BY <1>1, <2>1, ProductOfRest
  <2>. QED BY <1>3, <2>2
<1>. QED BY <1>2, <1>3

\* The positions are the numbers of the elements.
LEMMA PositionIsElement ==
  ASSUME NEW s \in Seq(Nat \ {0}), NEW c \in Coordinates(s)
  PROVE  Position(s, c) \in 0 .. Product(s) - 1
<1> DEFINE N == Len(s)
           w == row_major_strides(s)
<1>1. N \in Nat /\ s \in [ 1 .. N -> Nat \ {0} ] /\ s \in Seq(Nat)
  BY LenProperties
<1>2. w \in [ 1 .. N -> Nat \ {0} ]
  BY StrideFacts
<1>3. c \in [ 1 .. N -> Nat ] /\ \A k \in 1 .. N : c[k] \in 0 .. s[k] - 1
  BY <1>1, CoordinateFacts
<1>4. PICK p : IsLoop(p, N, 0, s, c) /\ Position(s, c) = p[N]
  BY <1>1, <1>3, PositionFacts
<1>5. (N = 0 => Product(s) = 1) /\ (N # 0 => Product(s) = w[1] * s[1])
  BY ProductOfStrides
<1>6. \A k \in 1 .. N : \E rest \in 0 .. w[k] - 1 : Position(s, c) = p[k] * w[k] + rest
  BY <1>4, PositionSplits
<1> HIDE DEF N, w
<1>7. CASE N = 0
  BY <1>4, <1>5, <1>7 DEF IsLoop
<1>8. CASE N # 0
  <2>1. 1 \in 1 .. N
    BY <1>1, <1>8
  <2>2. PICK rest \in 0 .. w[1] - 1 : Position(s, c) = p[1] * w[1] + rest
    BY <1>6, <2>1
  <2>3. s[1] \in Nat /\ w[1] \in Nat /\ c[1] \in 0 .. s[1] - 1
    BY <1>1, <1>2, <1>3, <2>1
  <2>4. p[1] = c[1]
    <3>1. p[1] = p[1 - 1] * s[1] + c[1] /\ p[0] = 0
      BY <1>4, <2>1 DEF IsLoop
    <3>. QED BY <2>3, <3>1
  <2>5. c[1] * w[1] + rest \in 0 .. w[1] * s[1] - 1
    BY <2>2, <2>3, WithinStride
  <2>. QED BY <1>5, <1>8, <2>2, <2>4, <2>5
<1>. QED BY <1>7, <1>8

\* Every element has a position: its coordinates are quotients by the strides.
LEMMA IndexHasCoordinates ==
  ASSUME NEW s \in Seq(Nat \ {0}), NEW index \in 0 .. Product(s) - 1
  PROVE  \E c \in Coordinates(s) : Position(s, c) = index
<1> DEFINE N == Len(s)
           w == row_major_strides(s)
           c == [ k \in 1 .. N |-> (index \div w[k]) % s[k] ]
<1>1. N \in Nat /\ s \in [ 1 .. N -> Nat \ {0} ] /\ s \in Seq(Nat)
  BY LenProperties
<1>2. /\ w \in [ 1 .. N -> Nat \ {0} ]
      /\ N # 0 => w[N] = 1
      /\ \A k \in 1 .. N - 1 : w[k] = w[k + 1] * s[k + 1]
  BY StrideFacts
<1>3. (N = 0 => Product(s) = 1) /\ (N # 0 => Product(s) = w[1] * s[1])
  BY ProductOfStrides
<1>4. Product(s) \in Nat /\ index \in Nat
  BY ProductIsNat
<1> HIDE DEF N, w
<1>5. ASSUME NEW k \in 1 .. N
      PROVE  /\ c[k] \in 0 .. s[k] - 1 /\ c[k] \in Nat
             /\ (index \div w[k]) \in Nat
             /\ (index \div w[k]) = s[k] * (index \div (w[k] * s[k])) + c[k]
             /\ (index \div (w[k] * s[k])) \in Int
  <2>1. PICK n \in Nat, v \in Nat \ {0}, y \in Nat \ {0} : n = index /\ v = w[k] /\ y = s[k]
    BY <1>1, <1>2, <1>4
  <2>2. ((n \div v) \div y) = (n \div (v * y)) /\ (n \div v) \in Nat
    BY DivideTwice
  <2>3. PICK q \in Int : q = n \div v
    BY <2>2
  <2>4. q = y * (q \div y) + (q % y) /\ (q % y) \in 0 .. y - 1 /\ (q \div y) \in Int
    BY DivisionFacts
  <2>5. c[k] = (n \div v) % y
    BY <2>1
  <2>. QED BY <2>1, <2>2, <2>3, <2>4, <2>5
<1>6. c \in [ 1 .. N -> Nat ]
  BY <1>5
<1>7. c \in Coordinates(s)
  <2> HIDE DEF c
  <2>. QED BY <1>1, <1>5, <1>6, CoordinateFacts DEF N
<1> HIDE DEF c
<1>8. PICK p : IsLoop(p, N, 0, s, c) /\ Position(s, c) = p[N]
  BY <1>1, <1>6, PositionFacts DEF N
<1> DEFINE Good == { k \in 0 .. N : k # 0 => p[k] = index \div w[k] }
<1>9. 0 \in Good /\ Good \in SUBSET (0 .. N)
  BY <1>1
<1>10. ASSUME NEW k \in 1 .. N, k - 1 \in Good
       PROVE  k \in Good
  <2>. SUFFICES p[k] = index \div w[k]
    OBVIOUS
  <2>1. p[k] = p[k - 1] * s[k] + c[k] /\ p[k - 1] \in Nat
    BY <1>1, <1>8 DEF IsLoop
  <2>2. CASE k = 1
    <3>1. p[k - 1] = 0
      BY <1>8, <2>2 DEF IsLoop
    <3>2. index \in 0 .. w[k] * s[k] - 1
      BY <1>1, <1>3, <1>4, <2>2
    <3>3. (index \div (w[k] * s[k])) = 0
      <4>1. PICK v \in Nat, y \in Nat : v = w[k] /\ y = s[k] /\ v # 0 /\ y # 0
        BY <1>1, <1>2
      <4>2. PICK m \in Nat \ {0} : m = v * y
        BY <4>1
      <4>3. PICK b \in 0 .. m - 1 : b = index
        BY <3>2, <4>1, <4>2
      <4>4. ((0 * m + b) \div m) = 0
        BY QuotientAndRemainder
      <4>. QED BY <4>1, <4>2, <4>3, <4>4
    <3>4. s[k] \in Nat /\ c[k] \in Nat
      BY <1>1, <1>5
    <3>. QED BY <1>5, <2>1, <3>1, <3>3, <3>4
  <2>3. CASE k # 1
    <3>1. k - 1 \in 1 .. N - 1 /\ (k - 1) + 1 = k /\ k - 1 # 0
      BY <1>1, <2>3
    <3>2. w[k - 1] = w[k] * s[k]
      BY <1>2, <3>1
    <3>3. p[k - 1] = index \div (w[k] * s[k])
      BY <1>10, <3>1, <3>2
    <3>4. PICK x \in Nat, y \in Nat, z \in Nat : x = p[k - 1] /\ y = s[k] /\ z = c[k]
      BY <1>1, <1>5, <2>1
    <3>5. x * y + z = y * x + z
      OBVIOUS
    <3>. QED BY <1>5, <2>1, <3>3, <3>4, <3>5
  <2>. QED BY <2>2, <2>3
<1> HIDE DEF Good
<1>11. \A k \in 0 .. N : k \in Good
  BY <1>1, <1>9, <1>10, UpTo
<1>12. p[N] = index
  <2>1. CASE N = 0
    BY <1>3, <1>4, <1>8, <2>1 DEF IsLoop
  <2>2. CASE N # 0
    <3>1. p[N] = index \div w[N] /\ w[N] = 1
      BY <1>1, <1>2, <1>11, <2>2 DEF Good
    <3>2. PICK n \in Int : n = index
      BY <1>4
    <3>3. (n \div 1) = n
      OBVIOUS
    <3>. QED BY <3>1, <3>2, <3>3
  <2>. QED BY <2>1, <2>2
<1>. QED BY <1>7, <1>8, <1>12

\* So the positions are the elements.
LEMMA PositionsAreElements ==
  ASSUME NEW s \in Seq(Nat \ {0})
  PROVE  { Position(s, c) : c \in Coordinates(s) } = 0 .. Product(s) - 1
BY IndexHasCoordinates, PositionIsElement

\* Changing one term changes the sum by as much.
LEMMA SumChangedAt ==
  ASSUME NEW t \in Seq(Nat), NEW u \in Seq(Nat), Len(u) = Len(t), NEW a \in 1 .. Len(t),
         \A k \in 1 .. Len(t) : k # a => u[k] = t[k]
  PROVE  SumOf(u) + t[a] = SumOf(t) + u[a] /\ SumOf(u) \in Nat /\ SumOf(t) \in Nat
<1> DEFINE N == Len(t)
<1>1. N \in Nat /\ t \in [ 1 .. N -> Nat ] /\ u \in [ 1 .. N -> Nat ] /\ a \in 1 .. N
  BY LenProperties
<1>2. PICK f : IsLoop(f, N, 0, OnesOf(t), t) /\ SumOf(t) = f[N]
  BY SumFacts
<1>3. PICK g : IsLoop(g, N, 0, OnesOf(u), u) /\ SumOf(u) = g[N]
  BY SumFacts
<1>4. Len(u) = N /\ \A k \in 1 .. N : k # a => u[k] = t[k]
  OBVIOUS
<1> HIDE DEF N
<1>5. ASSUME NEW k \in 1 .. N
      PROVE  f[k] = f[k - 1] + t[k] /\ g[k] = g[k - 1] + u[k] /\ f[k - 1] \in Nat /\ g[k - 1] \in Nat
             /\ t[k] \in Nat /\ u[k] \in Nat
  <2>1. OnesOf(t)[k] = 1 /\ OnesOf(u)[k] = 1
    BY <1>4 DEF OnesOf, N
  <2>2. f[k] = f[k - 1] * OnesOf(t)[k] + t[k] /\ g[k] = g[k - 1] * OnesOf(u)[k] + u[k]
    BY <1>2, <1>3 DEF IsLoop
  <2>5. f \in [ 0 .. N -> Nat ] /\ g \in [ 0 .. N -> Nat ]
    BY <1>2, <1>3 DEF IsLoop
  <2>3. f \in [ 0 .. N -> Nat ] /\ g \in [ 0 .. N -> Nat ] /\ k - 1 \in 0 .. N
    BY <1>1, <2>5, SMTT(20)
  <2>4. f[k - 1] \in Nat /\ g[k - 1] \in Nat
    BY <2>3
  <2>. QED BY <1>1, <2>1, <2>2, <2>4, SMTT(20)
<1>6. f[0] = 0 /\ g[0] = 0
  BY <1>2, <1>3 DEF IsLoop
<1> DEFINE Good == { k \in 0 .. N : IF k < a THEN f[k] = g[k] ELSE g[k] + t[a] = f[k] + u[a] }
<1>7. 0 \in Good /\ Good \in SUBSET (0 .. N)
  BY <1>1, <1>6
<1>8. ASSUME NEW k \in 1 .. N, k - 1 \in Good
      PROVE  k \in Good
  <2>1. f[k] = f[k - 1] + t[k] /\ g[k] = g[k - 1] + u[k] /\ f[k - 1] \in Nat /\ g[k - 1] \in Nat
        /\ t[k] \in Nat /\ u[k] \in Nat /\ t[a] \in Nat /\ u[a] \in Nat
    BY <1>1, <1>5
  <2>2. CASE k < a
    BY <1>1, <1>4, <1>8, <2>1, <2>2
  <2>3. CASE k = a
    BY <1>1, <1>8, <2>1, <2>3, SMTT(20)
  <2>4. CASE k > a
    <3>1. u[k] = t[k]
      BY <1>1, <1>4, <2>4
    <3>2. ~(k - 1 < a) /\ ~(k < a)
      BY <1>1, <2>4
    <3>3. g[k - 1] + t[a] = f[k - 1] + u[a]
      BY <1>8, <3>2
    <3>4. g[k] + t[a] = f[k] + u[a]
      <4>1. PICK x \in Nat, y \in Nat, z \in Nat, p \in Nat, q \in Nat :
              x = g[k - 1] /\ y = f[k - 1] /\ z = t[k] /\ p = t[a] /\ q = u[a]
        BY <2>1
      <4>2. g[k] = x + z /\ f[k] = y + z /\ x + p = y + q
        BY <2>1, <3>1, <3>3, <4>1
      <4>3. (x + z) + p = (y + z) + q
        BY <4>2
      <4>. QED BY <4>1, <4>2, <4>3
    <3>. QED BY <3>2, <3>4
  <2>. QED BY <1>1, <2>2, <2>3, <2>4
<1> HIDE DEF Good
<1>9. \A k \in 0 .. N : k \in Good
  BY <1>1, <1>7, <1>8, UpTo
<1>10. g[N] + t[a] = f[N] + u[a] /\ g[N] \in Nat /\ f[N] \in Nat
  BY <1>1, <1>2, <1>3, <1>9 DEF Good, IsLoop
<1>. QED BY <1>2, <1>3, <1>10

\* Changing one coordinate moves by as many strides.
LEMMA PositionChangedAt ==
  ASSUME NEW s \in Seq(Nat \ {0}), NEW c \in [ 1 .. Len(s) -> Nat ], NEW a \in 1 .. Len(s),
         NEW n \in Nat
  PROVE  LET w == row_major_strides(s)
         IN  Position(s, [ c EXCEPT ![a] = n ]) + c[a] * w[a] = Position(s, c) + n * w[a]
<1> DEFINE N == Len(s)
           w == row_major_strides(s)
           d == [ c EXCEPT ![a] = n ]
           t == [ k \in 1 .. N |-> c[k] * w[k] ]
           u == [ k \in 1 .. N |-> d[k] * w[k] ]
<1>1. d \in [ 1 .. N -> Nat ] /\ a \in 1 .. N
  OBVIOUS
<1>2. t \in Seq(Nat) /\ Len(t) = N /\ Position(s, c) = SumOf(t)
  BY PositionIsSum
<1>3. u \in Seq(Nat) /\ Len(u) = N /\ Position(s, d) = SumOf(u)
  <2> HIDE DEF d
  <2>. QED BY <1>1, PositionIsSum
<1>4. \A k \in 1 .. N : k # a => u[k] = t[k]
  OBVIOUS
<1>5. t[a] = c[a] * w[a] /\ u[a] = n * w[a]
  BY <1>1
<1> HIDE DEF N, w, d, t, u
<1>6. SumOf(u) + t[a] = SumOf(t) + u[a]
  BY <1>1, <1>2, <1>3, <1>4, SumChangedAt
<1>. QED BY <1>2, <1>3, <1>5, <1>6 DEF d, w

\* A position has one coordinate for each axis.
LEMMA LengthOfPosition ==
  ASSUME NEW s \in Seq(Nat), NEW c \in Coordinates(s)
  PROVE  /\ c \in [ 1 .. Len(s) -> Nat ] /\ c \in Seq(Nat) /\ Len(c) = Len(s) /\ DOMAIN c = 1 .. Len(s)
         /\ Len(s) \in Nat
         /\ \A k \in 1 .. Len(s) : c[k] \in 0 .. s[k] - 1
<1>1. c \in [ 1 .. Len(s) -> Nat ] /\ \A k \in 1 .. Len(s) : c[k] \in 0 .. s[k] - 1
  BY CoordinateFacts
<1>2. Len(s) \in Nat
  BY LenProperties
<1>. QED BY <1>1, <1>2, FunctionToSequence

\* A position is the number of an element, whatever the shape.
LEMMA PositionIsNat ==
  ASSUME NEW s \in Seq(Nat), NEW c \in [ 1 .. Len(s) -> Nat ]
  PROVE  Position(s, c) \in Nat
<1>1. PICK p : IsLoop(p, Len(s), 0, s, c) /\ Position(s, c) = p[Len(s)]
  BY PositionFacts
<1>2. Len(s) \in 0 .. Len(s) /\ p \in [ 0 .. Len(s) -> Nat ]
  BY <1>1, LenProperties DEF IsLoop
<1>. QED BY <1>1, <1>2

\* Skipping the axes of length 1 reads the element that is aligned with the position.
LEMMA BroadcastIndex ==
  ASSUME NEW out \in Seq(Nat \ {0}), NEW s \in Seq(Nat), Len(s) <= Len(out),
         NEW c \in Coordinates(out), NEW v
  PROVE  /\ Aligned(s, c) \in [ 1 .. Len(s) -> Nat ]
         /\ (\A k \in 1 .. Len(s) : v[k] \in Nat) =>
              broadcast_input_index(Position(out, c), out, s, v)
                = SumOf([ k \in 1 .. Len(s) |-> Aligned(s, c)[k] * v[k] ])
<1> DEFINE N == Len(s)
           M == Len(out)
           w == row_major_strides(out)
           index == Position(out, c)
<1>1. N \in Nat /\ M \in Nat /\ N <= M /\ DOMAIN s = 1 .. N /\ out \in Seq(Nat)
  BY LenProperties
<1>2. c \in [ 1 .. M -> Nat ] /\ Len(c) = M
  BY <1>1, LengthOfPosition
<1>3. \A k \in 1 .. M : ((index \div w[k]) % out[k]) = c[k]
  BY CoordinateOfPosition
<1> HIDE DEF w, index
<1>4. ASSUME NEW k \in 1 .. N
      PROVE  /\ Aligned(s, c)[k] = IF s[k] = 1 THEN 0 ELSE c[k + (M - N)]
             /\ Aligned(s, c)[k] \in Nat
             /\ c[k + (M - N)] = ((index \div w[k + (M - N)]) % out[k + (M - N)])
  <2>1. k + (M - N) \in 1 .. M /\ k + Len(c) - N = k + (M - N)
    BY <1>1, <1>2
  <2>2. Aligned(s, c)[k] = IF s[k] = 1 THEN 0 ELSE c[k + Len(c) - N]
    BY <1>1 DEF Aligned
  <2>3. PICK j \in 1 .. M : j = k + (M - N)
    BY <2>1
  <2>4. c[j] \in Nat /\ c[j] = ((index \div w[j]) % out[j])
    BY <1>2, <1>3
  <2>5. Aligned(s, c)[k] = IF s[k] = 1 THEN 0 ELSE c[j]
    BY <2>1, <2>2, <2>3
  <2>. QED BY <2>3, <2>4, <2>5
<1>5. Aligned(s, c) \in [ 1 .. N -> Nat ]
  <2>1. Aligned(s, c) = [ k \in 1 .. N |-> Aligned(s, c)[k] ]
    BY <1>1 DEF Aligned
  <2>. QED BY <1>4, <2>1
<1>6. ASSUME \A k \in 1 .. N : v[k] \in Nat
      PROVE  broadcast_input_index(index, out, s, v) = SumOf([ k \in 1 .. N |-> Aligned(s, c)[k] * v[k] ])
  <2>1. broadcast_input_index(index, out, s, v)
          = SumOf([ k \in DOMAIN s |->
                IF s[k] = 1 THEN 0
                ELSE ((index \div w[k + (M - N)]) % out[k + (M - N)]) * v[k] ])
    BY DEF broadcast_input_index, w
  <2>2. ASSUME NEW k \in 1 .. N
        PROVE  (IF s[k] = 1 THEN 0 ELSE ((index \div w[k + (M - N)]) % out[k + (M - N)]) * v[k])
                 = Aligned(s, c)[k] * v[k]
    <3>1. v[k] \in Nat
      BY <1>6
    <3>2. 0 * v[k] = 0
      BY <3>1
    <3>. QED BY <1>4, <3>2
  <2>3. [ k \in DOMAIN s |->
            IF s[k] = 1 THEN 0
            ELSE ((index \div w[k + (M - N)]) % out[k + (M - N)]) * v[k] ]
          = [ k \in 1 .. N |-> Aligned(s, c)[k] * v[k] ]
    BY <1>1, <2>2
  <2>. QED BY <2>1, <2>3
<1>. QED BY <1>5, <1>6 DEF index

\* With the strides of the operand, that element.
LEMMA BroadcastIndexIsAligned ==
  ASSUME NEW out \in Seq(Nat \ {0}), NEW s \in Seq(Nat \ {0}), Len(s) <= Len(out),
         NEW c \in Coordinates(out)
  PROVE  broadcast_input_index(Position(out, c), out, s, row_major_strides(s))
           = Position(s, Aligned(s, c))
<1>1. s \in Seq(Nat)
  OBVIOUS
<1>2. \A k \in 1 .. Len(s) : row_major_strides(s)[k] \in Nat
  BY StrideFacts
<1>3. Aligned(s, c) \in [ 1 .. Len(s) -> Nat ]
  BY <1>1, BroadcastIndex
<1>. QED BY <1>1, <1>2, <1>3, BroadcastIndex, PositionIsSum

(***************************************************************************)
(* The kernels that run in one step.                                       *)
(***************************************************************************)

\* The shapes of a verified request have no empty dimension.
LEMMA VerifiedIsPositive ==
  ASSUME NEW r \in CpuRequests, Verified(r)
  PROVE  /\ r.out \in Seq(Nat \ {0})
         /\ \A k \in 1 .. Len(r.in) : r.in[k] \in Seq(Nat \ {0})
<1>1. ASSUME NEW s \in Seq(Nat), checked_tensor_element_count(s)
      PROVE  s \in Seq(Nat \ {0})
  <2>1. Len(s) \in Nat /\ DOMAIN s = 1 .. Len(s) /\ s \in [ 1 .. Len(s) -> Nat ]
    BY LenProperties
  <2>2. \A k \in 1 .. Len(s) : s[k] \in Nat \ {0}
    BY <1>1, <2>1 DEF checked_tensor_element_count
  <2>3. s \in [ 1 .. Len(s) -> Nat \ {0} ]
    BY <2>1, <2>2
  <2>. QED BY <2>1, <2>3, FunctionToSequence
<1>2. validate_view(r)
  BY DEF Verified
<1>3. r.in \in Seq(Seq(Nat)) /\ r.out \in Seq(Nat)
  BY CpuRequestsAssumption
<1>4. DOMAIN r.in = 1 .. Len(r.in)
  BY <1>3, LenProperties
<1>5. \A k \in 1 .. Len(r.in) : r.in[k] \in Seq(Nat)
  BY RequestFacts
<1>. QED BY <1>1, <1>2, <1>3, <1>4, <1>5 DEF validate_view

\* What is meant at every position is what is meant at every element.
LEMMA MeantEverywhere ==
  ASSUME NEW r, r.out \in Seq(Nat \ {0}), NEW contents,
         DOMAIN contents = 0 .. Product(r.out) - 1,
         \A c \in Coordinates(r.out) :
           contents[Position(r.out, c)] = Meaning(r.op, r.in, r.out, c)
  PROVE  IsMeaning(contents, r.op, r.in, r.out)
BY PositionsAreElements DEF IsMeaning

\* Add, Mul and Div read the aligned elements of both operands.
LEMMA ElementwiseIsMeant ==
  ASSUME NEW r \in CpuRequests, Verified(r), r.op.type \in ElementwiseTypes
  PROVE  IsMeaning(elementwise_binary(r), r.op, r.in, r.out)
<1>1. r.out \in Seq(Nat \ {0}) /\ \A k \in 1 .. Len(r.in) : r.in[k] \in Seq(Nat \ {0})
  BY VerifiedIsPositive
<1>2. Len(r.in) = 2 /\ r.out = Broadcast(r.in[1], r.in[2])
  BY VerifiedUnary DEF BinaryAccepts
<1>3. r.in[1] \in Seq(Nat \ {0}) /\ r.in[2] \in Seq(Nat \ {0})
  BY <1>1, <1>2
<1>4. Len(r.in[1]) <= Len(r.out) /\ Len(r.in[2]) <= Len(r.out)
  <2>4. r.in[1] \in Seq(Nat) /\ r.in[2] \in Seq(Nat)
    <3>1. 1 \in 1 .. Len(r.in) /\ 2 \in 1 .. Len(r.in)
      BY <1>2
    <3>. QED BY <3>1, RequestFacts
  <2>1. PICK left \in Seq(Nat), right \in Seq(Nat) : left = r.in[1] /\ right = r.in[2]
    BY <2>4
  <2>2. Len(left) \in Nat /\ Len(right) \in Nat
    BY LenProperties
  <2>3. Len(r.out) = Rank(left, right)
    BY <1>2, <2>1, BroadcastIsShape
  <2>. QED BY <2>1, <2>2, <2>3 DEF Rank
<1>5. DOMAIN elementwise_binary(r) = 0 .. Product(r.out) - 1
  BY DEF elementwise_binary, ForEachElement
<1>6. ASSUME NEW c \in Coordinates(r.out)
      PROVE  elementwise_binary(r)[Position(r.out, c)] = Meaning(r.op, r.in, r.out, c)
  <2> DEFINE index == Position(r.out, c)
  <2>1. index \in 0 .. Product(r.out) - 1
    BY <1>1, PositionIsElement
  <2>2. /\ broadcast_input_index(index, r.out, r.in[1], row_major_strides(r.in[1]))
              = Position(r.in[1], Aligned(r.in[1], c))
        /\ broadcast_input_index(index, r.out, r.in[2], row_major_strides(r.in[2]))
              = Position(r.in[2], Aligned(r.in[2], c))
    BY <1>1, <1>3, <1>4, BroadcastIndexIsAligned
  <2> HIDE DEF index
  <2>3. elementwise_binary(r)[index]
          = Element(r.op.type,
              << << 1, broadcast_input_index(index, r.out, r.in[1], row_major_strides(r.in[1])) >>,
                 << 2, broadcast_input_index(index, r.out, r.in[2], row_major_strides(r.in[2])) >> >>)
    BY <2>1 DEF elementwise_binary, ForEachElement
  <2>4. Meaning(r.op, r.in, r.out, c)
          = Element(r.op.type, << << 1, Position(r.in[1], Aligned(r.in[1], c)) >>,
                                  << 2, Position(r.in[2], Aligned(r.in[2], c)) >> >>)
    BY DEF Meaning, ElementwiseTypes
  <2>. QED BY <2>2, <2>3, <2>4 DEF index
<1>. QED BY <1>1, <1>5, <1>6, MeantEverywhere

\* Gelu and Reshape read the element they write.
LEMMA CopiesAreMeant ==
  ASSUME NEW r \in CpuRequests, Verified(r)
  PROVE  /\ r.op.type = "gelu" => IsMeaning(gelu(r), r.op, r.in, r.out)
         /\ r.op.type = "reshape" => IsMeaning(reshape(r), r.op, r.in, r.out)
<1>1. r.out \in Seq(Nat \ {0})
  BY VerifiedIsPositive
<1>2. DOMAIN gelu(r) = 0 .. Product(r.out) - 1 /\ DOMAIN reshape(r) = 0 .. Product(r.out) - 1
  BY DEF gelu, reshape, ForEachElement
<1>3. ASSUME NEW c \in Coordinates(r.out)
      PROVE  /\ r.op.type = "gelu" =>
                  gelu(r)[Position(r.out, c)] = Meaning(r.op, r.in, r.out, c)
             /\ r.op.type = "reshape" =>
                  reshape(r)[Position(r.out, c)] = Meaning(r.op, r.in, r.out, c)
  <2>1. Position(r.out, c) \in 0 .. Product(r.out) - 1
    BY <1>1, PositionIsElement
  <2>. QED BY <2>1 DEF gelu, reshape, ForEachElement, Meaning, ElementwiseTypes
<1>. QED BY <1>1, <1>2, <1>3, MeantEverywhere

\* The elements after an axis are as many as its stride.
LEMMA ProductAfter ==
  ASSUME NEW s \in Seq(Nat \ {0}), NEW a \in 1 .. Len(s)
  PROVE  Product(SubSeq(s, a + 1, Len(s))) = row_major_strides(s)[a]
<1> DEFINE N == Len(s)
           w == row_major_strides(s)
           t == SubSeq(s, a + 1, N)
<1>1. N \in Nat /\ s \in [ 1 .. N -> Nat \ {0} ] /\ a \in 1 .. N
  BY LenProperties
<1>2. (N # 0 => w[N] = 1) /\ \A k \in 1 .. N - 1 : w[k] = w[k + 1] * s[k + 1]
  BY StrideFacts
<1>3. /\ t \in Seq(Nat \ {0}) /\ Len(t) = (IF a + 1 <= N THEN N - (a + 1) + 1 ELSE 0)
      /\ \A j \in 1 .. N - (a + 1) + 1 : t[j] = s[a + 1 + j - 1]
  <2>1. \A i \in a + 1 .. N : s[i] \in Nat \ {0}
    BY <1>1
  <2>2. a + 1 \in Int /\ N \in Int
    BY <1>1
  <2> HIDE DEF N
  <2>. QED BY <2>1, <2>2, SubSeqProperties
<1> HIDE DEF t, w, N
<1>4. CASE a = N
  <2>1. Len(t) = 0
    BY <1>1, <1>3, <1>4
  <2>2. Product(t) = 1
    BY <1>3, <2>1, ProductOfStrides
  <2>. QED BY <1>1, <1>2, <1>4, <2>2 DEF t, w, N
<1>5. CASE a # N
  <2>5. a \in 0 .. N - 1 /\ a \in 1 .. N - 1 /\ a + 1 <= N /\ N - (a + 1) + 1 = N - a
    BY <1>1, <1>5
  <2>1. a \in 0 .. N - 1 /\ a \in 1 .. N - 1 /\ Len(t) = N - a
    BY <1>3, <2>5
  <2>2. \A j \in 1 .. N - a : t[j] = s[a + j]
    <3>1. ASSUME NEW j \in 1 .. N - a
          PROVE  j \in 1 .. N - (a + 1) + 1 /\ a + 1 + j - 1 = a + j
      BY <1>1
    <3>. QED BY <1>3, <3>1
  <2>3. t \in Seq(Nat)
    BY <1>3
  <2>4. Product(t) = w[a + 1] * s[a + 1]
    BY <2>1, <2>2, <2>3, ProductOfRest DEF w, N
  <2>. QED BY <1>2, <2>1, <2>4 DEF t, w, N
<1>. QED BY <1>4, <1>5

\* A position: what the axes before make, a coordinate, and what is within its stride.
LEMMA PositionAround ==
  ASSUME NEW s \in Seq(Nat \ {0}), NEW c \in Coordinates(s), NEW a \in 1 .. Len(s)
  PROVE  LET w == row_major_strides(s)
         IN  \E q \in Nat : \E rest \in 0 .. w[a] - 1 :
               Position(s, c) = (q * s[a] + c[a]) * w[a] + rest
<1> DEFINE N == Len(s)
           w == row_major_strides(s)
<1>1. N \in Nat /\ s \in Seq(Nat) /\ a \in 1 .. N
  BY LenProperties
<1>2. c \in [ 1 .. N -> Nat ]
  BY <1>1, LengthOfPosition
<1>3. PICK p : IsLoop(p, N, 0, s, c) /\ Position(s, c) = p[N]
  BY <1>1, <1>2, PositionFacts
<1>4. PICK rest \in 0 .. w[a] - 1 : Position(s, c) = p[a] * w[a] + rest
  BY <1>3, PositionSplits
<1>5. p[a] = p[a - 1] * s[a] + c[a] /\ p[a - 1] \in Nat
  <2>1. p \in [ 0 .. N -> Nat ] /\ p[a] = p[a - 1] * s[a] + c[a]
    BY <1>3 DEF IsLoop
  <2>2. a - 1 \in 0 .. N
    BY <1>1
  <2>. QED BY <2>1, <2>2
<1>. QED BY <1>4, <1>5

\* The number of the element of a line through another, by the arithmetic of a kernel.
LineStart(index, size, inner) == (index \div (size * inner)) * size * inner + (index % inner)

\* The line begins where the coordinate is 0, and advances by the stride.
LEMMA LineFacts ==
  ASSUME NEW s \in Seq(Nat \ {0}), NEW c \in Coordinates(s), NEW a \in 1 .. Len(s)
  PROVE  LET w == row_major_strides(s)
             base == LineStart(Position(s, c), s[a], w[a])
         IN  /\ base \in Nat
             /\ Position(s, c) = base + c[a] * w[a]
             /\ \A n \in 1 .. s[a] :
                  Position(s, [ c EXCEPT ![a] = n - 1 ]) = base + (n - 1) * w[a]
<1> DEFINE N == Len(s)
           w == row_major_strides(s)
           index == Position(s, c)
           base == LineStart(index, s[a], w[a])
<1>1. s \in Seq(Nat) /\ s[a] \in Nat \ {0}
  BY LenProperties
<1>2. w[a] \in Nat \ {0}
  BY StrideFacts
<1>3. c \in [ 1 .. N -> Nat ] /\ c[a] \in 0 .. s[a] - 1
  BY <1>1, LengthOfPosition
<1>4. PICK q \in Nat : \E rest \in 0 .. w[a] - 1 : index = (q * s[a] + c[a]) * w[a] + rest
  BY PositionAround
<1>5. PICK rest \in 0 .. w[a] - 1 : index = (q * s[a] + c[a]) * w[a] + rest
  BY <1>4
<1> HIDE DEF index
<1>6. PICK y \in Nat \ {0}, v \in Nat \ {0}, z \in 0 .. s[a] - 1, b \in 0 .. w[a] - 1 :
        y = s[a] /\ v = w[a] /\ z = c[a] /\ b = rest
  BY <1>1, <1>2, <1>3
<1>7. z \in Nat /\ b \in Nat /\ z \in 0 .. y - 1 /\ b \in 0 .. v - 1
  BY <1>6
<1>8. index = (q * y + z) * v + b
  BY <1>5, <1>6
<1>9. (index % v) = b
  <2>1. q * y + z \in Int
    BY <1>7
  <2>2. PICK x \in Int : x = q * y + z
    BY <2>1
  <2>3. ((x * v + b) % v) = b
    BY <1>7, QuotientAndRemainder
  <2>. QED BY <1>8, <2>2, <2>3
<1>10. index = q * (v * y) + z * v + b /\ y * v = v * y /\ v * y \in Nat \ {0}
  <2>1. (q * y + z) * v = q * (v * y) + z * v
    BY <1>7, Regroup
  <2>. QED BY <1>8, <2>1
<1>11. (index \div (y * v)) = q
  <2>1. z * v + b \in 0 .. v * y - 1
    BY <1>7, WithinStride
  <2>2. PICK m \in Nat \ {0}, e \in 0 .. v * y - 1 : m = v * y /\ e = z * v + b
    BY <1>10, <2>1
  <2>3. ((q * m + e) \div m) = q
    <3>1. e \in 0 .. m - 1 /\ q \in Int
      BY <2>2
    <3>. QED BY <3>1, QuotientAndRemainder
  <2>4. index = q * m + e
    <3>1. q * m \in Nat /\ z * v \in Nat
      BY <1>7
    <3>. QED BY <1>7, <1>10, <2>2, <3>1
  <2>. QED BY <1>10, <2>2, <2>3, <2>4
<1>12. base = q * y * v + b
  BY <1>6, <1>9, <1>11 DEF LineStart
<1>13. base \in Nat /\ index = base + z * v
  <2>1. (q * y) * v = q * (v * y) /\ v * y \in Nat
    BY TimesInTurn
  <2>2. q * (v * y) \in Nat /\ z * v \in Nat
    BY <1>7, <2>1
  <2>3. base = q * (v * y) + b
    BY <1>12, <2>1
  <2>4. PICK i \in Nat, j \in Nat : i = q * (v * y) /\ j = z * v
    BY <2>2
  <2>5. base = i + b /\ index = i + j + b
    BY <1>10, <2>3, <2>4
  <2>6. i + b \in Nat /\ i + j + b = (i + b) + j
    BY <1>7
  <2>. QED BY <2>4, <2>5, <2>6
<1> HIDE DEF base
<1>14. ASSUME NEW n \in 1 .. y
       PROVE  Position(s, [ c EXCEPT ![a] = n - 1 ]) = base + (n - 1) * v
  <2> DEFINE there == Position(s, [ c EXCEPT ![a] = n - 1 ])
  <2>1. n - 1 \in Nat
    OBVIOUS
  <2>2. there + z * v = index + (n - 1) * v
    BY <1>3, <1>6, <2>1, PositionChangedAt DEF index
  <2>3. there \in Nat
    <3>1. [ c EXCEPT ![a] = n - 1 ] \in [ 1 .. N -> Nat ]
      BY <1>3, <2>1
    <3>. QED BY <1>1, <3>1, PositionIsNat
  <2> HIDE DEF there
  <2>4. z * v \in Nat /\ (n - 1) * v \in Nat
    BY <1>7, <2>1
  <2>5. there = base + (n - 1) * v
    BY <1>13, <2>2, <2>3, <2>4
  <2>. QED BY <2>5 DEF there
<1>. QED BY <1>6, <1>13, <1>14 DEF base, index

\* So the reads of a line are those of its positions.
LEMMA LineReads ==
  ASSUME NEW s \in Seq(Nat \ {0}), NEW c \in Coordinates(s), NEW a \in 1 .. Len(s)
  PROVE  LET base == LineStart(Position(s, c), s[a], row_major_strides(s)[a])
             reads == [ n \in 1 .. s[a] |-> << 1, base + (n - 1) * row_major_strides(s)[a] >> ]
         IN  /\ MeaningOfLine(s, c, a) = reads \o << << 1, Position(s, c) >> >>
             /\ reads \in Seq(Nat \X Nat) /\ Position(s, c) \in Nat
<1> DEFINE w == row_major_strides(s)
           base == LineStart(Position(s, c), s[a], w[a])
           reads == [ n \in 1 .. s[a] |-> << 1, base + (n - 1) * w[a] >> ]
           line == Along(s, c, a)
<1>1. /\ base \in Nat
      /\ \A n \in 1 .. s[a] : Position(s, [ c EXCEPT ![a] = n - 1 ]) = base + (n - 1) * w[a]
  BY LineFacts
<1>2. w[a] \in Nat
  BY StrideFacts
<1>3. s[a] \in Nat /\ s \in Seq(Nat)
  BY LenProperties
<1>4. Position(s, c) \in Nat
  <2>1. c \in [ 1 .. Len(s) -> Nat ]
    BY <1>3, LengthOfPosition
  <2>. QED BY <1>3, <2>1, PositionIsNat
<1> HIDE DEF base, w
<1>5. [ n \in DOMAIN line |-> << 1, Position(s, line[n]) >> ] = reads
  <2>1. DOMAIN line = 1 .. s[a] /\ \A n \in 1 .. s[a] : line[n] = [ c EXCEPT ![a] = n - 1 ]
    BY DEF Along
  <2>. QED BY <1>1, <2>1
<1>6. ASSUME NEW n \in 1 .. s[a]
      PROVE  << 1, base + (n - 1) * w[a] >> \in Nat \X Nat
  <2>1. n - 1 \in Nat
    BY <1>3
  <2>2. (n - 1) * w[a] \in Nat
    BY <1>2, <2>1, TimesIsNat
  <2>. QED BY <1>1, <2>2
<1>7. reads \in Seq(Nat \X Nat)
  <2>1. reads \in [ 1 .. s[a] -> Nat \X Nat ]
    BY <1>6
  <2> HIDE DEF reads
  <2>. QED BY <1>3, <2>1, FunctionToSequence
<1>8. MeaningOfLine(s, c, a) = [ n \in DOMAIN line |-> << 1, Position(s, line[n]) >> ]
                                 \o << << 1, Position(s, c) >> >>
  BY DEF MeaningOfLine
<1>. QED BY <1>4, <1>5, <1>7, <1>8 DEF base, w

\* The last axis has stride 1: its coordinate is a remainder.
LEMMA LastAxis ==
  ASSUME NEW s \in Seq(Nat \ {0}), NEW c \in Coordinates(s), Len(s) # 0
  PROVE  LET N == Len(s)
             index == Position(s, c)
         IN  /\ N \in 1 .. N /\ row_major_strides(s)[N] = 1 /\ s[N] \in Nat \ {0}
             /\ LastOf(s) = s[N] /\ LastOf(c) = c[N] /\ Len(c) = N
             /\ index \in Nat
             /\ (index % s[N]) = c[N]
             /\ LineStart(index, s[N], 1) = (index \div s[N]) * s[N]
             /\ (index \div s[N]) \in Nat
<1> DEFINE N == Len(s)
           index == Position(s, c)
<1>1. N \in 1 .. N /\ s \in Seq(Nat) /\ s[N] \in Nat \ {0}
  BY LenProperties
<1>2. row_major_strides(s)[N] = 1
  BY StrideFacts
<1>3. Len(c) = N /\ c \in [ 1 .. N -> Nat ]
  BY <1>1, LengthOfPosition
<1>4. index \in Nat
  BY <1>1, <1>3, PositionIsNat
<1>5. ((index \div row_major_strides(s)[N]) % s[N]) = c[N]
  BY <1>1, CoordinateOfPosition
<1>6. PICK n \in Nat, y \in Nat \ {0} : n = index /\ y = s[N]
  BY <1>1, <1>4
<1>7. (n \div 1) = n /\ (n % 1) = 0 /\ y * 1 = y
  OBVIOUS
<1>8. (n \div y) \in Nat
  <2>1. 1 \in Nat \ {0}
    OBVIOUS
  <2>. QED BY <2>1, DivideTwice
<1>9. LineStart(n, y, 1) = (n \div y) * y
  <2>1. PICK q \in Nat : q = n \div y
    BY <1>8
  <2>2. q * y \in Nat
    OBVIOUS
  <2>3. LineStart(n, y, 1) = q * y * 1 + 0
    BY <1>7, <2>1 DEF LineStart
  <2>. QED BY <2>1, <2>2, <2>3
<1>. QED BY <1>1, <1>2, <1>3, <1>4, <1>5, <1>6, <1>7, <1>8, <1>9 DEF LastOf

\* Two more reads.
LEMMA TwoMoreReads ==
  ASSUME NEW reads \in Seq(Nat \X Nat), NEW x \in Nat \X Nat, NEW y \in Nat \X Nat
  PROVE  (reads \o << x >>) \o << y >> = reads \o << x, y >>
<1>1. << x >> \in Seq(Nat \X Nat) /\ Len(<< x >>) = 1 /\ << x >>[1] = x
  OBVIOUS
<1>2. << y >> \in Seq(Nat \X Nat) /\ Len(<< y >>) = 1 /\ << y >>[1] = y
  OBVIOUS
<1>3. << x, y >> \in Seq(Nat \X Nat) /\ Len(<< x, y >>) = 2 /\ << x, y >>[1] = x /\ << x, y >>[2] = y
  OBVIOUS
<1>4. << x >> \o << y >> = << x, y >>
  <2> DEFINE s == << x >> \o << y >>
  <2>1. s \in Seq(Nat \X Nat) /\ Len(s) = 1 + 1
        /\ \A i \in 1 .. 1 + 1 : s[i] = IF i <= 1 THEN << x >>[i] ELSE << y >>[i - 1]
    BY <1>1, <1>2, ConcatProperties
  <2> HIDE DEF s
  <2>2. Len(s) = 2 /\ s[1] = x /\ s[2] = y
    BY <1>1, <1>2, <2>1
  <2>3. \A i \in 1 .. Len(s) : s[i] = << x, y >>[i]
    <3>1. \A i \in 1 .. 2 : i = 1 \/ i = 2
      OBVIOUS
    <3>. QED BY <1>3, <2>2, <3>1
  <2>4. s = << x, y >>
    BY <1>3, <2>1, <2>2, <2>3, SeqEqual
  <2>. QED BY <2>4 DEF s
<1>5. (reads \o << x >>) \o << y >> = reads \o (<< x >> \o << y >>)
  BY <1>1, <1>2, ConcatAssociative
<1>. QED BY <1>4, <1>5

\* RMSNorm reads its row, the element and the weight of the column.
LEMMA RMSNormIsMeant ==
  ASSUME NEW r \in CpuRequests, Verified(r), r.op.type = "rms_norm"
  PROVE  IsMeaning(rms_norm(r), r.op, r.in, r.out)
<1> DEFINE N == Len(r.out)
           width == LastOf(r.out)
<1>1. r.out \in Seq(Nat \ {0}) /\ N # 0
  <2>1. RMSNormAgrees(r.op, r.in, r.out)
    BY VerifiedAgrees DEF Agrees
  <2>2. N >= 1
    BY <2>1 DEF RMSNormAgrees
  <2>. QED BY <2>2, VerifiedIsPositive
<1>2. DOMAIN rms_norm(r) = 0 .. Product(r.out) - 1
  BY DEF rms_norm, ForEachElement
<1>3. ASSUME NEW c \in Coordinates(r.out)
      PROVE  rms_norm(r)[Position(r.out, c)] = Meaning(r.op, r.in, r.out, c)
  <2> DEFINE index == Position(r.out, c)
             reads == [ n \in 1 .. width |-> << 1, (index \div width) * width + n - 1 >> ]
  <2>1. index \in 0 .. Product(r.out) - 1
    BY <1>1, PositionIsElement
  <2>2. /\ N \in 1 .. N /\ row_major_strides(r.out)[N] = 1 /\ r.out[N] \in Nat \ {0}
        /\ width = r.out[N] /\ LastOf(c) = c[N]
        /\ index \in Nat /\ (index % width) = c[N]
        /\ LineStart(index, width, 1) = (index \div width) * width
        /\ (index \div width) \in Nat
    BY <1>1, LastAxis
  <2> DEFINE line == [ n \in 1 .. width |->
                         << 1, LineStart(index, width, 1) + (n - 1) * row_major_strides(r.out)[N] >> ]
  <2>3. MeaningOfLine(r.out, c, N) = line \o << << 1, index >> >> /\ line \in Seq(Nat \X Nat)
    BY <1>1, <2>2, LineReads
  <2> HIDE DEF index, width, N
  <2>4. line = reads
    <3>1. PICK q \in Nat, y \in Nat : q = index \div width /\ y = width
      BY <2>2
    <3>2. q * y \in Nat
      OBVIOUS
    <3>3. \A n \in 1 .. y : q * y + (n - 1) * 1 = q * y + n - 1
      BY <3>2
    <3>. QED BY <2>2, <3>1, <3>3
  <2> HIDE DEF line, reads
  <2>5. rms_norm(r)[index] = Element("rms_norm", reads \o << << 1, index >>, << 2, index % width >> >>)
    BY <2>1 DEF rms_norm, ForEachElement, reads, width
  <2>6. Meaning(r.op, r.in, r.out, c)
          = Element("rms_norm", MeaningOfLine(r.out, c, N) \o << << 2, LastOf(c) >> >>)
    BY DEF Meaning, ElementwiseTypes, N
  <2>7. (reads \o << << 1, index >> >>) \o << << 2, index % width >> >>
          = reads \o << << 1, index >>, << 2, index % width >> >>
    <3>1. << 1, index >> \in Nat \X Nat /\ << 2, index % width >> \in Nat \X Nat
      <4>1. c \in [ 1 .. N -> Nat ]
        BY <1>1, LengthOfPosition DEF N
      <4>2. (index % width) \in Nat
        BY <2>2, <4>1
      <4>. QED BY <2>2, <4>2
    <3>2. reads \in Seq(Nat \X Nat)
      BY <2>3, <2>4
    <3>. QED BY <3>1, <3>2, TwoMoreReads
  <2>. QED BY <2>2, <2>3, <2>4, <2>5, <2>6, <2>7 DEF index
<1>. QED BY <1>1, <1>2, <1>3, MeantEverywhere

\* Softmax reads the line of its axis, counted from either end, and the element.
LEMMA SoftmaxIsMeant ==
  ASSUME NEW r \in CpuRequests, Verified(r), r.op.type = "softmax"
  PROVE  IsMeaning(softmax(r), r.op, r.in, r.out)
<1> DEFINE N == Len(r.out)
           a == SoftmaxAxis(r) + 1
           w == row_major_strides(r.out)
<1>1. r.out \in Seq(Nat \ {0}) /\ N \in Nat
  BY VerifiedIsPositive, RequestFacts
<1>2. a \in 1 .. N /\ a = Axis(r.op, r.out)
  <2>1. SoftmaxAxis(r) \in 0 .. N - 1 /\ Has(r.op, "axis")
    BY VerifiedSoftmax DEF SoftmaxAccepts
  <2>2. r.op.attributes["axis"] \in Int
    BY <2>1, CpuRequestsAssumption
  <2>3. a = Axis(r.op, r.out)
    BY <1>1, <2>2 DEF SoftmaxAxis, Axis
  <2>. QED BY <1>1, <2>1, <2>3
<1>3. Product(SubSeq(r.out, a + 1, N)) = w[a]
  BY <1>1, <1>2, ProductAfter
<1>4. DOMAIN softmax(r) = 0 .. Product(r.out) - 1
  BY DEF softmax, ForEachElement
<1> HIDE DEF a
<1>5. ASSUME NEW c \in Coordinates(r.out)
      PROVE  softmax(r)[Position(r.out, c)] = Meaning(r.op, r.in, r.out, c)
  <2> DEFINE index == Position(r.out, c)
             base == LineStart(index, r.out[a], w[a])
             reads == [ n \in 1 .. r.out[a] |-> << 1, base + (n - 1) * w[a] >> ]
  <2>1. index \in 0 .. Product(r.out) - 1
    BY <1>1, PositionIsElement
  <2>2. MeaningOfLine(r.out, c, a) = reads \o << << 1, index >> >>
    BY <1>1, <1>2, LineReads
  <2>3. Meaning(r.op, r.in, r.out, c) = Element("softmax", MeaningOfLine(r.out, c, a))
    BY <1>2 DEF Meaning, ElementwiseTypes
  <2> HIDE DEF index
  <2>4. softmax(r)[index]
          = LET inner == Product(SubSeq(r.out, a + 1, N))
                size == r.out[a]
                start == (index \div (size * inner)) * size * inner + (index % inner)
            IN  Element("softmax", [ n \in 1 .. size |-> << 1, start + (n - 1) * inner >> ]
                                 \o << << 1, index >> >>)
    BY <2>1 DEF softmax, ForEachElement, a
  <2> HIDE DEF w, N
  <2>5. softmax(r)[index] = Element("softmax", reads \o << << 1, index >> >>)
    BY <1>3, <2>4 DEF LineStart
  <2>. QED BY <2>2, <2>3, <2>5 DEF index
<1>. QED BY <1>1, <1>4, <1>5, MeantEverywhere

\* CausalMask compares the last two coordinates.
LEMMA CausalMaskIsMeant ==
  ASSUME NEW r \in CpuRequests, Verified(r), r.op.type = "causal_mask"
  PROVE  IsMeaning(causal_mask(r), r.op, r.in, r.out)
<1> DEFINE N == Len(r.out)
<1>1. r.out \in Seq(Nat \ {0}) /\ N \in Nat /\ N >= 2
  <2>1. CausalMaskAccepts(r)
    BY VerifiedUnary
  <2>. QED BY <2>1, VerifiedIsPositive, RequestFacts DEF CausalMaskAccepts
<1>2. DOMAIN causal_mask(r) = 0 .. Product(r.out) - 1
  BY DEF causal_mask, ForEachElement
<1>3. ASSUME NEW c \in Coordinates(r.out)
      PROVE  causal_mask(r)[Position(r.out, c)] = Meaning(r.op, r.in, r.out, c)
  <2> DEFINE index == Position(r.out, c)
             key == LastOf(r.out)
             query == r.out[N - 1]
             within == index % (query * key)
             diagonal == Diagonal(r.op)
  <2>1. index \in 0 .. Product(r.out) - 1
    BY <1>1, PositionIsElement
  <2>2. PICK x \in Nat : index = x * (query * key) + (c[N - 1] * key + c[N])
    <3>1. PICK p : IsLoop(p, N, 0, r.out, c) /\ index = p[N]
      <4>1. r.out \in Seq(Nat) /\ c \in [ 1 .. N -> Nat ]
        <5>1. r.out \in Seq(Nat)
          BY <1>1
        <5>. QED BY <5>1, LengthOfPosition
      <4>. QED BY <4>1, PositionFacts
    <3>2. N \in 1 .. N /\ N - 1 \in 1 .. N /\ (N - 1) - 1 \in 0 .. N /\ N - 1 \in 0 .. N
      BY <1>1
    <3>3. p[N] = p[N - 1] * r.out[N] + c[N] /\ p[N - 1] = p[(N - 1) - 1] * r.out[N - 1] + c[N - 1]
          /\ p \in [ 0 .. N -> Nat ]
      BY <3>1, <3>2 DEF IsLoop
    <3>4. PICK x \in Nat, y \in Nat, k \in Nat, i \in Nat, j \in Nat :
            x = p[(N - 1) - 1] /\ y = r.out[N - 1] /\ k = r.out[N] /\ i = c[N - 1] /\ j = c[N]
      <4>1. r.out \in Seq(Nat) /\ r.out \in [ 1 .. N -> Nat \ {0} ]
        BY <1>1, LenProperties
      <4>2. c \in [ 1 .. N -> Nat ]
        BY <4>1, LengthOfPosition
      <4> HIDE DEF N, index, key, query
      <4>3. p[(N - 1) - 1] \in Nat /\ r.out[N - 1] \in Nat /\ r.out[N] \in Nat /\ c[N - 1] \in Nat
            /\ c[N] \in Nat
        BY <3>2, <3>3, <4>1, <4>2
      <4>. QED BY <4>3
    <3>5. (x * y + i) * k = x * (k * y) + i * k /\ k * y = y * k
      BY Regroup
    <3>6. x * (y * k) \in Nat /\ i * k \in Nat
      OBVIOUS
    <3>7. index = x * (y * k) + (i * k + j)
      BY <3>1, <3>3, <3>4, <3>5, <3>6
    <3>. QED BY <3>4, <3>7 DEF LastOf
  <2>3. key \in Nat \ {0} /\ query \in Nat \ {0} /\ c[N - 1] \in 0 .. query - 1 /\ c[N] \in 0 .. key - 1
        /\ LastOf(c) = c[N] /\ Len(c) = N
    <3>1. N \in 1 .. N /\ N - 1 \in 1 .. N /\ r.out \in Seq(Nat)
      BY <1>1
    <3>2. Len(c) = N /\ \A k \in 1 .. N : c[k] \in 0 .. r.out[k] - 1
      BY <3>1, LengthOfPosition
    <3>3. \A k \in 1 .. N : r.out[k] \in Nat \ {0}
      BY <1>1, LenProperties
    <3>. QED BY <3>1, <3>2, <3>3 DEF LastOf
  <2> HIDE DEF index, key, query, N
  <2>4. (within % key) = c[N] /\ (within \div key) = c[N - 1]
    <3>1. PICK y \in Nat, k \in Nat \ {0}, i \in 0 .. query - 1, j \in 0 .. key - 1 :
            y = query /\ k = key /\ i = c[N - 1] /\ j = c[N]
      BY <2>3
    <3>2. i \in Nat /\ j \in Nat /\ i \in 0 .. y - 1 /\ j \in 0 .. k - 1 /\ y # 0
      BY <2>3, <3>1
    <3>3. i * k + j \in 0 .. k * y - 1 /\ k * y = y * k
      BY <3>1, <3>2, WithinStride
    <3>4. PICK m \in Nat \ {0}, e \in 0 .. k * y - 1 : m = y * k /\ e = i * k + j
      <4>1. y * k \in Nat \ {0}
        BY <3>2
      <4>. QED BY <3>3, <4>1
    <3>5. ((x * m + e) % m) = e
      <4>1. e \in 0 .. m - 1 /\ x \in Int
        BY <3>3, <3>4
      <4>. QED BY <4>1, QuotientAndRemainder
    <3>6. within = e
      BY <2>2, <3>1, <3>4, <3>5
    <3>7. ((i * k + j) % k) = j /\ ((i * k + j) \div k) = i
      BY <3>2, QuotientAndRemainder
    <3>. QED BY <3>1, <3>4, <3>6, <3>7
  <2>5. causal_mask(r)[index]
          = IF within % key > (within \div key) + diagonal THEN Element("-inf", << >>)
            ELSE Element("copy", << << 1, index >> >>)
    BY <2>1 DEF causal_mask, ForEachElement, key, query, N
  <2>6. Meaning(r.op, r.in, r.out, c)
          = IF LastOf(c) > c[Len(c) - 1] + diagonal THEN Element("-inf", << >>)
            ELSE Element("copy", << << 1, index >> >>)
    BY DEF Meaning, ElementwiseTypes, Diagonal, index
  <2>. QED BY <2>3, <2>4, <2>5, <2>6 DEF index
<1>. QED BY <1>1, <1>2, <1>3, MeantEverywhere

\* The partial sums.
LEMMA SumSteps ==
  ASSUME NEW t \in Seq(Nat)
  PROVE  \E f : /\ f \in [ 0 .. Len(t) -> Nat ] /\ f[0] = 0
                /\ \A k \in 1 .. Len(t) : f[k] = f[k - 1] + t[k]
                /\ SumOf(t) = f[Len(t)]
<1>1. PICK f : IsLoop(f, Len(t), 0, OnesOf(t), t) /\ SumOf(t) = f[Len(t)]
  BY SumFacts
<1>2. f \in [ 0 .. Len(t) -> Nat ] /\ f[0] = 0 /\ Len(t) \in Nat
  BY <1>1, LenProperties DEF IsLoop
<1>3. ASSUME NEW k \in 1 .. Len(t)
      PROVE  f[k] = f[k - 1] + t[k]
  <2>1. OnesOf(t)[k] = 1 /\ f[k] = f[k - 1] * OnesOf(t)[k] + t[k]
    BY <1>1 DEF OnesOf, IsLoop
  <2>2. f[k - 1] \in Nat
    <3>1. k - 1 \in 0 .. Len(t)
      BY <1>2
    <3>. QED BY <1>2, <3>1
  <2>. QED BY <2>1, <2>2
<1>. QED BY <1>1, <1>2, <1>3

\* These are permutations of the first N numbers, each the inverse of the other.
AreInverse(N, to, from) ==
  /\ to \in [ 1 .. N -> 1 .. N ] /\ from \in [ 1 .. N -> 1 .. N ]
  /\ \A k \in 1 .. N : from[to[k]] = k /\ to[from[k]] = k

\* The terms may be added in any order.
LEMMA SumPermuted ==
  ASSUME NEW N \in Nat, NEW t \in [ 1 .. N -> Nat ], NEW u \in [ 1 .. N -> Nat ],
         NEW to, NEW from, AreInverse(N, to, from), \A k \in 1 .. N : u[k] = t[to[k]]
  PROVE  SumOf(u) = SumOf(t)
<1> DEFINE v == [ m \in 0 .. N |-> [ k \in 1 .. N |-> IF to[k] <= m THEN u[k] ELSE 0 ] ]
<1>1. t \in Seq(Nat) /\ Len(t) = N
  BY FunctionToSequence
<1>10. \A k \in 1 .. N : to[k] \in 1 .. N
  BY DEF AreInverse
<1>2. PICK f : /\ f \in [ 0 .. N -> Nat ] /\ f[0] = 0
               /\ \A k \in 1 .. N : f[k] = f[k - 1] + t[k]
               /\ SumOf(t) = f[N]
  BY <1>1, SumSteps
<1>3. ASSUME NEW m \in 0 .. N
      PROVE  v[m] \in Seq(Nat) /\ Len(v[m]) = N
             /\ \A k \in 1 .. N : v[m][k] = IF to[k] <= m THEN u[k] ELSE 0
  <2>1. v[m] \in [ 1 .. N -> Nat ]
    OBVIOUS
  <2>2. \A k \in 1 .. N : v[m][k] = IF to[k] <= m THEN u[k] ELSE 0
    OBVIOUS
  <2> HIDE DEF v
  <2>. QED BY <2>1, <2>2, FunctionToSequence
<1>4. v[N] = u
  <2>1. N \in 0 .. N /\ \A k \in 1 .. N : to[k] <= N
    BY <1>10
  <2>. QED BY <2>1
<1> HIDE DEF v
<1>9. 0 \in 0 .. N
  OBVIOUS
<1> DEFINE Good == { m \in 0 .. N : SumOf(v[m]) = f[m] }
<1>5. 0 \in Good /\ Good \in SUBSET (0 .. N)
  <2>1. PICK q \in Seq(Nat) : q = v[0] /\ Len(q) = N
    BY <1>3, <1>9
  <2>2. \A k \in 1 .. N : q[k] = 0
    <3>1. \A k \in 1 .. N : ~(to[k] <= 0)
      BY <1>10
    <3>. QED BY <1>3, <1>9, <2>1, <3>1
  <2>6. PICK g : /\ g \in [ 0 .. N -> Nat ] /\ g[0] = 0
                 /\ \A k \in 1 .. N : g[k] = g[k - 1] + q[k]
                 /\ SumOf(q) = g[N]
    BY <2>1, SumSteps
  <2>7. ASSUME NEW k \in 1 .. N, g[k - 1] = 0
        PROVE  g[k] = 0
    <3>1. q[k] = 0 /\ g[k] = g[k - 1] + q[k]
      BY <2>2, <2>6
    <3>2. g[k] = 0 + 0
      BY <2>7, <3>1
    <3>. QED BY <3>2
  <2> DEFINE Zero == { k \in 0 .. N : g[k] = 0 }
  <2>3. 0 \in Zero /\ Zero \in SUBSET (0 .. N) /\ \A k \in 1 .. N : k - 1 \in Zero => k \in Zero
    BY <2>6, <2>7
  <2> HIDE DEF Zero
  <2>4. \A k \in 0 .. N : k \in Zero
    BY <2>3, UpTo
  <2>5. g[N] = 0
    BY <2>4 DEF Zero
  <2>. QED BY <1>2, <1>9, <2>1, <2>5, <2>6
<1>6. ASSUME NEW m \in 1 .. N, m - 1 \in Good
      PROVE  m \in Good
  <2> DEFINE a == from[m]
  <2>10. a \in 1 .. N /\ to[a] = m
    BY DEF AreInverse
  <2>1. a \in 1 .. N /\ to[a] = m /\ u[a] = t[m] /\ t[m] \in Nat
    BY <2>10
  <2>2. \A k \in 1 .. N : k # a => to[k] # m
    BY DEF AreInverse
  <2> HIDE DEF a
  <2>3. \A k \in 1 .. N : k # a => v[m][k] = v[m - 1][k]
    <3>1. ASSUME NEW k \in 1 .. N, k # a
          PROVE  v[m][k] = v[m - 1][k]
      <4>1. PICK i \in Int, j \in Int : i = to[k] /\ j = m /\ i # j
        BY <1>10, <2>2, <3>1
      <4>2. i <= j <=> i <= j - 1
        BY <4>1
      <4>3. m \in 0 .. N /\ m - 1 \in 0 .. N
        OBVIOUS
      <4>4. v[m][k] = (IF i <= j THEN u[k] ELSE 0) /\ v[m - 1][k] = (IF i <= j - 1 THEN u[k] ELSE 0)
        BY <1>3, <4>1, <4>3
      <4>. QED BY <4>2, <4>4
    <3>. QED BY <3>1
  <2>4. v[m][a] = t[m] /\ v[m - 1][a] = 0
    <3>1. ~(m <= m - 1) /\ m <= m /\ m - 1 \in 0 .. N /\ m \in 0 .. N
      OBVIOUS
    <3>2. v[m][a] = (IF to[a] <= m THEN u[a] ELSE 0) /\ v[m - 1][a] = (IF to[a] <= m - 1 THEN u[a] ELSE 0)
      BY <1>3, <2>1, <3>1
    <3>. QED BY <2>1, <3>1, <3>2
  <2>5. v[m] \in Seq(Nat) /\ v[m - 1] \in Seq(Nat) /\ Len(v[m]) = N /\ Len(v[m - 1]) = N
    <3>1. m - 1 \in 0 .. N /\ m \in 0 .. N
      OBVIOUS
    <3>. QED BY <1>3, <3>1
  <2>6. SumOf(v[m]) + v[m - 1][a] = SumOf(v[m - 1]) + v[m][a]
        /\ SumOf(v[m]) \in Nat /\ SumOf(v[m - 1]) \in Nat
    <3>1. PICK p \in Seq(Nat), q \in Seq(Nat) : p = v[m - 1] /\ q = v[m] /\ Len(p) = N /\ Len(q) = N
      BY <2>5
    <3>2. a \in 1 .. Len(p) /\ Len(q) = Len(p) /\ \A k \in 1 .. Len(p) : k # a => q[k] = p[k]
      BY <2>1, <2>3, <3>1
    <3>3. SumOf(q) + p[a] = SumOf(p) + q[a] /\ SumOf(q) \in Nat /\ SumOf(p) \in Nat
      BY <3>2, SumChangedAt
    <3>. QED BY <3>1, <3>3
  <2>7. SumOf(v[m - 1]) = f[m - 1] /\ f[m] = f[m - 1] + t[m]
    BY <1>2, <1>6
  <2>9. SumOf(v[m]) = SumOf(v[m - 1]) + t[m]
    BY <2>1, <2>4, <2>6
  <2>8. SumOf(v[m]) = f[m]
    BY <2>7, <2>9
  <2>. QED BY <2>8
<1> HIDE DEF Good
<1>7. \A m \in 0 .. N : m \in Good
  BY <1>5, <1>6, UpTo
<1>8. SumOf(v[N]) = f[N]
  BY <1>7 DEF Good
<1>. QED BY <1>2, <1>4, <1>8

\* A sequence of N numbers that has all of them has each once.
LEMMA PermutationFacts ==
  ASSUME NEW N \in Nat, NEW permutation \in Seq(Int), Len(permutation) = N,
         Elements(permutation) = 0 .. N - 1
  PROVE  /\ \A k \in 1 .. N : permutation[k] \in 0 .. N - 1
         /\ \A k \in 1 .. N :
              LET j == CHOOSE i \in 1 .. N : permutation[i] = k - 1
              IN  j \in 1 .. N /\ permutation[j] = k - 1
         /\ \A j, k \in 1 .. N : permutation[j] = permutation[k] => j = k
<1>1. DOMAIN permutation = 1 .. N
  BY LenProperties
<1>2. \A k \in 1 .. N : permutation[k] \in 0 .. N - 1
  BY <1>1 DEF Elements
<1>3. ASSUME NEW m \in 0 .. N - 1
      PROVE  \E j \in 1 .. N : permutation[j] = m
  BY <1>1 DEF Elements
<1> DEFINE A == 1 .. N
           B == 0 .. N - 1
<1>4. permutation \in Surjection(A, B)
  <2>1. permutation \in [ A -> B ]
    BY <1>1, <1>2, LenProperties
  <2>. QED BY <1>3, <2>1 DEF Surjection
<1>5. IsFiniteSet(A) /\ Cardinality(A) = N /\ Cardinality(B) = N
  <2>1. 1 \in Int /\ 0 \in Int /\ N \in Int /\ N - 1 \in Int
    OBVIOUS
  <2>. QED BY <2>1, FS_Interval, SMTT(20)
<1> HIDE DEF A, B
<1>6. permutation \in Injection(A, B)
  BY <1>4, <1>5, FS_SurjSameCardinalityImpliesInj
<1>7. \A j, k \in 1 .. N : permutation[j] = permutation[k] => j = k
  BY <1>6 DEF Injection, IsInjective, A
<1>8. ASSUME NEW k \in 1 .. N
      PROVE  LET j == CHOOSE i \in 1 .. N : permutation[i] = k - 1
             IN  j \in 1 .. N /\ permutation[j] = k - 1
  <2>1. k - 1 \in 0 .. N - 1
    OBVIOUS
  <2>2. \E j \in 1 .. N : permutation[j] = k - 1
    BY <1>3, <2>1
  <2>. QED BY <2>2
<1>. QED BY <1>2, <1>7, <1>8

\* Transpose reads the element whose coordinates are permuted.
LEMMA TransposeIsMeant ==
  ASSUME NEW r \in CpuRequests, Verified(r), r.op.type = "transpose"
  PROVE  IsMeaning(transpose(r), r.op, r.in, r.out)
<1> DEFINE N == Len(r.out)
           permutation == r.op.attributes["permutation"]
           w == row_major_strides(r.out)
           v == row_major_strides(r.in[1])
<1>1. /\ r.out \in Seq(Nat \ {0}) /\ N \in Nat /\ r.in[1] \in Seq(Nat \ {0}) /\ Len(r.in[1]) = N
      /\ permutation \in Seq(Int) /\ Len(permutation) = N /\ Elements(permutation) = 0 .. N - 1
  <2>1. TransposeAccepts(r)
    BY VerifiedTranspose
  <2>2. /\ Len(r.in) = 1 /\ Len(r.in[1]) = N /\ Has(r.op, "permutation")
        /\ Len(permutation) = N /\ Elements(permutation) = 0 .. N - 1
    BY <2>1 DEF TransposeAccepts
  <2>3. r.out \in Seq(Nat \ {0}) /\ r.in[1] \in Seq(Nat \ {0})
    <3>1. 1 \in 1 .. Len(r.in)
      BY <2>2
    <3>. QED BY <3>1, VerifiedIsPositive
  <2>. QED BY <2>2, <2>3, RequestFacts, CpuRequestsAssumption
<1>2. DOMAIN r.out = 1 .. N /\ r.out \in Seq(Nat)
  BY <1>1, LenProperties
<1>3. \A k \in 1 .. N : v[k] \in Nat
  BY <1>1, StrideFacts
<1>4. DOMAIN transpose(r) = 0 .. Product(r.out) - 1
  BY DEF transpose, ForEachElement
<1>5. ASSUME NEW c \in Coordinates(r.out)
      PROVE  transpose(r)[Position(r.out, c)] = Meaning(r.op, r.in, r.out, c)
  <2> DEFINE index == Position(r.out, c)
             to == [ k \in 1 .. N |-> permutation[k] + 1 ]
             from == [ k \in 1 .. N |-> CHOOSE j \in 1 .. N : permutation[j] = k - 1 ]
             source == [ k \in 1 .. N |-> c[from[k]] ]
             t == [ k \in 1 .. N |-> source[k] * v[k] ]
             u == [ k \in 1 .. N |-> c[k] * v[to[k]] ]
             Terms == [ k \in DOMAIN r.out |-> ((index \div w[k]) % r.out[k]) * v[permutation[k] + 1] ]
  <2>1. index \in 0 .. Product(r.out) - 1
    BY <1>1, PositionIsElement
  <2>2. c \in [ 1 .. N -> Nat ] /\ DOMAIN c = 1 .. N
    BY <1>2, LengthOfPosition
  <2>3. \A k \in 1 .. N : ((index \div w[k]) % r.out[k]) = c[k]
    BY <1>1, CoordinateOfPosition
  <2>4. transpose(r)[index] = Element("copy", << << 1, SumOf(Terms) >> >>)
    BY <2>1 DEF transpose, ForEachElement
  <2>5. Meaning(r.op, r.in, r.out, c)
          = Element("copy", << << 1, Position(r.in[1],
              [ k \in DOMAIN c |-> c[CHOOSE j \in DOMAIN c : permutation[j] = k - 1] ]) >> >>)
    BY DEF Meaning, ElementwiseTypes
  <2> HIDE DEF index, w, v, N, permutation
  <2>6. /\ \A k \in 1 .. N : permutation[k] \in 0 .. N - 1
        /\ \A k \in 1 .. N : from[k] \in 1 .. N /\ permutation[from[k]] = k - 1
        /\ \A j, k \in 1 .. N : permutation[j] = permutation[k] => j = k
    BY <1>1, PermutationFacts
  <2>7. [ k \in DOMAIN c |-> c[CHOOSE j \in DOMAIN c : permutation[j] = k - 1] ] = source
    BY <2>2
  <2>8. Terms = u
    BY <1>2, <2>3
  <2>9. to \in [ 1 .. N -> 1 .. N ] /\ \A k \in 1 .. N : to[k] = permutation[k] + 1
    <3>1. \A k \in 1 .. N : permutation[k] + 1 \in 1 .. N
      BY <1>1, <2>6
    <3>. QED BY <3>1
  <2> HIDE DEF to, Terms
  <2>10. AreInverse(N, to, from) /\ from \in [ 1 .. N -> 1 .. N ] /\ \A k \in 1 .. N : from[to[k]] = k
    <3>1. from \in [ 1 .. N -> 1 .. N ]
      BY <2>6
    <3> HIDE DEF from
    <3>2. ASSUME NEW k \in 1 .. N
          PROVE  from[to[k]] = k /\ to[from[k]] = k
      <4>1. permutation[k] \in 0 .. N - 1 /\ to[k] = permutation[k] + 1 /\ to[k] \in 1 .. N
        BY <2>6, <2>9
      <4>2. from[to[k]] \in 1 .. N /\ permutation[from[to[k]]] = to[k] - 1
        BY <2>6, <4>1
      <4>3. to[k] - 1 = permutation[k]
        BY <1>1, <4>1
      <4>4. from[to[k]] = k
        BY <2>6, <4>2, <4>3
      <4>5. from[k] \in 1 .. N /\ permutation[from[k]] = k - 1
        BY <2>6
      <4>6. to[from[k]] = (k - 1) + 1
        BY <2>9, <4>5
      <4>. QED BY <1>1, <4>4, <4>6
    <3>. QED BY <2>9, <3>1, <3>2 DEF AreInverse
  <2> HIDE DEF from
  <2>11. source \in [ 1 .. N -> Nat ]
    BY <2>2, <2>10
  <2>12. t \in [ 1 .. N -> Nat ] /\ u \in [ 1 .. N -> Nat ]
    <3>1. ASSUME NEW k \in 1 .. N
          PROVE  source[k] * v[k] \in Nat /\ c[k] * v[to[k]] \in Nat
      <4>1. source[k] \in Nat /\ v[k] \in Nat /\ c[k] \in Nat /\ v[to[k]] \in Nat
        <5> HIDE DEF source
        <5>. QED BY <1>3, <2>2, <2>9, <2>11
      <4>. QED BY <4>1, TimesIsNat
    <3> HIDE DEF source
    <3>. QED BY <3>1
  <2>13. \A k \in 1 .. N : u[k] = t[to[k]]
    <3>1. ASSUME NEW k \in 1 .. N
          PROVE  u[k] = t[to[k]]
      <4>1. to[k] \in 1 .. N /\ from[to[k]] = k
        BY <2>9, <2>10
      <4>2. source[to[k]] = c[k]
        BY <4>1
      <4>. QED BY <4>1, <4>2
    <3>. QED BY <3>1
  <2>14. SumOf(u) = SumOf(t)
    <3> HIDE DEF t, u
    <3>1. N \in Nat
      BY <1>1
    <3>. QED BY <2>10, <2>12, <2>13, <3>1, SumPermuted
  <2>15. Position(r.in[1], source) = SumOf(t)
    <3> HIDE DEF source
    <3>. QED BY <1>1, <2>11, PositionIsSum DEF v, N
  <2>. QED BY <2>4, <2>5, <2>7, <2>8, <2>14, <2>15 DEF index
<1>. QED BY <1>1, <1>4, <1>5, MeantEverywhere

(***************************************************************************)
(* MatMul and Linear: the reads of one element.                            *)
(***************************************************************************)

\* The first n reads of each of two sequences of elements, in turn.
FirstReads(left, right, n) ==
  [ m \in 1 .. 2 * n |->
      IF m % 2 = 1 THEN << 1, left[(m + 1) \div 2] >> ELSE << 2, right[m \div 2] >> ]

\* Odd and even numbers.
LEMMA Halves ==
  ASSUME NEW n \in Nat, NEW m \in 1 .. 2 * n
  PROVE  /\ (m % 2) = 1 => ((m + 1) \div 2) \in 1 .. n
         /\ (m % 2) # 1 => (m \div 2) \in 1 .. n
OBVIOUS

\* They are reads.
LEMMA FirstReadsAreReads ==
  ASSUME NEW K \in Nat, NEW left \in [ 1 .. K -> Nat ], NEW right \in [ 1 .. K -> Nat ], NEW n \in 0 .. K
  PROVE  /\ FirstReads(left, right, n) \in Seq(Nat \X Nat)
         /\ Len(FirstReads(left, right, n)) = 2 * n
         /\ \A m \in 1 .. 2 * n :
              FirstReads(left, right, n)[m] =
                IF m % 2 = 1 THEN << 1, left[(m + 1) \div 2] >> ELSE << 2, right[m \div 2] >>
<1> DEFINE reads == FirstReads(left, right, n)
<1>1. 2 * n \in Nat /\ n \in Nat
  OBVIOUS
<1>2. ASSUME NEW m \in 1 .. 2 * n
      PROVE  /\ reads[m] = IF m % 2 = 1 THEN << 1, left[(m + 1) \div 2] >> ELSE << 2, right[m \div 2] >>
             /\ reads[m] \in Nat \X Nat
  <2>1. reads[m] = IF m % 2 = 1 THEN << 1, left[(m + 1) \div 2] >> ELSE << 2, right[m \div 2] >>
    BY DEF FirstReads
  <2> HIDE DEF reads
  <2>2. CASE m % 2 = 1
    <3>1. PICK i \in 1 .. K : i = (m + 1) \div 2
      BY <1>1, <2>2, Halves
    <3>. QED BY <2>1, <2>2, <3>1
  <2>3. CASE m % 2 # 1
    <3>1. PICK i \in 1 .. K : i = m \div 2
      BY <1>1, <2>3, Halves
    <3>. QED BY <2>1, <2>3, <3>1
  <2>. QED BY <2>2, <2>3
<1>3. reads \in [ 1 .. 2 * n -> Nat \X Nat ]
  <2>1. reads = [ m \in 1 .. 2 * n |-> reads[m] ]
    BY DEF FirstReads
  <2> HIDE DEF reads
  <2>. QED BY <1>2, <2>1
<1> HIDE DEF reads
<1>4. reads \in Seq(Nat \X Nat) /\ Len(reads) = 2 * n
  BY <1>1, <1>3, FunctionToSequence
<1>. QED BY <1>2, <1>4 DEF reads

\* One turn more adds a read of each.
LEMMA OneTurnMore ==
  ASSUME NEW K \in Nat, NEW left \in [ 1 .. K -> Nat ], NEW right \in [ 1 .. K -> Nat ], NEW n \in 1 .. K
  PROVE  FirstReads(left, right, n)
           = FirstReads(left, right, n - 1) \o << << 1, left[n] >>, << 2, right[n] >> >>
<1> DEFINE before == FirstReads(left, right, n - 1)
           after == FirstReads(left, right, n)
           two == << << 1, left[n] >>, << 2, right[n] >> >>
<1>1. n - 1 \in 0 .. K /\ n \in 0 .. K /\ 2 * (n - 1) = 2 * n - 2
  OBVIOUS
<1>2. /\ before \in Seq(Nat \X Nat) /\ Len(before) = 2 * n - 2
      /\ \A m \in 1 .. 2 * n - 2 :
           before[m] = IF m % 2 = 1 THEN << 1, left[(m + 1) \div 2] >> ELSE << 2, right[m \div 2] >>
  BY <1>1, FirstReadsAreReads, ZenonT(30)
<1>3. /\ after \in Seq(Nat \X Nat) /\ Len(after) = 2 * n
      /\ \A m \in 1 .. 2 * n :
           after[m] = IF m % 2 = 1 THEN << 1, left[(m + 1) \div 2] >> ELSE << 2, right[m \div 2] >>
  BY <1>1, FirstReadsAreReads
<1>4. two \in Seq(Nat \X Nat) /\ Len(two) = 2 /\ two[1] = << 1, left[n] >> /\ two[2] = << 2, right[n] >>
  <2>1. << 1, left[n] >> \in Nat \X Nat /\ << 2, right[n] >> \in Nat \X Nat
    OBVIOUS
  <2>. QED BY <2>1
<1> HIDE DEF before, after, two
<1>5. PICK w \in Nat : w = 2 * n - 2 /\ 2 * n = w + 2
  OBVIOUS
<1>6. Len(before) = w /\ Len(after) = w + 2
  BY <1>2, <1>3, <1>5
<1>7. /\ before \o two \in Seq(Nat \X Nat) /\ Len(before \o two) = w + 2
      /\ \A m \in 1 .. w + 2 :
           (before \o two)[m] = IF m <= w THEN before[m] ELSE two[m - w]
  <2>1. /\ before \o two \in Seq(Nat \X Nat) /\ Len(before \o two) = Len(before) + Len(two)
        /\ \A m \in 1 .. Len(before) + Len(two) :
             (before \o two)[m] = IF m <= Len(before) THEN before[m] ELSE two[m - Len(before)]
    BY <1>2, <1>4, ConcatProperties
  <2>. QED BY <1>4, <1>6, <2>1
<1>8. ASSUME NEW m \in 1 .. w + 2
      PROVE  after[m] = (before \o two)[m]
  <2>1. (before \o two)[m] = IF m <= w THEN before[m] ELSE two[m - w]
    BY <1>7
  <2>5. after[m] = IF m % 2 = 1 THEN << 1, left[(m + 1) \div 2] >> ELSE << 2, right[m \div 2] >>
    BY <1>3, <1>5
  <2>2. CASE m <= w
    <3>1. m \in 1 .. 2 * n - 2
      BY <1>5, <2>2
    <3>. QED BY <1>2, <2>1, <2>2, <2>5, <3>1
  <2>3. CASE m = w + 1
    <3>1. m - w = 1 /\ (m % 2) = 1 /\ ((m + 1) \div 2) = n /\ ~(m <= w)
      BY <1>5, <2>3
    <3>2. after[m] = << 1, left[n] >>
      BY <2>5, <3>1
    <3>3. (before \o two)[m] = two[1]
      BY <2>1, <3>1
    <3>. QED BY <1>4, <3>2, <3>3
  <2>4. CASE m = w + 2
    <3>1. m - w = 2 /\ (m % 2) # 1 /\ (m \div 2) = n /\ ~(m <= w)
      BY <1>5, <2>4
    <3>2. after[m] = << 2, right[n] >>
      BY <2>5, <3>1
    <3>3. (before \o two)[m] = two[2]
      BY <2>1, <3>1
    <3>. QED BY <1>4, <3>2, <3>3
  <2>6. m <= w \/ m = w + 1 \/ m = w + 2
    OBVIOUS
  <2>. QED BY <2>2, <2>3, <2>4, <2>6
<1>9. Len(after) = Len(before \o two)
  BY <1>7, <1>6
<1>10. after = before \o two
  BY <1>3, <1>7, <1>8, <1>9, <1>6, SeqEqual, ZenonT(30)
<1>. QED BY <1>10 DEF before, after, two

\* None so far.
LEMMA NoReads ==
  ASSUME NEW K \in Nat, NEW left \in [ 1 .. K -> Nat ], NEW right \in [ 1 .. K -> Nat ]
  PROVE  FirstReads(left, right, 0) = << >>
<1>1. FirstReads(left, right, 0) \in Seq(Nat \X Nat) /\ Len(FirstReads(left, right, 0)) = 2 * 0
  <2>1. 0 \in 0 .. K
    OBVIOUS
  <2>. QED BY <2>1, FirstReadsAreReads
<1>2. Len(FirstReads(left, right, 0)) \notin Nat \ {0}
  BY <1>1
<1>. QED BY <1>1, <1>2, EmptySeq

\* The loop over the contracting dimension reads where the element needs it.
ReadsFrom(r, i, left, right, first, last) ==
  \A k \in first .. last - 1 :
    LET j == [ i EXCEPT !.inner = k ]
    IN  LeftAt(r, j) = left[k + 1] /\ RightAt(r, j) = right[k + 1]

\* So it goes on with the reads of the element.
LEMMA AccumulateFacts ==
  ASSUME NEW r, NEW i, NEW K \in Nat, NEW left \in [ 1 .. K -> Nat ], NEW right \in [ 1 .. K -> Nat ],
         NEW last \in 0 .. K, NEW first \in 0 .. last, ReadsFrom(r, i, left, right, first, last)
  PROVE  Accumulate(r, FirstReads(left, right, first), i, first, last)
           = FirstReads(left, right, last)
<1> DEFINE Turn(before, n) ==
             before \o << << 1, LeftAt(r, [ i EXCEPT !.inner = n - 1 ]) >>,
                          << 2, RightAt(r, [ i EXCEPT !.inner = n - 1 ]) >> >>
           P(p) == p = [ n \in first .. last |->
                           IF n = first THEN FirstReads(left, right, first)
                           ELSE Turn(p[n - 1], n) ]
           h == [ n \in first .. last |-> FirstReads(left, right, n) ]
           chosen == CHOOSE p : P(p)
<1>1. ASSUME NEW n \in first + 1 .. last
      PROVE  FirstReads(left, right, n) = Turn(FirstReads(left, right, n - 1), n)
  <2>1. n - 1 \in first .. last - 1 /\ (n - 1) + 1 = n /\ n \in 1 .. K
    OBVIOUS
  <2>2. LeftAt(r, [ i EXCEPT !.inner = n - 1 ]) = left[n] /\ RightAt(r, [ i EXCEPT !.inner = n - 1 ]) = right[n]
    BY <2>1 DEF ReadsFrom
  <2>. QED BY <2>1, <2>2, OneTurnMore
<1>2. Accumulate(r, FirstReads(left, right, first), i, first, last) = chosen[last]
  BY DEF Accumulate
<1> HIDE DEF Turn
<1>3. P(h)
  <2>1. ASSUME NEW n \in first .. last
        PROVE  h[n] = IF n = first THEN FirstReads(left, right, first) ELSE Turn(h[n - 1], n)
    <3>1. CASE n = first
      BY <3>1
    <3>2. CASE n # first
      <4>1. n \in first + 1 .. last /\ n - 1 \in first .. last
        BY <3>2
      <4>. QED BY <1>1, <3>2, <4>1
    <3>. QED BY <3>1, <3>2
  <2>. QED BY <2>1
<1>4. P(chosen)
  BY <1>3
<1>5. \A n \in first .. last :
        chosen[n] = IF n = first THEN FirstReads(left, right, first) ELSE Turn(chosen[n - 1], n)
  <2> HIDE DEF chosen
  <2>. QED BY <1>4
<1> HIDE DEF chosen, P, h
<1> DEFINE N == last - first
           Same == { m \in 0 .. N : chosen[first + m] = FirstReads(left, right, first + m) }
<1>6. 0 \in Same /\ Same \in SUBSET (0 .. N)
  BY <1>5
<1>7. ASSUME NEW m \in 1 .. N, m - 1 \in Same
      PROVE  m \in Same
  <2>1. first + m \in first + 1 .. last /\ first + m \in first .. last /\ first + m # first
        /\ (first + m) - 1 = first + (m - 1)
    OBVIOUS
  <2>2. chosen[first + m] = Turn(chosen[first + (m - 1)], first + m)
    BY <1>5, <2>1
  <2>3. FirstReads(left, right, first + m) = Turn(FirstReads(left, right, first + (m - 1)), first + m)
    BY <1>1, <2>1
  <2>. QED BY <1>7, <2>2, <2>3
<1>8. N \in Nat
  OBVIOUS
<1> HIDE DEF Same
<1>9. \A m \in 0 .. N : m \in Same
  <2> HIDE DEF N
  <2>. QED BY <1>6, <1>7, <1>8, UpTo
<1>10. chosen[last] = FirstReads(left, right, last)
  <2>1. N \in 0 .. N /\ first + N = last
    OBVIOUS
  <2>2. chosen[first + N] = FirstReads(left, right, first + N)
    BY <1>9, <2>1 DEF Same
  <2>. QED BY <2>1, <2>2
<1>. QED BY <1>2, <1>10

(***************************************************************************)
(* The batch of a shape, and the elements within it.                       *)
(***************************************************************************)

\* The batch has all axes but the last two.
LEMMA BatchFacts ==
  ASSUME NEW S, NEW s \in Seq(S), Len(s) >= 2
  PROVE  /\ Batch(s) \in Seq(S) /\ Len(Batch(s)) = Len(s) - 2 /\ Len(s) - 2 \in Nat
         /\ \A k \in 1 .. Len(s) - 2 : Batch(s)[k] = s[k]
<1> DEFINE M == Len(s) - 2
           t == SubSeq(s, 1, M)
<1>1. Len(s) \in Nat /\ M \in Nat /\ s \in [ 1 .. Len(s) -> S ]
  BY LenProperties
<1>2. \A k \in 1 .. M : s[k] \in S
  BY <1>1
<1>3. Batch(s) = t
  BY DEF Batch
<1> HIDE DEF M
<1>4. /\ t \in Seq(S) /\ Len(t) = (IF 1 <= M THEN M - 1 + 1 ELSE 0)
      /\ \A k \in 1 .. M - 1 + 1 : t[k] = s[1 + k - 1]
  <2>1. 1 \in Int /\ M \in Int
    BY <1>1
  <2>. QED BY <1>2, <2>1, SubSeqProperties
<1> HIDE DEF t
<1>5. Len(t) = M
  BY <1>1, <1>4
<1>6. \A k \in 1 .. M : t[k] = s[k]
  <2>1. ASSUME NEW k \in 1 .. M
        PROVE  k \in 1 .. M - 1 + 1 /\ 1 + k - 1 = k
    BY <1>1
  <2>. QED BY <1>4, <2>1
<1>. QED BY <1>1, <1>3, <1>4, <1>5, <1>6 DEF M

\* A position within its batch.
LEMMA PositionInBatch ==
  ASSUME NEW s \in Seq(Nat \ {0}), Len(s) >= 2, NEW c \in Coordinates(s)
  PROVE  LET N == Len(s)
         IN  /\ Batch(c) \in Coordinates(Batch(s)) /\ Len(c) = N
             /\ Position(Batch(s), Batch(c)) \in 0 .. Product(Batch(s)) - 1
             /\ Position(s, c)
                  = (Position(Batch(s), Batch(c)) * s[N - 1] + c[N - 1]) * s[N] + c[N]
<1> DEFINE N == Len(s)
           b == Batch(s)
           d == Batch(c)
<1>1. s \in Seq(Nat) /\ N \in Nat /\ N >= 2
  BY LenProperties
<1>2. c \in [ 1 .. N -> Nat ] /\ c \in Seq(Nat) /\ Len(c) = N /\ \A k \in 1 .. N : c[k] \in 0 .. s[k] - 1
  BY <1>1, LengthOfPosition
<1>3. b \in Seq(Nat \ {0}) /\ Len(b) = N - 2 /\ N - 2 \in Nat /\ \A k \in 1 .. N - 2 : b[k] = s[k]
  BY BatchFacts
<1>4. d \in Seq(Nat) /\ Len(d) = N - 2 /\ \A k \in 1 .. N - 2 : d[k] = c[k]
  BY <1>1, <1>2, BatchFacts
<1> HIDE DEF N, b, d
<1>5. d \in [ 1 .. Len(b) -> Nat ] /\ b \in Seq(Nat)
  BY <1>3, <1>4, LenProperties
<1>6. \A k \in 1 .. Len(b) : d[k] \in 0 .. b[k] - 1
  <2>1. \A k \in 1 .. N - 2 : k \in 1 .. N
    BY <1>1
  <2>. QED BY <1>2, <1>3, <1>4, <2>1
<1>7. d \in Coordinates(b)
  BY <1>5, <1>6, CoordinateFacts
<1>8. PICK p : IsLoop(p, N, 0, s, c) /\ Position(s, c) = p[N]
  BY <1>1, <1>2, PositionFacts DEF N
<1>9. PICK q : IsLoop(q, N - 2, 0, b, d) /\ Position(b, d) = q[N - 2]
  BY <1>3, <1>5, PositionFacts
<1>10. p[N - 2] = q[N - 2]
  <2>1. \A k \in 1 .. N - 2 : s[k] = b[k] /\ c[k] = d[k]
    BY <1>3, <1>4
  <2>2. N \in Nat /\ N - 2 \in Nat /\ N - 2 <= N /\ N - 2 \in 0 .. N - 2
    BY <1>1
  <2>3. PICK M \in Nat : M = N - 2
    BY <2>2
  <2>4. \A k \in 0 .. M : p[k] = q[k]
    BY <1>8, <1>9, <2>1, <2>2, <2>3, LoopIsUnique
  <2>. QED BY <2>2, <2>3, <2>4
<1>11. p[N] = p[N - 1] * s[N] + c[N] /\ p[N - 1] = p[N - 2] * s[N - 1] + c[N - 1]
  <2>1. N \in 1 .. N /\ N - 1 \in 1 .. N /\ (N - 1) - 1 = N - 2
    BY <1>1
  <2>2. \A k \in 1 .. N : p[k] = p[k - 1] * s[k] + c[k]
    BY <1>8 DEF IsLoop
  <2>3. p[N - 1] = p[(N - 1) - 1] * s[N - 1] + c[N - 1]
    BY <2>1, <2>2
  <2>. QED BY <2>1, <2>2, <2>3
<1>12. Position(b, d) \in 0 .. Product(b) - 1
  BY <1>3, <1>7, PositionIsElement
<1>. QED BY <1>2, <1>7, <1>8, <1>9, <1>10, <1>11, <1>12 DEF N, b, d

\* Two more terms.
LEMMA TwoMoreTerms ==
  ASSUME NEW t \in Seq(Nat), NEW u \in Seq(Nat), Len(t) = Len(u) + 2,
         \A k \in 1 .. Len(u) : t[k] = u[k]
  PROVE  /\ SumOf(t) = SumOf(u) + t[Len(u) + 1] + t[Len(u) + 2]
         /\ SumOf(u) \in Nat /\ t[Len(u) + 1] \in Nat /\ t[Len(u) + 2] \in Nat
<1> DEFINE N == Len(t)
           M == Len(u)
<1>1. N \in Nat /\ M \in Nat /\ t \in [ 1 .. N -> Nat ] /\ N = M + 2
  BY LenProperties
<1>2. PICK f : /\ f \in [ 0 .. N -> Nat ] /\ f[0] = 0
               /\ \A k \in 1 .. N : f[k] = f[k - 1] + t[k]
               /\ SumOf(t) = f[N]
  BY SumSteps
<1>3. PICK g : /\ g \in [ 0 .. M -> Nat ] /\ g[0] = 0
               /\ \A k \in 1 .. M : g[k] = g[k - 1] + u[k]
               /\ SumOf(u) = g[M]
  BY SumSteps
<1>4. \A k \in 1 .. M : t[k] = u[k]
  OBVIOUS
<1> HIDE DEF N, M
<1>5. \A k \in 1 .. M : g[k - 1] = f[k - 1] => g[k] = f[k]
  <2>1. \A k \in 1 .. M : k \in 1 .. N
    BY <1>1
  <2>. QED BY <1>2, <1>3, <1>4, <2>1
<1>6. \A k \in 0 .. M : g[k] = f[k]
  <2>1. M \in Nat /\ g[0] = f[0]
    BY <1>1, <1>2, <1>3
  <2>. QED BY <1>5, <2>1, SameValues
<1>7. M + 1 \in 1 .. N /\ M + 2 \in 1 .. N /\ (M + 1) - 1 = M /\ (M + 2) - 1 = M + 1 /\ M \in 0 .. M
  BY <1>1
<1>8. f[M + 1] = f[M] + t[M + 1] /\ f[M + 2] = f[M + 1] + t[M + 2] /\ f[M] = g[M]
  <2>1. f[M + 1] = f[(M + 1) - 1] + t[M + 1] /\ f[M + 2] = f[(M + 2) - 1] + t[M + 2]
    BY <1>2, <1>7
  <2>. QED BY <1>6, <1>7, <2>1
<1>9. g[M] \in Nat /\ t[M + 1] \in Nat /\ t[M + 2] \in Nat
  BY <1>1, <1>3, <1>7
<1>. QED BY <1>1, <1>2, <1>3, <1>8, <1>9 DEF N, M

\* Where an operand of MatMul is read: from the batch that is aligned, by row and column.
LEMMA OperandAt ==
  ASSUME NEW s \in Seq(Nat \ {0}), Len(s) >= 2, NEW o \in Seq(Nat \ {0}), Len(s) - 2 <= Len(o),
         NEW d \in Coordinates(o), NEW x \in Nat, NEW y \in Nat
  PROVE  LET there == Position(s, Aligned(Batch(s), d) \o << x, y >>)
         IN  batch_base_offset(Position(o, d), o, s) + x * LastOf(s) + y = there /\ there \in Nat
<1> DEFINE N == Len(s)
           M == N - 2
           b == Batch(s)
           w == row_major_strides(s)
           a == Aligned(b, d)
           c == a \o << x, y >>
           u == [ k \in 1 .. M |-> a[k] * w[k] ]
           t == [ k \in 1 .. N |-> c[k] * w[k] ]
<1>1. N \in Nat /\ N >= 2 /\ M \in Nat /\ s \in [ 1 .. N -> Nat \ {0} ] /\ s \in Seq(Nat)
  BY LenProperties
<1>2. /\ w \in [ 1 .. N -> Nat \ {0} ]
      /\ N # 0 => w[N] = 1
      /\ \A k \in 1 .. N - 1 : w[k] = w[k + 1] * s[k + 1]
  BY StrideFacts
<1>3. b \in Seq(Nat) /\ Len(b) = M
  BY <1>1, BatchFacts
<1>4. Len(b) <= Len(o)
  BY <1>3
<1> HIDE DEF b, w
<1>5. /\ a \in [ 1 .. M -> Nat ]
      /\ (\A k \in 1 .. M : w[k] \in Nat) =>
           broadcast_input_index(Position(o, d), o, b, w) = SumOf(u)
  <2>1. /\ Aligned(b, d) \in [ 1 .. Len(b) -> Nat ]
        /\ (\A k \in 1 .. Len(b) : w[k] \in Nat) =>
             broadcast_input_index(Position(o, d), o, b, w)
               = SumOf([ k \in 1 .. Len(b) |-> Aligned(b, d)[k] * w[k] ])
    BY <1>3, <1>4, BroadcastIndex
  <2> HIDE DEF M
  <2>2. [ k \in 1 .. Len(b) |-> Aligned(b, d)[k] * w[k] ] = u
    BY <1>3
  <2>. QED BY <1>3, <2>1, <2>2
<1> HIDE DEF a, M, N
<1>6. \A k \in 1 .. M : k \in 1 .. N /\ w[k] \in Nat
  <2>1. \A k \in 1 .. M : k \in 1 .. N
    BY <1>1 DEF M
  <2>. QED BY <1>2, <2>1
<1>7. batch_base_offset(Position(o, d), o, s) = SumOf(u)
  BY <1>5, <1>6 DEF batch_base_offset, b, w
<1>8. a \in Seq(Nat) /\ Len(a) = M
  BY <1>1, <1>5, FunctionToSequence
<1>9. << x, y >> \in Seq(Nat) /\ Len(<< x, y >>) = 2
  OBVIOUS
<1>10. /\ c \in Seq(Nat) /\ Len(c) = M + 2
       /\ \A k \in 1 .. M + 2 : c[k] = IF k <= M THEN a[k] ELSE << x, y >>[k - M]
  <2>1. /\ c \in Seq(Nat) /\ Len(c) = Len(a) + Len(<< x, y >>)
        /\ \A k \in 1 .. Len(a) + Len(<< x, y >>) :
             c[k] = IF k <= Len(a) THEN a[k] ELSE << x, y >>[k - Len(a)]
    BY <1>8, <1>9, ConcatProperties, SMTT(20)
  <2> HIDE DEF c
  <2>. QED BY <1>8, <1>9, <2>1
<1> HIDE DEF c
<1>11. N = M + 2 /\ c \in [ 1 .. N -> Nat ]
  <2>1. N = M + 2
    BY <1>1 DEF M
  <2>. QED BY <1>10, <2>1, LenProperties
<1>12. c[M + 1] = x /\ c[M + 2] = y /\ \A k \in 1 .. M : c[k] = a[k]
  <2>1. M + 1 \in 1 .. M + 2 /\ M + 2 \in 1 .. M + 2 /\ ~(M + 1 <= M) /\ ~(M + 2 <= M)
        /\ (M + 1) - M = 1 /\ (M + 2) - M = 2
    BY <1>1
  <2>2. \A k \in 1 .. M : k \in 1 .. M + 2 /\ k <= M
    BY <1>1
  <2>3. c[M + 1] = << x, y >>[(M + 1) - M] /\ c[M + 2] = << x, y >>[(M + 2) - M]
    BY <1>10, <2>1
  <2>4. << x, y >>[1] = x /\ << x, y >>[2] = y
    OBVIOUS
  <2>. QED BY <1>10, <2>1, <2>2, <2>3, <2>4
<1>13. t \in Seq(Nat) /\ Len(t) = N /\ Position(s, c) = SumOf(t)
  BY <1>11, PositionIsSum DEF w, N
<1>14. \A k \in 1 .. N : t[k] = c[k] * w[k]
  OBVIOUS
<1>15. u \in Seq(Nat) /\ Len(u) = M /\ \A k \in 1 .. M : u[k] = a[k] * w[k]
  <2>1. \A k \in 1 .. M : a[k] * w[k] \in Nat
    BY <1>5, <1>6, TimesIsNat
  <2>2. u \in [ 1 .. M -> Nat ]
    BY <2>1
  <2>3. \A k \in 1 .. M : u[k] = a[k] * w[k]
    OBVIOUS
  <2> HIDE DEF u
  <2>. QED BY <1>1, <2>2, <2>3, FunctionToSequence
<1> HIDE DEF t, u
<1>16. \A k \in 1 .. M : t[k] = u[k]
  BY <1>6, <1>12, <1>14, <1>15
<1>17. /\ SumOf(t) = SumOf(u) + t[M + 1] + t[M + 2]
       /\ SumOf(u) \in Nat /\ t[M + 1] \in Nat /\ t[M + 2] \in Nat
  <2>1. Len(t) = Len(u) + 2 /\ \A k \in 1 .. Len(u) : t[k] = u[k]
    BY <1>11, <1>13, <1>15, <1>16
  <2>2. /\ SumOf(t) = SumOf(u) + t[Len(u) + 1] + t[Len(u) + 2]
        /\ SumOf(u) \in Nat /\ t[Len(u) + 1] \in Nat /\ t[Len(u) + 2] \in Nat
    BY <1>13, <1>15, <2>1, TwoMoreTerms
  <2>. QED BY <1>15, <2>2
<1>18. t[M + 1] = x * LastOf(s) /\ t[M + 2] = y
  <2>1. M + 1 \in 1 .. N - 1 /\ M + 1 \in 1 .. N /\ M + 2 \in 1 .. N /\ (M + 1) + 1 = N /\ M + 2 = N /\ N # 0
    BY <1>1, <1>11
  <2>2. w[N] = 1 /\ w[M + 1] = w[N] * s[N] /\ s[N] \in Nat
    BY <1>1, <1>2, <2>1
  <2>3. w[M + 1] = s[N]
    BY <2>2
  <2>4. LastOf(s) = s[N]
    BY DEF LastOf, N
  <2>5. t[M + 1] = c[M + 1] * w[M + 1] /\ t[M + 2] = c[M + 2] * w[N]
    BY <1>14, <2>1
  <2>6. t[M + 2] = y * 1
    BY <1>12, <2>2, <2>5
  <2>. QED BY <1>12, <2>3, <2>4, <2>5, <2>6
<1>19. Position(s, c) = SumOf(u) + x * LastOf(s) + y /\ Position(s, c) \in Nat
  BY <1>13, <1>17, <1>18, SMTT(20)
<1>. QED BY <1>7, <1>19 DEF c, a, b

\* The elements of the operands that an element of the product needs, in order.
LeftOf(r, c) ==
  IF r.op.type = "linear"
  THEN [ n \in 1 .. r.in[2][2] |-> Position(r.in[1], [ c EXCEPT ![Len(c)] = n - 1 ]) ]
  ELSE [ n \in 1 .. LastOf(r.in[1]) |->
           Position(r.in[1], Aligned(Batch(r.in[1]), Batch(c)) \o << c[Len(c) - 1], n - 1 >>) ]

RightOf(r, c) ==
  IF r.op.type = "linear"
  THEN [ n \in 1 .. r.in[2][2] |-> Position(r.in[2], << LastOf(c), n - 1 >>) ]
  ELSE [ n \in 1 .. LastOf(r.in[1]) |->
           Position(r.in[2], Aligned(Batch(r.in[2]), Batch(c)) \o << n - 1, LastOf(c) >>) ]

\* Where the loops come to this element.
CellOf(r, c) ==
  IF r.op.type = "linear"
  THEN [ batch |-> 0, row |-> Position(r.out, c) \div LastOf(r.out), column |-> LastOf(c), inner |-> 0 ]
  ELSE [ batch |-> Position(Batch(r.out), Batch(c)), row |-> c[Len(c) - 1], column |-> LastOf(c),
         inner |-> 0 ]

\* The loops come to the element once, and read what it needs.
IsCell(r, c) ==
  LET e == Extents(r)
      i == CellOf(r, c)
  IN  /\ {e.batch, e.row, e.column, e.inner} \subseteq Nat \ {0}
      /\ i.batch \in 0 .. e.batch - 1 /\ i.row \in 0 .. e.row - 1 /\ i.column \in 0 .. e.column - 1
      /\ OutAt(e, i) = Position(r.out, c)
      /\ LeftOf(r, c) \in [ 1 .. e.inner -> Nat ] /\ RightOf(r, c) \in [ 1 .. e.inner -> Nat ]
      /\ ReadsFrom(r, i, LeftOf(r, c), RightOf(r, c), 0, e.inner)

\* The shapes of a verified MatMul.
LEMMA MatMulShapes ==
  ASSUME NEW r \in CpuRequests, Verified(r), r.op.type = "mat_mul"
  PROVE  LET left == r.in[1]
             right == r.in[2]
             N == Len(r.out)
         IN  /\ left \in Seq(Nat \ {0}) /\ right \in Seq(Nat \ {0}) /\ r.out \in Seq(Nat \ {0})
             /\ Len(left) >= 2 /\ Len(right) >= 2 /\ N >= 2 /\ N \in Nat
             /\ LastOf(left) = right[Len(right) - 1]
             /\ r.out[N - 1] = left[Len(left) - 1] /\ LastOf(r.out) = LastOf(right)
             /\ Batch(r.out) \in Seq(Nat \ {0})
             /\ Len(left) - 2 <= Len(Batch(r.out)) /\ Len(right) - 2 <= Len(Batch(r.out))
<1> DEFINE left == r.in[1]
           right == r.in[2]
           N == Len(r.out)
<1>1. MatMulAgrees(r.op, r.in, r.out)
  BY VerifiedAgrees DEF Agrees
<1>2. 1 \in 1 .. Len(r.in) /\ 2 \in 1 .. Len(r.in)
  <2>1. Len(r.in) \in {2, 3}
    BY VerifiedCounts DEF Products
  <2>2. PICK n \in {2, 3} : n = Len(r.in)
    BY <2>1
  <2>3. 1 \in 1 .. n /\ 2 \in 1 .. n
    OBVIOUS
  <2>. QED BY <2>2, <2>3
<1>3. left \in Seq(Nat \ {0}) /\ right \in Seq(Nat \ {0}) /\ r.out \in Seq(Nat \ {0})
  BY <1>2, VerifiedIsPositive
<1>4. /\ Len(left) >= 2 /\ Len(right) >= 2 /\ LastOf(left) = right[Len(right) - 1]
      /\ r.out = Broadcast(Batch(left), Batch(right)) \o << left[Len(left) - 1], LastOf(right) >>
  BY <1>1 DEF MatMulAgrees
<1> HIDE DEF left, right
<1>5. /\ Len(left) \in Nat /\ Len(right) \in Nat /\ N \in Nat
      /\ left[Len(left) - 1] \in Nat /\ LastOf(right) \in Nat
  <2>1. /\ Len(left) \in Nat /\ Len(right) \in Nat
        /\ left \in [ 1 .. Len(left) -> Nat \ {0} ] /\ right \in [ 1 .. Len(right) -> Nat \ {0} ]
    BY <1>3, LenProperties
  <2>2. Len(left) - 1 \in 1 .. Len(left) /\ Len(right) \in 1 .. Len(right)
    BY <1>4, <2>1
  <2>. QED BY <1>3, <2>1, <2>2, LenProperties DEF LastOf
<1>6. /\ Batch(left) \in Seq(Nat) /\ Batch(right) \in Seq(Nat)
      /\ Len(Batch(left)) = Len(left) - 2 /\ Len(Batch(right)) = Len(right) - 2
  <2>1. left \in Seq(Nat) /\ right \in Seq(Nat)
    BY <1>3
  <2>. QED BY <1>4, <2>1, BatchFacts
<1>7. PICK s \in Seq(Nat) : s = Broadcast(Batch(left), Batch(right)) /\ Len(s) = Rank(Batch(left), Batch(right))
  BY <1>6, BroadcastIsShape
<1>8. Len(left) - 2 <= Len(s) /\ Len(right) - 2 <= Len(s)
  BY <1>5, <1>6, <1>7 DEF Rank
<1>9. /\ N >= 2 /\ r.out[N - 1] = left[Len(left) - 1] /\ LastOf(r.out) = LastOf(right) /\ Batch(r.out) = s
  <2>1. PICK a \in Nat, b \in Nat : a = left[Len(left) - 1] /\ b = LastOf(right)
    BY <1>5
  <2>2. r.out = s \o << a, b >>
    BY <1>4, <1>7, <2>1
  <2>3. LET t == s \o << a, b >> IN
          Len(t) >= 2 /\ t[Len(t) - 1] = a /\ LastOf(t) = b /\ Batch(t) = s
    BY TwoMoreDimensions
  <2>. QED BY <2>1, <2>2, <2>3
<1>10. Batch(r.out) \in Seq(Nat \ {0})
  BY <1>3, <1>9, BatchFacts
<1>. QED BY <1>3, <1>4, <1>5, <1>8, <1>9, <1>10 DEF left, right

\* MatMul comes to each element where it should.
LEMMA MatMulCell ==
  ASSUME NEW r \in CpuRequests, Verified(r), r.op.type = "mat_mul", NEW c \in Coordinates(r.out)
  PROVE  IsCell(r, c)
<1> DEFINE left == r.in[1]
           right == r.in[2]
           N == Len(r.out)
           o == Batch(r.out)
           d == Batch(c)
           e == Extents(r)
           i == CellOf(r, c)
           K == LastOf(left)
<1>1. /\ left \in Seq(Nat \ {0}) /\ right \in Seq(Nat \ {0}) /\ r.out \in Seq(Nat \ {0})
      /\ Len(left) >= 2 /\ Len(right) >= 2 /\ N >= 2 /\ N \in Nat
      /\ LastOf(left) = right[Len(right) - 1]
      /\ r.out[N - 1] = left[Len(left) - 1] /\ LastOf(r.out) = LastOf(right)
      /\ o \in Seq(Nat \ {0})
      /\ Len(left) - 2 <= Len(o) /\ Len(right) - 2 <= Len(o)
  BY MatMulShapes
<1>2. /\ d \in Coordinates(o) /\ Len(c) = N
      /\ Position(o, d) \in 0 .. Product(o) - 1
      /\ Position(r.out, c) = (Position(o, d) * r.out[N - 1] + c[N - 1]) * r.out[N] + c[N]
  BY <1>1, PositionInBatch
<1>3. /\ r.out[N - 1] \in Nat \ {0} /\ r.out[N] \in Nat \ {0} /\ LastOf(r.out) = r.out[N]
      /\ c[N - 1] \in 0 .. r.out[N - 1] - 1 /\ c[N] \in 0 .. r.out[N] - 1 /\ LastOf(c) = c[N]
      /\ K \in Nat \ {0}
  <2>5. r.out \in Seq(Nat \ {0}) /\ left \in Seq(Nat \ {0}) /\ Len(left) >= 2 /\ N >= 2 /\ N \in Nat
    BY <1>1
  <2>6. Len(left) \in Nat
    BY <2>5, LenProperties
  <2>1. r.out \in [ 1 .. N -> Nat \ {0} ] /\ r.out \in Seq(Nat)
    BY <2>5, LenProperties
  <2>2. \A k \in 1 .. N : c[k] \in 0 .. r.out[k] - 1
    BY <2>1, LengthOfPosition
  <2>3. N \in 1 .. N /\ N - 1 \in 1 .. N
    BY <2>5
  <2>4. left \in [ 1 .. Len(left) -> Nat \ {0} ] /\ Len(left) \in 1 .. Len(left)
    BY <2>5, <2>6, LenProperties
  <2> HIDE DEF N, left
  <2>. QED BY <1>2, <2>1, <2>2, <2>3, <2>4 DEF LastOf, N
<1>4. Product(o) \in Nat \ {0}
  <2>1. Product(o) \in Nat
    BY <1>1, ProductIsNat
  <2>. QED BY <1>2, <2>1
<1>5. e = [ batch |-> Product(o), row |-> r.out[N - 1], column |-> r.out[N], inner |-> K ]
  BY <1>3 DEF Extents, MatMulExtents
<1>6. i = [ batch |-> Position(o, d), row |-> c[N - 1], column |-> c[N], inner |-> 0 ]
  BY <1>2, <1>3 DEF CellOf
<1>7. OutAt(e, i) = Position(r.out, c)
  <2> HIDE DEF e, i, o, d, N
  <2>1. OutAt(e, i) = Position(o, d) * r.out[N - 1] * r.out[N] + c[N - 1] * r.out[N] + c[N]
    BY <1>5, <1>6 DEF OutAt
  <2>2. PICK b \in Nat, m \in Nat, p \in Nat, x \in Nat, y \in Nat :
          b = Position(o, d) /\ m = r.out[N - 1] /\ p = r.out[N] /\ x = c[N - 1] /\ y = c[N]
    <3>1. Position(o, d) \in Nat
      BY <1>2, <1>4
    <3>2. r.out[N - 1] \in Nat /\ r.out[N] \in Nat /\ c[N - 1] \in Nat /\ c[N] \in Nat
      BY <1>3
    <3>. QED BY <3>1, <3>2
  <2>3. (b * m + x) * p + y = b * m * p + x * p + y
    <3>1. (b * m + x) * p = b * (p * m) + x * p /\ (b * m) * p = b * (p * m)
      BY Regroup, TimesInTurn
    <3>. QED BY <3>1
  <2>. QED BY <1>2, <2>1, <2>2, <2>3
<1>8. ASSUME NEW k \in 0 .. K - 1
      PROVE  LET j == [ i EXCEPT !.inner = k ]
             IN  /\ LeftAt(r, j) = Position(left, Aligned(Batch(left), d) \o << c[N - 1], k >>)
                 /\ RightAt(r, j) = Position(right, Aligned(Batch(right), d) \o << k, c[N] >>)
                 /\ LeftAt(r, j) \in Nat /\ RightAt(r, j) \in Nat
  <2> DEFINE j == [ i EXCEPT !.inner = k ]
  <2>1. j = [ batch |-> Position(o, d), row |-> c[N - 1], column |-> c[N], inner |-> k ]
    BY <1>6
  <2>2. c[N - 1] \in Nat /\ c[N] \in Nat /\ k \in Nat
    BY <1>3
  <2> HIDE DEF e, i, o, d, N, left, right, K, j
  <2>3. LeftAt(r, j) = batch_base_offset(Position(o, d), o, left) + c[N - 1] * K + k
    BY <1>5, <2>1 DEF LeftAt, e, o, left
  <2>4. RightAt(r, j) = batch_base_offset(Position(o, d), o, right) + k * r.out[N] + c[N]
    BY <1>5, <2>1 DEF RightAt, e, o, right
  <2>5. PICK x \in Nat, y \in Nat : x = c[N - 1] /\ y = c[N]
    BY <2>2
  <2>6. LET there == Position(left, Aligned(Batch(left), d) \o << x, k >>)
        IN  batch_base_offset(Position(o, d), o, left) + x * LastOf(left) + k = there /\ there \in Nat
    BY <1>1, <1>2, <2>2, OperandAt
  <2>7. LET there == Position(right, Aligned(Batch(right), d) \o << k, y >>)
        IN  batch_base_offset(Position(o, d), o, right) + k * LastOf(right) + y = there /\ there \in Nat
    BY <1>1, <1>2, <2>2, OperandAt
  <2>8. LastOf(right) = r.out[N]
    BY <1>1, <1>3
  <2>9. /\ LeftAt(r, j) = Position(left, Aligned(Batch(left), d) \o << c[N - 1], k >>)
        /\ LeftAt(r, j) \in Nat
    BY <2>3, <2>5, <2>6 DEF K
  <2>10. /\ RightAt(r, j) = Position(right, Aligned(Batch(right), d) \o << k, c[N] >>)
         /\ RightAt(r, j) \in Nat
    BY <2>4, <2>5, <2>7, <2>8
  <2>. QED BY <2>9, <2>10 DEF j
<1>9. /\ LeftOf(r, c) = [ n \in 1 .. K |->
                           Position(left, Aligned(Batch(left), d) \o << c[N - 1], n - 1 >>) ]
      /\ RightOf(r, c) = [ n \in 1 .. K |->
                           Position(right, Aligned(Batch(right), d) \o << n - 1, c[N] >>) ]
  BY <1>2, <1>3 DEF LeftOf, RightOf
<1>10. /\ LeftOf(r, c) \in [ 1 .. K -> Nat ] /\ RightOf(r, c) \in [ 1 .. K -> Nat ]
       /\ ReadsFrom(r, i, LeftOf(r, c), RightOf(r, c), 0, K)
  <2> HIDE DEF e, i, o, d, N, left, right, K
  <2>1. ASSUME NEW k \in 0 .. K - 1
        PROVE  LET j == [ i EXCEPT !.inner = k ]
               IN  /\ LeftOf(r, c)[k + 1] = LeftAt(r, j) /\ RightOf(r, c)[k + 1] = RightAt(r, j)
                   /\ LeftAt(r, j) \in Nat /\ RightAt(r, j) \in Nat
    <3>1. k + 1 \in 1 .. K /\ (k + 1) - 1 = k
      BY <1>3
    <3>. QED BY <1>8, <1>9, <3>1
  <2>2. ASSUME NEW n \in 1 .. K
        PROVE  LeftOf(r, c)[n] \in Nat /\ RightOf(r, c)[n] \in Nat
    <3>1. n - 1 \in 0 .. K - 1 /\ (n - 1) + 1 = n
      BY <1>3
    <3>. QED BY <2>1, <3>1
  <2>3. LeftOf(r, c) = [ n \in 1 .. K |-> LeftOf(r, c)[n] ] /\ RightOf(r, c) = [ n \in 1 .. K |-> RightOf(r, c)[n] ]
    BY <1>9
  <2>4. LeftOf(r, c) \in [ 1 .. K -> Nat ] /\ RightOf(r, c) \in [ 1 .. K -> Nat ]
    BY <2>2, <2>3
  <2>. QED BY <2>1, <2>4 DEF ReadsFrom
<1> HIDE DEF e, i, o, d, N, left, right, K
<1>11. {e.batch, e.row, e.column, e.inner} \subseteq Nat \ {0}
  BY <1>3, <1>4, <1>5
<1>12. i.batch \in 0 .. e.batch - 1 /\ i.row \in 0 .. e.row - 1 /\ i.column \in 0 .. e.column - 1
  BY <1>2, <1>3, <1>5, <1>6
<1>13. e.inner = K
  BY <1>5
<1>. QED BY <1>7, <1>10, <1>11, <1>12, <1>13 DEF IsCell, e, i

\* Two loops agree as far as what they multiply by and add does.
LEMMA LoopsAgree ==
  ASSUME NEW N \in Nat, NEW M \in Nat, M <= N, NEW a, NEW m, NEW t, NEW l, NEW u, NEW f, NEW h,
         IsLoop(f, N, a, m, t), IsLoop(h, N, a, l, u), \A k \in 1 .. M : m[k] = l[k] /\ t[k] = u[k]
  PROVE  \A k \in 0 .. M : f[k] = h[k]
<1>1. h[0] = f[0]
  BY DEF IsLoop
<1>2. \A k \in 1 .. M : h[k - 1] = f[k - 1] => h[k] = f[k]
  BY DEF IsLoop
<1>. QED BY <1>1, <1>2, SameValues

\* Two loops multiply by the same and add the same before their last step.
AgreeBefore(N, m, t, l, u) == \A k \in 1 .. N - 1 : m[k] = l[k] /\ t[k] = u[k]

\* So they come to the last step with the same value.
LEMMA LoopsAgreeBefore ==
  ASSUME NEW N \in Nat \ {0}, NEW a, NEW m, NEW t, NEW l, NEW u, NEW f, NEW h,
         IsLoop(f, N, a, m, t), IsLoop(h, N, a, l, u), AgreeBefore(N, m, t, l, u)
  PROVE  f[N - 1] = h[N - 1]
<1>1. PICK M \in Nat : M = N - 1
  OBVIOUS
<1>2. N \in Nat /\ M <= N /\ \A k \in 1 .. M : m[k] = l[k] /\ t[k] = u[k]
  BY <1>1 DEF AgreeBefore
<1>3. \A k \in 0 .. M : f[k] = h[k]
  BY <1>2, LoopsAgree
<1>4. M \in 0 .. M
  OBVIOUS
<1>. QED BY <1>1, <1>3, <1>4

\* A position, by the row and the column of its last axis; only the last dimension
\* of the other shape may differ.
LEMMA PositionByRow ==
  ASSUME NEW out \in Seq(Nat \ {0}), NEW s \in Seq(Nat \ {0}), Len(s) = Len(out), Len(out) # 0,
         \A k \in 1 .. Len(out) - 1 : out[k] = s[k], NEW c \in Coordinates(out), NEW n \in Nat
  PROVE  LET N == Len(out)
             row == Position(out, c) \div out[N]
         IN  /\ row \in Nat
             /\ Position(s, [ c EXCEPT ![N] = n ]) = row * s[N] + n
<1> DEFINE N == Len(out)
<1>1. N # 0 /\ Len(s) = N /\ Len(out) = N /\ \A k \in 1 .. N - 1 : out[k] = s[k]
  OBVIOUS
<1>2. /\ out \in Seq(Nat) /\ s \in Seq(Nat) /\ N \in Nat /\ N \in 1 .. N /\ N - 1 \in Nat
      /\ N - 1 \in 0 .. N
  BY LenProperties
<1>3. out[N] \in Nat \ {0} /\ s[N] \in Nat \ {0}
  BY <1>1, <1>2, LenProperties
<1> HIDE DEF N
<1>4. c \in [ 1 .. N -> Nat ] /\ c[N] \in 0 .. out[N] - 1
  BY <1>1, <1>2, LengthOfPosition
<1> DEFINE d == [ c EXCEPT ![N] = n ]
<1>5. d \in [ 1 .. N -> Nat ] /\ d[N] = n /\ \A k \in 1 .. N - 1 : k \in 1 .. N /\ d[k] = c[k]
  BY <1>2, <1>4
<1> HIDE DEF d, N
<1>6. PICK f : IsLoop(f, N, 0, out, c) /\ Position(out, c) = f[N]
  BY <1>2, <1>4, <1>1, PositionFacts
<1>7. PICK h : IsLoop(h, N, 0, s, d) /\ Position(s, d) = h[N]
  BY <1>2, <1>5, <1>1, PositionFacts
<1>8. h[N - 1] = f[N - 1]
  <2>1. PICK L \in Nat \ {0} : L = N
    BY <1>1, <1>2
  <2>2. IsLoop(f, L, 0, out, c) /\ IsLoop(h, L, 0, s, d)
    BY <1>6, <1>7, <2>1
  <2>3. AgreeBefore(L, out, c, s, d)
    BY <1>1, <1>5, <2>1 DEF AgreeBefore
  <2>4. f[L - 1] = h[L - 1]
    BY <2>2, <2>3, LoopsAgreeBefore
  <2>. QED BY <2>1, <2>4
<1>9. f[N - 1] \in Nat /\ f[N] = f[N - 1] * out[N] + c[N] /\ h[N] = h[N - 1] * s[N] + n
  BY <1>2, <1>5, <1>6, <1>7 DEF IsLoop
<1>10. PICK q \in Nat, y \in Nat \ {0}, z \in Nat :
        q = f[N - 1] /\ y = out[N] /\ z = c[N] /\ z \in 0 .. y - 1
  <2>1. f[N - 1] \in Nat
    BY <1>9
  <2>2. c[N] \in Nat
    BY <1>3, <1>4
  <2>. QED BY <1>3, <1>4, <2>1, <2>2
<1>11. ((q * y + z) \div y) = q
  <2>1. q \in Int /\ z \in 0 .. y - 1
    BY <1>10
  <2>. QED BY <2>1, QuotientAndRemainder
<1>12. Position(out, c) \div out[N] = q
  BY <1>6, <1>9, <1>10, <1>11
<1>13. Position(s, d) = q * s[N] + n
  BY <1>7, <1>8, <1>9, <1>10
<1>. QED BY <1>10, <1>12, <1>13 DEF d, N

\* The rows of a shape: what is left of its elements when its last axis is taken off.
LEMMA RowsOfShape ==
  ASSUME NEW out \in Seq(Nat \ {0}), NEW N, N = Len(out), N # 0, NEW c \in Coordinates(out)
  PROVE  (Position(out, c) \div out[N]) \in 0 .. (Product(out) \div out[N]) - 1
<1>1. out \in Seq(Nat) /\ N \in Nat /\ N \in 1 .. N /\ N - 1 \in 0 .. N
  BY LenProperties
<1>2. out[N] \in Nat \ {0}
  BY <1>1, LenProperties
<1>3. PICK g : IsLoop(g, N, 1, out, ZerosOf(out)) /\ Product(out) = g[N]
  BY <1>1, ProductFacts
<1>4. g[N] = g[N - 1] * out[N] + ZerosOf(out)[N] /\ ZerosOf(out)[N] = 0 /\ g[N - 1] \in Nat
  <2>1. ZerosOf(out)[N] = 0
    BY <1>1 DEF ZerosOf
  <2>. QED BY <1>1, <1>3, <2>1 DEF IsLoop
<1>5. PICK y \in Nat \ {0}, m \in Nat : y = out[N] /\ m = g[N - 1]
  BY <1>2, <1>4
<1>6. Product(out) = m * y
  <2>1. m * y \in Nat
    BY <1>5, TimesIsNat
  <2>. QED BY <1>3, <1>4, <1>5, <2>1
<1>7. PICK p \in Nat : p = Position(out, c) /\ p < m * y
  <2>1. m * y \in Nat
    BY <1>5, TimesIsNat
  <2>. QED BY <1>6, <2>1, PositionIsElement
<1>8. PICK q \in Nat, z \in Nat : p = q * y + z /\ q = (p \div y)
  <2>1. p \in Int /\ y \in Nat \ {0} /\ 1 \in Nat \ {0}
    OBVIOUS
  <2>2. p = y * (p \div y) + (p % y) /\ (p % y) \in 0 .. y - 1 /\ (p \div y) \in Int
    BY <2>1, DivisionFacts
  <2>3. (p \div y) \in Nat
    <3>1. ((p \div y) \div 1) = (p \div (y * 1)) /\ (p \div y) \in Nat
      BY <2>1, DivideTwice
    <3>. QED BY <3>1
  <2>4. PICK a \in Nat, b \in 0 .. y - 1 : a = (p \div y) /\ b = (p % y)
    BY <2>2, <2>3
  <2>5. p = a * y + b
    BY <2>2, <2>4
  <2>. QED BY <2>4, <2>5
<1>9. q < m
  <2>1. SUFFICES ASSUME q >= m PROVE FALSE
    OBVIOUS
  <2>2. PICK n \in Nat : q = m + n
    <3>1. q - m \in Nat /\ q = m + (q - m)
      BY <2>1
    <3>. QED BY <3>1
  <2>3. q * y = m * y + n * y /\ n * y \in Nat /\ m * y \in Nat
    BY <2>2
  <2>4. PICK a \in Nat, b \in Nat : a = m * y /\ b = n * y
    BY <2>3
  <2>5. p = a + b + z /\ p < a
    BY <1>7, <1>8, <2>3, <2>4
  <2>. QED BY <2>5
<1>10. ((m * y) \div y) = m
  <2>1. 0 \in 0 .. y - 1 /\ m \in Int
    OBVIOUS
  <2>2. ((m * y + 0) \div y) = m
    BY <2>1, QuotientAndRemainder
  <2>3. m * y \in Nat
    BY <1>5, TimesIsNat
  <2>. QED BY <2>2, <2>3
<1>. QED BY <1>5, <1>6, <1>7, <1>8, <1>9, <1>10

\* The shapes of a verified Linear.
LEMMA LinearShapes ==
  ASSUME NEW r \in CpuRequests, Verified(r), r.op.type = "linear"
  PROVE  LET input == r.in[1]
             weight == r.in[2]
         IN  /\ input \in Seq(Nat \ {0}) /\ weight \in Seq(Nat \ {0}) /\ r.out \in Seq(Nat \ {0})
             /\ Len(input) = Len(r.out) /\ Len(r.out) # 0 /\ Len(weight) = 2
             /\ LastOf(input) = weight[2] /\ LastOf(r.out) = weight[1]
             /\ \A k \in 1 .. Len(r.out) - 1 : r.out[k] = input[k]
<1> DEFINE input == r.in[1]
           weight == r.in[2]
<1>1. LinearAgrees(r.op, r.in, r.out)
  BY VerifiedAgrees DEF Agrees
<1>2. 1 \in 1 .. Len(r.in) /\ 2 \in 1 .. Len(r.in)
  <2>1. Len(r.in) \in {2, 3}
    BY VerifiedCounts DEF Products
  <2>2. PICK n \in {2, 3} : n = Len(r.in)
    BY <2>1
  <2>3. 1 \in 1 .. n /\ 2 \in 1 .. n
    OBVIOUS
  <2>. QED BY <2>2, <2>3
<1>3. input \in Seq(Nat \ {0}) /\ weight \in Seq(Nat \ {0}) /\ r.out \in Seq(Nat \ {0})
  BY <1>2, VerifiedIsPositive
<1>4. /\ Len(input) >= 1 /\ Len(weight) = 2 /\ LastOf(input) = weight[2]
      /\ r.out = [ input EXCEPT ![Len(input)] = weight[1] ]
  BY <1>1 DEF LinearAgrees
<1> HIDE DEF input, weight
<1>5. Len(input) \in Nat /\ input \in [ 1 .. Len(input) -> Nat \ {0} ] /\ weight[1] \in Nat
  <2>1. weight \in [ 1 .. 2 -> Nat \ {0} ]
    BY <1>3, <1>4, LenProperties
  <2>. QED BY <1>3, <2>1, LenProperties
<1>6. /\ r.out \in [ 1 .. Len(input) -> Nat ] /\ r.out[Len(input)] = weight[1]
      /\ \A k \in 1 .. Len(input) - 1 : r.out[k] = input[k]
  <2>1. PICK L \in Nat : L = Len(input)
    BY <1>5
  <2>2. L \in 1 .. L /\ \A k \in 1 .. L - 1 : k \in 1 .. L /\ k # L
    BY <1>4, <2>1
  <2>3. r.out = [ input EXCEPT ![L] = weight[1] ]
    BY <1>4, <2>1
  <2>4. input \in [ 1 .. L -> Nat \ {0} ]
    BY <1>5, <2>1
  <2>5. /\ r.out \in [ 1 .. L -> Nat ] /\ r.out[L] = weight[1]
        /\ \A k \in 1 .. L - 1 : r.out[k] = input[k]
    BY <1>5, <2>2, <2>3, <2>4
  <2>. QED BY <2>1, <2>5
<1>7. Len(r.out) = Len(input)
  BY <1>5, <1>6, FunctionToSequence
<1>. QED BY <1>3, <1>4, <1>5, <1>6, <1>7 DEF LastOf, input, weight

\* Linear comes to each element where it should.
LEMMA LinearCell ==
  ASSUME NEW r \in CpuRequests, Verified(r), r.op.type = "linear", NEW c \in Coordinates(r.out)
  PROVE  IsCell(r, c)
<1> DEFINE input == r.in[1]
           weight == r.in[2]
           N == Len(r.out)
           e == Extents(r)
           i == CellOf(r, c)
           K == weight[2]
           P == r.out[N]
           row == Position(r.out, c) \div P
<1>1. /\ input \in Seq(Nat \ {0}) /\ weight \in Seq(Nat \ {0}) /\ r.out \in Seq(Nat \ {0})
      /\ Len(input) = N /\ Len(r.out) = N /\ N # 0 /\ Len(weight) = 2
      /\ LastOf(input) = K /\ LastOf(r.out) = weight[1]
      /\ \A k \in 1 .. N - 1 : r.out[k] = input[k]
  BY LinearShapes
<1>2. N \in Nat /\ N \in 1 .. N /\ r.out \in Seq(Nat)
  BY <1>1, LenProperties, SMTT(20)
<1> HIDE DEF input, weight, N
<1>3. /\ P \in Nat \ {0} /\ K \in Nat \ {0} /\ LastOf(r.out) = P /\ weight[1] = P /\ input[N] = K
      /\ weight = << P, K >>
  <2>1. r.out \in [ 1 .. N -> Nat \ {0} ] /\ weight \in [ 1 .. 2 -> Nat \ {0} ]
    BY <1>1, LenProperties
  <2>2. LastOf(r.out) = P /\ LastOf(input) = input[N]
    BY <1>1 DEF LastOf
  <2>3. weight = << weight[1], weight[2] >>
    BY <1>1
  <2>. QED BY <1>1, <1>2, <2>1, <2>2, <2>3
<1>4. Len(c) = N /\ c \in [ 1 .. N -> Nat ] /\ c[N] \in 0 .. P - 1 /\ LastOf(c) = c[N]
  BY <1>1, <1>2, LengthOfPosition DEF LastOf
<1> HIDE DEF P, K
<1>5. /\ row \in Nat
      /\ Position(r.out, c) = row * P + c[N]
      /\ \A n \in Nat : Position(input, [ c EXCEPT ![N] = n ]) = row * K + n
  <2>1. [ c EXCEPT ![N] = c[N] ] = c
    BY <1>2, <1>4
  <2>2. c[N] \in Nat
    BY <1>2, <1>4
  <2>3. row \in Nat /\ Position(r.out, [ c EXCEPT ![N] = c[N] ]) = row * r.out[N] + c[N]
    BY <1>1, <2>2, PositionByRow DEF N, P
  <2>4. \A n \in Nat : Position(input, [ c EXCEPT ![N] = n ]) = row * input[N] + n
    BY <1>1, PositionByRow DEF N, P
  <2>. QED BY <1>3, <2>1, <2>3, <2>4 DEF P
<1>6. row \in 0 .. (Product(r.out) \div P) - 1
  BY <1>1, RowsOfShape DEF N, P
<1> HIDE DEF row
<1>7. i = [ batch |-> 0, row |-> row, column |-> c[N], inner |-> 0 ]
  BY <1>3, <1>4 DEF CellOf, row
<1>8. e = [ batch |-> 1, row |-> Product(r.out) \div P, column |-> P, inner |-> K ]
  BY <1>1, <1>3 DEF Extents, LinearExtents, input, weight
<1> HIDE DEF e, i
<1>9. (Product(r.out) \div P) \in Nat \ {0}
  <2>1. Product(r.out) \in Nat
    BY <1>1, ProductIsNat
  <2>2. (Product(r.out) \div P) \in Int
    BY <1>3, <2>1, DivisionFacts
  <2>. QED BY <1>6, <2>2
<1>10. OutAt(e, i) = Position(r.out, c)
  <2>1. OutAt(e, i) = 0 * (Product(r.out) \div P) * P + row * P + c[N]
    BY <1>7, <1>8 DEF OutAt
  <2>2. PICK R \in Nat, p \in Nat, x \in Nat, y \in Nat :
          R = (Product(r.out) \div P) /\ p = P /\ x = row /\ y = c[N]
    <3>1. c[N] \in Nat
      BY <1>2, <1>4
    <3>. QED BY <1>3, <1>5, <1>9, <3>1
  <2>3. 0 * R * p + x * p + y = x * p + y
    OBVIOUS
  <2>. QED BY <1>5, <2>1, <2>2, <2>3
<1>11. ASSUME NEW k \in 0 .. K - 1
       PROVE  LET j == [ i EXCEPT !.inner = k ]
              IN  /\ LeftAt(r, j) = Position(input, [ c EXCEPT ![N] = k ])
                  /\ RightAt(r, j) = Position(weight, << c[N], k >>)
                  /\ LeftAt(r, j) \in Nat /\ RightAt(r, j) \in Nat
  <2> DEFINE j == [ i EXCEPT !.inner = k ]
  <2>1. j = [ batch |-> 0, row |-> row, column |-> c[N], inner |-> k ]
    BY <1>7
  <2> HIDE DEF j
  <2>2. k \in Nat /\ c[N] \in Nat
    BY <1>2, <1>3, <1>4
  <2>3. PICK x \in Nat, y \in Nat, m \in Nat : x = row /\ y = c[N] /\ m = K
    BY <1>3, <1>5, <2>2
  <2>4. LeftAt(r, j) = 0 + row * K + k
    BY <1>8, <2>1 DEF LeftAt, e
  <2>5. RightAt(r, j) = c[N] * K + k
    BY <1>8, <2>1 DEF RightAt, e
  <2>6. Position(input, [ c EXCEPT ![N] = k ]) = row * K + k
    BY <1>5, <2>2
  <2>7. Position(<< P, K >>, << y, k >>) = << y, k >>[1] * K + << y, k >>[2]
    <3>1. P \in Nat /\ K \in Nat /\ << y, k >>[1] \in Nat /\ << y, k >>[2] \in Nat
      BY <1>3, <2>2
    <3>. QED BY <3>1, PositionInMatrix
  <2>8. Position(weight, << c[N], k >>) = c[N] * K + k
    BY <1>3, <2>3, <2>7
  <2>9. x * m + k \in Nat /\ y * m + k \in Nat /\ 0 + x * m + k = x * m + k
    <3>1. x * m \in Nat /\ y * m \in Nat
      BY TimesIsNat
    <3>. QED BY <2>2, <3>1
  <2>. QED BY <2>3, <2>4, <2>5, <2>6, <2>8, <2>9 DEF j
<1>12. /\ LeftOf(r, c) = [ n \in 1 .. K |-> Position(input, [ c EXCEPT ![N] = n - 1 ]) ]
       /\ RightOf(r, c) = [ n \in 1 .. K |-> Position(weight, << c[N], n - 1 >>) ]
  BY <1>4 DEF LeftOf, RightOf, input, weight, K
<1>13. /\ LeftOf(r, c) \in [ 1 .. K -> Nat ] /\ RightOf(r, c) \in [ 1 .. K -> Nat ]
       /\ ReadsFrom(r, i, LeftOf(r, c), RightOf(r, c), 0, K)
  <2>1. ASSUME NEW k \in 0 .. K - 1
        PROVE  LET j == [ i EXCEPT !.inner = k ]
               IN  /\ LeftOf(r, c)[k + 1] = LeftAt(r, j) /\ RightOf(r, c)[k + 1] = RightAt(r, j)
                   /\ LeftAt(r, j) \in Nat /\ RightAt(r, j) \in Nat
    <3>1. k + 1 \in 1 .. K /\ (k + 1) - 1 = k
      BY <1>3
    <3>. QED BY <1>11, <1>12, <3>1
  <2>2. ASSUME NEW n \in 1 .. K
        PROVE  LeftOf(r, c)[n] \in Nat /\ RightOf(r, c)[n] \in Nat
    <3>1. n - 1 \in 0 .. K - 1 /\ (n - 1) + 1 = n
      BY <1>3
    <3>. QED BY <2>1, <3>1
  <2>3. LeftOf(r, c) = [ n \in 1 .. K |-> LeftOf(r, c)[n] ] /\ RightOf(r, c) = [ n \in 1 .. K |-> RightOf(r, c)[n] ]
    BY <1>12
  <2>4. LeftOf(r, c) \in [ 1 .. K -> Nat ] /\ RightOf(r, c) \in [ 1 .. K -> Nat ]
    BY <2>2, <2>3
  <2>. QED BY <2>1, <2>4 DEF ReadsFrom
<1>14. {e.batch, e.row, e.column, e.inner} \subseteq Nat \ {0} /\ e.inner = K
  BY <1>3, <1>8, <1>9
<1>15. i.batch \in 0 .. e.batch - 1 /\ i.row \in 0 .. e.row - 1 /\ i.column \in 0 .. e.column - 1
  BY <1>4, <1>6, <1>7, <1>8 DEF P
<1>. QED BY <1>10, <1>13, <1>14, <1>15 DEF IsCell, e, i

\* What a product means is what it has to read, and then the bias.
LEMMA ProductMeaning ==
  ASSUME NEW r \in CpuRequests, Verified(r), r.op.type \in Products, NEW c \in Coordinates(r.out)
  PROVE  /\ IsCell(r, c)
         /\ LET reads == FirstReads(LeftOf(r, c), RightOf(r, c), Extents(r).inner)
            IN  Meaning(r.op, r.in, r.out, c) =
                  IF Len(r.in) = 3 THEN Element("gelu", reads \o << << 3, LastOf(c) >> >>)
                  ELSE Element("sum", reads)
<1>1. r.op.type = "mat_mul" \/ r.op.type = "linear"
  BY DEF Products
<1>2. IsCell(r, c)
  BY <1>1, MatMulCell, LinearCell
<1> DEFINE left == LeftOf(r, c)
           right == RightOf(r, c)
           K == Extents(r).inner
<1>3. K \in Nat \ {0} /\ left \in [ 1 .. K -> Nat ] /\ right \in [ 1 .. K -> Nat ]
  BY <1>2 DEF IsCell
<1>4. Len(left) = K
  <2> HIDE DEF left, K
  <2>1. K \in Nat
    BY <1>3
  <2>. QED BY <1>3, <2>1, FunctionToSequence
<1>5. (IF r.op.type = "linear" THEN MeaningOfLinear(r.in, c) ELSE MeaningOfMatMul(r.in, c))
        = InTurn(left, right)
  BY DEF MeaningOfLinear, MeaningOfMatMul, LeftOf, RightOf
<1>6. InTurn(left, right) = FirstReads(left, right, K)
  BY <1>4 DEF InTurn, FirstReads
<1> HIDE DEF left, right, K
<1>7. Meaning(r.op, r.in, r.out, c) =
        IF Len(r.in) = 3 THEN Element("gelu", InTurn(left, right) \o << << 3, LastOf(c) >> >>)
        ELSE Element("sum", InTurn(left, right))
  BY <1>1, <1>5 DEF Meaning, ElementwiseTypes
<1>. QED BY <1>2, <1>6, <1>7 DEF left, right, K

(***************************************************************************)
(* MatMul and Linear: the loops over the elements.                         *)
(***************************************************************************)

\* An element's batch, row and column, from its number.
LEMMA ElementSplits ==
  ASSUME NEW e, NEW i, {e.row, e.column} \subseteq Nat \ {0},
         i.batch \in Nat, i.row \in 0 .. e.row - 1, i.column \in 0 .. e.column - 1
  PROVE  /\ (OutAt(e, i) \div (e.row * e.column)) = i.batch
         /\ ((OutAt(e, i) \div e.column) % e.row) = i.row
         /\ (OutAt(e, i) % e.column) = i.column
<1>1. PICK R \in Nat \ {0}, P \in Nat \ {0} : R = e.row /\ P = e.column
  OBVIOUS
<1>2. PICK b \in Nat, x \in Nat, y \in Nat :
        b = i.batch /\ x = i.row /\ y = i.column /\ x \in 0 .. R - 1 /\ y \in 0 .. P - 1
  BY <1>1
<1>3. PICK a \in Nat : a = b * R + x
  BY TimesIsNat
<1>4. b * R * P + x * P + y = a * P + y /\ a * P + y \in Nat
  <2>1. (b * R + x) * P = b * (P * R) + x * P /\ (b * R) * P = b * (P * R)
    BY Regroup, TimesInTurn
  <2>2. b * R * P + x * P + y = (b * R + x) * P + y
    BY <2>1
  <2>3. a * P + y \in Nat
    BY TimesIsNat
  <2>. QED BY <1>3, <2>2, <2>3
<1>5. PICK index \in Nat : index = OutAt(e, i) /\ index = a * P + y
  <2>1. OutAt(e, i) = b * R * P + x * P + y
    BY <1>1, <1>2 DEF OutAt
  <2>. QED BY <1>4, <2>1
<1>6. (index % P) = y /\ (index \div P) = a
  <2>1. a \in Int /\ y \in 0 .. P - 1
    BY <1>2
  <2>. QED BY <1>5, <2>1, QuotientAndRemainder
<1>7. (a % R) = x /\ (a \div R) = b
  <2>1. b \in Int /\ x \in 0 .. R - 1
    BY <1>2
  <2>. QED BY <1>3, <2>1, QuotientAndRemainder
<1>8. ((index \div P) \div R) = (index \div (R * P))
  <2>1. ((index \div P) \div R) = (index \div (P * R))
    BY DivideTwice
  <2>2. PICK m : m = P * R
    OBVIOUS
  <2>3. m = R * P
    BY <2>2
  <2>. QED BY <2>1, <2>2, <2>3
<1>. QED BY <1>1, <1>2, <1>5, <1>6, <1>7, <1>8

\* The loops come to no element twice.
LEMMA ElementsAreApart ==
  ASSUME NEW e, NEW i, NEW j, {e.row, e.column} \subseteq Nat \ {0},
         i.batch \in Nat, i.row \in 0 .. e.row - 1, i.column \in 0 .. e.column - 1,
         j.batch \in Nat, j.row \in 0 .. e.row - 1, j.column \in 0 .. e.column - 1,
         OutAt(e, i) = OutAt(e, j)
  PROVE  i.batch = j.batch /\ i.row = j.row /\ i.column = j.column
<1>1. /\ (OutAt(e, i) \div (e.row * e.column)) = i.batch
      /\ ((OutAt(e, i) \div e.column) % e.row) = i.row
      /\ (OutAt(e, i) % e.column) = i.column
  BY ElementSplits
<1>2. /\ (OutAt(e, j) \div (e.row * e.column)) = j.batch
      /\ ((OutAt(e, j) \div e.column) % e.row) = j.row
      /\ (OutAt(e, j) % e.column) = j.column
  BY ElementSplits
<1>. QED BY <1>1, <1>2

\* What an element has after n turns of the contracting dimension.
Partly(r, c, n) == Element("sum", FirstReads(LeftOf(r, c), RightOf(r, c), n))

\* The product, with all that each element has to read.
IsProduct(r, contents) ==
  /\ contents = [ index \in 0 .. Product(r.out) - 1 |-> contents[index] ]
  /\ \A c \in Coordinates(r.out) :
       contents[Position(r.out, c)] = Partly(r, c, Extents(r).inner)

\* An element read on, from wherever the loops stand in the contracting dimension.
LEMMA ReadOn ==
  ASSUME NEW r, NEW c, IsCell(r, c), NEW K, K = Extents(r).inner,
         NEW i, i = [ CellOf(r, c) EXCEPT !.inner = i.inner ],
         NEW last \in 0 .. K, NEW first \in 0 .. last
  PROVE  Element("sum", Accumulate(r, Partly(r, c, first).reads, i, first, last)) = Partly(r, c, last)
<1> DEFINE left == LeftOf(r, c)
           right == RightOf(r, c)
<1>1. K \in Nat /\ left \in [ 1 .. K -> Nat ] /\ right \in [ 1 .. K -> Nat ]
      /\ ReadsFrom(r, CellOf(r, c), left, right, 0, K)
  BY DEF IsCell
<1> HIDE DEF left, right
<1>2. ReadsFrom(r, i, left, right, first, last)
  <2>1. ASSUME NEW k \in first .. last - 1
        PROVE  k \in 0 .. K - 1 /\ [ i EXCEPT !.inner = k ] = [ CellOf(r, c) EXCEPT !.inner = k ]
    <3>1. k \in 0 .. K - 1
      BY <1>1
    <3>2. [ i EXCEPT !.inner = k ] = [ CellOf(r, c) EXCEPT !.inner = k ]
      BY DEF CellOf
    <3>. QED BY <3>1, <3>2
  <2>. QED BY <1>1, <2>1 DEF ReadsFrom
<1>3. Accumulate(r, FirstReads(left, right, first), i, first, last) = FirstReads(left, right, last)
  BY <1>1, <1>2, AccumulateFacts
<1>. QED BY <1>3 DEF Partly, Element, left, right

\* The direct loops read everything in one turn.
LEMMA DirectLoops ==
  ASSUME NEW r \in CpuRequests, Verified(r), r.op.type \in Products
  PROVE  IsProduct(r, reference_matmul(r))
<1> DEFINE contents == reference_matmul(r)
           e == Extents(r)
<1>1. r.out \in Seq(Nat \ {0})
  BY VerifiedIsPositive
<1>2. contents = [ index \in 0 .. Product(r.out) - 1 |-> contents[index] ]
  BY DEF reference_matmul, ForEachElement
<1>3. ASSUME NEW c \in Coordinates(r.out)
      PROVE  contents[Position(r.out, c)] = Partly(r, c, e.inner)
  <2> DEFINE index == Position(r.out, c)
             i == [ batch |-> index \div (e.row * e.column), row |-> (index \div e.column) % e.row,
                    column |-> index % e.column, inner |-> 0 ]
             cell == CellOf(r, c)
  <2>1. index \in 0 .. Product(r.out) - 1
    BY <1>1, PositionIsElement
  <2>2. contents[index] = Element("sum", Accumulate(r, << >>, i, 0, e.inner))
    BY <2>1 DEF reference_matmul, ForEachElement
  <2>3. IsCell(r, c)
    BY ProductMeaning
  <2>4. /\ e.batch \in Nat \ {0} /\ e.row \in Nat \ {0} /\ e.column \in Nat \ {0} /\ e.inner \in Nat \ {0}
        /\ cell.batch \in 0 .. e.batch - 1 /\ cell.row \in 0 .. e.row - 1
        /\ cell.column \in 0 .. e.column - 1
        /\ OutAt(e, cell) = index
        /\ LeftOf(r, c) \in [ 1 .. e.inner -> Nat ] /\ RightOf(r, c) \in [ 1 .. e.inner -> Nat ]
    BY <2>3 DEF IsCell
  <2> HIDE DEF e, index, contents
  <2>6. cell.batch \in Nat
    BY <2>4
  <2> HIDE DEF cell
  <2>7. /\ (index \div (e.row * e.column)) = cell.batch
        /\ ((index \div e.column) % e.row) = cell.row
        /\ (index % e.column) = cell.column
    <3>1. {e.row, e.column} \subseteq Nat \ {0}
      BY <2>4
    <3>2. /\ (OutAt(e, cell) \div (e.row * e.column)) = cell.batch
          /\ ((OutAt(e, cell) \div e.column) % e.row) = cell.row
          /\ (OutAt(e, cell) % e.column) = cell.column
      BY <2>4, <2>6, <3>1, ElementSplits
    <3>. QED BY <2>4, <3>2
  <2>8. cell = [ batch |-> cell.batch, row |-> cell.row, column |-> cell.column, inner |-> 0 ]
    BY DEF cell, CellOf
  <2>9. i = cell
    BY <2>7, <2>8
  <2>10. i = [ CellOf(r, c) EXCEPT !.inner = i.inner ]
    BY <2>8, <2>9 DEF cell
  <2> HIDE DEF i
  <2>11. Partly(r, c, 0).reads = << >>
    BY <2>4, NoReads DEF Partly, Element
  <2>12. 0 \in 0 .. e.inner /\ e.inner \in 0 .. e.inner
    BY <2>4
  <2>13. Element("sum", Accumulate(r, Partly(r, c, 0).reads, i, 0, e.inner)) = Partly(r, c, e.inner)
    BY <2>3, <2>10, <2>12, ReadOn DEF e
  <2>. QED BY <2>2, <2>11, <2>13 DEF index
<1>. QED BY <1>2, <1>3 DEF IsProduct

(***************************************************************************)
(* The tiles.                                                              *)
(***************************************************************************)

\* An element of the tile at origin.
InTile(origin, i) ==
  /\ i.batch = origin.batch
  /\ origin.row <= i.row /\ i.row < origin.row + Tile
  /\ origin.column <= i.column /\ i.column < origin.column + Tile

\* An element whose tile the loops are past.
IsPast(origin, i) ==
  \/ i.batch < origin.batch
  \/ i.batch = origin.batch /\ i.row < origin.row
  \/ i.batch = origin.batch /\ i.row < origin.row + Tile /\ i.column < origin.column

\* How much of the contracting dimension has been read for an element when the
\* loops are at a tile, and its elements have come to inner.
DoneAt(e, origin, i, inner) ==
  IF IsPast(origin, i) THEN e.inner ELSE IF InTile(origin, i) THEN inner ELSE 0

\* The loops are at a tile.
IsOrigin(e, o) ==
  /\ o = [ batch |-> o.batch, row |-> o.row, column |-> o.column, inner |-> o.inner ]
  /\ o.batch \in 0 .. e.batch - 1 /\ o.row \in 0 .. e.row - 1
  /\ o.column \in 0 .. e.column - 1 /\ o.inner \in 0 .. e.inner - 1

\* What is stored while the loops are at a tile.
TilesRead(r, o, contents, inner) ==
  /\ contents = [ index \in 0 .. Product(r.out) - 1 |-> contents[index] ]
  /\ \A c \in Coordinates(r.out) :
       contents[Position(r.out, c)] = Partly(r, c, DoneAt(Extents(r), o, CellOf(r, c), inner))

\* The extents and the element are numbers.
IsElementOf(e, i) ==
  /\ {e.batch, e.row, e.column, e.inner} \subseteq Nat \ {0}
  /\ i.batch \in 0 .. e.batch - 1 /\ i.row \in 0 .. e.row - 1 /\ i.column \in 0 .. e.column - 1

\* The tile after: inner first, and what was read before stays read.
LEMMA NextTileFacts ==
  ASSUME NEW e, NEW o, IsOrigin(e, o), {e.batch, e.row, e.column, e.inner} \subseteq Nat \ {0}
  PROVE  LET n == NextTile(e, o)
             read == Least(o.inner + Tile, e.inner)
         IN  /\ n.batch < e.batch => IsOrigin(e, n)
             /\ n.batch < e.batch =>
                  \A i : IsElementOf(e, i) => DoneAt(e, n, i, n.inner) = DoneAt(e, o, i, read)
             /\ ~(n.batch < e.batch) =>
                  \A i : IsElementOf(e, i) => DoneAt(e, o, i, read) = e.inner
<1> DEFINE n == NextTile(e, o)
           read == Least(o.inner + Tile, e.inner)
<1>1. Tile \in Nat \ {0}
  BY TileAssumption
<1>2. /\ o.batch \in Nat /\ o.row \in Nat /\ o.column \in Nat /\ o.inner \in Nat
      /\ o.batch < e.batch /\ o.row < e.row /\ o.column < e.column /\ o.inner < e.inner
      /\ e.batch \in Nat /\ e.row \in Nat /\ e.column \in Nat /\ e.inner \in Nat
  BY DEF IsOrigin
<1>3. CASE o.inner + Tile < e.inner
  <2>1. n = [ batch |-> o.batch, row |-> o.row, column |-> o.column, inner |-> o.inner + Tile ]
    BY <1>3 DEF NextTile, IsOrigin
  <2>2. read = o.inner + Tile
    BY <1>3 DEF Least
  <2> HIDE DEF n, read
  <2>3. IsOrigin(e, n) /\ n.batch < e.batch
    BY <1>1, <1>2, <1>3, <2>1 DEF IsOrigin
  <2>4. \A i : DoneAt(e, n, i, n.inner) = DoneAt(e, o, i, read)
    BY <2>1, <2>2 DEF DoneAt, IsPast, InTile
  <2>. QED BY <2>3, <2>4 DEF n, read
<1>4. CASE ~(o.inner + Tile < e.inner) /\ o.column + Tile < e.column
  <2>1. n = [ batch |-> o.batch, row |-> o.row, column |-> o.column + Tile, inner |-> 0 ]
    BY <1>4 DEF NextTile, IsOrigin
  <2>2. read = e.inner
    BY <1>1, <1>2, <1>4 DEF Least
  <2> HIDE DEF n, read
  <2>3. IsOrigin(e, n) /\ n.batch < e.batch
    BY <1>1, <1>2, <1>4, <2>1 DEF IsOrigin
  <2>4. ASSUME NEW i, IsElementOf(e, i)
        PROVE  DoneAt(e, n, i, n.inner) = DoneAt(e, o, i, read)
    <3>1. i.batch \in Nat /\ i.row \in Nat /\ i.column \in Nat
      BY <1>2, <2>4 DEF IsElementOf
    <3>2. IsPast(n, i) <=> IsPast(o, i) \/ InTile(o, i)
      BY <1>1, <1>2, <2>1, <3>1 DEF IsPast, InTile
    <3>. QED BY <2>1, <2>2, <3>2 DEF DoneAt
  <2>. QED BY <2>3, <2>4 DEF n, read
<1>5. CASE /\ ~(o.inner + Tile < e.inner) /\ ~(o.column + Tile < e.column)
           /\ o.row + Tile < e.row
  <2>1. n = [ batch |-> o.batch, row |-> o.row + Tile, column |-> 0, inner |-> 0 ]
    BY <1>5 DEF NextTile, IsOrigin
  <2>2. read = e.inner
    BY <1>1, <1>2, <1>5 DEF Least
  <2> HIDE DEF n, read
  <2>3. IsOrigin(e, n) /\ n.batch < e.batch
    BY <1>1, <1>2, <1>5, <2>1 DEF IsOrigin
  <2>4. ASSUME NEW i, IsElementOf(e, i)
        PROVE  DoneAt(e, n, i, n.inner) = DoneAt(e, o, i, read)
    <3>1. i.batch \in Nat /\ i.row \in Nat /\ i.column \in Nat /\ i.column < e.column
      BY <1>2, <2>4 DEF IsElementOf
    <3>2. IsPast(n, i) <=> IsPast(o, i) \/ InTile(o, i)
      BY <1>1, <1>2, <1>5, <2>1, <3>1 DEF IsPast, InTile
    <3>. QED BY <2>1, <2>2, <3>2 DEF DoneAt
  <2>. QED BY <2>3, <2>4 DEF n, read
<1>6. CASE /\ ~(o.inner + Tile < e.inner) /\ ~(o.column + Tile < e.column)
           /\ ~(o.row + Tile < e.row)
  <2>1. n = [ batch |-> o.batch + 1, row |-> 0, column |-> 0, inner |-> 0 ]
    BY <1>6 DEF NextTile, FirstTile
  <2>2. read = e.inner
    BY <1>1, <1>2, <1>6 DEF Least
  <2> HIDE DEF n, read
  <2>3. n.batch < e.batch => IsOrigin(e, n)
    BY <1>1, <1>2, <2>1 DEF IsOrigin
  <2>4. ASSUME NEW i, IsElementOf(e, i)
        PROVE  /\ DoneAt(e, n, i, n.inner) = DoneAt(e, o, i, read)
               /\ ~(n.batch < e.batch) => DoneAt(e, o, i, read) = e.inner
    <3>1. /\ i.batch \in Nat /\ i.row \in Nat /\ i.column \in Nat
          /\ i.column < e.column /\ i.row < e.row /\ i.batch < e.batch
      BY <1>2, <2>4 DEF IsElementOf
    <3>2. IsPast(n, i) <=> IsPast(o, i) \/ InTile(o, i)
      BY <1>1, <1>2, <1>6, <2>1, <3>1 DEF IsPast, InTile
    <3>3. ~(n.batch < e.batch) => IsPast(n, i)
      BY <1>2, <2>1, <3>1 DEF IsPast
    <3>. QED BY <2>1, <2>2, <3>2, <3>3 DEF DoneAt
  <2>. QED BY <2>3, <2>4 DEF n, read
<1>. QED BY <1>3, <1>4, <1>5, <1>6

\* Nothing is past the first tile, nor read in it.
LEMMA FirstTileFacts ==
  ASSUME NEW e, {e.batch, e.row, e.column, e.inner} \subseteq Nat \ {0}
  PROVE  /\ IsOrigin(e, FirstTile)
         /\ \A i : IsElementOf(e, i) => DoneAt(e, FirstTile, i, FirstTile.inner) = 0
<1>1. Tile \in Nat \ {0}
  BY TileAssumption
<1>2. IsOrigin(e, FirstTile)
  BY DEF IsOrigin, FirstTile
<1>3. ASSUME NEW i, IsElementOf(e, i)
      PROVE  DoneAt(e, FirstTile, i, FirstTile.inner) = 0
  <2>1. i.batch \in Nat /\ i.row \in Nat /\ i.column \in Nat
    BY <1>3 DEF IsElementOf
  <2>2. ~IsPast(FirstTile, i)
    BY <1>1, <2>1 DEF IsPast, FirstTile
  <2>. QED BY <2>2 DEF DoneAt, FirstTile
<1>. QED BY <1>2, <1>3

\* A shape without an empty dimension has a position.
LEMMA HasElement ==
  ASSUME NEW s \in Seq(Nat \ {0})
  PROVE  \E c \in Coordinates(s) : TRUE
<1> DEFINE c == [ k \in 1 .. Len(s) |-> 0 ]
<1>1. s \in [ 1 .. Len(s) -> Nat \ {0} ] /\ s \in Seq(Nat)
  BY LenProperties
<1>2. c \in [ 1 .. Len(s) -> Nat ] /\ \A k \in 1 .. Len(s) : c[k] \in 0 .. s[k] - 1
  BY <1>1
<1>3. c \in Coordinates(s)
  BY <1>1, <1>2, CoordinateFacts
<1>. QED BY <1>3

\* The elements that one turn of the tile loops reads for.
CellsOf(e, o) ==
  { [ o EXCEPT !.row = row, !.column = column ] :
      row \in o.row .. Least(o.row + Tile, e.row) - 1,
      column \in o.column .. Least(o.column + Tile, e.column) - 1 }

\* They are those of the tile.
LEMMA CellsOfTile ==
  ASSUME NEW e, NEW o, IsOrigin(e, o), {e.batch, e.row, e.column, e.inner} \subseteq Nat \ {0}
  PROVE  /\ \A i \in CellsOf(e, o) : /\ IsElementOf(e, i) /\ InTile(o, i)
                                     /\ i = [ o EXCEPT !.row = i.row, !.column = i.column ]
         /\ \A i : IsElementOf(e, i) /\ InTile(o, i) =>
              [ o EXCEPT !.row = i.row, !.column = i.column ] \in CellsOf(e, o)
<1> DEFINE TileRows == o.row .. Least(o.row + Tile, e.row) - 1
           TileColumns == o.column .. Least(o.column + Tile, e.column) - 1
           There(row, column) == [ o EXCEPT !.row = row, !.column = column ]
<1>1. CellsOf(e, o) = { There(row, column) : row \in TileRows, column \in TileColumns }
  BY DEF CellsOf
<1>2. Tile \in Nat \ {0}
  BY TileAssumption
<1>3. /\ o = [ batch |-> o.batch, row |-> o.row, column |-> o.column, inner |-> o.inner ]
      /\ o.batch \in 0 .. e.batch - 1 /\ o.row \in 0 .. e.row - 1 /\ o.column \in 0 .. e.column - 1
      /\ o.row \in Nat /\ o.column \in Nat /\ e.row \in Nat /\ e.column \in Nat
  BY DEF IsOrigin
<1>4. ASSUME NEW row \in o.row .. Least(o.row + Tile, e.row) - 1,
             NEW column \in o.column .. Least(o.column + Tile, e.column) - 1,
             NEW i, i = [ o EXCEPT !.row = row, !.column = column ]
      PROVE  /\ IsElementOf(e, i) /\ InTile(o, i)
             /\ i = [ o EXCEPT !.row = i.row, !.column = i.column ]
  <2>1. i = [ batch |-> o.batch, row |-> row, column |-> column, inner |-> o.inner ]
    BY <1>3, <1>4
  <2>2. row \in 0 .. e.row - 1 /\ o.row <= row /\ row < o.row + Tile
    BY <1>2, <1>3 DEF Least
  <2>3. column \in 0 .. e.column - 1 /\ o.column <= column /\ column < o.column + Tile
    BY <1>2, <1>3 DEF Least
  <2>4. IsElementOf(e, i)
    BY <1>3, <2>1, <2>2, <2>3 DEF IsElementOf
  <2>5. InTile(o, i)
    BY <2>1, <2>2, <2>3 DEF InTile
  <2>6. i.row = row /\ i.column = column
    BY <2>1
  <2>. QED BY <1>4, <2>4, <2>5, <2>6
<1>5. ASSUME NEW i, IsElementOf(e, i), InTile(o, i)
      PROVE  [ o EXCEPT !.row = i.row, !.column = i.column ] \in CellsOf(e, o)
  <2>1. i.row \in 0 .. e.row - 1 /\ i.column \in 0 .. e.column - 1
    BY <1>5 DEF IsElementOf
  <2>2. i.row \in o.row .. Least(o.row + Tile, e.row) - 1
    BY <1>2, <1>3, <1>5, <2>1 DEF InTile, Least
  <2>3. i.column \in o.column .. Least(o.column + Tile, e.column) - 1
    BY <1>2, <1>3, <1>5, <2>1 DEF InTile, Least
  <2>4. PICK row \in o.row .. Least(o.row + Tile, e.row) - 1,
             column \in o.column .. Least(o.column + Tile, e.column) - 1 :
          row = i.row /\ column = i.column
    BY <2>2, <2>3
  <2>5. There(row, column) \in CellsOf(e, o)
    <3> row \in TileRows /\ column \in TileColumns
      OBVIOUS
    <3> HIDE DEF TileRows, TileColumns, There
    <3>. QED BY <1>1
  <2>. QED BY <2>4, <2>5
<1>6. ASSUME NEW i \in CellsOf(e, o)
      PROVE  /\ IsElementOf(e, i) /\ InTile(o, i)
             /\ i = [ o EXCEPT !.row = i.row, !.column = i.column ]
  <2>1. PICK row \in o.row .. Least(o.row + Tile, e.row) - 1,
             column \in o.column .. Least(o.column + Tile, e.column) - 1 :
          i = [ o EXCEPT !.row = row, !.column = column ]
    <3> HIDE DEF TileRows, TileColumns, There
    <3>1. \E row \in TileRows, column \in TileColumns : i = There(row, column)
      BY <1>1
    <3>. QED BY <3>1 DEF TileRows, TileColumns, There
  <2>. QED BY <1>4, <2>1
<1>. QED BY <1>5, <1>6

\* What a turn writes: the elements of the tile, and no other.
LEMMA TurnFacts ==
  ASSUME NEW r, NEW e, e = Extents(r), NEW o, NEW contents, NEW index \in DOMAIN contents
  PROVE  tiled_matmul(r, o, contents)[index] =
           IF \E i \in CellsOf(e, o) : OutAt(e, i) = index
           THEN LET i == CHOOSE i \in CellsOf(e, o) : OutAt(e, i) = index
                IN  Element("sum", Accumulate(r, contents[index].reads, i, o.inner,
                                              Least(o.inner + Tile, e.inner) - 1 + 1))
           ELSE contents[index]
BY DEF tiled_matmul, CellsOf

\* Every element of the tile has read the inner range of the tile.
LEMMA TileIsRead ==
  ASSUME NEW r \in CpuRequests, Verified(r), r.op.type \in Products,
         NEW e, e = Extents(r), NEW o, IsOrigin(e, o), NEW contents, TilesRead(r, o, contents, o.inner)
  PROVE  TilesRead(r, o, tiled_matmul(r, o, contents), Least(o.inner + Tile, e.inner))
<1> DEFINE after == tiled_matmul(r, o, contents)
           last == Least(o.inner + Tile, e.inner)
<1>1. r.out \in Seq(Nat \ {0})
  BY VerifiedIsPositive
<1>2. /\ contents = [ index \in 0 .. Product(r.out) - 1 |-> contents[index] ]
      /\ DOMAIN contents = 0 .. Product(r.out) - 1
  BY DEF TilesRead
<1>3. after = [ index \in 0 .. Product(r.out) - 1 |-> after[index] ]
  BY <1>2 DEF tiled_matmul
<1>4. ASSUME NEW c \in Coordinates(r.out)
      PROVE  after[Position(r.out, c)] = Partly(r, c, DoneAt(e, o, CellOf(r, c), last))
  <2> DEFINE index == Position(r.out, c)
             cell == CellOf(r, c)
  <2>1. index \in DOMAIN contents
    BY <1>1, <1>2, PositionIsElement
  <2>2. contents[index] = Partly(r, c, DoneAt(e, o, cell, o.inner))
    BY DEF TilesRead
  <2>3. IsCell(r, c)
    BY ProductMeaning
  <2>4. IsElementOf(e, cell) /\ OutAt(e, cell) = index
    BY <2>3 DEF IsCell, IsElementOf
  <2>5. {e.batch, e.row, e.column, e.inner} \subseteq Nat \ {0}
    BY <2>4 DEF IsElementOf
  <2> HIDE DEF index, after, last
  <2>6. after[index] =
          IF \E i \in CellsOf(e, o) : OutAt(e, i) = index
          THEN LET i == CHOOSE i \in CellsOf(e, o) : OutAt(e, i) = index
               IN  Element("sum", Accumulate(r, contents[index].reads, i, o.inner, last - 1 + 1))
          ELSE contents[index]
    BY <2>1, TurnFacts DEF after, last
  <2>7. ASSUME NEW i \in CellsOf(e, o), OutAt(e, i) = index
        PROVE  InTile(o, cell) /\ i = [ o EXCEPT !.row = cell.row, !.column = cell.column ]
    <3>1. /\ IsElementOf(e, i) /\ InTile(o, i)
          /\ i = [ o EXCEPT !.row = i.row, !.column = i.column ]
      BY <2>5, CellsOfTile
    <3> HIDE DEF cell
    <3>2. /\ {e.row, e.column} \subseteq Nat \ {0} /\ i.batch \in Nat /\ cell.batch \in Nat
          /\ i.row \in 0 .. e.row - 1 /\ i.column \in 0 .. e.column - 1
          /\ cell.row \in 0 .. e.row - 1 /\ cell.column \in 0 .. e.column - 1
      BY <2>4, <2>5, <3>1 DEF IsElementOf
    <3>3. OutAt(e, i) = OutAt(e, cell)
      BY <2>4, <2>7
    <3>4. i.batch = cell.batch /\ i.row = cell.row /\ i.column = cell.column
      BY <3>2, <3>3, ElementsAreApart
    <3>. QED BY <3>1, <3>4 DEF InTile
  <2>8. CASE InTile(o, cell)
    <3> DEFINE i == [ o EXCEPT !.row = cell.row, !.column = cell.column ]
    <3>1. i \in CellsOf(e, o)
      BY <2>4, <2>5, <2>8, CellsOfTile
    <3>2. OutAt(e, i) = index
      <4>1. i.batch = cell.batch /\ i.row = cell.row /\ i.column = cell.column
        BY <2>8 DEF IsOrigin, InTile
      <4>. QED BY <2>4, <4>1 DEF OutAt
    <3>3. (CHOOSE j \in CellsOf(e, o) : OutAt(e, j) = index) = i
      <4> HIDE DEF i, cell
      <4>1. \A j \in CellsOf(e, o) : OutAt(e, j) = index => j = i
        BY <2>7 DEF i
      <4>. QED BY <3>1, <3>2, <4>1
    <3>4. i = [ cell EXCEPT !.inner = i.inner ]
      <4>1. cell = [ batch |-> cell.batch, row |-> cell.row, column |-> cell.column, inner |-> 0 ]
        BY DEF CellOf
      <4> HIDE DEF cell
      <4>. QED BY <2>8, <4>1 DEF IsOrigin, InTile
    <3>5. /\ DoneAt(e, o, cell, o.inner) = o.inner
          /\ DoneAt(e, o, cell, last) = last
      <4>1. ~IsPast(o, cell)
        <5>1. o.row \in Nat /\ o.column \in Nat /\ o.batch \in Nat /\ Tile \in Nat
          BY TileAssumption DEF IsOrigin
        <5>2. cell.batch = o.batch /\ cell.row \in Nat /\ cell.column \in Nat
          BY <2>4, <2>5, <2>8 DEF IsElementOf, InTile
        <5> HIDE DEF cell
        <5>. QED BY <2>8, <5>1, <5>2 DEF IsPast, InTile
      <4>. QED BY <2>8, <4>1 DEF DoneAt
    <3>6. o.inner \in 0 .. last /\ last \in 0 .. e.inner /\ last - 1 + 1 = last
      <4>1. o.inner \in Nat /\ o.inner < e.inner /\ Tile \in Nat \ {0} /\ e.inner \in Nat
        BY <2>5, TileAssumption DEF IsOrigin
      <4>2. last \in Nat /\ last <= e.inner /\ o.inner <= last
        BY <4>1 DEF last, Least
      <4>. QED BY <4>1, <4>2
    <3> HIDE DEF i
    <3>7. after[index] = Element("sum", Accumulate(r, contents[index].reads, i, o.inner, last - 1 + 1))
      BY <2>6, <3>1, <3>2, <3>3
    <3>8. contents[index] = Partly(r, c, o.inner)
      BY <2>2, <3>5
    <3>9. Element("sum", Accumulate(r, Partly(r, c, o.inner).reads, i, o.inner, last)) = Partly(r, c, last)
      <4>1. i = [ CellOf(r, c) EXCEPT !.inner = i.inner ]
        BY <3>4
      <4>. QED BY <2>3, <3>6, <4>1, ReadOn
    <3>. QED BY <3>5, <3>6, <3>7, <3>8, <3>9 DEF index
  <2>9. CASE ~InTile(o, cell)
    <3>1. ~\E i \in CellsOf(e, o) : OutAt(e, i) = index
      BY <2>7, <2>9
    <3>2. after[index] = contents[index]
      BY <2>6, <3>1
    <3>3. DoneAt(e, o, cell, last) = DoneAt(e, o, cell, o.inner)
      BY <2>9 DEF DoneAt
    <3>. QED BY <2>2, <3>2, <3>3 DEF index
  <2>. QED BY <2>8, <2>9
<1>. QED BY <1>3, <1>4 DEF TilesRead

\* A turn comes to the next tile, or ends the product.
LEMMA TurnIsRight ==
  ASSUME NEW r \in CpuRequests, Verified(r), r.op.type \in Products,
         NEW e, e = Extents(r), NEW o, IsOrigin(e, o), NEW contents, TilesRead(r, o, contents, o.inner)
  PROVE  LET n == NextTile(e, o)
             after == tiled_matmul(r, o, contents)
         IN  /\ n.batch < e.batch => IsOrigin(e, n) /\ TilesRead(r, n, after, n.inner)
             /\ ~(n.batch < e.batch) => IsProduct(r, after)
<1> DEFINE n == NextTile(e, o)
           after == tiled_matmul(r, o, contents)
           last == Least(o.inner + Tile, e.inner)
<1>1. TilesRead(r, o, after, last)
  BY TileIsRead
<1> HIDE DEF after
<1>2. /\ after = [ index \in 0 .. Product(r.out) - 1 |-> after[index] ]
      /\ \A c \in Coordinates(r.out) :
           after[Position(r.out, c)] = Partly(r, c, DoneAt(e, o, CellOf(r, c), last))
  BY <1>1 DEF TilesRead
<1>3. ASSUME NEW c \in Coordinates(r.out)
      PROVE  IsElementOf(e, CellOf(r, c))
  BY ProductMeaning DEF IsCell, IsElementOf
<1>4. {e.batch, e.row, e.column, e.inner} \subseteq Nat \ {0}
  <2>1. r.out \in Seq(Nat \ {0})
    BY VerifiedIsPositive
  <2>2. PICK c \in Coordinates(r.out) : TRUE
    BY <2>1, HasElement
  <2>. QED BY <1>3, <2>2 DEF IsElementOf
<1>5. /\ n.batch < e.batch => IsOrigin(e, n)
      /\ n.batch < e.batch =>
           \A i : IsElementOf(e, i) => DoneAt(e, n, i, n.inner) = DoneAt(e, o, i, last)
      /\ ~(n.batch < e.batch) => \A i : IsElementOf(e, i) => DoneAt(e, o, i, last) = e.inner
  BY <1>4, NextTileFacts
<1> HIDE DEF n, last
<1>6. ASSUME n.batch < e.batch
      PROVE  IsOrigin(e, n) /\ TilesRead(r, n, after, n.inner)
  BY <1>2, <1>3, <1>5, <1>6 DEF TilesRead
<1>7. ASSUME ~(n.batch < e.batch)
      PROVE  IsProduct(r, after)
  BY <1>2, <1>3, <1>5, <1>7 DEF IsProduct
<1>. QED BY <1>6, <1>7 DEF n, after

(***************************************************************************)
(* What a call to the CPU backend has computed.                            *)
(***************************************************************************)

\* The result of a product has a column.
LEMMA ProductHasColumns ==
  ASSUME NEW r \in CpuRequests, Verified(r), r.op.type \in Products
  PROVE  r.out \in Seq(Nat \ {0}) /\ Len(r.out) # 0
<1>1. CASE r.op.type = "mat_mul"
  BY <1>1, MatMulShapes
<1>2. CASE r.op.type = "linear"
  BY <1>2, LinearShapes
<1>. QED BY <1>1, <1>2 DEF Products

\* A finished product without a bias is what the operation means.
LEMMA ProductIsMeant ==
  ASSUME NEW r \in CpuRequests, Verified(r), r.op.type \in Products, Len(r.in) = 2,
         NEW contents, IsProduct(r, contents)
  PROVE  IsMeaning(contents, r.op, r.in, r.out)
<1>1. r.out \in Seq(Nat \ {0})
  BY ProductHasColumns
<1>2. DOMAIN contents = 0 .. Product(r.out) - 1
  BY DEF IsProduct
<1>3. ASSUME NEW c \in Coordinates(r.out)
      PROVE  contents[Position(r.out, c)] = Meaning(r.op, r.in, r.out, c)
  <2>1. Meaning(r.op, r.in, r.out, c) = Partly(r, c, Extents(r).inner)
    <3>1. LET reads == FirstReads(LeftOf(r, c), RightOf(r, c), Extents(r).inner)
          IN  Meaning(r.op, r.in, r.out, c) =
                IF Len(r.in) = 3 THEN Element("gelu", reads \o << << 3, LastOf(c) >> >>)
                ELSE Element("sum", reads)
      BY ProductMeaning
    <3>2. ~(Len(r.in) = 3)
      OBVIOUS
    <3>. QED BY <3>1, <3>2 DEF Partly
  <2>. QED BY <2>1 DEF IsProduct
<1>. QED BY <1>1, <1>2, <1>3, MeantEverywhere

\* With one, it is once the bias and GELU have been applied in place.
LEMMA FusedIsMeant ==
  ASSUME NEW r \in CpuRequests, Verified(r), r.op.type \in Products, Len(r.in) = 3,
         NEW contents, IsProduct(r, contents)
  PROVE  IsMeaning(apply_fused_bias_gelu(r, contents), r.op, r.in, r.out)
<1> DEFINE fused == apply_fused_bias_gelu(r, contents)
<1>1. r.out \in Seq(Nat \ {0}) /\ Len(r.out) # 0
  BY ProductHasColumns
<1>2. DOMAIN contents = 0 .. Product(r.out) - 1
  BY DEF IsProduct
<1>3. DOMAIN fused = 0 .. Product(r.out) - 1
  BY <1>2 DEF apply_fused_bias_gelu
<1>4. ASSUME NEW c \in Coordinates(r.out)
      PROVE  fused[Position(r.out, c)] = Meaning(r.op, r.in, r.out, c)
  <2> DEFINE index == Position(r.out, c)
             reads == FirstReads(LeftOf(r, c), RightOf(r, c), Extents(r).inner)
  <2>1. index \in DOMAIN contents
    BY <1>1, <1>2, PositionIsElement
  <2>2. fused[index] = Element("gelu", contents[index].reads \o << << 3, index % LastOf(r.out) >> >>)
    BY <2>1 DEF apply_fused_bias_gelu
  <2>3. (index % LastOf(r.out)) = LastOf(c)
    BY <1>1, LastAxis
  <2>4. contents[index].reads = reads
    <3>1. contents[index] = Partly(r, c, Extents(r).inner)
      BY DEF IsProduct
    <3>. QED BY <3>1 DEF Partly, Element
  <2>5. Meaning(r.op, r.in, r.out, c) = Element("gelu", reads \o << << 3, LastOf(c) >> >>)
    BY ProductMeaning
  <2> HIDE DEF index, reads, fused
  <2>. QED BY <2>2, <2>3, <2>4, <2>5 DEF index
<1>. QED BY <1>1, <1>3, <1>4, MeantEverywhere

\* Every other kernel computes what its operation means.
LEMMA KernelIsMeant ==
  ASSUME NEW r \in CpuRequests, Verified(r), r.op.type \notin Products
  PROVE  IsMeaning(Kernel(r), r.op, r.in, r.out)
<1>1. CASE r.op.type \in ElementwiseTypes
  <2>1. Kernel(r) = elementwise_binary(r)
    BY <1>1 DEF Kernel, ElementwiseTypes, Products
  <2>. QED BY <1>1, <2>1, ElementwiseIsMeant
<1>2. CASE r.op.type = "rms_norm"
  <2>1. Kernel(r) = rms_norm(r)
    BY <1>2 DEF Kernel, ElementwiseTypes, Products
  <2>. QED BY <1>2, <2>1, RMSNormIsMeant
<1>3. CASE r.op.type = "gelu"
  <2>1. Kernel(r) = gelu(r)
    BY <1>3 DEF Kernel, ElementwiseTypes, Products
  <2>. QED BY <1>3, <2>1, CopiesAreMeant
<1>4. CASE r.op.type = "softmax"
  <2>1. Kernel(r) = softmax(r)
    BY <1>4 DEF Kernel, ElementwiseTypes, Products
  <2>. QED BY <1>4, <2>1, SoftmaxIsMeant
<1>5. CASE r.op.type = "reshape"
  <2>1. Kernel(r) = reshape(r)
    BY <1>5 DEF Kernel, ElementwiseTypes, Products
  <2>. QED BY <1>5, <2>1, CopiesAreMeant
<1>6. CASE r.op.type = "transpose"
  <2>1. Kernel(r) = transpose(r)
    BY <1>6 DEF Kernel, ElementwiseTypes, Products
  <2>. QED BY <1>6, <2>1, TransposeIsMeant
<1>7. CASE r.op.type = "causal_mask"
  <2>1. Kernel(r) = causal_mask(r)
    BY <1>7 DEF Kernel, ElementwiseTypes, Products
  <2>. QED BY <1>7, <2>1, CausalMaskIsMeant
<1>8. r.op.type \in OperationTypes /\ r.op.type \notin Declarations
  BY CpuRequestsAssumption DEF Verified
<1>. QED BY <1>1, <1>2, <1>3, <1>4, <1>5, <1>6, <1>7, <1>8
     DEF OperationTypes, Declarations, ElementwiseTypes, Products

\* What is stored, of a verified request: while the loops are at a tile, what the
\* tiles before have read, and the elements of this one up to its inner index; then
\* the product; at last what the operation means.
MeantInv ==
  LET r == cpu.request
  IN  Verified(r) =>
        /\ cpu.status = "tiling" =>
             IsOrigin(Extents(r), at) /\ TilesRead(r, at, product, at.inner)
        /\ cpu.status = "multiplied" => IsProduct(r, product)
        /\ cpu.status = "ok" => IsMeaning(product, r.op, r.in, r.out)

\* Before the first tile nothing has been read.
LEMMA ClearedFacts ==
  ASSUME NEW r \in CpuRequests, Verified(r), r.op.type \in Products
  PROVE  /\ IsOrigin(Extents(r), FirstTile)
         /\ TilesRead(r, FirstTile, Cleared(r), FirstTile.inner)
<1> DEFINE e == Extents(r)
           cleared == Cleared(r)
<1>1. r.out \in Seq(Nat \ {0})
  BY ProductHasColumns
<1>2. ASSUME NEW c \in Coordinates(r.out)
      PROVE  /\ IsElementOf(e, CellOf(r, c))
             /\ FirstReads(LeftOf(r, c), RightOf(r, c), 0) = << >>
  <2>1. IsCell(r, c)
    BY ProductMeaning
  <2>2. IsElementOf(e, CellOf(r, c))
    BY <2>1 DEF IsCell, IsElementOf
  <2>3. e.inner \in Nat /\ LeftOf(r, c) \in [ 1 .. e.inner -> Nat ]
        /\ RightOf(r, c) \in [ 1 .. e.inner -> Nat ]
    BY <2>1 DEF IsCell
  <2> HIDE DEF e
  <2>. QED BY <2>2, <2>3, NoReads
<1>3. {e.batch, e.row, e.column, e.inner} \subseteq Nat \ {0}
  <2>1. PICK c \in Coordinates(r.out) : TRUE
    BY <1>1, HasElement
  <2>. QED BY <1>2, <2>1 DEF IsElementOf
<1> HIDE DEF e
<1>4. /\ IsOrigin(e, FirstTile)
      /\ \A i : IsElementOf(e, i) => DoneAt(e, FirstTile, i, FirstTile.inner) = 0
  BY <1>3, FirstTileFacts
<1>5. cleared = [ index \in 0 .. Product(r.out) - 1 |-> cleared[index] ]
  BY DEF Cleared, ForEachElement
<1>6. ASSUME NEW c \in Coordinates(r.out)
      PROVE  cleared[Position(r.out, c)]
               = Partly(r, c, DoneAt(e, FirstTile, CellOf(r, c), FirstTile.inner))
  <2>1. Position(r.out, c) \in 0 .. Product(r.out) - 1
    BY <1>1, PositionIsElement
  <2>2. cleared[Position(r.out, c)] = Element("sum", << >>)
    BY <2>1 DEF Cleared, ForEachElement
  <2>3. DoneAt(e, FirstTile, CellOf(r, c), FirstTile.inner) = 0
    BY <1>2, <1>4
  <2> HIDE DEF cleared
  <2>. QED BY <1>2, <2>2, <2>3 DEF Partly
<1> HIDE DEF cleared
<1>. QED BY <1>4, <1>5, <1>6 DEF TilesRead, e, cleared

\* Every step of the CPU backend keeps it.
LEMMA MeantPreserves ==
  ASSUME CpuInv, MeantInv, CpuNext
  PROVE  MeantInv'
<1>1. CASE CpuCall
  <2>1. PICK r \in CpuRequests : cpu' = [ status |-> "called", request |-> r ]
    BY <1>1 DEF CpuCall
  <2>. QED BY <2>1 DEF MeantInv
<1>2. CASE CpuRefuse
  <2>1. cpu.status = "called"
    BY <1>2 DEF CpuRefuse
  <2>2. PICK status \in {"invalid", "unsupported"} : Answer(status)
    BY <1>2 DEF CpuRefuse
  <2>3. cpu' = [ status |-> status, request |-> cpu.request ]
    BY <2>1, <2>2, AnswerFacts
  <2>4. cpu'.status = status
    BY <2>3
  <2>. QED BY <2>4 DEF MeantInv
<1>3. CASE RunKernel
  <2>1. PICK r \in CpuRequests : r = cpu.request /\ cpu.status = "called" /\ product' = Kernel(r)
    BY <1>3 DEF RunKernel, CpuInv
  <2>2. CASE r.op.type \in Products
    <3>1. Answer("multiplied")
      BY <1>3, <2>1, <2>2 DEF RunKernel
    <3>2. cpu' = [ status |-> "multiplied", request |-> r ]
      BY <2>1, <3>1, AnswerFacts
    <3>3. product' = reference_matmul(r)
      BY <2>1, <2>2 DEF Kernel, Products, ElementwiseTypes
    <3>4. Verified(r) => IsProduct(r, reference_matmul(r))
      BY <2>2, DirectLoops
    <3>5. cpu'.status = "multiplied" /\ cpu'.request = r
      BY <3>2
    <3>. QED BY <3>3, <3>4, <3>5 DEF MeantInv
  <2>3. CASE r.op.type \notin Products
    <3>1. Answer("ok")
      BY <1>3, <2>1, <2>3 DEF RunKernel
    <3>2. cpu' = [ status |-> "ok", request |-> r ]
      BY <2>1, <3>1, AnswerFacts
    <3>3. Verified(r) => IsMeaning(Kernel(r), r.op, r.in, r.out)
      BY <2>3, KernelIsMeant
    <3>4. cpu'.status = "ok" /\ cpu'.request = r
      BY <3>2
    <3>. QED BY <2>1, <3>3, <3>4 DEF MeantInv
  <2>. QED BY <2>2, <2>3
<1>4. CASE StartTiles
  <2>1. PICK r \in CpuRequests : /\ r = cpu.request /\ cpu.status = "called" /\ r.op.type \in Products
                                 /\ product' = Cleared(r) /\ at' = FirstTile /\ Answer("tiling")
    BY <1>4 DEF StartTiles, CpuInv, Tiled
  <2>2. cpu' = [ status |-> "tiling", request |-> r ]
    BY <2>1, AnswerFacts
  <2>3. Verified(r) => /\ IsOrigin(Extents(r), FirstTile)
                       /\ TilesRead(r, FirstTile, Cleared(r), FirstTile.inner)
    BY <2>1, ClearedFacts
  <2>4. cpu'.status = "tiling" /\ cpu'.request = r
    BY <2>2
  <2>. QED BY <2>1, <2>3, <2>4 DEF MeantInv
<1>5. CASE RunTile
  <2>1. PICK e : e = Extents(cpu.request)
    OBVIOUS
  <2>2. PICK r \in CpuRequests :
          /\ r = cpu.request /\ cpu.status = "tiling" /\ r.op.type \in Products /\ e = Extents(r)
          /\ product' = tiled_matmul(r, at, product) /\ at' = NextTile(e, at)
          /\ IF at'.batch < e.batch THEN UNCHANGED cpu ELSE Answer("multiplied")
    BY <1>5, <2>1 DEF RunTile, CpuInv
  <2>3. PICK o, contents : o = at /\ contents = product
    OBVIOUS
  <2>4. Verified(r) => IsOrigin(e, o) /\ TilesRead(r, o, contents, o.inner)
    BY <2>2, <2>3 DEF MeantInv
  <2>5. Verified(r) =>
          LET n == NextTile(e, o)
              after == tiled_matmul(r, o, contents)
          IN  /\ n.batch < e.batch => IsOrigin(e, n) /\ TilesRead(r, n, after, n.inner)
              /\ ~(n.batch < e.batch) => IsProduct(r, after)
    BY <2>2, <2>4, TurnIsRight
  <2>6. at' = NextTile(e, o) /\ product' = tiled_matmul(r, o, contents)
    BY <2>2, <2>3
  <2>7. CASE at'.batch < e.batch
    <3>1. cpu'.status = "tiling" /\ cpu'.request = r
      BY <2>2, <2>7
    <3>. QED BY <2>2, <2>5, <2>6, <2>7, <3>1 DEF MeantInv
  <2>8. CASE ~(at'.batch < e.batch)
    <3>1. cpu' = [ status |-> "multiplied", request |-> r ]
      BY <2>2, <2>8, AnswerFacts
    <3>2. cpu'.status = "multiplied" /\ cpu'.request = r
      BY <3>1
    <3>. QED BY <2>2, <2>5, <2>6, <2>8, <3>2 DEF MeantInv
  <2>. QED BY <2>7, <2>8
<1>6. CASE FinishProduct
  <2>1. PICK r \in CpuRequests : r = cpu.request /\ cpu.status = "multiplied" /\ r.op.type \in Products
    BY <1>6 DEF FinishProduct, CpuInv
  <2>2. PICK contents : contents = product
    OBVIOUS
  <2>3. Verified(r) => IsProduct(r, contents)
    BY <2>1, <2>2 DEF MeantInv
  <2>4. CASE Len(r.in) = 2 /\ Answer("ok") /\ UNCHANGED product
    <3>1. cpu' = [ status |-> "ok", request |-> r ]
      BY <2>1, <2>4, AnswerFacts
    <3>2. Verified(r) => IsMeaning(contents, r.op, r.in, r.out)
      BY <2>1, <2>3, <2>4, ProductIsMeant
    <3>3. cpu'.status = "ok" /\ cpu'.request = r /\ product' = contents
      BY <2>2, <2>4, <3>1
    <3>. QED BY <3>2, <3>3 DEF MeantInv
  <2>5. CASE Len(r.in) = 3 /\ product' = apply_fused_bias_gelu(r, product) /\ Answer("ok")
    <3>1. cpu' = [ status |-> "ok", request |-> r ]
      BY <2>1, <2>5, AnswerFacts
    <3>2. Verified(r) => IsMeaning(apply_fused_bias_gelu(r, contents), r.op, r.in, r.out)
      BY <2>1, <2>3, <2>5, FusedIsMeant
    <3>3. cpu'.status = "ok" /\ cpu'.request = r /\ product' = apply_fused_bias_gelu(r, contents)
      BY <2>2, <2>5, <3>1
    <3>. QED BY <3>2, <3>3 DEF MeantInv
  <2>6. ASSUME NEW status \in {"invalid", "unsupported"}, Answer(status)
        PROVE  MeantInv'
    <3>1. cpu' = [ status |-> status, request |-> r ]
      BY <2>1, <2>6, AnswerFacts
    <3>2. cpu'.status = status
      BY <3>1
    <3>. QED BY <3>2 DEF MeantInv
  <2>. QED BY <1>6, <2>1, <2>4, <2>5, <2>6 DEF FinishProduct
<1>. QED BY <1>1, <1>2, <1>3, <1>4, <1>5, <1>6 DEF CpuNext

\* The choice of a backend and the CUDA backend leave the CPU backend alone.
LEMMA MeantInvariance ==
  ASSUME CpuInv, MeantInv, [Next]_<< backend, cpuVars, cudaVars >>
  PROVE  MeantInv'
<1>1. CASE UNCHANGED cpuVars
  BY <1>1 DEF MeantInv, cpuVars
<1>2. CASE CpuNext
  BY <1>2, MeantPreserves
<1>. QED BY <1>1, <1>2 DEF Next, Create

\* Whatever the requests, the shapes and the tiles: a verified operation for which
\* the CPU backend returns has computed what it means, each element from the right
\* elements of its operands, and products along the contracting dimension in order.
THEOREM ComputesTheOperationHolds == Spec => []ComputesTheOperation
<1>1. Init => CpuInv /\ MeantInv
  BY DEF Init, CpuInit, CpuInv, MeantInv
<1>2. CpuInv /\ MeantInv /\ [Next]_<< backend, cpuVars, cudaVars >> => (CpuInv /\ MeantInv)'
  BY CpuInvariance, MeantInvariance
<1>3. CpuInv /\ MeantInv => ComputesTheOperation
  BY DEF MeantInv, ComputesTheOperation
<1>. QED BY <1>1, <1>2, <1>3, PTL DEF Spec
=============================================================================
