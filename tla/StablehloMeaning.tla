-------------------------- MODULE StablehloMeaning --------------------------
(***************************************************************************)
(* What the instructions of a lowered module mean, from the StableHLO      *)
(* specification: which types they take, and which elements of their       *)
(* operands each element of their result depends on. The lowered text is   *)
(* compared with the graph element by element.                             *)
(***************************************************************************)
EXTENDS StablehloLowering, TensorMeaning

\* The instruction of a name.
Definition(code, name) == CHOOSE n \in DOMAIN code : code[n].result = name

\* The axes of an operand of dot_general that are neither batch nor contracting,
\* counted from 1.
FreeAxes(shape, i, side) ==
  SelectSeq([ k \in DOMAIN shape |-> k ],
            LAMBDA k : k > i.attribute.batch /\ k # i.attribute.contracting[side] + 1)

FreeDimensions(shape, i, side) ==
  LET free == FreeAxes(shape, i, side) IN [ k \in DOMAIN free |-> shape[free[k]] ]

\* The constraints of an instruction on its types.
TypesAgree(i) ==
  LET out == i.type.shape
      in  == [ k \in DOMAIN i.types |-> i.types[k].shape ]
      SameDtypes == \A k \in DOMAIN i.types : i.types[k].dtype = i.type.dtype
  IN  CASE i.name \in {"argument", "constant", "return"} -> TRUE
        [] i.name = "reshape" -> SameDtypes /\ Product(in[1]) = Product(out)
        [] i.name = "transpose" ->
             /\ SameDtypes /\ Len(in[1]) = Len(out)
             /\ Elements(i.attribute) = 0 .. Len(out) - 1
             /\ \A k \in DOMAIN out : out[k] = in[1][i.attribute[k] + 1]
        [] i.name = "broadcast_in_dim" ->
             /\ SameDtypes /\ Len(i.attribute) = Len(in[1])
             /\ \A j, k \in DOMAIN in[1] : i.attribute[j] = i.attribute[k] => j = k
             /\ \A k \in DOMAIN in[1] :
                  /\ i.attribute[k] \in 0 .. Len(out) - 1
                  /\ in[1][k] \in {1, out[i.attribute[k] + 1]}
        [] i.name = "reduce" ->
             SameDtypes /\ in[2] = << >> /\ out = WithoutAxis(in[1], i.attribute)
        [] i.name = "dot_general" ->
             LET batch == i.attribute.batch
                 contracting == i.attribute.contracting
             IN  /\ SameDtypes
                 /\ \A k \in 1 .. batch : in[1][k] = in[2][k]
                 /\ \A k \in 1 .. 2 : contracting[k] \in batch .. Len(in[k]) - 1
                 /\ in[1][contracting[1] + 1] = in[2][contracting[2] + 1]
                 /\ out = SubSeq(in[1], 1, batch) \o FreeDimensions(in[1], i, 1)
                            \o FreeDimensions(in[2], i, 2)
        [] OTHER -> \A k \in DOMAIN i.types : i.types[k] = i.type

\* Every name is defined once, before it is used and with the type it is used at.
IsAssignedOnce(code) ==
  \A n \in DOMAIN code :
    /\ \A m \in 1 .. n - 1 : code[m].result # code[n].result
    /\ \A k \in DOMAIN code[n].operands :
         \E m \in 1 .. n - 1 :
           code[m].result = code[n].operands[k] /\ code[m].type = code[n].types[k]

\* The positions of its operands that an instruction reads for position c, each
\* as << operand, position >>.
ReadsAt(i, c) ==
  LET in == [ k \in DOMAIN i.types |-> i.types[k].shape ]
      Line(side, free) ==
        { p \in Coordinates(in[side]) :
            /\ \A k \in 1 .. i.attribute.batch : p[k] = c[k]
            /\ \A k \in DOMAIN FreeAxes(in[side], i, side) :
                 p[FreeAxes(in[side], i, side)[k]] = c[free + k] }
      batch == i.attribute.batch
  IN  CASE i.name = "constant" -> {}
        [] i.name = "reshape" ->
             { << 1, p >> : p \in { p \in Coordinates(in[1]) :
                                      Position(in[1], p) = Position(i.type.shape, c) } }
        [] i.name = "transpose" ->
             { << 1, [ k \in DOMAIN c |->
                         c[CHOOSE j \in DOMAIN c : i.attribute[j] = k - 1] ] >> }
        [] i.name = "broadcast_in_dim" ->
             { << 1, [ k \in DOMAIN in[1] |->
                         IF in[1][k] = 1 THEN 0 ELSE c[i.attribute[k] + 1] ] >> }
        [] i.name = "reduce" ->
             { << 1, p >> : p \in { p \in Coordinates(in[1]) :
                                      WithoutAxis(p, i.attribute) = c } }
        [] i.name = "dot_general" ->
             { << 1, p >> : p \in Line(1, batch) }
               \cup { << 2, p >> : p \in Line(2, batch + Len(FreeAxes(in[1], i, 1))) }
        [] OTHER -> { << k, c >> : k \in DOMAIN i.operands }

\* For every instruction and position, the elements << value, element >> of the
\* graph's values that it depends on, through temporaries and not further.
Dependencies(code) ==
  LET depends[n \in DOMAIN code] ==
        [ c \in Coordinates(code[n].type.shape) |->
            UNION { LET name == code[n].operands[read[1]]
                    IN  IF name[1] = "value"
                        THEN { << name[2], Position(code[n].types[read[1]].shape, read[2]) >> }
                        ELSE depends[Definition(code, name)][read[2]] :
                    read \in ReadsAt(code[n], c) } ]
  IN  depends

\* What the operation that computes the value reads for the element at c.
MeaningReads(g, op, c) ==
  LET in == [ k \in DOMAIN op.inputs |-> ShapeOf(g, op.inputs[k]) ]
  IN  { << op.inputs[read[1]], read[2] >> :
          read \in Elements(Meaning(op, in, ShapeOf(g, op.outputs[1]), c).reads) }

DependsAsMeant(g, code) ==
  LET body == SelectSeq(code, LAMBDA i : i.name \notin {"argument", "return"})
      depends == Dependencies(body)
  IN  \A i \in { i \in Operations(g) : g.ops[i].type \notin {"input", "parameter", "constant"} } :
        LET op == g.ops[i]
            at == Definition(body, Ssa(op.outputs[1]))
        IN  \A c \in Coordinates(ShapeOf(g, op.outputs[1])) :
              depends[at][c] = MeaningReads(g, op, c)

\* A graph that is lowered gives a module in which every name is assigned once,
\* with the types of the graph and of StableHLO, and in which every element of a
\* value depends on exactly the elements that its operation means: reductions and
\* what is broadcast back run along the same axis, also where the dimensions are
\* equal and the types cannot tell.
LoweringKeepsDependencies ==
  lowering.status = "ok" =>
    LET g == lowering.graph
    IN  /\ IsAssignedOnce(text.code)
        /\ \A n \in DOMAIN text.code : TypesAgree(text.code[n])
        /\ \A i \in Operations(g) : \E n \in DOMAIN text.code :
             /\ text.code[n].result = Ssa(g.ops[i].outputs[1])
             /\ text.code[n].type = TypeOf(g, g.ops[i].outputs[1])
        /\ DependsAsMeant(g, text.code)
=============================================================================
