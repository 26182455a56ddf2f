-------------------------- MODULE SessionContract --------------------------
(***************************************************************************)
(* What a session promises its owner (docs/architecture/cpu_runtime.md): a *)
(* call of execute gives the declared outputs and the requested values     *)
(* exactly as the graph defines them from this call's inputs, or nothing.  *)
(* There is no arena here, no schedule and no lifetime.                    *)
(***************************************************************************)
EXTENDS ForgeGraph

CONSTANT Calls  \* the arguments execute may be given

VARIABLES
  graph,   \* the graph being served
  status,  \* "unloaded", "refused", "ready" or "running"
  call,    \* the arguments of the current or last call
  results  \* what the owner can fetch: the contents of some values

vars == << graph, status, call, results >>

Nothing == [ v \in {} |-> 0 ]

Producer(v) == CHOOSE i \in Operations(graph) : v \in Writes(graph, i)

\* What the graph says is in its values when the call with this tag gives the
\* inputs.
Meaning(tag) ==
  LET meaning[v \in DOMAIN graph.values] ==
        LET i      == Producer(v)
            inputs == graph.ops[i].inputs
        IN  Term(i, [ k \in DOMAIN inputs |-> meaning[inputs[k]] ],
                 IF graph.ops[i].type = "input" THEN tag ELSE 0)
  IN  meaning

\* The call gives everything the graph needs and asks for nothing unknown.
Complete(c) ==
  /\ c.captures \subseteq DOMAIN graph.values
  /\ DOMAIN c.inputs \subseteq graph.inputs
  /\ \A i \in Operations(graph) :
       LET op == graph.ops[i]
       IN  CASE op.type = "input" ->
                  op.outputs[1] \in DOMAIN c.inputs /\ c.inputs[op.outputs[1]] = "right"
             [] op.type = "parameter" ->
                  op.key \in DOMAIN c.parameters /\ c.parameters[op.key] = op.content
             [] op.type = "constant" -> op.content = "scalar"
             [] op.type = "compute" -> TRUE

Init ==
  /\ status = "unloaded"
  /\ results = Nothing

Load ==
  /\ status = "unloaded"
  /\ status' \in {"unloaded", "ready", "refused"}
  /\ UNCHANGED << call, results >>

\* A call starts by giving up the results of the one before.
Begin ==
  /\ status = "ready"
  /\ \E c \in Calls : call' = [ c EXCEPT !.tag = call.tag + 1 ]
  /\ status' \in {"running", "ready"}
  /\ status' = "ready" => ~Complete(call')
  /\ results' = Nothing
  /\ UNCHANGED graph

Succeed ==
  /\ status = "running" /\ status' = "ready"
  /\ Complete(call)
  /\ results' = [ v \in call.captures \cup graph.outputs |-> Meaning(call.tag)[v] ]
  /\ UNCHANGED << graph, call >>

GiveUp ==
  /\ status = "running" /\ status' = "ready"
  /\ UNCHANGED << graph, call, results >>

Next == Load \/ Begin \/ Succeed \/ GiveUp

Spec == Init /\ [][Next]_vars
============================================================================
