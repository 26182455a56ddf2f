--------------------------- MODULE GraphDocument ---------------------------
(***************************************************************************)
(* Graph files: GraphLoader::load_from_json from the parsed JSON document  *)
(* on, and the writer that puts a graph back (cpp/src/ir/graph_loader.cpp, *)
(* graph_writer.cpp). A file is loaded, written again after its hash was   *)
(* refreshed, and edited by hand.                                          *)
(*                                                                         *)
(* A document is a record of the fields that are there and have the type   *)
(* and the syntax the loader asks for: it treats one that has not like one *)
(* that is missing. Ids are numbers, 0 one that is malformed. The digest   *)
(* of something is the thing itself.                                       *)
(***************************************************************************)
EXTENDS GraphLoader

LOCAL INSTANCE TLC

CONSTANTS
  GraphFiles,  \* the documents that are there to start with
  MaxI64,      \* the largest int64_t
  MaxU64,      \* the largest uint64_t
  MaxEdits     \* bound on the changes to the file

VARIABLES
  file,    \* the document
  loaded,  \* what loading it has given: the status and, if it is "ok", the graph
  edits    \* changes of the file so far

documentVars == << file, loaded, edits >>

HasFields(object, fields) == fields \subseteq DOMAIN object

Kept(object, fields) == [ f \in fields |-> object[f] ]

IsArray(items) == items \in Seq(Elements(items))

\* What the JSON parser and the syntax of ids leave to the loader.
IsParsed(document) ==
  /\ HasFields(document, {"values"}) => IsArray(document.values)
  /\ HasFields(document, {"operations"}) =>
       /\ IsArray(document.operations)
       /\ \A n \in DOMAIN document.operations :
            HasFields(document.operations[n], {"id"}) => document.operations[n].id \in Nat

ASSUME GraphFilesAssumption == \A document \in GraphFiles : IsParsed(document)

Digest(document) ==
  [ of |-> [ f \in DOMAIN document \ {"graph_hash"} |-> document[f] ] ]

----------------------------------------------------------------------------
(* The parts of a document, each with the status it is refused with.       *)

ValueFields == {"id", "semantic_name", "dtype", "kind", "shape"}

OperationFields == {"id", "type", "semantic_name", "inputs", "outputs", "attributes"}

GraphFields ==
  {"graph_schema_version", "producer_version", "model_configuration_hash", "graph_hash",
   "weight_manifest", "inputs", "outputs", "values", "operations"}

ManifestFields == {"reference", "sha256", "weight_archive", "weight_archive_sha256"}

\* Ids are unique in the arrays that ask for it, and never malformed.
IdArray(ids, mayBeEmpty, unique) ==
  /\ mayBeEmpty \/ ids # << >>
  /\ 0 \notin Elements(ids)
  /\ unique => Cardinality(Elements(ids)) = Len(ids)

\* The first item that is refused decides, by what Status says of it.
FirstRefusal(items, Status(_)) ==
  LET refused == { n \in DOMAIN items : Status(n) # "ok" }
  IN  IF refused = {} THEN "ok"
      ELSE Status(CHOOSE n \in refused : \A m \in refused : n <= m)

\* Mutated form of NewId: two items may have one id.
AnyId(items, n) == HasFields(items[n], {"id"}) /\ items[n].id # 0

NewId(items, n) ==
  /\ HasFields(items[n], {"id"}) /\ items[n].id # 0
  /\ \A m \in 1 .. n - 1 : HasFields(items[m], {"id"}) => items[m].id # items[n].id

data_type_byte_width == [ bool |-> 1, float32 |-> 4, int64 |-> 8 ]

element_count(shape) ==
  LET upTo[n \in 0 .. Len(shape)] == IF n = 0 THEN 1 ELSE upTo[n - 1] * shape[n]
  IN  upTo[Len(shape)]

byte_size(value) == element_count(value.shape) * data_type_byte_width[value.dtype]

\* parse_values, of one value.
ValueStatus(values, n) ==
  LET value == values[n]
  IN  IF ~(NewId(values, n) /\ HasFields(value, {"semantic_name", "dtype"})) THEN "invalid"
      ELSE IF value.dtype \notin DOMAIN data_type_byte_width THEN "unsupported"
      ELSE IF ~HasFields(value, {"kind", "shape"}) \/ value.kind \notin ValueKinds THEN "invalid"
      ELSE IF \E k \in DOMAIN value.shape : value.shape[k] > MaxI64 THEN "overflow"
      ELSE IF \E k \in DOMAIN value.shape : value.shape[k] <= 0 THEN "invalid"
      ELSE IF byte_size(value) > MaxU64 THEN "overflow"
      ELSE "ok"

expected_input_count ==
  [ type \in {"input", "parameter", "constant"} |-> {0} ]
    @@ [ type \in {"linear", "mat_mul"} |-> {2, 3} ]
    @@ [ type \in {"add", "multiply", "divide", "rms_norm"} |-> {2} ]
    @@ [ type \in {"gelu", "softmax", "reshape", "transpose", "causal_mask"} |-> {1} ]

Ids(values) == { values[n].id : n \in DOMAIN values }

\* What is left to check of an operation with an id and a type of its own.
OperationIsSound(document, n) ==
  LET op == document.operations[n]
  IN  /\ HasFields(op, OperationFields)
      /\ IdArray(op.inputs, TRUE, FALSE) /\ IdArray(op.outputs, FALSE, TRUE)
      /\ Len(op.inputs) \in expected_input_count[op.type]
      /\ Len(op.outputs) = 1
      /\ Elements(op.inputs) \cup Elements(op.outputs) \subseteq Ids(document.values)
      /\ \A m \in 1 .. n - 1 :
           HasFields(document.operations[m], {"outputs"}) =>
             document.operations[m].outputs # op.outputs
      /\ op.type = "parameter" => "content_sha256" \in DOMAIN op.attributes

\* parse_operations, of one operation.
OperationStatus(document, n) ==
  LET ops == document.operations
  IN  IF ~(NewId(ops, n) /\ HasFields(ops[n], {"type"})) THEN "invalid"
      ELSE IF ops[n].type \notin DOMAIN expected_input_count THEN "unsupported"
      ELSE IF ~OperationIsSound(document, n) THEN "invalid"
      ELSE "ok"

----------------------------------------------------------------------------
(* load_from_json.                                                         *)

HeaderIsSound(document) ==
  /\ HasFields(document, {"producer_version", "model_configuration_hash", "graph_hash",
                          "weight_manifest", "inputs", "outputs"})
  /\ HasFields(document.weight_manifest, ManifestFields)
  /\ document.weight_manifest.weight_archive = "weight_tensors.npz"
  /\ IdArray(document.inputs, FALSE, TRUE) /\ IdArray(document.outputs, FALSE, TRUE)

NonEmpty(document, field) == HasFields(document, {field}) /\ document[field] # << >>

ValueOf(document, id) ==
  LET values == document.values
  IN  values[CHOOSE n \in DOMAIN values : values[n].id = id]

\* The graph of a document whose values and operations have been parsed.
GraphOf(document) ==
  [ ops     |-> document.operations,
    values  |-> [ id \in Ids(document.values) |-> ValueOf(document, id) ],
    inputs  |-> Elements(document.inputs),
    outputs |-> Elements(document.outputs) ]

InterfaceExists(document) ==
  LET Are(ids, kind) ==
        \A id \in Elements(ids) : id \in Ids(document.values)
                                  /\ ValueOf(document, id).kind = kind
  IN  Are(document.inputs, "input") /\ Are(document.outputs, "output")

\* What is found of the graph as a whole, the digest at last.
GraphStatus(document) ==
  LET g == GraphOf(document)
  IN  IF ~ProducersExist(g) \/ ~RolesAgree(g) THEN "invalid"
      ELSE IF Len(LoadOrder(g)) < Len(g.ops) THEN "failed_precondition"
      ELSE IF ~(g.outputs \subseteq Connected(g, LoadOrder(g))) THEN "failed_precondition"
      ELSE IF document.graph_hash # Digest(document) THEN "invalid"
      ELSE "ok"

LoadStatus(document) ==
  LET OfValue(n) == ValueStatus(document.values, n)
      OfOperation(n) == OperationStatus(document, n)
  IN  IF DOMAIN document = {"malformed"} THEN "parse_error"
      ELSE IF ~HasFields(document, {"graph_schema_version"}) THEN "invalid"
      ELSE IF document.graph_schema_version # "1.0" THEN "unsupported"
      ELSE IF ~HeaderIsSound(document) \/ ~NonEmpty(document, "values") THEN "invalid"
      ELSE LET values == FirstRefusal(document.values, OfValue)
           IN  IF values # "ok" THEN values
               ELSE IF ~InterfaceExists(document) \/ ~NonEmpty(document, "operations") THEN "invalid"
               ELSE LET operations == FirstRefusal(document.operations, OfOperation)
                    IN  IF operations # "ok" THEN operations ELSE GraphStatus(document)

KeptItems(items, fields) == [ n \in DOMAIN items |-> Kept(items[n], fields) ]

\* A graph has the fields the loader knows, and its operations in order.
load_from_json(document) ==
  IF LoadStatus(document) # "ok" THEN [ status |-> LoadStatus(document) ]
  ELSE LET order == LoadOrder(GraphOf(document))
           ops == [ n \in DOMAIN order |-> document.operations[order[n]] ]
       IN  [ status |-> "ok",
             graph  |-> [ Kept(document, GraphFields) EXCEPT
                            !["weight_manifest"] = Kept(@, ManifestFields),
                            !["values"] = KeptItems(@, ValueFields),
                            !["operations"] = KeptItems(ops, OperationFields) ] ]

----------------------------------------------------------------------------
(* The writer.                                                             *)

graph_json(g) == Kept(g, GraphFields)

refresh_graph_hash(g) == [ g EXCEPT !["graph_hash"] = Digest(graph_json(g)) ]

----------------------------------------------------------------------------
(* What becomes of a file.                                                 *)

NotLoaded == [ status |-> "none" ]

DocumentInit == file \in GraphFiles /\ loaded = NotLoaded /\ edits = 0

LoadDocument == loaded' = load_from_json(file) /\ UNCHANGED << file, edits >>

Edit(document) ==
  /\ edits < MaxEdits
  /\ file' = document /\ edits' = edits + 1
  /\ loaded' = NotLoaded

\* optimize at O0, or at another level that finds nothing to do.
WriteGraph ==
  /\ loaded.status = "ok"
  /\ Edit(graph_json(refresh_graph_hash(loaded.graph)))

Rehashed(document) ==
  [ f \in DOMAIN document \cup {"graph_hash"} |->
      IF f = "graph_hash" THEN Digest(document) ELSE document[f] ]

Swapped(items, n) ==
  [ items EXCEPT ![n] = items[n + 1], ![n + 1] = items[n] ]

\* Somebody lists two operations the other way round, and makes the digest anew
\* or forgets to.
Relist ==
  /\ HasFields(file, {"operations"})
  /\ \E n \in 1 .. Len(file.operations) - 1 :
       LET relisted == [ file EXCEPT !["operations"] = Swapped(@, n) ]
       IN  Edit(relisted) \/ Edit(Rehashed(relisted))

DocumentNext == LoadDocument \/ WriteGraph \/ Relist

DocumentSpec == DocumentInit /\ [][DocumentNext]_documentVars

----------------------------------------------------------------------------
(* Property.                                                               *)

\* A loaded graph does not depend on how its file was written: with any two
\* operations listed the other way round the file loads as the same operations,
\* and the graph written to a file, without the fields the loader does not know
\* and with a new digest, loads as that graph.
LoadedGraphIsCanonical ==
  loaded.status = "ok" =>
    LET g == refresh_graph_hash(loaded.graph)
    IN  /\ load_from_json(graph_json(g)) = [ status |-> "ok", graph |-> g ]
        /\ \A n \in 1 .. Len(file.operations) - 1 :
             LET relisted == Rehashed([ file EXCEPT !["operations"] = Swapped(@, n) ])
                 other == load_from_json(relisted)
             IN  other.status = "ok" /\ other.graph["operations"] = g["operations"]
=============================================================================
