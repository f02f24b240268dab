-------------------------- MODULE ConformanceCatalog --------------------------
(***************************************************************************)
(* Published conformance suites: the cases of conformance/model.py and     *)
(* their JSON document, conformance/catalog.py.                            *)
(*                                                                         *)
(* A case is [id, kind, fields].  A JSON value is a record with one field  *)
(* that names its type: [string |-> s], [integer |-> n], [boolean |-> b],  *)
(* [null |-> "null"], [array |-> sequence] or [object |-> function].       *)
(* A byte string is its lowercase hexadecimal form.                        *)
(***************************************************************************)
EXTENDS Integers, Sequences, FiniteSets
LOCAL INSTANCE SequencesExt

CONSTANTS
  Bytes,          \* byte strings in the form that _HEX_PATTERN accepts
  Sha256(_),      \* the digest of a byte string
  ExtensionIds,   \* valid extension IDs, a sequence in their order
  CaseIds         \* strings that _CASE_ID_PATTERN accepts

\* ConformanceCaseKind, and the fields of each kind of case with their types.
Schema ==
  [stage_known_answer |->
     [extension_id |-> "extension", parameters |-> "bytes", logical |-> "bytes",
      encoded |-> "bytes", canonical_encoding |-> "boolean"],
   stage_parameters |->
     [extension_id |-> "extension", parameters |-> "bytes",
      interpretation |-> "interpretation"],
   stage_bind_rejection |->
     [extension_id |-> "extension", parameters |-> "bytes",
      directions |-> "directions"],
   stage_decode_rejection |->
     [extension_id |-> "extension", parameters |-> "bytes", encoded |-> "bytes",
      max_output_size |-> "size"],
   stage_output_limit |->
     [extension_id |-> "extension", direction |-> "direction",
      parameters |-> "bytes", data |-> "bytes", max_output_size |-> "size"],
   stream_metadata |->
     [extension_id |-> "extension", metadata |-> "bytes",
      interpretation |-> "interpretation"],
   stream_metadata_rejection |->
     [extension_id |-> "extension", metadata |-> "bytes",
      require_interpreter_error |-> "boolean"],
   container_structure |->
     [container |-> "bytes", outcome |-> "outcome",
      missing_required_stages |-> "extensions"],
   container_recovery |->
     [container |-> "bytes", required_extensions |-> "extensions",
      streams |-> "streams"]]

Outcomes == {"accept", "invalid_structure", "corrupt", "truncated",
             "unsupported_version"}
Directions == {"encode", "decode"}

Keys == {"id", "kind"}

-----------------------------------------------------------------------------
(* Which values the case classes accept.                                   *)

\* Sorted and unique, as tuple(sorted(set(s))) = s says.
StrictlyAscending(s) == \A i \in 1..(Len(s) - 1) : s[i] < s[i + 1]

Rank(extension_id) ==
  CHOOSE i \in DOMAIN ExtensionIds : ExtensionIds[i] = extension_id

CanonicalIds(ids) ==
  /\ ToSet(ids) \subseteq ToSet(ExtensionIds)
  /\ StrictlyAscending([i \in DOMAIN ids |-> Rank(ids[i])])

\* An interpretation is <<>> for None, or <<[label, fields, error]>>.
ValidInterpretation(i) ==
  i # <<>> =>
    /\ i[1].label # [string |-> ""] /\ i[1].error # [string |-> ""]
    /\ \A k \in DOMAIN i[1].fields : i[1].fields[k].name # ""
    /\ \A k, l \in DOMAIN i[1].fields :
         i[1].fields[k].name = i[1].fields[l].name => k = l

ValidValue(type, value) ==
  CASE type = "extension" -> value \in ToSet(ExtensionIds)
    [] type = "directions" ->
         value \in {<<"encode">>, <<"decode">>, <<"encode", "decode">>}
    [] type = "direction" -> value \in Directions
    [] type = "outcome" -> value \in Outcomes
    [] type = "size" -> value >= 0
    [] type = "extensions" -> CanonicalIds(value)
    [] type = "streams" ->
         /\ value # <<>>
         /\ StrictlyAscending([i \in DOMAIN value |-> value[i].stream_id])
         /\ \A i \in DOMAIN value : value[i].stream_id >= 0
    [] type = "interpretation" -> ValidInterpretation(value)
    [] OTHER -> TRUE

ValidCase(case) ==
  /\ case.id \in CaseIds
  /\ \A f \in DOMAIN case.fields : ValidValue(Schema[case.kind][f], case.fields[f])
  /\ case.kind = "container_structure" /\ case.fields.outcome # "accept" =>
       case.fields.missing_required_stages = <<>>

\* ConformanceSuite
ValidSuite(cases) ==
  /\ \A i \in DOMAIN cases : ValidCase(cases[i])
  /\ \A i, j \in DOMAIN cases : cases[i].id = cases[j].id => i = j

-----------------------------------------------------------------------------
(* write_conformance_suite()                                               *)

StoreBytes(b) ==
  [object |-> [hex |-> [string |-> b], sha256 |-> [string |-> Sha256(b)]]]

DumpInterpretation(i) ==
  IF i = <<>> THEN [null |-> "null"]
  ELSE [object |->
          [label |-> i[1].label, error |-> i[1].error,
           fields |-> [array |-> [k \in DOMAIN i[1].fields |->
             [object |-> [name |-> [string |-> i[1].fields[k].name],
                          value |-> i[1].fields[k].value]]]]]]

DumpStrings(s) == [array |-> [i \in DOMAIN s |-> [string |-> s[i]]]]

DumpValue(type, value) ==
  CASE type = "bytes" -> StoreBytes(value)
    [] type = "boolean" -> [boolean |-> value]
    [] type = "size" -> [integer |-> value]
    [] type = "interpretation" -> DumpInterpretation(value)
    [] type \in {"directions", "extensions"} -> DumpStrings(value)
    [] type = "streams" ->
         [array |-> [i \in DOMAIN value |->
           [object |-> [id |-> [integer |-> value[i].stream_id],
                        logical |-> StoreBytes(value[i].logical)]]]]
    [] OTHER -> [string |-> value]

DumpCase(case) ==
  [object |->
    [f \in Keys \cup DOMAIN case.fields |->
       CASE f = "id" -> [string |-> case.id]
         [] f = "kind" -> [string |-> case.kind]
         [] OTHER -> DumpValue(Schema[case.kind][f], case.fields[f])]]

Dump(cases) ==
  [object |-> [schema_version |-> [integer |-> 2],
               cases |-> [array |-> [i \in DOMAIN cases |-> DumpCase(cases[i])]]]]

-----------------------------------------------------------------------------
(* load_conformance_suite(): which documents are accepted, and as what.    *)

Is(json, type) == type \in DOMAIN json

\* A seeded fault: other keys are ignored.
HasAtLeastKeys(json, keys) == Is(json, "object") /\ keys \subseteq DOMAIN json.object

\* _require_object() and _require_keys()
HasKeys(json, keys) == Is(json, "object") /\ DOMAIN json.object = keys

ReadsBytes(json) ==
  /\ HasKeys(json, {"hex", "sha256"})
  /\ Is(json.object.hex, "string") /\ Is(json.object.sha256, "string")
  /\ json.object.hex.string \in Bytes
  /\ json.object.sha256.string = Sha256(json.object.hex.string)

LoadBytes(json) == json.object.hex.string

IsOptionalString(json) == Is(json, "string") \/ Is(json, "null")

ReadsInterpretation(json) ==
  \/ Is(json, "null")
  \/ /\ HasKeys(json, {"label", "fields", "error"})
     /\ IsOptionalString(json.object.label)
     /\ IsOptionalString(json.object.error)
     /\ Is(json.object.fields, "array")
     /\ \A i \in DOMAIN json.object.fields.array :
          LET field == json.object.fields.array[i] IN
          /\ HasKeys(field, {"name", "value"})
          /\ Is(field.object.name, "string")
          /\ DOMAIN field.object.value \subseteq {"null", "string", "integer", "boolean"}

LoadInterpretation(json) ==
  IF Is(json, "null") THEN <<>>
  ELSE LET fields == json.object.fields.array IN
       <<[label |-> json.object.label, error |-> json.object.error,
          fields |-> [i \in DOMAIN fields |->
            [name |-> fields[i].object.name.string, value |-> fields[i].object.value]]]>>

ReadsValue(type, json) ==
  CASE type = "bytes" -> ReadsBytes(json)
    [] type = "boolean" -> Is(json, "boolean")
    [] type = "size" -> Is(json, "integer")
    [] type = "interpretation" -> ReadsInterpretation(json)
    [] type \in {"directions", "extensions"} ->
         /\ Is(json, "array")
         /\ \A i \in DOMAIN json.array : Is(json.array[i], "string")
    [] type = "streams" ->
         /\ Is(json, "array")
         /\ \A i \in DOMAIN json.array :
              LET stream == json.array[i] IN
              /\ HasKeys(stream, {"id", "logical"})
              /\ Is(stream.object.id, "integer")
              /\ ReadsBytes(stream.object.logical)
    [] OTHER -> Is(json, "string")

LoadValue(type, json) ==
  CASE type = "bytes" -> LoadBytes(json)
    [] type = "boolean" -> json.boolean
    [] type = "size" -> json.integer
    [] type = "interpretation" -> LoadInterpretation(json)
    [] type \in {"directions", "extensions"} ->
         [i \in DOMAIN json.array |-> json.array[i].string]
    [] type = "streams" ->
         [i \in DOMAIN json.array |->
            [stream_id |-> json.array[i].object.id.integer,
             logical |-> LoadBytes(json.array[i].object.logical)]]
    [] OTHER -> json.string

\* _load_case()
ReadsCase(json) ==
  /\ Is(json, "object")
  /\ Keys \subseteq DOMAIN json.object
  /\ Is(json.object.id, "string") /\ Is(json.object.kind, "string")
  /\ json.object.kind.string \in DOMAIN Schema
  /\ LET schema == Schema[json.object.kind.string] IN
     /\ HasKeys(json, Keys \cup DOMAIN schema)
     /\ \A f \in DOMAIN schema : ReadsValue(schema[f], json.object[f])

LoadCase(json) ==
  LET schema == Schema[json.object.kind.string] IN
  [id |-> json.object.id.string, kind |-> json.object.kind.string,
   fields |-> [f \in DOMAIN schema |-> LoadValue(schema[f], json.object[f])]]

LoadCases(json) ==
  [i \in DOMAIN json.object.cases.array |-> LoadCase(json.object.cases.array[i])]

Loads(json) ==
  /\ HasKeys(json, {"schema_version", "cases"})
  /\ json.object.schema_version = [integer |-> 2]
  /\ Is(json.object.cases, "array")
  /\ \A i \in DOMAIN json.object.cases.array : ReadsCase(json.object.cases.array[i])
  /\ ValidSuite(LoadCases(json))
=============================================================================
