-------------------------- MODULE MCFormatConformance --------------------------
(* Small manifests and their images, suite documents and plugins, each with  *)
(* every single edit of them.                                                *)
EXTENDS FormatConformance, SequencesExt

MCExtensionIds == <<"x", "y">>

-----------------------------------------------------------------------------
(* Manifests.  Symbols are 0..3; an extension ID starts with 1 or 2.         *)

MCSymbols == 0..3
MCIsExtensionId(id) == id # <<>> /\ id[1] \in {1, 2}
MCIsUrl(url) == url = <<3>>
MCSha256(b) == IF b = "00" THEN "digest of 00" ELSE "digest of ff"

Stage(id, parameters) == [stage |-> id, parameters |-> parameters]
Recipe(id, stages) == [id |-> id, stages |-> stages]
Stream(id, type, metadata) == [id |-> id, type |-> type, metadata |-> metadata]

MCManifests ==
  LET recipes == {<<>>, <<Recipe(0, <<>>)>>, <<Recipe(1, <<Stage(<<1>>, <<2>>)>>)>>,
                  <<Recipe(2, <<Stage(<<1>>, <<>>), Stage(<<1, 1>>, <<0>>)>>),
                    Recipe(1, <<Stage(<<1, 1>>, <<>>)>>)>>}
      streams == {<<Stream(0, <<2>>, <<>>)>>,
                  <<Stream(1, <<2>>, <<1>>), Stream(0, <<2>>, <<0>>)>>}
      declared == {<<>>, <<[id |-> <<2>>, url |-> <<3>>]>>}
  IN {M!Manifest(r, s, d) : r \in recipes, s \in streams, d \in declared}

\* Ceilings on the resources of a manifest.
MCPolicies ==
  LET resources == {"recipes", "streams", "extensions", "manifest_bytes",
                    "stages_per_recipe", "total_stages"}
      none == [r \in resources |-> Unbounded]
  IN {none, [none EXCEPT !["total_stages"] = 2], [none EXCEPT !["extensions"] = 2],
      [none EXCEPT !["manifest_bytes"] = HeaderSize + 9]}

MCBodies(body) ==
  {[body EXCEPT ![i] = v] : i \in DOMAIN body, v \in MCSymbols}
  \cup {RemoveAt(body, i) : i \in DOMAIN body}
  \cup {InsertAt(body, i, v) : i \in 1..(Len(body) + 1), v \in MCSymbols}

MCSealed(header, body) ==
  [header |-> [header EXCEPT !.body_size = Len(body), !.body_crc32 = body], body |-> body]

MCImages(image) ==
  {MCSealed(image.header, body) : body \in MCBodies(image.body)}
  \cup {[image EXCEPT !.body = body] : body \in MCBodies(image.body)}
  \cup {[image EXCEPT !.header.crc = "invalid"], [image EXCEPT !.header.magic = "other"],
        [image EXCEPT !.header.header_size = 0], [image EXCEPT !.header.version = "other"],
        [image EXCEPT !.header.body_size = 0],
        [image EXCEPT !.header.extension_count = @ + 1],
        [image EXCEPT !.header.extension_count = @ - 1]}

ManifestTask(origin, image, recipes, streams, policy) ==
  [kind |-> "manifest", origin |-> origin, image |-> image,
   recipe_count |-> recipes, stream_count |-> streams, policy |-> policy]

MCManifestTasks ==
  LET none == CHOOSE p \in MCPolicies : \A r \in DOMAIN p : p[r] = Unbounded IN
  UNION {LET image == M!Image(m)
             recipes == Len(m.recipes)
             streams == Len(m.streams)
         IN {ManifestTask(<<m>>, image, recipes, streams, p) : p \in MCPolicies}
            \cup {ManifestTask(<<>>, i, recipes, streams, none) : i \in MCImages(image)}
            \cup {ManifestTask(<<>>, image, r, s, none) :
                    r \in {recipes, recipes + 1}, s \in {streams - 1, streams + 1}} :
         m \in MCManifests}

-----------------------------------------------------------------------------
(* Suite documents.                                                          *)

Case(id, kind, fields) == [id |-> id, kind |-> kind, fields |-> fields]

MCCases ==
  LET none == [null |-> "null"]
      interpretation ==
        [label |-> none, error |-> [string |-> "e"],
         fields |-> <<[name |-> "n", value |-> [integer |-> 1]],
                      [name |-> "m", value |-> none]>>]
  IN {Case("a", "stage_known_answer",
           [extension_id |-> "x", parameters |-> "00", logical |-> "ff",
            encoded |-> "00", canonical_encoding |-> TRUE]),
      Case("a", "stage_parameters",
           [extension_id |-> "x", parameters |-> "00",
            interpretation |-> <<interpretation>>]),
      Case("b", "stream_metadata",
           [extension_id |-> "y", metadata |-> "ff", interpretation |-> <<>>]),
      Case("a", "stage_bind_rejection",
           [extension_id |-> "x", parameters |-> "00",
            directions |-> <<"encode", "decode">>]),
      Case("b", "stage_decode_rejection",
           [extension_id |-> "x", parameters |-> "00", encoded |-> "ff",
            max_output_size |-> 1]),
      Case("a", "stage_output_limit",
           [extension_id |-> "y", direction |-> "decode", parameters |-> "00",
            data |-> "ff", max_output_size |-> 0]),
      Case("b", "stream_metadata_rejection",
           [extension_id |-> "y", metadata |-> "ff",
            require_interpreter_error |-> FALSE]),
      Case("a", "container_structure",
           [container |-> "ff", outcome |-> "accept",
            missing_required_stages |-> <<"x", "y">>]),
      Case("b", "container_recovery",
           [container |-> "ff", required_extensions |-> <<"x">>,
            streams |-> <<[stream_id |-> 0, logical |-> "00"],
                          [stream_id |-> 1, logical |-> "ff"]>>])}

MCSuites == {<<c>> : c \in MCCases} \cup {<<c, d>> : c, d \in MCCases}

MCValues ==
  {[null |-> "null"], [string |-> ""], [string |-> "00"], [string |-> "x"],
   [string |-> "corrupt"], [string |-> "encode"], [integer |-> 0], [integer |-> 0 - 1],
   [boolean |-> TRUE], [array |-> <<>>], [array |-> <<[string |-> "decode"]>>],
   [array |-> <<[string |-> "y"]>>], [array |-> <<[integer |-> 1]>>],
   C!StoreBytes("00")}

\* An object with one key left out, added, or with another value.
MCObjects(object) ==
  {[object |-> [k \in DOMAIN object \ {key} |-> object[k]]] : key \in DOMAIN object}
  \cup {[object |-> [k \in DOMAIN object \cup {"other"} |->
           IF k = "other" THEN [integer |-> 0] ELSE object[k]]]}
  \cup {[object |-> [object EXCEPT ![key] = v]] : key \in DOMAIN object, v \in MCValues}

MCArrays(array) ==
  {[array |-> RemoveAt(array, i)] : i \in DOMAIN array}
  \cup {[array |-> Append(array, array[i])] : i \in DOMAIN array}
  \cup {[array |-> Reverse(array)]}

MCEdits(json) ==
  IF "object" \in DOMAIN json THEN MCObjects(json.object)
  ELSE IF "array" \in DOMAIN json THEN MCArrays(json.array) ELSE {}

\* The same, one and two levels down.
MCInside(json) ==
  IF "object" \in DOMAIN json
  THEN UNION {{[object |-> [json.object EXCEPT ![k] = v]] : v \in MCEdits(json.object[k])} :
                k \in DOMAIN json.object}
  ELSE IF "array" \in DOMAIN json
  THEN UNION {{[array |-> [json.array EXCEPT ![i] = v]] : v \in MCEdits(json.array[i])} :
                i \in DOMAIN json.array}
  ELSE {}

MCDeeper(json) ==
  UNION {{[object |-> [json.object EXCEPT ![k] = v]] : v \in MCInside(json.object[k])} :
           k \in DOMAIN json.object}

DocumentTask(origin, document) ==
  [kind |-> "document", origin |-> origin, document |-> document]

MCDocumentTasks ==
  {DocumentTask(<<s>>, C!Dump(s)) : s \in MCSuites}
  \cup UNION {LET document == C!Dump(<<c>>)
                  case == document.object.cases.array[1]
              IN {DocumentTask(<<>>, d) : d \in MCEdits(document) \cup MCInside(document)}
                 \cup {DocumentTask(<<>>,
                         [document EXCEPT !.object.cases.array = <<edited>>]) :
                         edited \in MCEdits(case) \cup MCInside(case) \cup MCDeeper(case)} :
              c \in MCCases}

-----------------------------------------------------------------------------
(* Suites run against plugins.                                               *)

MCNFC(name) == IF name = "decomposed" THEN "composed" ELSE name
MCIsFileName(name) == name # "aux"

\* The capability that a call belongs to.
MCCapability(call) ==
  CASE call[1] \in {"bind_encoder", "encode"} -> "encoder"
    [] call[1] \in {"bind_decoder", "decode"} -> "decoder"
    [] call[1] = "encode_text" -> "text_encoder"
    [] call[1] = "decode_text" -> "text_decoder"
    [] call[1] = "interpret_text" -> "interpreter"

\* What stands where the contract puts this value.
MCWrong(id, call, value) ==
  CASE call[1] = "encode" /\ id = "delta8" -> [value EXCEPT !.bytes = Append(@, 0)]
    [] call[1] = "encode" /\ id # "delta8" -> [value EXCEPT !.end = "truncated"]
    [] call[1] = "decode" -> Append(value, 0)
    [] call[1] \in {"encode_text", "decode_text"} /\ id = "file" -> "wrong"
    [] call[1] \in {"encode_text", "decode_text"} /\ id # "file" -> <<>>
    [] OTHER -> value

\* What a provider that rejects nothing answers.
MCCareless(id, call, answer) ==
  IF call[1] \in {"encode", "decode"}
  THEN LET unbounded == R!Answer(id, [call EXCEPT ![4] = NoCeiling]) IN
       IF unbounded.kind = "returns" THEN unbounded ELSE R!Returns(<<>>)
  ELSE IF call[1] = "interpret_text" THEN R!Returns([error |-> FALSE, fields |-> <<>>])
  ELSE IF answer.kind = "rejects" THEN R!Returns(call[2]) ELSE answer

MCAsk(plugin, id, call) ==
  LET answer == R!Answer(id, call)
      how == IF plugin.fault.extension = id /\ plugin.fault.capability = MCCapability(call)
             THEN plugin.fault.how ELSE "none"
  IN IF how = "crashes" THEN R!Crashes
     ELSE IF how = "wrong" /\ answer.kind = "returns"
     THEN R!Returns(MCWrong(id, call, answer.value))
     ELSE IF how = "careless" THEN MCCareless(id, call, answer)
     ELSE answer

MCParameters == <<1, 0, 1>>
MCPayload(data) == R!ZlibEncode(<<0, 1>>, data, NoCeiling).value

MCStageCases ==
  LET stage == [extension |-> "zlib_dictionary", parameters |-> MCParameters]
      known(data, canonical) ==
        [kind |-> "stage_known_answer", extension |-> "zlib_dictionary",
         parameters |-> MCParameters, logical |-> data, encoded |-> MCPayload(data),
         canonical_encoding |-> canonical]
      text(interpretation) ==
        [kind |-> "stage_parameters", extension |-> "zlib_dictionary",
         text |-> MCParameters, interpretation |-> interpretation]
      unbound(parameters, directions) ==
        [kind |-> "stage_bind_rejection", extension |-> "zlib_dictionary",
         text |-> parameters, directions |-> directions]
      undecodable(payload) ==
        [kind |-> "stage_decode_rejection", extension |-> "zlib_dictionary",
         parameters |-> MCParameters, encoded |-> payload, max_output_size |-> 3]
      limited(direction, data, maximum) ==
        [kind |-> "stage_output_limit", extension |-> "zlib_dictionary",
         direction |-> direction, parameters |-> MCParameters, data |-> data,
         max_output_size |-> maximum]
  IN {known(<<1, 0>>, TRUE), known(<<>>, FALSE), text(<<>>),
      text(<<R!Interpretation(MCParameters)>>),
      unbound(<<1>>, {"encoder", "decoder"}), unbound(<<2, 1>>, {"decoder"}),
      undecodable([MCPayload(<<1>>) EXCEPT !.end = "corrupt"]),
      undecodable([MCPayload(<<1>>) EXCEPT !.dictionary = <<1>>]),
      undecodable([MCPayload(<<1>>) EXCEPT !.trailing = TRUE]),
      limited("encoder", <<1>>, 2), limited("decoder", MCPayload(<<1, 1>>), 1)}

MCDeltaCases ==
  LET case(kind, more) == [kind |-> kind, extension |-> "delta8"] @@ more
      deltas == [bytes |-> <<1, 1, 1>>]
  IN {case("stage_known_answer",
           [parameters |-> <<>>, logical |-> <<1, 0, 1>>, encoded |-> deltas,
            canonical_encoding |-> TRUE]),
      case("stage_bind_rejection",
           [text |-> <<0>>, directions |-> {"encoder", "decoder"}]),
      case("stage_output_limit",
           [direction |-> "decoder", parameters |-> <<>>, data |-> deltas,
            max_output_size |-> 2])}

MCProfileCases ==
  {[kind |-> "stream_metadata", extension |-> "file", text |-> "composed",
    interpretation |-> <<>>],
   [kind |-> "stream_metadata", extension |-> "file", text |-> "composed",
    interpretation |-> <<[error |-> FALSE, fields |-> <<"composed">>]>>],
   [kind |-> "stream_metadata_rejection", extension |-> "file", text |-> "decomposed",
    require_interpreter_error |-> FALSE],
   [kind |-> "stream_metadata_rejection", extension |-> "file", text |-> "aux",
    require_interpreter_error |-> TRUE]}

MCFaults(id, capabilities) ==
  {[extension |-> id, how |-> h, capability |-> c] :
     h \in {"wrong", "crashes", "careless"}, c \in capabilities}
  \cup {[extension |-> id, how |-> "none", capability |-> "none"]}

SuiteTasks(id, cases, capabilities, offered, profiles) ==
  {[kind |-> "suite", suite |-> SetToSeq(s), profiles |-> profiles,
    complete |-> o = capabilities,
    plugin |-> [offers |-> [i \in {id} |-> o], fault |-> f]] :
     s \in UNION {kSubset(n, cases) : n \in 0..3}, o \in offered,
     f \in MCFaults(id, capabilities)}

MCSuiteTasks ==
  LET text == {"text_encoder", "text_decoder", "interpreter"}
      both == {"encoder", "decoder"}
  IN SuiteTasks("zlib_dictionary", MCStageCases, both \cup text,
                {both \cup text, both, {"encoder"}, {"decoder"} \cup text,
                 both \cup {"text_decoder"}, {"encoder", "text_encoder", "text_decoder"}},
                {})
     \cup SuiteTasks("delta8", MCDeltaCases, both, SUBSET both, {})
     \cup SuiteTasks("file", MCProfileCases, text, SUBSET text, {"file"})

MCTasks == MCManifestTasks \cup MCDocumentTasks \cup MCSuiteTasks
=============================================================================
