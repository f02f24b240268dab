----------------------------- MODULE ManifestCodec -----------------------------
(***************************************************************************)
(* The canonical encoding of a manifest, src/obst/core/manifest.py, over   *)
(* the manifest header of wire.py and the values of model.py.              *)
(*                                                                         *)
(* A manifest is [recipes, streams, extensions], sequences of              *)
(*   recipe     [id, stages], a stage being [stage, parameters]            *)
(*   stream     [id, type, metadata]                                       *)
(*   extension  [id, url], where the empty URL stands for none.            *)
(* Strings and byte strings are sequences of symbols, which are naturals,  *)
(* and a fixed-width integer is one symbol.                                *)
(* An image is [header, body]; the header says of each checked part what   *)
(* the decoder finds there, and its body_crc32 is the body it was computed *)
(* of: a checksum without collisions.                                      *)
(***************************************************************************)
EXTENDS ResourceAccounting, Sequences, FiniteSets
LOCAL INSTANCE SequencesExt

CONSTANTS
  HeaderSize,     \* ManifestHeader.size
  Uint16, Uint32, \* uint16.maximum, uint32.maximum
  IsExtensionId(_), IsUrl(_)   \* what validate_extension_id() and
                               \* _validate_wire_specification_url() accept

Less(a, b) ==
  \E n \in 0..Len(a) :
    /\ n < Len(b)
    /\ SubSeq(a, 1, n) = SubSeq(b, 1, n)
    /\ n = Len(a) \/ a[n + 1] < b[n + 1]

Ids(declarations) == [i \in DOMAIN declarations |-> declarations[i].id]
Unique(s) == Cardinality(ToSet(s)) = Len(s)

-----------------------------------------------------------------------------
(* Manifest.__post_init__                                                  *)

StreamTypes(streams) == {streams[i].type : i \in DOMAIN streams}
StageIds(recipes) ==
  UNION {{recipes[i].stages[k].stage : k \in DOMAIN recipes[i].stages} :
           i \in DOMAIN recipes}

Constructible(recipes, streams, declared) ==
  /\ streams # <<>>
  /\ Unique(Ids(recipes))
  /\ Unique(Ids(streams))
  /\ StreamTypes(streams) \cap StageIds(recipes) = {}
  /\ Unique(Ids(declared))
  /\ ToSet(Ids(declared)) \subseteq StreamTypes(streams) \cup StageIds(recipes)

\* Every referenced extension is declared, with a URL where one was given.
Manifest(recipes, streams, declared) ==
  LET ids == SetToSortSeq(StreamTypes(streams) \cup StageIds(recipes), Less)
      urls(id) == {declared[k].url : k \in {k \in DOMAIN declared : declared[k].id = id}}
  IN [recipes |-> recipes, streams |-> streams,
      extensions |-> [i \in DOMAIN ids |->
        [id |-> ids[i],
         url |-> IF urls(ids[i]) = {} THEN <<>> ELSE CHOOSE u \in urls(ids[i]) : TRUE]]]

-----------------------------------------------------------------------------
(* encode_manifest()                                                       *)

\* The position of an extension, from zero.
Position(manifest, id) ==
  (CHOOSE i \in DOMAIN manifest.extensions : manifest.extensions[i].id = id) - 1

ById(declarations) == SortSeq(declarations, LAMBDA a, b : a.id < b.id)

\* _iter_body_parts()
BodyParts(manifest) ==
  LET extension(e) == <<<<Len(e.id), Len(e.url)>>, e.id, e.url>>
      stage(s) == <<<<Position(manifest, s.stage), Len(s.parameters)>>, s.parameters>>
      recipe(r) ==
        <<<<r.id, Len(r.stages), 0>>>> \o
        FlattenSeq([k \in DOMAIN r.stages |-> stage(r.stages[k])])
      stream(s) ==
        <<<<s.id, Position(manifest, s.type), Len(s.metadata)>>, s.metadata>>
      recipes == ById(manifest.recipes)
      streams == ById(manifest.streams)
  IN FlattenSeq([i \in DOMAIN manifest.extensions |->
                   extension(manifest.extensions[i])])
     \o FlattenSeq([i \in DOMAIN recipes |-> recipe(recipes[i])])
     \o FlattenSeq([i \in DOMAIN streams |-> stream(streams[i])])

Body(manifest) == FlattenSeq(BodyParts(manifest))

\* What is recorded of the stages of recipes, one after the other.
StageObservations(recipes) ==
  {<<"stages_per_recipe", Len(recipes[i].stages)>> : i \in DOMAIN recipes} \cup
  {<<"total_stages",
     FoldLeft(LAMBDA total, r : total + Len(r.stages), 0, SubSeq(recipes, 1, i))>> :
       i \in DOMAIN recipes}

CountObservations(recipes, streams) ==
  {<<"recipes", recipes>>, <<"streams", streams>>}

\* No observation is refused: an accountant within the policy takes them all.
Within(policy, observations) ==
  \A o \in observations : Allows(policy, o[1], o[2])

\* _manifest_encoding_context(), whose sizes grow with each part up to the
\* complete one.
Encodable(manifest, policy) ==
  LET size == HeaderSize + Len(Body(manifest)) IN
  /\ Within(policy,
       CountObservations(Len(manifest.recipes), Len(manifest.streams))
       \cup {<<"extensions", Len(manifest.extensions)>>,
             <<"manifest_bytes", size>>}
       \cup StageObservations(manifest.recipes))
  /\ size <= Uint32
  /\ \A i \in DOMAIN manifest.extensions : Len(manifest.extensions[i].id) <= Uint16

\* ManifestHeader.encode(); _checksummed() adds a valid CRC.
Header(manifest) ==
  [magic |-> "MANF", header_size |-> HeaderSize, crc |-> "valid", version |-> "current",
   extension_count |-> Len(manifest.extensions),
   body_size |-> Len(Body(manifest)), body_crc32 |-> Body(manifest)]

Image(manifest) == [header |-> Header(manifest), body |-> Body(manifest)]

-----------------------------------------------------------------------------
(* decode_manifest() and decode_manifest_parts().  What has been decoded   *)
(* so far is [status, at, items, stages]: "ok" or the error it ended with, *)
(* the symbols consumed, the declarations, and the stages among them.      *)

At(position) == [status |-> "ok", at |-> position, items |-> <<>>, stages |-> 0]

\* Cursor.unpack() and take(): n integers, then blocks of the sizes that some of
\* them, at most two, are.
Declaration(body, at, n, sized) ==
  IF at + n > Len(body) THEN [complete |-> FALSE]
  ELSE LET ints == SubSeq(body, at + 1, at + n)
           ends == [k \in 0..Len(sized) |->
                      at + n + (IF k >= 1 THEN ints[sized[1]] ELSE 0)
                             + (IF k = 2 THEN ints[sized[2]] ELSE 0)]
       IN IF ends[Len(sized)] > Len(body) THEN [complete |-> FALSE]
          ELSE [complete |-> TRUE, ints |-> ints, at |-> ends[Len(sized)],
                blocks |-> [k \in DOMAIN sized |-> SubSeq(body, ends[k - 1] + 1, ends[k])]]

Repeat(count, Step(_), decoded) ==
  FoldLeft(LAMBDA d, i : IF d.status = "ok" THEN Step(d) ELSE d,
           decoded, [i \in 1..count |-> i])

Stop(decoded, status) == [decoded EXCEPT !.status = status]

Accept(decoded, at, item) ==
  [decoded EXCEPT !.at = at, !.items = Append(@, item)]

DecodeExtension(body, decoded) ==
  LET d == Declaration(body, decoded.at, 2, <<1, 2>>) IN
  IF /\ d.complete
     /\ IsExtensionId(d.blocks[1])
     /\ d.blocks[2] = <<>> \/ IsUrl(d.blocks[2])
  THEN Accept(decoded, d.at, [id |-> d.blocks[1], url |-> d.blocks[2]])
  ELSE Stop(decoded, "invalid")

\* _extension_at() finds the index.
Declares(extensions, index) == index < Len(extensions)

DecodeStage(body, extensions, decoded) ==
  LET d == Declaration(body, decoded.at, 2, <<2>>) IN
  IF d.complete /\ Declares(extensions, d.ints[1])
  THEN Accept(decoded, d.at,
              [stage |-> extensions[d.ints[1] + 1].id, parameters |-> d.blocks[1]])
  ELSE Stop(decoded, "invalid")

DecodeRecipe(body, extensions, policy, decoded) ==
  LET d == Declaration(body, decoded.at, 3, <<>>) IN
  IF ~d.complete THEN Stop(decoded, "invalid")
  ELSE IF d.ints[3] # 0 THEN Stop(decoded, "invalid")
  ELSE LET total == decoded.stages + d.ints[2]
           stages == Repeat(d.ints[2],
                            LAMBDA s : DecodeStage(body, extensions, s), At(d.at))
       IN IF Within(policy, {<<"stages_per_recipe", d.ints[2]>>, <<"total_stages", total>>})
          THEN [Accept(Stop(decoded, stages.status), stages.at,
                       [id |-> d.ints[1], stages |-> stages.items])
                  EXCEPT !.stages = total]
          ELSE Stop(decoded, "resource_limit")

DecodeStream(body, extensions, decoded) ==
  LET d == Declaration(body, decoded.at, 3, <<3>>) IN
  IF d.complete /\ Declares(extensions, d.ints[2])
  THEN Accept(decoded, d.at, [id |-> d.ints[1], type |-> extensions[d.ints[2] + 1].id,
                              metadata |-> d.blocks[1]])
  ELSE Stop(decoded, "invalid")

\* A seeded fault: extension IDs only have to be unique.
OnlyUnique(ids) == Unique(ids)

Ascending(ids) == \A i \in 1..(Len(ids) - 1) : Less(ids[i], ids[i + 1])

Rejected(status) == [status |-> status]

\* _decode_manifest_body()
DecodeBody(header, body, recipe_count, stream_count, policy) ==
  LET extensions ==
        Repeat(header.extension_count, LAMBDA d : DecodeExtension(body, d), At(0))
      recipes ==
        Repeat(recipe_count,
               LAMBDA d : DecodeRecipe(body, extensions.items, policy, d),
               At(extensions.at))
      streams ==
        Repeat(stream_count, LAMBDA d : DecodeStream(body, extensions.items, d),
               At(recipes.at))
      InOrder(items) == ById(items) = items
  IN IF header.body_crc32 # body THEN Rejected("corrupt")
     ELSE IF extensions.status # "ok" THEN Rejected(extensions.status)
     ELSE IF ~Ascending(Ids(extensions.items)) THEN Rejected("invalid")
     ELSE IF recipes.status # "ok" THEN Rejected(recipes.status)
     ELSE IF streams.status # "ok" THEN Rejected(streams.status)
     ELSE IF /\ streams.at = Len(body)
             /\ InOrder(recipes.items) /\ InOrder(streams.items)
             /\ Constructible(recipes.items, streams.items, extensions.items)
     THEN [status |-> "ok",
           manifest |-> Manifest(recipes.items, streams.items, extensions.items)]
     ELSE Rejected("invalid")

\* ManifestHeader.decode()
HeaderStatus(header) ==
  IF header.magic # "MANF" \/ header.header_size # HeaderSize THEN "invalid"
  ELSE IF header.crc # "valid" THEN "corrupt"
  ELSE IF header.version # "current" THEN "unsupported"
  ELSE "ok"

\* The image with the counts of the container header.
Decode(image, recipe_count, stream_count, policy) ==
  LET header == image.header
      size == HeaderSize + Len(image.body)
  IN IF ~Within(policy, CountObservations(recipe_count, stream_count)
                        \cup {<<"manifest_bytes", size>>})
     THEN Rejected("resource_limit")
     ELSE IF HeaderStatus(header) # "ok" THEN Rejected(HeaderStatus(header))
     ELSE IF header.body_size # Len(image.body) THEN Rejected("invalid")
     ELSE IF ~Allows(policy, "extensions", header.extension_count)
     THEN Rejected("resource_limit")
     ELSE DecodeBody(header, image.body, recipe_count, stream_count, policy)
=============================================================================
