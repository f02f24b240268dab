----------------------------- MODULE ChunkCoding -----------------------------
(***************************************************************************)
(* Logical chunks and their encoded form, src/obst/core/streams.py over    *)
(* the recipe sessions of pipeline.py, as functions of one accountant.     *)
(*                                                                         *)
(* Logical data is [content, size].  An encoded payload is the content and *)
(* the stages it went through.  A coding session is [ok, account, output]; *)
(* once it is refused it stays so.  When within a call a refusal comes is  *)
(* the business of RecipePipeline; here, it is whether one comes.          *)
(***************************************************************************)
EXTENDS ContainerFormat, ResourceAccounting, Enumeration, SequencesExt

CONSTANT SizeAfter(_, _)   \* bytes that a stage's encoder makes of n bytes

Require(session, condition) == [session EXCEPT !.ok = @ /\ condition]

\* The sizes of data before, between and after the stages.
SizesThrough(stages, size) ==
  LET after[k \in 0 .. Len(stages)] ==
        IF k = 0 THEN size ELSE SizeAfter(stages[k], after[k - 1])
  IN  after

\* What a recipe execution charges for an input and the logical bytes of a chunk.
ExecutionCharges(stages, input, logical) ==
  <<<<"logical_bytes", logical>>, <<"intermediate_bytes", input>>,
    <<"stage_executions", Len(stages)>>>>

\* A seeded fault: the last stage is only held to the size of an encoded chunk.
StagesFitBeforeTheLast(policy, sizes, last) ==
  \A k \in 1 .. (last - 1) : Allows(policy, "intermediate_bytes", sizes[k])

\* No stage up to the last puts out more than an intermediate may have.
StagesFit(policy, sizes, last) ==
  \A k \in 1 .. last : Allows(policy, "intermediate_bytes", sizes[k])

\* What is put out for data that goes through the stages of a recipe.
EncodedChunk(data, chunk_id, recipe) ==
  LET stages == recipe.stages IN
  [stream |-> chunk_id.stream, sequence |-> chunk_id.sequence,
   recipe |-> recipe.id, logical |-> data.size,
   encoded |-> SizesThrough(stages, data.size)[Len(stages)],
   id |-> [content |-> data.content, through |-> stages]]

\* ChunkEncoder.encode()
EncodeChunk(policy, session, data, chunk_id, recipe) ==
  LET stages == recipe.stages
      sizes == SizesThrough(stages, data.size)
      encoded == sizes[Len(stages)]
      charged ==
        Charged(policy, session,
                <<<<"logical_chunk_bytes", data.size>>>>
                  \o ExecutionCharges(stages, data.size, data.size)
                  \o <<<<"encoded_chunk_bytes", encoded>>>>)
  IN [Require(charged, StagesFit(policy, sizes, Len(stages))) EXCEPT
        !.output = EncodedChunk(data, chunk_id, recipe)]

\* ChunkDecoder.decode(): the stages in reverse, the last of them held to the logical
\* size.  The content is appended to what is put out.
DecodeChunk(policy, session, chunk, recipe, decoders) ==
  LET stages == recipe.stages
      sizes == SizesThrough(stages, chunk.logical)
      charged ==
        Charged(policy, session,
                <<<<"encoded_chunk_bytes", chunk.encoded>>,
                  <<"logical_chunk_bytes", chunk.logical>>>>
                  \o ExecutionCharges(stages, chunk.encoded, chunk.logical))
      decodes == /\ ToSet(stages) \subseteq decoders
                 /\ chunk.id.through = stages
                 /\ \A k \in 0 .. (Len(stages) - 1) :
                      Allows(policy, "intermediate_bytes", sizes[k])
  IN [Require(charged, decodes) EXCEPT
        !.output = Append(charged.output,
                           [stream |-> chunk.stream, content |-> chunk.id.content])]

-----------------------------------------------------------------------------
(* A manifest is [recipes, streams, extensions]: recipes are [id, stages], *)
(* streams [id, type], extensions a set of IDs.                            *)

RecipeOf(manifest, id) == CHOOSE r \in ToSet(manifest.recipes) : r.id = id

StageCharges(recipes) ==
  [k \in 1 .. 2 * Len(recipes) |->
    LET i == (k + 1) \div 2 IN
    IF k = 2 * i - 1 THEN <<"stages_per_recipe", Len(recipes[i].stages)>>
    ELSE <<"total_stages", SumOf([j \in 1 .. i |-> Len(recipes[j].stages)])>>]

\* What a manifest counts.  Of every recipe, its own stages are charged before
\* those of all recipes so far.
CountCharges(manifest) ==
  <<<<"recipes", Len(manifest.recipes)>>, <<"streams", Len(manifest.streams)>>,
    <<"extensions", Cardinality(manifest.extensions)>>>>
    \o StageCharges(manifest.recipes)

\* What is charged before the first chunk: manifest counts and size.
ManifestCharges(manifest) ==
  CountCharges(manifest) \o <<<<"manifest_bytes", ManifestSize>>>>

ReadingCharges(chunk) ==
  <<<<"encoded_chunk_bytes", chunk.encoded>>, <<"logical_chunk_bytes", chunk.logical>>,
    <<"chunks", 1>>, <<"container_bytes", ChunkSize(chunk)>>>>

\* A reader over its manifest and its header.
Opened(policy, manifest) ==
  Charged(policy, Charged(policy, Session(NewAccount), ManifestCharges(manifest)),
          <<<<"container_bytes", PreambleSize>>>>)

\* One more chunk.  "wanted" has, for each chunk that is decoded, what is charged
\* before; of the others, only the records are read.
DecodedNext(policy, manifest, session, chunk, decoders, wanted) ==
  LET read == Charged(policy, session, ReadingCharges(chunk)) IN
  IF ~read.ok \/ chunk \notin DOMAIN wanted THEN read
  ELSE DecodeChunk(policy, Charged(policy, read, wanted[chunk]), chunk,
                   RecipeOf(manifest, chunk.recipe), decoders)

\* iter_decoded_chunks() over a valid container.
Decode(policy, manifest, chunks, decoders, wanted) ==
  LET after[k \in 0 .. Len(chunks)] ==
        IF k = 0 THEN Opened(policy, manifest)
        ELSE DecodedNext(policy, manifest, after[k - 1], chunks[k], decoders, wanted)
  IN  Charged(policy, after[Len(chunks)], <<<<"container_bytes", RecordHeaderSize>>>>)

DecodeAll(policy, manifest, chunks, decoders) ==
  Decode(policy, manifest, chunks, decoders, [c \in ToSet(chunks) |-> <<>>])

LogicalSize(chunks) == SumOf([i \in DOMAIN chunks |-> chunks[i].logical])

\* materialize_stream(): the growing stream is charged before the chunk is decoded.
Materialize(policy, manifest, chunks, decoders, stream) ==
  LET Earlier(c) ==
        SelectSeq(chunks, LAMBDA d : d.stream = stream /\ d.sequence < c.sequence)
  IN Decode(policy, manifest, chunks, decoders,
            [c \in {c \in ToSet(chunks) : c.stream = stream} |->
               <<<<"materialized_stream_bytes",
                   LogicalSize(Earlier(c)) + c.logical>>>>])
=============================================================================
