------------------------------ MODULE Inspection ------------------------------
(***************************************************************************)
(* Structural inspection, src/obst/core/inspection.py, and the exit code   *)
(* of "obst inspect", cli/inspection.py: what a container needs to be      *)
(* recovered, told from its manifest and its chunk headers alone.          *)
(*                                                                         *)
(* The chunks are those of a container that was read to its end.  The      *)
(* interpretations that inspection may add do not bear on what it counts.  *)
(***************************************************************************)
EXTENDS ContainerFormat, FiniteSets
LOCAL INSTANCE SequencesExt
LOCAL INSTANCE FiniteSetsExt

Largest(numbers) == IF numbers = {} THEN 0 ELSE Max(numbers)

Total(numbers) == FoldLeft(LAMBDA n, m : n + m, 0, numbers)

UsesOf(chunks, recipe_id) ==
  Len(SelectSeq(chunks, LAMBDA c : c.recipe = recipe_id))

InspectedStream(chunks, stream) ==
  LET own == SelectSeq(chunks, LAMBDA c : c.stream = stream.id) IN
  [stream_id |-> stream.id, chunk_count |-> Len(own),
   logical_size |-> Total([i \in DOMAIN own |-> own[i].logical]),
   encoded_payload_size |-> Total([i \in DOMAIN own |-> own[i].encoded]),
   recipe_usage |-> [r \in {c.recipe : c \in ToSet(own)} |-> UsesOf(own, r)]]

StageIds(recipe) == ToSet(recipe.stages)

\* A seeded fault: a stage that a recipe declares counts as required.
RequiredIfDeclared(manifest, chunks, stage) ==
  \E r \in ToSet(manifest.recipes) : stage \in StageIds(r)

\* InspectedStageCapability.required: some chunk used a recipe that declares it.
Required(manifest, chunks, stage) ==
  \E r \in ToSet(manifest.recipes) :
    stage \in StageIds(r) /\ UsesOf(chunks, r.id) > 0

MissingDeclared(manifest, decoders) ==
  UNION {StageIds(r) : r \in ToSet(manifest.recipes)} \ decoders

MissingRequired(manifest, chunks, decoders) ==
  {s \in MissingDeclared(manifest, decoders) : Required(manifest, chunks, s)}

\* ContainerResourceFootprint, named by the resources it is compared with, and
\* the totals of the summary.
Footprint(manifest, chunks) ==
  LET recipes == ToSet(manifest.recipes)
      declared == manifest.recipes
      streams == {InspectedStream(chunks, s) : s \in ToSet(manifest.streams)}
  IN [manifest_bytes |-> ManifestSize,
      extensions |-> Cardinality(manifest.extensions),
      recipes |-> Len(manifest.recipes),
      streams |-> Len(manifest.streams),
      total_stages |-> Total([i \in DOMAIN declared |-> Len(declared[i].stages)]),
      stages_per_recipe |-> Largest({Len(r.stages) : r \in recipes}),
      encoded_chunk_bytes |-> Largest({c.encoded : c \in ToSet(chunks)}),
      logical_chunk_bytes |-> Largest({c.logical : c \in ToSet(chunks)}),
      stage_executions |->
        Total([i \in DOMAIN declared |->
                 UsesOf(chunks, declared[i].id) * Len(declared[i].stages)]),
      materialized_stream_bytes |-> Largest({s.logical_size : s \in streams}),
      chunks |-> Len(chunks),
      logical_bytes |-> Total([i \in DOMAIN chunks |-> chunks[i].logical]),
      container_bytes |->
        PreambleSize + Total([i \in DOMAIN chunks |-> ChunkSize(chunks[i])])
          + RecordHeaderSize]

\* run_inspect()
ExitCode(manifest, chunks, decoders, require_decodable) ==
  IF require_decodable /\ MissingRequired(manifest, chunks, decoders) # {}
  THEN "unsupported" ELSE "success"
=============================================================================
