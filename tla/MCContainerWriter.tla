-------------------------- MODULE MCContainerWriter --------------------------
(* A small instance of ContainerWriter for TLC.                             *)
EXTENDS ContainerWriter

\* One ceiling, or two, set; every other resource unbounded.
Only(limits) ==
  [r \in CoreResource |-> IF r \in DOMAIN limits THEN limits[r] ELSE Unbounded]

\* A manifest of two recipes, of one and of two stages.
MCDeclarations ==
  <<<<"recipes", 2>>, <<"streams", 2>>, <<"extensions", 3>>,
    <<"stages_per_recipe", 1>>, <<"total_stages", 1>>,
    <<"stages_per_recipe", 2>>, <<"total_stages", 3>>>>

\* What these numbers meet exactly.
ExactCounts ==
  [recipes |-> 2, streams |-> 2, extensions |-> 3, stages_per_recipe |-> 2,
   total_stages |-> 3]

MCPolicies ==
  {Only(<<>>),
   Only([container_bytes |-> 3]),
   Only([container_bytes |-> 9]),
   Only([manifest_bytes |-> 0]),
   Only(ExactCounts),
   Only([ExactCounts EXCEPT !.streams = 1]),
   Only([ExactCounts EXCEPT !.total_stages = 2]),
   Only([chunks |-> 1]),
   Only([logical_bytes |-> 2, container_bytes |-> 8]),
   Only([encoded_chunk_bytes |-> 1]),
   Only([logical_chunk_bytes |-> 1])}

\* Chunks in and out of sequence, of two streams, empty and not, and chunks
\* of an undeclared stream and recipe.
Chunk(stream, sequence, recipe, logical, encoded) ==
  [stream |-> stream, sequence |-> sequence, recipe |-> recipe,
   logical |-> logical, encoded |-> encoded, id |-> <<stream, sequence>>]

MCChunks ==
  {Chunk("s1", n, "r1", 1, e) : n \in 0 .. 2, e \in 0 .. 1}
    \cup {Chunk("s2", n, "r1", 2, 2 * n) : n \in 0 .. 1}
    \cup {Chunk("s9", 0, "r1", 1, 1), Chunk("s1", 0, "r9", 1, 1)}
=============================================================================
