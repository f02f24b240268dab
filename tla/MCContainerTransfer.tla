------------------------- MODULE MCContainerTransfer -------------------------
(* Small instances of ContainerTransfer for TLC.                            *)
EXTENDS ContainerTransfer

Only(limits) ==
  [r \in CoreResource |-> IF r \in DOMAIN limits THEN limits[r] ELSE Unbounded]

\* A manifest of one recipe of two stages.
MCDeclarations ==
  <<<<"recipes", 1>>, <<"streams", 2>>, <<"extensions", 3>>,
    <<"stages_per_recipe", 2>>, <<"total_stages", 2>>>>

Unlimited == {Only(<<>>)}

\* Ceilings that some containers of MixedChunks meet exactly and others exceed.
Ceilings ==
  {Only([container_bytes |-> 6, recipes |-> 1, streams |-> 2,
         total_stages |-> 2]),
   Only([chunks |-> 1]),
   Only([encoded_chunk_bytes |-> 1, logical_chunk_bytes |-> 1]),
   Only([logical_bytes |-> 2]),
   Only([extensions |-> 3, stages_per_recipe |-> 1])}

Chunk(stream, sequence, logical, encoded) ==
  [stream |-> stream, sequence |-> sequence, recipe |-> "r1",
   logical |-> logical, encoded |-> encoded, id |-> <<stream, sequence>>]

TransferPolicies == Unlimited \cup Ceilings

Nothing == {<<>>}

MixedChunks ==
  {Chunk("s1", 0, 1, 1), Chunk("s1", 1, 2, 0), Chunk("s2", 0, 1, 2)}
=============================================================================
