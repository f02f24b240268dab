----------------------------- MODULE MCFilePacking -----------------------------
(* Small instances of FilePacking for TLC.                                  *)
EXTENDS FilePacking

\* "grow" adds a byte, "shrink" takes one away.
SizeAfterStage(stage, size) ==
  CASE stage = "grow" -> size + 1
    [] stage = "shrink" -> IF size = 0 THEN 0 ELSE size - 1

\* The packager's writer is given the counts of the manifest it made.
NoCounts == <<<<"recipes", 0>>, <<"streams", 0>>, <<"extensions", 0>>>>

Only(limits) ==
  [r \in CoreResource |-> IF r \in DOMAIN limits THEN limits[r] ELSE Unbounded]

\* Ceilings that some packages meet exactly and others exceed.
PackagePolicies ==
  {Only(<<>>),
   Only([intermediate_bytes |-> 2]),
   Only([intermediate_bytes |-> 2, encoded_chunk_bytes |-> 3]),
   Only([container_bytes |-> 2]),
   Only([container_bytes |-> 7, stage_executions |-> 2]),
   Only([logical_bytes |-> 2, chunks |-> 2]),
   Only([recipes |-> 1, total_stages |-> 2])}

RecoveryPolicies ==
  {Only(<<>>), Only([stage_executions |-> 1]), Only([encoded_chunk_bytes |-> 2]),
   Only([materialized_stream_bytes |-> 2, chunks |-> 2]),
   Only([container_bytes |-> 6, logical_bytes |-> 2]),
   Only([intermediate_bytes |-> 1]),
   Only([intermediate_bytes |-> 2, total_stages |-> 2])}

File(object, recipe) ==
  [object |-> object, type |-> "file", recipe |-> recipe, max |-> 2]

\* No source; one; two with one recipe; two with different ones; one source twice;
\* a stream type that is also a stage.
Requested ==
  {<<>>,
   <<File(1, <<"shrink", "grow">>)>>,
   <<File(1, <<"grow">>), File(2, <<"grow">>)>>,
   <<File(1, <<>>), File(2, <<"grow">>)>>,
   <<File(1, <<"grow", "grow">>), File(2, <<"shrink">>)>>,
   <<File(1, <<"grow">>), File(1, <<"grow">>)>>,
   <<[File(1, <<"grow">>) EXCEPT !.type = "grow"]>>}

\* What the encoder makes of the chunks of these sources.
EncodedChunks ==
  UNION {{ChunkOf(requested, i, k, n) : k \in 0 .. (MaxChunks - 1), n \in LogicalSizes} :
           <<requested, i>> \in {pair \in Requested \X (1 .. 2) : pair[2] \in DOMAIN pair[1]}}

Registered == {{"grow", "shrink"}, {"shrink"}}
=============================================================================
