--------------------------- MODULE MCRecipePipeline ---------------------------
(* Small instances of RecipePipeline.                                        *)
EXTENDS RecipePipeline

Only(limits) ==
  [r \in CoreResource |-> IF r \in DOMAIN limits THEN limits[r] ELSE Unbounded]

MCPolicies ==
  {Only(<<>>),
   Only([logical_bytes |-> 2]),
   Only([stage_executions |-> 3]),
   Only([intermediate_bytes |-> 1])}

MCStagesOf ==
  [identity |-> <<>>, delta |-> <<"delta8">>, packed |-> <<"delta8", "zlib">>,
   foreign |-> <<"delta8", "unknown">>]

MCRecipe == DOMAIN MCStagesOf

\* A stage may have a provider for one direction only.
MCRegistered == [encode |-> {"delta8", "zlib"}, decode |-> {"delta8", "unknown"}]
=============================================================================
