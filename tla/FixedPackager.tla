----------------------------- MODULE FixedPackager -----------------------------
(***************************************************************************)
(* One packaging operation: _FixedPackageOperation.write_to(),             *)
(* packagers/fixed.py, over the sources of core/packaging.py, the chunk    *)
(* encoder and a ContainerWriter that share one accountant.                *)
(*                                                                         *)
(* A source is [object, type, recipe, max]: the Python object, the stream  *)
(* type, the stages of its RecipeSpec and its declared maximum chunk size. *)
(* Sources and providers are foreign code: they may raise at any time, and *)
(* a source yields chunks of any size.  The writer's own steps, down to a  *)
(* single write to the target, are those of ContainerWriter.               *)
(***************************************************************************)
EXTENDS ContainerWriter, ChunkCoding

CONSTANTS
  SourceLists,   \* sequences of sources a caller may have requested
  EncoderSets,   \* sets of stages for which a registry may have an encoder
  ClaimedSets,   \* sets of objects that another operation may have consumed
  LogicalSizes,  \* sizes of the chunks that sources yield
  MaxChunks      \* bound: chunks that one source yields

VARIABLES
  sources, encoders,
  claimed,     \* objects whose iter_chunks() was called, _consumed
  operation,   \* "prepared", then where write_to() is, then how it ended
  at,          \* the source whose turn it is, 0 before the first
  reading,     \* its iterator is not exhausted
  coded,       \* the encoded chunk that the writer takes next, <<>> if there is none
  provided     \* history: per source, the contents it yielded

packagerVars == <<sources, encoders, claimed, operation, at, reading, coded, provided>>

-----------------------------------------------------------------------------
(* _fixed_package_plan()                                                   *)

\* Equal recipes once, in the order of their first source.
RecipesOf(requested) ==
  LET distinct == Missing([i \in DOMAIN requested |-> requested[i].recipe], {})
  IN [i \in DOMAIN distinct |-> [id |-> i - 1, stages |-> distinct[i]]]

RecipeFor(requested, i) ==
  CHOOSE r \in ToSet(RecipesOf(requested)) : r.stages = requested[i].recipe

Types == {sources[i].type : i \in DOMAIN sources}
Stages == UNION {ToSet(sources[i].recipe) : i \in DOMAIN sources}

Manifest ==
  [recipes |-> RecipesOf(sources),
   streams |-> [i \in DOMAIN sources |-> [id |-> i - 1, type |-> sources[i].type]],
   extensions |-> Types \cup Stages]

\* Chunk k of source i, of n bytes: its content, its ID and what is made of it.
DataOf(i, k, n) == [content |-> <<i, k, n>>, size |-> n]

IdOf(i, k) == [stream |-> i - 1, sequence |-> k]

ChunkOf(requested, i, k, n) ==
  EncodedChunk(DataOf(i, k, n), IdOf(i, k), RecipeFor(requested, i))

\* What a caller requests, and the chunks that the writer may be handed: those the
\* encoder makes.
ASSUME PackagerAssumption ==
  /\ MaxChunks \in Nat
  /\ \A requested \in SourceLists :
       /\ requested \in Seq([object : Nat, type : STRING, recipe : Seq(STRING), max : Nat])
       /\ \A i \in DOMAIN requested, k \in 0 .. (MaxChunks - 1), n \in LogicalSizes :
            ChunkOf(requested, i, k, n) \in Chunks

-----------------------------------------------------------------------------
Init ==
  /\ WriterInit
  /\ sources \in SourceLists
  /\ encoders \in EncoderSets
  /\ claimed \in ClaimedSets
  /\ operation = "prepared"
  /\ at = 0
  /\ reading = FALSE
  /\ coded = <<>>
  /\ provided = [i \in DOMAIN sources |-> <<>>]

\* _preflight_source()
SourceFits(source) ==
  /\ Allows(writerPolicy, "logical_chunk_bytes", source.max)
  /\ Allows(writerPolicy, "intermediate_bytes", source.max)

\* No ID is both a stream type and a stage: Manifest.__post_init__().
Plannable ==
  /\ sources # <<>>
  /\ \A i, j \in DOMAIN sources : sources[i].object = sources[j].object => i = j
  /\ \A i \in DOMAIN sources : SourceFits(sources[i])
  /\ Types \cap Stages = {}

\* Everything write_to() does before it touches the target.  The operation is
\* consumed whatever comes of it.
Preflight ==
  /\ operation = "prepared"
  /\ LET planned == Require(Session(writerAccount), Plannable)
         charged == IF planned.ok
                    THEN Charged(writerPolicy, planned, ManifestCharges(Manifest))
                    ELSE planned
     IN /\ writerAccount' = charged.account
        /\ operation' = IF charged.ok /\ Stages \subseteq encoders
                        THEN "constructing" ELSE "raised"
  /\ UNCHANGED <<writerPolicy, writerState, nextSequences, writerTotals, bytesWritten,
                 outgoing, target, torn, targetFaulted, sources, encoders, claimed,
                 at, reading, coded, provided>>

\* ContainerWriter()
OpenWriter ==
  /\ operation = "constructing"
  /\ LET counts == CountCharges(Manifest)
     IN  Construct(counts) \/ ConstructRefused(counts)
  /\ operation' = IF writerState' = "raised" THEN "raised" ELSE "packaging"
  /\ UNCHANGED <<sources, encoders, claimed, at, reading, coded, provided>>

\* The target takes bytes of a record, or raises.
Send ==
  /\ WriteStep
  /\ operation' = IF writerState' \in {"failed", "raised"} THEN "raised" ELSE operation
  /\ UNCHANGED <<sources, encoders, claimed, at, reading, coded, provided>>

\* Between two calls of the writer.
Packaging == operation = "packaging" /\ MayCall /\ coded = <<>>

\* iter_chunks() of the next source: it is claimed, once.
NextSource ==
  /\ Packaging /\ ~reading
  /\ at < Len(sources)
  /\ IF sources[at + 1].object \in claimed
     THEN operation' = "raised" /\ UNCHANGED <<claimed, at, reading>>
     ELSE /\ claimed' = claimed \cup {sources[at + 1].object}
          /\ at' = at + 1
          /\ reading' = TRUE
          /\ UNCHANGED operation
  /\ UNCHANGED <<writerVars, sources, encoders, coded, provided>>

\* The source yields a chunk of size n: it is checked against the declared
\* maximum, preflighted and encoded.
ProvideChunk(n) ==
  /\ Packaging /\ reading
  /\ Len(provided[at]) < MaxChunks
  /\ LET id == IdOf(at, Len(provided[at]))
         data == DataOf(at, id.sequence, n)
         recipe == RecipeFor(sources, at)
         admitted == Require(Session(writerAccount),
                             /\ n <= sources[at].max
                             /\ FitsChunkCapacity([logical |-> n]))
         encoded == IF admitted.ok
                    THEN EncodeChunk(writerPolicy, admitted, data, id, recipe)
                    ELSE admitted
     IN /\ writerAccount' = encoded.account
        /\ IF encoded.ok
           THEN /\ coded' = <<encoded.output>>
                /\ provided' = [provided EXCEPT ![at] = Append(@, data.content)]
                /\ UNCHANGED operation
           ELSE operation' = "raised" /\ UNCHANGED <<coded, provided>>
  /\ UNCHANGED <<writerPolicy, writerState, nextSequences, writerTotals, bytesWritten,
                 outgoing, target, torn, targetFaulted, sources, encoders, claimed,
                 at, reading>>

\* write_chunk()
HandOver ==
  /\ operation = "packaging" /\ coded # <<>>
  /\ \/ WriteChunk(coded[1]) /\ UNCHANGED operation
     \/ WriteChunkRefused(coded[1]) /\ operation' = "raised"
  /\ coded' = <<>>
  /\ UNCHANGED <<sources, encoders, claimed, at, reading, provided>>

SourceEnds ==
  /\ Packaging /\ reading
  /\ reading' = FALSE
  /\ UNCHANGED <<writerVars, sources, encoders, claimed, operation, at, coded, provided>>

\* A provider's bind, a source, or a stage raises.
ForeignRaises ==
  /\ operation = "prepared" \/ (Packaging /\ reading)
  /\ operation' = "raised"
  /\ UNCHANGED <<writerVars, sources, encoders, claimed, at, reading, coded, provided>>

FinishWriter ==
  /\ Packaging /\ ~reading
  /\ at = Len(sources)
  /\ Finish
  /\ operation' = "finishing"
  /\ UNCHANGED <<sources, encoders, claimed, at, reading, coded, provided>>

\* The result is made of the counters, of which the chunks handed over tell.
Return ==
  /\ operation = "finishing" /\ writerState = "complete"
  /\ operation' = "returned"
  /\ UNCHANGED <<writerVars, sources, encoders, claimed, at, reading, coded, provided>>

WriteTo ==
  \/ Preflight \/ OpenWriter \/ Send \/ NextSource
  \/ \E n \in LogicalSizes : ProvideChunk(n)
  \/ HandOver \/ SourceEnds \/ ForeignRaises \/ FinishWriter \/ Return
=============================================================================
