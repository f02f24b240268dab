------------------------------ MODULE FilePacking ------------------------------
(***************************************************************************)
(* A host that packs files: FileArchiver.open_sources(), files/adapter.py, *)
(* around publish_package(), carriers/__init__.py, of a fixed packaging    *)
(* operation into the memory carrier, carriers/memory.py.                  *)
(*                                                                         *)
(* A source object reads the input file of the same number; the host may   *)
(* combine its sources as the packager lets it.  Every call of the         *)
(* operating system may fail; what is raised, and the notes added to it,   *)
(* is the sequence "failures" of pairs: the call, and its file or 0.       *)
(***************************************************************************)
EXTENDS FixedPackager

CONSTANT InspectionPolicies   \* policies for which an inspection foretells

\* The source objects of a request are numbered, as the files they read.
ASSUME ObjectsAssumption ==
  \A requested \in SourceLists :
    LET objects == {requested[i].object : i \in DOMAIN requested} IN
    /\ Cardinality(objects) \in Nat
    /\ objects = 1 .. Cardinality(objects)

VARIABLES
  host,        \* where the host is
  opened,      \* opened_files, as far as they still wait for close_all()
  held,        \* files whose descriptors are open
  carrier,     \* the publisher's CarrierLifecycleState
  receipt,     \* what commit() returned, <<>> if it has not
  failures     \* the primary error and its notes

hostVars == <<host, opened, held, carrier, receipt, failures>>
vars == <<writerVars, packagerVars, hostVars>>

I == INSTANCE Inspection

Objects == {sources[i].object : i \in DOMAIN sources}

PackingInit ==
  /\ Init
  /\ host = "opening"
  /\ opened = <<>>
  /\ held = {}
  /\ carrier = "NEW"
  /\ receipt = <<>>
  /\ failures = <<>>

Fail(call, file) == failures' = Append(failures, <<call, file>>)

-----------------------------------------------------------------------------
(* open_sources()                                                          *)

\* A name, the profile or the chunk size is refused before a file is opened.
RefuseInputs ==
  /\ host = "opening" /\ opened = <<>>
  /\ host' = "closing"
  /\ Fail("inputs", 0)
  /\ UNCHANGED <<writerVars, packagerVars, opened, held, carrier, receipt>>

\* _open_regular_file(): a descriptor that turns out not to be the file looked at
\* is closed again before the error is raised.
OpenInput ==
  /\ host = "opening" /\ Len(opened) < Cardinality(Objects)
  /\ LET file == Len(opened) + 1 IN
     \/ /\ opened' = Append(opened, file)
        /\ held' = held \cup {file}
        /\ UNCHANGED <<host, failures>>
     \/ /\ host' = "closing"
        /\ Fail("open_input", file)
        /\ UNCHANGED <<opened, held>>
  /\ UNCHANGED <<writerVars, packagerVars, carrier, receipt>>

\* A seeded fault: the first failing close ends the cleanup.
UntilOneFails(closed, files) ==
  IF closed \/ files = <<>> THEN files ELSE <<>>

\* The rest of the files is closed whether or not this one could be.
Rest(closed, files) == files

\* close_all()
CloseInput ==
  /\ host = "closing" /\ opened # <<>>
  /\ \E closed \in BOOLEAN :
       LET file == Last(opened) IN
       /\ opened' = Rest(closed, Front(opened))
       /\ IF closed THEN held' = held \ {file} /\ UNCHANGED failures
          ELSE UNCHANGED held /\ Fail("close_input", file)
  /\ UNCHANGED <<writerVars, packagerVars, host, carrier, receipt>>

Leave ==
  /\ host = "closing" /\ opened = <<>>
  /\ host' = "done"
  /\ UNCHANGED <<writerVars, packagerVars, opened, held, carrier, receipt, failures>>

-----------------------------------------------------------------------------
(* publish_package() and the memory publisher                              *)

OpenCarrier ==
  /\ host = "opening" /\ Len(opened) = Cardinality(Objects)
  /\ \/ carrier' = "OPEN" /\ host' = "packaging" /\ UNCHANGED failures
     \/ carrier' = "ABORTED" /\ host' = "aborting" /\ Fail("open_carrier", 0)
  /\ UNCHANGED <<writerVars, packagerVars, opened, held, receipt>>

Package ==
  /\ host = "packaging"
  /\ WriteTo
  /\ UNCHANGED hostVars

\* _discard_unpublished(), after which the host cleans up.
Discard(errors) ==
  \/ /\ carrier' = "ABORTED"
     /\ failures' = failures \o errors
  \/ /\ carrier' = "CLEANUP_REQUIRED"
     /\ failures' = failures \o Append(errors, <<"discard", 0>>)

Commit ==
  /\ host = "packaging" /\ operation = "returned" /\ carrier = "OPEN"
  /\ \/ /\ carrier' = "COMMITTED"
        /\ receipt' = target
        /\ host' = "closing"
        /\ UNCHANGED failures
     \/ /\ Discard(<< <<"commit", 0>> >>)
        /\ host' = "aborting"
        /\ UNCHANGED receipt
  /\ UNCHANGED <<writerVars, packagerVars, opened, held>>

\* write_to() raised.
PackagingFails ==
  /\ host = "packaging" /\ operation = "raised"
  /\ Fail("package", 0)
  /\ host' = "aborting"
  /\ UNCHANGED <<writerVars, packagerVars, opened, held, carrier, receipt>>

\* abort(), from the error handler.
Abort ==
  /\ host = "aborting"
  /\ IF carrier = "ABORTED" THEN UNCHANGED <<carrier, failures>> ELSE Discard(<<>>)
  /\ host' = "closing"
  /\ UNCHANGED <<writerVars, packagerVars, opened, held, receipt>>

-----------------------------------------------------------------------------
Next ==
  \/ RefuseInputs \/ OpenInput \/ CloseInput \/ Leave
  \/ OpenCarrier \/ Package \/ Commit \/ PackagingFails \/ Abort

Spec == PackingInit /\ [][Next]_vars

-----------------------------------------------------------------------------
\* What a decoding puts out for the stream of source i.
Recovered(output, i) ==
  LET own == {k \in DOMAIN output : output[k].stream = i - 1} IN
  [k \in 1 .. Cardinality(own) |-> output[InOrder(own)[k]].content]

\* A container that was published can be recovered by an operation that runs under
\* the policy it was packaged under, with decoders for the stages it used: every
\* ceiling of the readers and decoders was already kept by a check of the packager,
\* encoder or writer, and every stream gives back what its source yielded.
RecoverableUnderPackagingPolicy ==
  receipt # <<>> =>
    LET recovery == DecodeAll(writerPolicy, Manifest, ChunksOf(receipt), Stages) IN
    /\ ValidContainer(receipt)
    /\ recovery.ok
    /\ \A i \in DOMAIN sources : Recovered(recovery.output, i) = provided[i]

\* Every way through packing ends with no input file and no buffer left open unless
\* closing it failed and the caller is told; and a container is published just when
\* it was complete, after which only closing the inputs can still fail.
NothingIsLeftBehind ==
  host = "done" =>
    /\ held = {f \in Objects : <<"close_input", f>> \in ToSet(failures)}
    /\ carrier # "OPEN"
    /\ carrier = "CLEANUP_REQUIRED" => <<"discard", 0>> \in ToSet(failures)
    /\ carrier = "COMMITTED" =>
         /\ receipt = target /\ operation = "returned"
         /\ \A failure \in ToSet(failures) : failure[1] = "close_input"
    /\ failures = <<>> => carrier = "COMMITTED"

\* What data grows to between the stages is not told by the headers of the chunks.
IntermediatesFit(policy, chunks) ==
  \A c \in ToSet(chunks) :
    LET stages == RecipeOf(Manifest, c.recipe).stages
        sizes == SizesThrough(stages, c.logical)
    IN \A k \in 0 .. Len(stages) : Allows(policy, "intermediate_bytes", sizes[k])

\* What an inspection tells of a container, before any of it is decoded, is exact
\* but for the sizes of the intermediates: a recovery succeeds just when its policy
\* allows every number of the footprint, "obst inspect --require-decodable" finds
\* the decoders there, and no chunk is above the intermediate ceiling before,
\* between or after its stages.  If the policy also allows the largest stream,
\* each stream can be had in one piece.
InspectionForetellsRecovery ==
  host = "packaging" /\ operation = "returned" =>
    \A p \in InspectionPolicies, decoders \in SUBSET Stages :
      LET chunks == ChunksOf(target)
          footprint == I!Footprint(Manifest, chunks)
          Fits(resources) == \A r \in resources : Allows(p, r, footprint[r])
          decodable == I!ExitCode(Manifest, chunks, decoders, TRUE) = "success"
          between == IntermediatesFit(p, chunks)
      IN /\ DecodeAll(p, Manifest, chunks, decoders).ok <=>
              /\ decodable
              /\ Fits(DOMAIN footprint \ {"materialized_stream_bytes"})
              /\ between
         /\ decodable /\ Fits(DOMAIN footprint) /\ between =>
              \A i \in DOMAIN sources :
                Materialize(p, Manifest, chunks, decoders, i - 1).ok
=============================================================================
