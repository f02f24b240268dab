--------------------------- MODULE FormatConformance ---------------------------
(***************************************************************************)
(* One task of the format's tools: a manifest image is decoded, a suite    *)
(* document is loaded, or a suite is run against a plugin.  The codecs and *)
(* the runner are pure; what happens here is that every input, also one    *)
(* that nobody wrote, is answered.                                         *)
(***************************************************************************)
EXTENDS Integers, Sequences, FiniteSets

CONSTANTS
  Tasks,                    \* what may be asked
  HeaderSize, Uint16, Uint32, IsExtensionId(_), IsUrl(_), Unbounded,
  Bytes, Sha256(_), ExtensionIds, CaseIds,
  Base, MaxLevel, MaxDictionary, Overhead, NoCeiling, NFC(_), IsFileName(_),
  Ask(_, _, _)

VARIABLES task, result
vars == <<task, result>>

M == INSTANCE ManifestCodec
C == INSTANCE ConformanceCatalog
R == INSTANCE ConformanceRunner

Pending == [status |-> "pending"]

Init == task \in Tasks /\ result = Pending

DecodeManifest ==
  /\ task.kind = "manifest" /\ result = Pending
  /\ result' = M!Decode(task.image, task.recipe_count, task.stream_count, task.policy)
  /\ UNCHANGED task

LoadSuite ==
  /\ task.kind = "document" /\ result = Pending
  /\ result' = IF C!Loads(task.document)
               THEN [status |-> "ok", cases |-> C!LoadCases(task.document)]
               ELSE [status |-> "invalid"]
  /\ UNCHANGED task

RunSuite ==
  /\ task.kind = "suite" /\ result = Pending
  /\ result' = [status |-> R!Run(task.suite, task.plugin, task.profiles)]
  /\ UNCHANGED task

Next == DecodeManifest \/ LoadSuite \/ RunSuite

Spec == Init /\ [][Next]_vars

-----------------------------------------------------------------------------
\* The declarations of a manifest, whatever their order.
Declarations(manifest) ==
  [part \in DOMAIN manifest |->
     {manifest[part][i] : i \in DOMAIN manifest[part]}]

\* decode_manifest() takes an image, with the counts of the container header, just
\* when encode_manifest() writes it under the same policy: of any edit of an image,
\* also one whose checksum and size were computed again, either the decoder sees
\* it, or it is the one canonical image of another manifest that may be written.
ManifestsAreCanonical ==
  task.kind = "manifest" /\ result # Pending =>
    /\ result.status = "ok" =>
         /\ M!Encodable(result.manifest, task.policy)
         /\ M!Image(result.manifest) = task.image
         /\ Len(result.manifest.recipes) = task.recipe_count
         /\ Len(result.manifest.streams) = task.stream_count
    /\ task.origin # <<>> /\ M!Encodable(task.origin[1], task.policy) =>
         /\ result.status = "ok"
         /\ Declarations(result.manifest) = Declarations(task.origin[1])

\* load_conformance_suite() takes a document just when write_conformance_suite()
\* writes it: nothing in a published suite is ignored, defaulted or altered on the
\* way to the runner, and what was published loads as the cases it was made of.
SuitesAreCanonical ==
  task.kind = "document" /\ result # Pending =>
    /\ result.status = "ok" =>
         C!ValidSuite(result.cases) /\ C!Dump(result.cases) = task.document
    /\ task.origin # <<>> /\ C!ValidSuite(task.origin[1]) =>
         result = [status |-> "ok", cases |-> task.origin[1]]

\* A case that a capability which takes what it must reject cannot pass.
Exposes(case, capability) ==
  CASE case.kind = "stage_output_limit" -> case.direction = capability
    [] case.kind = "stage_bind_rejection" ->
         capability \in case.directions \cup {"text_decoder", "interpreter"}
    [] case.kind = "stage_decode_rejection" -> capability = "decoder"
    [] case.kind = "stream_metadata_rejection" ->
         \/ capability = "text_decoder"
         \/ capability = "interpreter" /\ case.require_interpreter_error
    [] OTHER -> FALSE

\* What run_conformance_suite() says of a plugin, under a suite whose cases the
\* contract satisfies: a plugin that keeps the contract and offers all of it
\* passes; none whose encoder, decoder or text codec answers wrongly, or crashes,
\* ever does, whatever the suite and whatever else the plugin offers, because a
\* suite that leaves the capability out is refused (the typed value of a text
\* decoder means nothing to the runner unless an encoder writes it back); and one
\* that takes what it must reject does not when a case asks for the rejection.
VerdictsFollowTheContract ==
  task.kind = "suite" /\ result # Pending =>
    LET fault == task.plugin.fault
        offered == task.plugin.offers[fault.extension]
        cases == {task.suite[i] : i \in DOMAIN task.suite}
    IN /\ fault.how = "none" /\ task.complete =>
            result.status = IF R!Covers(task.suite, task.plugin, task.profiles)
                            THEN "passed" ELSE "refused"
       /\ /\ fault.how \in {"wrong", "crashes"}
          /\ fault.capability \in offered \ {"interpreter"}
          /\ fault.capability = "text_decoder" /\ fault.how = "wrong" =>
               "text_encoder" \in offered
          => result.status # "passed"
       /\ fault.how = "careless" /\ fault.capability \in offered =>
            \A case \in cases :
              Exposes(case, fault.capability) => result.status # "passed"
=============================================================================
