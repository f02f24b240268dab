--------------------------- MODULE ConformanceRunner ---------------------------
(***************************************************************************)
(* The portable conformance runner, src/obst/conformance/runner.py: the    *)
(* verdict on the providers of a plugin under one suite of cases.          *)
(*                                                                         *)
(* A case is [kind, extension, and what the kind needs].  Stage parameters *)
(* and stream metadata are handled alike and are both called text here.    *)
(* A plugin is [offers, answers]: per extension ID the capabilities it     *)
(* offers, and the answer to each call of one of them (see DefaultProviders). *)
(***************************************************************************)
EXTENDS DefaultProviders, FiniteSets

CONSTANT Ask(_, _, _)    \* the answer of a plugin's extension to a call

Can(plugin, id, capability) ==
  id \in DOMAIN plugin.offers /\ capability \in plugin.offers[id]

\* The call returns this value.
Gives(plugin, id, call, value) == Ask(plugin, id, call) = Returns(value)

\* _require_provider_rejection()
Refuses(plugin, id, call) == Ask(plugin, id, call) = Rejects

-----------------------------------------------------------------------------
(* A Recipe of the one Stage, under a policy without ceilings.             *)

\* RecipeDecoder.decode(): the last Stage may put out what is expected.
Recovers(plugin, id, parameters, encoded, logical) ==
  /\ Ask(plugin, id, <<"bind_decoder", parameters>>).kind = "returns"
  /\ Gives(plugin, id, <<"decode", parameters, encoded, Len(logical)>>, logical)

\* RecipeEncoder.encode()
Encoding(plugin, id, parameters, logical) ==
  IF Ask(plugin, id, <<"bind_encoder", parameters>>).kind = "returns"
  THEN Ask(plugin, id, <<"encode", parameters, logical, NoCeiling>>)
  ELSE Crashes

-----------------------------------------------------------------------------
(* The checks: a case passes when nothing is raised.                       *)

\* A seeded fault: what was encoded is not decoded again.
KnownAnswerOneWay(plugin, case) ==
  LET id == case.extension
      Recovered(encoded) ==
        Recovers(plugin, id, case.parameters, encoded, case.logical)
  IN /\ Can(plugin, id, "encoder") \/ Can(plugin, id, "decoder")
     /\ Can(plugin, id, "decoder") => Recovered(case.encoded)
     /\ Can(plugin, id, "encoder") =>
          LET answer == Encoding(plugin, id, case.parameters, case.logical) IN
          /\ answer.kind = "returns"
          /\ case.canonical_encoding => answer.value = case.encoded

KnownAnswer(plugin, case) ==
  LET id == case.extension
      Recovered(encoded) ==
        Recovers(plugin, id, case.parameters, encoded, case.logical)
  IN /\ Can(plugin, id, "encoder") \/ Can(plugin, id, "decoder")
     /\ Can(plugin, id, "decoder") => Recovered(case.encoded)
     /\ Can(plugin, id, "encoder") =>
          LET answer == Encoding(plugin, id, case.parameters, case.logical) IN
          /\ answer.kind = "returns"
          /\ case.canonical_encoding => answer.value = case.encoded
          /\ IF Can(plugin, id, "decoder") THEN Recovered(answer.value)
             ELSE case.canonical_encoding

\* Canonical Stage parameters or stream metadata.  <<>> is no interpretation.
CanonicalText(plugin, case) ==
  LET id == case.extension
      value == Ask(plugin, id, <<"decode_text", case.text>>)
  IN /\ Can(plugin, id, "text_decoder")
     /\ value.kind = "returns"
     /\ Can(plugin, id, "text_encoder") =>
          Gives(plugin, id, <<"encode_text", value.value>>, case.text)
     /\ case.interpretation # <<>> =>
          /\ Can(plugin, id, "interpreter")
          /\ Gives(plugin, id, <<"interpret_text", case.text>>, case.interpretation[1])

Bind(direction) == IF direction = "encoder" THEN "bind_encoder" ELSE "bind_decoder"

InterpretedAsError(plugin, id, text) ==
  LET answer == Ask(plugin, id, <<"interpret_text", text>>) IN
  answer.kind = "returns" /\ answer.value.error

BindRejection(plugin, case) ==
  LET id == case.extension IN
  /\ Can(plugin, id, "text_decoder") =>
       Refuses(plugin, id, <<"decode_text", case.text>>)
  /\ Can(plugin, id, "interpreter") => InterpretedAsError(plugin, id, case.text)
  /\ \A direction \in case.directions :
       /\ Can(plugin, id, direction)
       /\ Refuses(plugin, id, <<Bind(direction), case.text>>)

DecodeRejection(plugin, case) ==
  /\ Can(plugin, case.extension, "decoder")
  /\ Ask(plugin, case.extension, <<"bind_decoder", case.parameters>>).kind = "returns"
  /\ Refuses(plugin, case.extension,
             <<"decode", case.parameters, case.encoded, case.max_output_size>>)

\* _check_stage_output_limit() and _require_output_limit()
OutputLimit(plugin, case) ==
  LET id == case.extension
      maximum == case.max_output_size
      operation == IF case.direction = "encoder" THEN "encode" ELSE "decode"
      Size(value) == IF operation = "encode" THEN EncodedSize(value) ELSE Len(value)
      unbounded == Ask(plugin, id, <<operation, case.parameters, case.data, NoCeiling>>)
      bounded == Ask(plugin, id, <<operation, case.parameters, case.data, maximum>>)
  IN /\ Can(plugin, id, case.direction)
     /\ Ask(plugin, id, <<Bind(case.direction), case.parameters>>).kind = "returns"
     /\ unbounded.kind = "returns" /\ Size(unbounded.value) > maximum
     /\ bounded.kind = "limit"
     /\ bounded.maximum = maximum /\ bounded.observed > maximum

MetadataRejection(plugin, case) ==
  LET id == case.extension IN
  /\ Can(plugin, id, "text_decoder")
  /\ Refuses(plugin, id, <<"decode_text", case.text>>)
  /\ case.require_interpreter_error =>
       Can(plugin, id, "interpreter") /\ InterpretedAsError(plugin, id, case.text)

\* _check_case()
Passes(plugin, case) ==
  CASE case.kind = "stage_known_answer" -> KnownAnswer(plugin, case)
    [] case.kind \in {"stage_parameters", "stream_metadata"} ->
         CanonicalText(plugin, case)
    [] case.kind = "stage_bind_rejection" -> BindRejection(plugin, case)
    [] case.kind = "stage_decode_rejection" -> DecodeRejection(plugin, case)
    [] case.kind = "stage_output_limit" -> OutputLimit(plugin, case)
    [] case.kind = "stream_metadata_rejection" -> MetadataRejection(plugin, case)

-----------------------------------------------------------------------------
(* _validate_suite_coverage(), and the report.                             *)

HasCase(suite, id, kind) ==
  \E i \in DOMAIN suite : suite[i].extension = id /\ suite[i].kind = kind

Offers(plugin, id, capabilities) == plugin.offers[id] \cap capabilities # {}

Text == {"text_encoder", "text_decoder", "interpreter"}

\* profiles: the extensions that are stream profiles.
Covers(suite, plugin, profiles) ==
  /\ \A i \in DOMAIN suite : suite[i].extension \in DOMAIN plugin.offers
  /\ \A id \in DOMAIN plugin.offers \ profiles :
       /\ Offers(plugin, id, {"encoder", "decoder"}) =>
            HasCase(suite, id, "stage_known_answer")
       /\ Offers(plugin, id, Text) => HasCase(suite, id, "stage_parameters")
  /\ \A id \in DOMAIN plugin.offers \cap profiles :
       Offers(plugin, id, Text) => HasCase(suite, id, "stream_metadata")

\* run_conformance_suite()
Run(suite, plugin, profiles) ==
  IF ~Covers(suite, plugin, profiles) THEN "refused"
  ELSE IF \A i \in DOMAIN suite : Passes(plugin, suite[i]) THEN "passed"
  ELSE "failed"
=============================================================================
