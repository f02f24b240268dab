--------------------------- MODULE DefaultProviders ---------------------------
(***************************************************************************)
(* The providers of the default plugin, codecs/zlib.py,                    *)
(* transforms/delta8.py and files/profile.py, as the answers they give to  *)
(* the calls of their host.  A call is <<operation, argument...>>; an      *)
(* answer is a value, one of the two rejections of core/extensions.py, or  *)
(* a crash.  The text of a provider is its Stage parameters or its stream  *)
(* metadata.                                                               *)
(*                                                                         *)
(* Bytes are naturals below Base.  An encoded payload is [bytes] for       *)
(* delta8; for zlib it is what its framing and its DEFLATE data say:       *)
(*   header      "plain", "preset" (a dictionary is named) or "invalid"    *)
(*   dictionary  the preset dictionary that was named                      *)
(*   data        the bytes that come out of it up to where it ends         *)
(*   end         "complete", "truncated" or "corrupt"                      *)
(*   trailing    whether bytes follow the end.                             *)
(***************************************************************************)
EXTENDS Integers, Sequences
LOCAL INSTANCE SequencesExt

CONSTANTS
  Base,              \* 256, the values of a byte
  MaxLevel,          \* _MAX_COMPRESSION_LEVEL
  MaxDictionary,     \* _MAX_DICTIONARY_SIZE
  Overhead,          \* bytes of zlib's own framing
  NoCeiling,         \* max_output_size is None
  NFC(_),            \* the canonical composition of a file name, and whether
  IsFileName(_)      \* normalize_file_name() takes the composed one

Returns(value) == [kind |-> "returns", value |-> value]
Rejects == [kind |-> "rejects"]                \* an exact ProviderRejectedError
RejectsAt(maximum, observed) ==                \* _ProviderOutputLimitRejected
  [kind |-> "limit", maximum |-> maximum, observed |-> observed]
Crashes == [kind |-> "raises"]                 \* any other exception

\* require_stage_output_size(), then the value.
Bounded(value, size, ceiling) ==
  IF ceiling # NoCeiling /\ size > ceiling THEN RejectsAt(ceiling, size)
  ELSE Returns(value)

EncodedSize(payload) ==
  IF "bytes" \in DOMAIN payload THEN Len(payload.bytes)
  ELSE Overhead + Len(payload.data)

-----------------------------------------------------------------------------
(* delta8                                                                  *)

Differences(data) ==
  [i \in DOMAIN data |-> (data[i] - (IF i = 1 THEN 0 ELSE data[i - 1])) % Base]

Sums(deltas) ==
  FoldLeft(LAMBDA out, d :
             Append(out, ((IF out = <<>> THEN 0 ELSE Last(out)) + d) % Base),
           <<>>, deltas)

Delta8(call) ==
  CASE call[1] \in {"bind_encoder", "bind_decoder"} ->
         IF call[2] = <<>> THEN Returns("bound") ELSE Rejects
    [] call[1] = "encode" ->
         Bounded([bytes |-> Differences(call[3])], Len(call[3]), call[4])
    [] call[1] = "decode" ->
         Bounded(Sums(call[3].bytes), Len(call[3].bytes), call[4])

-----------------------------------------------------------------------------
(* zlib, whose parameters are a level, and zlib with a dictionary, whose   *)
(* parameters are a level and the bytes of the dictionary.                 *)

ZlibAccepts(needs_dictionary, parameters) ==
  /\ parameters # <<>> /\ parameters[1] \in 0..MaxLevel
  /\ Len(parameters) - 1 \in (IF needs_dictionary THEN 1..MaxDictionary ELSE {0})

Interpretation(parameters) ==
  [error |-> FALSE, fields |-> <<parameters[1], Tail(parameters)>>]
FailedInterpretation == [error |-> TRUE, fields |-> <<>>]

\* _BoundZlibEncoder: the output is refused once a part takes it past the ceiling.
ZlibEncode(dictionary, data, ceiling) ==
  LET payload == [header |-> IF dictionary = <<>> THEN "plain" ELSE "preset",
                  dictionary |-> dictionary, data |-> data,
                  end |-> "complete", trailing |-> FALSE]
  IN Bounded(payload, EncodedSize(payload), ceiling)

\* _BoundZlibDecoder: one byte past the ceiling is asked for; what comes after
\* it is not read.
ZlibDecode(dictionary, payload, ceiling) ==
  LET output == IF ceiling = NoCeiling \/ Len(payload.data) <= ceiling
                THEN payload.data ELSE SubSeq(payload.data, 1, ceiling + 1)
      named == IF dictionary = <<>> THEN payload.header = "plain"
               ELSE payload.header = "preset" /\ payload.dictionary = dictionary
      answer == Bounded(output, Len(output), ceiling)
  IN IF ~named \/ (output = payload.data /\ payload.end = "corrupt") THEN Rejects
     ELSE IF answer.kind = "limit" THEN answer
     ELSE IF payload.end = "truncated" \/ payload.trailing THEN Rejects
     ELSE answer

Zlib(needs_dictionary, call) ==
  LET accepts == ZlibAccepts(needs_dictionary, call[2]) IN
  CASE call[1] \in {"bind_encoder", "bind_decoder"} ->
         IF accepts THEN Returns("bound") ELSE Rejects
    [] call[1] = "decode_text" -> IF accepts THEN Returns(call[2]) ELSE Rejects
    [] call[1] = "encode_text" -> Returns(call[2])
    [] call[1] = "interpret_text" ->
         Returns(IF accepts THEN Interpretation(call[2]) ELSE FailedInterpretation)
    [] call[1] = "encode" -> ZlibEncode(Tail(call[2]), call[3], call[4])
    [] call[1] = "decode" -> ZlibDecode(Tail(call[2]), call[3], call[4])

-----------------------------------------------------------------------------
(* obst.file@1: the metadata of a stream is its file name.                 *)

File(call) ==
  LET name == call[2]
      accepts == NFC(name) = name /\ IsFileName(name)
  IN CASE call[1] = "decode_text" -> IF accepts THEN Returns(name) ELSE Rejects
       [] call[1] = "encode_text" ->
            IF IsFileName(NFC(name)) THEN Returns(NFC(name)) ELSE Crashes
       [] call[1] = "interpret_text" ->
            Returns([error |-> ~accepts, fields |-> IF accepts THEN <<name>> ELSE <<>>])

Answer(id, call) ==
  CASE id = "delta8" -> Delta8(call)
    [] id = "zlib" -> Zlib(FALSE, call)
    [] id = "zlib_dictionary" -> Zlib(TRUE, call)
    [] id = "file" -> File(call)
=============================================================================
