--------------------------- MODULE ContainerReader ---------------------------
(***************************************************************************)
(* One ContainerReader session, src/obst/core/container.py, over a source  *)
(* that holds some sequence of records: a whole container, one whose       *)
(* records were damaged, dropped, repeated or reordered, or a prefix.      *)
(*                                                                         *)
(* The constructor, and each next() on the generator iter_chunks(), runs   *)
(* without giving way to its caller, and is one action.  Between them the  *)
(* consumer may do other work that charges the shared accountant, or drop  *)
(* the generator.  A second generator is refused by the state check before *)
(* it touches the session, and summary only looks: neither is a step.      *)
(***************************************************************************)
EXTENDS ContainerValidity, ResourceAccounting

CONSTANTS
  ManifestHeaderSize,  \* ManifestHeader.size
  ReaderPolicies,   \* policies an operation may have selected
  Sources,          \* what the binary source may hold
  ReaderShared,     \* totals the consumer charges between two chunks
  ReaderBound       \* bound: no foreign charge lifts a total above it

\* Records, or parts of them, of which the first is a preamble.
IsSource(s) ==
  /\ s \in Seq({s[i] : i \in DOMAIN s})
  /\ \A i \in DOMAIN s :
       /\ IsEntry(s[i])
       /\ (s[i].record.kind = "preamble") = (i = 1)

ASSUME ReaderAssumption ==
  /\ ManifestHeaderSize \in 1 .. ManifestSize
  /\ ReaderPolicies \subseteq Policy
  /\ \A s \in Sources : IsSource(s)
  /\ ReaderShared \subseteq TotalResources
  /\ ReaderBound \in Nat

VARIABLES
  readerPolicy,       \* the accountant's policy
  readerAccount,      \* the accountant's _values
  readerState,        \* _state; "new" before __init__, "raised" if it raised
  source,             \* what the binary source holds
  position,           \* records of the source that were consumed
  bytesRead,          \* _source.bytes_read
  expectedSequences,  \* _next_sequences
  readerTotals,       \* _chunk_count, _logical_size, _encoded_payload_size
  delivered,          \* history: the chunks yielded to the consumer
  interrupted         \* history: the source raised, the accountant refused
                      \* bytes for foreign charges, or the generator was closed

readerVars == <<readerPolicy, readerAccount, readerState, source, position,
                bytesRead, expectedSequences, readerTotals, delivered,
                interrupted>>

\* What iter_chunks() and the constructor leave alone when they raise.
sessionVars == <<readerPolicy, source, position, readerTotals, delivered>>

-----------------------------------------------------------------------------
ReaderInit ==
  /\ readerPolicy \in ReaderPolicies
  /\ readerAccount = NewAccount
  /\ readerState = "new"
  /\ source \in Sources
  /\ position = 0
  /\ bytesRead = 0
  /\ expectedSequences = [s \in StreamIds |-> 0]
  /\ readerTotals = NoTotals
  /\ delivered = <<>>
  /\ interrupted = FALSE

-----------------------------------------------------------------------------
\* A seeded fault: the ceiling itself is refused.
HasRoomStrictlyAfter(n, amount) ==
  Allows(readerPolicy, "container_bytes", bytesRead + n + amount + 1)

\* _require_container_capacity(), after n more bytes of this call were read.
HasRoomAfter(n, amount) ==
  Allows(readerPolicy, "container_bytes", bytesRead + n + amount)

\* The account after n bytes of this call passed _CountingReader.read().
Counted(n) == Recorded(readerAccount, "container_bytes", n)

Chargeable(n) == CanRecord(readerPolicy, readerAccount, "container_bytes", n)

\* The bytes of an entry that a read of the next n bytes finds.
Found(entry, n) == IF entry.present < n THEN entry.present ELSE n

\* A call that raises after it read n bytes.
Raise(state, account, n) ==
  /\ readerState' = state
  /\ readerAccount' = account
  /\ bytesRead' = bytesRead + n
  /\ UNCHANGED sessionVars

-----------------------------------------------------------------------------
(* __init__                                                                *)

\* The container header, the manifest header and the manifest body, each of
\* which has a checksum of its own.  Where it ends, and how many observations
\* of the manifest are made once it was read, none before the first.
Parts == 1 .. 3

ReadTo(part) ==
  IF part = 0 THEN 0
    ELSE <<HeaderSize, HeaderSize + ManifestHeaderSize, PreambleSize>>[part]

Observations == <<<<"manifest_bytes", ManifestSize>>>> \o Declarations

ObservedTo(part) ==
  IF part = 0 THEN 0 ELSE <<3, 4, Len(Observations)>>[part]

\* n bytes of the preamble were read, and the first k observations made.
Opening(n, k) ==
  Charged(readerPolicy, Session(Counted(n)), SubSeq(Observations, 1, k))

Open ==
  LET opened == Opening(PreambleSize, Len(Observations)) IN
  /\ readerState = "new"
  /\ HasRoomAfter(0, HeaderSize)
  /\ HasRoomAfter(HeaderSize, ManifestSize)
  /\ source # <<>>
  /\ Whole(Head(source))
  /\ Chargeable(PreambleSize)
  /\ opened.ok
  /\ readerState' = "ready"
  /\ readerAccount' = opened.account
  /\ position' = 1
  /\ bytesRead' = PreambleSize
  /\ UNCHANGED <<readerPolicy, source, expectedSequences, readerTotals,
                 delivered, interrupted>>

\* The reader comes to read the next part: there was room for a header, and the
\* parts before are whole, their numbers allowed, and, once the first of them
\* told the size of the manifest, there was room for it.  What was damaged in
\* the manifest may be its header or its body.
Reaches(part) ==
  /\ readerState = "new"
  /\ HasRoomAfter(0, HeaderSize)
  /\ part > 1 =>
       /\ source # <<>>
       /\ Head(source).present >= ReadTo(part - 1)
       /\ Head(source).damage # "header"
       /\ Opening(ReadTo(part - 1), ObservedTo(part - 1)).ok
       /\ HasRoomAfter(HeaderSize, ManifestSize)

\* The part is not all there, or its checksum does not match.
MayBeBroken(part) ==
  LET first == Head(source) IN
  \/ first.present < ReadTo(part)
  \/ first.damage = (IF part = 1 THEN "header" ELSE "payload")

MayBeIntact(part) ==
  LET first == Head(source) IN
  /\ first.present >= ReadTo(part)
  /\ \/ first.damage = "none"
     \/ first.damage = "payload" /\ part < 3

\* The checks in the order of the code, each with what was charged before it.
OpenRefused ==
  /\ \/ /\ readerState = "new"
        /\ ~HasRoomAfter(0, HeaderSize) \/ source = <<>>
        /\ Raise("raised", readerAccount, 0)
     \/ \E part \in Parts :
          /\ Reaches(part) /\ source # <<>>
          /\ LET n == Found(Head(source), ReadTo(part))
                 before == Opening(n, ObservedTo(part - 1))
                 after == Opening(n, ObservedTo(part))
             IN
             /\ Chargeable(n)
             /\ \/ /\ MayBeBroken(part)
                   /\ Raise("raised", before.account, n)
                \/ /\ MayBeIntact(part)
                   /\ ~after.ok \/ ~HasRoomAfter(HeaderSize, ManifestSize)
                   /\ Raise("raised", after.account, n)
  /\ UNCHANGED <<expectedSequences, interrupted>>

-----------------------------------------------------------------------------
(* iter_chunks(): one next() on the generator.                             *)

\* A seeded fault: a session that failed or completed can be resumed.
NeverRefusesIteration == readerState \notin {"new", "raised"}

\* The first next() needs READY, a later one resumes a suspended generator.
MayIterate == readerState \in {"ready", "consuming"}

AtEnd == position = Len(source)

Current == source[position + 1]

\* The next record's fixed header can be read and belongs to a record of kind
\* k.  The capacity of one header is checked before anything is read.
HeaderRead(k) ==
  /\ MayIterate
  /\ HasRoomAfter(0, RecordHeaderSize)
  /\ ~AtEnd
  /\ Current.record.kind = k
  /\ Current.present >= RecordHeaderSize
  /\ Chargeable(RecordHeaderSize)

\* A seeded fault: only a sequence number that was used before is refused.
NotRepeated(c) == c.sequence >= expectedSequences[c.stream]

InSequence(c) == c.sequence = expectedSequences[c.stream]

\* The identifiers and the sequence number of a chunk header.
Expected(c) ==
  /\ c.stream \in StreamIds
  /\ c.recipe \in RecipeIds
  /\ InSequence(c)

\* _parse_chunk_header() charges in this order, raising at the first refusal.
WithEncoded(c) ==
  Recorded(Counted(RecordHeaderSize), "encoded_chunk_bytes", c.encoded)
WithLogical(c) ==
  Recorded(WithEncoded(c), "logical_chunk_bytes", c.logical)

WithChunk(c) == Recorded(WithLogical(c), "chunks", 1)

EncodedAllowed(c) ==
  CanRecord(readerPolicy, readerAccount, "encoded_chunk_bytes", c.encoded)
LogicalAllowed(c) ==
  CanRecord(readerPolicy, readerAccount, "logical_chunk_bytes", c.logical)
ChunkAllowed == CanRecord(readerPolicy, readerAccount, "chunks", 1)

HeaderAccepted(c) ==
  /\ Current.damage # "header"
  /\ EncodedAllowed(c)
  /\ LogicalAllowed(c)
  /\ Expected(c)
  /\ ChunkAllowed

\* A chunk passed every check and is yielded.
YieldChunk ==
  /\ HeaderRead("chunk")
  /\ LET c == Current.record.chunk IN
     /\ HeaderAccepted(c)
     /\ HasRoomAfter(RecordHeaderSize, c.encoded)
     /\ Whole(Current)
     /\ Chargeable(ChunkSize(c))
     /\ readerAccount' = Recorded(WithChunk(c), "container_bytes", c.encoded)
     /\ expectedSequences' = [expectedSequences EXCEPT ![c.stream] = @ + 1]
     /\ bytesRead' = bytesRead + ChunkSize(c)
     /\ readerTotals' = AddTotals(readerTotals, c)
     /\ delivered' = Append(delivered, c)
  /\ position' = position + 1
  /\ readerState' = "consuming"
  /\ UNCHANGED <<readerPolicy, source, interrupted>>

\* _parse_chunk_header() raises.
RefuseChunkHeader ==
  /\ HeaderRead("chunk")
  /\ LET c == Current.record.chunk
         decoded == Current.damage # "header"
     IN
     \/ /\ ~decoded \/ ~EncodedAllowed(c)
        /\ Raise("failed", Counted(RecordHeaderSize), RecordHeaderSize)
     \/ /\ decoded /\ EncodedAllowed(c) /\ ~LogicalAllowed(c)
        /\ Raise("failed", WithEncoded(c), RecordHeaderSize)
     \/ /\ decoded /\ EncodedAllowed(c) /\ LogicalAllowed(c)
        /\ ~Expected(c) \/ ~ChunkAllowed
        /\ Raise("failed", WithLogical(c), RecordHeaderSize)
  /\ UNCHANGED <<expectedSequences, interrupted>>

\* The header was accepted, and counted, and the payload is not.
RefusePayload ==
  /\ HeaderRead("chunk")
  /\ LET c == Current.record.chunk
         payload == Current.present - RecordHeaderSize
     IN
     /\ HeaderAccepted(c)
     /\ \/ /\ ~HasRoomAfter(RecordHeaderSize, c.encoded)
           /\ Raise("failed", WithChunk(c), RecordHeaderSize)
        \/ /\ HasRoomAfter(RecordHeaderSize, c.encoded)
           /\ ~Whole(Current)
           /\ Chargeable(Current.present)
           /\ Raise("failed",
                    Recorded(WithChunk(c), "container_bytes", payload),
                    Current.present)
     /\ expectedSequences' = [expectedSequences EXCEPT ![c.stream] = @ + 1]
  /\ UNCHANGED interrupted

\* No room for a header, a clean end without commit, or a torn header.
RefuseRecord ==
  /\ MayIterate
  /\ \/ /\ ~HasRoomAfter(0, RecordHeaderSize) \/ AtEnd
        /\ Raise("failed", readerAccount, 0)
     \/ /\ HasRoomAfter(0, RecordHeaderSize) /\ ~AtEnd
        /\ Current.present < RecordHeaderSize
        /\ Chargeable(Current.present)
        /\ Raise("failed", Counted(Current.present), Current.present)
  /\ UNCHANGED <<expectedSequences, interrupted>>

-----------------------------------------------------------------------------
(* The terminal commit.                                                    *)

\* The representation hashed so far.
Content == [i \in 1 .. position |-> source[i].record]

\* A seeded fault: the content hash is not compared.
CommitTotalsMatch(commit) ==
  /\ commit.totals = readerTotals
  /\ commit.committed = bytesRead

\* A seeded fault: the commit is compared with the size after it was read.
CommitMatchesItsEnd(commit) ==
  /\ commit.totals = readerTotals
  /\ commit.committed = bytesRead + RecordHeaderSize
  /\ commit.content = Content

\* _validate_terminal_commit() against this session's own observations.
CommitMatches(commit) ==
  /\ commit.totals = readerTotals
  /\ commit.committed = bytesRead
  /\ commit.content = Content

\* read_boundary_probe() returns nothing.
NothingFollows == position + 1 = Len(source)

CommitAccepted ==
  /\ Current.damage = "none"
  /\ CommitMatches(Current.record)
  /\ NothingFollows

AcceptCommit ==
  /\ HeaderRead("commit")
  /\ CommitAccepted
  /\ readerState' = "complete"
  /\ readerAccount' = Counted(RecordHeaderSize)
  /\ position' = position + 1
  /\ bytesRead' = bytesRead + RecordHeaderSize
  /\ UNCHANGED <<readerPolicy, source, expectedSequences, readerTotals,
                 delivered, interrupted>>

RefuseCommit ==
  /\ HeaderRead("commit")
  /\ ~CommitAccepted
  /\ Raise("failed", Counted(RecordHeaderSize), RecordHeaderSize)
  /\ UNCHANGED <<expectedSequences, interrupted>>

-----------------------------------------------------------------------------
(* What happens to a session from outside.                                 *)

\* A read does not come back with its bytes: the source raises, or foreign
\* charges have used up the room for them.  n bytes were counted before.
ReadRaises(n) ==
  /\ Chargeable(n)
  /\ interrupted' = TRUE
  /\ \/ /\ \E part \in Parts :
             /\ Reaches(part)
             /\ n \in ReadTo(part - 1) .. (ReadTo(part) - 1)
             /\ IF source = <<>> THEN n = 0 ELSE n <= Head(source).present
             /\ Raise("raised", Opening(n, ObservedTo(part - 1)).account, n)
        /\ UNCHANGED expectedSequences
     \/ /\ MayIterate /\ HasRoomAfter(0, RecordHeaderSize)
        /\ n < RecordHeaderSize
        /\ IF AtEnd THEN n = 0 ELSE n <= Current.present
        /\ Raise("failed", Counted(n), n)
        /\ UNCHANGED expectedSequences
     \/ /\ HeaderRead("chunk")
        /\ n \in RecordHeaderSize .. (Current.present - 1)
        /\ LET c == Current.record.chunk
               payload == n - RecordHeaderSize
           IN
           /\ HeaderAccepted(c)
           /\ HasRoomAfter(RecordHeaderSize, c.encoded)
           /\ Raise("failed",
                    Recorded(WithChunk(c), "container_bytes", payload), n)
           /\ expectedSequences' =
                [expectedSequences EXCEPT ![c.stream] = @ + 1]

\* The boundary probe raises, after a matching commit was read.
ProbeRaises ==
  /\ HeaderRead("commit")
  /\ Current.damage = "none"
  /\ CommitMatches(Current.record)
  /\ interrupted' = TRUE
  /\ Raise("failed", Counted(RecordHeaderSize), RecordHeaderSize)
  /\ UNCHANGED expectedSequences

\* The consumer closes or drops the generator while it is suspended at a
\* yield: the finally block turns CONSUMING into FAILED.
CloseIterator ==
  /\ readerState = "consuming"
  /\ interrupted' = TRUE
  /\ Raise("failed", readerAccount, 0)
  /\ UNCHANGED expectedSequences

\* The consumer, between two chunks, charges the accountant it shares.
ConsumerCharges(r, n) ==
  /\ readerState \in {"new", "ready", "consuming"}
  /\ CanRecord(readerPolicy, readerAccount, r, n)
  /\ readerAccount[r] + n <= ReaderBound
  /\ readerAccount' = Recorded(readerAccount, r, n)
  /\ UNCHANGED <<readerPolicy, readerState, source, position, bytesRead,
                 expectedSequences, readerTotals, delivered, interrupted>>

-----------------------------------------------------------------------------
\* One next() that comes back, with a chunk, the end, or an error.
NextChunk ==
  \/ YieldChunk
  \/ RefuseRecord
  \/ RefuseChunkHeader
  \/ RefusePayload
  \/ AcceptCommit
  \/ RefuseCommit

\* No call reads more than one record.
LongestRead ==
  IF readerState = "new" THEN PreambleSize
    ELSE IF AtEnd THEN 0 ELSE Current.present

ReaderNext ==
  \/ Open
  \/ OpenRefused
  \/ NextChunk
  \/ \E n \in 0 .. LongestRead : ReadRaises(n)
  \/ ProbeRaises
  \/ CloseIterator
  \/ \E r \in ReaderShared : \E n \in 1 .. ReaderBound : ConsumerCharges(r, n)

ReaderSpec == ReaderInit /\ [][ReaderNext]_readerVars

-----------------------------------------------------------------------------
(* Properties.                                                             *)

\* A session completes only over a valid, undamaged container that ends where
\* its commit ends, and by then it has yielded every chunk of it in order.
AcceptsOnlyValid ==
  readerState = "complete" =>
    /\ ValidSource(source)
    /\ delivered = ChunksOf(RecordsOf(source))

\* The ceilings leave room for the container a source holds.
Affordable ==
  LET records == RecordsOf(source) IN
  /\ \A i \in DOMAIN Observations :
       Allows(readerPolicy, Observations[i][1], Observations[i][2])
  /\ Allows(readerPolicy, "container_bytes", SizeOf(records))
  /\ Allows(readerPolicy, "chunks", TotalsOf(records).chunks)
  /\ \A i \in ChunkPositions(records) :
       /\ Allows(readerPolicy, "encoded_chunk_bytes", records[i].chunk.encoded)
       /\ Allows(readerPolicy, "logical_chunk_bytes", records[i].chunk.logical)

\* The other direction: an error means that the source holds no valid
\* container, or that it is above a ceiling, unless the session was interrupted
\* or somebody else charged its accountant as well.
RefusesOnlyInvalid ==
  /\ readerState \in {"failed", "raised"}
  /\ ~interrupted
  /\ readerAccount["container_bytes"] = bytesRead
  /\ "chunks" \notin ReaderShared
  => ~(ValidSource(source) /\ Affordable)

\* What the consumer was given before the commit is proven is already a run of
\* whole records of this source, numbered without a gap in every stream.
DeliveredIsCheckedPrefix ==
  LET consumed == SubSeq(source, 1, Len(delivered) + 1) IN
  delivered # <<>> =>
    /\ ValidContent(RecordsOf(consumed))
    /\ \A i \in DOMAIN consumed : Whole(consumed[i])
    /\ delivered = ChunksOf(RecordsOf(consumed))

\* A session that failed or completed stays so: no later call yields a chunk,
\* turns a failure into a summary, or reads on.
EndedForGood ==
  [][(readerState \in {"complete", "failed", "raised"})
       => UNCHANGED <<readerState, delivered, bytesRead>>]_readerVars
=============================================================================
