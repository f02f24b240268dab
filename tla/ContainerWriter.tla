--------------------------- MODULE ContainerWriter ---------------------------
(***************************************************************************)
(* One ContainerWriter session, src/obst/core/container.py, over a binary  *)
(* target that may accept fewer bytes than offered, or raise.              *)
(*                                                                         *)
(* A public call validates and charges first (one action: no foreign code  *)
(* runs in between) and then emits its bytes with write_all(), one         *)
(* target.write() per action, so that what the target holds is visible     *)
(* after every single write.  Between two calls the other components of    *)
(* the operation may charge the accountant they share with the writer.     *)
(***************************************************************************)
EXTENDS ContainerValidity, ResourceAccounting

CONSTANTS
  Policies,         \* policies an operation may have selected
  Chunks,           \* chunks a caller may hand to write_chunk()
  SharedResources,  \* resources that the components sharing the accountant
                    \* charge while the session is open
  SharedBound       \* bound: no foreign charge lifts a total above it

ASSUME WriterAssumption ==
  /\ Policies \subseteq Policy
  /\ \A c \in Chunks : IsChunk(c)
  /\ SharedResources \subseteq TotalResources
  /\ SharedBound \in Nat

VARIABLES
  writerPolicy,   \* the accountant's policy
  writerAccount,  \* the accountant's _values
  writerState,    \* _state; "new" before __init__, "raised" if it raised
  nextSequences,  \* _next_sequences
  writerTotals,   \* _chunk_count, _logical_size, _encoded_payload_size
  bytesWritten,   \* _target.bytes_written
  outgoing,       \* the record write_all() is emitting, and its rest
  target,         \* complete records the binary target holds
  torn,           \* bytes the target holds after the last complete record
  targetFaulted   \* history: the target raised or broke its contract

writerVars == <<writerPolicy, writerAccount, writerState, nextSequences,
                writerTotals, bytesWritten, outgoing, target, torn,
                targetFaulted>>

-----------------------------------------------------------------------------
NotSending == [record |-> [kind |-> "none"], remaining |-> 0]

Sending(r) == [record |-> r, remaining |-> RecordSize(r)]

Idle == outgoing = NotSending

WriterInit ==
  /\ writerPolicy \in Policies
  /\ writerAccount = NewAccount
  /\ writerState = "new"
  /\ nextSequences = [s \in StreamIds |-> 0]
  /\ writerTotals = NoTotals
  /\ bytesWritten = 0
  /\ outgoing = NotSending
  /\ target = <<>>
  /\ torn = 0
  /\ targetFaulted = FALSE

-----------------------------------------------------------------------------
(* What the calls require.                                                 *)

\* A seeded fault: the capacity check forgets what was written before.
HasRoomOnItsOwn(amount) == Allows(writerPolicy, "container_bytes", amount)

\* _require_container_capacity(): the check counts this session's own bytes.
HasRoom(amount) ==
  Allows(writerPolicy, "container_bytes", bytesWritten + amount)

\* A seeded fault: the chunk is preflighted without the commit behind it.
RoomWithoutCommit(c) == ChunkSize(c)

\* Room a chunk needs: its record and the terminal commit after it.
RoomForChunk(c) == ChunkSize(c) + RecordHeaderSize

\* _check_chunk_capacity(), which is also what preflight_chunk() does.
FitsChunkCapacity(c) ==
  /\ Allows(writerPolicy, "logical_chunk_bytes", c.logical)
  /\ Allows(writerPolicy, "chunks", writerAccount["chunks"] + 1)
  /\ Allows(writerPolicy, "logical_bytes", writerTotals.logical + c.logical)

TotalsFit(totals) ==
  /\ Representable(totals.chunks)
  /\ Representable(totals.logical)
  /\ Representable(totals.encoded)

\* _preflight_terminal_totals()
TotalsRepresentable(c) ==
  /\ TotalsFit(AddTotals(writerTotals, c))
  /\ Representable(bytesWritten + ChunkSize(c))

\* Index lookups, the sequence comparison and _check_chunk_capacity().
Admissible(c) ==
  /\ c.stream \in StreamIds
  /\ c.recipe \in RecipeIds
  /\ c.sequence = nextSequences[c.stream]
  /\ FitsChunkCapacity(c)

EncodedRecordable(c) ==
  CanRecord(writerPolicy, writerAccount, "encoded_chunk_bytes", c.encoded)

\* The checks of write_chunk() after the encoded size was recorded.
Emittable(c) ==
  /\ TotalsRepresentable(c)
  /\ HasRoom(RoomForChunk(c))

\* The terminal commit can be encoded and written.
CanFinish ==
  /\ TotalsFit(writerTotals)
  /\ Representable(bytesWritten)
  /\ HasRoom(RecordHeaderSize)

-----------------------------------------------------------------------------
(* __init__: record the manifest, check the smallest container, then send  *)
(* the preamble.                                                           *)

\* The manifest encoder: what the manifest counts, then its size.
Counting(counts) == Charged(writerPolicy, Session(writerAccount), counts)

Measuring(counts, size) == counts \o << <<"manifest_bytes", size>> >>

Construct(counts) ==
  LET manifest == Counting(Measuring(counts, ManifestSize)) IN
  /\ writerState = "new"
  /\ manifest.ok
  /\ HasRoom(PreambleSize + RecordHeaderSize)
  /\ writerState' = "writing"
  /\ writerAccount' = manifest.account
  /\ outgoing' = Sending(Preamble)
  /\ UNCHANGED <<writerPolicy, nextSequences, writerTotals, bytesWritten,
                 target, torn, targetFaulted>>

\* The constructor raises before it wrote anything, over a count, the size, or
\* the ceiling of the container.  The manifest encoder records the growing size
\* part by part, so a refused size leaves some smaller peak.
ConstructRefused(counts) ==
  LET manifest == Counting(Measuring(counts, ManifestSize)) IN
  /\ writerState = "new"
  /\ \/ /\ ~Counting(counts).ok
        /\ writerAccount' = Counting(counts).account
     \/ /\ Counting(counts).ok /\ ~manifest.ok
        /\ \E part \in 0 .. (ManifestSize - 1) :
             /\ Counting(Measuring(counts, part)).ok
             /\ writerAccount' = Counting(Measuring(counts, part)).account
     \/ /\ manifest.ok
        /\ ~HasRoom(PreambleSize + RecordHeaderSize)
        /\ writerAccount' = manifest.account
  /\ writerState' = "raised"
  /\ UNCHANGED <<writerPolicy, nextSequences, writerTotals, bytesWritten,
                 outgoing, target, torn, targetFaulted>>

-----------------------------------------------------------------------------
(* write_chunk(): the three records are charged before the first byte.     *)

\* A seeded fault: finish() and write_chunk() without _require_writing().
MayAlwaysCall == Idle /\ writerState # "new"

\* _require_writing(); a caller only holds a constructed, returned session.
MayCall == Idle /\ writerState = "writing"

ChargedForChunk(c) ==
  LET encoded == Recorded(writerAccount, "encoded_chunk_bytes", c.encoded)
      logical == Recorded(encoded, "logical_chunk_bytes", c.logical)
  IN  Recorded(logical, "chunks", 1)

WriteChunk(c) ==
  /\ MayCall
  /\ Admissible(c)
  /\ EncodedRecordable(c)
  /\ Emittable(c)
  /\ writerAccount' = ChargedForChunk(c)
  /\ outgoing' = Sending(ChunkRecord(c))
  /\ UNCHANGED <<writerPolicy, writerState, nextSequences, writerTotals,
                 bytesWritten, target, torn, targetFaulted>>

\* The encoded size is recorded before the last two checks.
WriteChunkRefused(c) ==
  /\ MayCall
  /\ \/ /\ ~(Admissible(c) /\ EncodedRecordable(c))
        /\ UNCHANGED writerAccount
     \/ /\ Admissible(c)
        /\ EncodedRecordable(c)
        /\ ~Emittable(c)
        /\ writerAccount' =
             Recorded(writerAccount, "encoded_chunk_bytes", c.encoded)
  /\ writerState' = "failed"
  /\ UNCHANGED <<writerPolicy, nextSequences, writerTotals, bytesWritten,
                 outgoing, target, torn, targetFaulted>>

-----------------------------------------------------------------------------
(* finish() repeats the checks of the last chunk for the commit alone.     *)
(* They cannot fail: FinishAlwaysPossible, below.                          *)

Finish ==
  /\ MayCall
  /\ CanFinish
  /\ outgoing' = Sending(CommitRecord(writerTotals, bytesWritten, target))
  /\ UNCHANGED <<writerPolicy, writerAccount, writerState, nextSequences,
                 writerTotals, bytesWritten, target, torn, targetFaulted>>

-----------------------------------------------------------------------------
(* write_all() over _CountingWriter.write(): the target accepts bytes, and *)
(* only then are they charged and counted.                                 *)

\* What the target holds once it accepted n more bytes.
Accepted(n) ==
  IF n = outgoing.remaining
    THEN target' = Append(target, outgoing.record) /\ torn' = 0
    ELSE target' = target /\ torn' = torn + n

TotalsAfter(r) ==
  IF r.kind = "chunk" THEN AddTotals(writerTotals, r.chunk) ELSE writerTotals

\* A seeded fault: the sequence number of a written chunk is not advanced.
ReturnedSameSequence(r) ==
  /\ UNCHANGED nextSequences
  /\ writerTotals' = TotalsAfter(r)
  /\ writerState' = IF r.kind = "commit" THEN "complete" ELSE writerState

\* The bookkeeping of the call whose last byte was just counted.
Returned(r) ==
  /\ nextSequences' =
       IF r.kind = "chunk"
         THEN [nextSequences EXCEPT ![r.chunk.stream] = r.chunk.sequence + 1]
         ELSE nextSequences
  /\ writerTotals' = TotalsAfter(r)
  /\ writerState' = IF r.kind = "commit" THEN "complete" ELSE writerState

\* A seeded fault: a count above the offer is believed.
AnyPositiveResult == 1 .. (outgoing.remaining + 1)

\* validate_write_result()
WriteResults == 1 .. outgoing.remaining

TargetAccepts(n) ==
  /\ ~Idle
  /\ CanRecord(writerPolicy, writerAccount, "container_bytes", n)
  /\ Accepted(n)
  /\ writerAccount' = Recorded(writerAccount, "container_bytes", n)
  /\ bytesWritten' = bytesWritten + n
  /\ IF n = outgoing.remaining
       THEN /\ Returned(outgoing.record)
            /\ outgoing' = NotSending
       ELSE /\ outgoing' = [outgoing EXCEPT !.remaining = @ - n]
            /\ UNCHANGED <<nextSequences, writerTotals, writerState>>
  /\ UNCHANGED <<writerPolicy, targetFaulted>>

\* A session whose call raised; a constructor that raised returns no session.
Broken == IF outgoing.record = Preamble THEN "raised" ELSE "failed"

\* The accountant refuses bytes the target has already accepted.
ChargeRefused(n) ==
  /\ ~Idle
  /\ ~CanRecord(writerPolicy, writerAccount, "container_bytes", n)
  /\ Accepted(n)
  /\ writerState' = Broken
  /\ outgoing' = NotSending
  /\ UNCHANGED <<writerPolicy, writerAccount, nextSequences, writerTotals,
                 bytesWritten, targetFaulted>>

\* The target raises, or reports an impossible count, having taken n bytes.
TargetRaises(n) ==
  /\ ~Idle
  /\ Accepted(n)
  /\ writerState' = Broken
  /\ outgoing' = NotSending
  /\ targetFaulted' = TRUE
  /\ UNCHANGED <<writerPolicy, writerAccount, nextSequences, writerTotals,
                 bytesWritten>>

-----------------------------------------------------------------------------
\* Another component of the operation charges the shared accountant.  It
\* runs between calls of the writer, never inside one.
ForeignCharge(r, n) ==
  /\ Idle
  /\ CanRecord(writerPolicy, writerAccount, r, n)
  /\ writerAccount[r] + n <= SharedBound
  /\ writerAccount' = Recorded(writerAccount, r, n)
  /\ UNCHANGED <<writerPolicy, writerState, nextSequences, writerTotals,
                 bytesWritten, outgoing, target, torn, targetFaulted>>

-----------------------------------------------------------------------------
\* One turn of the write_all() loop.
WriteStep ==
  \/ \E n \in WriteResults : TargetAccepts(n) \/ ChargeRefused(n)
  \/ \E n \in 0 .. outgoing.remaining : TargetRaises(n)

\* One step of a session whose manifest has these counts.
SessionNext(counts) ==
  \/ Construct(counts)
  \/ ConstructRefused(counts)
  \/ \E c \in Chunks : WriteChunk(c) \/ WriteChunkRefused(c)
  \/ Finish
  \/ WriteStep
  \/ \E r \in SharedResources : \E n \in 1 .. SharedBound : ForeignCharge(r, n)

WriterNext == SessionNext(Declarations)

WriterSpec == WriterInit /\ [][WriterNext]_writerVars

-----------------------------------------------------------------------------
(* Properties.                                                             *)

\* Bytes still owed to the target: the rest of the record, and the commit.
Outstanding ==
  outgoing.remaining
    + (IF outgoing.record.kind = "commit" THEN 0 ELSE RecordHeaderSize)

\* The variables hold values of their kind.
TypeOK ==
  /\ writerPolicy \in Policies
  /\ writerAccount \in Account
  /\ writerState \in {"new", "writing", "complete", "failed", "raised"}
  /\ nextSequences \in [StreamIds -> Nat]
  /\ writerTotals \in [chunks : Nat, logical : Nat, encoded : Nat]
  /\ bytesWritten \in Nat
  /\ outgoing.remaining \in Nat
  /\ torn \in Nat
  /\ targetFaulted \in BOOLEAN

\* However many components charge it, the accountant records nothing above its
\* ceilings: the writer charges CHUNKS after a check of its own.
AccountWithinPolicy == WithinPolicy(writerPolicy, writerAccount)

\* A session that is still writing can always be finished: whatever chunks it
\* accepted, the terminal commit is encodable, inside the byte ceiling, and the
\* accountant will take its charge.  write_chunk() has to refuse early enough
\* for finish() never to be refused.
FinishAlwaysPossible ==
  writerState = "writing" /\ Idle =>
    /\ CanFinish
    /\ CanRecord(writerPolicy, writerAccount, "container_bytes",
                 RecordHeaderSize)

\* Why that is so: while a record is being sent, the room for the rest of it
\* and for the commit behind it stays reserved, in the byte ceiling as in the
\* wire integers, and the accountant has charged exactly the counted bytes.
\* (For a session whose container bytes nobody else charges.)
EmissionReserved ==
  /\ writerAccount["container_bytes"] = bytesWritten
  /\ ~Idle =>
       /\ writerState = "writing"
       /\ HasRoom(Outstanding)
       /\ outgoing.record.kind # "commit" =>
            /\ Representable(bytesWritten + outgoing.remaining)
            /\ TotalsFit(TotalsAfter(outgoing.record))
  /\ writerState = "writing" /\ Idle => CanFinish
  /\ writerState = "new" => Idle /\ bytesWritten = 0 /\ writerTotals = NoTotals

\* A policy refusal never stops a record half way: when no write_all() is
\* running, bytes after the last complete record mean that the target raised.
NoTornRecordWithoutFault == Idle /\ torn > 0 => targetFaulted

\* What a completed session left on the target is a valid container: the
\* commit states the real totals, size and content of what precedes it, and
\* nothing follows it.
CompletedContainerIsValid ==
  writerState = "complete" => ValidContainer(target) /\ torn = 0

\* The first failure and the completion are final: the target receives no
\* more bytes, so that a retry never appends to an uncertain prefix.
NothingAfterTheEnd ==
  [][(writerState \in {"complete", "failed", "raised"})
       => UNCHANGED <<writerState, target, torn, bytesWritten>>
    ]_writerVars
=============================================================================
