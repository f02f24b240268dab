------------------------ MODULE ContainerTransferProofs ------------------------
(***************************************************************************)
(* Theorems about ContainerReader for every source, policy and sharing of  *)
(* the accountant: a session completes only over a valid container, errors *)
(* only mean that there is none or that it is above a ceiling, and what it *)
(* yields before the end is checked.                                       *)
(*                                                                         *)
(* Then theorems about ContainerTransfer, a writer and a reader with       *)
(* storage between them, which rest on the invariants of both: whatever    *)
(* storage does, the reader delivers what was written, stream by stream,   *)
(* and a policy that let a container be written lets it be read.           *)
(***************************************************************************)
EXTENDS ContainerTransfer, ContainerWriterProofs

-----------------------------------------------------------------------------
(* The inductive invariant.                                                *)

\* The first k records of the source.
Taken(k) == SubSeq(RecordsOf(source), 1, k)

ReaderType ==
  /\ readerPolicy \in Policy
  /\ readerAccount \in Account
  /\ readerState \in {"new", "raised", "ready", "consuming", "failed",
                      "complete"}
  /\ IsSource(source)
  /\ position \in 0 .. Len(source)
  /\ bytesRead \in Nat
  /\ expectedSequences \in [StreamIds -> Nat]
  /\ interrupted \in BOOLEAN

\* The first k records were consumed, found whole and yielded, and they could
\* precede a commit.
Checked(k) ==
  /\ k \in 1 .. Len(source)
  /\ ValidContent(Taken(k))
  /\ \A i \in 1 .. k : Whole(source[i])
  /\ delivered = ChunksOf(Taken(k))
  /\ readerTotals = TotalsOf(Taken(k))
  /\ Len(delivered) = k - 1

\* What a session in use knows of the records before its position.
InUse ==
  /\ bytesRead = SizeOf(Taken(position))
  /\ \A s \in StreamIds :
       expectedSequences[s] = Cardinality(Numbered(Taken(position), s))

PositionInv ==
  /\ readerState \in {"new", "raised"} =>
       position = 0 /\ delivered = <<>> /\ readerTotals = NoTotals
  /\ readerState \in {"ready", "consuming", "failed"} => Checked(position)
  /\ readerState \in {"new", "ready", "consuming"} => InUse
  /\ readerState = "complete" =>
       LET content == Taken(position - 1) IN
       /\ position = Len(source)
       /\ Checked(position - 1)
       /\ Whole(source[position])
       /\ source[position].record =
            CommitRecord(TotalsOf(content), SizeOf(content), content)

\* All bytes of this session were charged, and nobody lowers an account.
ChargedInv ==
  /\ bytesRead <= readerAccount["container_bytes"]
  /\ readerState \in {"new", "ready", "consuming"} =>
       /\ WithinPolicy(readerPolicy, readerAccount)
       /\ "chunks" \notin ReaderShared =>
            readerAccount["chunks"] = Len(delivered)

ReaderInv == ReaderType /\ PositionInv /\ ChargedInv

-----------------------------------------------------------------------------
(* The source.                                                             *)

RecordSet == {source[i].record : i \in DOMAIN source}

\* The source is a sequence of records that begins with the only preamble.
LEMMA SourceFacts ==
  ASSUME ReaderType
  PROVE  /\ Len(source) \in Nat /\ DOMAIN source = 1 .. Len(source)
         /\ \A i \in 1 .. Len(source) :
              /\ IsEntry(source[i])
              /\ (source[i].record.kind = "preamble") = (i = 1)
         /\ \A r \in RecordSet : IsRecord(r)
         /\ RecordsOf(source) \in Seq(RecordSet)
         /\ Len(RecordsOf(source)) = Len(source)
         /\ \A i \in 1 .. Len(source) :
              RecordsOf(source)[i] = source[i].record
<1>1. /\ source \in Seq({source[i] : i \in DOMAIN source})
      /\ \A i \in DOMAIN source :
           /\ IsEntry(source[i])
           /\ (source[i].record.kind = "preamble") = (i = 1)
  BY DEF ReaderType, IsSource
<1>2. Len(source) \in Nat /\ DOMAIN source = 1 .. Len(source)
  BY <1>1
<1>3. \A r \in RecordSet : IsRecord(r)
  BY <1>1 DEF RecordSet, IsEntry
<1>4. RecordsOf(source) = [i \in 1 .. Len(source) |-> source[i].record]
  BY <1>2 DEF RecordsOf
<1>5. \A i \in 1 .. Len(source) : source[i].record \in RecordSet
  BY <1>2 DEF RecordSet
<1>6. RecordsOf(source) \in Seq(RecordSet) /\ Len(RecordsOf(source)) = Len(source)
  BY <1>2, <1>4, <1>5
<1> QED
  BY <1>1, <1>2, <1>3, <1>4, <1>6

\* Beginnings of the source grow record by record.
LEMMA TakenFacts ==
  ASSUME ReaderType
  PROVE  /\ \A k \in 0 .. Len(source) :
              /\ Taken(k) \in Seq(RecordSet)
              /\ Len(Taken(k)) = k
              /\ \A i \in 1 .. k : Taken(k)[i] = source[i].record
         /\ \A k \in 0 .. (Len(source) - 1) :
              /\ Taken(k + 1) = Append(Taken(k), source[k + 1].record)
              /\ source[k + 1].record \in RecordSet
         /\ Taken(0) = <<>>
         /\ Taken(Len(source)) = RecordsOf(source)
<1> DEFINE w == RecordsOf(source)
<1>1. /\ w \in Seq(RecordSet) /\ Len(w) = Len(source) /\ Len(source) \in Nat
      /\ \A i \in 1 .. Len(source) : w[i] = source[i].record
  BY SourceFacts
<1> HIDE DEF w
<1>2. ASSUME NEW k \in 0 .. Len(source)
      PROVE  /\ SubSeq(w, 1, k) \in Seq(RecordSet)
             /\ Len(SubSeq(w, 1, k)) = k
             /\ \A i \in 1 .. k : SubSeq(w, 1, k)[i] = source[i].record
  <2>1. k \in 0 .. Len(w) /\ \A i \in 1 .. k : i \in 1 .. Len(source)
    BY <1>1
  <2> QED
    BY <1>1, <2>1, PositionsOfBeginning
<1>3. ASSUME NEW k \in 0 .. (Len(source) - 1)
      PROVE  /\ SubSeq(w, 1, k + 1) =
                  Append(SubSeq(w, 1, k), source[k + 1].record)
             /\ source[k + 1].record \in RecordSet
  <2>1. k \in 0 .. (Len(w) - 1) /\ k + 1 \in 1 .. Len(source)
    BY <1>1
  <2>2. /\ SubSeq(w, 1, k + 1) = Append(SubSeq(w, 1, k), w[k + 1])
        /\ w[k + 1] \in RecordSet
    BY <1>1, <2>1, NextBeginning
  <2> QED
    BY <1>1, <2>1, <2>2
<1>4. SubSeq(w, 1, 0) = <<>> /\ SubSeq(w, 1, Len(source)) = w
  BY <1>1
<1> QED
  BY <1>2, <1>3, <1>4 DEF Taken, w

\* What an entry of the source says of its record.
LEMMA EntryFacts ==
  ASSUME NEW e, IsEntry(e)
  PROVE  /\ IsRecord(e.record)
         /\ e.present \in Nat /\ e.present >= 1
         /\ RecordSize(e.record) \in Nat
         /\ e.present <= RecordSize(e.record)
         /\ Whole(e) <=>
              e.damage = "none" /\ e.present = RecordSize(e.record)
         /\ Whole(e) => e.present = RecordSize(e.record)
<1>1. IsRecord(e.record)
  BY DEF IsEntry
<1>2. RecordSize(e.record) \in Nat
  BY <1>1, RecordSizes
<1>3. e.present \in 1 .. RecordSize(e.record)
  BY DEF IsEntry
<1>4. Whole(e) <=> e.damage = "none" /\ e.present = RecordSize(e.record)
  <2>1. e = [record |-> e.record, damage |-> e.damage, present |-> e.present]
    BY DEF IsEntry
  <2> QED
    BY <2>1 DEF Whole, Entry
<1> QED
  BY <1>1, <1>2, <1>3, <1>4

-----------------------------------------------------------------------------
(* What a call charges before it raises.                                   *)

\* Bytes that are charged move the byte account only.
LEMMA CountedFacts ==
  ASSUME ReaderType, NEW n \in Nat
  PROVE  /\ Counted(n) \in Account
         /\ Counted(n)["container_bytes"]
              = readerAccount["container_bytes"] + n
         /\ \A r \in CoreResource \ {"container_bytes"} :
              Counted(n)[r] = readerAccount[r]
<1>1. "container_bytes" \in CoreResource
  BY DEF CoreResource, TotalResources
<1>2. readerAccount \in Account
  BY DEF ReaderType
<1>3. Counted(n) \in Account
  BY <1>1, <1>2, RecordedIsAccount DEF Counted
<1>4. Counted(n)["container_bytes"] = readerAccount["container_bytes"] + n
  BY <1>1, <1>2, RecordedHere DEF Counted, Projected, TotalResources
<1>5. \A r \in CoreResource \ {"container_bytes"} :
        Counted(n)[r] = readerAccount[r]
  BY <1>1, <1>2, RecordedElsewhere DEF Counted
<1> QED
  BY <1>3, <1>4, <1>5

\* What the constructor observes of a manifest: its size, and then its counts.
LEMMA ObservationFacts ==
  /\ Observations \in PeakCharges
  /\ Len(Declarations) \in Nat /\ Len(Observations) = Len(Declarations) + 1
  /\ Len(Observations) >= 4
  /\ Observations[1] = <<"manifest_bytes", ManifestSize>>
  /\ \A i \in 1 .. Len(Declarations) : Observations[1 + i] = Declarations[i]
<1> DEFINE C == (CoreResource \ TotalResources) \X Nat
           size == <<"manifest_bytes", ManifestSize>>
<1>1. size \in C
  BY SizesAreNaturals DEF CoreResource, PeakResources, TotalResources
<1> HIDE DEF C, size
<1>2. <<size>> \in Seq(C) /\ Len(<<size>>) = 1 /\ <<size>>[1] = size
  BY <1>1
<1>3. Declarations \in Seq(C) /\ Len(Declarations) \in Nat
  BY DeclarationsAreCharged DEF PeakCharges, C
<1>4. /\ <<size>> \o Declarations \in Seq(C)
      /\ Len(<<size>> \o Declarations) = 1 + Len(Declarations)
      /\ (<<size>> \o Declarations)[1] = size
      /\ \A i \in 1 .. Len(Declarations) :
           (<<size>> \o Declarations)[1 + i] = Declarations[i]
  BY <1>2, <1>3, Joined
<1>5. Len(Declarations) >= 3
  BY DeclarationAssumption
<1> QED
  BY <1>3, <1>4, <1>5 DEF Observations, PeakCharges, C, size

\* Where the parts of a preamble end, and what is observed by then.
LEMMA PartFacts ==
  /\ ReadTo(0) = 0 /\ ReadTo(1) = HeaderSize
  /\ ReadTo(2) = HeaderSize + ManifestHeaderSize /\ ReadTo(3) = PreambleSize
  /\ \A part \in 0 .. 3 :
       /\ ReadTo(part) \in 0 .. PreambleSize
       /\ ObservedTo(part) \in 0 .. Len(Observations)
<1>1. /\ ManifestHeaderSize \in 1 .. ManifestSize /\ HeaderSize \in Nat
      /\ ManifestSize \in Nat /\ PreambleSize = HeaderSize + ManifestSize
  BY ReaderAssumption, SizesAreNaturals DEF PreambleSize
<1>2. /\ ReadTo(0) = 0 /\ ReadTo(1) = HeaderSize
      /\ ReadTo(2) = HeaderSize + ManifestHeaderSize
      /\ ReadTo(3) = PreambleSize
  BY DEF ReadTo
<1>3. /\ ObservedTo(0) = 0 /\ ObservedTo(1) = 3 /\ ObservedTo(2) = 4
      /\ ObservedTo(3) = Len(Observations)
  BY DEF ObservedTo
<1>4. Len(Observations) \in Nat /\ Len(Observations) >= 4
  BY ObservationFacts
<1>5. ASSUME NEW part \in 0 .. 3
      PROVE  /\ ReadTo(part) \in 0 .. PreambleSize
             /\ ObservedTo(part) \in 0 .. Len(Observations)
  <2>1. part = 0 \/ part = 1 \/ part = 2 \/ part = 3
    OBVIOUS
  <2> QED
    BY <1>1, <1>2, <1>3, <1>4, <2>1
<1> QED
  BY <1>2, <1>5

\* The first so many observations are charges as well.
LEMMA FirstObservations ==
  ASSUME NEW k \in 0 .. Len(Observations)
  PROVE  /\ SubSeq(Observations, 1, k) \in PeakCharges
         /\ Len(SubSeq(Observations, 1, k)) = k
         /\ \A i \in 1 .. k :
              SubSeq(Observations, 1, k)[i] = Observations[i]
<1> DEFINE C == (CoreResource \ TotalResources) \X Nat
<1> HIDE DEF C
<1>1. Observations \in Seq(C)
  BY ObservationFacts DEF PeakCharges, C
<1>2. /\ SubSeq(Observations, 1, k) \in Seq(C)
      /\ Len(SubSeq(Observations, 1, k)) = k
      /\ \A i \in 1 .. k : SubSeq(Observations, 1, k)[i] = Observations[i]
  BY <1>1
<1> QED
  BY <1>2 DEF PeakCharges, C

\* Whatever is observed, the bytes are those that were read.
LEMMA OpeningFacts ==
  ASSUME ReaderType, NEW n \in Nat, NEW k \in 0 .. Len(Observations),
         NEW account, account = Opening(n, k).account
  PROVE  /\ account \in Account
         /\ account["container_bytes"]
              = readerAccount["container_bytes"] + n
         /\ account["chunks"] = readerAccount["chunks"]
         /\ WithinPolicy(readerPolicy, Counted(n)) =>
              WithinPolicy(readerPolicy, account)
<1>1. /\ "container_bytes" \in TotalResources /\ "chunks" \in TotalResources
      /\ "chunks" \in CoreResource \ {"container_bytes"}
  BY DEF CoreResource, TotalResources
<1>2. /\ Counted(n) \in Account
      /\ Counted(n)["container_bytes"] = readerAccount["container_bytes"] + n
      /\ Counted(n)["chunks"] = readerAccount["chunks"]
  BY <1>1, CountedFacts
<1>3. readerPolicy \in Policy
  BY DEF ReaderType
<1>4. SubSeq(Observations, 1, k) \in PeakCharges
  BY FirstObservations
<1>5. /\ account \in Account
      /\ \A r \in TotalResources : account[r] = Counted(n)[r]
      /\ WithinPolicy(readerPolicy, Counted(n)) =>
           WithinPolicy(readerPolicy, account)
  BY <1>2, <1>3, <1>4, PeaksCharged DEF Opening
<1> QED
  BY <1>1, <1>2, <1>5

\* A chunk charges its header, itself and its payload, in this order.
LEMMA ChunkAccounts ==
  ASSUME ReaderType, NEW c, IsChunk(c)
  PROVE  LET same(account) ==
               /\ account \in Account
               /\ account["container_bytes"]
                    = readerAccount["container_bytes"] + RecordHeaderSize
         IN  /\ same(WithEncoded(c))
             /\ same(WithLogical(c))
             /\ same(WithChunk(c))
             /\ WithChunk(c)["chunks"] = readerAccount["chunks"] + 1
             /\ \A m \in Nat :
                  LET account == Recorded(WithChunk(c), "container_bytes", m)
                  IN  /\ account \in Account
                      /\ account["container_bytes"] =
                           readerAccount["container_bytes"]
                             + (RecordHeaderSize + m)
                      /\ account["chunks"] = readerAccount["chunks"] + 1
<1>1. /\ "encoded_chunk_bytes" \in CoreResource
      /\ "logical_chunk_bytes" \in CoreResource
      /\ "chunks" \in CoreResource /\ "container_bytes" \in CoreResource
  BY DEF CoreResource, TotalResources, PeakResources
<1>2. /\ RecordHeaderSize \in Nat /\ c.encoded \in Nat /\ c.logical \in Nat
      /\ 1 \in Nat
  BY SizesAreNaturals DEF IsChunk
<1> DEFINE a == Counted(RecordHeaderSize)
           bytes == readerAccount["container_bytes"] + RecordHeaderSize
<1>3. /\ a \in Account /\ a["container_bytes"] = bytes
      /\ a["chunks"] = readerAccount["chunks"]
  BY <1>1, <1>2, CountedFacts
<1> HIDE DEF a, bytes
<1>4. /\ WithEncoded(c) \in Account
      /\ WithEncoded(c)["container_bytes"] = bytes
      /\ WithEncoded(c)["chunks"] = readerAccount["chunks"]
  <2>1. WithEncoded(c) = Recorded(a, "encoded_chunk_bytes", c.encoded)
    BY DEF WithEncoded, a
  <2>2. WithEncoded(c) \in Account
    BY <1>1, <1>2, <1>3, <2>1, RecordedIsAccount
  <2>3. WithEncoded(c)["container_bytes"] = a["container_bytes"]
    BY <1>1, <1>2, <1>3, <2>1, RecordedElsewhere
  <2>4. WithEncoded(c)["chunks"] = a["chunks"]
    BY <1>1, <1>2, <1>3, <2>1, RecordedElsewhere
  <2> QED
    BY <1>3, <2>2, <2>3, <2>4
<1>5. /\ WithLogical(c) \in Account
      /\ WithLogical(c)["container_bytes"] = bytes
      /\ WithLogical(c)["chunks"] = readerAccount["chunks"]
  <2>1. WithLogical(c) \in Account
    BY <1>1, <1>2, <1>4, RecordedIsAccount DEF WithLogical
  <2>2. WithLogical(c)["container_bytes"] = WithEncoded(c)["container_bytes"]
    BY <1>1, <1>2, <1>4, RecordedElsewhere DEF WithLogical
  <2>3. WithLogical(c)["chunks"] = WithEncoded(c)["chunks"]
    BY <1>1, <1>2, <1>4, RecordedElsewhere DEF WithLogical
  <2> QED
    BY <1>4, <2>1, <2>2, <2>3
<1>6. /\ WithChunk(c) \in Account
      /\ WithChunk(c)["container_bytes"] = bytes
  <2>1. WithChunk(c) \in Account
    BY <1>1, <1>2, <1>5, RecordedIsAccount DEF WithChunk
  <2>2. WithChunk(c)["container_bytes"] = WithLogical(c)["container_bytes"]
    BY <1>1, <1>2, <1>5, RecordedElsewhere DEF WithChunk
  <2> QED
    BY <1>5, <2>1, <2>2
<1>7. WithChunk(c)["chunks"] = readerAccount["chunks"] + 1
  <2>1. Projected(WithLogical(c), "chunks", 1) = readerAccount["chunks"] + 1
    BY <1>5 DEF Projected, TotalResources
  <2> QED
    BY <1>1, <1>2, <1>5, <2>1, RecordedHere DEF WithChunk
<1>8. ASSUME NEW m \in Nat
      PROVE  LET account == Recorded(WithChunk(c), "container_bytes", m)
             IN  /\ account \in Account
                 /\ account["container_bytes"] =
                      readerAccount["container_bytes"] + (RecordHeaderSize + m)
                 /\ account["chunks"] = readerAccount["chunks"] + 1
  <2> DEFINE account == Recorded(WithChunk(c), "container_bytes", m)
  <2>1. account \in Account
    BY <1>1, <1>6, RecordedIsAccount
  <2>2. account["chunks"] = readerAccount["chunks"] + 1
    BY <1>1, <1>6, <1>7, RecordedElsewhere
  <2>3. Projected(WithChunk(c), "container_bytes", m) = bytes + m
    BY <1>6 DEF Projected, TotalResources
  <2>4. account["container_bytes"] = bytes + m
    BY <1>1, <1>6, <2>3, RecordedHere
  <2>5. readerAccount["container_bytes"] \in Nat
    BY <1>1 DEF ReaderType, Account
  <2>6. bytes + m = readerAccount["container_bytes"] + (RecordHeaderSize + m)
    BY <1>2, <2>5 DEF bytes
  <2> QED
    BY <2>1, <2>2, <2>4, <2>6
<1> QED
  BY <1>4, <1>5, <1>6, <1>7, <1>8 DEF bytes

-----------------------------------------------------------------------------
(* Calls that raise.                                                       *)

\* What a call that raises has done by then.
Fails(state) ==
  /\ readerState' = state
  /\ UNCHANGED sessionVars
  /\ readerAccount' \in Account
  /\ bytesRead' \in Nat
  /\ readerAccount'["container_bytes"] - bytesRead'
       = readerAccount["container_bytes"] - bytesRead
  /\ expectedSequences' \in [StreamIds -> Nat]
  /\ interrupted' \in BOOLEAN

\* A call that raises charges what it read and ends the session.
LEMMA RaiseFails ==
  ASSUME ReaderType, NEW state, NEW account, NEW n \in Nat,
         Raise(state, account, n), account \in Account,
         account["container_bytes"] = readerAccount["container_bytes"] + n,
         expectedSequences' \in [StreamIds -> Nat], interrupted' \in BOOLEAN
  PROVE  Fails(state)
<1>1. readerAccount["container_bytes"] \in Nat /\ bytesRead \in Nat
  BY DEF ReaderType, Account, CoreResource, TotalResources
<1>2. readerAccount' = account /\ bytesRead' = bytesRead + n
  BY DEF Raise
<1>3. readerAccount'["container_bytes"] - bytesRead'
        = readerAccount["container_bytes"] - bytesRead
  BY <1>1, <1>2
<1> QED
  BY <1>1, <1>2, <1>3 DEF Raise, Fails

\* A session that raised knows no less of what it yielded before.
LEMMA FailureKeepsInv ==
  ASSUME ReaderInv,
         \/ readerState = "new" /\ Fails("raised")
         \/ MayIterate /\ Fails("failed")
  PROVE  ReaderInv'
<1>1. /\ UNCHANGED <<readerPolicy, source, position, readerTotals, delivered>>
      /\ readerAccount' \in Account /\ bytesRead' \in Nat
      /\ readerAccount'["container_bytes"] - bytesRead'
           = readerAccount["container_bytes"] - bytesRead
      /\ expectedSequences' \in [StreamIds -> Nat]
      /\ interrupted' \in BOOLEAN
      /\ readerState' \in {"raised", "failed"}
  BY DEF Fails, sessionVars
<1>2. ReaderType'
  BY <1>1 DEF ReaderInv, ReaderType
<1>3. PositionInv'
  <2>1. CASE readerState = "new" /\ readerState' = "raised"
    BY <1>1, <2>1 DEF ReaderInv, PositionInv
  <2>2. CASE MayIterate /\ readerState' = "failed"
    <3>1. Checked(position)
      BY <2>2 DEF ReaderInv, PositionInv, MayIterate
    <3>2. Checked(position)'
      BY <1>1, <3>1 DEF Checked, Taken
    <3> QED
      BY <2>2, <3>2 DEF PositionInv
  <2> QED
    BY <2>1, <2>2 DEF Fails
<1>4. ChargedInv'
  <2>1. /\ readerAccount["container_bytes"] \in Nat /\ bytesRead \in Nat
        /\ readerAccount'["container_bytes"] \in Nat
    BY <1>1 DEF ReaderInv, ReaderType, Account, CoreResource, TotalResources
  <2>2. bytesRead <= readerAccount["container_bytes"]
    BY DEF ReaderInv, ChargedInv
  <2>3. bytesRead' <= readerAccount'["container_bytes"]
    BY <1>1, <2>1, <2>2
  <2> QED
    BY <1>1, <2>3 DEF ChargedInv
<1> QED
  BY <1>2, <1>3, <1>4 DEF ReaderInv

\* The sequence number a header was accepted with was expected.
LEMMA NextSequence ==
  ASSUME ReaderType, NEW c, c.stream \in StreamIds
  PROVE  [expectedSequences EXCEPT ![c.stream] = @ + 1] \in [StreamIds -> Nat]
BY DEF ReaderType

\* What is read of a record is a number of bytes.
LEMMA CurrentFacts ==
  ASSUME ReaderType, ~AtEnd
  PROVE  /\ position + 1 \in 1 .. Len(source)
         /\ position \in 0 .. (Len(source) - 1)
         /\ IsEntry(Current)
         /\ Current.present \in Nat
         /\ position + 1 # 1 => Current.record.kind # "preamble"
         /\ Current.record.kind = "chunk" =>
              /\ IsChunk(Current.record.chunk)
              /\ Current.record = ChunkRecord(Current.record.chunk)
              /\ RecordSize(Current.record) = ChunkSize(Current.record.chunk)
<1>1. position \in 0 .. Len(source) /\ Len(source) \in Nat
  BY SourceFacts DEF ReaderType
<1>2. position + 1 \in 1 .. Len(source) /\ position \in 0 .. (Len(source) - 1)
  BY <1>1 DEF AtEnd
<1>3. IsEntry(Current) /\ (Current.record.kind = "preamble") = (position + 1 = 1)
  BY <1>2, SourceFacts DEF Current
<1>4. Current.present \in Nat /\ IsRecord(Current.record)
  BY <1>3, EntryFacts
<1>5. Current.record.kind = "chunk" =>
        /\ IsChunk(Current.record.chunk)
        /\ Current.record = ChunkRecord(Current.record.chunk)
        /\ RecordSize(Current.record) = ChunkSize(Current.record.chunk)
  BY <1>4, RecordSizes
<1> QED
  BY <1>2, <1>3, <1>4, <1>5

\* What is there of the first record is a number of bytes.
LEMMA HeadFacts ==
  ASSUME ReaderType, source # <<>>
  PROVE  /\ Head(source) = source[1] /\ 1 \in 1 .. Len(source)
         /\ IsEntry(source[1]) /\ source[1].record.kind = "preamble"
         /\ Head(source).present \in Nat
<1>1. source \in Seq({source[i] : i \in DOMAIN source})
  BY DEF ReaderType, IsSource
<1>2. 1 \in 1 .. Len(source) /\ Head(source) = source[1]
  BY <1>1
<1> QED
  BY <1>2, SourceFacts, EntryFacts

\* A constructor that refuses the source ends the session.
LEMMA OpenRefusedFails ==
  ASSUME ReaderInv, OpenRefused
  PROVE  readerState = "new" /\ Fails("raised")
<1>1. readerState = "new" /\ UNCHANGED <<expectedSequences, interrupted>>
  BY DEF OpenRefused, Reaches
<1>2. ReaderType
  BY DEF ReaderInv
<1>3. /\ expectedSequences' \in [StreamIds -> Nat] /\ interrupted' \in BOOLEAN
      /\ readerAccount \in Account /\ 0 \in Nat
  BY <1>1, <1>2 DEF ReaderType
<1>4. readerAccount["container_bytes"] = readerAccount["container_bytes"] + 0
  BY <1>3 DEF Account, CoreResource, TotalResources
<1>5. CASE Raise("raised", readerAccount, 0)
  BY <1>1, <1>2, <1>3, <1>4, <1>5, RaiseFails
<1>6. ASSUME source # <<>>, NEW part \in Parts, NEW k \in 0 .. 3,
             LET n == Found(Head(source), ReadTo(part)) IN
             Raise("raised", Opening(n, ObservedTo(k)).account, n)
      PROVE  Fails("raised")
  <2> DEFINE n == Found(Head(source), ReadTo(part))
  <2>1. n \in Nat
    <3>1. part \in 0 .. 3
      BY DEF Parts
    <3>2. ReadTo(part) \in Nat
      BY <3>1, PartFacts, SizesAreNaturals
    <3> QED
      BY <1>2, <1>6, <3>2, HeadFacts DEF Found
  <2>2. ObservedTo(k) \in 0 .. Len(Observations)
    BY PartFacts
  <2>3. Raise("raised", Opening(n, ObservedTo(k)).account, n)
    BY <1>6
  <2> HIDE DEF n
  <2> QED
    BY <1>2, <1>3, <2>1, <2>2, <2>3, OpeningFacts, RaiseFails
<1>7. CASE \E part \in Parts :
             /\ source # <<>>
             /\ LET n == Found(Head(source), ReadTo(part)) IN
                \/ Raise("raised", Opening(n, ObservedTo(part - 1)).account, n)
                \/ Raise("raised", Opening(n, ObservedTo(part)).account, n)
  <2>1. \A part \in Parts : part \in 0 .. 3 /\ part - 1 \in 0 .. 3
    BY DEF Parts
  <2> QED
    BY <1>1, <1>6, <1>7, <2>1
<1>8. \/ Raise("raised", readerAccount, 0)
      \/ \E part \in Parts :
           /\ source # <<>>
           /\ LET n == Found(Head(source), ReadTo(part)) IN
              \/ Raise("raised", Opening(n, ObservedTo(part - 1)).account, n)
              \/ Raise("raised", Opening(n, ObservedTo(part)).account, n)
  BY Zenon DEF OpenRefused
<1> QED
  BY <1>1, <1>5, <1>7, <1>8

\* A header that is damaged or of no use here ends the session.
LEMMA RefuseRecordFails ==
  ASSUME ReaderInv, RefuseRecord
  PROVE  MayIterate /\ Fails("failed")
<1>1. MayIterate /\ UNCHANGED <<expectedSequences, interrupted>>
  BY DEF RefuseRecord
<1>2. ReaderType
  BY DEF ReaderInv
<1>3. /\ expectedSequences' \in [StreamIds -> Nat] /\ interrupted' \in BOOLEAN
      /\ readerAccount \in Account /\ 0 \in Nat
  BY <1>1, <1>2 DEF ReaderType
<1>4. readerAccount["container_bytes"] = readerAccount["container_bytes"] + 0
  BY <1>3 DEF Account, CoreResource, TotalResources
<1>5. CASE Raise("failed", readerAccount, 0)
  BY <1>1, <1>2, <1>3, <1>4, <1>5, RaiseFails
<1>6. CASE ~AtEnd /\ Raise("failed", Counted(Current.present), Current.present)
  <2>1. Current.present \in Nat
    BY <1>2, <1>6, CurrentFacts
  <2> QED
    BY <1>1, <1>2, <1>3, <1>6, <2>1, CountedFacts, RaiseFails
<1> QED
  BY <1>5, <1>6 DEF RefuseRecord

\* A chunk header that is refused ends the session.
LEMMA RefuseChunkHeaderFails ==
  ASSUME ReaderInv, RefuseChunkHeader
  PROVE  MayIterate /\ Fails("failed")
<1> DEFINE c == Current.record.chunk
<1>1. /\ MayIterate /\ UNCHANGED <<expectedSequences, interrupted>>
      /\ ~AtEnd /\ Current.record.kind = "chunk"
      /\ \/ Raise("failed", Counted(RecordHeaderSize), RecordHeaderSize)
         \/ Raise("failed", WithEncoded(c), RecordHeaderSize)
         \/ Raise("failed", WithLogical(c), RecordHeaderSize)
  BY DEF RefuseChunkHeader, HeaderRead
<1>2. ReaderType
  BY DEF ReaderInv
<1>3. /\ expectedSequences' \in [StreamIds -> Nat] /\ interrupted' \in BOOLEAN
      /\ RecordHeaderSize \in Nat
  BY <1>1, <1>2, SizesAreNaturals DEF ReaderType
<1>4. IsChunk(c)
  BY <1>1, <1>2, CurrentFacts
<1> HIDE DEF c
<1>5. PICK account : /\ Raise("failed", account, RecordHeaderSize)
                     /\ account \in Account
                     /\ account["container_bytes"] =
                          readerAccount["container_bytes"] + RecordHeaderSize
  <2>1. CASE Raise("failed", Counted(RecordHeaderSize), RecordHeaderSize)
    BY <1>2, <1>3, <2>1, CountedFacts
  <2>2. CASE Raise("failed", WithEncoded(c), RecordHeaderSize)
    BY <1>2, <1>4, <2>2, ChunkAccounts
  <2>3. CASE Raise("failed", WithLogical(c), RecordHeaderSize)
    BY <1>2, <1>4, <2>3, ChunkAccounts
  <2> QED
    BY <1>1, <2>1, <2>2, <2>3
<1> QED
  BY <1>1, <1>2, <1>3, <1>5, RaiseFails

\* A payload that is refused ends the session.
LEMMA RefusePayloadFails ==
  ASSUME ReaderInv, RefusePayload
  PROVE  MayIterate /\ Fails("failed")
<1> DEFINE c == Current.record.chunk
           payload == Current.present - RecordHeaderSize
<1>1. /\ MayIterate /\ UNCHANGED interrupted
      /\ ~AtEnd /\ Current.record.kind = "chunk"
      /\ Current.present >= RecordHeaderSize
      /\ c.stream \in StreamIds
      /\ \/ Raise("failed", WithChunk(c), RecordHeaderSize)
         \/ Raise("failed", Recorded(WithChunk(c), "container_bytes", payload),
                  Current.present)
      /\ expectedSequences' = [expectedSequences EXCEPT ![c.stream] = @ + 1]
  BY DEF RefusePayload, HeaderRead, HeaderAccepted, Expected
<1>2. ReaderType
  BY DEF ReaderInv
<1>3. /\ expectedSequences' \in [StreamIds -> Nat] /\ interrupted' \in BOOLEAN
      /\ RecordHeaderSize \in Nat
  BY <1>1, <1>2, NextSequence, SizesAreNaturals DEF ReaderType
<1>4. IsChunk(c) /\ Current.present \in Nat
  BY <1>1, <1>2, CurrentFacts
<1>5. payload \in Nat /\ RecordHeaderSize + payload = Current.present
  BY <1>1, <1>3, <1>4
<1> HIDE DEF c, payload
<1>6. CASE Raise("failed", WithChunk(c), RecordHeaderSize)
  BY <1>1, <1>2, <1>3, <1>4, <1>6, ChunkAccounts, RaiseFails
<1>7. CASE Raise("failed", Recorded(WithChunk(c), "container_bytes", payload),
                 Current.present)
  <2>1. LET account == Recorded(WithChunk(c), "container_bytes", payload)
        IN  /\ account \in Account
            /\ account["container_bytes"] =
                 readerAccount["container_bytes"] + Current.present
    BY <1>2, <1>4, <1>5, ChunkAccounts
  <2> QED
    BY <1>1, <1>2, <1>3, <1>4, <1>7, <2>1, RaiseFails
<1> QED
  BY <1>1, <1>6, <1>7

\* A commit that is refused ends the session.
LEMMA CommitRefusalFails ==
  ASSUME ReaderInv, RefuseCommit \/ ProbeRaises
  PROVE  MayIterate /\ Fails("failed")
<1>1. /\ MayIterate
      /\ Raise("failed", Counted(RecordHeaderSize), RecordHeaderSize)
      /\ UNCHANGED expectedSequences
      /\ interrupted' = interrupted \/ interrupted' = TRUE
  BY DEF RefuseCommit, ProbeRaises, HeaderRead
<1>2. ReaderType
  BY DEF ReaderInv
<1>3. /\ expectedSequences' \in [StreamIds -> Nat] /\ interrupted' \in BOOLEAN
      /\ RecordHeaderSize \in Nat
  BY <1>1, <1>2, SizesAreNaturals DEF ReaderType
<1> QED
  BY <1>1, <1>2, <1>3, CountedFacts, RaiseFails

\* A generator that is closed ends the session.
LEMMA CloseFails ==
  ASSUME ReaderInv, CloseIterator
  PROVE  MayIterate /\ Fails("failed")
<1>1. /\ MayIterate /\ Raise("failed", readerAccount, 0)
      /\ UNCHANGED expectedSequences /\ interrupted' = TRUE
  BY DEF CloseIterator, MayIterate
<1>2. ReaderType
  BY DEF ReaderInv
<1>3. /\ expectedSequences' \in [StreamIds -> Nat] /\ interrupted' \in BOOLEAN
      /\ readerAccount \in Account /\ 0 \in Nat
  BY <1>1, <1>2 DEF ReaderType
<1>4. readerAccount["container_bytes"] = readerAccount["container_bytes"] + 0
  BY <1>3 DEF Account, CoreResource, TotalResources
<1> QED
  BY <1>1, <1>2, <1>3, <1>4, RaiseFails

\* A read that raises ends the session.
LEMMA ReadRaisesFails ==
  ASSUME ReaderInv, NEW n \in Nat, ReadRaises(n)
  PROVE  \/ readerState = "new" /\ Fails("raised")
         \/ MayIterate /\ Fails("failed")
<1> DEFINE c == Current.record.chunk
           payload == n - RecordHeaderSize
<1>1. interrupted' = TRUE
  BY DEF ReadRaises
<1>2. ReaderType
  BY DEF ReaderInv
<1>3. interrupted' \in BOOLEAN /\ RecordHeaderSize \in Nat
  BY <1>1, SizesAreNaturals
<1>4. CASE /\ readerState = "new" /\ UNCHANGED expectedSequences
           /\ \E k \in 0 .. 3 :
                Raise("raised", Opening(n, ObservedTo(k)).account, n)
  <2>1. expectedSequences' \in [StreamIds -> Nat]
    BY <1>2, <1>4 DEF ReaderType
  <2>2. PICK k \in 0 .. 3 :
          Raise("raised", Opening(n, ObservedTo(k)).account, n)
    BY <1>4
  <2>3. ObservedTo(k) \in 0 .. Len(Observations)
    BY PartFacts
  <2> QED
    BY <1>2, <1>3, <1>4, <2>1, <2>2, <2>3, OpeningFacts, RaiseFails
<1>5. CASE /\ UNCHANGED expectedSequences
           /\ \E part \in Parts :
                /\ Reaches(part)
                /\ Raise("raised", Opening(n, ObservedTo(part - 1)).account, n)
  <2>1. \A part \in Parts : part - 1 \in 0 .. 3
    BY DEF Parts
  <2> QED
    BY <1>4, <1>5, <2>1 DEF Reaches
<1>6. CASE /\ MayIterate /\ Raise("failed", Counted(n), n)
           /\ UNCHANGED expectedSequences
  <2>1. expectedSequences' \in [StreamIds -> Nat]
    BY <1>2, <1>6 DEF ReaderType
  <2> QED
    BY <1>2, <1>3, <1>6, <2>1, CountedFacts, RaiseFails
<1>7. CASE /\ HeaderRead("chunk")
           /\ n \in RecordHeaderSize .. (Current.present - 1)
           /\ HeaderAccepted(c)
           /\ Raise("failed",
                    Recorded(WithChunk(c), "container_bytes", payload), n)
           /\ expectedSequences' =
                [expectedSequences EXCEPT ![c.stream] = @ + 1]
  <2>1. /\ MayIterate /\ ~AtEnd /\ Current.record.kind = "chunk"
        /\ c.stream \in StreamIds
    BY <1>7 DEF HeaderRead, HeaderAccepted, Expected
  <2>2. expectedSequences' \in [StreamIds -> Nat]
    BY <1>2, <1>7, <2>1, NextSequence
  <2>3. IsChunk(c)
    BY <1>2, <2>1, CurrentFacts
  <2>4. payload \in Nat /\ RecordHeaderSize + payload = n
    BY <1>3, <1>7
  <2> HIDE DEF c, payload
  <2>5. LET account == Recorded(WithChunk(c), "container_bytes", payload)
        IN  /\ account \in Account
            /\ account["container_bytes"] =
                 readerAccount["container_bytes"] + n
    BY <1>2, <2>3, <2>4, ChunkAccounts
  <2> QED
    BY <1>2, <1>3, <1>7, <2>1, <2>2, <2>5, RaiseFails
<1> QED
  BY <1>4, <1>5, <1>6, <1>7 DEF ReadRaises

-----------------------------------------------------------------------------
(* Calls that return.                                                      *)

\* After the constructor the preamble is the record that was consumed.
LEMMA OpenKeepsInv ==
  ASSUME ReaderInv, Open
  PROVE  ReaderInv'
<1> USE DEF ReaderInv
<1>1. /\ source # <<>> /\ Whole(Head(source))
      /\ readerState = "new" /\ readerState' = "ready"
      /\ readerAccount' = Opening(PreambleSize, Len(Observations)).account
      /\ position' = 1 /\ bytesRead' = PreambleSize
      /\ UNCHANGED <<readerPolicy, source, expectedSequences, readerTotals,
                     delivered, interrupted>>
      /\ Chargeable(PreambleSize)
  BY DEF Open
<1>2. /\ position = 0 /\ delivered = <<>> /\ readerTotals = NoTotals
      /\ bytesRead = SizeOf(Taken(0))
      /\ \A s \in StreamIds :
           expectedSequences[s] = Cardinality(Numbered(Taken(0), s))
  BY <1>1 DEF PositionInv, InUse
<1>3. /\ Taken(0) = <<>> /\ bytesRead = 0
      /\ \A s \in StreamIds : expectedSequences[s] = 0
  BY <1>2, TakenFacts, NothingYet
<1>4. /\ Len(source) \in Nat /\ 1 \in 1 .. Len(source)
      /\ Head(source) = source[1]
  <2>1. source \in Seq({source[i] : i \in DOMAIN source})
    BY DEF ReaderType, IsSource
  <2> QED
    BY <1>1, <2>1
<1>5. /\ IsEntry(source[1]) /\ source[1].record.kind = "preamble"
      /\ IsRecord(source[1].record)
  BY <1>4, SourceFacts, EntryFacts
<1>6. source[1].record = Preamble
  BY <1>5 DEF IsRecord
<1>7. Taken(1) = Append(<<>>, Preamble) /\ Preamble \in RecordSet
  <2>1. 0 \in 0 .. (Len(source) - 1) /\ 0 + 1 = 1
    BY <1>4
  <2> QED
    BY <1>3, <1>6, <2>1, TakenFacts
<1>8. /\ <<>> \in Seq(RecordSet) /\ \A r \in RecordSet : IsRecord(r)
      /\ Preamble.kind = "preamble" /\ RecordSize(Preamble) = PreambleSize
  BY SourceFacts, RecordKinds
<1>9. /\ ChunksOf(Taken(1)) = <<>> /\ TotalsOf(Taken(1)) = NoTotals
      /\ SizeOf(Taken(1)) = PreambleSize
      /\ \A s \in StreamIds : Cardinality(Numbered(Taken(1), s)) = 0
      /\ ValidContent(Taken(1)) /\ Len(Taken(1)) = 1
  BY <1>7, <1>8, PreambleFirst
<1>10. Checked(1)
  BY <1>1, <1>2, <1>4, <1>9 DEF Checked
<1>11. /\ PreambleSize \in Nat /\ ManifestSize \in Nat
       /\ readerAccount \in Account
       /\ readerAccount["container_bytes"] \in Nat
  BY SizesAreNaturals DEF ReaderType, Account, CoreResource, TotalResources
<1>12. /\ readerAccount' \in Account
       /\ readerAccount'["container_bytes"] =
            readerAccount["container_bytes"] + PreambleSize
       /\ readerAccount'["chunks"] = readerAccount["chunks"]
       /\ WithinPolicy(readerPolicy, Counted(PreambleSize)) =>
            WithinPolicy(readerPolicy, readerAccount')
  <2>1. Len(Observations) \in 0 .. Len(Observations)
    BY ObservationFacts
  <2> QED
    BY <1>1, <1>11, <2>1, OpeningFacts
<1>13. ReaderType'
  BY <1>1, <1>4, <1>11, <1>12 DEF ReaderType
<1>14. PositionInv'
  <2>1. Taken(position)' = Taken(1)
    BY <1>1 DEF Taken
  <2>2. Checked(position)'
    BY <1>1, <1>10 DEF Checked, Taken
  <2>3. InUse'
    BY <1>1, <1>3, <1>9, <2>1 DEF InUse
  <2> QED
    BY <1>1, <2>2, <2>3 DEF PositionInv
<1>15. ChargedInv'
  <2>1. bytesRead' <= readerAccount'["container_bytes"]
    BY <1>1, <1>11, <1>12
  <2>2. "container_bytes" \in CoreResource
    BY DEF CoreResource, TotalResources
  <2>3. WithinPolicy(readerPolicy, Counted(PreambleSize))
    BY <1>1, <1>11, <2>2, RecordedWithinPolicy
    DEF ChargedInv, Chargeable, Counted
  <2>4. "chunks" \notin ReaderShared => readerAccount["chunks"] = Len(delivered)
    BY <1>1 DEF ChargedInv
  <2> QED
    BY <1>1, <1>12, <2>1, <2>3, <2>4 DEF ChargedInv
<1> QED
  BY <1>13, <1>14, <1>15

\* A chunk is yielded that continues what was consumed.
LEMMA YieldKeepsInv ==
  ASSUME ReaderInv, YieldChunk
  PROVE  ReaderInv'
<1> USE DEF ReaderInv
<1> DEFINE c == Current.record.chunk
           w == Taken(position)
<1>1. /\ MayIterate /\ ~AtEnd /\ Current.record.kind = "chunk"
      /\ HeaderAccepted(c) /\ Whole(Current) /\ Chargeable(ChunkSize(c))
      /\ readerAccount' = Recorded(WithChunk(c), "container_bytes", c.encoded)
      /\ expectedSequences' = [expectedSequences EXCEPT ![c.stream] = @ + 1]
      /\ bytesRead' = bytesRead + ChunkSize(c)
      /\ readerTotals' = AddTotals(readerTotals, c)
      /\ delivered' = Append(delivered, c)
      /\ position' = position + 1
      /\ readerState' = "consuming"
      /\ UNCHANGED <<readerPolicy, source, interrupted>>
  BY DEF YieldChunk, HeaderRead
<1>2. Checked(position) /\ InUse
  BY <1>1 DEF PositionInv, MayIterate
<1>3. /\ position + 1 \in 1 .. Len(source)
      /\ position \in 0 .. (Len(source) - 1)
      /\ position \in 0 .. Len(source)
      /\ IsChunk(c) /\ Current.record = ChunkRecord(c)
  BY <1>1, CurrentFacts DEF ReaderType
<1>4. /\ w \in Seq(RecordSet) /\ Len(w) = position
      /\ Taken(position + 1) = Append(w, ChunkRecord(c))
      /\ ChunkRecord(c) \in RecordSet
      /\ \A r \in RecordSet : IsRecord(r)
  BY <1>3, TakenFacts, SourceFacts DEF Current
<1>5. /\ c.stream \in StreamIds /\ c.recipe \in RecipeIds
      /\ c.sequence = expectedSequences[c.stream]
  BY <1>1 DEF HeaderAccepted, Expected, InSequence
<1>6. /\ ValidContent(w) /\ delivered = ChunksOf(w)
      /\ readerTotals = TotalsOf(w) /\ Len(delivered) = position - 1
      /\ position \in 1 .. Len(source)
      /\ \A i \in 1 .. position : Whole(source[i])
      /\ bytesRead = SizeOf(w)
      /\ \A s \in StreamIds :
           expectedSequences[s] = Cardinality(Numbered(w, s))
  BY <1>2 DEF Checked, InUse
<1> HIDE DEF c, w
<1>7. /\ ChunkRecord(c).kind = "chunk" /\ ChunkRecord(c).chunk = c
      /\ RecordSize(ChunkRecord(c)) = ChunkSize(c)
  BY RecordKinds
<1>8. ValidContent(Append(w, ChunkRecord(c)))
  <2>1. Len(w) >= 1
    BY <1>4, <1>6
  <2> QED
    BY <1>4, <1>5, <1>6, <2>1, ContentOfOneMore
<1>9. /\ ChunksOf(Append(w, ChunkRecord(c))) = Append(delivered, c)
      /\ TotalsOf(Append(w, ChunkRecord(c))) = AddTotals(readerTotals, c)
      /\ SizeOf(Append(w, ChunkRecord(c))) = bytesRead + ChunkSize(c)
  <2>1. ChunksOf(Append(w, ChunkRecord(c))) = Append(ChunksOf(w), c)
    BY <1>4, <1>7, ChunksOfOneMore
  <2>2. TotalsOf(Append(w, ChunkRecord(c))) = AddTotals(TotalsOf(w), c)
    BY <1>4, <1>7, TotalsOfOneMore
  <2>3. SizeOf(Append(w, ChunkRecord(c))) = SizeOf(w) + ChunkSize(c)
    BY <1>4, <1>7, SizeOfOneMore
  <2> QED
    BY <1>6, <2>1, <2>2, <2>3
<1>10. /\ delivered \in Seq(ChunkSet(RecordSet)) /\ c \in ChunkSet(RecordSet)
       /\ Len(Append(delivered, c)) = (position + 1) - 1
  <2>1. delivered \in Seq(ChunkSet(RecordSet))
    BY <1>4, <1>6, ChunksAreChunks
  <2>2. c \in ChunkSet(RecordSet)
    BY <1>3, <1>4, <1>7 DEF ChunkSet
  <2>3. Len(Append(delivered, c)) = Len(delivered) + 1
    BY <2>1, <2>2
  <2> QED
    BY <1>6, <2>1, <2>2, <2>3
<1>11. Taken(position)' = Append(w, ChunkRecord(c))
  BY <1>1, <1>4 DEF Taken
<1>12. Checked(position)'
  <2>1. position' \in 1 .. Len(source)
    BY <1>1, <1>3
  <2>2. \A i \in 1 .. (position + 1) : Whole(source[i])
    <3>1. source[position + 1] = Current
      BY DEF Current
    <3>2. \A i \in 1 .. (position + 1) : i \in 1 .. position \/ i = position + 1
      BY <1>6
    <3> QED
      BY <1>1, <1>6, <3>1, <3>2
  <2> QED
    BY <1>1, <1>8, <1>9, <1>10, <1>11, <2>1, <2>2 DEF Checked
<1>13. \A s \in StreamIds :
         expectedSequences'[s] =
           Cardinality(Numbered(Append(w, ChunkRecord(c)), s))
  <2> SUFFICES ASSUME NEW s \in StreamIds
               PROVE  expectedSequences'[s] =
                        Cardinality(Numbered(Append(w, ChunkRecord(c)), s))
    OBVIOUS
  <2>1. /\ Cardinality(Numbered(Append(w, ChunkRecord(c)), s)) =
             Cardinality(Numbered(w, s)) + (IF c.stream = s THEN 1 ELSE 0)
        /\ Cardinality(Numbered(w, s)) \in Nat
    BY <1>4, NumberedOfOneMore
  <2>2. expectedSequences'[s] =
          expectedSequences[s] + (IF c.stream = s THEN 1 ELSE 0)
    BY <1>1, <1>5 DEF ReaderType, c
  <2> QED
    BY <1>6, <2>1, <2>2
<1>14. /\ c.encoded \in Nat /\ c.logical \in Nat /\ ChunkSize(c) \in Nat
       /\ RecordHeaderSize \in Nat /\ ChunkSize(c) = RecordHeaderSize + c.encoded
  BY <1>3, SizesAreNaturals DEF IsChunk, ChunkSize
<1>15. /\ readerAccount' \in Account
       /\ readerAccount'["container_bytes"] =
            readerAccount["container_bytes"] + ChunkSize(c)
       /\ readerAccount'["chunks"] = readerAccount["chunks"] + 1
  <2>1. LET account == Recorded(WithChunk(c), "container_bytes", c.encoded)
        IN  /\ account \in Account
            /\ account["container_bytes"] =
                 readerAccount["container_bytes"]
                   + (RecordHeaderSize + c.encoded)
            /\ account["chunks"] = readerAccount["chunks"] + 1
    BY <1>3, <1>14, ChunkAccounts
  <2> QED
    BY <1>1, <1>14, <2>1
<1>16. ReaderType'
  <2>1. expectedSequences' \in [StreamIds -> Nat]
    BY <1>1, <1>5, NextSequence DEF c
  <2>2. bytesRead' \in Nat
    <3>1. bytesRead' = bytesRead + ChunkSize(c) /\ bytesRead \in Nat
      BY <1>1 DEF ReaderType, c
    <3> QED
      BY <1>14, <3>1
  <2>3. position' \in 0 .. Len(source)
    BY <1>1, <1>3
  <2> QED
    BY <1>1, <1>15, <2>1, <2>2, <2>3 DEF ReaderType
<1>17. PositionInv'
  <2>1. InUse'
    BY <1>1, <1>9, <1>11, <1>13 DEF InUse, c
  <2> QED
    BY <1>1, <1>12, <2>1 DEF PositionInv
<1>18. ChargedInv'
  <2>1. /\ "container_bytes" \in CoreResource
        /\ "encoded_chunk_bytes" \in CoreResource
        /\ "logical_chunk_bytes" \in CoreResource
        /\ "chunks" \in CoreResource
    BY DEF CoreResource, TotalResources, PeakResources
  <2>2. /\ WithinPolicy(readerPolicy, readerAccount)
        /\ readerAccount \in Account
        /\ bytesRead <= readerAccount["container_bytes"]
        /\ bytesRead \in Nat /\ readerAccount["container_bytes"] \in Nat
    BY <1>1, <2>1 DEF ChargedInv, MayIterate, ReaderType, Account
  <2>3. bytesRead' <= readerAccount'["container_bytes"]
    <3>1. bytesRead' = bytesRead + ChunkSize(c)
      BY <1>1 DEF c
    <3> QED
      BY <1>14, <1>15, <2>2, <3>1
  <2>4. WithinPolicy(readerPolicy, readerAccount')
    <3> SUFFICES ASSUME NEW r \in CoreResource
                 PROVE  Allows(readerPolicy, r, readerAccount'[r])
      BY DEF WithinPolicy
    <3>1. /\ EncodedAllowed(c) /\ LogicalAllowed(c) /\ ChunkAllowed
      BY <1>1 DEF HeaderAccepted, c
    <3>2. CASE r = "container_bytes"
      <4>1. Projected(readerAccount, "container_bytes", ChunkSize(c))
              = readerAccount'["container_bytes"]
        BY <1>15 DEF Projected, TotalResources
      <4> QED
        BY <1>1, <3>2, <4>1 DEF Chargeable, CanRecord, c
    <3>3. CASE r = "chunks"
      <4>1. Projected(readerAccount, "chunks", 1) = readerAccount'["chunks"]
        BY <1>15 DEF Projected, TotalResources
      <4> QED
        BY <3>1, <3>3, <4>1 DEF ChunkAllowed, CanRecord
    <3>4. CASE r \notin {"container_bytes", "chunks"}
      <4> DEFINE a == Counted(RecordHeaderSize)
      <4>1. a \in Account /\ a[r] = readerAccount[r]
              /\ a["encoded_chunk_bytes"] = readerAccount["encoded_chunk_bytes"]
              /\ a["logical_chunk_bytes"] = readerAccount["logical_chunk_bytes"]
        BY <1>14, <2>1, <3>4, CountedFacts
      <4> HIDE DEF a
      <4>2. /\ WithEncoded(c) \in Account
            /\ WithEncoded(c)["logical_chunk_bytes"]
                 = readerAccount["logical_chunk_bytes"]
            /\ r # "encoded_chunk_bytes" => WithEncoded(c)[r] = readerAccount[r]
            /\ r = "encoded_chunk_bytes" =>
                 WithEncoded(c)[r] =
                   Projected(readerAccount, "encoded_chunk_bytes", c.encoded)
        <5>1. WithEncoded(c) = Recorded(a, "encoded_chunk_bytes", c.encoded)
          BY DEF WithEncoded, a
        <5>2. Projected(a, "encoded_chunk_bytes", c.encoded) =
                Projected(readerAccount, "encoded_chunk_bytes", c.encoded)
          BY <4>1 DEF Projected
        <5>3. WithEncoded(c) \in Account
          BY <1>14, <2>1, <4>1, <5>1, RecordedIsAccount
        <5>4. WithEncoded(c)["logical_chunk_bytes"] = a["logical_chunk_bytes"]
          BY <1>14, <2>1, <4>1, <5>1, RecordedElsewhere
        <5>5. r # "encoded_chunk_bytes" => WithEncoded(c)[r] = a[r]
          BY <1>14, <2>1, <4>1, <5>1, RecordedElsewhere
        <5>6. WithEncoded(c)["encoded_chunk_bytes"] =
                Projected(a, "encoded_chunk_bytes", c.encoded)
          BY <1>14, <2>1, <4>1, <5>1, RecordedHere
        <5> QED
          BY <4>1, <5>2, <5>3, <5>4, <5>5, <5>6
      <4>3. /\ WithLogical(c) \in Account
            /\ r # "logical_chunk_bytes" =>
                 WithLogical(c)[r] = WithEncoded(c)[r]
            /\ r = "logical_chunk_bytes" =>
                 WithLogical(c)[r] =
                   Projected(readerAccount, "logical_chunk_bytes", c.logical)
        <5>1. Projected(WithEncoded(c), "logical_chunk_bytes", c.logical) =
                Projected(readerAccount, "logical_chunk_bytes", c.logical)
          BY <4>2 DEF Projected
        <5>2. WithLogical(c) \in Account
          BY <1>14, <2>1, <4>2, RecordedIsAccount DEF WithLogical
        <5>3. r # "logical_chunk_bytes" => WithLogical(c)[r] = WithEncoded(c)[r]
          BY <1>14, <2>1, <4>2, RecordedElsewhere DEF WithLogical
        <5>4. WithLogical(c)["logical_chunk_bytes"] =
                Projected(WithEncoded(c), "logical_chunk_bytes", c.logical)
          BY <1>14, <2>1, <4>2, RecordedHere DEF WithLogical
        <5> QED
          BY <5>1, <5>2, <5>3, <5>4
      <4>4. WithChunk(c) \in Account /\ WithChunk(c)[r] = WithLogical(c)[r]
        BY <2>1, <3>4, <4>3, RecordedIsAccount, RecordedElsewhere, 1 \in Nat
        DEF WithChunk
      <4>5. readerAccount'[r] = WithLogical(c)[r]
        BY <1>1, <1>14, <2>1, <3>4, <4>4, RecordedElsewhere DEF c
      <4>6. Allows(readerPolicy, r, readerAccount[r])
        BY <2>2 DEF WithinPolicy
      <4>7. CASE r = "encoded_chunk_bytes"
        BY <3>1, <4>2, <4>3, <4>5, <4>7 DEF EncodedAllowed, CanRecord
      <4>8. CASE r = "logical_chunk_bytes"
        BY <3>1, <4>3, <4>5, <4>8 DEF LogicalAllowed, CanRecord
      <4>9. CASE r \notin {"encoded_chunk_bytes", "logical_chunk_bytes"}
        BY <4>2, <4>3, <4>5, <4>6, <4>9
      <4> QED
        BY <4>7, <4>8, <4>9
    <3> QED
      BY <3>2, <3>3, <3>4
  <2>5. "chunks" \notin ReaderShared =>
          readerAccount'["chunks"] = Len(delivered')
    <3>1. "chunks" \notin ReaderShared =>
            readerAccount["chunks"] = Len(delivered)
      BY <1>1 DEF ChargedInv, MayIterate
    <3>2. Len(delivered') = Len(delivered) + 1
      BY <1>1, <1>10 DEF c
    <3> QED
      BY <1>15, <3>1, <3>2
  <2> QED
    BY <1>1, <2>3, <2>4, <2>5 DEF ChargedInv
<1> QED
  BY <1>16, <1>17, <1>18

\* The commit is accepted that states what was consumed.
LEMMA AcceptKeepsInv ==
  ASSUME ReaderInv, AcceptCommit
  PROVE  ReaderInv'
<1> USE DEF ReaderInv
<1>1. /\ MayIterate /\ ~AtEnd /\ Current.record.kind = "commit"
      /\ Current.present >= RecordHeaderSize
      /\ Current.damage = "none"
      /\ CommitMatches(Current.record)
      /\ position + 1 = Len(source)
      /\ readerState' = "complete"
      /\ readerAccount' = Counted(RecordHeaderSize)
      /\ position' = position + 1
      /\ bytesRead' = bytesRead + RecordHeaderSize
      /\ UNCHANGED <<readerPolicy, source, expectedSequences, readerTotals,
                     delivered, interrupted>>
  BY DEF AcceptCommit, HeaderRead, CommitAccepted, NothingFollows
<1>2. Checked(position) /\ InUse
  BY <1>1 DEF PositionInv, MayIterate
<1>3. /\ position + 1 \in 1 .. Len(source) /\ position \in 0 .. Len(source)
      /\ IsEntry(Current) /\ Current = source[position + 1]
      /\ position \in Int
  BY <1>1, CurrentFacts DEF ReaderType, Current
<1>4. /\ IsRecord(Current.record)
      /\ Current.record = CommitRecord(Current.record.totals,
                                       Current.record.committed,
                                       Current.record.content)
      /\ RecordSize(Current.record) = RecordHeaderSize
  <2>1. IsRecord(Current.record)
    BY <1>3, EntryFacts
  <2>2. Current.record # Preamble
    BY <1>1, RecordKinds
  <2>3. Current.record = CommitRecord(Current.record.totals,
                                      Current.record.committed,
                                      Current.record.content)
    BY <1>1, <2>1, <2>2 DEF IsRecord
  <2>4. RecordSize(CommitRecord(Current.record.totals,
                                Current.record.committed,
                                Current.record.content)) = RecordHeaderSize
    BY RecordKinds
  <2> QED
    BY <2>1, <2>3, <2>4
<1>5. Whole(Current)
  BY <1>1, <1>3, <1>4, EntryFacts, SizesAreNaturals
<1>6. Content = Taken(position)
  <2>1. /\ Taken(position) \in Seq(RecordSet) /\ Len(Taken(position)) = position
        /\ \A i \in 1 .. position : Taken(position)[i] = source[i].record
    BY <1>3, TakenFacts
  <2>2. Taken(position) = [i \in 1 .. position |-> Taken(position)[i]]
    BY <2>1
  <2> QED
    BY <2>1, <2>2 DEF Content
<1>7. Current.record =
        CommitRecord(TotalsOf(Taken(position)), SizeOf(Taken(position)),
                     Taken(position))
  BY <1>1, <1>2, <1>4, <1>6 DEF CommitMatches, Checked, InUse
<1>8. /\ RecordHeaderSize \in Nat /\ bytesRead \in Nat
      /\ readerAccount["container_bytes"] \in Nat
  BY SizesAreNaturals DEF ReaderType, Account, CoreResource, TotalResources
<1>9. /\ readerAccount' \in Account
      /\ readerAccount'["container_bytes"] =
           readerAccount["container_bytes"] + RecordHeaderSize
  BY <1>1, <1>8, CountedFacts
<1>10. ReaderType'
  BY <1>1, <1>3, <1>8, <1>9 DEF ReaderType
<1>11. PositionInv'
  <2>1. position' - 1 = position /\ position' = Len(source')
    BY <1>1, <1>3
  <2>2. Taken(position - 1)' = Taken(position)
    BY <1>1, <2>1 DEF Taken
  <2>3. Checked(position - 1)'
    BY <1>1, <1>2, <2>1, <2>2 DEF Checked
  <2>4. Whole(source[position])' /\ source'[position'] = Current
    BY <1>1, <1>3, <1>5
  <2> QED
    BY <1>1, <1>7, <2>1, <2>2, <2>3, <2>4 DEF PositionInv
<1>12. ChargedInv'
  <2>1. bytesRead <= readerAccount["container_bytes"]
    BY DEF ChargedInv
  <2>2. bytesRead' <= readerAccount'["container_bytes"]
    BY <1>1, <1>8, <1>9, <2>1
  <2> QED
    BY <1>1, <2>2 DEF ChargedInv
<1> QED
  BY <1>10, <1>11, <1>12

\* The consumer may charge the account of the session in between.
LEMMA ConsumerKeepsInv ==
  ASSUME ReaderInv, NEW r \in ReaderShared, NEW n \in 1 .. ReaderBound,
         ConsumerCharges(r, n)
  PROVE  ReaderInv' /\ readerAccount'["container_bytes"]
                         >= readerAccount["container_bytes"]
<1> USE DEF ReaderInv
<1>1. /\ readerState \in {"new", "ready", "consuming"}
      /\ CanRecord(readerPolicy, readerAccount, r, n)
      /\ readerAccount' = Recorded(readerAccount, r, n)
      /\ UNCHANGED <<readerPolicy, readerState, source, position, bytesRead,
                     expectedSequences, readerTotals, delivered, interrupted>>
  BY DEF ConsumerCharges
<1>2. /\ n \in Nat /\ r \in CoreResource /\ readerAccount \in Account
      /\ "container_bytes" \in CoreResource /\ "chunks" \in CoreResource
  BY ReaderAssumption DEF CoreResource, TotalResources, ReaderType
<1>3. readerAccount' \in Account
  BY <1>1, <1>2, RecordedIsAccount
<1>4. WithinPolicy(readerPolicy, readerAccount')
  BY <1>1, <1>2, RecordedWithinPolicy DEF ChargedInv
<1>5. readerAccount["container_bytes"] <= readerAccount'["container_bytes"]
  BY <1>1, <1>2, RecordedNeverLower
<1>6. "chunks" \notin ReaderShared =>
        readerAccount'["chunks"] = readerAccount["chunks"]
  BY <1>1, <1>2, RecordedElsewhere
<1>7. /\ readerAccount["container_bytes"] \in Nat /\ bytesRead \in Nat
      /\ readerAccount'["container_bytes"] \in Nat
  BY <1>2, <1>3 DEF Account, ReaderType
<1>8. ReaderType'
  BY <1>1, <1>3 DEF ReaderType
<1>9. PositionInv'
  <2>1. Checked(position) => Checked(position)'
    BY <1>1 DEF Checked, Taken
  <2>2. InUse => InUse'
    BY <1>1 DEF InUse, Taken
  <2> QED
    BY <1>1, <2>1, <2>2 DEF PositionInv
<1>10. ChargedInv'
  BY <1>1, <1>4, <1>5, <1>6, <1>7 DEF ChargedInv
<1> QED
  BY <1>5, <1>7, <1>8, <1>9, <1>10

-----------------------------------------------------------------------------
(* The invariant.                                                          *)

\* At first nothing was read, charged or yielded.
LEMMA InitInv == ReaderInit => ReaderInv
<1> SUFFICES ASSUME ReaderInit PROVE ReaderInv
  OBVIOUS
<1>1. readerPolicy \in Policy /\ IsSource(source)
  BY ReaderAssumption DEF ReaderInit
<1>2. NewAccount \in Account /\ WithinPolicy(readerPolicy, NewAccount)
  BY <1>1, NewAccountWithinPolicy
<1>3. source \in Seq({source[i] : i \in DOMAIN source})
  BY <1>1 DEF IsSource
<1>4. position \in 0 .. Len(source)
  BY <1>3 DEF ReaderInit
<1>5. ReaderType
  BY <1>1, <1>2, <1>4 DEF ReaderInit, ReaderType
<1>6. InUse
  <2>1. Taken(position) = <<>>
    BY <1>5, TakenFacts DEF ReaderInit
  <2> QED
    BY <2>1, NothingYet DEF ReaderInit, InUse
<1>7. PositionInv
  BY <1>6 DEF ReaderInit, PositionInv
<1>8. ChargedInv
  <2>1. NewAccount["container_bytes"] = 0 /\ NewAccount["chunks"] = 0
    BY DEF NewAccount, CoreResource, TotalResources
  <2>2. Len(<<>>) = 0
    OBVIOUS
  <2> QED
    BY <1>2, <2>1, <2>2 DEF ReaderInit, ChargedInv
<1> QED
  BY <1>5, <1>7, <1>8 DEF ReaderInv

\* A call that raises leaves a session that raised, one that returns keeps it
\* in use or completes it.
Refusal ==
  OpenRefused \/ RefuseRecord \/ RefuseChunkHeader \/ RefusePayload
    \/ RefuseCommit

\* Every refusal ends the session.
LEMMA RefusalFails ==
  ASSUME ReaderInv, Refusal
  PROVE  \/ readerState = "new" /\ Fails("raised")
         \/ MayIterate /\ Fails("failed")
BY OpenRefusedFails, RefuseRecordFails, RefuseChunkHeaderFails,
   RefusePayloadFails, CommitRefusalFails DEF Refusal

\* The steps of a session.
LEMMA StepCases ==
  ASSUME ReaderInv, ReaderNext
  PROVE  \/ Open
         \/ YieldChunk
         \/ AcceptCommit
         \/ \E r \in ReaderShared : \E n \in 1 .. ReaderBound :
              ConsumerCharges(r, n)
         \/ Refusal
         \/ ProbeRaises
         \/ CloseIterator
         \/ \E n \in Nat : ReadRaises(n)
<1>1. ASSUME NEW n \in 0 .. LongestRead, ReadRaises(n)
      PROVE  \E k \in Nat : ReadRaises(k)
  <2>1. LongestRead \in Nat
    <3>1. PreambleSize \in Nat
      BY SizesAreNaturals
    <3>2. ~AtEnd => Current.present \in Nat
      BY CurrentFacts DEF ReaderInv
    <3> QED
      BY <3>1, <3>2 DEF LongestRead
  <2>2. n \in Nat
    BY <2>1
  <2> QED
    BY <1>1, <2>2
<1> QED
  BY <1>1 DEF ReaderNext, NextChunk, Refusal

\* Every step keeps the invariant.
LEMMA StepInv == ReaderInv /\ [ReaderNext]_readerVars => ReaderInv'
<1> SUFFICES ASSUME ReaderInv, [ReaderNext]_readerVars PROVE ReaderInv'
  OBVIOUS
<1>1. CASE Open
  BY <1>1, OpenKeepsInv
<1>2. CASE YieldChunk
  BY <1>2, YieldKeepsInv
<1>3. CASE AcceptCommit
  BY <1>3, AcceptKeepsInv
<1>4. CASE \E r \in ReaderShared : \E n \in 1 .. ReaderBound :
             ConsumerCharges(r, n)
  BY <1>4, ConsumerKeepsInv
<1>5. CASE Refusal
  BY <1>5, RefusalFails, FailureKeepsInv
<1>6. CASE ProbeRaises
  BY <1>6, CommitRefusalFails, FailureKeepsInv
<1>7. CASE CloseIterator
  BY <1>7, CloseFails, FailureKeepsInv
<1>8. CASE \E n \in Nat : ReadRaises(n)
  BY <1>8, ReadRaisesFails, FailureKeepsInv
<1>9. CASE UNCHANGED readerVars
  <2>1. Checked(position) => Checked(position)'
    BY <1>9 DEF Checked, Taken, readerVars
  <2>2. Checked(position - 1) => Checked(position - 1)'
    BY <1>9 DEF Checked, Taken, readerVars
  <2>3. InUse => InUse'
    BY <1>9 DEF InUse, Taken, readerVars
  <2>4. Taken(position - 1)' = Taken(position - 1)
    BY <1>9 DEF Taken, readerVars
  <2>5. PositionInv'
    BY <1>9, <2>1, <2>2, <2>3, <2>4 DEF ReaderInv, PositionInv, readerVars
  <2>6. ReaderType' /\ ChargedInv'
    BY <1>9 DEF ReaderInv, ReaderType, ChargedInv, readerVars
  <2> QED
    BY <2>5, <2>6 DEF ReaderInv
<1> QED
  BY <1>1, <1>2, <1>3, <1>4, <1>5, <1>6, <1>7, <1>8, <1>9, StepCases

\* The counters, sequence numbers and chunks of a session always are those of
\* the records it consumed, and its bytes are charged.
THEOREM ReaderIsSound == ReaderSpec => []ReaderInv
BY InitInv, StepInv, PTL DEF ReaderSpec

\* When nobody else charges bytes to its accountant, a session has charged
\* exactly the bytes it counted.
LEMMA BytesAreCharged ==
  ASSUME ReaderInv, [ReaderNext]_readerVars,
         "container_bytes" \notin ReaderShared,
         readerAccount["container_bytes"] = bytesRead
  PROVE  readerAccount'["container_bytes"] = bytesRead'
<1>1. bytesRead \in Nat /\ ReaderType
  BY DEF ReaderInv, ReaderType
<1>2. CASE Open
  <2>1. Taken(position) = <<>> /\ InUse
    BY <1>1, <1>2, TakenFacts DEF Open, ReaderInv, PositionInv
  <2>2. bytesRead = 0
    BY <2>1, NothingYet DEF InUse
  <2>3. Opening(PreambleSize, Len(Observations)).account["container_bytes"]
          = readerAccount["container_bytes"] + PreambleSize
    <3>1. Len(Observations) \in 0 .. Len(Observations)
      BY ObservationFacts
    <3> QED
      BY <1>1, <3>1, SizesAreNaturals, OpeningFacts
  <2> QED
    BY <1>2, <2>2, <2>3, SizesAreNaturals DEF Open
<1>3. CASE YieldChunk
  <2> DEFINE c == Current.record.chunk
  <2>1. ~AtEnd /\ Current.record.kind = "chunk"
    BY <1>3 DEF YieldChunk, HeaderRead
  <2>2. IsChunk(c)
    BY <1>1, <2>1, CurrentFacts
  <2>3. c.encoded \in Nat
    BY <2>2 DEF IsChunk
  <2>4. /\ readerAccount' = Recorded(WithChunk(c), "container_bytes", c.encoded)
        /\ bytesRead' = bytesRead + (RecordHeaderSize + c.encoded)
    BY <1>3 DEF YieldChunk, ChunkSize
  <2> HIDE DEF c
  <2>5. Recorded(WithChunk(c), "container_bytes", c.encoded)["container_bytes"]
          = readerAccount["container_bytes"] + (RecordHeaderSize + c.encoded)
    BY <1>1, <2>2, <2>3, ChunkAccounts
  <2> QED
    BY <2>4, <2>5
<1>4. CASE AcceptCommit
  BY <1>1, <1>4, CountedFacts, SizesAreNaturals DEF AcceptCommit
<1>5. ASSUME NEW r \in ReaderShared, NEW n \in 1 .. ReaderBound,
             ConsumerCharges(r, n)
      PROVE  readerAccount'["container_bytes"] = bytesRead'
  <2>1. /\ r \in CoreResource /\ r # "container_bytes" /\ n \in Nat
        /\ "container_bytes" \in CoreResource
    BY ReaderAssumption DEF CoreResource, TotalResources
  <2> QED
    BY <1>1, <1>5, <2>1, RecordedElsewhere DEF ConsumerCharges, ReaderType
<1>6. ASSUME NEW state, Fails(state)
      PROVE  readerAccount'["container_bytes"] = bytesRead'
  <2>1. /\ readerAccount' \in Account /\ bytesRead' \in Nat
        /\ readerAccount'["container_bytes"] - bytesRead'
             = readerAccount["container_bytes"] - bytesRead
    BY <1>6 DEF Fails
  <2>2. readerAccount'["container_bytes"] \in Nat
    BY <2>1 DEF Account, CoreResource, TotalResources
  <2> QED
    BY <1>1, <2>1, <2>2
<1>7. CASE UNCHANGED readerVars
  BY <1>7 DEF readerVars
<1> QED
  BY <1>2, <1>3, <1>4, <1>5, <1>6, <1>7, StepCases, RefusalFails,
     CommitRefusalFails, CloseFails, ReadRaisesFails

-----------------------------------------------------------------------------
(* What a session accepts and yields.                                      *)

\* A session that completed did so over a valid, undamaged container that ends
\* where its commit ends, and yielded every chunk of it in order.
THEOREM CompletesOnlyOverValid == ReaderSpec => []AcceptsOnlyValid
<1>1. ReaderInv => AcceptsOnlyValid
  <2> SUFFICES ASSUME ReaderInv, readerState = "complete"
               PROVE  /\ ValidSource(source)
                      /\ delivered = ChunksOf(RecordsOf(source))
    BY DEF AcceptsOnlyValid
  <2> DEFINE w == RecordsOf(source)
             n == Len(source)
  <2>1. /\ position = n /\ Checked(n - 1) /\ Whole(source[n])
        /\ source[n].record =
             CommitRecord(TotalsOf(Taken(n - 1)), SizeOf(Taken(n - 1)),
                          Taken(n - 1))
    BY DEF ReaderInv, PositionInv
  <2>2. /\ n \in Nat /\ w \in Seq(RecordSet) /\ Len(w) = n
        /\ DOMAIN source = 1 .. n
        /\ \A i \in 1 .. n : w[i] = source[i].record
        /\ \A r \in RecordSet : IsRecord(r)
    BY SourceFacts DEF ReaderInv
  <2>3. /\ ValidContent(Taken(n - 1)) /\ n - 1 \in 1 .. n
        /\ \A i \in 1 .. (n - 1) : Whole(source[i])
        /\ delivered = ChunksOf(Taken(n - 1))
    BY <2>1 DEF Checked
  <2> HIDE DEF n
  <2>4. n >= 2 /\ n - 1 \in 0 .. (n - 1) /\ n - 1 \in 0 .. n /\ n \in 1 .. n
        /\ (n - 1) + 1 = n
    BY <2>2, <2>3
  <2>5. /\ w = Append(Taken(n - 1), source[n].record)
        /\ source[n].record \in RecordSet
        /\ Taken(n - 1) \in Seq(RecordSet)
    BY <2>4, TakenFacts DEF ReaderInv, n
  <2>6. ChunksOf(w) = ChunksOf(Taken(n - 1))
    <3>1. source[n].record.kind = "commit"
      BY <2>1, RecordKinds
    <3> QED
      BY <2>2, <2>5, <3>1, ChunksOfOneMore
  <2>7. ValidContainer(w)
    <3>1. SubSeq(w, 1, Len(w) - 1) = Taken(n - 1)
      BY <2>2 DEF Taken
    <3>2. w[Len(w)] = source[n].record
      BY <2>2, <2>4
    <3> HIDE DEF w
    <3> QED
      BY <2>1, <2>2, <2>3, <2>4, <3>1, <3>2 DEF ValidContainer
  <2>8. \A i \in DOMAIN source : Whole(source[i])
    <3>1. \A i \in 1 .. n : i \in 1 .. (n - 1) \/ i = n
      BY <2>2
    <3> QED
      BY <2>1, <2>2, <2>3, <3>1
  <2> QED
    BY <2>3, <2>6, <2>7, <2>8 DEF ValidSource
<1> QED
  BY <1>1, ReaderIsSound, PTL

\* At every moment, what was yielded is a run of whole records of the source
\* from its beginning, numbered without a gap in every stream.
THEOREM YieldsOnlyChecked == ReaderSpec => []DeliveredIsCheckedPrefix
<1>1. ReaderInv => DeliveredIsCheckedPrefix
  <2> SUFFICES ASSUME ReaderInv, delivered # <<>>
               PROVE  LET consumed == SubSeq(source, 1, Len(delivered) + 1) IN
                      /\ ValidContent(RecordsOf(consumed))
                      /\ \A i \in DOMAIN consumed : Whole(consumed[i])
                      /\ delivered = ChunksOf(RecordsOf(consumed))
    BY DEF DeliveredIsCheckedPrefix
  <2>1. PICK k \in 1 .. Len(source) : Checked(k)
    <3>1. readerState \in {"ready", "consuming", "failed", "complete"}
      BY DEF ReaderInv, ReaderType, PositionInv
    <3>2. Checked(position) \/ Checked(position - 1)
      BY <3>1 DEF ReaderInv, PositionInv
    <3> QED
      BY <3>2 DEF Checked
  <2>2. Len(source) \in Nat /\ source \in Seq({source[i] : i \in DOMAIN source})
    BY SourceFacts DEF ReaderInv, ReaderType, IsSource
  <2>3. Len(delivered) + 1 = k
    BY <2>1 DEF Checked
  <2> DEFINE consumed == SubSeq(source, 1, k)
  <2>4. /\ DOMAIN consumed = 1 .. k
        /\ \A i \in 1 .. k : consumed[i] = source[i] /\ i \in 1 .. Len(source)
    BY <2>2
  <2> HIDE DEF consumed
  <2>5. RecordsOf(consumed) = Taken(k)
    <3>1. RecordsOf(consumed) = [i \in 1 .. k |-> source[i].record]
      BY <2>4 DEF RecordsOf
    <3>2. /\ Taken(k) \in Seq(RecordSet) /\ Len(Taken(k)) = k
          /\ \A i \in 1 .. k : Taken(k)[i] = source[i].record
      <4>1. k \in 0 .. Len(source)
        BY <2>2
      <4> QED
        BY <4>1, TakenFacts DEF ReaderInv
    <3>3. Taken(k) = [i \in 1 .. k |-> Taken(k)[i]]
      BY <3>2
    <3> QED
      BY <3>1, <3>2, <3>3
  <2>6. /\ ValidContent(RecordsOf(consumed))
        /\ \A i \in DOMAIN consumed : Whole(consumed[i])
        /\ delivered = ChunksOf(RecordsOf(consumed))
    BY <2>1, <2>4, <2>5 DEF Checked
  <2> QED
    BY <2>3, <2>6 DEF consumed
<1> QED
  BY <1>1, ReaderIsSound, PTL

\* A session that failed or completed yields nothing more, reads nothing more
\* and does not change its mind.
THEOREM ReaderEndIsFinal == ReaderSpec => EndedForGood
<1>1. ReaderInv /\ [ReaderNext]_readerVars =>
        [(readerState \in {"complete", "failed", "raised"})
           => UNCHANGED <<readerState, delivered, bytesRead>>]_readerVars
  <2> SUFFICES ASSUME ReaderInv, ReaderNext,
                      readerState \in {"complete", "failed", "raised"}
               PROVE  FALSE
    OBVIOUS
  <2>1. ~MayIterate /\ readerState \notin {"new", "ready", "consuming"}
    BY DEF MayIterate
  <2>2. /\ ~Open /\ ~CloseIterator /\ ~ProbeRaises
        /\ \A r \in ReaderShared : \A n \in 1 .. ReaderBound :
             ~ConsumerCharges(r, n)
    BY <2>1 DEF Open, CloseIterator, ProbeRaises, HeaderRead, ConsumerCharges
  <2>3. ~YieldChunk /\ ~AcceptCommit
    BY <2>1 DEF YieldChunk, AcceptCommit, HeaderRead
  <2>4. ~Refusal
    BY <2>1, RefusalFails
  <2>5. \A n \in Nat : ~ReadRaises(n)
    BY <2>1, ReadRaisesFails
  <2> QED
    BY <2>2, <2>3, <2>4, <2>5, StepCases
<1> QED
  BY <1>1, ReaderIsSound, PTL DEF ReaderSpec, EndedForGood

-----------------------------------------------------------------------------
(* What a session refuses.                                                 *)

\* Nobody but the session charged what its ceilings are compared with.
Undisturbed ==
  /\ readerAccount["container_bytes"] = bytesRead
  /\ "chunks" \notin ReaderShared

\* The records of a valid source before its commit.
LEMMA ValidFacts ==
  ASSUME ReaderType, ValidSource(source)
  PROVE  LET n == Len(source) IN
         /\ n \in Nat /\ n >= 2
         /\ ValidContent(Taken(n - 1))
         /\ source[n].record =
              CommitRecord(TotalsOf(Taken(n - 1)), SizeOf(Taken(n - 1)),
                           Taken(n - 1))
         /\ \A i \in 1 .. n : Whole(source[i])
<1> DEFINE w == RecordsOf(source)
           n == Len(source)
<1>1. /\ n \in Nat /\ w \in Seq(RecordSet) /\ Len(w) = n
      /\ DOMAIN source = 1 .. n
      /\ \A i \in 1 .. n : w[i] = source[i].record
  BY SourceFacts
<1>2. /\ Len(w) >= 2
      /\ ValidContent(SubSeq(w, 1, Len(w) - 1))
      /\ w[Len(w)] = CommitRecord(TotalsOf(SubSeq(w, 1, Len(w) - 1)),
                                  SizeOf(SubSeq(w, 1, Len(w) - 1)),
                                  SubSeq(w, 1, Len(w) - 1))
      /\ \A i \in DOMAIN source : Whole(source[i])
  <2> HIDE DEF w
  <2>1. ValidContainer(w) /\ \A i \in DOMAIN source : Whole(source[i])
    BY DEF ValidSource, w
  <2> QED
    BY <2>1 DEF ValidContainer
<1>3. SubSeq(w, 1, Len(w) - 1) = Taken(n - 1)
  BY <1>1 DEF Taken
<1> HIDE DEF w, n
<1>4. n >= 2 /\ n \in 1 .. n
  BY <1>1, <1>2
<1>5. w[Len(w)] = source[n].record
  BY <1>1, <1>4
<1> QED
  BY <1>1, <1>2, <1>3, <1>4, <1>5 DEF n

\* The next record of an affordable source fits.
LEMMA RoomForNext ==
  ASSUME ReaderType, Affordable, NEW k \in 0 .. (Len(source) - 1)
  PROVE  /\ \A n \in Nat :
              n <= SizeOf(Taken(k)) + RecordSize(source[k + 1].record)
                => Allows(readerPolicy, "container_bytes", n)
         /\ SizeOf(Taken(k)) \in Nat
         /\ RecordSize(source[k + 1].record) \in Nat
<1> DEFINE w == RecordsOf(source)
           size == SizeOf(Taken(k)) + RecordSize(source[k + 1].record)
<1>1. /\ w \in Seq(RecordSet) /\ Len(w) = Len(source) /\ Len(source) \in Nat
      /\ \A r \in RecordSet : IsRecord(r)
  BY SourceFacts
<1>2. /\ k \in 0 .. Len(source) /\ k + 1 \in 0 .. Len(w)
      /\ k + 1 \in 1 .. Len(source)
  BY <1>1
<1>3. /\ Taken(k + 1) = Append(Taken(k), source[k + 1].record)
      /\ source[k + 1].record \in RecordSet
      /\ Taken(k) \in Seq(RecordSet)
  BY <1>2, TakenFacts
<1>4. /\ SizeOf(Taken(k + 1)) = size
      /\ SizeOf(Taken(k)) \in Nat
      /\ RecordSize(source[k + 1].record) \in Nat
  <2> DEFINE r == source[k + 1].record
  <2>1. r \in RecordSet /\ Taken(k + 1) = Append(Taken(k), r)
    BY <1>3
  <2>2. RecordSize(r) \in Nat
    BY <1>1, <2>1, RecordSizes
  <2> HIDE DEF r
  <2>3. /\ SizeOf(Append(Taken(k), r)) = SizeOf(Taken(k)) + RecordSize(r)
        /\ SizeOf(Taken(k)) \in Nat
    BY <1>1, <1>3, <2>1, SizeOfOneMore
  <2> QED
    BY <2>1, <2>2, <2>3 DEF r
<1>5. SizeOf(Taken(k + 1)) <= SizeOf(w) /\ SizeOf(w) \in Nat
  <2> HIDE DEF w
  <2>1. SizeOf(SubSeq(w, 1, k + 1)) <= SizeOf(w) /\ SizeOf(w) \in Nat
    BY <1>1, <1>2, SizeOfBeginning
  <2> QED
    BY <2>1 DEF Taken, w
<1>6. Allows(readerPolicy, "container_bytes", SizeOf(w))
  BY DEF Affordable
<1>7. readerPolicy \in Policy /\ "container_bytes" \in CoreResource
  BY DEF ReaderType, CoreResource, TotalResources
<1> HIDE DEF w
<1>8. ASSUME NEW n \in Nat, n <= size
      PROVE  Allows(readerPolicy, "container_bytes", n)
  <2>1. n <= SizeOf(w)
    BY <1>4, <1>5, <1>8
  <2> QED
    BY <1>5, <1>6, <1>7, <2>1, AllowsLess
<1> QED
  BY <1>4, <1>8

\* A valid source that is affordable is not refused by the constructor.
LEMMA AffordsOpen ==
  ASSUME ReaderInv, ValidSource(source), Affordable, Undisturbed,
         readerState = "new"
  PROVE  /\ source # <<>>
         /\ HasRoomAfter(0, HeaderSize)
         /\ HasRoomAfter(HeaderSize, ManifestSize)
         /\ Head(source).damage = "none"
         /\ Head(source).present = PreambleSize
         /\ \A n \in 0 .. PreambleSize : \A k \in 0 .. Len(Observations) :
              Opening(n, k).ok
<1>1. ReaderType /\ position = 0 /\ InUse
  BY DEF ReaderInv, PositionInv
<1>2. Len(source) \in Nat /\ Len(source) >= 2
      /\ \A i \in 1 .. Len(source) : Whole(source[i])
  BY <1>1, ValidFacts
<1>3. /\ 1 \in 1 .. Len(source) /\ 0 \in 0 .. (Len(source) - 1)
      /\ source # <<>> /\ Head(source) = source[1]
  <2>1. source \in Seq({source[i] : i \in DOMAIN source})
    BY <1>1 DEF ReaderType, IsSource
  <2> QED
    BY <1>2, <2>1
<1>4. /\ IsEntry(source[1]) /\ source[1].record.kind = "preamble"
      /\ IsRecord(source[1].record)
  BY <1>1, <1>3, SourceFacts, EntryFacts
<1>5. source[1].record = Preamble
  BY <1>4 DEF IsRecord
<1>6. SizeOf(Taken(0)) = 0 /\ bytesRead = 0
  <2>1. Taken(0) = <<>>
    BY <1>1, TakenFacts
  <2> QED
    BY <1>1, <2>1, NothingYet DEF InUse
<1>7. /\ HeaderSize \in Nat /\ ManifestSize \in Nat /\ PreambleSize \in Nat
      /\ PreambleSize = HeaderSize + ManifestSize
  BY SizesAreNaturals DEF PreambleSize
<1>8. \A n \in Nat : n <= PreambleSize
                       => Allows(readerPolicy, "container_bytes", n)
  <2>1. 0 + 1 = 1 /\ RecordSize(source[1].record) = PreambleSize
    BY <1>5, RecordKinds
  <2>2. \A n \in Nat : n <= SizeOf(Taken(0)) + RecordSize(source[0 + 1].record)
                         => Allows(readerPolicy, "container_bytes", n)
    BY <1>1, <1>3, RoomForNext
  <2> QED
    BY <1>6, <1>7, <2>1, <2>2
<1>9. HasRoomAfter(0, HeaderSize) /\ HasRoomAfter(HeaderSize, ManifestSize)
  <2>1. /\ bytesRead + 0 + HeaderSize = HeaderSize
        /\ bytesRead + HeaderSize + ManifestSize = PreambleSize
        /\ HeaderSize <= PreambleSize
    BY <1>6, <1>7
  <2> QED
    BY <1>7, <1>8, <2>1 DEF HasRoomAfter
<1>10. ASSUME NEW n \in 0 .. PreambleSize, NEW k \in 0 .. Len(Observations)
       PROVE  Opening(n, k).ok
  <2> DEFINE first == SubSeq(Observations, 1, k)
             t == Session(Counted(n))
  <2>1. n \in Nat
    BY <1>7
  <2>2. /\ "container_bytes" \in CoreResource
        /\ readerPolicy \in Policy /\ readerAccount \in Account
        /\ WithinPolicy(readerPolicy, readerAccount)
    BY DEF ReaderInv, ChargedInv, ReaderType, CoreResource, TotalResources
  <2>3. Projected(readerAccount, "container_bytes", n) = n
    BY <1>6, <2>1 DEF Projected, TotalResources, Undisturbed
  <2>4. WithinPolicy(readerPolicy, Counted(n)) /\ Counted(n) \in Account
    BY <1>1, <1>8, <2>1, <2>2, <2>3, RecordedWithinPolicy, CountedFacts
    DEF CanRecord, Counted
  <2>5. IsSession(t) /\ t.ok /\ t.account = Counted(n)
    BY <2>4 DEF IsSession, Session
  <2>6. /\ first \in PeakCharges /\ Len(first) = k
        /\ \A i \in 1 .. k : first[i] = Observations[i]
    BY FirstObservations
  <2>7. k \in Nat /\ \A i \in 1 .. k : i \in 1 .. Len(Observations)
    BY ObservationFacts
  <2>8. \A i \in 1 .. Len(first) :
          Allows(readerPolicy, first[i][1], first[i][2])
    <3>1. DOMAIN Observations = 1 .. Len(Observations)
      BY ObservationFacts DEF PeakCharges
    <3> QED
      BY <2>6, <2>7, <3>1 DEF Affordable
  <2> HIDE DEF first, t
  <2>9. /\ first \in Charges
        /\ \A i \in 1 .. Len(first) : first[i][1] \notin TotalResources
    <3>1. \A i \in 1 .. Len(first) :
            first[i] \in (CoreResource \ TotalResources) \X Nat
      BY <2>6 DEF PeakCharges
    <3> QED
      BY <2>6, <3>1 DEF PeakCharges, Charges
  <2>10. Charged(readerPolicy, t, first).ok
    BY <2>2, <2>4, <2>5, <2>8, <2>9, ChargedFits DEF AllTaken
  <2> QED
    BY <2>10 DEF Opening, first, t
<1>11. source[1].damage = "none" /\ source[1].present = PreambleSize
  <2>1. Whole(source[1]) /\ RecordSize(source[1].record) = PreambleSize
    BY <1>2, <1>3, <1>5, RecordKinds
  <2> QED
    BY <1>4, <2>1, EntryFacts
<1> QED
  BY <1>3, <1>9, <1>10, <1>11

\* Of a valid source that is affordable the next chunk is not refused.
LEMMA AffordsNext ==
  ASSUME ReaderInv, ValidSource(source), Affordable, Undisturbed, MayIterate
  PROVE  /\ HasRoomAfter(0, RecordHeaderSize)
         /\ ~AtEnd
         /\ Whole(Current)
         /\ Current.present >= RecordHeaderSize
         /\ Current.record.kind = "chunk" =>
              /\ HeaderAccepted(Current.record.chunk)
              /\ HasRoomAfter(RecordHeaderSize, Current.record.chunk.encoded)
         /\ Current.record.kind = "commit" => CommitAccepted
<1> DEFINE n == Len(source)
           content == Taken(n - 1)
           k == position
<1>1. ReaderType /\ Checked(k) /\ InUse /\ ChargedInv
  BY DEF ReaderInv, PositionInv, MayIterate
<1>2. /\ n \in Nat /\ n >= 2
      /\ ValidContent(content)
      /\ source[n].record =
           CommitRecord(TotalsOf(content), SizeOf(content), content)
      /\ \A i \in 1 .. n : Whole(source[i])
  BY <1>1, ValidFacts
<1>3. k \in 1 .. n /\ ValidContent(Taken(k))
  BY <1>1 DEF Checked
<1>4. /\ content \in Seq(RecordSet) /\ Len(content) = n - 1
      /\ \A i \in 1 .. (n - 1) : content[i] = source[i].record
      /\ Taken(k) \in Seq(RecordSet) /\ Len(Taken(k)) = k
      /\ \A i \in 1 .. k : Taken(k)[i] = source[i].record
  <2>1. n - 1 \in 0 .. n /\ k \in 0 .. n
    BY <1>2, <1>3
  <2> QED
    BY <1>1, <2>1, TakenFacts
<1> HIDE DEF n, content, k
<1>5. source[n].record.kind = "commit"
  BY <1>2, RecordKinds
<1>6. k # n
  <2> SUFFICES ASSUME k = n PROVE FALSE
    OBVIOUS
  <2>1. n \in 2 .. Len(Taken(k)) /\ n \in 1 .. k
    BY <1>2, <1>4
  <2>2. Taken(k)[n].kind = "chunk"
    BY <1>3, <2>1 DEF ValidContent
  <2> QED
    BY <1>4, <1>5, <2>1, <2>2
<1>7. ~AtEnd
  BY <1>6 DEF AtEnd, n, k
<1>8. /\ k + 1 \in 1 .. n /\ k \in 0 .. (n - 1) /\ Current = source[k + 1]
      /\ IsEntry(Current) /\ k \in Int
  BY <1>1, <1>7, <1>3, CurrentFacts DEF n, k, Current
<1>9. Whole(Current)
  BY <1>2, <1>8
<1>10. /\ bytesRead = SizeOf(Taken(k)) /\ bytesRead \in Nat
       /\ readerAccount["container_bytes"] = bytesRead
  BY <1>1 DEF InUse, k, ReaderType, Undisturbed
<1>11. /\ Current.damage = "none"
       /\ Current.present = RecordSize(Current.record)
       /\ IsRecord(Current.record)
  BY <1>8, <1>9, EntryFacts
<1>12. /\ \A m \in Nat : m <= bytesRead + RecordSize(Current.record)
                           => Allows(readerPolicy, "container_bytes", m)
       /\ RecordSize(Current.record) \in Nat
  <2>1. k \in 0 .. (Len(source) - 1)
    BY <1>8 DEF n
  <2> QED
    BY <1>1, <1>8, <1>10, <2>1, RoomForNext
<1>13. RecordHeaderSize \in Nat
  BY SizesAreNaturals
<1>14. /\ k + 1 # n => /\ Current.record.kind = "chunk"
                       /\ k + 1 \in 1 .. (n - 1)
                       /\ content[k + 1] = Current.record
       /\ k + 1 = n => Current.record.kind = "commit"
  <2>1. ASSUME k + 1 # n
        PROVE  /\ Current.record.kind = "chunk"
               /\ k + 1 \in 1 .. (n - 1)
               /\ content[k + 1] = Current.record
    <3>1. k + 1 \in 2 .. Len(content) /\ k + 1 \in 1 .. (n - 1)
      BY <1>2, <1>3, <1>4, <1>8, <2>1
    <3>2. content[k + 1].kind = "chunk"
      BY <1>2, <3>1 DEF ValidContent
    <3> QED
      BY <1>4, <1>8, <3>1, <3>2
  <2> QED
    BY <1>5, <1>8, <2>1
<1>15. RecordSize(Current.record) >= RecordHeaderSize
  <2>1. CASE Current.record.kind = "chunk"
    <3>1. /\ IsChunk(Current.record.chunk)
          /\ RecordSize(Current.record) = ChunkSize(Current.record.chunk)
      BY <1>11, <2>1, RecordSizes
    <3> QED
      BY <1>13, <3>1 DEF IsChunk, ChunkSize
  <2>2. CASE k + 1 = n
    BY <1>2, <1>8, <1>13, <2>2, RecordKinds
  <2> QED
    BY <1>14, <2>1, <2>2
<1>16. HasRoomAfter(0, RecordHeaderSize)
  <2>1. /\ bytesRead + 0 + RecordHeaderSize \in Nat
        /\ bytesRead + 0 + RecordHeaderSize
             <= bytesRead + RecordSize(Current.record)
    BY <1>10, <1>12, <1>13, <1>15
  <2> QED
    BY <1>12, <2>1 DEF HasRoomAfter
<1>17. ASSUME Current.record.kind = "chunk"
       PROVE  /\ HeaderAccepted(Current.record.chunk)
              /\ HasRoomAfter(RecordHeaderSize, Current.record.chunk.encoded)
  <2> DEFINE c == Current.record.chunk
             w == RecordsOf(source)
  <2>1. /\ IsChunk(c) /\ Current.record = ChunkRecord(c)
        /\ RecordSize(Current.record) = RecordHeaderSize + c.encoded
        /\ c.encoded \in Nat /\ c.logical \in Nat
    BY <1>11, <1>17, RecordSizes DEF IsChunk, ChunkSize
  <2>2. k + 1 # n
    BY <1>5, <1>8, <1>17
  <2>3. HasRoomAfter(RecordHeaderSize, c.encoded)
    <3>1. bytesRead + RecordHeaderSize + c.encoded
            = bytesRead + RecordSize(Current.record)
      BY <1>10, <1>13, <2>1
    <3>2. bytesRead + RecordSize(Current.record) \in Nat
      BY <1>10, <1>12
    <3> HIDE DEF c
    <3> QED
      BY <1>12, <3>1, <3>2 DEF HasRoomAfter
  <2>4. Expected(c)
    <3>1. /\ Taken(k + 1) = Append(Taken(k), ChunkRecord(c))
          /\ ChunkRecord(c) \in RecordSet
      BY <1>1, <1>8, <2>1, TakenFacts DEF n
    <3>2. ValidContent(Taken(k + 1))
      <4>1. k + 1 \in 1 .. Len(content)
        BY <1>4, <1>14, <1>17, <2>2
      <4>2. ValidContent(SubSeq(content, 1, k + 1))
        BY <1>2, <1>4, <4>1, ContentOfBeginning
      <4>3. SubSeq(content, 1, k + 1) = Taken(k + 1)
        <5>1. w \in Seq(RecordSet) /\ Len(w) = n
          BY <1>1, SourceFacts DEF n
        <5>2. content = SubSeq(w, 1, n - 1)
          BY DEF content, Taken
        <5>3. k + 1 \in 1 .. (n - 1) /\ n - 1 \in 0 .. n
          BY <1>2, <1>14, <2>2
        <5> HIDE DEF w
        <5>4. SubSeq(SubSeq(w, 1, n - 1), 1, k + 1) = SubSeq(w, 1, k + 1)
          BY <1>2, <5>1, <5>3
        <5> QED
          BY <5>2, <5>4 DEF Taken, w
      <4> QED
        BY <4>2, <4>3
    <3>3. Len(Taken(k)) >= 1
      BY <1>3, <1>4
    <3> HIDE DEF c
    <3>4. /\ c.stream \in StreamIds /\ c.recipe \in RecipeIds
          /\ c.sequence = Cardinality(Numbered(Taken(k), c.stream))
      <4>1. ValidContent(Append(Taken(k), ChunkRecord(c)))
        BY <3>1, <3>2
      <4> QED
        BY <1>4, <3>1, <3>3, <4>1, ContentOfOneMore
    <3>5. expectedSequences[c.stream]
            = Cardinality(Numbered(Taken(k), c.stream))
      BY <1>1, <3>4 DEF InUse, k
    <3> QED
      BY <3>4, <3>5 DEF Expected, InSequence
  <2>5. /\ w \in Seq(RecordSet) /\ Len(w) = n
        /\ \A i \in 1 .. n : w[i] = source[i].record
        /\ \A r \in RecordSet : IsRecord(r)
    BY <1>1, SourceFacts DEF n
  <2>6. k + 1 \in ChunkPositions(w) /\ w[k + 1].chunk = c
    BY <1>8, <1>17, <2>5 DEF ChunkPositions
  <2>7. /\ WithinPolicy(readerPolicy, readerAccount)
        /\ readerAccount \in Account /\ readerPolicy \in Policy
        /\ readerAccount["chunks"] = Len(delivered)
    BY <1>1 DEF ChargedInv, MayIterate, ReaderType, Undisturbed
  <2>8. EncodedAllowed(c) /\ LogicalAllowed(c)
    <3>1. /\ Allows(readerPolicy, "encoded_chunk_bytes", c.encoded)
          /\ Allows(readerPolicy, "logical_chunk_bytes", c.logical)
      BY <2>6 DEF Affordable
    <3>2. /\ "encoded_chunk_bytes" \in CoreResource \ TotalResources
          /\ "logical_chunk_bytes" \in CoreResource \ TotalResources
      BY DEF CoreResource, TotalResources, PeakResources
    <3> HIDE DEF c
    <3> QED
      BY <2>1, <2>7, <3>1, <3>2, PeakCanBeRecorded
      DEF EncodedAllowed, LogicalAllowed
  <2>9. ChunkAllowed
    <3>1. /\ Taken(k + 1) = Append(Taken(k), ChunkRecord(c))
          /\ ChunkRecord(c) \in RecordSet
      BY <1>1, <1>8, <2>1, TakenFacts DEF n
    <3> HIDE DEF c, w
    <3>2. ChunksOf(Taken(k + 1)) = Append(ChunksOf(Taken(k)), c)
      <4>1. ChunkRecord(c).kind = "chunk" /\ ChunkRecord(c).chunk = c
        BY RecordKinds
      <4>2. ChunksOf(Append(Taken(k), ChunkRecord(c)))
              = Append(ChunksOf(Taken(k)), c)
        BY <1>4, <2>5, <3>1, <4>1, ChunksOfOneMore
      <4> QED
        BY <3>1, <4>2
    <3>3. /\ ChunksOf(Taken(k)) \in Seq(ChunkSet(RecordSet))
          /\ delivered = ChunksOf(Taken(k))
      BY <1>1, <1>4, <2>5, ChunksAreChunks DEF Checked
    <3>4. c \in ChunkSet(RecordSet)
      BY <2>1, <3>1, RecordKinds DEF ChunkSet
    <3>5. Len(ChunksOf(Taken(k + 1))) = Len(delivered) + 1
      BY <3>2, <3>3, <3>4
    <3>6. Taken(k + 1) \in Seq(RecordSet) /\ k + 1 \in 0 .. Len(w)
      <4>1. Taken(k) \in Seq(RecordSet)
        BY <1>4, <2>5
      <4>2. Taken(k + 1) \in Seq(RecordSet)
        BY <3>1, <4>1
      <4>3. k + 1 \in 0 .. Len(w)
        BY <1>8, <2>5
      <4> QED
        BY <4>2, <4>3
    <3>7. Len(ChunksOf(Taken(k + 1))) = Cardinality(ChunkPositions(Taken(k + 1)))
      BY <2>5, <3>6, ChunksAreChunks
    <3>8. /\ Cardinality(ChunkPositions(SubSeq(w, 1, k + 1)))
               <= Cardinality(ChunkPositions(w))
          /\ Cardinality(ChunkPositions(SubSeq(w, 1, k + 1))) \in Nat
          /\ Cardinality(ChunkPositions(w)) \in Nat
      BY <2>5, <3>6, ChunksOfBeginning
    <3>9. SubSeq(w, 1, k + 1) = Taken(k + 1)
      BY DEF Taken, w
    <3>10. TotalsOf(w).chunks = Cardinality(ChunkPositions(w))
      BY <2>5, ChunksAreChunks DEF TotalsOf
    <3>11. Allows(readerPolicy, "chunks", TotalsOf(w).chunks)
      BY DEF Affordable, w
    <3>12. /\ Len(delivered) + 1 <= TotalsOf(w).chunks
           /\ Len(delivered) + 1 \in Nat /\ TotalsOf(w).chunks \in Nat
      BY <3>5, <3>7, <3>8, <3>9, <3>10
    <3>13. /\ Projected(readerAccount, "chunks", 1) = Len(delivered) + 1
           /\ "chunks" \in CoreResource
      BY <2>7 DEF Projected, TotalResources, CoreResource
    <3> QED
      BY <2>7, <3>11, <3>12, <3>13, AllowsLess DEF ChunkAllowed, CanRecord
  <2> QED
    BY <1>11, <2>3, <2>4, <2>8, <2>9 DEF HeaderAccepted
<1>18. ASSUME Current.record.kind = "commit"
       PROVE  CommitAccepted
  <2>1. k + 1 = n
    BY <1>14, <1>18
  <2>2. content = Taken(k)
    <3>1. n - 1 = k
      BY <1>8, <2>1
    <3> QED
      BY <3>1 DEF content
  <2>3. Content = Taken(k)
    <3>1. Taken(k) = [i \in 1 .. k |-> Taken(k)[i]]
      BY <1>4
    <3> QED
      BY <1>4, <3>1 DEF Content, k
  <2>4. /\ Current.record.totals = TotalsOf(Taken(k))
        /\ Current.record.committed = SizeOf(Taken(k))
        /\ Current.record.content = Taken(k)
    BY <1>2, <1>8, <2>1, <2>2 DEF CommitRecord
  <2>5. readerTotals = TotalsOf(Taken(k))
    BY <1>1 DEF Checked
  <2> QED
    BY <1>10, <1>11, <2>1, <2>3, <2>4, <2>5
    DEF CommitAccepted, CommitMatches, NothingFollows, n, k
<1> QED
  BY <1>7, <1>9, <1>11, <1>15, <1>16, <1>17, <1>18
-----------------------------------------------------------------------------
(* What an error says.                                                     *)

\* No call refuses an undisturbed session over a valid, affordable source.
LEMMA NothingToRefuse ==
  ASSUME ReaderInv, ValidSource(source), Affordable, Undisturbed
  PROVE  ~Refusal
<1>1. ~OpenRefused
  <2> SUFFICES ASSUME OpenRefused PROVE FALSE
    OBVIOUS
  <2>1. readerState = "new"
    BY DEF OpenRefused, Reaches
  <2>2. /\ source # <<>> /\ HasRoomAfter(0, HeaderSize)
        /\ HasRoomAfter(HeaderSize, ManifestSize)
        /\ Head(source).damage = "none" /\ Head(source).present = PreambleSize
        /\ \A n \in 0 .. PreambleSize : \A k \in 0 .. Len(Observations) :
             Opening(n, k).ok
    BY <2>1, AffordsOpen
  <2>3. PICK part \in Parts :
          LET n == Found(Head(source), ReadTo(part)) IN
          MayBeBroken(part) \/ ~Opening(n, ObservedTo(part)).ok
    BY <2>2 DEF OpenRefused
  <2>4. /\ ReadTo(part) \in 0 .. PreambleSize
        /\ ObservedTo(part) \in 0 .. Len(Observations)
    BY PartFacts DEF Parts
  <2>5. /\ ~(PreambleSize < ReadTo(part))
        /\ Found(Head(source), ReadTo(part)) = ReadTo(part)
    BY <2>2, <2>4, SizesAreNaturals DEF Found
  <2>6. ~MayBeBroken(part)
    BY <2>2, <2>5 DEF MayBeBroken
  <2> QED
    BY <2>2, <2>3, <2>4, <2>5, <2>6
<1>2. ASSUME MayIterate
      PROVE  ~RefuseRecord /\ ~RefuseChunkHeader /\ ~RefusePayload
               /\ ~RefuseCommit
  <2> DEFINE c == Current.record.chunk
  <2>1. /\ HasRoomAfter(0, RecordHeaderSize)
        /\ ~AtEnd
        /\ Whole(Current)
        /\ Current.present >= RecordHeaderSize
        /\ Current.record.kind = "chunk" =>
             /\ HeaderAccepted(c)
             /\ HasRoomAfter(RecordHeaderSize, c.encoded)
        /\ Current.record.kind = "commit" => CommitAccepted
    BY <1>2, AffordsNext
  <2>2. ~RefuseRecord
    <3>1. ~(Current.present < RecordHeaderSize)
      <4>1. RecordHeaderSize \in Nat /\ Current.present \in Nat
        BY <2>1, CurrentFacts, SizesAreNaturals DEF ReaderInv
      <4> QED
        BY <2>1, <4>1
    <3> QED
      BY <2>1, <3>1 DEF RefuseRecord
  <2>3. ~RefuseChunkHeader
    BY <2>1 DEF RefuseChunkHeader, HeaderRead, HeaderAccepted
  <2>4. ~RefusePayload
    BY <2>1 DEF RefusePayload, HeaderRead
  <2>5. ~RefuseCommit
    BY <2>1 DEF RefuseCommit, HeaderRead
  <2> QED
    BY <2>2, <2>3, <2>4, <2>5
<1>3. ~MayIterate =>
        ~RefuseRecord /\ ~RefuseChunkHeader /\ ~RefusePayload /\ ~RefuseCommit
  BY DEF RefuseRecord, RefuseChunkHeader, RefusePayload, RefuseCommit,
         HeaderRead
<1> QED
  BY <1>1, <1>2, <1>3 DEF Refusal

\* An error has been caused by the source, a ceiling, or somebody else.
LEMMA ErrorsHaveCauses ==
  ASSUME ReaderInv, RefusesOnlyInvalid, ReaderNext
  PROVE  RefusesOnlyInvalid'
<1> SUFFICES ASSUME readerState' \in {"failed", "raised"}, ~interrupted',
                    readerAccount'["container_bytes"] = bytesRead',
                    "chunks" \notin ReaderShared,
                    ValidSource(source'), Affordable'
             PROVE  FALSE
  BY DEF RefusesOnlyInvalid
<1>1. CASE Open
  BY <1>1 DEF Open
<1>2. CASE YieldChunk
  BY <1>2 DEF YieldChunk
<1>3. CASE AcceptCommit
  BY <1>3 DEF AcceptCommit
<1>4. CASE \E r \in ReaderShared : \E n \in 1 .. ReaderBound :
             ConsumerCharges(r, n)
  BY <1>4 DEF ConsumerCharges
<1>5. CASE Refusal
  <2>1. \E state : Fails(state)
    BY <1>5, RefusalFails
  <2>2. /\ source' = source /\ readerPolicy' = readerPolicy
        /\ readerAccount'["container_bytes"] - bytesRead'
             = readerAccount["container_bytes"] - bytesRead
        /\ bytesRead' \in Nat
    BY <2>1 DEF Fails, sessionVars
  <2>3. readerAccount["container_bytes"] \in Nat /\ bytesRead \in Nat
    BY DEF ReaderInv, ReaderType, Account, CoreResource, TotalResources
  <2>4. readerAccount["container_bytes"] = bytesRead
    <3>1. bytesRead' - bytesRead'
            = readerAccount["container_bytes"] - bytesRead
      BY <2>2
    <3>2. bytesRead' - bytesRead' = 0
      <4>1. \A n \in Nat : n - n = 0
        OBVIOUS
      <4>2. bytesRead' \in Nat
        BY <2>2
      <4> QED
        BY <4>1, <4>2
    <3> QED
      BY <2>3, <3>1, <3>2
  <2>5. ValidSource(source) /\ Affordable
    BY <2>2 DEF Affordable
  <2> QED
    BY <1>5, <2>4, <2>5, NothingToRefuse DEF Undisturbed
<1>6. CASE ProbeRaises
  BY <1>6 DEF ProbeRaises
<1>7. CASE CloseIterator
  BY <1>7 DEF CloseIterator
<1>8. CASE \E n \in Nat : ReadRaises(n)
  BY <1>8 DEF ReadRaises
<1> QED
  BY <1>1, <1>2, <1>3, <1>4, <1>5, <1>6, <1>7, <1>8, StepCases

\* Every step that ends in an error has a cause, and no step removes one.
LEMMA CausesStep ==
  ASSUME ReaderInv, RefusesOnlyInvalid, [ReaderNext]_readerVars
  PROVE  RefusesOnlyInvalid'
<1>1. UNCHANGED readerVars => RefusesOnlyInvalid' = RefusesOnlyInvalid
  BY DEF readerVars, RefusesOnlyInvalid, Affordable
<1> QED
  BY <1>1, ErrorsHaveCauses

\* An error says that the source holds no valid container, or one above a
\* ceiling, unless the session was interrupted or shared its accountant.
THEOREM RefusesOnlyForCause == ReaderSpec => []RefusesOnlyInvalid
<1>1. ReaderInit => RefusesOnlyInvalid
  BY DEF ReaderInit, RefusesOnlyInvalid
<1> QED
  BY <1>1, CausesStep, ReaderIsSound, PTL DEF ReaderSpec

-----------------------------------------------------------------------------
(* Storage.                                                                *)

\* What the storage hands over before anything happens to it is a beginning of
\* what the target holds, with at most one part of a record behind it; whatever
\* happens to it, a whole record of it is one of the target's.
StorageInv ==
  /\ faults \in Nat
  /\ ~carried => source = <<>> /\ faults = 0 /\ readerState = "new"
  /\ \A i \in DOMAIN source :
       Whole(source[i]) => \E j \in DOMAIN target : target[j] = source[i].record
  /\ faults = 0 => \A i \in DOMAIN source :
       IF Whole(source[i])
         THEN i \in DOMAIN target /\ target[i] = source[i].record
         ELSE i = Len(source)

\* A session that reads nothing yet may be given another source.
LEMMA FreshSource ==
  ASSUME ReaderInv, readerState = "new", IsSource(source'),
         UNCHANGED <<readerPolicy, readerAccount, readerState, position,
                     bytesRead, expectedSequences, readerTotals, delivered,
                     interrupted>>
  PROVE  ReaderInv'
<1>1. position = 0 /\ delivered = <<>> /\ readerTotals = NoTotals
  BY DEF ReaderInv, PositionInv
<1>2. ReaderType'
  <2>1. source' \in Seq({source'[i] : i \in DOMAIN source'})
    BY DEF IsSource
  <2>2. position' \in 0 .. Len(source')
    BY <1>1, <2>1
  <2> QED
    BY <2>2 DEF ReaderInv, ReaderType
<1>3. Taken(position) = <<>>
  BY <1>1, TakenFacts DEF ReaderInv
<1>4. Taken(position)' = <<>>
  <2>1. RecordsOf(source') \in Seq({source'[i].record : i \in DOMAIN source'})
    BY DEF IsSource, RecordsOf
  <2> QED
    BY <1>1, <2>1 DEF Taken
<1>5. InUse'
  <2>1. InUse
    BY DEF ReaderInv, PositionInv
  <2> QED
    BY <1>3, <1>4, <2>1 DEF InUse
<1>6. PositionInv'
  BY <1>1, <1>5 DEF PositionInv
<1>7. ChargedInv'
  BY DEF ReaderInv, ChargedInv
<1> QED
  BY <1>2, <1>6, <1>7 DEF ReaderInv

\* A source some of whose entries were replaced by others, the first by a
\* preamble alone, is one still.
LEMMA SourceOfEntries ==
  ASSUME NEW S, NEW s \in Seq(S),
         \A i \in 1 .. Len(s) :
           IsEntry(s[i]) /\ (s[i].record.kind = "preamble") = (i = 1)
  PROVE  IsSource(s)
<1>1. DOMAIN s = 1 .. Len(s) /\ s \in Seq({s[i] : i \in DOMAIN s})
  OBVIOUS
<1> QED
  BY <1>1 DEF IsSource

\* Every record has a byte.
LEMMA RecordsHaveBytes ==
  ASSUME NEW r, IsRecord(r)
  PROVE  RecordSize(r) \in Nat /\ RecordSize(r) >= 1
<1>1. CASE r = Preamble
  BY <1>1, RecordKinds, SizeAssumption DEF PreambleSize
<1>2. CASE r.kind = "chunk" /\ r = ChunkRecord(r.chunk) /\ IsChunk(r.chunk)
  <2>1. r.chunk.encoded \in Nat /\ RecordSize(r) = ChunkSize(r.chunk)
    BY <1>2, RecordKinds DEF IsChunk
  <2> QED
    BY <2>1, SizeAssumption DEF ChunkSize
<1>3. CASE r.kind = "commit" /\ r = CommitRecord(r.totals, r.committed, r.content)
  BY <1>3, SizeAssumption DEF RecordSize
<1> QED
  BY <1>1, <1>2, <1>3 DEF IsRecord

\* The kinds of the records of a content, and of a container.
LEMMA KindsInOrder ==
  ASSUME NEW w \in Seq(Contents), w = <<>> \/ ValidContent(w)
  PROVE  /\ \A i \in 1 .. Len(w) :
              IsRecord(w[i]) /\ (w[i].kind = "preamble") = (i = 1)
         /\ \A i \in 1 .. Len(w) : w[i].kind # "commit"
         /\ \A r : IsRecord(r) /\ r.kind = "commit" /\ w # <<>> =>
              \A i \in 1 .. Len(Append(w, r)) :
                /\ IsRecord(Append(w, r)[i])
                /\ (Append(w, r)[i].kind = "preamble") = (i = 1)
<1>1. \A i \in 1 .. Len(w) : w[i] \in Contents /\ IsRecord(w[i])
  BY ContentsAreRecords
<1>2. ASSUME NEW i \in 1 .. Len(w)
      PROVE  IF i = 1 THEN w[i].kind = "preamble" ELSE w[i].kind = "chunk"
  <2>1. ValidContent(w)
    OBVIOUS
  <2>2. i = 1 \/ i \in 2 .. Len(w)
    OBVIOUS
  <2> QED
    BY <2>1, <2>2, RecordKinds DEF ValidContent
<1>3. ASSUME NEW r, IsRecord(r), r.kind = "commit", w # <<>>
      PROVE  \A i \in 1 .. Len(Append(w, r)) :
               /\ IsRecord(Append(w, r)[i])
               /\ (Append(w, r)[i].kind = "preamble") = (i = 1)
  <2> SUFFICES ASSUME NEW i \in 1 .. Len(Append(w, r))
               PROVE  /\ IsRecord(Append(w, r)[i])
                      /\ (Append(w, r)[i].kind = "preamble") = (i = 1)
    OBVIOUS
  <2>1. CASE i \in 1 .. Len(w)
    <3>1. Append(w, r)[i] = w[i]
      BY <2>1
    <3> QED
      BY <1>1, <1>2, <2>1, <3>1
  <2>2. CASE i \notin 1 .. Len(w)
    <3>1. i = Len(w) + 1 /\ Append(w, r)[i] = r /\ i # 1
      BY <1>3, <2>2
    <3> QED
      BY <1>3, <3>1
  <2> QED
    BY <2>1, <2>2
<1>4. ASSUME NEW i \in 1 .. Len(w)
      PROVE  /\ IsRecord(w[i]) /\ (w[i].kind = "preamble") = (i = 1)
             /\ w[i].kind # "commit"
  BY <1>1, <1>2
<1> QED
  BY <1>3, <1>4

\* The records of the target, and the one that is being sent behind them.
LEMMA TargetKinds ==
  ASSUME Shape, TargetInv, DepositInv
  PROVE  /\ target \in Seq({target[i] : i \in DOMAIN target})
         /\ \A i \in 1 .. Len(target) :
              IsRecord(target[i]) /\ (target[i].kind = "preamble") = (i = 1)
         /\ ~Idle => /\ IsRecord(outgoing.record)
                     /\ (outgoing.record.kind = "preamble")
                          = (Len(target) + 1 = 1)
<1>1. ASSUME target \in Seq(Contents), target = <<>> \/ ValidContent(target)
      PROVE  /\ target \in Seq({target[i] : i \in DOMAIN target})
             /\ \A i \in 1 .. Len(target) :
                  IsRecord(target[i]) /\ (target[i].kind = "preamble") = (i = 1)
  <2>1. target \in Seq({target[i] : i \in DOMAIN target})
    BY <1>1
  <2> QED
    BY <1>1, <2>1, KindsInOrder
<1>2. ASSUME ValidContainer(target), BodyOf(target) \in Seq(Contents),
             target = Append(BodyOf(target), target[Len(target)])
      PROVE  /\ target \in Seq({target[i] : i \in DOMAIN target})
             /\ \A i \in 1 .. Len(target) :
                  IsRecord(target[i]) /\ (target[i].kind = "preamble") = (i = 1)
  <2> DEFINE body == BodyOf(target)
             r == target[Len(target)]
  <2>1. /\ ValidContent(body) /\ body # <<>> /\ body \in Seq(Contents)
        /\ r = CommitRecord(TotalsOf(body), SizeOf(body), body)
        /\ target = Append(body, r)
    BY <1>2 DEF ValidContainer, BodyOf, ValidContent
  <2> HIDE DEF body, r
  <2>2. IsRecord(r) /\ r.kind = "commit"
    BY <2>1, RecordKinds DEF IsRecord, CommitRecord
  <2>3. target \in Seq(Contents \cup {r})
    BY <2>1
  <2>4. target \in Seq({target[i] : i \in DOMAIN target})
    BY <2>3
  <2>5. \A i \in 1 .. Len(Append(body, r)) :
               /\ IsRecord(Append(body, r)[i])
               /\ (Append(body, r)[i].kind = "preamble") = (i = 1)
    BY <2>1, <2>2, KindsInOrder
  <2> QED
    BY <2>1, <2>4, <2>5
<1>3. ASSUME ~Idle
      PROVE  /\ IsRecord(outgoing.record)
             /\ (outgoing.record.kind = "preamble") = (Len(target) + 1 = 1)
  <2> DEFINE r == outgoing.record
  <2>1. /\ target \in Seq(Contents)
        /\ \/ r \in Contents /\ ValidContent(Append(target, r))
           \/ /\ r = CommitRecord(TotalsOf(target), SizeOf(target), target)
              /\ target # <<>>
    BY <1>3, SentIsValid
  <2> HIDE DEF r
  <2>2. CASE r \in Contents /\ ValidContent(Append(target, r))
    <3>1. /\ Append(target, r) \in Seq(Contents)
          /\ Len(target) + 1 \in 1 .. Len(Append(target, r))
          /\ Append(target, r)[Len(target) + 1] = r
      BY <2>1, <2>2
    <3>2. /\ IsRecord(Append(target, r)[Len(target) + 1])
          /\ (Append(target, r)[Len(target) + 1].kind = "preamble")
               = (Len(target) + 1 = 1)
      BY <2>2, <3>1, KindsInOrder
    <3> QED
      BY <3>1, <3>2 DEF r
  <2>3. CASE /\ r = CommitRecord(TotalsOf(target), SizeOf(target), target)
             /\ target # <<>>
    <3>1. Len(target) + 1 # 1
      BY <2>1, <2>3
    <3>2. IsRecord(r) /\ r.kind = "commit"
      BY <2>3, RecordKinds DEF IsRecord, CommitRecord
    <3> QED
      BY <3>1, <3>2 DEF r
  <2> QED
    BY <2>1, <2>2, <2>3
<1> QED
  BY <1>1, <1>2, <1>3 DEF DepositInv

\* An entry that is complete and undamaged is one.
LEMMA WholeEntries ==
  ASSUME NEW r, IsRecord(r)
  PROVE  /\ IsEntry(Entry(r)) /\ Whole(Entry(r)) /\ Entry(r).record = r
         /\ \A n \in 1 .. (RecordSize(r) - 1) :
              LET e == [record |-> r, damage |-> "none", present |-> n]
              IN  IsEntry(e) /\ ~Whole(e) /\ e.record = r
<1>1. RecordSize(r) \in Nat /\ RecordSize(r) >= 1
  BY RecordsHaveBytes
<1>2. IsEntry(Entry(r)) /\ Whole(Entry(r)) /\ Entry(r).record = r
  BY <1>1 DEF IsEntry, Entry, Whole
<1>3. ASSUME NEW n \in 1 .. (RecordSize(r) - 1)
      PROVE  LET e == [record |-> r, damage |-> "none", present |-> n]
             IN  IsEntry(e) /\ ~Whole(e) /\ e.record = r
  BY <1>1 DEF IsEntry, Entry, Whole
<1> QED
  BY <1>2, <1>3

\* What the storage is given are records, the first of them a preamble.
LEMMA StoredFacts ==
  ASSUME Shape, TargetInv, DepositInv
  PROVE  /\ IsSource(Stored)
         /\ \A i \in DOMAIN Stored :
              IF Whole(Stored[i])
                THEN i \in DOMAIN target /\ target[i] = Stored[i].record
                ELSE i = Len(Stored)
<1> DEFINE n == Len(target)
           r == outgoing.record
           kept == [i \in DOMAIN target |-> Entry(target[i])]
           part == [record |-> r, damage |-> "none", present |-> torn]
<1>1. /\ target \in Seq({target[i] : i \in DOMAIN target})
      /\ \A i \in 1 .. n : /\ IsRecord(target[i])
                           /\ (target[i].kind = "preamble") = (i = 1)
      /\ ~Idle => IsRecord(r) /\ (r.kind = "preamble") = (n + 1 = 1)
  BY TargetKinds
<1>2. DOMAIN target = 1 .. n /\ n \in Nat
  BY <1>1
<1> HIDE DEF n, r
<1>3. \A i \in 1 .. n :
        /\ IsEntry(Entry(target[i])) /\ Whole(Entry(target[i]))
        /\ Entry(target[i]).record = target[i]
  BY <1>1, WholeEntries
<1>4. /\ kept \in Seq({Entry(target[i]) : i \in 1 .. n}) /\ Len(kept) = n
      /\ \A i \in 1 .. n : kept[i] = Entry(target[i])
  BY <1>2
<1>5. CASE torn > 0 /\ outgoing.remaining > 0
  <2>1. ~Idle
    BY <1>5 DEF Idle, NotSending
  <2>2. torn \in 1 .. (RecordSize(r) - 1) /\ IsRecord(r)
    <3>1. torn + outgoing.remaining = RecordSize(r)
      BY <2>1 DEF TargetInv, r
    <3>2. torn \in Nat /\ outgoing.remaining \in Nat
      BY DEF Shape, TypeOK
    <3>3. IsRecord(r) /\ RecordSize(r) \in Nat
      BY <1>1, <2>1, RecordsHaveBytes
    <3> QED
      BY <1>5, <3>1, <3>2, <3>3
  <2>3. IsEntry(part) /\ ~Whole(part) /\ part.record = r
    BY <2>2, WholeEntries
  <2> DEFINE S == {Entry(target[i]) : i \in 1 .. n} \cup {part}
             s == kept \o <<part>>
  <2>4. Stored = s
    BY <1>5 DEF Stored, TornTail, r
  <2>5. /\ s \in Seq(S) /\ Len(s) = n + 1
        /\ \A i \in 1 .. n : s[i] = Entry(target[i])
        /\ s[n + 1] = part
    <3> HIDE DEF part
    <3>1. kept \in Seq(S) /\ <<part>> \in Seq(S) /\ Len(<<part>>) = 1
      BY <1>4
    <3> HIDE DEF kept, S
    <3> QED
      BY <1>2, <1>4, <3>1
  <2> HIDE DEF part, S, s
  <2>6. \A i \in 1 .. Len(s) : i \in 1 .. n \/ i = n + 1
    BY <1>2, <2>5
  <2>7. IsSource(s)
    <3>1. \A i \in 1 .. Len(s) :
            IsEntry(s[i]) /\ (s[i].record.kind = "preamble") = (i = 1)
      <4> SUFFICES ASSUME NEW i \in 1 .. Len(s)
                   PROVE  /\ IsEntry(s[i])
                          /\ (s[i].record.kind = "preamble") = (i = 1)
        OBVIOUS
      <4>1. CASE i \in 1 .. n
        BY <1>1, <1>3, <2>5, <4>1
      <4>2. CASE i = n + 1
        BY <1>1, <2>1, <2>3, <2>5, <4>2
      <4> QED
        BY <2>6, <4>1, <4>2
    <3> QED
      BY <2>5, <3>1, SourceOfEntries
  <2>8. DOMAIN s = 1 .. Len(s)
    BY <2>5
  <2> QED
    BY <1>2, <1>3, <2>3, <2>4, <2>5, <2>6, <2>7, <2>8
<1>6. CASE ~(torn > 0 /\ outgoing.remaining > 0)
  <2>1. Stored = kept
    BY <1>4, <1>6 DEF Stored, TornTail
  <2>2. /\ DOMAIN kept = 1 .. n
        /\ \A i \in 1 .. Len(kept) :
            IsEntry(kept[i]) /\ (kept[i].record.kind = "preamble") = (i = 1)
    BY <1>1, <1>3, <1>4
  <2> HIDE DEF kept
  <2>3. IsSource(kept)
    BY <1>4, <2>2, SourceOfEntries
  <2> QED
    BY <1>2, <1>3, <1>4, <2>1, <2>2, <2>3
<1> QED
  BY <1>5, <1>6

\* Entries that storage may hand over in place of its own: each comes from one
\* of the source's, the first and only the first from its preamble.
Resembles(s) ==
  /\ s \in Seq({s[k] : k \in DOMAIN s})
  /\ \A k \in 1 .. Len(s) : \E m \in 1 .. Len(source) :
       /\ IsEntry(s[k])
       /\ s[k].record = source[m].record
       /\ m = 1 <=> k = 1
       /\ Whole(s[k]) => Whole(source[m])

\* Damage to an entry, or the loss of its end, leaves an entry that is not
\* whole.
LEMMA DamagedEntries ==
  ASSUME NEW e, IsEntry(e)
  PROVE  /\ \A part \in {"header", "payload"} :
              LET d == [e EXCEPT !.damage = part]
              IN  IsEntry(d) /\ d.record = e.record /\ ~Whole(d)
         /\ \A n \in 1 .. (e.present - 1) :
              LET d == [e EXCEPT !.present = n]
              IN  IsEntry(d) /\ d.record = e.record /\ ~Whole(d)
<1>1. /\ e = [record |-> e.record, damage |-> e.damage, present |-> e.present]
      /\ IsRecord(e.record) /\ e.damage \in {"none", "header", "payload"}
      /\ e.present \in 1 .. RecordSize(e.record)
      /\ RecordSize(e.record) \in Nat
  BY RecordsHaveBytes DEF IsEntry
<1>2. ASSUME NEW part \in {"header", "payload"}
      PROVE  LET d == [e EXCEPT !.damage = part]
             IN  IsEntry(d) /\ d.record = e.record /\ ~Whole(d)
  <2>1. [e EXCEPT !.damage = part]
          = [record |-> e.record, damage |-> part, present |-> e.present]
    BY <1>1
  <2> QED
    BY <1>1, <2>1 DEF IsEntry, Whole, Entry
<1>3. ASSUME NEW n \in 1 .. (e.present - 1)
      PROVE  LET d == [e EXCEPT !.present = n]
             IN  IsEntry(d) /\ d.record = e.record /\ ~Whole(d)
  <2>1. [e EXCEPT !.present = n]
          = [record |-> e.record, damage |-> e.damage, present |-> n]
    BY <1>1
  <2>2. n \in 1 .. RecordSize(e.record) /\ n # RecordSize(e.record)
    BY <1>1
  <2> QED
    BY <1>1, <2>1, <2>2 DEF IsEntry, Whole, Entry
<1> QED
  BY <1>2, <1>3

\* Every fault replaces the source by entries that come from it.
LEMMA FaultsResemble ==
  ASSUME ReaderType, StorageFault
  PROVE  \E s : Resembles(s) /\ Replace(s)
<1> DEFINE n == Len(source)
           S == {source[i] : i \in DOMAIN source}
<1>1. /\ source \in Seq(S) /\ n \in Nat /\ DOMAIN source = 1 .. n
      /\ \A i \in 1 .. n : IsEntry(source[i])
  BY SourceFacts DEF ReaderType, IsSource
<1>2. \A R, s : s \in Seq(R) => s \in Seq({s[k] : k \in DOMAIN s})
  OBVIOUS
<1>3. ASSUME NEW s \in Seq(S),
             \A k \in 1 .. Len(s) : \E m \in 1 .. n :
               s[k] = source[m] /\ (m = 1 <=> k = 1)
      PROVE  Resembles(s)
  <2>1. s \in Seq({s[k] : k \in DOMAIN s})
    BY <1>2, <1>3
  <2>2. ASSUME NEW k \in 1 .. Len(s)
        PROVE  \E m \in 1 .. n :
                 /\ IsEntry(s[k])
                 /\ s[k].record = source[m].record
                 /\ m = 1 <=> k = 1
                 /\ Whole(s[k]) => Whole(source[m])
    BY <1>1, <1>3
  <2> QED
    BY <2>1, <2>2 DEF Resembles
<1> HIDE DEF n, S
<1>4. CASE DropRecord
  <2>1. PICK i \in 2 .. n :
          Replace(SubSeq(source, 1, i - 1) \o SubSeq(source, i + 1, n))
    BY <1>4 DEF DropRecord, Records, n
  <2> DEFINE s == SubSeq(source, 1, i - 1) \o SubSeq(source, i + 1, n)
  <2>2. /\ s \in Seq(S) /\ Len(s) = n - 1
        /\ \A k \in 1 .. (n - 1) :
             s[k] = IF k < i THEN source[k] ELSE source[k + 1]
    <3> DEFINE a == SubSeq(source, 1, i - 1)
               b == SubSeq(source, i + 1, n)
    <3>1. /\ a \in Seq(S) /\ Len(a) = i - 1
          /\ \A k \in 1 .. (i - 1) : a[k] = source[k]
      BY <1>1, <2>1 DEF n
    <3>2. /\ b \in Seq(S) /\ Len(b) = n - i
          /\ \A k \in 1 .. (n - i) : b[k] = source[k + i]
      <4>1. /\ i \in Nat /\ 1 + n - (i + 1) = n - i
            /\ \A k \in Nat : k + (i + 1) - 1 = k + i
        BY <1>1
      <4>2. \A k \in 1 .. (n - i) : k + i \in 1 .. n
        BY <1>1
      <4>3. b = [k \in 1 .. (n - i) |-> source[k + i]]
        BY <1>1, <4>1, <4>2 DEF n
      <4> HIDE DEF b
      <4> QED
        BY <1>1, <4>2, <4>3
    <3> HIDE DEF a, b
    <3>3. /\ a \o b \in Seq(S) /\ Len(a \o b) = n - 1
          /\ \A k \in 1 .. (n - 1) :
               (a \o b)[k] = IF k < i THEN source[k] ELSE source[k + 1]
      <4>0. i \in Nat /\ (i - 1) + (n - i) = n - 1
        BY <1>1
      <4>1. a \o b \in Seq(S) /\ Len(a \o b) = n - 1
        <5>1. \A x, y \in Seq(S) :
                x \o y \in Seq(S) /\ Len(x \o y) = Len(x) + Len(y)
          OBVIOUS
        <5> QED
          BY <3>1, <3>2, <4>0, <5>1
      <4>2. ASSUME NEW k \in 1 .. (n - 1)
            PROVE  (a \o b)[k] = IF k < i THEN source[k] ELSE source[k + 1]
        <5>1. CASE k < i
          BY <1>1, <3>1, <3>2, <5>1
        <5>2. CASE ~(k < i)
          <6>1. /\ (a \o b)[k] = b[k - (i - 1)] /\ k - (i - 1) \in 1 .. (n - i)
                /\ k - (i - 1) + i = k + 1
            BY <1>1, <3>1, <3>2, <5>2
          <6> QED
            BY <3>2, <5>2, <6>1
        <5> QED
          BY <5>1, <5>2
      <4> QED
        BY <4>1, <4>2
    <3> QED
      BY <3>3 DEF a, b
  <2> HIDE DEF s
  <2>3. \A k \in 1 .. Len(s) : \E m \in 1 .. n :
          s[k] = source[m] /\ (m = 1 <=> k = 1)
    <3> SUFFICES ASSUME NEW k \in 1 .. Len(s)
                 PROVE  \E m \in 1 .. n : s[k] = source[m] /\ (m = 1 <=> k = 1)
      OBVIOUS
    <3>1. CASE k < i
      BY <1>1, <2>2, <3>1
    <3>2. CASE ~(k < i)
      <4>1. s[k] = source[k + 1] /\ k + 1 \in 1 .. n /\ k + 1 # 1 /\ k # 1
        BY <1>1, <2>2, <3>2
      <4> QED
        BY <4>1
    <3> QED
      BY <3>1, <3>2
  <2> QED
    BY <1>3, <2>1, <2>2, <2>3 DEF s
<1>5. CASE RepeatRecord
  <2>1. PICK i \in 2 .. n :
          Replace(SubSeq(source, 1, i) \o SubSeq(source, i, n))
    BY <1>5 DEF RepeatRecord, Records, n
  <2> DEFINE s == SubSeq(source, 1, i) \o SubSeq(source, i, n)
  <2>2. /\ s \in Seq(S) /\ Len(s) = n + 1
        /\ \A k \in 1 .. (n + 1) :
             s[k] = IF k <= i THEN source[k] ELSE source[k - 1]
    BY <1>1, <2>1 DEF n
  <2> HIDE DEF s
  <2>3. \A k \in 1 .. Len(s) : \E m \in 1 .. n :
          s[k] = source[m] /\ (m = 1 <=> k = 1)
    <3> SUFFICES ASSUME NEW k \in 1 .. Len(s)
                 PROVE  \E m \in 1 .. n : s[k] = source[m] /\ (m = 1 <=> k = 1)
      OBVIOUS
    <3>1. CASE k <= i
      <4>1. s[k] = source[k] /\ k \in 1 .. n
        BY <1>1, <2>2, <3>1
      <4> QED
        BY <4>1
    <3>2. CASE ~(k <= i)
      <4>1. s[k] = source[k - 1] /\ k - 1 \in 1 .. n /\ k - 1 # 1 /\ k # 1
        BY <1>1, <2>2, <3>2
      <4> QED
        BY <4>1
    <3> QED
      BY <3>1, <3>2
  <2> QED
    BY <1>3, <2>1, <2>2, <2>3 DEF s
<1>6. CASE ExchangeRecords
  <2>1. PICK i \in 2 .. n, j \in 2 .. n :
          Replace([source EXCEPT ![i] = source[j], ![j] = source[i]])
    BY <1>6 DEF ExchangeRecords, Records, n
  <2> DEFINE s == [source EXCEPT ![i] = source[j], ![j] = source[i]]
  <2>2. /\ s \in Seq(S) /\ Len(s) = n
        /\ \A k \in 1 .. n :
             s[k] = IF k = j THEN source[i]
                      ELSE IF k = i THEN source[j] ELSE source[k]
    BY <1>1 DEF n
  <2> HIDE DEF s
  <2>3. \A k \in 1 .. Len(s) : \E m \in 1 .. n :
          s[k] = source[m] /\ (m = 1 <=> k = 1)
    <3> SUFFICES ASSUME NEW k \in 1 .. n
                 PROVE  \E m \in 1 .. n : s[k] = source[m] /\ (m = 1 <=> k = 1)
      BY <2>2
    <3>1. /\ i \in 1 .. n /\ i # 1 /\ j \in 1 .. n /\ j # 1
      BY <1>1
    <3> QED
      BY <2>2, <3>1
  <2> QED
    BY <1>3, <2>1, <2>2, <2>3 DEF s
<1>7. ASSUME NEW i \in 1 .. n, NEW d, IsEntry(d),
             d.record = source[i].record, ~Whole(d)
      PROVE  Resembles([source EXCEPT ![i] = d])
  <2> DEFINE s == [source EXCEPT ![i] = d]
  <2>1. /\ s \in Seq(S \cup {d}) /\ Len(s) = n
        /\ \A k \in 1 .. n : s[k] = IF k = i THEN d ELSE source[k]
    BY <1>1 DEF n
  <2> HIDE DEF s
  <2>2. s \in Seq({s[k] : k \in DOMAIN s})
    BY <1>2, <2>1
  <2>3. \A k \in 1 .. n :
          /\ IsEntry(s[k]) /\ s[k].record = source[k].record
          /\ Whole(s[k]) => Whole(source[k])
    BY <1>1, <1>7, <2>1
  <2>4. Resembles(s)
    BY <2>1, <2>2, <2>3 DEF Resembles, n
  <2> QED
    BY <2>4 DEF s
<1>8. CASE FlipBits
  <2>1. PICK i \in 1 .. n, part \in {"header", "payload"} :
          Replace([source EXCEPT ![i].damage = part])
    BY <1>1, <1>8 DEF FlipBits
  <2>2. [source EXCEPT ![i].damage = part] =
          [source EXCEPT ![i] = [source[i] EXCEPT !.damage = part]]
    OBVIOUS
  <2> DEFINE d == [source[i] EXCEPT !.damage = part]
  <2>3. IsEntry(d) /\ d.record = source[i].record /\ ~Whole(d)
    BY <1>1, DamagedEntries
  <2> HIDE DEF d
  <2> QED
    BY <1>7, <2>1, <2>2, <2>3 DEF d
<1>9. CASE CutOff
  <2>1. CASE \E k \in 1 .. (source[n].present - 1) :
               n > 0 /\ Replace([source EXCEPT ![n].present = k])
    <3>1. PICK k \in 1 .. (source[n].present - 1) :
            n > 0 /\ Replace([source EXCEPT ![n].present = k])
      BY <2>1
    <3>2. [source EXCEPT ![n].present = k] =
            [source EXCEPT ![n] = [source[n] EXCEPT !.present = k]]
      OBVIOUS
    <3>3. n \in 1 .. n
      BY <1>1, <3>1
    <3> DEFINE d == [source[n] EXCEPT !.present = k]
    <3>4. IsEntry(d) /\ d.record = source[n].record /\ ~Whole(d)
      BY <1>1, <3>3, DamagedEntries
    <3> HIDE DEF d
    <3> QED
      BY <1>7, <3>1, <3>2, <3>3, <3>4 DEF d
  <2>2. CASE n > 0 /\ Replace(SubSeq(source, 1, n - 1))
    <3> DEFINE s == SubSeq(source, 1, n - 1)
    <3>1. /\ s \in Seq(S) /\ Len(s) = n - 1
          /\ \A k \in 1 .. (n - 1) : s[k] = source[k]
      BY <1>1, <2>2 DEF n
    <3> HIDE DEF s
    <3>2. \A k \in 1 .. Len(s) : \E m \in 1 .. n :
            s[k] = source[m] /\ (m = 1 <=> k = 1)
      BY <1>1, <3>1
    <3> QED
      BY <1>3, <2>2, <3>1, <3>2 DEF s
  <2> QED
    BY <1>9, <2>1, <2>2 DEF CutOff, n
<1> QED
  BY <1>4, <1>5, <1>6, <1>8, <1>9 DEF StorageFault

-----------------------------------------------------------------------------
(* The two sessions and the storage between them.                          *)

WriterSide == Shape /\ TargetInv /\ DepositInv /\ SpentInv /\ DeclaredInv

ReaderSide ==
  /\ ReaderInv
  /\ readerAccount["container_bytes"] = bytesRead
  /\ RefusesOnlyInvalid

TransferInv == WriterSide /\ ReaderSide /\ StorageInv

\* The writer's part of the invariant is kept by the writer.
LEMMA WriterSideStep ==
  ASSUME WriterSide, [WriterNext]_writerVars
  PROVE  WriterSide'
BY DeclarationsAreCharged, ShapeStep, TargetStep, DepositStep, SpentStep,
   DeclaredStep DEF WriterSide, WriterNext

\* The reader's part is kept by the reader.
LEMMA ReaderSideStep ==
  ASSUME ReaderSide, [ReaderNext]_readerVars
  PROVE  ReaderSide'
<1>1. "container_bytes" \notin ReaderShared
  BY TransferAssumption
<1> QED
  BY <1>1, StepInv, BytesAreCharged, CausesStep DEF ReaderSide

\* It is also kept when the session is given another source before it starts.
LEMMA ReaderSideFresh ==
  ASSUME ReaderSide, readerState = "new", IsSource(source'),
         UNCHANGED <<readerPolicy, readerAccount, readerState, position,
                     bytesRead, expectedSequences, readerTotals, delivered,
                     interrupted>>
  PROVE  ReaderSide'
<1>1. ReaderInv'
  BY FreshSource DEF ReaderSide
<1>2. RefusesOnlyInvalid'
  BY DEF RefusesOnlyInvalid
<1> QED
  BY <1>1, <1>2 DEF ReaderSide

\* What the target held it holds after every step of the writer.
LEMMA TargetKeeps ==
  ASSUME WriterSide, [WriterNext]_writerVars
  PROVE  \A i \in DOMAIN target : i \in DOMAIN target' /\ target'[i] = target[i]
<1>1. CASE target' = target
  BY <1>1
<1>2. CASE target' = Append(target, outgoing.record)
  <2>1. target \in Seq({target[i] : i \in DOMAIN target})
    BY TargetKinds DEF WriterSide
  <2> QED
    BY <1>2, <2>1
<1> QED
  BY <1>1, <1>2, TargetGrows DEF WriterSide, WriterNext

\* A step of the reader leaves its source alone.
LEMMA SourceKept == ReaderNext => UNCHANGED source
BY DEF ReaderNext, NextChunk, Open, OpenRefused, YieldChunk, RefuseRecord,
       RefuseChunkHeader, RefusePayload, AcceptCommit, RefuseCommit, ReadRaises,
       ProbeRaises, CloseIterator, ConsumerCharges, Raise, sessionVars

\* At first there is nothing to carry.
LEMMA InitTransfer == Init => TransferInv
<1> SUFFICES ASSUME Init PROVE TransferInv
  OBVIOUS
<1>1. WriterSide
  BY InitShape, InitTarget, InitDeposit, InitSpent, InitDeclared
  DEF Init, WriterSide
<1>2. ReaderSide
  <2>1. readerAccount["container_bytes"] = bytesRead
    BY DEF Init, ReaderInit, NewAccount, CoreResource, TotalResources
  <2>2. RefusesOnlyInvalid
    BY DEF Init, ReaderInit, RefusesOnlyInvalid
  <2> QED
    BY <2>1, <2>2, InitInv DEF Init, ReaderSide
<1>3. StorageInv
  <2>1. source = <<>> /\ readerState = "new" /\ faults = 0
    BY TransferAssumption DEF Init, ReaderInit
  <2> QED
    BY <2>1 DEF StorageInv
<1> QED
  BY <1>1, <1>2, <1>3 DEF TransferInv

\* Every step of the two sessions and of the storage keeps the invariant.
LEMMA TransferStep == TransferInv /\ [Next]_vars => TransferInv'
<1> SUFFICES ASSUME TransferInv, [Next]_vars PROVE TransferInv'
  OBVIOUS
<1>0. WriterSide /\ ReaderSide /\ StorageInv
  BY DEF TransferInv
<1>1. CASE /\ [WriterNext]_writerVars
           /\ UNCHANGED <<readerVars, carried, faults>>
  <2>1. WriterSide'
    BY <1>0, <1>1, WriterSideStep
  <2>2. ReaderSide'
    BY <1>0, <1>1, ReaderSideStep
  <2>3. StorageInv'
    <3>1. UNCHANGED <<source, readerState, carried, faults>>
      BY <1>1 DEF readerVars
    <3>2. \A i \in DOMAIN target :
            i \in DOMAIN target' /\ target'[i] = target[i]
      BY <1>0, <1>1, TargetKeeps
    <3> QED
      BY <1>0, <3>1, <3>2 DEF StorageInv
  <2> QED
    BY <2>1, <2>2, <2>3 DEF TransferInv
<1>2. CASE Carry
  <2>1. WriterSide'
    <3>1. UNCHANGED writerVars
      BY <1>2 DEF Carry
    <3> QED
      BY <1>0, <3>1, WriterSideStep
  <2>2. /\ IsSource(Stored)
        /\ \A i \in DOMAIN Stored :
             IF Whole(Stored[i])
               THEN i \in DOMAIN target /\ target[i] = Stored[i].record
               ELSE i = Len(Stored)
    BY <1>0, StoredFacts DEF WriterSide
  <2>3. source' = Stored /\ carried' = TRUE /\ UNCHANGED faults
        /\ target' = target
    BY <1>2 DEF Carry, writerVars
  <2> HIDE DEF Stored
  <2>4. ReaderSide'
    <3>1. readerState = "new"
      BY <1>0, <1>2 DEF Carry, StorageInv
    <3> QED
      BY <1>0, <1>2, <2>2, <2>3, <3>1, ReaderSideFresh DEF Carry
  <2>5. StorageInv'
    BY <1>0, <2>2, <2>3 DEF StorageInv
  <2> QED
    BY <2>1, <2>4, <2>5 DEF TransferInv
<1>3. CASE StorageFault
  <2>1. PICK s : Resembles(s) /\ Replace(s)
    BY <1>0, <1>3, FaultsResemble DEF ReaderSide, ReaderInv
  <2>2. /\ source' = s /\ faults' = faults + 1 /\ carried /\ carried' = carried
        /\ readerState = "new" /\ UNCHANGED writerVars /\ target' = target
    BY <2>1 DEF Replace, writerVars
  <2>3. WriterSide'
    BY <1>0, <2>2, WriterSideStep
  <2>4. /\ DOMAIN s = 1 .. Len(s) /\ DOMAIN source = 1 .. Len(source)
        /\ \A m \in 1 .. Len(source) :
             (source[m].record.kind = "preamble") = (m = 1)
    <3>1. DOMAIN s = 1 .. Len(s)
      BY <2>1 DEF Resembles
    <3> QED
      BY <1>0, <3>1, SourceFacts DEF ReaderSide, ReaderInv
  <2>5. IsSource(s)
    <3>1. \A k \in 1 .. Len(s) :
            IsEntry(s[k]) /\ (s[k].record.kind = "preamble") = (k = 1)
      <4> SUFFICES ASSUME NEW k \in 1 .. Len(s)
                   PROVE  /\ IsEntry(s[k])
                          /\ (s[k].record.kind = "preamble") = (k = 1)
        OBVIOUS
      <4>1. PICK m \in 1 .. Len(source) :
              /\ IsEntry(s[k]) /\ s[k].record = source[m].record
              /\ m = 1 <=> k = 1
        BY <2>1 DEF Resembles
      <4>2. (source[m].record.kind = "preamble") = (m = 1)
        BY <2>4
      <4>3. (m = 1) = (k = 1)
        BY <4>1
      <4> QED
        BY <4>1, <4>2, <4>3
    <3> QED
      BY <2>1, <3>1, SourceOfEntries DEF Resembles
  <2>6. ReaderSide'
    BY <1>0, <2>1, <2>2, <2>5, ReaderSideFresh DEF Replace
  <2>7. StorageInv'
    <3>1. faults' # 0 /\ faults' \in Nat
      BY <1>0, <2>2 DEF StorageInv
    <3>2. ASSUME NEW k \in DOMAIN s, Whole(s[k])
          PROVE  \E j \in DOMAIN target : target[j] = s[k].record
      <4>1. PICK m \in 1 .. Len(source) :
              Whole(source[m]) /\ s[k].record = source[m].record
        BY <2>1, <2>4, <3>2 DEF Resembles
      <4> QED
        BY <1>0, <2>4, <4>1 DEF StorageInv
    <3> QED
      BY <2>2, <3>1, <3>2 DEF StorageInv
  <2> QED
    BY <2>3, <2>6, <2>7 DEF TransferInv
<1>4. CASE carried /\ ReaderNext /\ UNCHANGED <<writerVars, carried, faults>>
  <2>1. WriterSide'
    BY <1>0, <1>4, WriterSideStep
  <2>2. ReaderSide'
    BY <1>0, <1>4, ReaderSideStep
  <2>3. StorageInv'
    <3>1. UNCHANGED <<source, target, carried, faults>> /\ carried
      BY <1>4, SourceKept DEF writerVars
    <3> QED
      BY <1>0, <3>1 DEF StorageInv
  <2> QED
    BY <2>1, <2>2, <2>3 DEF TransferInv
<1> QED
  BY <1>1, <1>2, <1>3, <1>4 DEF Next, vars

\* The sessions agree with the records they wrote and read, and what the
\* storage still holds whole was written.
THEOREM TransferIsSound == Spec => []TransferInv
BY InitTransfer, TransferStep, PTL DEF Spec

\* A finished container that the storage left alone is the one that was
\* written, and within every ceiling the writer kept to.
LEMMA UnharmedIsWritten ==
  ASSUME TransferInv, faults = 0, Len(source) > 0,
         source[Len(source)].record.kind = "commit",
         Whole(source[Len(source)])
  PROVE  /\ ValidSource(source) /\ RecordsOf(source) = target
         /\ MeetsPolicy(writerPolicy, target)
         /\ \A i \in 1 .. Len(Declarations) :
              Allows(writerPolicy, Declarations[i][1], Declarations[i][2])
<1> DEFINE n == Len(source)
<1>1. /\ n \in Nat /\ DOMAIN source = 1 .. n /\ n \in 1 .. n
      /\ RecordsOf(source) \in Seq(RecordSet) /\ Len(RecordsOf(source)) = n
      /\ \A i \in 1 .. n : RecordsOf(source)[i] = source[i].record
  BY SourceFacts DEF TransferInv, ReaderSide, ReaderInv
<1>2. \A i \in 1 .. n :
        IF Whole(source[i])
          THEN i \in DOMAIN target /\ target[i] = source[i].record
          ELSE i = n
  BY <1>1 DEF TransferInv, StorageInv
<1>3. \A i \in 1 .. n : /\ Whole(source[i]) /\ i \in DOMAIN target
                        /\ target[i] = source[i].record
  BY <1>1, <1>2
<1> HIDE DEF n
<1>4. target[n].kind = "commit" /\ n \in DOMAIN target
  BY <1>1, <1>3 DEF n
<1>5. /\ ValidContainer(target) /\ n = Len(target)
      /\ target = Append(BodyOf(target), target[Len(target)])
      /\ BodyOf(target) \in Seq(Contents)
  <2>1. CASE target \in Seq(Contents) /\ (target = <<>> \/ ValidContent(target))
    BY <1>4, <2>1, KindsInOrder
  <2>2. CASE /\ ValidContainer(target)
             /\ target = Append(BodyOf(target), target[Len(target)])
             /\ BodyOf(target) \in Seq(Contents)
    <3> DEFINE body == BodyOf(target)
               r == target[Len(target)]
    <3>1. body = <<>> \/ ValidContent(body)
      BY <2>2 DEF ValidContainer, BodyOf
    <3>2. body \in Seq(Contents) /\ target = Append(body, r)
      BY <2>2
    <3> HIDE DEF body, r
    <3>3. \A i \in 1 .. Len(body) : body[i].kind # "commit"
      BY <3>1, <3>2, KindsInOrder
    <3>4. n \notin 1 .. Len(body)
      <4>1. \A i \in 1 .. Len(body) : target[i] = body[i]
        BY <3>2
      <4> QED
        BY <1>4, <3>3, <4>1
    <3>5. n = Len(target)
      <4>1. DOMAIN target = 1 .. (Len(body) + 1) /\ Len(target) = Len(body) + 1
            /\ Len(body) \in Nat
        BY <3>2
      <4> QED
        BY <1>4, <3>4, <4>1
    <3> QED
      BY <2>2, <3>5
  <2> QED
    BY <2>1, <2>2 DEF TransferInv, WriterSide, DepositInv
<1>6. RecordsOf(source) = target
  <2>1. target \in Seq({target[i] : i \in DOMAIN target})
    BY TargetKinds DEF TransferInv, WriterSide
  <2> DEFINE v == RecordsOf(source)
  <2>2. /\ v \in Seq(RecordSet) /\ Len(v) = Len(target)
        /\ \A i \in 1 .. Len(target) : v[i] = target[i]
    BY <1>1, <1>3, <1>5
  <2> HIDE DEF v
  <2>3. v = target
    BY <2>1, <2>2
  <2> QED
    BY <2>3 DEF v
<1>7. ValidSource(source)
  BY <1>1, <1>3, <1>5, <1>6 DEF ValidSource
<1>8. /\ MeetsPolicy(writerPolicy, target)
      /\ \A i \in 1 .. Len(Declarations) :
           Allows(writerPolicy, Declarations[i][1], Declarations[i][2])
  <2>1. target # <<>>
    BY <1>5
  <2>2. InFlight # <<>>
    BY <2>1, TargetKinds DEF InFlight, TransferInv, WriterSide
  <2> QED
    BY <2>1, <2>2 DEF TransferInv, WriterSide, SpentInv, DeclaredInv
<1> QED
  BY <1>6, <1>7, <1>8

\* A container that was written under a policy and reached the reader unharmed
\* can be read under that policy, for every policy and every set of chunks.
THEOREM ReadableAsWritten == Spec => []ReadableUnderTheSamePolicy
<1>1. TransferInv => ReadableUnderTheSamePolicy
  <2> SUFFICES ASSUME TransferInv, readerPolicy = writerPolicy,
                      readerState \in {"failed", "raised"}, ~interrupted,
                      faults = 0, Len(source) > 0,
                      source[Len(source)].record.kind = "commit",
                      Whole(source[Len(source)])
               PROVE  FALSE
    BY DEF ReadableUnderTheSamePolicy
  <2>1. /\ ValidSource(source) /\ RecordsOf(source) = target
        /\ MeetsPolicy(writerPolicy, target)
        /\ \A i \in 1 .. Len(Declarations) :
             Allows(writerPolicy, Declarations[i][1], Declarations[i][2])
    BY UnharmedIsWritten
  <2>2. Affordable
    <3>1. \A i \in DOMAIN Observations :
            Allows(writerPolicy, Observations[i][1], Observations[i][2])
      <4>1. DOMAIN Observations = 1 .. (Len(Declarations) + 1)
        BY ObservationFacts DEF PeakCharges
      <4>2. Allows(writerPolicy, "manifest_bytes", ManifestSize)
        BY <2>1 DEF MeetsPolicy
      <4>3. ASSUME NEW i \in DOMAIN Observations, i # 1
            PROVE  Allows(writerPolicy, Observations[i][1], Observations[i][2])
        <5>1. i - 1 \in 1 .. Len(Declarations) /\ 1 + (i - 1) = i
          BY <4>1, <4>3, ObservationFacts
        <5>2. Observations[1 + (i - 1)] = Declarations[i - 1]
          BY <5>1, ObservationFacts
        <5> QED
          BY <2>1, <5>1, <5>2
      <4>4. Observations[1][1] = "manifest_bytes"
            /\ Observations[1][2] = ManifestSize
        BY ObservationFacts
      <4> QED
        BY <4>2, <4>3, <4>4
    <3> QED
      BY <2>1, <3>1 DEF Affordable, MeetsPolicy
  <2>3. "chunks" \notin ReaderShared
    BY TransferAssumption
  <2> QED
    BY <2>1, <2>2, <2>3 DEF TransferInv, ReaderSide, RefusesOnlyInvalid
<1> QED
  BY <1>1, TransferIsSound, PTL

-----------------------------------------------------------------------------
(* The delivery that the sessions and the storage implement.               *)

Finished == target # <<>> /\ target[Len(target)].kind = "commit"

\* The chunks of the target are those of a content, which is all of a finished
\* container but its commit.
LEMMA TargetContent ==
  ASSUME WriterSide, target # <<>>
  PROVE  \E w \in Seq(Contents) :
           /\ ValidContent(w)
           /\ ChunksOf(target) = ChunksOf(w)
           /\ \A j \in DOMAIN target : target[j].kind = "chunk" =>
                j \in ChunkPositions(w) /\ w[j] = target[j]
           /\ ~Finished => \A j \in DOMAIN target : target[j].kind # "commit"
           /\ Finished => /\ writerState \notin {"new", "writing"}
                          /\ target[Len(target)].content = w
                          /\ \A j \in DOMAIN target :
                               target[j].kind = "commit" => j = Len(target)
<1>1. CASE target \in Seq(Contents) /\ ValidContent(target)
  <2>1. \A i \in 1 .. Len(target) : target[i].kind # "commit"
    BY <1>1, KindsInOrder
  <2>2. DOMAIN target = 1 .. Len(target) /\ Len(target) \in 1 .. Len(target)
    BY <1>1
  <2>3. \A j \in DOMAIN target : target[j].kind = "chunk" =>
          j \in ChunkPositions(target)
    BY DEF ChunkPositions
  <2>4. ~Finished
    BY <2>1, <2>2 DEF Finished
  <2> QED
    BY <1>1, <2>1, <2>2, <2>3, <2>4
<1>2. CASE /\ writerState \notin {"new", "writing"}
           /\ ValidContainer(target)
           /\ target = Append(BodyOf(target), target[Len(target)])
           /\ BodyOf(target) \in Seq(Contents)
  <2> DEFINE w == BodyOf(target)
             r == target[Len(target)]
             R == Contents \cup {r}
  <2>1. w \in Seq(Contents) /\ ValidContent(w) /\ target = Append(w, r)
        /\ r = CommitRecord(TotalsOf(w), SizeOf(w), w)
    BY <1>2 DEF ValidContainer, BodyOf
  <2>2. r.kind = "commit" /\ r.content = w
    BY <2>1, RecordKinds DEF CommitRecord
  <2>3. IsRecord(r)
    BY <2>1, <2>2 DEF IsRecord, CommitRecord
  <2> HIDE DEF w, r
  <2>4. w \in Seq(R) /\ r \in R /\ \A x \in R : IsRecord(x)
    BY <2>1, <2>3, ContentsAreRecords
  <2> HIDE DEF R
  <2>5. ChunksOf(target) = ChunksOf(w)
    BY <2>1, <2>2, <2>4, ChunksOfOneMore
  <2>6. \A i \in 1 .. Len(w) : w[i].kind # "commit"
    BY <2>1, KindsInOrder
  <2>7. /\ DOMAIN target = 1 .. (Len(w) + 1) /\ Len(target) = Len(w) + 1
        /\ Len(w) \in Nat /\ target[Len(w) + 1] = r
        /\ \A i \in 1 .. Len(w) : target[i] = w[i]
        /\ DOMAIN w = 1 .. Len(w)
    BY <2>1
  <2>8. \A j \in DOMAIN target : j \in 1 .. Len(w) \/ j = Len(target)
    BY <2>7
  <2>9. Finished
    BY <2>2, <2>7 DEF Finished
  <2>10. \A j \in DOMAIN target : target[j].kind = "chunk" =>
           j \in ChunkPositions(w) /\ w[j] = target[j]
    <3> SUFFICES ASSUME NEW j \in DOMAIN target, target[j].kind = "chunk"
                 PROVE  j \in ChunkPositions(w) /\ w[j] = target[j]
      OBVIOUS
    <3>1. j \in 1 .. Len(w)
      BY <2>2, <2>7, <2>8
    <3> QED
      BY <2>7, <3>1 DEF ChunkPositions
  <2>11. \A j \in DOMAIN target : target[j].kind = "commit" => j = Len(target)
    BY <2>6, <2>7, <2>8
  <2>12. target[Len(target)].content = w
    BY <2>2, <2>7
  <2> QED
    BY <1>2, <2>1, <2>5, <2>9, <2>10, <2>11, <2>12
<1> QED
  BY <1>1, <1>2 DEF WriterSide, DepositInv

\* What the refinement mapping says in words of the two sessions.
Outcome ==
  CASE readerState = "complete" -> "complete"
    [] readerState \in {"failed", "raised"} -> "failed"
    [] OTHER -> "open"

\* Within the delivery a set has the size it has here.
LEMMA SameCardinality == \A S : Delivery!Cardinality(S) = Cardinality(S)
BY DEF Delivery!Cardinality, Cardinality

\* A step of the writer sends a chunk, finishes, or changes nothing that the
\* consumer is promised.
LEMMA WriterDelivers ==
  ASSUME WriterSide, [WriterNext]_writerVars,
         UNCHANGED <<delivered, readerState>>
  PROVE  [Delivery!Next]_(Delivery!deliveryVars)
<1> USE DEF Delivery!deliveryVars
<1>0. UNCHANGED Outcome
  BY DEF Outcome
<1>1. CASE target' = target
  BY <1>0, <1>1 DEF Outcome
<1>2. CASE ~Idle /\ writerState = "writing"
           /\ target' = Append(target, outgoing.record)
  <2> DEFINE r == outgoing.record
  <2>1. /\ target \in Seq(Contents)
        /\ target = <<>> \/ ValidContent(target)
        /\ \/ r \in Contents /\ ValidContent(Append(target, r))
           \/ /\ r = CommitRecord(TotalsOf(target), SizeOf(target), target)
              /\ ValidContainer(Append(target, r))
              /\ target # <<>>
    BY <1>2, SentIsValid DEF WriterSide
  <2>2. ~Finished
    <3>1. \A i \in 1 .. Len(target) : target[i].kind # "commit"
      BY <2>1, KindsInOrder
    <3>2. target # <<>> => Len(target) \in 1 .. Len(target)
      BY <2>1
    <3> QED
      BY <3>1, <3>2 DEF Finished
  <2>3. IsRecord(r)
    BY <1>2, TargetKinds DEF WriterSide
  <2> HIDE DEF r
  <2> DEFINE R == Contents \cup {r}
  <2>4. target \in Seq(R) /\ r \in R /\ \A x \in R : IsRecord(x)
    BY <2>1, <2>3, ContentsAreRecords
  <2> HIDE DEF R
  <2>5. /\ ChunksOf(target') = IF r.kind = "chunk"
                                 THEN Append(ChunksOf(target), r.chunk)
                                 ELSE ChunksOf(target)
        /\ target' # <<>> /\ target'[Len(target')] = r
    <3>1. target' = Append(target, r)
      BY <1>2 DEF r
    <3>2. ChunksOf(Append(target, r)) = IF r.kind = "chunk"
                                          THEN Append(ChunksOf(target), r.chunk)
                                          ELSE ChunksOf(target)
      BY <2>4, ChunksOfOneMore
    <3>3. /\ Append(target, r) # <<>>
          /\ Append(target, r)[Len(Append(target, r))] = r
      BY <2>4
    <3> QED
      BY <3>1, <3>2, <3>3
  <2>6. Finished' = (r.kind = "commit")
    BY <2>5 DEF Finished
  <2>7. CASE r \in Contents
    <3>1. CASE r = Preamble
      <4>1. r.kind = "preamble"
        BY <3>1, RecordKinds
      <4>2. ChunksOf(target)' = ChunksOf(target) /\ Finished' = Finished
        BY <2>2, <2>5, <2>6, <4>1 DEF Finished
      <4> QED
        BY <1>0, <4>2 DEF Finished, Outcome
    <3>2. ASSUME NEW c \in Chunks, r = ChunkRecord(c)
          PROVE  Delivery!Next
      <4>1. r.kind = "chunk" /\ r.chunk = c
        BY <3>2, RecordKinds
      <4>2. /\ ChunksOf(target)' = Append(ChunksOf(target), c)
            /\ Finished = FALSE /\ Finished' = FALSE
        BY <2>2, <2>5, <2>6, <4>1 DEF Finished
      <4>3. Delivery!Send(c)
        BY <1>0, <4>2 DEF Delivery!Send, Finished, Outcome
      <4> QED
        BY <4>3 DEF Delivery!Next
    <3> QED
      BY <2>7, <3>1, <3>2 DEF Contents
  <2>8. CASE r = CommitRecord(TotalsOf(target), SizeOf(target), target)
    <3>1. r.kind = "commit"
      BY <2>8, RecordKinds
    <3>2. /\ ChunksOf(target)' = ChunksOf(target)
          /\ Finished = FALSE /\ Finished' = TRUE
      BY <2>2, <2>5, <2>6, <3>1 DEF Finished
    <3>3. Delivery!Finish
      BY <1>0, <3>2 DEF Delivery!Finish, Finished, Outcome
    <3> QED
      BY <3>3 DEF Delivery!Next
  <2> QED
    BY <2>1, <2>7, <2>8
<1> QED
  BY <1>1, <1>2, TargetGrows DEF WriterSide, WriterNext

\* A record that the reader finds whole was written.
LEMMA FoundIsWritten ==
  ASSUME TransferInv, ~AtEnd, Whole(Current)
  PROVE  \E j \in DOMAIN target : target[j] = Current.record
<1>1. position + 1 \in DOMAIN source
  BY CurrentFacts, SourceFacts DEF TransferInv, ReaderSide, ReaderInv
<1> QED
  BY <1>1 DEF TransferInv, StorageInv, Current

\* A chunk that is yielded is the next one of its stream.
LEMMA YieldDelivers ==
  ASSUME TransferInv, YieldChunk, UNCHANGED target
  PROVE  Delivery!Next
<1> DEFINE c == Current.record.chunk
           t == Taken(position)
<1>1. /\ MayIterate /\ ~AtEnd /\ Current.record.kind = "chunk" /\ Whole(Current)
      /\ c.stream \in StreamIds /\ c.sequence = expectedSequences[c.stream]
      /\ delivered' = Append(delivered, c) /\ readerState' = "consuming"
  BY DEF YieldChunk, HeaderRead, HeaderAccepted, Expected, InSequence
<1>2. /\ t \in Seq(RecordSet) /\ delivered = ChunksOf(t)
      /\ expectedSequences[c.stream] = Cardinality(Numbered(t, c.stream))
  <2>1. /\ ReaderType /\ Checked(position) /\ InUse
        /\ position \in 0 .. Len(source)
    BY <1>1 DEF TransferInv, ReaderSide, ReaderInv, PositionInv, MayIterate,
                ReaderType
  <2> QED
    BY <1>1, <2>1, TakenFacts DEF Checked, InUse
<1>3. PICK j \in DOMAIN target : target[j] = Current.record
  BY <1>1, FoundIsWritten
<1>4. PICK w \in Seq(Contents) :
        /\ ValidContent(w)
        /\ ChunksOf(target) = ChunksOf(w)
        /\ \A k \in DOMAIN target : target[k].kind = "chunk" =>
             k \in ChunkPositions(w) /\ w[k] = target[k]
  <2>1. target # <<>>
    BY <1>3
  <2> QED
    BY <2>1, TargetContent DEF TransferInv
<1> DEFINE stream == c.stream
           sentChunks == ChunksOf(target)
<1>5. j \in ChunkPositions(w) /\ w[j] = Current.record /\ w[j].chunk = c
      /\ w[j] \in Contents /\ j \in 1 .. Len(w)
  <2>1. j \in ChunkPositions(w) /\ w[j] = Current.record
    BY <1>1, <1>3, <1>4
  <2>2. j \in 1 .. Len(w)
    BY <2>1, Positions
  <2> QED
    BY <2>1, <2>2
<1>6. c \in Chunks
  <2>1. w[j].kind = "chunk"
    BY <1>1, <1>5
  <2> QED
    BY <1>5, <2>1, RecordKinds DEF Contents
<1> HIDE DEF c, t
<1>7. c.sequence = Cardinality(Ahead(Numbered(w, stream), j))
  <2>1. c.sequence = Cardinality({k \in ChunkPositions(w) :
                          k < j /\ w[k].chunk.stream = w[j].chunk.stream})
    BY <1>4, <1>5 DEF ValidContent, SequencesContiguous
  <2>2. {k \in ChunkPositions(w) :
           k < j /\ w[k].chunk.stream = w[j].chunk.stream}
          = Ahead(Numbered(w, stream), j)
    BY <1>5 DEF Numbered, Ahead
  <2> QED
    BY <2>1, <2>2
<1>8. PICK i \in DOMAIN sentChunks :
        /\ sentChunks[i] = c
        /\ Cardinality(Ahead(InStream(sentChunks, stream), i)) = c.sequence
  <2>1. PICK i \in DOMAIN ChunksOf(w) :
          /\ ChunksOf(w)[i] = w[j].chunk
          /\ Cardinality(Ahead(InStream(ChunksOf(w), stream), i))
               = Cardinality(Ahead(Numbered(w, stream), j))
    BY <1>4, <1>5, StreamOfChunks
  <2> QED
    BY <1>4, <1>5, <1>7, <2>1
<1>9. Cardinality(InStream(delivered, stream)) = c.sequence
  BY <1>1, <1>2, StreamOfChunks
<1>10. /\ i \in Delivery!OfStream(sentChunks, stream)
       /\ {k \in Delivery!OfStream(sentChunks, stream) : k < i}
            = Ahead(InStream(sentChunks, stream), i)
       /\ Delivery!OfStream(delivered, stream) = InStream(delivered, stream)
  BY <1>8 DEF Delivery!OfStream, InStream, Ahead
<1>11. /\ UNCHANGED <<target, sentChunks, Finished>>
       /\ Outcome = "open" /\ Outcome' = "open"
  BY <1>1 DEF Finished, Outcome, MayIterate
<1>12. Cardinality({k \in Delivery!OfStream(sentChunks, stream) : k < i})
         = Cardinality(Delivery!OfStream(delivered, stream))
  BY <1>8, <1>9, <1>10
<1>13. delivered' = Append(delivered, c)
  BY <1>1 DEF c
<1>14. Delivery!Deliver(c)
  <2>1. \E k \in Delivery!OfStream(ChunksOf(target), c.stream) :
          /\ ChunksOf(target)[k] = c
          /\ Cardinality({m \in Delivery!OfStream(ChunksOf(target), c.stream) :
                            m < k})
               = Cardinality(Delivery!OfStream(delivered, c.stream))
    BY <1>8, <1>10, <1>12
  <2> QED
    BY <1>11, <1>13, <2>1, SameCardinality
       DEF Delivery!Deliver, Finished, Outcome
<1> QED
  BY <1>6, <1>14 DEF Delivery!Next

\* The session completes over the whole finished container.
LEMMA AcceptDelivers ==
  ASSUME TransferInv, AcceptCommit, UNCHANGED target
  PROVE  Delivery!Next
<1> DEFINE r == Current.record
           t == Taken(position)
<1>1. /\ MayIterate /\ ~AtEnd /\ r.kind = "commit"
      /\ Current.present >= RecordHeaderSize /\ Current.damage = "none"
      /\ r.content = Content
      /\ readerState' = "complete" /\ UNCHANGED delivered
  BY DEF AcceptCommit, HeaderRead, CommitAccepted, CommitMatches
<1>2. ReaderType /\ Checked(position) /\ position \in 0 .. Len(source)
  BY <1>1 DEF TransferInv, ReaderSide, ReaderInv, PositionInv, MayIterate,
              ReaderType
<1>3. Whole(Current)
  <2>1. IsEntry(Current) /\ RecordSize(r) = RecordHeaderSize
    BY <1>1, <1>2, CurrentFacts DEF RecordSize
  <2>2. Current.present = RecordSize(r)
    <3>1. /\ Current.present \in Nat /\ Current.present <= RecordSize(r)
          /\ RecordSize(r) \in Nat
      BY <2>1, EntryFacts
    <3> QED
      BY <1>1, <2>1, <3>1
  <2> QED
    BY <1>1, <2>1, <2>2, EntryFacts
<1>4. Content = t
  <2>1. /\ t \in Seq(RecordSet) /\ Len(t) = position
        /\ \A i \in 1 .. position : t[i] = source[i].record
    BY <1>2, TakenFacts
  <2> HIDE DEF t
  <2>2. t = [i \in 1 .. position |-> t[i]]
    BY <2>1
  <2> QED
    BY <2>1, <2>2 DEF Content
<1>5. PICK j \in DOMAIN target : target[j] = r
  BY <1>1, <1>3, FoundIsWritten
<1>6. PICK w \in Seq(Contents) :
        /\ ChunksOf(target) = ChunksOf(w)
        /\ ~Finished => \A k \in DOMAIN target : target[k].kind # "commit"
        /\ Finished => /\ target[Len(target)].content = w
                       /\ \A k \in DOMAIN target :
                            target[k].kind = "commit" => k = Len(target)
  <2>1. target # <<>>
    BY <1>5
  <2> QED
    BY <2>1, TargetContent DEF TransferInv
<1>7. Finished /\ w = t
  BY <1>1, <1>4, <1>5, <1>6
<1>8. delivered = ChunksOf(target)
  BY <1>2, <1>6, <1>7 DEF Checked
<1>9. /\ UNCHANGED <<ChunksOf(target), Finished>>
      /\ Outcome = "open" /\ Outcome' = "complete"
  BY <1>1 DEF Finished, Outcome, MayIterate
<1>10. Delivery!Complete
  BY <1>1, <1>7, <1>8, <1>9 DEF Delivery!Complete, Finished, Outcome
<1> QED
  BY <1>10 DEF Delivery!Next

\* A session that ends without completing fails the delivery.
LEMMA FailureDelivers ==
  ASSUME \/ readerState = "new" /\ Fails("raised")
         \/ MayIterate /\ Fails("failed"),
         UNCHANGED target
  PROVE  Delivery!Next
<1>1. /\ UNCHANGED <<delivered, ChunksOf(target), Finished>>
      /\ Outcome = "open" /\ Outcome' = "failed"
  BY DEF Fails, sessionVars, MayIterate, Finished, Outcome
<1>2. Delivery!Fail
  BY <1>1 DEF Delivery!Fail, Finished, Outcome
<1> QED
  BY <1>2 DEF Delivery!Next

\* Every step of the reader is one of the delivery, or none.
LEMMA ReaderDelivers ==
  ASSUME TransferInv, ReaderNext, UNCHANGED target
  PROVE  [Delivery!Next]_(Delivery!deliveryVars)
<1>0. ReaderInv
  BY DEF TransferInv, ReaderSide
<1>1. CASE UNCHANGED <<delivered, Outcome>>
  BY <1>1 DEF Delivery!deliveryVars, Outcome
<1>2. CASE Open
  <2>1. readerState = "new" /\ readerState' = "ready" /\ UNCHANGED delivered
    BY <1>2 DEF Open
  <2>2. UNCHANGED <<delivered, Outcome>>
    BY <2>1 DEF Outcome
  <2> QED
    BY <1>1, <2>2
<1>3. ASSUME NEW r, NEW n, ConsumerCharges(r, n)
      PROVE  UNCHANGED <<delivered, Outcome>>
  BY <1>3 DEF ConsumerCharges, Outcome
<1>4. CASE \/ readerState = "new" /\ Fails("raised")
           \/ MayIterate /\ Fails("failed")
  BY <1>4, FailureDelivers
<1>5. ASSUME \/ Refusal \/ ProbeRaises \/ CloseIterator
             \/ \E n \in Nat : ReadRaises(n)
      PROVE  \/ readerState = "new" /\ Fails("raised")
             \/ MayIterate /\ Fails("failed")
  BY <1>0, <1>5, RefusalFails, CommitRefusalFails, CloseFails, ReadRaisesFails
<1> QED
  BY <1>0, <1>1, <1>2, <1>3, <1>4, <1>5, StepCases, YieldDelivers,
     AcceptDelivers

\* The sessions and the storage implement the delivery: whatever happens to the
\* records on their way, the consumer gets the chunks of each stream as they
\* were written, and "complete" means all of a finished container.
THEOREM TransferDelivers == Spec => DeliversStreams
<1>1. Init => Delivery!Init
  <2> SUFFICES ASSUME Init PROVE Delivery!Init
    OBVIOUS
  <2>1. target = <<>> /\ delivered = <<>> /\ readerState = "new"
    BY DEF Init, WriterInit, ReaderInit
  <2>2. ChunksOf(target) = <<>>
    BY <2>1, NothingYet
  <2> QED
    BY <2>1, <2>2 DEF Delivery!Init
<1>2. TransferInv /\ [Next]_vars => [Delivery!Next]_(Delivery!deliveryVars)
  <2> SUFFICES ASSUME TransferInv, [Next]_vars
               PROVE  [Delivery!Next]_(Delivery!deliveryVars)
    OBVIOUS
  <2>1. CASE WriterNext /\ UNCHANGED <<readerVars, carried, faults>>
    BY <2>1, WriterDelivers DEF TransferInv, readerVars
  <2>2. CASE UNCHANGED <<target, delivered, readerState>>
    BY <2>2 DEF Delivery!deliveryVars
  <2>3. CASE Carry \/ StorageFault
    <3>1. UNCHANGED <<target, delivered, readerState>>
      BY <2>3 DEF Carry, StorageFault, DropRecord, RepeatRecord,
                  ExchangeRecords, FlipBits, CutOff, Replace, writerVars
    <3> QED
      BY <2>2, <3>1
  <2>4. CASE carried /\ ReaderNext /\ UNCHANGED <<writerVars, carried, faults>>
    BY <2>4, ReaderDelivers DEF writerVars
  <2>5. CASE UNCHANGED vars
    BY <2>2, <2>5 DEF vars, writerVars, readerVars
  <2> QED
    BY <2>1, <2>3, <2>4, <2>5 DEF Next
<1> QED
  BY <1>1, <1>2, TransferIsSound, PTL DEF Spec, DeliversStreams, Delivery!Spec
===============================================================================
