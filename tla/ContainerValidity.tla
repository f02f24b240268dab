-------------------------- MODULE ContainerValidity --------------------------
(***************************************************************************)
(* What a complete container is, stated over the whole sequence of records *)
(* at once, with no session state.  The writer and the reader keep running *)
(* counters and per-stream sequence numbers instead; the properties of     *)
(* both modules compare them with this definition.                         *)
(***************************************************************************)
EXTENDS ContainerFormat, Enumeration

ChunkPositions(wire) == {i \in DOMAIN wire : wire[i].kind = "chunk"}

\* The stored chunks, in stored order.
ChunksOf(wire) ==
  LET places == InOrder(ChunkPositions(wire))
  IN  [k \in 1 .. Cardinality(ChunkPositions(wire)) |-> wire[places[k]].chunk]

TotalsOf(wire) ==
  LET chunks == ChunksOf(wire) IN
  [chunks  |-> Len(chunks),
   logical |-> SumOf([k \in DOMAIN chunks |-> chunks[k].logical]),
   encoded |-> SumOf([k \in DOMAIN chunks |-> chunks[k].encoded])]

SizeOf(wire) == SumOf([i \in DOMAIN wire |-> RecordSize(wire[i])])

\* Every stream's chunks are numbered 0, 1, 2, ... in stored order.
SequencesContiguous(wire) ==
  \A i \in ChunkPositions(wire) :
    wire[i].chunk.sequence =
      Cardinality({j \in ChunkPositions(wire) :
                     j < i /\ wire[j].chunk.stream = wire[i].chunk.stream})

\* What may precede the commit.
ValidContent(wire) ==
  /\ wire # <<>>
  /\ wire[1] = Preamble
  /\ \A i \in 2 .. Len(wire) :
       /\ wire[i].kind = "chunk"
       /\ wire[i].chunk.stream \in StreamIds
       /\ wire[i].chunk.recipe \in RecipeIds
  /\ SequencesContiguous(wire)

ValidContainer(wire) ==
  LET content == SubSeq(wire, 1, Len(wire) - 1) IN
  /\ Len(wire) >= 2
  /\ ValidContent(content)
  /\ wire[Len(wire)] =
       CommitRecord(TotalsOf(content), SizeOf(content), content)

\* What a source holds, damage and truncation aside, and whether there is none.
RecordsOf(source) == [i \in DOMAIN source |-> source[i].record]

ValidSource(source) ==
  /\ ValidContainer(RecordsOf(source))
  /\ \A i \in DOMAIN source : Whole(source[i])
=============================================================================
