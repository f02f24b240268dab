-------------------------- MODULE ContainerTransfer --------------------------
(***************************************************************************)
(* A ContainerWriter and a ContainerReader with storage between them.      *)
(*                                                                         *)
(* The reader's source is what the writer's target held at some moment:    *)
(* after completion, after a failure, or in the middle of a record if the  *)
(* writing process stopped there.  Storage may then damage it: records are *)
(* dropped, repeated, exchanged, flipped or cut off.  The reader then      *)
(* consumes it while the writer may still be going on.                     *)
(***************************************************************************)
EXTENDS ContainerWriter, ContainerReader

CONSTANTS
  SamePolicy,       \* TRUE if both operations run under one policy
  MaxFaults         \* bound: faults of the storage

\* The source is empty until the storage hands its bytes over, and the
\* accountant of the reading operation is its own.
ASSUME TransferAssumption ==
  /\ Sources = {<<>>}
  /\ ReaderShared = {}
  /\ SamePolicy \in BOOLEAN
  /\ MaxFaults \in Nat

VARIABLES
  carried,    \* the storage has handed over its bytes
  faults      \* faults of the storage so far

vars == <<writerVars, readerVars, carried, faults>>

Init ==
  /\ WriterInit
  /\ ReaderInit
  /\ SamePolicy => readerPolicy = writerPolicy
  /\ carried = FALSE
  /\ faults = 0

-----------------------------------------------------------------------------
\* The record of which the target holds a part, if there is one.  A session that
\* failed has forgotten it: a source with its part is one that was carried before.
TornTail ==
  IF torn > 0 /\ outgoing.remaining > 0
    THEN <<[record |-> outgoing.record, damage |-> "none", present |-> torn]>>
    ELSE <<>>

Stored == [i \in DOMAIN target |-> Entry(target[i])] \o TornTail

Carry ==
  /\ ~carried
  /\ writerState # "new"
  /\ carried' = TRUE
  /\ source' = Stored
  /\ UNCHANGED <<writerVars, readerPolicy, readerAccount, readerState,
                 position, bytesRead, expectedSequences, readerTotals,
                 delivered, interrupted, faults>>

\* The storage hands over something else in place of what it was given.
Replace(entries) ==
  /\ carried
  /\ readerState = "new"
  /\ faults < MaxFaults
  /\ faults' = faults + 1
  /\ source' = entries
  /\ UNCHANGED <<writerVars, readerPolicy, readerAccount, readerState,
                 position, bytesRead, expectedSequences, readerTotals,
                 delivered, interrupted, carried>>

Records == 2 .. Len(source)

DropRecord ==
  \E i \in Records :
    Replace(SubSeq(source, 1, i - 1) \o SubSeq(source, i + 1, Len(source)))

RepeatRecord ==
  \E i \in Records :
    /\ Whole(source[i])
    /\ Replace(SubSeq(source, 1, i) \o SubSeq(source, i, Len(source)))

ExchangeRecords ==
  \E i, j \in Records :
    /\ i < j
    /\ Whole(source[i]) /\ Whole(source[j])
    /\ Replace([source EXCEPT ![i] = source[j], ![j] = source[i]])

FlipBits ==
  \E i \in DOMAIN source : \E part \in {"header", "payload"} :
    /\ Whole(source[i])
    /\ part = "payload" => source[i].record.kind = "preamble"
                             \/ source[i].present > RecordHeaderSize
    /\ Replace([source EXCEPT ![i].damage = part])

CutOff ==
  LET last == Len(source) IN
  \/ /\ last > 0
     /\ \E n \in 1 .. (source[last].present - 1) :
          Replace([source EXCEPT ![last].present = n])
  \/ /\ last > 0
     /\ Replace(SubSeq(source, 1, last - 1))

StorageFault ==
  DropRecord \/ RepeatRecord \/ ExchangeRecords \/ FlipBits \/ CutOff

-----------------------------------------------------------------------------
Next ==
  \/ WriterNext /\ UNCHANGED <<readerVars, carried, faults>>
  \/ Carry
  \/ StorageFault
  \/ carried /\ ReaderNext /\ UNCHANGED <<writerVars, carried, faults>>

\* The reading operation is a loop of one thread over a file: it opens the
\* container and pulls chunks until it is told to stop.
Pull == carried /\ (Open \/ NextChunk)
                /\ UNCHANGED <<writerVars, carried, faults>>

Spec == Init /\ [][Next]_vars /\ WF_vars(Pull)

-----------------------------------------------------------------------------
(* Properties.                                                             *)

\* The delivery the two sessions and the storage between them implement.
Delivery ==
  INSTANCE StreamDelivery WITH
    Sendable <- Chunks,
    sent     <- ChunksOf(target),
    finished <- target # <<>> /\ target[Len(target)].kind = "commit",
    received <- delivered,
    outcome  <- CASE readerState = "complete" -> "complete"
                  [] readerState \in {"failed", "raised"} -> "failed"
                  [] OTHER -> "open"

\* Whatever the storage does to whole records, the consumer gets each stream's
\* chunks in the order written and without a gap, and is told "complete" only
\* for the whole container in its stored order.
DeliversStreams == Delivery!Spec

\* A container written under a policy can be read under that policy: the
\* ceilings the reader applies never refuse what the writer's let through.
ReadableUnderTheSamePolicy ==
  /\ readerPolicy = writerPolicy
  /\ readerState \in {"failed", "raised"}
  /\ ~interrupted
  /\ faults = 0
  => ~(Len(source) > 0 /\ source[Len(source)].record.kind = "commit"
                       /\ Whole(source[Len(source)]))

\* Once a finished container was handed over unharmed to an operation of the
\* same policy, that operation reads it to the end, unless it is interrupted.
FinishedIsRead ==
  (SamePolicy /\ carried /\ faults = 0 /\ source = Stored
     /\ writerState = "complete")
    ~> (readerState = "complete" \/ interrupted \/ faults > 0)
=============================================================================
