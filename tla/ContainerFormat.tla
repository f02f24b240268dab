--------------------------- MODULE ContainerFormat ---------------------------
(***************************************************************************)
(* The records of one OBST container, src/obst/core/wire.py, model.py.     *)
(*                                                                         *)
(* A container is a sequence of records: the preamble (container header    *)
(* and manifest), chunks, and one terminal commit.  Bytes are abstracted   *)
(* to what the reader and the writer tell apart; BLAKE2s-128 of the bytes  *)
(* before the commit is the sequence of records before it, that is, a hash *)
(* without collisions.                                                     *)
(* Sizes are kept, because accounting and the wire integers depend on      *)
(* them.                                                                   *)
(***************************************************************************)
EXTENDS Integers, Sequences

CONSTANTS
  StreamIds,        \* streams the manifest declares
  RecipeIds,        \* recipes the manifest declares
  HeaderSize,       \* ContainerHeader.size
  ManifestSize,     \* size of the encoded manifest
  Declarations,     \* what the manifest counts: pairs of a resource and a number
  RecordHeaderSize, \* ChunkHeader.size = TerminalCommit.size: one read of
                    \* this size serves both
  UintMax           \* uint64.maximum

ASSUME SizeAssumption ==
  /\ HeaderSize \in Nat \ {0}
  /\ ManifestSize \in Nat \ {0}
  /\ RecordHeaderSize \in Nat \ {0}
  /\ UintMax \in Nat
  /\ HeaderSize + ManifestSize <= UintMax  \* manifest_size is a uint32

\* The recipes, streams and extensions that the manifest declares, and then, of
\* each recipe, its own stages and those of all recipes so far.
Countable ==
  {"recipes", "streams", "extensions", "stages_per_recipe", "total_stages"}

ASSUME DeclarationAssumption ==
  /\ Declarations \in Seq(Countable \X Nat)
  /\ Len(Declarations) >= 3
  /\ Declarations[1][1] = "recipes"
  /\ Declarations[2][1] = "streams"
  /\ Declarations[3][1] = "extensions"

Representable(n) == n <= UintMax

-----------------------------------------------------------------------------
\* Chunk: "id" stands for the payload bytes and the logical hash.
IsChunk(c) ==
  /\ DOMAIN c = {"stream", "sequence", "recipe", "logical", "encoded", "id"}
  /\ c.sequence \in Nat
  /\ c.logical \in Nat
  /\ c.encoded \in Nat

ChunkSize(c) == RecordHeaderSize + c.encoded

PreambleSize == HeaderSize + ManifestSize

Preamble == [kind |-> "preamble"]

ChunkRecord(c) == [kind |-> "chunk", chunk |-> c]

\* totals are the session counters, committed the number of bytes before the
\* commit and content the records before it (the hashed representation).
CommitRecord(totals, committed, content) ==
  [kind |-> "commit", totals |-> totals, committed |-> committed,
   content |-> content]

RecordSize(r) == CASE r.kind = "preamble" -> PreambleSize
                   [] r.kind = "chunk"    -> ChunkSize(r.chunk)
                   [] r.kind = "commit"   -> RecordHeaderSize

IsRecord(r) ==
  \/ r = Preamble
  \/ r.kind = "chunk" /\ r = ChunkRecord(r.chunk) /\ IsChunk(r.chunk)
  \/ r.kind = "commit" /\ r = CommitRecord(r.totals, r.committed, r.content)

\* A record as some source holds it.  "damage" says which CRC-protected part
\* no longer has its canonical bytes: the fixed header, or what follows it (the
\* manifest or the payload).  "present" is how many of its bytes are there.
Entry(r) == [record |-> r, damage |-> "none", present |-> RecordSize(r)]

IsEntry(e) ==
  /\ e = [record |-> e.record, damage |-> e.damage, present |-> e.present]
  /\ IsRecord(e.record)
  /\ e.damage \in {"none", "header", "payload"}
  /\ e.present \in 1 .. RecordSize(e.record)

Whole(entry) == entry = Entry(entry.record)

-----------------------------------------------------------------------------
\* The counters a reader and a writer keep of the chunks of one session.
NoTotals == [chunks |-> 0, logical |-> 0, encoded |-> 0]

AddTotals(totals, c) ==
  [chunks  |-> totals.chunks + 1,
   logical |-> totals.logical + c.logical,
   encoded |-> totals.encoded + c.encoded]
=============================================================================
