-------------------------- MODULE MCContainerReader --------------------------
(* Small instances of ContainerReader for TLC.                              *)
EXTENDS ContainerReader

LOCAL INSTANCE SequencesExt

CONSTANT MaxChunks  \* bound: chunks in one source

Only(limits) ==
  [r \in CoreResource |-> IF r \in DOMAIN limits THEN limits[r] ELSE Unbounded]

\* A manifest of two recipes, of one and of two stages.
MCDeclarations ==
  <<<<"recipes", 2>>, <<"streams", 2>>, <<"extensions", 3>>,
    <<"stages_per_recipe", 1>>, <<"total_stages", 1>>,
    <<"stages_per_recipe", 2>>, <<"total_stages", 3>>>>

\* What these numbers meet exactly.
ExactCounts ==
  [recipes |-> 2, streams |-> 2, extensions |-> 3, stages_per_recipe |-> 2,
   total_stages |-> 3]

MCPolicies ==
  {Only(<<>>),
   Only([container_bytes |-> 8]),
   Only([container_bytes |-> 1, manifest_bytes |-> 2]),
   Only([manifest_bytes |-> 1]),
   Only(ExactCounts),
   Only([ExactCounts EXCEPT !.recipes = 1]),
   Only([ExactCounts EXCEPT !.streams = 1]),
   Only([ExactCounts EXCEPT !.extensions = 2]),
   Only([ExactCounts EXCEPT !.stages_per_recipe = 1]),
   Only([ExactCounts EXCEPT !.total_stages = 2]),
   Only([chunks |-> 1]),
   Only([encoded_chunk_bytes |-> 1]),
   Only([logical_chunk_bytes |-> 1])}

Chunk(stream, sequence, recipe, logical, encoded) ==
  [stream |-> stream, sequence |-> sequence, recipe |-> recipe,
   logical |-> logical, encoded |-> encoded, id |-> <<stream, sequence>>]

MCChunks ==
  {Chunk("s1", 0, "r1", 1, 0), Chunk("s1", 1, "r1", 1, 2),
   Chunk("s2", 0, "r1", 2, 1), Chunk("s9", 0, "r1", 1, 1),
   Chunk("s1", 0, "r9", 1, 1)}

\* Preamble and chunks, in every order.
Contents ==
  {<<Preamble>> \o [i \in DOMAIN chunks |-> ChunkRecord(chunks[i])] :
     chunks \in BoundedSeq(MCChunks, MaxChunks)}

\* The commit that belongs to a content, and commits of which one part does
\* not: a counter, the size, or the content they were made for.
CommitFor(content) ==
  CommitRecord(TotalsOf(content), SizeOf(content), content)

Commits(content) ==
  LET right == CommitFor(content) IN
  {right,
   [right EXCEPT !.totals.chunks = @ + 1],
   [right EXCEPT !.totals.logical = @ + 1],
   [right EXCEPT !.totals.encoded = @ + 1],
   [right EXCEPT !.committed = @ + 1],
   [right EXCEPT !.content = Append(@, Preamble)]}

\* With one commit, none, or more records behind it.
Wires ==
  Contents
    \cup UNION {{Append(content, commit) : commit \in Commits(content)} :
                  content \in Contents}
    \cup {content \o <<CommitFor(content), CommitFor(content)>> :
            content \in Contents}

EntriesOf(wire) == [i \in DOMAIN wire |-> Entry(wire[i])]

\* One entry damaged, in its header or in what follows the header.
Damaged(entries) ==
  {[entries EXCEPT ![i].damage = "header"] : i \in DOMAIN entries}
    \cup {[entries EXCEPT ![i].damage = "payload"] :
            i \in {j \in DOMAIN entries :
                     entries[j].present > RecordHeaderSize}}
    \cup {[entries EXCEPT ![1].damage = "payload"]}

\* The last entry cut short, or the source cut at a record boundary.
Truncated(entries) ==
  LET last == Len(entries) IN
  {Append(SubSeq(entries, 1, last - 1), [entries[last] EXCEPT !.present = n]) :
     n \in 1 .. (entries[last].present - 1)}
  \cup {SubSeq(entries, 1, last - 1)}

MCSources ==
  UNION {{EntriesOf(wire)} \cup Damaged(EntriesOf(wire))
            \cup Truncated(EntriesOf(wire)) : wire \in Wires}
=============================================================================
