---------------------------- MODULE FileExtraction ----------------------------
(***************************************************************************)
(* FileArchiver.extract(), obst_defaults/files/adapter.py: extractions, of *)
(* one process each, publish their members in one output directory.        *)
(* Members are decoded into a temporary directory inside it, and get their *)
(* names by hard links when all of them are complete.                      *)
(*                                                                         *)
(* A step is one effect on the filesystem, or one look at it.  Every path  *)
(* is resolved when it is used: the directory of the path may have been    *)
(* given to another one since (an identity is st_dev and st_ino), and      *)
(* others create files in it.  Decoding is one step that succeeds or not.  *)
(* Every call may raise; an asynchronous exception may also come after the *)
(* effect of a call and before the code has a record of it, or keep it     *)
(* from finishing what it does about an earlier error.                     *)
(***************************************************************************)
EXTENDS Naturals, Sequences, SequencesExt

CONSTANTS
  Extractions,  \* extractions into this directory
  MembersOf,    \* per extraction: the names of its members, in manifest order
  Absent,       \* a name refers to nothing
  Other,        \* ... to a file that no extraction made
  MaxIdentity   \* bound: identities the path has had

ASSUME MembersAssumption ==
  /\ Absent \notin Extractions /\ Other \notin Extractions /\ Absent # Other
  /\ \A e \in Extractions : MembersOf[e] \in Seq(Range(MembersOf[e]))
  /\ \A e \in Extractions : \A i, j \in DOMAIN MembersOf[e] :
       MembersOf[e][i] = MembersOf[e][j] => i = j
  /\ MaxIdentity \in Nat \ {0}

VARIABLES
  directory,    \* what the output path refers to: an identity, 0 for nothing
  entries,      \* per identity and name: Absent, Other or an extraction's file
  temporaries,  \* <<extraction, identity>>: temporary directories
  at,           \* per extraction: where extract() is
  identity,     \* per extraction: output_identity
  decoded,      \* extractions whose temporary members are complete
  published,    \* per extraction: targets it has linked and not given up
  raised,       \* extractions with a primary error
  noted,        \* extractions that reported something they could not remove
  abandoned,    \* history: identities of directories that were moved away
  interrupted   \* history: <<extraction, point>>: where an asynchronous
                \* exception kept it from a record or from its cleanup

vars == <<directory, entries, temporaries, at, identity, decoded, published,
          raised, noted, abandoned, interrupted>>

Identities == 0 .. MaxIdentity
Names == UNION {Range(MembersOf[e]) : e \in Extractions}

Init ==
  /\ directory \in {0, 1}
  /\ entries = [d \in Identities |-> [n \in Names |-> Absent]]
  /\ temporaries = {}
  /\ at = [e \in Extractions |-> "prepare"]
  /\ identity = [e \in Extractions |-> 0]
  /\ decoded = {}
  /\ published = [e \in Extractions |-> <<>>]
  /\ raised = {}
  /\ noted = {}
  /\ abandoned = {}
  /\ interrupted = {}

GoTo(e, point) == at' = [at EXCEPT ![e] = point]

\* A primary error; what is done about it starts at the given point.
Raise(e, point) ==
  /\ raised' = raised \cup {e}
  /\ GoTo(e, point)

\* An asynchronous exception at the point where extract() is.
Interrupt(e, point) ==
  /\ interrupted' = interrupted \cup {<<e, at[e]>>}
  /\ Raise(e, point)

-----------------------------------------------------------------------------
(* Before the try block: nothing has to be undone.                         *)

\* The path with a directory: the one it has, or one that is made.
Existing == IF directory = 0 THEN 1 ELSE directory

\* Members and directory are checked, the directory is made if there is none.
Prepare(e) ==
  /\ at[e] = "prepare"
  /\ \/ /\ directory' = Existing
        /\ identity' = [identity EXCEPT ![e] = Existing]
        /\ GoTo(e, "check")
        /\ UNCHANGED raised
     \/ /\ directory' \in {directory, Existing}
        /\ Raise(e, "ended")
        /\ UNCHANGED identity
  /\ UNCHANGED <<entries, temporaries, decoded, published, noted, abandoned,
                 interrupted>>

CheckTargets(e) ==
  /\ at[e] = "check"
  /\ \/ /\ \A n \in Range(MembersOf[e]) : entries[directory][n] = Absent
        /\ GoTo(e, "make")
        /\ UNCHANGED raised
     \/ Raise(e, "ended")
  /\ UNCHANGED <<directory, entries, temporaries, identity, decoded,
                 published, noted, abandoned, interrupted>>

\* tempfile.mkdtemp().  What comes after it is still outside the try block
\* whose end removes the directory.
MakeTemporary(e) ==
  /\ at[e] = "make"
  /\ \/ /\ temporaries' = temporaries \cup {<<e, directory>>}
        /\ GoTo(e, "verify")
        /\ UNCHANGED <<raised, interrupted>>
     \/ /\ temporaries' = temporaries \cup {<<e, directory>>}
        /\ Interrupt(e, "ended")
     \/ /\ Raise(e, "ended")
        /\ UNCHANGED <<temporaries, interrupted>>
  /\ UNCHANGED <<directory, entries, identity, decoded, published, noted,
                 abandoned>>

-----------------------------------------------------------------------------
(* Decoding and publishing.                                                *)

\* A seeded fault: the identity is not compared.
AnyRoot(e) == TRUE

\* _require_directory_identity()
SameRoot(e) == directory = identity[e]

\* The temporary directory is found at its path.
TemporaryFound(e) == <<e, directory>> \in temporaries

VerifyRoot(e) ==
  /\ at[e] = "verify"
  /\ \/ SameRoot(e) /\ GoTo(e, "decode") /\ UNCHANGED raised
     \/ Raise(e, "clean")
  /\ UNCHANGED <<directory, entries, temporaries, identity, decoded,
                 published, noted, abandoned, interrupted>>

\* Touch the members, then read, charge, decode and append every chunk.
Decode(e) ==
  /\ at[e] = "decode"
  /\ \/ /\ TemporaryFound(e)
        /\ decoded' = decoded \cup {e}
        /\ GoTo(e, "publish")
        /\ UNCHANGED raised
     \/ /\ Raise(e, "clean")
        /\ UNCHANGED decoded
  /\ UNCHANGED <<directory, entries, temporaries, identity, published, noted,
                 abandoned, interrupted>>

NextMember(e) == MembersOf[e][Len(published[e]) + 1]

AllPublished(e) == Len(published[e]) = Len(MembersOf[e])

VerifyNext(e) ==
  /\ at[e] = "publish"
  /\ \/ AllPublished(e) /\ GoTo(e, "clean") /\ UNCHANGED raised
     \/ /\ ~AllPublished(e)
        /\ SameRoot(e)
        /\ GoTo(e, "link")
        /\ UNCHANGED raised
     \/ Raise(e, "roll back")
  /\ UNCHANGED <<directory, entries, temporaries, identity, decoded,
                 published, noted, abandoned, interrupted>>

\* A seeded fault: the check made before decoding is trusted.
MayReplace(n) == TRUE

\* os.link() refuses an existing name.  An interruption may come after it.
MayLink(n) == entries[directory][n] = Absent

Link(e) ==
  /\ at[e] = "link"
  /\ \/ /\ TemporaryFound(e)
        /\ MayLink(NextMember(e))
        /\ entries' = [entries EXCEPT ![directory][NextMember(e)] = e]
        /\ published' = [published EXCEPT ![e] = Append(@, NextMember(e))]
        /\ GoTo(e, "publish")
        /\ UNCHANGED <<raised, interrupted>>
     \/ /\ TemporaryFound(e)
        /\ MayLink(NextMember(e))
        /\ entries' = [entries EXCEPT ![directory][NextMember(e)] = e]
        /\ Interrupt(e, "roll back")
        /\ UNCHANGED published
     \/ /\ Raise(e, "roll back")
        /\ UNCHANGED <<entries, published, interrupted>>
  /\ UNCHANGED <<directory, temporaries, identity, decoded, noted, abandoned>>

-----------------------------------------------------------------------------
(* Undoing and cleaning up.                                                *)

\* A seeded fault: the first name ends the roll-back.
GiveUp(e) == <<>>

\* What is left to remove after the first.
Rest(e) == Tail(published[e])

\* unlink(missing_ok) of the published targets one after the other.  The loop
\* is not guarded against an exception between two removals, or in the note of
\* one that failed.
RollBack(e) ==
  /\ at[e] = "roll back"
  /\ \/ /\ published[e] = <<>>
        /\ GoTo(e, "clean")
        /\ UNCHANGED <<entries, published, noted, interrupted>>
     \/ /\ published[e] # <<>>
        /\ \/ /\ entries' =
                    [entries EXCEPT ![directory][published[e][1]] = Absent]
              /\ UNCHANGED noted
           \/ /\ noted' = noted \cup {e}
              /\ UNCHANGED entries
        /\ published' = [published EXCEPT ![e] = Rest(e)]
        /\ UNCHANGED <<at, interrupted>>
     \/ /\ published[e] # <<>>
        /\ Interrupt(e, "clean")
        /\ UNCHANGED <<entries, published, noted>>
  /\ UNCHANGED <<directory, temporaries, identity, decoded, raised, abandoned>>

\* A seeded fault: a failed removal is only reported with an error.
NotedIfRaised(e) == IF e \in raised THEN noted \cup {e} ELSE noted

\* A cleanup issue of the result, or a note of the primary error.
Noted(e) == noted \cup {e}

\* shutil.rmtree() of the temporary directory.
Clean(e) ==
  /\ at[e] = "clean"
  /\ \/ /\ TemporaryFound(e)
        /\ temporaries' = temporaries \ {<<e, directory>>}
        /\ GoTo(e, "ended")
        /\ UNCHANGED <<noted, raised, interrupted>>
     \/ /\ noted' = Noted(e)
        /\ GoTo(e, "ended")
        /\ UNCHANGED <<temporaries, raised, interrupted>>
     \/ /\ Interrupt(e, "ended")
        /\ UNCHANGED <<temporaries, noted>>
  /\ UNCHANGED <<directory, entries, identity, decoded, published, abandoned>>

-----------------------------------------------------------------------------
(* The environment.                                                        *)

Running == {e \in Extractions : at[e] \notin {"prepare", "ended", "crashed"}}

Crash(e) ==
  /\ e \in Running
  /\ GoTo(e, "crashed")
  /\ UNCHANGED <<directory, entries, temporaries, identity, decoded,
                 published, raised, noted, abandoned, interrupted>>

\* The directory is moved away, and the path given to a new one.
ReplaceDirectory ==
  /\ directory \in 1 .. (MaxIdentity - 1)
  /\ directory' = directory + 1
  /\ abandoned' = abandoned \cup {directory}
  /\ UNCHANGED <<entries, temporaries, at, identity, decoded, published,
                 raised, noted, interrupted>>

\* Somebody else creates a file.
CreateOther(n) ==
  /\ directory # 0
  /\ entries[directory][n] = Absent
  /\ entries' = [entries EXCEPT ![directory][n] = Other]
  /\ UNCHANGED <<directory, temporaries, at, identity, decoded, published,
                 raised, noted, abandoned, interrupted>>

Extraction(e) ==
  \/ Prepare(e) \/ CheckTargets(e) \/ MakeTemporary(e) \/ VerifyRoot(e)
  \/ Decode(e) \/ VerifyNext(e) \/ Link(e) \/ RollBack(e) \/ Clean(e)

Next ==
  \/ \E e \in Extractions : Extraction(e) \/ Crash(e)
  \/ ReplaceDirectory
  \/ \E n \in Names : CreateOther(n)

Spec == Init /\ [][Next]_vars

-----------------------------------------------------------------------------
(* Properties.                                                             *)

\* A member is visible only in the directory that was checked, and only when
\* every member of its extraction has been decoded.
OnlyDecodedInItsRoot ==
  \A d \in Identities, n \in Names :
    entries[d][n] \in Extractions =>
      /\ entries[d][n] \in decoded
      /\ identity[entries[d][n]] = d

\* No name is ever given from one file to another.  A name is taken only from
\* the extraction's own file, as long as the path keeps its directory.
NeverOverwrites ==
  [][\A d \in Identities, n \in Names :
       entries[d][n] # Absent /\ entries'[d][n] # entries[d][n] =>
         /\ entries'[d][n] = Absent
         /\ abandoned = {} => entries[d][n] \in raised]_vars

Visible(e) == {n \in Names : entries[identity[e]][n] = e}

\* An extraction that returned has published every member.  One that raised
\* leaves none behind, unless it reported what it could not remove.  What an
\* asynchronous exception costs is this: between a link and the append that
\* records it, that one link stays; in the roll-back, what was not yet taken
\* back; in the last cleanup, the result of a complete extraction.
\* (As long as the path keeps its directory.)
AllOrNothing ==
  \A e \in Extractions : at[e] = "ended" /\ abandoned = {} =>
    IF e \in raised
      THEN \/ e \in noted
           \/ <<e, "roll back">> \in interrupted
           \/ <<e, "clean">> \in interrupted /\ Visible(e) = Range(MembersOf[e])
           \/ Cardinality(Visible(e)) =
                IF <<e, "link">> \in interrupted THEN 1 ELSE 0
      ELSE Visible(e) = Range(MembersOf[e])

\* A temporary directory that outlives its extraction is reported, unless an
\* asynchronous exception came before the try block that removes it, or in the
\* handler that reports it.
ResidueIsReported ==
  \A e \in Extractions :
    at[e] = "ended" /\ (\E d \in Identities : <<e, d>> \in temporaries) =>
      \/ e \in noted
      \/ <<e, "make">> \in interrupted
      \/ <<e, "clean">> \in interrupted

=============================================================================
