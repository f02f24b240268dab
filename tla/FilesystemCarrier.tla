-------------------------- MODULE FilesystemCarrier --------------------------
(***************************************************************************)
(* The filesystem carrier, obst_defaults/carriers/filesystem.py, driven by *)
(* publish_package() of carriers/__init__.py: several publisher sessions   *)
(* and readers, of one process or of many, work on one target path.        *)
(*                                                                         *)
(* A step is one effect on the directory or the file, as the operating     *)
(* system makes it; the Python state it comes with changes in the same     *)
(* step.  Each session writes a file of its own, named by the session; the *)
(* target refers to such a file, to what was there before, or to nothing.  *)
(* A failed call cleans up in the step in which it fails: the temporary    *)
(* name is private to the session, so nothing can come in between.         *)
(***************************************************************************)
EXTENDS Naturals, FiniteSets

CONSTANTS
  Sessions,     \* publisher sessions with this target
  Overwriting,  \* those whose request allows overwriting
  Readers,      \* reader sessions with this path
  Absent,       \* the target name refers to nothing
  Previous,     \* ... to a container that was there before
  Interrupts    \* an asynchronous exception (KeyboardInterrupt) may arrive
                \* just after a system call took effect

ASSUME CarrierAssumption ==
  /\ Overwriting \subseteq Sessions
  /\ Absent \notin Sessions
  /\ Previous \notin Sessions
  /\ Absent # Previous
  /\ Interrupts \in BOOLEAN

VARIABLES
  call,           \* where publish_package() is
  lifecycle,      \* _state
  fileOpen,       \* _file is not None
  temporaryKnown, \* _temporary_path is not None
  temporaries,    \* sessions whose temporary name is in the directory
  content,        \* the file a session wrote: "none", "partial", "complete"
  synced,         \* sessions whose file was fsynced
  target,         \* what the target name refers to
  outcome,        \* "pending", "returned", "returned with issue", "raised"
  published,      \* history: sessions whose file the target referred to
  interrupted,    \* history: sessions an asynchronous exception hit
  readerState,    \* FilesystemReaderSession._state
  handle          \* the file a reader session has open, or Absent

publisherVars == <<call, lifecycle, fileOpen, temporaryKnown, temporaries,
                   content, synced, target, outcome, published, interrupted>>
readerVars == <<readerState, handle>>
vars == <<publisherVars, readerVars>>

-----------------------------------------------------------------------------
Init ==
  /\ call = [p \in Sessions |-> "open"]
  /\ lifecycle = [p \in Sessions |-> "new"]
  /\ fileOpen = [p \in Sessions |-> FALSE]
  /\ temporaryKnown = [p \in Sessions |-> FALSE]
  /\ temporaries = {}
  /\ content = [p \in Sessions |-> "none"]
  /\ synced = {}
  /\ target \in {Absent, Previous}
  /\ outcome = [p \in Sessions |-> "pending"]
  /\ published = {}
  /\ interrupted = {}
  /\ readerState = [r \in Readers |-> "new"]
  /\ handle = [r \in Readers |-> Absent]

\* Session p goes on to another point of publish_package().
GoTo(p, point) == call' = [call EXCEPT ![p] = point]

-----------------------------------------------------------------------------
(* _discard_unpublished(): close, then unlink whether or not the close     *)
(* failed.  Either may fail.                                               *)

\* Nothing the session owns is left.
Released(closed, unlinked) == closed /\ unlinked

Discard(p) ==
  \E closed, unlinked \in BOOLEAN :
    /\ ~fileOpen[p] => closed
    /\ ~temporaryKnown[p] => unlinked
    /\ fileOpen' = [fileOpen EXCEPT ![p] = ~closed]
    /\ temporaryKnown' = [temporaryKnown EXCEPT ![p] = ~unlinked]
    /\ temporaries' = IF temporaryKnown[p] /\ unlinked THEN temporaries \ {p}
                                                       ELSE temporaries
    /\ lifecycle' =
         [lifecycle EXCEPT ![p] = IF Released(closed, unlinked)
                                    THEN "aborted" ELSE "cleanup required"]

\* open() or commit() discards what it made and raises.
FailAndDiscard(p) ==
  /\ Discard(p)
  /\ GoTo(p, "abort")

-----------------------------------------------------------------------------
(* open()                                                                  *)

\* The directory exists, and the target does not or may be replaced.
MayCreate(p) == target = Absent \/ p \in Overwriting

CheckTarget(p) ==
  /\ call[p] = "open"
  /\ \/ /\ MayCreate(p)
        /\ GoTo(p, "create")
        /\ UNCHANGED <<lifecycle, fileOpen, temporaryKnown, temporaries>>
     \/ FailAndDiscard(p)
  /\ UNCHANGED <<content, synced, target, outcome, published, interrupted,
                 readerVars>>

CreateTemporary(p) ==
  /\ call[p] = "create"
  /\ \/ /\ GoTo(p, "package")
        /\ lifecycle' = [lifecycle EXCEPT ![p] = "open"]
        /\ fileOpen' = [fileOpen EXCEPT ![p] = TRUE]
        /\ temporaryKnown' = [temporaryKnown EXCEPT ![p] = TRUE]
        /\ temporaries' = temporaries \cup {p}
        /\ content' = [content EXCEPT ![p] = "partial"]
     \/ /\ FailAndDiscard(p)
        /\ UNCHANGED content
  /\ UNCHANGED <<synced, target, outcome, published, interrupted, readerVars>>

\* The file was created, but the session never learnt its name.
InterruptedCreate(p) ==
  /\ Interrupts
  /\ interrupted' = interrupted \cup {p}
  /\ call[p] = "create"
  /\ GoTo(p, "abort")
  /\ lifecycle' = [lifecycle EXCEPT ![p] = "aborted"]
  /\ temporaries' = temporaries \cup {p}
  /\ UNCHANGED <<fileOpen, temporaryKnown, content, synced, target, outcome,
                 published, readerVars>>

-----------------------------------------------------------------------------
\* operation.write_to(): the package is complete when it returns.
WritePackage(p) ==
  /\ call[p] = "package"
  /\ \/ /\ content' = [content EXCEPT ![p] = "complete"]
        /\ GoTo(p, "sync")
     \/ /\ GoTo(p, "abort")
        /\ UNCHANGED content
  /\ UNCHANGED <<lifecycle, fileOpen, temporaryKnown, temporaries, synced,
                 target, outcome, published, interrupted, readerVars>>

-----------------------------------------------------------------------------
(* commit()                                                                *)

\* A seeded fault: flushed, but not synced.
OnlyFlushed(p) == synced' = synced

\* os.fsync() of the flushed file.
Fsynced(p) == synced' = synced \cup {p}

\* flush(), fsync() and close().
SyncTemporary(p) ==
  /\ call[p] = "sync"
  /\ \/ /\ Fsynced(p)
        /\ fileOpen' = [fileOpen EXCEPT ![p] = FALSE]
        /\ GoTo(p, "publish")
        /\ UNCHANGED <<lifecycle, temporaryKnown, temporaries>>
     \/ /\ FailAndDiscard(p)
        /\ synced' \in {synced, synced \cup {p}}
  /\ UNCHANGED <<content, target, outcome, published, interrupted, readerVars>>

\* A seeded fault: the check open() made is trusted.
MayAlwaysPublish(p) == TRUE

\* os.replace() always replaces, os.link() never does.
MayPublish(p) == p \in Overwriting \/ target = Absent

\* _publish_file(): os.replace() consumes the temporary name, os.link() does
\* not.
MakeVisible(p) ==
  /\ call[p] = "publish"
  /\ MayPublish(p)
  /\ target' = p
  /\ published' = published \cup {p}

PublishFile(p) ==
  /\ \/ /\ MakeVisible(p)
        /\ lifecycle' = [lifecycle EXCEPT ![p] = "committed"]
        /\ GoTo(p, "clean up")
        /\ IF p \in Overwriting
             THEN /\ temporaries' = temporaries \ {p}
                  /\ temporaryKnown' = [temporaryKnown EXCEPT ![p] = FALSE]
             ELSE UNCHANGED <<temporaries, temporaryKnown>>
        /\ UNCHANGED fileOpen
     \/ /\ call[p] = "publish"
        /\ FailAndDiscard(p)
        /\ UNCHANGED <<target, published>>
  /\ UNCHANGED <<content, synced, outcome, interrupted, readerVars>>

\* The target is visible, and the exception is taken for a failure of the call.
\* (Unlinking a name that os.replace() consumed succeeds: missing_ok.)
InterruptedPublish(p) ==
  /\ Interrupts
  /\ interrupted' = interrupted \cup {p}
  /\ MakeVisible(p)
  /\ FailAndDiscard(p)
  /\ p \in Overwriting => ~temporaryKnown'[p]
  /\ UNCHANGED <<content, synced, outcome, readerVars>>

\* A seeded fault: a name that could not be removed is not reported.
AlwaysClean(removed) == "returned"

\* The receipt names the temporary file that could not be removed.
Receipt(removed) == IF removed THEN "returned" ELSE "returned with issue"

\* A seeded fault: a cleanup that fails makes commit() fail.
CleanUpMayRaise(p) ==
  /\ call[p] = "clean up"
  /\ GoTo(p, "abort")
  /\ UNCHANGED <<lifecycle, fileOpen, temporaryKnown, temporaries, content,
                 synced, target, outcome, published, interrupted, readerVars>>

\* _cleanup_temporary() after publication, and the receipt.
CleanUp(p) ==
  /\ call[p] = "clean up"
  /\ \E removed \in BOOLEAN :
       /\ ~temporaryKnown[p] => removed
       /\ temporaries' = IF removed THEN temporaries \ {p} ELSE temporaries
       /\ temporaryKnown' = [temporaryKnown EXCEPT ![p] = ~removed]
       /\ outcome' = [outcome EXCEPT ![p] = Receipt(removed)]
  /\ GoTo(p, "ended")
  /\ UNCHANGED <<lifecycle, fileOpen, content, synced, target, published,
                 interrupted, readerVars>>

\* Only an OSError of the cleanup is turned into a cleanup issue.
InterruptedCleanUp(p) ==
  /\ Interrupts
  /\ interrupted' = interrupted \cup {p}
  /\ call[p] = "clean up"
  /\ temporaries' \in {temporaries, temporaries \ {p}}
  /\ GoTo(p, "abort")
  /\ UNCHANGED <<lifecycle, fileOpen, temporaryKnown, content, synced, target,
                 outcome, published, readerVars>>

-----------------------------------------------------------------------------
\* publish_package() aborts the session once and raises the first error.
\* abort() of a committed session raises, which becomes a note.
AbortOnce(p) ==
  /\ call[p] = "abort"
  /\ GoTo(p, "ended")
  /\ outcome' = [outcome EXCEPT ![p] = "raised"]
  /\ IF lifecycle[p] \in {"new", "aborted"}
       THEN /\ lifecycle' = [lifecycle EXCEPT ![p] = "aborted"]
            /\ UNCHANGED <<fileOpen, temporaryKnown, temporaries>>
       ELSE IF lifecycle[p] = "committed"
         THEN UNCHANGED <<lifecycle, fileOpen, temporaryKnown, temporaries>>
         ELSE Discard(p)
  /\ UNCHANGED <<content, synced, target, published, interrupted, readerVars>>

\* A host that kept the session calls abort() again: cleanup is retryable.
AbortAgain(p) ==
  /\ call[p] = "ended"
  /\ lifecycle[p] = "cleanup required"
  /\ Discard(p)
  /\ UNCHANGED <<call, content, synced, target, outcome, published,
                 interrupted, readerVars>>

-----------------------------------------------------------------------------
(* The reader: open() binds one handle, which keeps its file when the name *)
(* is given to another.                                                    *)

OpenInput(r) ==
  /\ readerState[r] = "new"
  /\ \/ /\ target # Absent
        /\ handle' = [handle EXCEPT ![r] = target]
        /\ readerState' = [readerState EXCEPT ![r] = "open"]
     \/ /\ readerState' = [readerState EXCEPT ![r] = "aborted"]
        /\ UNCHANGED handle
  /\ UNCHANGED publisherVars

CloseInput(r) ==
  /\ \/ /\ readerState[r] = "new"
        /\ readerState' = [readerState EXCEPT ![r] = "closed"]
        /\ UNCHANGED handle
     \/ /\ readerState[r] = "open"
        /\ readerState' = [readerState EXCEPT ![r] = "closed"]
        /\ handle' = [handle EXCEPT ![r] = Absent]
     \/ /\ readerState[r] = "open"  \* file.close() raises OSError
        /\ readerState' = [readerState EXCEPT ![r] = "cleanup required"]
        /\ UNCHANGED handle
  /\ UNCHANGED publisherVars

-----------------------------------------------------------------------------
(* The environment.                                                        *)

InProgress == {p \in Sessions : call[p] \notin {"open", "ended", "crashed"}}

\* The process of a session dies; the files stay as they are.
Crash(p) ==
  /\ p \in InProgress
  /\ GoTo(p, "crashed")
  /\ UNCHANGED <<lifecycle, fileOpen, temporaryKnown, temporaries, content,
                 synced, target, outcome, published, interrupted, readerVars>>

\* Every running session dies, and with it what no fsync made durable.  (The
\* directory is not synced either, and the carrier promises nothing of what a
\* restart finds of it; here it stays as it was.)
PowerFailure ==
  /\ InProgress # {}
  /\ call' = [p \in Sessions |->
                IF p \in InProgress THEN "crashed" ELSE call[p]]
  /\ content' = [p \in Sessions |-> IF p \in synced \/ content[p] = "none"
                                      THEN content[p] ELSE "partial"]
  /\ UNCHANGED <<lifecycle, fileOpen, temporaryKnown, temporaries, synced,
                 target, outcome, published, interrupted, readerVars>>

-----------------------------------------------------------------------------
Publisher(p) ==
  \/ CheckTarget(p)
  \/ CreateTemporary(p)
  \/ InterruptedCreate(p)
  \/ WritePackage(p)
  \/ SyncTemporary(p)
  \/ PublishFile(p)
  \/ InterruptedPublish(p)
  \/ CleanUp(p)
  \/ InterruptedCleanUp(p)
  \/ AbortOnce(p)

Next ==
  \/ \E p \in Sessions : Publisher(p) \/ AbortAgain(p) \/ Crash(p)
  \/ \E r \in Readers : OpenInput(r) \/ CloseInput(r)
  \/ PowerFailure

Spec == Init /\ [][Next]_vars

-----------------------------------------------------------------------------
(* Properties.                                                             *)

\* The target never refers to a file that is not complete, not even after the
\* power failed: a file is synced before the name is given to it.  The same
\* holds for every file a reader has open.
OnlyCompleteVisible ==
  \A f \in {target} \cup {handle[r] : r \in Readers} :
    f \in Sessions => content[f] = "complete"

\* A receipt means that the target referred to this session's file, and that
\* only a later overwriting session has taken the name since.
ReceiptMeansPublished ==
  \A p \in Sessions :
    outcome[p] \in {"returned", "returned with issue"} =>
      /\ p \in published
      /\ target # p => target \in Overwriting /\ target \in published

\* A session that ended leaves no temporary file or open handle behind, unless
\* its receipt names it or its state says that cleanup is still required.  (An
\* asynchronous exception may hit before the session knows the file.)
ResidueIsReported ==
  \A p \in Sessions \ interrupted :
    call[p] = "ended" /\ (p \in temporaries \/ fileOpen[p]) =>
      outcome[p] = "returned with issue" \/ lifecycle[p] = "cleanup required"

\* publish_package() raises only when the target was never made visible, unless
\* an asynchronous exception hit the session.
FailureMeansUnpublished ==
  \A p \in Sessions \ interrupted : outcome[p] = "raised" => p \notin published

\* A carrier never reports a failure after the target became visible.
\* (Violated: an exception that arrives then is taken for a failed call.)
NoFailureOnceVisible ==
  \A p \in Sessions : outcome[p] = "raised" => p \notin published

\* The carrier implements atomic publication.
Shown == IF target \in Sessions /\ content[target] # "complete"
           THEN "torn" ELSE target

Status == [p \in Sessions |->
             IF p \in published THEN "published"
             ELSE IF call[p] \in {"ended", "crashed"} THEN "refused"
             ELSE "pending"]

Atomic == INSTANCE AtomicPublication WITH visible <- Shown, status <- Status

\* Every behaviour of the sessions, crashes and power failures included, is one
\* of AtomicPublication.
PublishesAtomically == Atomic!Spec
=============================================================================
