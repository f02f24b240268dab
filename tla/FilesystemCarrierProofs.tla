----------------------- MODULE FilesystemCarrierProofs -----------------------
(***************************************************************************)
(* Theorems about FilesystemCarrier for any number of sessions and readers *)
(* on one target, with and without asynchronous exceptions: what is        *)
(* visible is complete, a receipt and an error tell the truth, what is     *)
(* left behind is reported, and the carrier implements AtomicPublication.  *)
(***************************************************************************)
EXTENDS FilesystemCarrier, TLAPS

-----------------------------------------------------------------------------
(* The inductive invariant.                                                *)

Files == Sessions \cup {Absent, Previous}

\* What a session holds, and the state that says so.
HeldType ==
  /\ fileOpen \in [Sessions -> BOOLEAN]
  /\ temporaryKnown \in [Sessions -> BOOLEAN]
  /\ temporaries \subseteq Sessions
  /\ lifecycle \in [Sessions -> {"new", "open", "committed", "aborted",
                                 "cleanup required"}]

TypeOK ==
  /\ HeldType
  /\ call \in [Sessions -> {"open", "create", "package", "sync", "publish",
                            "clean up", "abort", "ended", "crashed"}]
  /\ content \in [Sessions -> {"none", "partial", "complete"}]
  /\ synced \subseteq Sessions
  /\ target \in Files
  /\ outcome \in [Sessions -> {"pending", "returned", "returned with issue",
                               "raised"}]
  /\ published \subseteq Sessions
  /\ interrupted \subseteq Sessions
  /\ readerState \in [Readers -> {"new", "open", "closed", "aborted",
                                  "cleanup required"}]
  /\ handle \in [Readers -> Files]

\* A name is only ever given to a file that was synced when it was complete,
\* and no file is written once it is synced.
Durable(p) ==
  /\ call[p] \in {"open", "create", "package"} => p \notin synced
  /\ call[p] \in {"sync", "publish"} => content[p] = "complete"
  /\ call[p] = "publish" => p \in synced
  /\ p \in synced => content[p] = "complete"
  /\ p \in published => p \in synced

\* What publish_package() has still to do, and what it answers, agrees with
\* whether the target was given to the session's file.
Answered(p) ==
  /\ p \in published => call[p] \in {"clean up", "abort", "ended", "crashed"}
  /\ call[p] = "clean up" => p \in published
  /\ outcome[p] \in {"returned", "returned with issue"} => p \in published
  /\ outcome[p] # "pending" => call[p] = "ended"
  /\ call[p] = "ended" => outcome[p] # "pending"
  /\ p \notin interrupted /\ call[p] = "abort" => p \notin published
  /\ p \notin interrupted /\ outcome[p] = "raised" => p \notin published

\* A session that no exception hit knows its temporary file, and its lifecycle
\* state tells what it still holds.
Accounted(p) ==
  /\ call[p] \in {"open", "create"} => ~fileOpen[p] /\ ~temporaryKnown[p]
  /\ call[p] \in {"open", "create"} => p \notin temporaries
  /\ call[p] \in {"publish", "clean up"} => ~fileOpen[p]
  /\ call[p] \in {"package", "sync", "publish"} => lifecycle[p] = "open"
  /\ call[p] = "clean up" => lifecycle[p] = "committed"
  /\ lifecycle[p] = "committed" => p \in published
  /\ lifecycle[p] = "new" => ~fileOpen[p] /\ ~temporaryKnown[p]
  /\ lifecycle[p] = "aborted" => ~fileOpen[p] /\ ~temporaryKnown[p]
  /\ p \notin interrupted /\ p \in temporaries => temporaryKnown[p]
  /\ call[p] = "ended" => lifecycle[p] \notin {"new", "open"}
  /\ outcome[p] \in {"returned", "returned with issue"} =>
       lifecycle[p] = "committed" /\ ~fileOpen[p]
  /\ outcome[p] = "returned" => ~temporaryKnown[p]

\* The target and the readers refer to published files, and whoever loses the
\* target loses it to a session that may overwrite.
Referred ==
  /\ target \in Sessions => target \in published
  /\ \A r \in Readers : handle[r] \in Sessions => handle[r] \in published
  /\ \A p \in published :
       target # p => target \in Overwriting /\ target \in published

CarrierInv ==
  /\ TypeOK
  /\ Referred
  /\ \A p \in Sessions : Durable(p) /\ Answered(p) /\ Accounted(p)
-----------------------------------------------------------------------------
(* What a discard does: it touches one session, forgets nothing the session *)
(* holds, and says in the lifecycle state what it could not remove.         *)

Discarded(p) ==
  /\ fileOpen'[p] => fileOpen[p]
  /\ temporaryKnown'[p] => temporaryKnown[p]
  /\ lifecycle'[p] \in {"aborted", "cleanup required"}
  /\ lifecycle'[p] = "aborted" => ~fileOpen'[p] /\ ~temporaryKnown'[p]
  /\ p \in temporaries' =>
       p \in temporaries /\ (temporaryKnown[p] => temporaryKnown'[p])

\* Only session p's part of the state that Discard() writes may differ.
OnlyHeldBy(p) ==
  \A q \in Sessions \ {p} :
    /\ fileOpen'[q] = fileOpen[q]
    /\ temporaryKnown'[q] = temporaryKnown[q]
    /\ lifecycle'[q] = lifecycle[q]
    /\ q \in temporaries' <=> q \in temporaries

\* _discard_unpublished(), whichever of close and unlink fails.
LEMMA DiscardFacts ==
  ASSUME NEW p \in Sessions, HeldType, Discard(p)
  PROVE  HeldType' /\ OnlyHeldBy(p) /\ Discarded(p)
<1>1. PICK closed \in BOOLEAN, unlinked \in BOOLEAN :
        /\ ~fileOpen[p] => closed
        /\ ~temporaryKnown[p] => unlinked
        /\ fileOpen' = [fileOpen EXCEPT ![p] = ~closed]
        /\ temporaryKnown' = [temporaryKnown EXCEPT ![p] = ~unlinked]
        /\ temporaries' = IF temporaryKnown[p] /\ unlinked
                            THEN temporaries \ {p} ELSE temporaries
        /\ lifecycle' =
             [lifecycle EXCEPT ![p] = IF closed /\ unlinked
                                        THEN "aborted" ELSE "cleanup required"]
  BY DEF Discard, Released
<1>2. /\ fileOpen' \in [Sessions -> BOOLEAN]
      /\ temporaryKnown' \in [Sessions -> BOOLEAN]
      /\ fileOpen'[p] = ~closed
      /\ temporaryKnown'[p] = ~unlinked
  BY <1>1 DEF HeldType
<1>3. HeldType'
  BY <1>1, <1>2 DEF HeldType
<1>4. OnlyHeldBy(p)
  BY <1>1 DEF HeldType, OnlyHeldBy
<1>5. lifecycle'[p] = IF closed /\ unlinked THEN "aborted"
                                            ELSE "cleanup required"
  BY <1>1 DEF HeldType
<1>6. /\ p \in temporaries' =>
           p \in temporaries /\ ~(temporaryKnown[p] /\ unlinked)
      /\ ~fileOpen[p] => closed
      /\ ~temporaryKnown[p] => unlinked
  BY <1>1
<1>7. Discarded(p)
  <2>1. /\ fileOpen'[p] => fileOpen[p]
        /\ temporaryKnown'[p] => temporaryKnown[p]
    BY <1>2, <1>6, Zenon
  <2>2. /\ lifecycle'[p] \in {"aborted", "cleanup required"}
        /\ lifecycle'[p] = "aborted" => closed /\ unlinked
    BY <1>5
  <2>3. lifecycle'[p] = "aborted" => ~fileOpen'[p] /\ ~temporaryKnown'[p]
    BY <1>2, <2>2, Zenon
  <2>4. p \in temporaries' =>
          p \in temporaries /\ (temporaryKnown[p] => temporaryKnown'[p])
    BY <1>2, <1>6, Zenon
  <2> QED
    BY <2>1, <2>2, <2>3, <2>4 DEF Discarded
<1> QED
  BY <1>3, <1>4, <1>7
-----------------------------------------------------------------------------
(* A step of one session leaves every other session's part of the state as *)
(* it is.                                                                  *)

StepOf(p) ==
  /\ OnlyHeldBy(p)
  /\ \A q \in Sessions \ {p} :
       /\ call'[q] = call[q]
       /\ content'[q] = content[q]
       /\ outcome'[q] = outcome[q]
       /\ q \in synced' <=> q \in synced
       /\ q \in published' <=> q \in published
       /\ q \in interrupted' <=> q \in interrupted

\* It is enough to look at the session that takes the step and at the target.
LEMMA OneSession ==
  ASSUME CarrierInv, NEW p \in Sessions, StepOf(p), TypeOK', Referred',
         Durable(p)', Answered(p)', Accounted(p)'
  PROVE  CarrierInv'
<1>1. ASSUME NEW q \in Sessions \ {p}
      PROVE  Durable(q)' /\ Answered(q)' /\ Accounted(q)'
  <2>1. Durable(q) /\ Answered(q) /\ Accounted(q)
    BY DEF CarrierInv
  <2>2. Durable(q)'
    BY <2>1 DEF Durable, StepOf
  <2>3. Answered(q)'
    BY <2>1 DEF Answered, StepOf
  <2>4. Accounted(q)'
    BY <2>1 DEF CarrierInv, TypeOK, HeldType, Accounted, StepOf, OnlyHeldBy
  <2> QED
    BY <2>2, <2>3, <2>4
<1> QED
  BY <1>1 DEF CarrierInv

-----------------------------------------------------------------------------
(* The invariant holds initially and is preserved by every step.           *)

\* No session has begun, and the target is what was there before.
LEMMA CarrierInvInit == Init => CarrierInv
BY CarrierAssumption
DEF Init, CarrierInv, TypeOK, Referred, Durable, Answered, Accounted, Files,
    HeldType

\* open() has made nothing yet, so that a refusal leaves nothing to remove.
LEMMA CheckTargetPreserves ==
  ASSUME CarrierInv, NEW p \in Sessions, CheckTarget(p)
  PROVE  CarrierInv' /\ StepOf(p)
<1>0. TypeOK
  BY DEF CarrierInv
<1>1. HeldType
  BY <1>0 DEF TypeOK, HeldType
<1>2. Durable(p) /\ Answered(p) /\ Accounted(p) /\ Referred /\ TypeOK
  BY DEF CarrierInv
<1>3. HeldType'
  BY <1>1, DiscardFacts
  DEF HeldType, CheckTarget, GoTo, readerVars, MayCreate, FailAndDiscard
<1>4. TypeOK'
  BY <1>0, <1>3
  DEF TypeOK, Files, CheckTarget, GoTo, readerVars, MayCreate, FailAndDiscard
<1>5. StepOf(p)
  <2>1. CASE FailAndDiscard(p)
    BY <1>1, <1>2, <2>1, DiscardFacts
    DEF TypeOK, StepOf, CheckTarget, GoTo, readerVars, MayCreate,
        FailAndDiscard
  <2>2. CASE ~FailAndDiscard(p)
    BY <1>1, <1>2, <2>2
    DEF TypeOK, HeldType, StepOf, OnlyHeldBy, CheckTarget, GoTo, readerVars,
        MayCreate
  <2> QED
    BY <2>1, <2>2
<1>6. Referred'
  BY <1>2, CarrierAssumption
  DEF TypeOK, Files, Referred, Durable, Answered, CheckTarget, GoTo,
      readerVars, MayCreate, FailAndDiscard
<1>7. Durable(p)' /\ Answered(p)'
  BY <1>2
  DEF TypeOK, Durable, Answered, CheckTarget, GoTo, readerVars, MayCreate,
      FailAndDiscard
<1>8. Accounted(p)'
  <2>1. CASE FailAndDiscard(p)
    BY <1>1, <1>2, <2>1, DiscardFacts
    DEF TypeOK, Discarded, Accounted, Answered, FailAndDiscard, GoTo,
        CheckTarget
  <2>2. CASE ~FailAndDiscard(p)
    <3>1. /\ call[p] = "open" /\ call'[p] = "create"
          /\ UNCHANGED <<lifecycle, fileOpen, temporaryKnown, temporaries,
                         published, outcome, interrupted>>
      BY <1>0, <2>2 DEF TypeOK, GoTo, CheckTarget
    <3> QED
      BY <1>2, <3>1, Zenon DEF Accounted
  <2> QED
    BY <2>1, <2>2
<1> QED
  BY <1>4, <1>5, <1>6, <1>7, <1>8, OneSession

\* A session that gets its temporary file knows it from then on.
LEMMA CreateTemporaryPreserves ==
  ASSUME CarrierInv, NEW p \in Sessions, CreateTemporary(p)
  PROVE  CarrierInv' /\ StepOf(p)
<1>0. TypeOK
  BY DEF CarrierInv
<1>1. HeldType
  BY <1>0 DEF TypeOK, HeldType
<1>2. Durable(p) /\ Answered(p) /\ Accounted(p) /\ Referred /\ TypeOK
  BY DEF CarrierInv
<1>3. HeldType'
  BY <1>1, DiscardFacts
  DEF HeldType, CreateTemporary, GoTo, readerVars, FailAndDiscard
<1>4. TypeOK'
  BY <1>0, <1>3
  DEF TypeOK, Files, CreateTemporary, GoTo, readerVars, FailAndDiscard
<1>5. StepOf(p)
  <2>1. CASE FailAndDiscard(p)
    BY <1>1, <1>2, <2>1, DiscardFacts
    DEF TypeOK, StepOf, CreateTemporary, GoTo, readerVars, FailAndDiscard
  <2>2. CASE ~FailAndDiscard(p)
    <3>1. /\ fileOpen' = [fileOpen EXCEPT ![p] = TRUE]
          /\ temporaryKnown' = [temporaryKnown EXCEPT ![p] = TRUE]
          /\ lifecycle' = [lifecycle EXCEPT ![p] = "open"]
          /\ temporaries' = temporaries \cup {p}
      BY <2>2 DEF CreateTemporary
    <3>2. OnlyHeldBy(p)
      BY <1>1, <3>1 DEF HeldType, OnlyHeldBy
    <3> QED
      BY <1>2, <2>2, <3>2 DEF TypeOK, StepOf, CreateTemporary, GoTo, readerVars
  <2> QED
    BY <2>1, <2>2
<1>6. Referred'
  BY <1>2, CarrierAssumption
  DEF TypeOK, Files, Referred, Durable, Answered, CreateTemporary, GoTo,
      readerVars, FailAndDiscard
<1>7. Durable(p)' /\ Answered(p)'
  BY <1>2
  DEF TypeOK, Durable, Answered, CreateTemporary, GoTo, readerVars,
      FailAndDiscard
<1>8. Accounted(p)'
  <2>1. CASE FailAndDiscard(p)
    BY <1>1, <1>2, <2>1, DiscardFacts
    DEF TypeOK, Discarded, Accounted, Answered, FailAndDiscard, GoTo,
        CreateTemporary
  <2>2. CASE ~FailAndDiscard(p)
    <3>1. /\ call'[p] = "package" /\ lifecycle'[p] = "open"
          /\ temporaryKnown'[p]
          /\ call[p] = "create" /\ outcome'[p] = outcome[p]
      BY <1>0, <2>2 DEF TypeOK, HeldType, GoTo, CreateTemporary
    <3> QED
      BY <1>2, <3>1, Zenon DEF Accounted, Answered
  <2> QED
    BY <2>1, <2>2
<1> QED
  BY <1>4, <1>5, <1>6, <1>7, <1>8, OneSession

\* The file nobody knows belongs to a session that an exception hit.
LEMMA InterruptedCreatePreserves ==
  ASSUME CarrierInv, NEW p \in Sessions, InterruptedCreate(p)
  PROVE  CarrierInv' /\ StepOf(p)
<1>1. HeldType
  BY DEF CarrierInv, TypeOK, HeldType
<1>2. Durable(p) /\ Answered(p) /\ Accounted(p) /\ Referred /\ TypeOK
  BY DEF CarrierInv
<1>3. TypeOK'
  BY <1>2, CarrierAssumption
  DEF TypeOK, HeldType, Files, InterruptedCreate, GoTo, readerVars
<1>4. StepOf(p)
  BY <1>1, <1>2, CarrierAssumption
  DEF TypeOK, HeldType, StepOf, OnlyHeldBy, InterruptedCreate, GoTo, readerVars
<1>5. Referred'
  BY <1>2, CarrierAssumption
  DEF TypeOK, Files, Referred, Durable, Answered, InterruptedCreate, GoTo,
      readerVars
<1>6. Durable(p)' /\ Answered(p)'
  BY <1>2 DEF TypeOK, Durable, Answered, InterruptedCreate, GoTo, readerVars
<1>7. Accounted(p)'
  BY <1>1, <1>2, Zenon
  DEF TypeOK, HeldType, Discarded, Accounted, Answered, InterruptedCreate,
      GoTo, readerVars
<1> QED
  BY <1>3, <1>4, <1>5, <1>6, <1>7, OneSession

\* Writing touches only a file that was never synced or published.
LEMMA WritePackagePreserves ==
  ASSUME CarrierInv, NEW p \in Sessions, WritePackage(p)
  PROVE  CarrierInv' /\ StepOf(p)
<1>0. TypeOK
  BY DEF CarrierInv
<1>1. HeldType
  BY <1>0 DEF TypeOK, HeldType
<1>2. Durable(p) /\ Answered(p) /\ Accounted(p) /\ Referred /\ TypeOK
  BY DEF CarrierInv
<1>3. TypeOK'
  BY <1>0
  DEF TypeOK, HeldType, Files, WritePackage, GoTo, readerVars
<1>4. StepOf(p)
  <2>1. OnlyHeldBy(p)
    BY DEF OnlyHeldBy, WritePackage
  <2> QED
    BY <1>0, <2>1 DEF TypeOK, StepOf, WritePackage, GoTo
<1>5. Referred'
  BY <1>2, CarrierAssumption
  DEF TypeOK, Files, Referred, Durable, Answered, WritePackage, GoTo,
      readerVars
<1>6. Durable(p)' /\ Answered(p)'
  BY <1>2 DEF TypeOK, Durable, Answered, WritePackage, GoTo, readerVars
<1>7. Accounted(p)'
  BY <1>1, <1>2, Zenon
  DEF TypeOK, HeldType, Discarded, Accounted, Answered, WritePackage, GoTo,
      readerVars
<1> QED
  BY <1>3, <1>4, <1>5, <1>6, <1>7, OneSession

\* Only complete content reaches the fsync, and only what it made durable goes
\* on to publication.
LEMMA SyncTemporaryPreserves ==
  ASSUME CarrierInv, NEW p \in Sessions, SyncTemporary(p)
  PROVE  CarrierInv' /\ StepOf(p)
<1>0. TypeOK
  BY DEF CarrierInv
<1>1. HeldType
  BY <1>0 DEF TypeOK, HeldType
<1>2. Durable(p) /\ Answered(p) /\ Accounted(p) /\ Referred /\ TypeOK
  BY DEF CarrierInv
<1>3. HeldType'
  BY <1>1, DiscardFacts
  DEF HeldType, SyncTemporary, GoTo, readerVars, Fsynced, FailAndDiscard
<1>4. TypeOK'
  BY <1>0, <1>3
  DEF TypeOK, Files, SyncTemporary, GoTo, readerVars, Fsynced, FailAndDiscard
<1>5. StepOf(p)
  <2>1. CASE FailAndDiscard(p)
    BY <1>1, <1>2, <2>1, DiscardFacts
    DEF TypeOK, StepOf, SyncTemporary, GoTo, readerVars, Fsynced,
        FailAndDiscard
  <2>2. CASE ~FailAndDiscard(p)
    <3>1. /\ fileOpen' = [fileOpen EXCEPT ![p] = FALSE]
          /\ UNCHANGED <<lifecycle, temporaryKnown, temporaries>>
      BY <2>2 DEF SyncTemporary
    <3>2. OnlyHeldBy(p)
      BY <1>1, <3>1 DEF HeldType, OnlyHeldBy
    <3> QED
      BY <1>0, <2>2, <3>2 DEF TypeOK, StepOf, SyncTemporary, GoTo, Fsynced
  <2> QED
    BY <2>1, <2>2
<1>6. Referred'
  BY <1>2, CarrierAssumption
  DEF TypeOK, Files, Referred, Durable, Answered, SyncTemporary, GoTo,
      readerVars, Fsynced, FailAndDiscard
<1>7. Durable(p)' /\ Answered(p)'
  BY <1>2
  DEF TypeOK, Durable, Answered, SyncTemporary, GoTo, readerVars, Fsynced,
      FailAndDiscard
<1>8. Accounted(p)'
  <2>1. CASE FailAndDiscard(p)
    BY <1>1, <1>2, <2>1, DiscardFacts
    DEF TypeOK, Discarded, Accounted, Answered, FailAndDiscard, GoTo,
        SyncTemporary
  <2>2. CASE ~FailAndDiscard(p)
    <3>1. /\ call[p] = "sync" /\ call'[p] = "publish" /\ ~fileOpen'[p]
          /\ UNCHANGED <<lifecycle, temporaryKnown, temporaries, published,
                         outcome, interrupted>>
      BY <1>0, <2>2 DEF TypeOK, HeldType, GoTo, SyncTemporary
    <3> QED
      BY <1>2, <3>1, Zenon DEF Accounted, Answered
  <2> QED
    BY <2>1, <2>2
<1> QED
  BY <1>4, <1>5, <1>6, <1>7, <1>8, OneSession

\* Either the synced file takes the name and the session is committed, or
\* everything the session holds is discarded.
LEMMA PublishFilePreserves ==
  ASSUME CarrierInv, NEW p \in Sessions, PublishFile(p)
  PROVE  CarrierInv' /\ StepOf(p)
<1>0. TypeOK
  BY DEF CarrierInv
<1>1. HeldType
  BY <1>0 DEF TypeOK, HeldType
<1>2. Durable(p) /\ Answered(p) /\ Accounted(p) /\ Referred /\ TypeOK
  BY DEF CarrierInv
<1>3. HeldType'
  BY <1>1, DiscardFacts
  DEF HeldType, PublishFile, GoTo, readerVars, MakeVisible, MayPublish,
      FailAndDiscard
<1>4. TypeOK'
  BY <1>0, <1>3
  DEF TypeOK, Files, PublishFile, GoTo, readerVars, MakeVisible, MayPublish,
      FailAndDiscard
<1>5. StepOf(p)
  <2>1. CASE FailAndDiscard(p)
    BY <1>1, <1>2, <2>1, DiscardFacts
    DEF TypeOK, StepOf, PublishFile, GoTo, readerVars, MakeVisible,
        MayPublish, FailAndDiscard
  <2>2. CASE ~FailAndDiscard(p)
    <3>1. /\ fileOpen' = fileOpen
          /\ lifecycle' = [lifecycle EXCEPT ![p] = "committed"]
          /\ \/ /\ temporaries' = temporaries \ {p}
                /\ temporaryKnown' = [temporaryKnown EXCEPT ![p] = FALSE]
             \/ UNCHANGED <<temporaries, temporaryKnown>>
      BY <2>2 DEF PublishFile
    <3>2. OnlyHeldBy(p)
      BY <1>1, <3>1 DEF HeldType, OnlyHeldBy
    <3> QED
      BY <1>2, <2>2, <3>2
      DEF TypeOK, StepOf, PublishFile, GoTo, readerVars, MakeVisible,
          MayPublish
  <2> QED
    BY <2>1, <2>2
<1>6. Referred'
  <2>1. /\ handle' = handle
        /\ \/ UNCHANGED <<target, published>>
           \/ target' = p /\ published' = published \cup {p} /\ MayPublish(p)
    BY DEF PublishFile, MakeVisible, readerVars
  <2> QED
    BY <1>2, <2>1, CarrierAssumption DEF TypeOK, Files, Referred, MayPublish
<1>7. Durable(p)' /\ Answered(p)'
  BY <1>2
  DEF TypeOK, Durable, Answered, PublishFile, GoTo, readerVars, MakeVisible,
      MayPublish, FailAndDiscard
<1>8. Accounted(p)'
  <2>1. CASE FailAndDiscard(p)
    BY <1>1, <1>2, <2>1, DiscardFacts
    DEF TypeOK, Discarded, Accounted, Answered, FailAndDiscard, GoTo,
        PublishFile, MakeVisible
  <2>2. CASE ~FailAndDiscard(p)
    <3>1. /\ call[p] = "publish"
          /\ call'[p] = "clean up" /\ lifecycle'[p] = "committed"
          /\ p \in published'
          /\ fileOpen'[p] = fileOpen[p]
          /\ outcome'[p] = outcome[p]
          /\ interrupted' = interrupted
      BY <1>0, <2>2 DEF TypeOK, HeldType, GoTo, PublishFile, MakeVisible
    <3>2. p \in temporaries' =>
            /\ p \in temporaries
            /\ temporaryKnown'[p] = temporaryKnown[p]
      <4>1. \/ temporaries' = temporaries \ {p}
            \/ UNCHANGED <<temporaries, temporaryKnown>>
        BY <2>2 DEF PublishFile
      <4> QED
        BY <4>1
    <3> QED
      BY <1>2, <3>1, <3>2, Zenon DEF Accounted, Answered
  <2> QED
    BY <2>1, <2>2
<1> QED
  BY <1>4, <1>5, <1>6, <1>7, <1>8, OneSession

\* The session is published and fails: the exception is on record.
LEMMA InterruptedPublishPreserves ==
  ASSUME CarrierInv, NEW p \in Sessions, InterruptedPublish(p)
  PROVE  CarrierInv' /\ StepOf(p)
<1>1. HeldType
  BY DEF CarrierInv, TypeOK, HeldType
<1>2. Durable(p) /\ Answered(p) /\ Accounted(p) /\ Referred /\ TypeOK
  BY DEF CarrierInv
<1>3. HeldType'
  BY <1>1, DiscardFacts
  DEF HeldType, InterruptedPublish, GoTo, readerVars, MakeVisible, MayPublish,
      FailAndDiscard
<1>4. TypeOK'
  BY <1>3, <1>2, CarrierAssumption
  DEF TypeOK, Files, InterruptedPublish, GoTo, readerVars, MakeVisible,
      MayPublish, FailAndDiscard
<1>5. StepOf(p)
  BY <1>1, <1>2, DiscardFacts, CarrierAssumption
  DEF TypeOK, HeldType, StepOf, OnlyHeldBy, InterruptedPublish, GoTo,
      readerVars, MakeVisible, MayPublish, FailAndDiscard
<1>6. Referred'
  BY <1>2, CarrierAssumption
  DEF TypeOK, Files, Referred, Durable, Answered, InterruptedPublish, GoTo,
      readerVars, MakeVisible, MayPublish, FailAndDiscard
<1>7. Durable(p)' /\ Answered(p)'
  BY <1>2
  DEF TypeOK, Durable, Answered, InterruptedPublish, GoTo, readerVars,
      MakeVisible, MayPublish, FailAndDiscard
<1>8. Accounted(p)'
  BY <1>1, <1>2, DiscardFacts, Zenon
  DEF TypeOK, HeldType, Discarded, Accounted, Answered, InterruptedPublish,
      GoTo, readerVars, MakeVisible, MayPublish, FailAndDiscard
<1> QED
  BY <1>4, <1>5, <1>6, <1>7, <1>8, OneSession

\* The receipt says whether the temporary name is gone.
LEMMA CleanUpPreserves ==
  ASSUME CarrierInv, NEW p \in Sessions, CleanUp(p)
  PROVE  CarrierInv' /\ StepOf(p)
<1>0. TypeOK
  BY DEF CarrierInv
<1>1. HeldType
  BY <1>0 DEF TypeOK, HeldType
<1>2. Durable(p) /\ Answered(p) /\ Accounted(p) /\ Referred /\ TypeOK
  BY DEF CarrierInv
<1>3. TypeOK'
  BY <1>0
  DEF TypeOK, HeldType, Files, CleanUp, GoTo, readerVars, Receipt
<1>4. StepOf(p)
  BY <1>1, <1>2, CarrierAssumption
  DEF TypeOK, HeldType, StepOf, OnlyHeldBy, CleanUp, GoTo, readerVars, Receipt
<1>5. Referred'
  BY <1>2, CarrierAssumption
  DEF TypeOK, Files, Referred, Durable, Answered, CleanUp, GoTo, readerVars,
      Receipt
<1>6. Durable(p)' /\ Answered(p)'
  BY <1>2 DEF TypeOK, Durable, Answered, CleanUp, GoTo, readerVars, Receipt
<1>7. Accounted(p)'
  BY <1>1, <1>2, Zenon
  DEF TypeOK, HeldType, Discarded, Accounted, Answered, CleanUp, GoTo,
      readerVars, Receipt
<1> QED
  BY <1>3, <1>4, <1>5, <1>6, <1>7, OneSession

\* A published session that fails here was hit by an exception.
LEMMA InterruptedCleanUpPreserves ==
  ASSUME CarrierInv, NEW p \in Sessions, InterruptedCleanUp(p)
  PROVE  CarrierInv' /\ StepOf(p)
<1>1. HeldType
  BY DEF CarrierInv, TypeOK, HeldType
<1>2. Durable(p) /\ Answered(p) /\ Accounted(p) /\ Referred /\ TypeOK
  BY DEF CarrierInv
<1>3. TypeOK'
  BY <1>2, CarrierAssumption
  DEF TypeOK, HeldType, Files, InterruptedCleanUp, GoTo, readerVars
<1>4. StepOf(p)
  BY <1>1, <1>2, CarrierAssumption
  DEF TypeOK, HeldType, StepOf, OnlyHeldBy, InterruptedCleanUp, GoTo,
      readerVars
<1>5. Referred'
  BY <1>2, CarrierAssumption
  DEF TypeOK, Files, Referred, Durable, Answered, InterruptedCleanUp, GoTo,
      readerVars
<1>6. Durable(p)' /\ Answered(p)'
  BY <1>2 DEF TypeOK, Durable, Answered, InterruptedCleanUp, GoTo, readerVars
<1>7. Accounted(p)'
  BY <1>1, <1>2, Zenon
  DEF TypeOK, HeldType, Discarded, Accounted, Answered, InterruptedCleanUp,
      GoTo, readerVars
<1> QED
  BY <1>3, <1>4, <1>5, <1>6, <1>7, OneSession

\* A committed session has published, so that an exception led here; any other
\* is discarded before the error is raised.
LEMMA AbortOncePreserves ==
  ASSUME CarrierInv, NEW p \in Sessions, AbortOnce(p)
  PROVE  CarrierInv' /\ StepOf(p)
<1>0. TypeOK
  BY DEF CarrierInv
<1>1. HeldType
  BY <1>0 DEF TypeOK, HeldType
<1>2. Durable(p) /\ Answered(p) /\ Accounted(p) /\ Referred /\ TypeOK
  BY DEF CarrierInv
<1>3. HeldType'
  BY <1>1, DiscardFacts DEF HeldType, AbortOnce, GoTo, readerVars
<1>4. TypeOK'
  BY <1>0, <1>3
  DEF TypeOK, Files, AbortOnce, GoTo, readerVars
<1>5. StepOf(p)
  <2>1. OnlyHeldBy(p)
    <3>1. CASE Discard(p)
      BY <1>1, <3>1, DiscardFacts
    <3>2. CASE ~Discard(p)
      BY <1>1, <3>2 DEF HeldType, OnlyHeldBy, AbortOnce
    <3> QED
      BY <3>1, <3>2
  <2> QED
    BY <1>0, <2>1 DEF TypeOK, StepOf, AbortOnce, GoTo
<1>6. Referred'
  BY <1>2, CarrierAssumption
  DEF TypeOK, Files, Referred, Durable, Answered, AbortOnce, GoTo, readerVars
<1>7. Durable(p)' /\ Answered(p)'
  BY <1>2 DEF TypeOK, Durable, Answered, AbortOnce, GoTo, readerVars
<1>8. Accounted(p)'
  BY <1>1, <1>2, DiscardFacts, Zenon
  DEF TypeOK, HeldType, Discarded, Accounted, Answered, AbortOnce, GoTo,
      readerVars
<1> QED
  BY <1>4, <1>5, <1>6, <1>7, <1>8, OneSession

\* A repeated abort() only removes more.
LEMMA AbortAgainPreserves ==
  ASSUME CarrierInv, NEW p \in Sessions, AbortAgain(p)
  PROVE  CarrierInv' /\ StepOf(p)
<1>1. HeldType
  BY DEF CarrierInv, TypeOK, HeldType
<1>2. Durable(p) /\ Answered(p) /\ Accounted(p) /\ Referred /\ TypeOK
  BY DEF CarrierInv
<1>3. HeldType'
  BY <1>1, DiscardFacts DEF HeldType, AbortAgain, GoTo, readerVars
<1>4. TypeOK'
  BY <1>3, <1>2, CarrierAssumption
  DEF TypeOK, Files, AbortAgain, GoTo, readerVars
<1>5. StepOf(p)
  BY <1>1, <1>2, DiscardFacts, CarrierAssumption
  DEF TypeOK, StepOf, AbortAgain, GoTo, readerVars
<1>6. Referred'
  BY <1>2, CarrierAssumption
  DEF TypeOK, Files, Referred, Durable, Answered, AbortAgain, GoTo, readerVars
<1>7. Durable(p)' /\ Answered(p)'
  BY <1>2 DEF TypeOK, Durable, Answered, AbortAgain, GoTo, readerVars
<1>8. Accounted(p)'
  BY <1>1, <1>2, DiscardFacts, Zenon
  DEF TypeOK, HeldType, Discarded, Accounted, Answered, AbortAgain, GoTo,
      readerVars
<1> QED
  BY <1>4, <1>5, <1>6, <1>7, <1>8, OneSession

\* A dead process changes nothing in the directory.
LEMMA CrashPreserves ==
  ASSUME CarrierInv, NEW p \in Sessions, Crash(p)
  PROVE  CarrierInv' /\ StepOf(p)
<1>1. HeldType
  BY DEF CarrierInv, TypeOK, HeldType
<1>2. Durable(p) /\ Answered(p) /\ Accounted(p) /\ Referred /\ TypeOK
  BY DEF CarrierInv
<1>3. TypeOK'
  BY <1>2, CarrierAssumption
  DEF TypeOK, HeldType, Files, Crash, GoTo, readerVars, InProgress
<1>4. StepOf(p)
  BY <1>1, <1>2, CarrierAssumption
  DEF TypeOK, HeldType, StepOf, OnlyHeldBy, Crash, GoTo, readerVars, InProgress
<1>5. Referred'
  BY <1>2, CarrierAssumption
  DEF TypeOK, Files, Referred, Durable, Answered, Crash, GoTo, readerVars,
      InProgress
<1>6. Durable(p)' /\ Answered(p)'
  BY <1>2 DEF TypeOK, Durable, Answered, Crash, GoTo, readerVars, InProgress
<1>7. Accounted(p)'
  BY <1>1, <1>2, Zenon
  DEF TypeOK, HeldType, Discarded, Accounted, Answered, Crash, GoTo,
      readerVars, InProgress
<1> QED
  BY <1>3, <1>4, <1>5, <1>6, <1>7, OneSession

\* A reader keeps the file it opened, and writes nothing.
LEMMA ReaderPreserves ==
  ASSUME CarrierInv, NEW r \in Readers, OpenInput(r) \/ CloseInput(r)
  PROVE  CarrierInv'
<1>1. /\ UNCHANGED publisherVars
      /\ TypeOK /\ Referred
      /\ \/ handle' = handle
         \/ handle' = [handle EXCEPT ![r] = target]
         \/ handle' = [handle EXCEPT ![r] = Absent]
  BY DEF CarrierInv, OpenInput, CloseInput
<1>2. Referred'
  BY <1>1, CarrierAssumption DEF publisherVars, Referred, TypeOK
<1>3. readerState' \in [Readers -> {"new", "open", "closed", "aborted",
                                   "cleanup required"}]
  <2>1. PICK state \in {"open", "closed", "aborted", "cleanup required"} :
          readerState' = [readerState EXCEPT ![r] = state]
    BY DEF OpenInput, CloseInput
  <2> QED
    BY <1>1, <2>1 DEF TypeOK
<1>4. TypeOK'
  <2>1. handle' \in [Readers -> Files]
    BY <1>1 DEF TypeOK, Files
  <2> QED
    BY <1>1, <1>3, <2>1, Zenon DEF TypeOK, HeldType, publisherVars
<1>5. ASSUME NEW p \in Sessions
      PROVE  (Durable(p) /\ Answered(p) /\ Accounted(p))'
  <2>1. Durable(p) /\ Answered(p) /\ Accounted(p)
    BY DEF CarrierInv
  <2> QED
    BY <1>1, <2>1, Zenon DEF publisherVars, Durable, Answered, Accounted
<1> QED
  BY <1>5, <1>2, <1>4 DEF CarrierInv

\* A session under way stops where it is, and content that was synced stays.
LEMMA PowerFailurePreserves ==
  ASSUME CarrierInv, PowerFailure
  PROVE  CarrierInv'
<1>1. TypeOK' /\ Referred'
  BY DEF CarrierInv, PowerFailure, InProgress, readerVars, TypeOK, HeldType,
         Files, Referred
<1>2. ASSUME NEW p \in Sessions
      PROVE  (Durable(p) /\ Answered(p) /\ Accounted(p))'
  <2>1. Durable(p) /\ Answered(p) /\ Accounted(p) /\ TypeOK
    BY DEF CarrierInv
  <2>2. /\ call'[p] \in {call[p], "crashed"}
        /\ call'[p] = call[p] => call[p] \in {"open", "ended", "crashed"}
        /\ p \in synced => content'[p] = content[p]
        /\ UNCHANGED <<lifecycle, fileOpen, temporaryKnown, temporaries,
                       synced, outcome, published, interrupted>>
    BY <2>1 DEF TypeOK, PowerFailure, InProgress
  <2>3. Durable(p)'
    BY <2>1, <2>2 DEF Durable
  <2>4. Answered(p)'
    BY <2>1, <2>2 DEF Answered, TypeOK, PowerFailure, InProgress
  <2>5. Accounted(p)'
    BY <2>1, <2>2, Zenon DEF Accounted
  <2> QED
    BY <2>3, <2>4, <2>5
<1> QED
  BY <1>1, <1>2 DEF CarrierInv

\* A step of a session, whichever it is.
LEMMA SessionPreserves ==
  ASSUME CarrierInv, NEW p \in Sessions,
         Publisher(p) \/ AbortAgain(p) \/ Crash(p)
  PROVE  CarrierInv' /\ StepOf(p)
BY CheckTargetPreserves, CreateTemporaryPreserves, InterruptedCreatePreserves,
   WritePackagePreserves, SyncTemporaryPreserves, PublishFilePreserves,
   InterruptedPublishPreserves, CleanUpPreserves, InterruptedCleanUpPreserves,
   AbortOncePreserves, AbortAgainPreserves, CrashPreserves
DEF Publisher

\* Every step preserves the invariant.
LEMMA CarrierInvNext == CarrierInv /\ [Next]_vars => CarrierInv'
<1> SUFFICES ASSUME CarrierInv, [Next]_vars
             PROVE  CarrierInv'
  OBVIOUS
<1>1. ASSUME NEW p \in Sessions, Publisher(p) \/ AbortAgain(p) \/ Crash(p)
      PROVE  CarrierInv'
  BY <1>1, SessionPreserves
<1>2. ASSUME NEW r \in Readers, OpenInput(r) \/ CloseInput(r)
      PROVE  CarrierInv'
  BY <1>2, ReaderPreserves
<1>3. CASE PowerFailure
  BY <1>3, PowerFailurePreserves
<1>4. CASE UNCHANGED vars
  <2>1. TypeOK' /\ Referred'
    BY <1>4 DEF CarrierInv, vars, publisherVars, readerVars, TypeOK, HeldType,
                Referred
  <2>2. ASSUME NEW p \in Sessions
        PROVE  (Durable(p) /\ Answered(p) /\ Accounted(p))'
    BY <1>4, Zenon
    DEF CarrierInv, vars, publisherVars, Durable, Answered, Accounted
  <2> QED
    BY <2>1, <2>2 DEF CarrierInv
<1> QED
  BY <1>1, <1>2, <1>3, <1>4 DEF Next

\* Every reachable state of the carrier satisfies the inductive invariant.
THEOREM CarrierIsSound == Spec => []CarrierInv
<1>1. Init => CarrierInv
  BY CarrierInvInit
<1>2. CarrierInv /\ [Next]_vars => CarrierInv'
  BY CarrierInvNext
<1> QED
  BY <1>1, <1>2, PTL DEF Spec

-----------------------------------------------------------------------------
(* The safety properties.                                                  *)

\* Whatever the sessions, crashes, exceptions and power failures, the target
\* and every open reader have a complete container: _publish_file() runs only
\* after the fsync of what write_to() completed.
THEOREM VisibleIsComplete == Spec => []OnlyCompleteVisible
<1>1. CarrierInv => OnlyCompleteVisible
  BY DEF CarrierInv, Referred, Durable, OnlyCompleteVisible
<1> QED
  BY <1>1, CarrierIsSound, PTL

\* A receipt is given only for a file that the target did refer to, and only a
\* session that may overwrite has replaced it.
THEOREM ReceiptsAreTrue == Spec => []ReceiptMeansPublished
<1>1. CarrierInv => ReceiptMeansPublished
  BY DEF CarrierInv, Referred, Answered, ReceiptMeansPublished
<1> QED
  BY <1>1, CarrierIsSound, PTL

\* A session that ended without being interrupted owns up to the temporary
\* file or the handle it left, in its receipt or in its state.
THEOREM ResidueIsAlwaysReported == Spec => []ResidueIsReported
<1>1. CarrierInv => ResidueIsReported
  <2> SUFFICES ASSUME CarrierInv, NEW p \in Sessions \ interrupted,
                      call[p] = "ended", p \in temporaries \/ fileOpen[p]
               PROVE  \/ outcome[p] = "returned with issue"
                      \/ lifecycle[p] = "cleanup required"
    BY DEF ResidueIsReported
  <2>1. /\ Answered(p) /\ Accounted(p)
        /\ outcome[p] \in {"pending", "returned", "returned with issue",
                           "raised"}
        /\ lifecycle[p] \in {"new", "open", "committed", "aborted",
                             "cleanup required"}
    BY DEF CarrierInv, TypeOK, HeldType
  <2>2. fileOpen[p] \/ temporaryKnown[p]
    BY <2>1, Zenon DEF Accounted
  <2>3. CASE outcome[p] = "returned"
    BY <2>1, <2>2, <2>3, Zenon DEF Accounted
  <2>4. CASE outcome[p] = "raised"
    BY <2>1, <2>2, <2>4, Zenon DEF Answered, Accounted
  <2> QED
    BY <2>1, <2>3, <2>4 DEF Answered
<1> QED
  BY <1>1, CarrierIsSound, PTL

\* publish_package() raises only when the target never referred to the
\* session's file, asynchronous exceptions apart.
THEOREM FailuresAreTrue == Spec => []FailureMeansUnpublished
<1>1. CarrierInv => FailureMeansUnpublished
  BY DEF CarrierInv, Answered, FailureMeansUnpublished
<1> QED
  BY <1>1, CarrierIsSound, PTL
\* Where no asynchronous exception can arrive, a carrier never reports a failure
\* after its target became visible: the exception is the only way there.
THEOREM WithoutInterruptsNoFailureOnceVisible ==
  ASSUME ~Interrupts
  PROVE  Spec => []NoFailureOnceVisible
<1> DEFINE Undisturbed == CarrierInv /\ interrupted = {}
<1>1. Init => Undisturbed
  BY CarrierInvInit DEF Init
<1>2. Undisturbed /\ [Next]_vars => Undisturbed'
  <2> SUFFICES ASSUME Undisturbed, [Next]_vars
               PROVE  interrupted' = interrupted
    BY CarrierInvNext
  <2> QED
    BY DEF vars, publisherVars, Next, Publisher, CheckTarget, CreateTemporary,
           InterruptedCreate, WritePackage, SyncTemporary, PublishFile,
           InterruptedPublish, CleanUp, InterruptedCleanUp, AbortOnce,
           AbortAgain, Crash, OpenInput, CloseInput, PowerFailure
<1>3. Undisturbed => NoFailureOnceVisible
  BY DEF CarrierInv, Answered, NoFailureOnceVisible
<1> QED
  BY <1>1, <1>2, <1>3, PTL DEF Spec

-----------------------------------------------------------------------------
(* Refinement: under the invariant what is shown is the target, and every  *)
(* step publishes one session's file, refuses sessions, or changes nothing *)
(* that AtomicPublication sees.                                            *)

\* The target never shows a torn file.
LEMMA ShownIsTarget ==
  /\ CarrierInv => Shown = target
  /\ CarrierInv' => Shown' = target'
<1>1. CarrierInv => Shown = target
  BY DEF CarrierInv, Referred, Durable, Shown
<1>2. CarrierInv' => Shown' = target'
  BY DEF CarrierInv, Referred, Durable, Shown
<1> QED
  BY <1>1, <1>2

\* What a session's step means for the target and for the session's status.
LEMMA SessionEffect ==
  ASSUME CarrierInv, NEW p \in Sessions,
         Publisher(p) \/ AbortAgain(p) \/ Crash(p)
  PROVE  \/ MakeVisible(p)
         \/ /\ UNCHANGED <<target, published>>
            /\ call[p] \in {"ended", "crashed"} => call'[p] = call[p]
<1>1. call \in [Sessions -> {"open", "create", "package", "sync", "publish",
                             "clean up", "abort", "ended", "crashed"}]
  BY DEF CarrierInv, TypeOK
<1> QED
  BY <1>1
  DEF Publisher, CheckTarget, CreateTemporary, InterruptedCreate, WritePackage,
      SyncTemporary, PublishFile, InterruptedPublish, CleanUp,
      InterruptedCleanUp, AbortOnce, AbortAgain, Crash, InProgress

\* The session that makes its file visible publishes.
LEMMA VisibleIsPublish ==
  ASSUME CarrierInv, NEW p \in Sessions, MakeVisible(p), CarrierInv', StepOf(p)
  PROVE  Atomic!Publish(p)
<1>1. /\ Answered(p)
      /\ call \in [Sessions -> {"open", "create", "package", "sync", "publish",
                                "clean up", "abort", "ended", "crashed"}]
  BY DEF CarrierInv, TypeOK
<1>2. Status[p] = "pending"
  BY <1>1 DEF MakeVisible, Status, Answered
<1>3. Shown = target /\ Shown' = p
  BY ShownIsTarget DEF MakeVisible
<1>4. Shown = Absent \/ p \in Overwriting
  BY <1>3 DEF MakeVisible, MayPublish
<1>5. Status' = [Status EXCEPT ![p] = "published"]
  BY DEF MakeVisible, Status, StepOf
<1> QED
  BY <1>2, <1>3, <1>4, <1>5 DEF Atomic!Publish

\* Any other step of a session refuses it, or leaves its status alone.
LEMMA HiddenIsRefuse ==
  ASSUME CarrierInv, NEW p \in Sessions, CarrierInv', StepOf(p),
         UNCHANGED <<target, published>>,
         call[p] \in {"ended", "crashed"} => call'[p] = call[p]
  PROVE  (\E S \in SUBSET Sessions : Atomic!RefuseAll(S))
            \/ UNCHANGED <<Shown, Status>>
<1>1. Shown' = Shown
  BY ShownIsTarget
<1>2. CASE Status[p] = "pending" /\ Status'[p] = "refused"
  <2>1. Status' = [q \in Sessions |-> IF q \in {p} THEN "refused"
                                                   ELSE Status[q]]
    BY <1>2 DEF Status, StepOf
  <2>2. Atomic!RefuseAll({p})
    BY <1>1, <1>2, <2>1 DEF Atomic!RefuseAll
  <2> QED
    BY <2>2
<1>3. CASE ~(Status[p] = "pending" /\ Status'[p] = "refused")
  <2>1. Status'[p] = Status[p]
    BY <1>3 DEF Status
  <2>2. Status' = Status
    BY <2>1 DEF Status, StepOf
  <2> QED
    BY <1>1, <2>2
<1> QED
  BY <1>2, <1>3

\* A power failure refuses whoever was under way and had not published.
LEMMA PowerFailureIsRefuse ==
  ASSUME CarrierInv, CarrierInv', PowerFailure
  PROVE  \E S \in SUBSET Sessions : Atomic!RefuseAll(S)
<1> DEFINE S == {p \in Sessions : Status[p] = "pending" /\ p \in InProgress}
<1>1. Shown' = Shown
  BY ShownIsTarget DEF PowerFailure
<1>2. Status' = [p \in Sessions |-> IF p \in S THEN "refused" ELSE Status[p]]
  BY DEF PowerFailure, Status, InProgress
<1>3. Atomic!RefuseAll(S)
  BY <1>1, <1>2 DEF Atomic!RefuseAll
<1> QED
  BY <1>3

\* Every step of the carrier is one of AtomicPublication or a stutter.
LEMMA StepRefines ==
  CarrierInv /\ CarrierInv' /\ [Next]_vars =>
    Atomic!Next \/ UNCHANGED <<Shown, Status>>
<1> SUFFICES ASSUME CarrierInv, CarrierInv', [Next]_vars
             PROVE  Atomic!Next \/ UNCHANGED <<Shown, Status>>
  OBVIOUS
<1>1. ASSUME NEW p \in Sessions, Publisher(p) \/ AbortAgain(p) \/ Crash(p)
      PROVE  Atomic!Next \/ UNCHANGED <<Shown, Status>>
  <2>1. StepOf(p)
    BY <1>1, SessionPreserves
  <2>2. \/ MakeVisible(p)
        \/ /\ UNCHANGED <<target, published>>
           /\ call[p] \in {"ended", "crashed"} => call'[p] = call[p]
    BY <1>1, SessionEffect
  <2> QED
    BY <2>1, <2>2, VisibleIsPublish, HiddenIsRefuse DEF Atomic!Next
<1>2. ASSUME NEW r \in Readers, OpenInput(r) \/ CloseInput(r)
      PROVE  UNCHANGED <<Shown, Status>>
  BY <1>2 DEF OpenInput, CloseInput, publisherVars, Shown, Status
<1>3. CASE PowerFailure
  BY <1>3, PowerFailureIsRefuse DEF Atomic!Next
<1>4. CASE UNCHANGED vars
  BY <1>4 DEF vars, publisherVars, Shown, Status
<1> QED
  BY <1>1, <1>2, <1>3, <1>4 DEF Next

\* The carrier, with its temporary files, failures and crashes, does to the
\* target name nothing that an atomic publication would not do.
THEOREM CarrierPublishesAtomically == Spec => PublishesAtomically
<1>1. Init => Atomic!Init
  BY CarrierAssumption DEF Init, Atomic!Init, Shown, Status
<1>2. CarrierInv /\ CarrierInv' /\ [Next]_vars =>
        [Atomic!Next]_<<Shown, Status>>
  BY StepRefines
<1> QED
  BY <1>1, <1>2, CarrierIsSound, PTL DEF Spec, PublishesAtomically, Atomic!Spec
=============================================================================
