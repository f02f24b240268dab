------------------------- MODULE FileExtractionProofs -------------------------
(***************************************************************************)
(* Theorems about FileExtraction for any extractions, member lists and     *)
(* interference: members appear in the checked directory and decoded, no   *)
(* name is taken from a file, an extraction publishes all of its members   *)
(* or none, and a temporary directory that is left behind is reported, but *)
(* for what asynchronous exceptions keep it from.                          *)
(***************************************************************************)
EXTENDS FileExtraction, SequenceTheorems, FiniteSetTheorems, TLAPS

-----------------------------------------------------------------------------
(* The inductive invariant.                                                *)

Points == {"make", "link", "roll back", "clean"}

TypeOK ==
  /\ directory \in Identities
  /\ entries \in [Identities -> [Names -> Extractions \cup {Absent, Other}]]
  /\ temporaries \subseteq Extractions \X Identities
  /\ at \in [Extractions -> {"prepare", "check", "make", "verify", "decode",
                             "publish", "link", "roll back", "clean", "ended",
                             "crashed"}]
  /\ identity \in [Extractions -> Identities]
  /\ decoded \subseteq Extractions
  /\ published \in [Extractions -> Seq(Names)]
  /\ raised \subseteq Extractions
  /\ noted \subseteq Extractions
  /\ abandoned \subseteq Identities
  /\ interrupted \subseteq Extractions \X Points

\* The identity was read from the path, whose identities only grow; as long as
\* no directory was moved away it is the one the path has.
Located(e) ==
  /\ identity[e] <= directory
  /\ at[e] \notin {"prepare", "ended", "crashed"} => identity[e] # 0
  /\ abandoned = {} /\ identity[e] # 0 => identity[e] = directory

\* There is at most one temporary directory, made no earlier than the identity
\* was read: when the path still has that identity, it is in that directory.
Confined(e) ==
  /\ at[e] \in {"prepare", "check", "make"} =>
       \A d \in Identities : <<e, d>> \notin temporaries
  /\ \A d \in Identities : <<e, d>> \in temporaries =>
       /\ identity[e] <= d
       /\ d <= directory
       /\ at[e] \in {"decode", "publish", "link"} => d = identity[e]
       /\ at[e] = "ended" =>
            \/ e \in noted
            \/ <<e, "make">> \in interrupted
            \/ <<e, "clean">> \in interrupted
       /\ \A other \in Identities : <<e, other>> \in temporaries => other = d

Distinct(s) == \A i, j \in 1 .. Len(s) : s[i] = s[j] => i = j

InitialPart(s, t) ==
  /\ Len(s) <= Len(t)
  /\ \A i \in 1 .. Len(s) : s[i] = t[i]

\* What has been linked is an initial part of the manifest until a roll-back
\* starts, and nothing has been linked before everything was decoded.  In the
\* end it is everything, or what an interrupted roll-back left of it.
Linked(e) ==
  /\ at[e] \in {"prepare", "check", "make", "verify", "decode"} =>
       published[e] = <<>>
  /\ at[e] \in {"prepare", "check", "make", "verify"} => e \notin decoded
  /\ at[e] \in {"publish", "link"} => e \in decoded
  /\ at[e] \in {"prepare", "check", "make", "verify", "decode", "publish",
                "link"} =>
       /\ e \notin raised
       /\ InitialPart(published[e], MembersOf[e])
  /\ at[e] = "link" => Len(published[e]) # Len(MembersOf[e])
  /\ at[e] = "roll back" => e \in raised
  /\ Distinct(published[e])
  /\ at[e] \in {"clean", "ended"} =>
       \/ /\ Range(published[e]) = Range(MembersOf[e])
          /\ e \in raised => at[e] = "ended" /\ <<e, "clean">> \in interrupted
          /\ <<e, "link">> \notin interrupted
       \/ /\ e \in raised
          /\ Range(published[e]) = {} \/ <<e, "roll back">> \in interrupted
  /\ \A point \in Points : <<e, point>> \in interrupted =>
       /\ at[e] \in {"roll back", "clean", "ended", "crashed"}
       /\ e \in raised

\* What is visible of an extraction is what it has linked and not given up,
\* and the one link an interruption kept it from recording.
Recorded(e) ==
  abandoned = {} =>
    /\ Range(published[e]) \subseteq Visible(e)
    /\ e \notin noted \/ e \notin raised =>
         IF <<e, "link">> \in interrupted
           THEN \E n \in Names \ Range(published[e]) :
                  Visible(e) = Range(published[e]) \cup {n}
           ELSE Visible(e) = Range(published[e])

ExtractionInv ==
  /\ TypeOK
  /\ OnlyDecodedInItsRoot
  /\ \A e \in Extractions :
       Located(e) /\ Confined(e) /\ Linked(e) /\ Recorded(e)
-----------------------------------------------------------------------------
(* Sequences without repetition.                                           *)

\* The names of a list that got one more.
LEMMA RangeOfAppend ==
  ASSUME NEW S, NEW s \in Seq(S), NEW x \in S
  PROVE  Range(Append(s, x)) = Range(s) \cup {x}
<1>1. Range(s) = {s[i] : i \in 1 .. Len(s)}
  BY RangeEquality
<1>2. Range(Append(s, x)) = {Append(s, x)[i] : i \in 1 .. Len(s) + 1}
  <2>1. Append(s, x) \in Seq(S) /\ Len(Append(s, x)) = Len(s) + 1
    BY AppendProperties
  <2> QED
    BY <2>1, RangeEquality
<1> QED
  BY <1>1, <1>2, AppendProperties, LenProperties

\* Giving up the first name of a list without repetition leaves the others.
LEMMA TailFacts ==
  ASSUME NEW S, NEW s \in Seq(S), s # <<>>, Distinct(s)
  PROVE  /\ Tail(s) \in Seq(S)
         /\ Distinct(Tail(s))
         /\ s[1] \in Range(s)
         /\ s[1] \in S
         /\ Range(Tail(s)) = Range(s) \ {s[1]}
<1>1. /\ Tail(s) \in Seq(S)
      /\ Len(s) \in Nat /\ Len(s) > 0
      /\ Len(Tail(s)) = Len(s) - 1
      /\ \A i \in 1 .. Len(s) - 1 : Tail(s)[i] = s[i + 1]
  OBVIOUS
<1>2. /\ Range(Tail(s)) = {Tail(s)[i] : i \in 1 .. Len(s) - 1}
      /\ Range(s) = {s[i] : i \in 1 .. Len(s)}
  <2>1. Range(Tail(s)) = {Tail(s)[i] : i \in 1 .. Len(Tail(s))}
    BY <1>1, RangeEquality
  <2> QED
    BY <1>1, <2>1, RangeEquality
<1>3. Distinct(Tail(s))
  BY <1>1 DEF Distinct
<1>4. Range(Tail(s)) \subseteq Range(s) \ {s[1]}
  BY <1>1, <1>2 DEF Distinct
<1>5. ASSUME NEW i \in 1 .. Len(s), s[i] # s[1]
      PROVE  s[i] \in Range(Tail(s))
  <2>1. i - 1 \in 1 .. Len(s) - 1 /\ Tail(s)[i - 1] = s[i]
    BY <1>1, <1>5
  <2> QED
    BY <1>2, <2>1
<1> QED
  BY <1>1, <1>2, <1>3, <1>4, <1>5

\* The members of an extraction are names.
LEMMA MemberNames ==
  ASSUME NEW e \in Extractions
  PROVE  /\ MembersOf[e] \in Seq(Names)
         /\ Range(MembersOf[e]) \subseteq Names
         /\ Distinct(MembersOf[e])
<1>1. /\ MembersOf[e] \in Seq(Range(MembersOf[e]))
      /\ DOMAIN MembersOf[e] = 1 .. Len(MembersOf[e])
  BY MembersAssumption
<1>2. Range(MembersOf[e]) \subseteq Names
  BY DEF Names
<1>3. MembersOf[e] \in Seq(Names)
  BY <1>1, <1>2
<1>4. Distinct(MembersOf[e])
  BY <1>1, MembersAssumption DEF Distinct
<1> QED
  BY <1>2, <1>3, <1>4

\* Nothing linked is an initial part of every list of members.
LEMMA NothingLinked ==
  ASSUME NEW e \in Extractions
  PROVE  /\ Distinct(<<>>) /\ Range(<<>>) = {}
         /\ InitialPart(<<>>, MembersOf[e])
<1>1. Len(MembersOf[e]) \in Nat
  BY MemberNames, LenProperties
<1>2. Distinct(<<>>) /\ InitialPart(<<>>, MembersOf[e])
  BY <1>1 DEF Distinct, InitialPart
<1>3. Range(<<>>) = {}
  BY DEF Range
<1> QED
  BY <1>2, <1>3

\* When as many names are linked as there are members, they are the members.
LEMMA AllLinked ==
  ASSUME NEW e \in Extractions, NEW s \in Seq(Names),
         InitialPart(s, MembersOf[e]), Len(s) = Len(MembersOf[e])
  PROVE  Range(s) = Range(MembersOf[e])
<1>1. /\ Range(s) = {s[i] : i \in 1 .. Len(s)}
      /\ Range(MembersOf[e]) = {MembersOf[e][i] : i \in 1 .. Len(MembersOf[e])}
  BY MemberNames, RangeEquality
<1> QED
  BY <1>1 DEF InitialPart

\* An exception is on record with a point at which it may come.
LEMMA InterruptionTyped ==
  ASSUME TypeOK, NEW e \in Extractions, NEW point \in Points,
         interrupted' \in {interrupted, interrupted \cup {<<e, point>>}}
  PROVE  interrupted' \subseteq Extractions \X Points
<1>1. interrupted \subseteq Extractions \X Points
  BY DEF TypeOK
<1>2. <<e, point>> \in Extractions \X Points
  OBVIOUS
<1> QED
  BY <1>1, <1>2

\* Identities are numbered from the first directory on.
LEMMA IdentityFacts ==
  /\ \A d \in Identities : d \in Nat
  /\ 0 \in Identities /\ 1 \in Identities
BY MembersAssumption DEF Identities
-----------------------------------------------------------------------------
(* A step of one extraction leaves the others' part of the state as it is. *)

StepOf(e) ==
  /\ abandoned' = abandoned
  /\ directory' = directory \/ directory = 0
  /\ \A q \in Extractions \ {e} :
       /\ at'[q] = at[q]
       /\ identity'[q] = identity[q]
       /\ published'[q] = published[q]
       /\ q \in decoded' <=> q \in decoded
       /\ q \in raised' <=> q \in raised
       /\ q \in noted' <=> q \in noted
       /\ \A point \in Points :
            <<q, point>> \in interrupted' <=> <<q, point>> \in interrupted
       /\ \A d \in Identities :
            <<q, d>> \in temporaries' <=> <<q, d>> \in temporaries
       /\ abandoned = {} => Visible(q)' = Visible(q)

\* It is enough to look at the extraction that takes the step.
LEMMA OneExtraction ==
  ASSUME ExtractionInv, NEW e \in Extractions, StepOf(e),
         TypeOK', OnlyDecodedInItsRoot',
         Located(e)', Confined(e)', Linked(e)', Recorded(e)'
  PROVE  ExtractionInv'
<1>1. ASSUME NEW q \in Extractions \ {e}
      PROVE  Located(q)' /\ Confined(q)' /\ Linked(q)' /\ Recorded(q)'
  <2>1. /\ Located(q) /\ Confined(q) /\ Linked(q) /\ Recorded(q)
        /\ TypeOK /\ TypeOK'
    BY DEF ExtractionInv
  <2>2. /\ directory \in Nat /\ directory' \in Nat /\ identity[q] \in Nat
        /\ \A d \in Identities : d \in Nat
        /\ directory <= directory'
    <3>1. /\ directory \in Identities /\ directory' \in Identities
          /\ identity[q] \in Identities
      BY <2>1 DEF TypeOK
    <3>2. directory' = directory \/ directory = 0
      BY DEF StepOf
    <3>3. /\ directory \in Nat /\ directory' \in Nat /\ identity[q] \in Nat
          /\ \A d \in Identities : d \in Nat
      BY <3>1, IdentityFacts
    <3> QED
      BY <3>2, <3>3
  <2>3. Located(q)'
    BY <2>1, <2>2 DEF Located, StepOf
  <2>4. /\ <<q, "make">> \in interrupted' <=> <<q, "make">> \in interrupted
        /\ <<q, "link">> \in interrupted' <=> <<q, "link">> \in interrupted
        /\ <<q, "clean">> \in interrupted' <=> <<q, "clean">> \in interrupted
        /\ <<q, "roll back">> \in interrupted' <=>
             <<q, "roll back">> \in interrupted
    BY DEF StepOf, Points
  <2>5. Confined(q)'
    <3>1. /\ at'[q] = at[q] /\ identity'[q] = identity[q]
          /\ q \in noted' <=> q \in noted
          /\ \A d \in Identities :
               <<q, d>> \in temporaries' <=> <<q, d>> \in temporaries
      BY DEF StepOf
    <3>2. \A d \in Identities : d <= directory => d <= directory'
      BY <2>2
    <3> QED
      BY <2>1, <2>4, <3>1, <3>2 DEF Confined
  <2>6. Linked(q)'
    BY <2>1, <2>4 DEF Linked, StepOf
  <2>7. Recorded(q)'
    BY <2>1, <2>4 DEF Recorded, StepOf
  <2> QED
    BY <2>3, <2>5, <2>6, <2>7
<1> QED
  BY <1>1 DEF ExtractionInv

\* What is recorded stays so while names and records stay as they are.
LEMMA RecordedKept ==
  ASSUME NEW e \in Extractions, Recorded(e),
         abandoned' = abandoned, Visible(e)' = Visible(e),
         published'[e] = published[e],
         noted \subseteq noted', raised \subseteq raised',
         <<e, "link">> \in interrupted' <=> <<e, "link">> \in interrupted
  PROVE  Recorded(e)'
BY DEF Recorded

\* Before anything is linked it is enough that an error leads to the end or the
\* cleanup, and that publication comes after decoding.
GoesOn(e) ==
  \/ at'[e] \in {"check", "make", "verify"} /\ e \notin decoded' \cup raised'
  \/ at'[e] = "decode" /\ e \notin raised'
  \/ at'[e] = "publish" /\ e \in decoded' /\ e \notin raised'
  \/ at'[e] \in {"clean", "ended"} /\ e \in raised'

\* Such a step leaves the facts about what is linked as they are.
LEMMA BeforeLinking ==
  ASSUME NEW e \in Extractions, Linked(e),
         at[e] \in {"prepare", "check", "make", "verify", "decode"},
         published' = published, GoesOn(e),
         interrupted' = interrupted \/ at'[e] = "ended"
  PROVE  Linked(e)'
<1>1. /\ published'[e] = <<>>
      /\ at'[e] # "ended" =>
           \A point \in Points : <<e, point>> \notin interrupted'
  BY DEF Linked
<1> QED
  BY <1>1, NothingLinked DEF Linked, GoesOn, Points

\* No extraction has begun.
LEMMA ExtractionInvInit == Init => ExtractionInv
<1> SUFFICES ASSUME Init
             PROVE  ExtractionInv
  OBVIOUS
<1>1. TypeOK
  BY MembersAssumption, EmptySeq DEF Init, TypeOK, Identities
<1>2. OnlyDecodedInItsRoot
  BY MembersAssumption DEF Init, OnlyDecodedInItsRoot
<1>3. ASSUME NEW e \in Extractions
      PROVE  Located(e) /\ Confined(e) /\ Linked(e) /\ Recorded(e)
  <2>1. Located(e) /\ Confined(e)
    BY DEF Init, Located, Confined
  <2>2. Linked(e)
    BY NothingLinked DEF Init, Linked
  <2>3. Visible(e) = {} /\ Range(published[e]) = {}
    <3>1. identity[e] \in Identities /\ published[e] = <<>>
      BY IdentityFacts DEF Init
    <3>2. \A n \in Names : entries[identity[e]][n] = Absent
      BY <3>1 DEF Init
    <3> QED
      BY <3>1, <3>2, NothingLinked, MembersAssumption DEF Visible
  <2>4. Recorded(e)
    BY <2>3 DEF Init, Recorded
  <2> QED
    BY <2>1, <2>2, <2>4
<1> QED
  BY <1>1, <1>2, <1>3 DEF ExtractionInv

\* The identity of the directory is read before anything is made in it.
LEMMA PreparePreserves ==
  ASSUME ExtractionInv, NEW e \in Extractions, Prepare(e)
  PROVE  ExtractionInv'
<1>1. /\ TypeOK /\ OnlyDecodedInItsRoot
      /\ Located(e) /\ Confined(e) /\ Linked(e) /\ Recorded(e)
      /\ directory \in Nat /\ identity[e] \in Nat
      /\ published[e] \in Seq(Names)
  BY IdentityFacts DEF ExtractionInv, TypeOK
<1>2. TypeOK'
  BY <1>1, IdentityFacts DEF TypeOK, Prepare, Existing, GoTo, Raise
<1>3. StepOf(e)
  <2>1. ASSUME NEW q \in Extractions \ {e}
        PROVE  Visible(q)' = Visible(q)
    BY <1>1 DEF TypeOK, Visible, Prepare
  <2> QED
    BY <1>1, <2>1 DEF TypeOK, StepOf, Prepare, Existing, GoTo, Raise
<1>4. /\ e \notin decoded
      /\ \A d \in Identities, n \in Names : entries[d][n] # e
  BY <1>1 DEF OnlyDecodedInItsRoot, Linked, Prepare
<1>5. OnlyDecodedInItsRoot'
  <2>1. entries' = entries /\ decoded' = decoded
    BY DEF Prepare
  <2> QED
    BY <1>1, <1>3, <1>4, <2>1 DEF OnlyDecodedInItsRoot, StepOf
<1>6. Located(e)'
  <2>1. CASE identity' = identity /\ at'[e] = "ended"
    <3>1. directory <= directory' /\ directory' \in Nat
      <4>1. directory' \in Identities
        BY <1>2 DEF TypeOK
      <4> QED
        BY <1>1, <1>3, <4>1, IdentityFacts DEF StepOf
    <3>2. identity[e] # 0 => directory' = directory
      BY <1>1, <1>3 DEF Located, StepOf
    <3> QED
      BY <1>1, <2>1, <3>1, <3>2 DEF Located, Prepare
  <2>2. CASE identity'[e] = directory' /\ directory' # 0
    <3>1. directory' \in Nat
      BY <1>2, IdentityFacts DEF TypeOK
    <3> QED
      BY <2>2, <3>1 DEF Located
  <2>3. \/ identity' = identity /\ at'[e] = "ended"
        \/ identity'[e] = directory' /\ directory' # 0
    <3>1. Existing # 0
      BY DEF Existing
    <3> QED
      BY <1>1, <3>1 DEF TypeOK, Prepare, GoTo, Raise
  <2> QED
    BY <2>1, <2>2, <2>3
<1>7. Confined(e)'
  BY <1>1, <1>2, IdentityFacts
  DEF TypeOK, Located, Confined, Prepare, GoTo, Raise, Interrupt
<1>8. Linked(e)'
  <2>1. /\ at[e] \in {"prepare", "check", "make", "verify", "decode"}
        /\ published' = published /\ interrupted' = interrupted
    BY DEF Prepare
  <2>2. GoesOn(e)
    BY <1>1 DEF TypeOK, Linked, GoesOn, Prepare, GoTo, Raise, Interrupt
  <2> QED
    BY <1>1, <2>1, <2>2, BeforeLinking
<1>9. Recorded(e)'
  <2>1. Visible(e) = {} /\ Visible(e)' = {}
    <3>1. /\ identity[e] \in Identities /\ identity'[e] \in Identities
          /\ entries' = entries
      BY <1>1, <1>2 DEF TypeOK, Prepare
    <3> QED
      BY <1>4, <3>1 DEF Visible
  <2>2. /\ abandoned' = abandoned /\ published'[e] = published[e]
        /\ noted \subseteq noted' /\ raised \subseteq raised'
        /\ interrupted' = interrupted
    BY DEF Prepare, GoTo, Raise, Interrupt
  <2> QED
    BY <1>1, <2>1, <2>2, RecordedKept
<1> QED
  BY <1>2, <1>3, <1>5, <1>6, <1>7, <1>8, <1>9, OneExtraction

\* Nothing is made before the targets are found free.
LEMMA CheckTargetsPreserves ==
  ASSUME ExtractionInv, NEW e \in Extractions, CheckTargets(e)
  PROVE  ExtractionInv'
<1>1. /\ TypeOK /\ OnlyDecodedInItsRoot
      /\ Located(e) /\ Confined(e) /\ Linked(e) /\ Recorded(e)
      /\ directory \in Nat /\ identity[e] \in Nat
      /\ published[e] \in Seq(Names)
  BY IdentityFacts DEF ExtractionInv, TypeOK
<1>2. TypeOK'
  BY <1>1, IdentityFacts DEF TypeOK, CheckTargets, GoTo, Raise
<1>3. StepOf(e)
  BY <1>1 DEF TypeOK, StepOf, Visible, CheckTargets, GoTo, Raise
<1>4. OnlyDecodedInItsRoot'
  BY <1>1 DEF TypeOK, OnlyDecodedInItsRoot, Linked, CheckTargets, GoTo, Raise
<1>5. Located(e)'
  BY <1>1, <1>2, IdentityFacts DEF TypeOK, Located, CheckTargets, GoTo, Raise
<1>6. Confined(e)'
  BY <1>1, <1>2, IdentityFacts
  DEF TypeOK, Located, Confined, CheckTargets, GoTo, Raise
<1>7. Linked(e)'
  <2>1. /\ at[e] \in {"prepare", "check", "make", "verify", "decode"}
        /\ published' = published /\ interrupted' = interrupted
    BY DEF CheckTargets
  <2>2. GoesOn(e)
    BY <1>1 DEF TypeOK, Linked, GoesOn, CheckTargets, GoTo, Raise
  <2> QED
    BY <1>1, <2>1, <2>2, BeforeLinking
<1>8. Recorded(e)'
  <2>1. /\ Visible(e)' = Visible(e)
        /\ abandoned' = abandoned /\ published'[e] = published[e]
        /\ noted \subseteq noted' /\ raised \subseteq raised'
        /\ interrupted' = interrupted
    BY DEF Visible, CheckTargets, GoTo, Raise
  <2> QED
    BY <1>1, <2>1, RecordedKept
<1> QED
  BY <1>2, <1>3, <1>4, <1>5, <1>6, <1>7, <1>8, OneExtraction

\* The temporary directory is in the directory that the path has now.
LEMMA MakeTemporaryPreserves ==
  ASSUME ExtractionInv, NEW e \in Extractions, MakeTemporary(e)
  PROVE  ExtractionInv'
<1>1. /\ TypeOK /\ OnlyDecodedInItsRoot
      /\ Located(e) /\ Confined(e) /\ Linked(e) /\ Recorded(e)
      /\ directory \in Nat /\ identity[e] \in Nat
      /\ published[e] \in Seq(Names)
  BY IdentityFacts DEF ExtractionInv, TypeOK
<1>2. TypeOK'
  <2>1. temporaries' \subseteq Extractions \X Identities
    <3>1. <<e, directory>> \in Extractions \X Identities
      BY <1>1 DEF TypeOK
    <3>2. temporaries' \in {temporaries,
                            temporaries \cup {<<e, directory>>}}
      BY DEF MakeTemporary
    <3> QED
      BY <1>1, <3>1, <3>2 DEF TypeOK
  <2>2. interrupted' \subseteq Extractions \X Points
    <3>1. interrupted' \in {interrupted, interrupted \cup {<<e, "make">>}}
      BY DEF MakeTemporary, Interrupt
    <3> QED
      BY <1>1, <3>1, InterruptionTyped DEF Points
  <2>3. at' \in [Extractions -> {"prepare", "check", "make", "verify",
                                "decode", "publish", "link", "roll back",
                                "clean", "ended", "crashed"}]
    BY <1>1 DEF TypeOK, MakeTemporary, GoTo, Raise, Interrupt
  <2> QED
    BY <1>1, <2>1, <2>2, <2>3 DEF TypeOK, MakeTemporary, Raise, Interrupt
<1>3. StepOf(e)
  BY <1>1 DEF TypeOK, StepOf, Visible, MakeTemporary, GoTo, Raise, Interrupt
<1>4. OnlyDecodedInItsRoot'
  BY <1>1 DEF TypeOK, OnlyDecodedInItsRoot, Linked, MakeTemporary
<1>5. Located(e)'
  BY <1>1, <1>2, IdentityFacts
  DEF TypeOK, Located, MakeTemporary, GoTo, Raise, Interrupt
<1>6. Confined(e)'
  <2>1. \A d \in Identities : <<e, d>> \notin temporaries
    BY <1>1 DEF Confined, MakeTemporary
  <2>2. \A d \in Identities : <<e, d>> \in temporaries' => d = directory
    BY <2>1 DEF MakeTemporary
  <2>3. /\ directory' = directory /\ identity' = identity
        /\ \/ at'[e] = "verify"
           \/ at'[e] = "ended" /\ temporaries' = temporaries
           \/ at'[e] = "ended" /\ <<e, "make">> \in interrupted'
    BY <1>1 DEF TypeOK, MakeTemporary, GoTo, Raise, Interrupt
  <2> QED
    BY <1>1, <2>1, <2>2, <2>3, IdentityFacts DEF Located, Confined
<1>7. Linked(e)'
  <2>1. /\ at[e] \in {"prepare", "check", "make", "verify", "decode"}
        /\ published' = published
        /\ interrupted' = interrupted \/ at'[e] = "ended"
    BY <1>1 DEF TypeOK, MakeTemporary, GoTo, Raise, Interrupt
  <2>2. GoesOn(e)
    BY <1>1 DEF TypeOK, Linked, GoesOn, MakeTemporary, GoTo, Raise, Interrupt
  <2> QED
    BY <1>1, <2>1, <2>2, BeforeLinking
<1>8. Recorded(e)'
  <2>1. /\ Visible(e)' = Visible(e)
        /\ abandoned' = abandoned /\ published'[e] = published[e]
        /\ noted \subseteq noted' /\ raised \subseteq raised'
        /\ <<e, "link">> \in interrupted' <=> <<e, "link">> \in interrupted
    BY DEF Visible, MakeTemporary, GoTo, Raise, Interrupt
  <2> QED
    BY <1>1, <2>1, RecordedKept
<1> QED
  BY <1>2, <1>3, <1>4, <1>5, <1>6, <1>7, <1>8, OneExtraction

\* The path has its identity: the temporary directory is in the checked one.
LEMMA VerifyRootPreserves ==
  ASSUME ExtractionInv, NEW e \in Extractions, VerifyRoot(e)
  PROVE  ExtractionInv'
<1>1. /\ TypeOK /\ OnlyDecodedInItsRoot
      /\ Located(e) /\ Confined(e) /\ Linked(e) /\ Recorded(e)
      /\ directory \in Nat /\ identity[e] \in Nat
      /\ published[e] \in Seq(Names)
  BY IdentityFacts DEF ExtractionInv, TypeOK
<1>2. TypeOK'
  BY <1>1, IdentityFacts DEF TypeOK, VerifyRoot, GoTo, Raise, SameRoot
<1>3. StepOf(e)
  BY <1>1 DEF TypeOK, StepOf, Visible, VerifyRoot, GoTo, Raise, SameRoot
<1>4. OnlyDecodedInItsRoot'
  BY <1>1
  DEF TypeOK, OnlyDecodedInItsRoot, Linked, VerifyRoot, GoTo, Raise, SameRoot
<1>5. Located(e)'
  BY <1>1, <1>2, IdentityFacts
  DEF TypeOK, Located, VerifyRoot, GoTo, Raise, SameRoot
<1>6. Confined(e)'
  <2>1. /\ UNCHANGED <<directory, identity, temporaries, noted>>
        /\ at[e] = "verify"
        /\ \/ at'[e] = "decode" /\ directory = identity[e]
           \/ at'[e] = "clean"
    BY <1>1 DEF TypeOK, VerifyRoot, GoTo, Raise, SameRoot
  <2>2. \A d \in Identities : <<e, d>> \in temporaries =>
          /\ d \in Nat /\ identity[e] <= d /\ d <= directory
          /\ directory = identity[e] => d = identity[e]
    BY <1>1, IdentityFacts DEF Confined
  <2>3. at'[e] \in {"decode", "clean"}
    BY <2>1
  <2> QED
    BY <1>1, <2>1, <2>2, <2>3 DEF Confined
<1>7. Linked(e)'
  <2>1. /\ at[e] \in {"prepare", "check", "make", "verify", "decode"}
        /\ published' = published /\ interrupted' = interrupted
    BY DEF VerifyRoot
  <2>2. GoesOn(e)
    BY <1>1 DEF TypeOK, Linked, GoesOn, VerifyRoot, GoTo, Raise
  <2> QED
    BY <1>1, <2>1, <2>2, BeforeLinking
<1>8. Recorded(e)'
  <2>1. /\ Visible(e)' = Visible(e)
        /\ abandoned' = abandoned /\ published'[e] = published[e]
        /\ noted \subseteq noted' /\ raised \subseteq raised'
        /\ interrupted' = interrupted
    BY DEF Visible, VerifyRoot, GoTo, Raise, SameRoot
  <2> QED
    BY <1>1, <2>1, RecordedKept
<1> QED
  BY <1>2, <1>3, <1>4, <1>5, <1>6, <1>7, <1>8, OneExtraction

\* Only members in the temporary directory that is found are decoded.
LEMMA DecodePreserves ==
  ASSUME ExtractionInv, NEW e \in Extractions, Decode(e)
  PROVE  ExtractionInv'
<1>1. /\ TypeOK /\ OnlyDecodedInItsRoot
      /\ Located(e) /\ Confined(e) /\ Linked(e) /\ Recorded(e)
      /\ directory \in Nat /\ identity[e] \in Nat
      /\ published[e] \in Seq(Names)
  BY IdentityFacts DEF ExtractionInv, TypeOK
<1>2. TypeOK'
  BY <1>1, IdentityFacts DEF TypeOK, Decode, GoTo, Raise, TemporaryFound
<1>3. StepOf(e)
  BY <1>1 DEF TypeOK, StepOf, Visible, Decode, GoTo, Raise, TemporaryFound
<1>4. OnlyDecodedInItsRoot'
  BY <1>1
  DEF TypeOK, OnlyDecodedInItsRoot, Linked, Decode, GoTo, Raise, TemporaryFound
<1>5. Located(e)'
  BY <1>1, <1>2, IdentityFacts
  DEF TypeOK, Located, Decode, GoTo, Raise, TemporaryFound
<1>6. Confined(e)'
  BY <1>1, <1>2, IdentityFacts
  DEF TypeOK, Located, Confined, Decode, GoTo, Raise, TemporaryFound
<1>7. Linked(e)'
  <2>1. /\ at[e] \in {"prepare", "check", "make", "verify", "decode"}
        /\ published' = published /\ interrupted' = interrupted
    BY DEF Decode
  <2>2. GoesOn(e)
    BY <1>1 DEF TypeOK, Linked, GoesOn, Decode, GoTo, Raise
  <2> QED
    BY <1>1, <2>1, <2>2, BeforeLinking
<1>8. Recorded(e)'
  <2>1. /\ Visible(e)' = Visible(e)
        /\ abandoned' = abandoned /\ published'[e] = published[e]
        /\ noted \subseteq noted' /\ raised \subseteq raised'
        /\ interrupted' = interrupted
    BY DEF Visible, Decode, GoTo, Raise, TemporaryFound
  <2> QED
    BY <1>1, <2>1, RecordedKept
<1> QED
  BY <1>2, <1>3, <1>4, <1>5, <1>6, <1>7, <1>8, OneExtraction

\* Publication ends when every member is linked, or starts a roll-back.
LEMMA VerifyNextPreserves ==
  ASSUME ExtractionInv, NEW e \in Extractions, VerifyNext(e)
  PROVE  ExtractionInv'
<1>1. /\ TypeOK /\ OnlyDecodedInItsRoot
      /\ Located(e) /\ Confined(e) /\ Linked(e) /\ Recorded(e)
      /\ directory \in Nat /\ identity[e] \in Nat
      /\ published[e] \in Seq(Names)
  BY IdentityFacts DEF ExtractionInv, TypeOK
<1>2. TypeOK'
  BY <1>1, IdentityFacts DEF TypeOK, VerifyNext, GoTo, Raise, SameRoot
<1>3. StepOf(e)
  BY <1>1 DEF TypeOK, StepOf, Visible, VerifyNext, GoTo, Raise, SameRoot
<1>4. OnlyDecodedInItsRoot'
  BY <1>1
  DEF TypeOK, OnlyDecodedInItsRoot, Linked, VerifyNext, GoTo, Raise, SameRoot
<1>5. Located(e)'
  BY <1>1, <1>2, IdentityFacts
  DEF TypeOK, Located, VerifyNext, GoTo, Raise, SameRoot
<1>6. Confined(e)'
  BY <1>1, <1>2, IdentityFacts
  DEF TypeOK, Located, Confined, VerifyNext, GoTo, Raise, SameRoot
<1>7. Linked(e)'
  <2>1. /\ at[e] = "publish" /\ e \notin raised /\ e \in decoded
        /\ \A point \in Points : <<e, point>> \notin interrupted
        /\ InitialPart(published[e], MembersOf[e])
        /\ UNCHANGED <<published, decoded, interrupted>>
    BY <1>1 DEF Linked, VerifyNext
  <2>2. CASE Len(published[e]) = Len(MembersOf[e])
    <3>1. \/ at'[e] = "clean" /\ raised' = raised
          \/ at'[e] = "roll back" /\ raised' = raised \cup {e}
      BY <1>1, <2>2 DEF TypeOK, VerifyNext, AllPublished, GoTo, Raise
    <3>2. Range(published[e]) = Range(MembersOf[e])
      BY <1>1, <2>1, <2>2, AllLinked
    <3> QED
      BY <1>1, <2>1, <3>1, <3>2 DEF Linked, Points
  <2>3. CASE Len(published[e]) # Len(MembersOf[e])
    <3>1. \/ at'[e] = "link" /\ raised' = raised
          \/ at'[e] = "roll back" /\ raised' = raised \cup {e}
      BY <1>1, <2>3 DEF TypeOK, VerifyNext, AllPublished, GoTo, Raise
    <3> QED
      BY <1>1, <2>1, <2>3, <3>1 DEF Linked
  <2> QED
    BY <2>2, <2>3
<1>8. Recorded(e)'
  <2>1. /\ Visible(e)' = Visible(e)
        /\ abandoned' = abandoned /\ published'[e] = published[e]
        /\ noted \subseteq noted' /\ raised \subseteq raised'
        /\ interrupted' = interrupted
    BY DEF Visible, VerifyNext, GoTo, Raise, SameRoot
  <2> QED
    BY <1>1, <2>1, RecordedKept
<1> QED
  BY <1>2, <1>3, <1>4, <1>5, <1>6, <1>7, <1>8, OneExtraction

\* The temporary directory is removed, or reported.
LEMMA CleanPreserves ==
  ASSUME ExtractionInv, NEW e \in Extractions, Clean(e)
  PROVE  ExtractionInv'
<1>1. /\ TypeOK /\ OnlyDecodedInItsRoot
      /\ Located(e) /\ Confined(e) /\ Linked(e) /\ Recorded(e)
      /\ directory \in Nat /\ identity[e] \in Nat
      /\ published[e] \in Seq(Names)
  BY IdentityFacts DEF ExtractionInv, TypeOK
<1>2. TypeOK'
  <2>1. interrupted' \subseteq Extractions \X Points
    <3>1. interrupted' \in {interrupted, interrupted \cup {<<e, "clean">>}}
      BY DEF Clean, Interrupt
    <3> QED
      BY <1>1, <3>1, InterruptionTyped DEF Points
  <2> QED
    BY <1>1, <2>1 DEF TypeOK, Clean, GoTo, Raise, Interrupt, Noted
<1>3. StepOf(e)
  BY <1>1
  DEF TypeOK, StepOf, Visible, Clean, GoTo, Raise, Interrupt, Noted,
      TemporaryFound
<1>4. OnlyDecodedInItsRoot'
  BY <1>1
  DEF TypeOK, OnlyDecodedInItsRoot, Linked, Clean
<1>5. Located(e)'
  BY <1>1, <1>2, IdentityFacts
  DEF TypeOK, Located, Clean, GoTo, Raise, Interrupt, Noted, TemporaryFound
<1>6. Confined(e)'
  BY <1>1, <1>2, IdentityFacts
  DEF TypeOK, Located, Confined, Clean, GoTo, Raise, Interrupt, Noted,
      TemporaryFound
<1>7. Linked(e)'
  BY <1>1, <1>2, NothingLinked, AllLinked
  DEF TypeOK, Linked, Clean, GoTo, Raise, Interrupt, Noted, TemporaryFound
<1>8. Recorded(e)'
  <2>1. /\ Visible(e)' = Visible(e)
        /\ abandoned' = abandoned /\ published'[e] = published[e]
        /\ noted \subseteq noted' /\ raised \subseteq raised'
        /\ <<e, "link">> \in interrupted' <=> <<e, "link">> \in interrupted
    BY DEF Visible, Clean, GoTo, Raise, Interrupt, Noted, TemporaryFound
  <2> QED
    BY <1>1, <2>1, RecordedKept
<1> QED
  BY <1>2, <1>3, <1>4, <1>5, <1>6, <1>7, <1>8, OneExtraction

\* A dead process leaves everything as it is.
LEMMA CrashPreserves ==
  ASSUME ExtractionInv, NEW e \in Extractions, Crash(e)
  PROVE  ExtractionInv'
<1>1. /\ TypeOK /\ OnlyDecodedInItsRoot
      /\ Located(e) /\ Confined(e) /\ Linked(e) /\ Recorded(e)
      /\ directory \in Nat /\ identity[e] \in Nat
      /\ published[e] \in Seq(Names)
  BY IdentityFacts DEF ExtractionInv, TypeOK
<1>2. TypeOK'
  BY <1>1, IdentityFacts DEF TypeOK, Crash, GoTo, Running
<1>3. StepOf(e)
  BY <1>1 DEF TypeOK, StepOf, Visible, Crash, GoTo, Running
<1>4. OnlyDecodedInItsRoot'
  BY <1>1 DEF TypeOK, OnlyDecodedInItsRoot, Linked, Crash, GoTo, Running
<1>5. Located(e)'
  BY <1>1, <1>2, IdentityFacts DEF TypeOK, Located, Crash, GoTo, Running
<1>6. Confined(e)'
  BY <1>1, <1>2, IdentityFacts
  DEF TypeOK, Located, Confined, Crash, GoTo, Running
<1>7. Linked(e)'
  BY <1>1, <1>2, NothingLinked, AllLinked
  DEF TypeOK, Linked, Crash, GoTo, Running
<1>8. Recorded(e)'
  <2>1. /\ Visible(e)' = Visible(e)
        /\ abandoned' = abandoned /\ published'[e] = published[e]
        /\ noted \subseteq noted' /\ raised \subseteq raised'
        /\ interrupted' = interrupted
    BY DEF Visible, Crash, GoTo, Running
  <2> QED
    BY <1>1, <2>1, RecordedKept
<1> QED
  BY <1>2, <1>3, <1>4, <1>5, <1>6, <1>7, <1>8, OneExtraction

-----------------------------------------------------------------------------
(* The steps that give a name or take one.                                 *)

\* One entry of one directory changes.
LEMMA OneEntry ==
  ASSUME TypeOK, NEW d \in Identities, NEW n \in Names,
         NEW x \in Extractions \cup {Absent, Other},
         entries' = [entries EXCEPT ![d][n] = x]
  PROVE  /\ entries' \in [Identities ->
                            [Names -> Extractions \cup {Absent, Other}]]
         /\ entries'[d][n] = x
         /\ \A c \in Identities, m \in Names :
              c # d \/ m # n => entries'[c][m] = entries[c][m]
BY DEF TypeOK

\* The next member is a name that the extraction has not linked.
LEMMA NextIsNew ==
  ASSUME NEW e \in Extractions, NEW s \in Seq(Names),
         InitialPart(s, MembersOf[e]), Len(s) # Len(MembersOf[e]),
         NEW n, n = MembersOf[e][Len(s) + 1]
  PROVE  /\ n \in Names \ Range(s)
         /\ Append(s, n) \in Seq(Names)
         /\ Distinct(s)
         /\ Distinct(Append(s, n))
         /\ InitialPart(Append(s, n), MembersOf[e])
         /\ Range(Append(s, n)) = Range(s) \cup {n}
<1>1. /\ Len(s) \in Nat /\ Len(MembersOf[e]) \in Nat
      /\ Len(s) + 1 \in 1 .. Len(MembersOf[e])
      /\ \A i \in 1 .. Len(s) : s[i] = MembersOf[e][i]
  BY MemberNames, LenProperties DEF InitialPart
<1>2. n \in Names
  BY <1>1, MemberNames, ElementOfSeq
<1>3. \A i \in 1 .. Len(s) : s[i] # n
  BY <1>1, MemberNames DEF Distinct
<1>4. n \notin Range(s)
  BY <1>3, RangeEquality
<1>5. /\ Append(s, n) \in Seq(Names)
      /\ Len(Append(s, n)) = Len(s) + 1
      /\ \A i \in 1 .. Len(s) + 1 : Append(s, n)[i] = MembersOf[e][i]
  BY <1>1, <1>2, AppendProperties
<1>6. InitialPart(Append(s, n), MembersOf[e])
  BY <1>1, <1>5 DEF InitialPart
<1>7. Distinct(s) /\ Distinct(Append(s, n))
  <2>1. \A i, j \in 1 .. Len(MembersOf[e]) :
          MembersOf[e][i] = MembersOf[e][j] => i = j
    BY MemberNames DEF Distinct
  <2>2. Distinct(s)
    BY <1>1, <2>1 DEF Distinct
  <2>3. Distinct(Append(s, n))
    BY <1>1, <1>5, <2>1 DEF Distinct
  <2> QED
    BY <2>2, <2>3
<1> QED
  BY <1>2, <1>4, <1>5, <1>6, <1>7, RangeOfAppend

\* A link is only made in the directory that was checked, whatever the path has
\* become since: the temporary directory is not found anywhere else.
LEMMA LinkPreserves ==
  ASSUME ExtractionInv, NEW e \in Extractions, Link(e)
  PROVE  ExtractionInv'
<1> DEFINE n == NextMember(e)
<1>1. /\ TypeOK /\ OnlyDecodedInItsRoot
      /\ Located(e) /\ Confined(e) /\ Linked(e) /\ Recorded(e)
      /\ directory \in Identities /\ identity[e] \in Identities
      /\ published[e] \in Seq(Names)
      /\ at[e] = "link" /\ e \in decoded
      /\ e \notin raised
      /\ \A point \in Points : <<e, point>> \notin interrupted
      /\ InitialPart(published[e], MembersOf[e])
      /\ Len(published[e]) # Len(MembersOf[e])
  BY DEF ExtractionInv, TypeOK, Linked, Link, Raise
<1>2. /\ n \in Names \ Range(published[e])
      /\ Append(published[e], n) \in Seq(Names)
      /\ Distinct(published[e]) /\ Distinct(Append(published[e], n))
      /\ InitialPart(Append(published[e], n), MembersOf[e])
      /\ Range(Append(published[e], n)) = Range(published[e]) \cup {n}
  <2>1. n = MembersOf[e][Len(published[e]) + 1]
    BY DEF NextMember
  <2> HIDE DEF n
  <2> QED
    BY <1>1, <2>1, NextIsNew
<1> HIDE DEF n
<1>3. UNCHANGED <<directory, temporaries, identity, decoded, noted, abandoned>>
  BY DEF Link
<1>4. CASE /\ TemporaryFound(e) /\ MayLink(n)
           /\ entries' = [entries EXCEPT ![directory][n] = e]
           /\ \/ /\ published' = [published EXCEPT ![e] = Append(@, n)]
                 /\ GoTo(e, "publish")
                 /\ UNCHANGED <<raised, interrupted>>
              \/ /\ interrupted' = interrupted \cup {<<e, "link">>}
                 /\ Raise(e, "roll back")
                 /\ UNCHANGED published
  <2>1. directory = identity[e]
    BY <1>1, <1>4 DEF Confined, TemporaryFound
  <2>2. /\ entries' \in [Identities ->
                           [Names -> Extractions \cup {Absent, Other}]]
        /\ entries'[directory][n] = e
        /\ \A c \in Identities, m \in Names :
             c # directory \/ m # n => entries'[c][m] = entries[c][m]
    <3>1. /\ entries' = [entries EXCEPT ![directory][n] = e]
          /\ e \in Extractions \cup {Absent, Other}
          /\ n \in Names /\ directory \in Identities /\ TypeOK
      BY <1>1, <1>2, <1>4
    <3> QED
      BY <3>1 DEF TypeOK
  <2>3. entries[directory][n] = Absent
    BY <1>4 DEF MayLink
  <2>4. TypeOK'
    <3>1. published' \in [Extractions -> Seq(Names)]
      <4>1. published' \in {published, [published EXCEPT ![e] =
                                        Append(published[e], n)]}
        BY <1>4
      <4> QED
        BY <1>1, <1>2, <4>1 DEF TypeOK
    <3>2. interrupted' \subseteq Extractions \X Points
      <4>1. interrupted' \in {interrupted, interrupted \cup {<<e, "link">>}}
        BY <1>4
      <4> QED
        BY <1>1, <4>1, InterruptionTyped DEF Points
    <3> QED
      BY <1>1, <1>3, <1>4, <2>2, <3>1, <3>2 DEF TypeOK, GoTo, Raise
  <2>5. OnlyDecodedInItsRoot'
    BY <1>1, <1>3, <2>1, <2>2 DEF OnlyDecodedInItsRoot
  <2>6. \A q \in Extractions \ {e} : Visible(q)' = Visible(q)
    <3>1. ASSUME NEW q \in Extractions \ {e}
          PROVE  Visible(q)' = Visible(q)
      <4>1. identity[q] \in Identities /\ identity' = identity
        BY <1>1, <1>3 DEF TypeOK
      <4>2. \A m \in Names : entries'[identity[q]][m] = q
                              <=> entries[identity[q]][m] = q
        <5> SUFFICES ASSUME NEW m \in Names
                     PROVE  entries'[identity[q]][m] = q
                              <=> entries[identity[q]][m] = q
          OBVIOUS
        <5>1. CASE identity[q] = directory /\ m = n
          BY <2>2, <2>3, <5>1, MembersAssumption
        <5>2. CASE identity[q] # directory \/ m # n
          BY <2>2, <4>1, <5>2
        <5> QED
          BY <5>1, <5>2
      <4> QED
        BY <4>1, <4>2 DEF Visible
    <3> QED
      BY <3>1
  <2>7. Visible(e)' = Visible(e) \cup {n}
    BY <1>1, <1>2, <1>3, <2>1, <2>2 DEF Visible
  <2>8. StepOf(e)
    BY <1>1, <1>3, <1>4, <2>6 DEF TypeOK, StepOf, GoTo, Raise
  <2>9. Located(e)' /\ Confined(e)' /\ Linked(e)'
    BY <1>1, <1>2, <1>3, <1>4
    DEF TypeOK, Located, Confined, Linked, GoTo, Raise
  <2>10. Recorded(e)'
    <3>1. ASSUME abandoned = {}
          PROVE  /\ Visible(e) = Range(published[e])
                 /\ Visible(e)' = Range(published[e]) \cup {n}
      BY <1>1, <2>7, <3>1 DEF Recorded, Points
    <3>2. CASE published' = [published EXCEPT ![e] = Append(@, n)]
               /\ UNCHANGED <<raised, interrupted>>
      <4>1. published'[e] = Append(published[e], n)
        BY <1>1, <3>2 DEF TypeOK
      <4> QED
        BY <1>1, <1>2, <1>3, <3>1, <3>2, <4>1 DEF Recorded
    <3>3. CASE /\ interrupted' = interrupted \cup {<<e, "link">>}
               /\ UNCHANGED published
      BY <1>1, <1>2, <1>3, <3>1, <3>3 DEF Recorded
    <3> QED
      BY <1>4, <3>2, <3>3
  <2> QED
    BY <2>4, <2>5, <2>8, <2>9, <2>10, OneExtraction
<1>5. CASE /\ Raise(e, "roll back")
           /\ UNCHANGED <<entries, published, interrupted>>
  <2>1. TypeOK'
    BY <1>1, <1>3, <1>5 DEF TypeOK, GoTo, Raise
  <2>2. OnlyDecodedInItsRoot'
    BY <1>1, <1>3, <1>5 DEF OnlyDecodedInItsRoot
  <2>3. StepOf(e)
    BY <1>1, <1>3, <1>5 DEF TypeOK, StepOf, Visible, GoTo, Raise
  <2>4. Located(e)' /\ Confined(e)' /\ Linked(e)'
    BY <1>1, <1>2, <1>3, <1>5
    DEF TypeOK, Located, Confined, Linked, GoTo, Raise
  <2>5. Visible(e)' = Visible(e)
    BY <1>3, <1>5 DEF Visible
  <2>6. Recorded(e)'
    BY <1>1, <1>3, <1>5, <2>5, RecordedKept DEF Raise
  <2> QED
    BY <2>1, <2>2, <2>3, <2>4, <2>6, OneExtraction
<1> QED
  BY <1>1, <1>4, <1>5 DEF Link, Interrupt, n

\* The roll-back removes what the extraction linked, and in the directory that
\* it linked it in as long as the path was not given to another one.
LEMMA RollBackPreserves ==
  ASSUME ExtractionInv, NEW e \in Extractions, RollBack(e)
  PROVE  ExtractionInv'
<1>1. /\ TypeOK /\ OnlyDecodedInItsRoot
      /\ Located(e) /\ Confined(e) /\ Linked(e) /\ Recorded(e)
      /\ directory \in Identities /\ identity[e] \in Identities
      /\ published[e] \in Seq(Names) /\ Distinct(published[e])
      /\ at[e] = "roll back" /\ e \in raised
  BY DEF ExtractionInv, TypeOK, Linked, RollBack
<1>2. UNCHANGED <<directory, temporaries, identity, decoded, raised, abandoned>>
  BY DEF RollBack
<1>3. CASE /\ GoTo(e, "clean") /\ UNCHANGED <<entries, published, noted>>
           /\ \/ published[e] = <<>> /\ UNCHANGED interrupted
              \/ interrupted' = interrupted \cup {<<e, "roll back">>}
  <2>1. TypeOK'
    <3>1. interrupted' \subseteq Extractions \X Points
      <4>1. interrupted' \in {interrupted,
                              interrupted \cup {<<e, "roll back">>}}
        BY <1>3
      <4> QED
        BY <1>1, <4>1, InterruptionTyped DEF Points
    <3> QED
      BY <1>1, <1>2, <1>3, <3>1 DEF TypeOK, GoTo
  <2>2. OnlyDecodedInItsRoot'
    BY <1>1, <1>2, <1>3 DEF OnlyDecodedInItsRoot
  <2>3. StepOf(e)
    BY <1>1, <1>2, <1>3 DEF TypeOK, StepOf, Visible, GoTo
  <2>4. Located(e)' /\ Confined(e)' /\ Linked(e)'
    BY <1>1, <1>2, <1>3, NothingLinked
    DEF TypeOK, Located, Confined, Linked, GoTo
  <2>5. Visible(e)' = Visible(e)
    BY <1>2, <1>3 DEF Visible
  <2>6. Recorded(e)'
    BY <1>1, <1>2, <1>3, <2>5, RecordedKept
  <2> QED
    BY <2>1, <2>2, <2>3, <2>4, <2>6, OneExtraction
<1>4. CASE /\ published[e] # <<>>
           /\ \/ /\ entries' =
                      [entries EXCEPT ![directory][published[e][1]] = Absent]
                 /\ UNCHANGED noted
              \/ /\ noted' = noted \cup {e}
                 /\ UNCHANGED entries
           /\ published' = [published EXCEPT ![e] = Rest(e)]
           /\ UNCHANGED <<at, interrupted>>
  <2> DEFINE n == published[e][1]
  <2>1. /\ published'[e] = Tail(published[e])
        /\ Tail(published[e]) \in Seq(Names)
        /\ Distinct(Tail(published[e]))
        /\ n \in Range(published[e])
        /\ Range(Tail(published[e])) = Range(published[e]) \ {n}
    BY <1>1, <1>4, TailFacts DEF TypeOK, Rest
  <2>2. n \in Names
    BY <1>1, <1>4, <2>1, RangeOfSeq
  <2> HIDE DEF n
  <2>3. \/ /\ entries' = [entries EXCEPT ![directory][n] = Absent]
           /\ UNCHANGED noted
           /\ entries'[directory][n] = Absent
           /\ \A c \in Identities, m \in Names :
                c # directory \/ m # n => entries'[c][m] = entries[c][m]
        \/ /\ noted' = noted \cup {e}
           /\ UNCHANGED entries
    <3>1. CASE /\ entries' = [entries EXCEPT ![directory][n] = Absent]
               /\ UNCHANGED noted
      <4>1. Absent \in Extractions \cup {Absent, Other}
        OBVIOUS
      <4> QED
        BY <1>1, <2>2, <3>1 DEF TypeOK
    <3>2. CASE UNCHANGED entries /\ noted' = noted \cup {e}
      BY <3>2
    <3> QED
      BY <1>4, <3>1, <3>2 DEF n
  <2>4. entries' \in [Identities ->
                        [Names -> Extractions \cup {Absent, Other}]]
    BY <1>1, <2>2, <2>3, OneEntry DEF TypeOK
  <2>5. TypeOK'
    BY <1>1, <1>2, <1>4, <2>1, <2>3, <2>4 DEF TypeOK
  <2>6. OnlyDecodedInItsRoot'
    <3>1. \A c \in Identities, m \in Names :
            entries'[c][m] = entries[c][m] \/ entries'[c][m] = Absent
      BY <2>3
    <3>2. Absent \notin Extractions
      BY MembersAssumption
    <3>3. ASSUME NEW c \in Identities, NEW m \in Names,
                 entries'[c][m] \in Extractions
          PROVE  /\ entries'[c][m] \in decoded'
                 /\ identity'[entries'[c][m]] = c
      <4>1. entries'[c][m] = entries[c][m]
        BY <3>1, <3>2, <3>3
      <4> QED
        BY <1>1, <1>2, <3>3, <4>1 DEF OnlyDecodedInItsRoot
    <3> QED
      BY <3>3 DEF OnlyDecodedInItsRoot
  <2>7. ASSUME abandoned = {}
        PROVE  directory = identity[e] /\ entries[directory][n] = e
    BY <1>1, <2>1, <2>7 DEF Located, Recorded, Visible
  <2>8. ASSUME abandoned = {}, NEW q \in Extractions \ {e}
        PROVE  Visible(q)' = Visible(q)
    <3>1. identity[q] \in Identities
      BY <1>1 DEF TypeOK
    <3> QED
      BY <1>2, <2>2, <2>3, <2>7, <2>8, <3>1, MembersAssumption DEF Visible
  <2>9. StepOf(e)
    BY <1>1, <1>2, <1>4, <2>3, <2>8 DEF TypeOK, StepOf
  <2>10. Located(e)' /\ Confined(e)' /\ Linked(e)'
    BY <1>1, <1>2, <1>4, <2>1, <2>3 DEF TypeOK, Located, Confined, Linked
  <2>11. Recorded(e)'
    <3>1. CASE UNCHANGED entries /\ noted' = noted \cup {e}
      <4>1. Visible(e)' = Visible(e)
        BY <1>2, <3>1 DEF Visible
      <4> QED
        BY <1>1, <1>2, <2>1, <3>1, <4>1 DEF Recorded
    <3>2. CASE /\ UNCHANGED noted
               /\ entries'[directory][n] = Absent
               /\ \A c \in Identities, m \in Names :
                    c # directory \/ m # n => entries'[c][m] = entries[c][m]
      <4>1. ASSUME abandoned = {}
            PROVE  Visible(e)' = Visible(e) \ {n}
        BY <1>1, <1>2, <2>2, <2>7, <3>2, <4>1, MembersAssumption DEF Visible
      <4>2. CASE /\ <<e, "link">> \in interrupted
                 /\ e \notin noted /\ abandoned = {}
        <5>1. PICK m \in Names \ Range(published[e]) :
                     Visible(e) = Range(published[e]) \cup {m}
          BY <1>1, <4>2 DEF Recorded
        <5>2. /\ m \in Names \ Range(Tail(published[e]))
              /\ Visible(e)' = Range(Tail(published[e])) \cup {m}
          BY <2>1, <4>1, <4>2, <5>1
        <5> QED
          BY <1>1, <1>2, <1>4, <2>1, <3>2, <4>2, <5>2 DEF Recorded
      <4>3. CASE ~(/\ <<e, "link">> \in interrupted
                   /\ e \notin noted /\ abandoned = {})
        BY <1>1, <1>2, <1>4, <2>1, <3>2, <4>1, <4>3 DEF Recorded
      <4> QED
        BY <4>2, <4>3
    <3> QED
      BY <2>3, <3>1, <3>2
  <2> QED
    BY <2>5, <2>6, <2>9, <2>10, <2>11, OneExtraction
<1>5. \/ /\ published[e] # <<>>
         /\ interrupted' = interrupted \cup {<<e, "roll back">>}
         /\ GoTo(e, "clean") /\ UNCHANGED <<entries, published, noted>>
      \/ /\ published[e] = <<>>
         /\ GoTo(e, "clean")
         /\ UNCHANGED <<entries, published, noted, interrupted>>
      \/ /\ published[e] # <<>>
         /\ \/ /\ entries' =
                     [entries EXCEPT ![directory][published[e][1]] = Absent]
               /\ UNCHANGED noted
            \/ /\ noted' = noted \cup {e}
               /\ UNCHANGED entries
         /\ published' = [published EXCEPT ![e] = Rest(e)]
         /\ UNCHANGED <<at, interrupted>>
  BY <1>1 DEF RollBack, Interrupt, Raise
<1> QED
  BY <1>3, <1>4, <1>5

-----------------------------------------------------------------------------
(* The environment.                                                        *)

\* A directory that was moved away is on record.
LEMMA ReplaceDirectoryPreserves ==
  ASSUME ExtractionInv, ReplaceDirectory
  PROVE  ExtractionInv'
<1>1. /\ TypeOK /\ OnlyDecodedInItsRoot
      /\ directory \in Nat /\ directory \in Identities
  BY IdentityFacts DEF ExtractionInv, TypeOK
<1>2. /\ directory' = directory + 1
      /\ directory' \in Identities
      /\ abandoned' # {}
  BY <1>1, MembersAssumption DEF ReplaceDirectory, Identities
<1>3. TypeOK' /\ OnlyDecodedInItsRoot'
  BY <1>1, <1>2 DEF ReplaceDirectory, TypeOK, OnlyDecodedInItsRoot
<1>4. ASSUME NEW e \in Extractions
      PROVE  Located(e)' /\ Confined(e)' /\ Linked(e)' /\ Recorded(e)'
  <2>1. /\ Located(e) /\ Confined(e) /\ Linked(e)
        /\ identity[e] \in Nat
    BY IdentityFacts DEF ExtractionInv, TypeOK
  <2>2. Located(e)'
    BY <1>1, <1>2, <2>1 DEF Located, ReplaceDirectory
  <2>3. Confined(e)'
    <3>1. UNCHANGED <<temporaries, at, identity, noted, interrupted>>
      BY DEF ReplaceDirectory
    <3>2. \A d \in Identities : d \in Nat /\ (d <= directory => d <= directory')
      BY <1>1, <1>2, IdentityFacts
    <3> QED
      BY <2>1, <3>1, <3>2 DEF Confined
  <2>4. Linked(e)' /\ Recorded(e)'
    BY <1>2, <2>1 DEF Linked, Recorded, ReplaceDirectory
  <2> QED
    BY <2>2, <2>3, <2>4
<1> QED
  BY <1>3, <1>4 DEF ExtractionInv

\* A foreign file takes only a free name.
LEMMA CreateOtherPreserves ==
  ASSUME ExtractionInv, NEW n \in Names, CreateOther(n)
  PROVE  ExtractionInv'
<1>1. /\ TypeOK /\ OnlyDecodedInItsRoot /\ directory \in Identities
      /\ Other \in Extractions \cup {Absent, Other}
      /\ entries' = [entries EXCEPT ![directory][n] = Other]
      /\ entries[directory][n] = Absent
      /\ UNCHANGED <<directory, temporaries, at, identity, decoded, published,
                     raised, noted, abandoned, interrupted>>
  BY DEF ExtractionInv, TypeOK, CreateOther
<1>2. /\ entries' \in [Identities ->
                         [Names -> Extractions \cup {Absent, Other}]]
      /\ entries'[directory][n] = Other
      /\ \A c \in Identities, m \in Names :
           c # directory \/ m # n => entries'[c][m] = entries[c][m]
  BY <1>1 DEF TypeOK
<1>3. TypeOK'
  BY <1>1, <1>2 DEF TypeOK
<1>4. \A c \in Identities, m \in Names, e \in Extractions :
        entries'[c][m] = e <=> entries[c][m] = e
  BY <1>1, <1>2, MembersAssumption
<1>5. OnlyDecodedInItsRoot'
  <2>1. ASSUME NEW c \in Identities, NEW m \in Names,
               entries'[c][m] \in Extractions
        PROVE  entries'[c][m] = entries[c][m]
    BY <1>4, <2>1
  <2> QED
    BY <1>1, <2>1 DEF OnlyDecodedInItsRoot
<1>6. ASSUME NEW e \in Extractions
      PROVE  Located(e)' /\ Confined(e)' /\ Linked(e)' /\ Recorded(e)'
  <2>1. /\ Located(e) /\ Confined(e) /\ Linked(e) /\ Recorded(e)
        /\ identity[e] \in Identities
    BY DEF ExtractionInv, TypeOK
  <2>2. Visible(e)' = Visible(e)
    BY <1>1, <1>4, <2>1 DEF Visible
  <2>3. Recorded(e)'
    BY <1>1, <2>1, <2>2, RecordedKept
  <2> QED
    BY <1>1, <2>1, <2>3 DEF Located, Confined, Linked
<1> QED
  BY <1>3, <1>5, <1>6 DEF ExtractionInv

\* Every step preserves the invariant.
LEMMA ExtractionInvNext == ExtractionInv /\ [Next]_vars => ExtractionInv'
<1> SUFFICES ASSUME ExtractionInv, [Next]_vars
             PROVE  ExtractionInv'
  OBVIOUS
<1>1. ASSUME NEW e \in Extractions, Extraction(e) \/ Crash(e)
      PROVE  ExtractionInv'
  BY <1>1, PreparePreserves, CheckTargetsPreserves, MakeTemporaryPreserves,
     VerifyRootPreserves, DecodePreserves, VerifyNextPreserves, LinkPreserves,
     RollBackPreserves, CleanPreserves, CrashPreserves
  DEF Extraction
<1>2. CASE ReplaceDirectory
  BY <1>2, ReplaceDirectoryPreserves
<1>3. ASSUME NEW n \in Names, CreateOther(n)
      PROVE  ExtractionInv'
  BY <1>3, CreateOtherPreserves
<1>4. CASE UNCHANGED vars
  <2>1. TypeOK' /\ OnlyDecodedInItsRoot'
    BY <1>4 DEF ExtractionInv, vars, TypeOK, OnlyDecodedInItsRoot
  <2>2. ASSUME NEW e \in Extractions
        PROVE  Located(e)' /\ Confined(e)' /\ Linked(e)' /\ Recorded(e)'
    <3>1. Located(e) /\ Confined(e) /\ Linked(e) /\ Recorded(e)
      BY DEF ExtractionInv
    <3>2. Visible(e)' = Visible(e)
      BY <1>4 DEF vars, Visible
    <3>3. Recorded(e)'
      BY <1>4, <3>1, <3>2, RecordedKept DEF vars
    <3> QED
      BY <1>4, <3>1, <3>3 DEF vars, Located, Confined, Linked
  <2> QED
    BY <2>1, <2>2 DEF ExtractionInv
<1> QED
  BY <1>1, <1>2, <1>3, <1>4 DEF Next

\* Every reachable state of the extractions satisfies the inductive invariant.
THEOREM ExtractionIsSound == Spec => []ExtractionInv
<1>1. Init => ExtractionInv
  BY ExtractionInvInit
<1>2. ExtractionInv /\ [Next]_vars => ExtractionInv'
  BY ExtractionInvNext
<1> QED
  BY <1>1, <1>2, PTL DEF Spec

-----------------------------------------------------------------------------
(* The properties.                                                         *)

\* Whenever the path is given to another directory, a member only ever appears
\* in the directory that was checked, and decoded: a link needs the temporary
\* directory, which is found only where it was made.
THEOREM MembersStayInTheirRoot == Spec => []OnlyDecodedInItsRoot
<1>1. ExtractionInv => OnlyDecodedInItsRoot
  BY DEF ExtractionInv
<1> QED
  BY <1>1, ExtractionIsSound, PTL

\* rmtree() removes the one temporary directory there is, or its failure is
\* reported: as a cleanup issue, or as a note of the primary error.
THEOREM TemporariesAreReported == Spec => []ResidueIsReported
<1>1. ExtractionInv => ResidueIsReported
  BY DEF ExtractionInv, Confined, ResidueIsReported
<1> QED
  BY <1>1, ExtractionIsSound, PTL

\* A step that changes what a name refers to.
LEMMA EntryStep ==
  ASSUME ExtractionInv, [Next]_vars, NEW d \in Identities, NEW n \in Names,
         entries[d][n] # Absent, entries'[d][n] # entries[d][n]
  PROVE  /\ entries'[d][n] = Absent
         /\ abandoned = {} => entries[d][n] \in raised
<1>1. /\ TypeOK /\ directory \in Identities
      /\ entries' # entries
  BY DEF ExtractionInv, TypeOK
<1>2. ASSUME NEW m \in Names, NEW x \in Extractions \cup {Absent, Other},
             entries' = [entries EXCEPT ![directory][m] = x],
             entries[directory][m] = Absent
      PROVE  FALSE
  BY <1>1, <1>2, OneEntry
<1>3. ASSUME NEW e \in Extractions, Link(e)
      PROVE  FALSE
  <2>1. /\ entries' = [entries EXCEPT ![directory][NextMember(e)] = e]
        /\ entries[directory][NextMember(e)] = Absent
        /\ at[e] = "link"
    BY <1>1, <1>3 DEF Link, MayLink
  <2>2. /\ InitialPart(published[e], MembersOf[e])
        /\ Len(published[e]) # Len(MembersOf[e])
        /\ published[e] \in Seq(Names)
    BY <2>1 DEF ExtractionInv, TypeOK, Linked
  <2>3. NextMember(e) \in Names
    BY <2>2, NextIsNew DEF NextMember
  <2> QED
    BY <1>2, <2>1, <2>3
<1>4. ASSUME NEW e \in Extractions, RollBack(e)
      PROVE  /\ entries'[d][n] = Absent
             /\ abandoned = {} => entries[d][n] \in raised
  <2>1. /\ Located(e) /\ Linked(e) /\ Recorded(e)
        /\ published[e] \in Seq(Names) /\ Distinct(published[e])
        /\ at[e] = "roll back" /\ e \in raised
    BY <1>4 DEF ExtractionInv, TypeOK, Linked, RollBack
  <2>2. /\ published[e] # <<>>
        /\ entries' = [entries EXCEPT ![directory][published[e][1]] = Absent]
    BY <1>1, <1>4 DEF RollBack
  <2>3. published[e][1] \in Range(published[e]) /\ published[e][1] \in Names
    <3> DEFINE s == published[e]
    <3>1. s \in Seq(Names) /\ s # <<>> /\ Distinct(s)
      BY <2>1, <2>2
    <3> HIDE DEF s
    <3>2. s[1] \in Range(s) /\ s[1] \in Names
      BY <3>1, TailFacts
    <3> QED
      BY <3>2 DEF s
  <2>4. /\ entries'[directory][published[e][1]] = Absent
        /\ \A c \in Identities, m \in Names :
             c # directory \/ m # published[e][1] =>
               entries'[c][m] = entries[c][m]
    BY <1>1, <2>2, <2>3, OneEntry
  <2>5. d = directory /\ n = published[e][1]
    BY <2>4
  <2>6. abandoned = {} => entries[d][n] = e
    BY <2>1, <2>3, <2>5 DEF Located, Recorded, Visible
  <2> QED
    BY <2>1, <2>4, <2>5, <2>6
<1>5. ASSUME NEW m \in Names, CreateOther(m)
      PROVE  FALSE
  BY <1>2, <1>5 DEF CreateOther
<1>6. ASSUME NEW e \in Extractions, Extraction(e) \/ Crash(e)
      PROVE  Link(e) \/ RollBack(e)
  BY <1>1, <1>6
  DEF Extraction, Prepare, CheckTargets, MakeTemporary, VerifyRoot, Decode,
      VerifyNext, Clean, Crash
<1> QED
  BY <1>1, <1>3, <1>4, <1>5, <1>6 DEF Next, ReplaceDirectory, vars

\* os.link() never replaces, and unlink() takes back only what the extraction
\* linked: a file of another extraction, or of nobody here, keeps its name.
THEOREM NoNameIsTaken == Spec => NeverOverwrites
<1>1. ExtractionInv /\ [Next]_vars =>
        [\A d \in Identities, n \in Names :
           entries[d][n] # Absent /\ entries'[d][n] # entries[d][n] =>
             /\ entries'[d][n] = Absent
             /\ abandoned = {} => entries[d][n] \in raised]_vars
  BY EntryStep
<1> QED
  BY <1>1, ExtractionIsSound, PTL DEF Spec, NeverOverwrites

\* An extraction that ended has published all of its members or, when it
\* raised, none, unless it reported a name that it could not take back or an
\* interruption kept it from recording one.
THEOREM ExtractsAllOrNothing == Spec => []AllOrNothing
<1>1. ExtractionInv => AllOrNothing
  <2> SUFFICES ASSUME ExtractionInv, NEW e \in Extractions, at[e] = "ended",
                      abandoned = {}
               PROVE  IF e \in raised
                        THEN \/ e \in noted
                             \/ <<e, "roll back">> \in interrupted
                             \/ /\ <<e, "clean">> \in interrupted
                                /\ Visible(e) = Range(MembersOf[e])
                             \/ Cardinality(Visible(e)) =
                                  IF <<e, "link">> \in interrupted THEN 1 ELSE 0
                        ELSE Visible(e) = Range(MembersOf[e])
    BY DEF AllOrNothing
  <2>1. Linked(e) /\ Recorded(e)
    BY DEF ExtractionInv
  <2>2. CASE /\ Range(published[e]) = Range(MembersOf[e])
             /\ e \in raised => <<e, "clean">> \in interrupted
             /\ <<e, "link">> \notin interrupted
    BY <2>1, <2>2 DEF Recorded
  <2>3. CASE /\ Range(published[e]) = {}
             /\ e \in raised /\ e \notin noted /\ <<e, "link">> \in interrupted
    <3>1. PICK n \in Names : Visible(e) = {n}
      BY <2>1, <2>3 DEF Recorded
    <3> QED
      BY <2>3, <3>1, FS_Singleton
  <2>4. CASE /\ Range(published[e]) = {}
             /\ e \in raised /\ e \notin noted
             /\ <<e, "link">> \notin interrupted
    <3>1. Visible(e) = {}
      BY <2>1, <2>4 DEF Recorded
    <3> QED
      BY <2>4, <3>1, FS_EmptySet
  <2> QED
    BY <2>1, <2>2, <2>3, <2>4 DEF Linked
<1> QED
  BY <1>1, ExtractionIsSound, PTL
===============================================================================
