--------------------------- MODULE FilePackingProofs ---------------------------
(***************************************************************************)
(* The host that packs files leaves nothing behind, and what it publishes  *)
(* can be recovered under the policy it was packaged under: for any        *)
(* request, policy, registry and behaviour of the sources, whichever calls *)
(* fail.                                                                   *)
(***************************************************************************)
EXTENDS FilePacking, ContainerWriterProofs, SequenceTheorems

-----------------------------------------------------------------------------
(* The inductive invariant of the host.                                    *)

Calls == {"inputs", "open_input", "close_input", "open_carrier", "commit",
          "discard", "package"}

Files == Cardinality(Objects)

\* What was raised or noted, as a set.
Raised == ToSet(failures)

\* The files the caller is told could not be closed.
Unclosed == {f \in Nat : <<"close_input", f>> \in Raised}

\* The files are opened in order, and given back in the opposite order: what is
\* held is what still waits to be closed, and what could not be.
InputsInv ==
  /\ sources \in SourceLists
  /\ failures \in Seq(Calls \X Nat)
  /\ Len(opened) \in 0 .. Files
  /\ opened = [i \in 1 .. Len(opened) |-> i]
  /\ held = {f \in Objects : f <= Len(opened) \/ f \in Unclosed}
  /\ \A f \in Unclosed : f > Len(opened)
  /\ host = "done" => opened = <<>>

\* The publisher's state, as far as the host has come.
CarrierInv ==
  /\ host \in {"opening", "packaging", "aborting", "closing", "done"}
  /\ host = "opening" => carrier = "NEW"
  /\ host = "packaging" => carrier = "OPEN"
  /\ host = "aborting" => carrier \in {"OPEN", "ABORTED", "CLEANUP_REQUIRED"}
  /\ host \in {"closing", "done"} =>
       carrier \in {"NEW", "ABORTED", "CLEANUP_REQUIRED", "COMMITTED"}

\* What the caller is told of it.
ReportInv ==
  /\ host \in {"opening", "packaging"} <=> failures = <<>> /\ carrier # "COMMITTED"
  /\ carrier = "CLEANUP_REQUIRED" => <<"discard", 0>> \in Raised
  /\ carrier = "COMMITTED" =>
       /\ receipt = target /\ operation = "returned"
       /\ \A failure \in Raised : failure[1] = "close_input"

PackingInv == InputsInv /\ CarrierInv /\ ReportInv

-----------------------------------------------------------------------------
(* Lemmas.                                                                 *)

\* What is raised behind other failures comes to them.
LEMMA OneFailureMore ==
  ASSUME NEW S, NEW s \in Seq(S), NEW x \in S
  PROVE  /\ Append(s, x) \in Seq(S) /\ Append(s, x) # <<>>
         /\ ToSet(Append(s, x)) = ToSet(s) \cup {x}
<1>1. /\ Append(s, x) \in Seq(S) /\ Len(Append(s, x)) = Len(s) + 1
      /\ Len(s) \in Nat /\ DOMAIN s = 1 .. Len(s)
      /\ DOMAIN Append(s, x) = 1 .. (Len(s) + 1)
      /\ Append(s, x)[Len(s) + 1] = x
      /\ \A i \in 1 .. Len(s) : Append(s, x)[i] = s[i]
  OBVIOUS
<1> QED
  BY <1>1 DEF ToSet

\* Nothing is raised at first.
LEMMA NothingRaised == ToSet(<<>>) = {}
BY DEF ToSet

\* The files of a request are numbered.
LEMMA FilesAreNumbered ==
  ASSUME sources \in SourceLists
  PROVE  Files \in Nat /\ Objects = 1 .. Files
BY ObjectsAssumption DEF Objects, Files

\* A call that fails adds one failure and nothing else to what was raised.
LEMMA FailAdds ==
  ASSUME InputsInv, NEW step \in Calls, NEW f \in Nat, Fail(step, f)
  PROVE  /\ failures' \in Seq(Calls \X Nat) /\ failures' # <<>>
         /\ Raised' = Raised \cup {<<step, f>>}
         /\ Unclosed' = IF step = "close_input" THEN Unclosed \cup {f} ELSE Unclosed
<1> DEFINE S == Calls \X Nat
           failure == <<step, f>>
<1>1. failure \in S /\ failures \in Seq(S) /\ failures' = Append(failures, failure)
  BY DEF Fail, InputsInv
<1>2. /\ failures' \in Seq(S) /\ failures' # <<>>
      /\ ToSet(failures') = ToSet(failures) \cup {failure}
  <2> HIDE DEF S, failure
  <2> QED
    BY <1>1, OneFailureMore
<1>3. Raised' = Raised \cup {failure}
  BY <1>2 DEF Raised
<1>4. Unclosed' = IF step = "close_input" THEN Unclosed \cup {f} ELSE Unclosed
  BY <1>3 DEF Unclosed
<1> QED
  BY <1>2, <1>3, <1>4

\* As long as the files stay open, other failures do not concern them.
LEMMA InputsStay ==
  ASSUME InputsInv, UNCHANGED sources, UNCHANGED opened, UNCHANGED held,
         failures' \in Seq(Calls \X Nat), Unclosed' = Unclosed,
         host' = "done" => opened = <<>>
  PROVE  InputsInv'
<1>1. Objects' = Objects /\ Files' = Files
  BY DEF Objects, Files
<1> QED
  BY <1>1 DEF InputsInv

\* A packaging operation packs the sources that were requested.
LEMMA PackageKeepsSources == WriteTo => UNCHANGED sources
BY DEF WriteTo, Preflight, OpenWriter, Send, NextSource, ProvideChunk, HandOver,
       SourceEnds, ForeignRaises, FinishWriter, Return

-----------------------------------------------------------------------------
(* Every step keeps the invariant.                                         *)

\* At first nothing is open and nothing has failed.
LEMMA InitPacking == PackingInit => PackingInv
<1> SUFFICES ASSUME PackingInit PROVE PackingInv
  OBVIOUS
<1>1. /\ host = "opening" /\ opened = <<>> /\ held = {} /\ carrier = "NEW"
      /\ failures = <<>> /\ sources \in SourceLists
  BY DEF PackingInit, Init
<1>2. Files \in Nat /\ Objects = 1 .. Files
  BY <1>1, FilesAreNumbered
<1>3. Raised = {}
  BY <1>1, NothingRaised DEF Raised
<1>4. InputsInv
  <2>1. Len(opened) = 0 /\ opened = [i \in 1 .. 0 |-> i]
    BY <1>1
  <2>2. failures \in Seq(Calls \X Nat) /\ Unclosed = {}
    BY <1>1, <1>3 DEF Unclosed
  <2>3. {f \in Objects : f <= Len(opened)} = {}
    BY <1>2, <2>1
  <2> QED
    BY <1>1, <1>2, <1>3, <2>1, <2>2, <2>3 DEF InputsInv
<1> QED
  BY <1>1, <1>4 DEF PackingInv, CarrierInv, ReportInv

\* An input is refused, or a file is opened, or not.
LEMMA OpeningKeeps ==
  ASSUME PackingInv, RefuseInputs \/ OpenInput
  PROVE  PackingInv'
<1> USE DEF PackingInv
<1>0. Files \in Nat /\ Objects = 1 .. Files
  BY FilesAreNumbered DEF InputsInv
<1>1. /\ host = "opening" /\ carrier = "NEW" /\ failures = <<>> /\ Raised = {}
      /\ Unclosed = {}
      /\ UNCHANGED <<sources, carrier, receipt, target, operation>>
  BY NothingRaised DEF RefuseInputs, OpenInput, CarrierInv, ReportInv, Raised,
                       Unclosed, writerVars, packagerVars
<1>2. ASSUME host' = "closing", UNCHANGED <<opened, held>>,
             NEW step \in Calls \ {"close_input"}, NEW f \in Nat, Fail(step, f)
      PROVE  PackingInv'
  <2>1. /\ failures' \in Seq(Calls \X Nat) /\ failures' # <<>>
        /\ Raised' = Raised \cup {<<step, f>>} /\ Unclosed' = Unclosed
    BY <1>2, FailAdds
  <2>2. InputsInv'
    BY <1>1, <1>2, <2>1, InputsStay
  <2> QED
    BY <1>1, <1>2, <2>1, <2>2 DEF CarrierInv, ReportInv
<1>3. CASE RefuseInputs
  BY <1>2, <1>3 DEF RefuseInputs, Calls
<1>4. ASSUME OpenInput, host' = "closing", UNCHANGED <<opened, held>>,
             Fail("open_input", Len(opened) + 1)
      PROVE  PackingInv'
  <2>1. Len(opened) + 1 \in Nat /\ "open_input" \in Calls \ {"close_input"}
    BY <1>0 DEF InputsInv, Calls
  <2> QED
    BY <1>2, <1>4, <2>1
<1>5. ASSUME OpenInput, opened' = Append(opened, Len(opened) + 1),
             held' = held \cup {Len(opened) + 1}, UNCHANGED <<host, failures>>
      PROVE  PackingInv'
  <2> DEFINE n == Len(opened)
  <2>1. n \in 0 .. (Files - 1) /\ opened = [i \in 1 .. n |-> i]
    BY <1>0, <1>5 DEF OpenInput, InputsInv, Files
  <2> HIDE DEF n
  <2>2. opened' = [i \in 1 .. (n + 1) |-> i]
    BY <1>0, <1>5, <2>1 DEF n
  <2>3. Len(opened') = n + 1
    BY <1>0, <2>1, <2>2
  <2>4. /\ Raised' = {} /\ Unclosed' = {} /\ Objects' = Objects /\ Files' = Files
        /\ failures' \in Seq(Calls \X Nat)
    BY <1>1, <1>5 DEF Raised, Unclosed, Objects, Files, InputsInv
  <2>5. held = {f \in 1 .. Files : f <= n}
    BY <1>0, <1>1 DEF InputsInv, n
  <2>6. held' = {f \in 1 .. Files : f <= n + 1}
    BY <1>0, <1>5, <2>1, <2>5 DEF n
  <2>7. InputsInv'
    BY <1>0, <1>1, <1>5, <2>1, <2>2, <2>3, <2>4, <2>6 DEF InputsInv
  <2> QED
    BY <1>1, <1>5, <2>7 DEF CarrierInv, ReportInv
<1> QED
  BY <1>3, <1>4, <1>5 DEF OpenInput

\* The last file that is open is closed, or not.
LEMMA ClosingKeeps ==
  ASSUME PackingInv, CloseInput
  PROVE  PackingInv'
<1> USE DEF PackingInv
<1> DEFINE n == Len(opened)
<1>0. Files \in Nat /\ Objects = 1 .. Files
  BY FilesAreNumbered DEF InputsInv
<1>1. /\ host = "closing" /\ opened # <<>>
      /\ UNCHANGED <<sources, host, carrier, receipt, target, operation>>
  BY DEF CloseInput, writerVars, packagerVars
<1>2. n \in 1 .. Files /\ opened = [i \in 1 .. n |-> i]
  BY <1>0, <1>1 DEF InputsInv
<1>3. Last(opened) = n /\ Front(opened) = [i \in 1 .. (n - 1) |-> i]
  <2> HIDE DEF n
  <2>1. Len(opened) = n
    BY DEF n
  <2>2. Last(opened) = n
    BY <1>0, <1>2, <2>1 DEF Last
  <2>3. Front(opened) = SubSeq(opened, 1, n - 1)
    BY <2>1 DEF Front
  <2> QED
    BY <1>0, <1>2, <2>1, <2>2, <2>3
<1>4. PICK closed \in BOOLEAN :
        /\ opened' = Front(opened)
        /\ IF closed THEN held' = held \ {n} /\ UNCHANGED failures
           ELSE UNCHANGED held /\ Fail("close_input", n)
  <2>1. \E closed \in BOOLEAN :
          /\ opened' = Front(opened)
          /\ IF closed
             THEN held' = held \ {Last(opened)} /\ UNCHANGED failures
             ELSE UNCHANGED held /\ Fail("close_input", Last(opened))
    BY DEF CloseInput, Rest
  <2> HIDE DEF n
  <2> QED
    BY <1>3, <2>1
<1> HIDE DEF n
<1>5. /\ Len(opened') = n - 1 /\ opened' = [i \in 1 .. (n - 1) |-> i]
      /\ Objects' = Objects /\ Files' = Files /\ n \in Nat
  BY <1>0, <1>1, <1>2, <1>3, <1>4 DEF Objects, Files
<1>6. /\ held = {f \in Objects : f <= n \/ f \in Unclosed}
      /\ \A f \in Unclosed : f \in Nat /\ f > n
  BY DEF InputsInv, Unclosed, n
<1>7. CASE held' = held \ {n} /\ UNCHANGED failures
  <2>1. Raised' = Raised /\ Unclosed' = Unclosed
    BY <1>7 DEF Raised, Unclosed
  <2>2. held' = {f \in Objects : f <= n - 1 \/ f \in Unclosed}
    BY <1>0, <1>2, <1>6, <1>7
  <2>3. \A f \in Unclosed : f > n - 1
    BY <1>2, <1>6
  <2>4. InputsInv'
    BY <1>0, <1>1, <1>2, <1>5, <1>7, <2>1, <2>2, <2>3 DEF InputsInv
  <2> QED
    BY <1>1, <1>7, <2>1, <2>4 DEF CarrierInv, ReportInv
<1>8. CASE UNCHANGED held /\ Fail("close_input", n)
  <2>1. /\ failures' \in Seq(Calls \X Nat) /\ failures' # <<>>
        /\ Raised' = Raised \cup {<<"close_input", n>>}
        /\ Unclosed' = Unclosed \cup {n}
    BY <1>5, <1>8, FailAdds DEF Calls
  <2>3. held' = {f \in Objects : f <= n - 1 \/ f \in Unclosed'}
    BY <1>0, <1>2, <1>6, <1>8, <2>1
  <2>4. \A f \in Unclosed' : f > n - 1
    BY <1>2, <1>6, <2>1
  <2>5. InputsInv'
    BY <1>0, <1>1, <1>2, <1>5, <2>1, <2>3, <2>4 DEF InputsInv
  <2>6. <<"close_input", n>>[1] = "close_input"
    OBVIOUS
  <2> QED
    BY <1>1, <2>1, <2>5, <2>6 DEF CarrierInv, ReportInv
<1> QED
  BY <1>4, <1>7, <1>8

\* Once all files were given back the host is done.
LEMMA LeavingKeeps ==
  ASSUME PackingInv, Leave
  PROVE  PackingInv'
<1> USE DEF PackingInv
<1>1. /\ host = "closing" /\ host' = "done" /\ opened = <<>>
      /\ UNCHANGED <<sources, opened, held, carrier, receipt, failures, target,
                     operation>>
  BY DEF Leave, writerVars, packagerVars
<1>2. Raised' = Raised /\ Unclosed' = Unclosed
  BY <1>1 DEF Raised, Unclosed
<1>3. InputsInv'
  <2>1. failures' \in Seq(Calls \X Nat)
    BY <1>1 DEF InputsInv
  <2> QED
    BY <1>1, <1>2, <2>1, InputsStay
<1> QED
  BY <1>1, <1>2, <1>3 DEF CarrierInv, ReportInv

\* The publisher is opened, or not.
LEMMA OpenCarrierKeeps ==
  ASSUME PackingInv, OpenCarrier
  PROVE  PackingInv'
<1> USE DEF PackingInv
<1>1. /\ host = "opening" /\ failures = <<>>
      /\ UNCHANGED <<sources, opened, held, receipt, target, operation>>
  BY DEF OpenCarrier, ReportInv, writerVars, packagerVars
<1>2. CASE carrier' = "OPEN" /\ host' = "packaging" /\ UNCHANGED failures
  <2>1. Raised' = Raised /\ Unclosed' = Unclosed /\ failures' \in Seq(Calls \X Nat)
    BY <1>2 DEF Raised, Unclosed, InputsInv
  <2>2. InputsInv'
    BY <1>1, <1>2, <2>1, InputsStay
  <2> QED
    BY <1>1, <1>2, <2>2 DEF CarrierInv, ReportInv
<1>3. CASE /\ carrier' = "ABORTED" /\ host' = "aborting"
           /\ Fail("open_carrier", 0)
  <2>1. /\ failures' \in Seq(Calls \X Nat) /\ failures' # <<>>
        /\ Raised' = Raised \cup {<<"open_carrier", 0>>} /\ Unclosed' = Unclosed
    BY <1>3, FailAdds DEF Calls
  <2>2. InputsInv'
    BY <1>1, <1>3, <2>1, InputsStay
  <2> QED
    BY <1>1, <1>3, <2>1, <2>2 DEF CarrierInv, ReportInv
<1> QED
  BY <1>2, <1>3 DEF OpenCarrier

\* The packaging operation goes on.
LEMMA PackageKeeps ==
  ASSUME PackingInv, Package
  PROVE  PackingInv'
<1> USE DEF PackingInv
<1>1. /\ host = "packaging" /\ UNCHANGED sources
      /\ UNCHANGED <<host, opened, held, carrier, receipt, failures>>
  BY PackageKeepsSources DEF Package, hostVars
<1>2. Raised' = Raised /\ Unclosed' = Unclosed /\ failures' \in Seq(Calls \X Nat)
  BY <1>1 DEF Raised, Unclosed, InputsInv
<1>3. InputsInv'
  BY <1>1, <1>2, InputsStay
<1> QED
  BY <1>1, <1>2, <1>3 DEF CarrierInv, ReportInv

\* It raised.
LEMMA PackagingFailureKeeps ==
  ASSUME PackingInv, PackagingFails
  PROVE  PackingInv'
<1> USE DEF PackingInv
<1>1. /\ host = "packaging" /\ host' = "aborting" /\ Fail("package", 0)
      /\ UNCHANGED <<sources, opened, held, carrier, receipt, target, operation>>
  BY DEF PackagingFails, writerVars, packagerVars
<1>2. /\ failures' \in Seq(Calls \X Nat) /\ failures' # <<>>
      /\ Raised' = Raised \cup {<<"package", 0>>} /\ Unclosed' = Unclosed
  BY <1>1, FailAdds DEF Calls
<1>3. InputsInv'
  BY <1>1, <1>2, InputsStay
<1> QED
  BY <1>1, <1>2, <1>3 DEF CarrierInv, ReportInv

\* What _discard_unpublished() adds to the errors it was given.
LEMMA DiscardAdds ==
  ASSUME InputsInv, NEW errors \in Seq((Calls \ {"close_input"}) \X {0}),
         Discard(errors)
  PROVE  /\ failures' \in Seq(Calls \X Nat)
         /\ failures # <<>> \/ errors # <<>> => failures' # <<>>
         /\ carrier' \in {"ABORTED", "CLEANUP_REQUIRED"}
         /\ carrier' = "CLEANUP_REQUIRED" => <<"discard", 0>> \in Raised'
         /\ Unclosed' = Unclosed
<1> DEFINE E == (Calls \ {"close_input"}) \X {0}
           S == Calls \X Nat
           all == Append(errors, <<"discard", 0>>)
<1>1. /\ failures \in Seq(S) /\ errors \in Seq(S) /\ all \in Seq(S)
      /\ all \in Seq(E) /\ <<"discard", 0>> \in E
  <2>1. E \subseteq S /\ <<"discard", 0>> \in E
    BY DEF Calls
  <2>2. errors \in Seq(E) /\ errors \in Seq(S)
    <3>1. /\ errors \in Seq(E) /\ \A i \in 1 .. Len(errors) : errors[i] \in E
      OBVIOUS
    <3> QED
      BY <2>1, <3>1
  <2> HIDE DEF E, S
  <2> QED
    BY <2>1, <2>2 DEF InputsInv, S
<1>2. ASSUME NEW more \in Seq(E), more \in Seq(S), failures' = failures \o more
      PROVE  /\ failures' \in Seq(S)
             /\ failures # <<>> \/ more # <<>> => failures' # <<>>
             /\ Raised' = Raised \cup ToSet(more)
             /\ \A d \in ToSet(more) : d \in E
  <2> HIDE DEF E, S, all
  <2>1. /\ Len(failures') = Len(failures) + Len(more) /\ failures' \in Seq(S)
        /\ Len(failures) \in Nat /\ Len(more) \in Nat
        /\ DOMAIN failures = 1 .. Len(failures) /\ DOMAIN more = 1 .. Len(more)
        /\ \A i \in 1 .. Len(failures) : failures'[i] = failures[i]
        /\ \A i \in 1 .. Len(more) : failures'[Len(failures) + i] = more[i]
    BY <1>1, <1>2
  <2>2. DOMAIN failures' = 1 .. (Len(failures) + Len(more))
    BY <2>1
  <2>3. \A i \in 1 .. (Len(failures) + Len(more)) :
          \/ i \in 1 .. Len(failures)
          \/ /\ i - Len(failures) \in 1 .. Len(more)
             /\ Len(failures) + (i - Len(failures)) = i
    BY <2>1
  <2>4. Raised' \subseteq Raised \cup ToSet(more)
    <3> SUFFICES ASSUME NEW i \in 1 .. (Len(failures) + Len(more))
                 PROVE  failures'[i] \in Raised \cup ToSet(more)
      BY <2>2 DEF Raised, ToSet
    <3>1. CASE i \in 1 .. Len(failures)
      BY <2>1, <3>1 DEF Raised, ToSet
    <3>2. CASE /\ i - Len(failures) \in 1 .. Len(more)
               /\ Len(failures) + (i - Len(failures)) = i
      <4>1. failures'[i] = more[i - Len(failures)]
        BY <2>1, <3>2
      <4> QED
        BY <2>1, <3>2, <4>1 DEF ToSet
    <3> QED
      BY <2>3, <3>1, <3>2
  <2>5. Raised \cup ToSet(more) \subseteq Raised'
    <3>1. \A i \in 1 .. Len(failures) : i \in DOMAIN failures'
      BY <2>1, <2>2
    <3>2. \A i \in 1 .. Len(more) : Len(failures) + i \in DOMAIN failures'
      BY <2>1, <2>2
    <3> QED
      BY <2>1, <3>1, <3>2 DEF Raised, ToSet
  <2>6. failures # <<>> \/ more # <<>> => failures' # <<>>
    BY <1>1, <1>2, <2>1
  <2>7. \A d \in ToSet(more) : d \in E
    BY <1>2, <2>1 DEF ToSet
  <2> QED
    BY <2>1, <2>4, <2>5, <2>6, <2>7
<1>3. ASSUME NEW D, Raised' = Raised \cup D, \A d \in D : d \in E
      PROVE  Unclosed' = Unclosed
  <2>1. \A f : <<"close_input", f>> \notin E
    OBVIOUS
  <2> HIDE DEF E
  <2> QED
    BY <1>3, <2>1 DEF Unclosed
<1>4. all # <<>> /\ <<"discard", 0>> \in ToSet(all)
  <2> HIDE DEF E, S
  <2> QED
    BY <1>1, OneFailureMore
<1>5. CASE carrier' = "ABORTED" /\ failures' = failures \o errors
  BY <1>1, <1>2, <1>3, <1>5
<1>6. CASE carrier' = "CLEANUP_REQUIRED" /\ failures' = failures \o all
  BY <1>1, <1>2, <1>3, <1>4, <1>6
<1> QED
  BY <1>5, <1>6 DEF Discard

\* The container is published, or discarded.
LEMMA CommitKeeps ==
  ASSUME PackingInv, Commit
  PROVE  PackingInv'
<1> USE DEF PackingInv
<1>1. /\ host = "packaging" /\ operation = "returned" /\ failures = <<>>
      /\ UNCHANGED <<sources, opened, held, target, operation>>
  BY DEF Commit, ReportInv, writerVars, packagerVars
<1>2. CASE /\ carrier' = "COMMITTED" /\ receipt' = target /\ host' = "closing"
           /\ UNCHANGED failures
  <2>1. /\ Raised' = {} /\ Raised = {} /\ Unclosed' = Unclosed
        /\ failures' \in Seq(Calls \X Nat)
    BY <1>1, <1>2, NothingRaised DEF Raised, Unclosed, InputsInv
  <2>2. InputsInv'
    BY <1>1, <1>2, <2>1, InputsStay
  <2> QED
    BY <1>1, <1>2, <2>1, <2>2 DEF CarrierInv, ReportInv
<1>3. CASE Discard(<< <<"commit", 0>> >>) /\ host' = "aborting"
  <2>1. /\ << <<"commit", 0>> >> \in Seq((Calls \ {"close_input"}) \X {0})
        /\ << <<"commit", 0>> >> # <<>>
    BY DEF Calls
  <2>2. /\ failures' \in Seq(Calls \X Nat) /\ failures' # <<>>
        /\ carrier' \in {"ABORTED", "CLEANUP_REQUIRED"}
        /\ carrier' = "CLEANUP_REQUIRED" => <<"discard", 0>> \in Raised'
        /\ Unclosed' = Unclosed
    BY <1>3, <2>1, DiscardAdds
  <2>3. InputsInv'
    BY <1>1, <1>3, <2>2, InputsStay
  <2> QED
    BY <1>1, <1>3, <2>2, <2>3 DEF CarrierInv, ReportInv
<1> QED
  BY <1>2, <1>3 DEF Commit

\* The publisher is aborted.
LEMMA AbortKeeps ==
  ASSUME PackingInv, Abort
  PROVE  PackingInv'
<1> USE DEF PackingInv
<1>1. /\ host = "aborting" /\ host' = "closing" /\ failures # <<>>
      /\ carrier \in {"OPEN", "ABORTED", "CLEANUP_REQUIRED"}
      /\ UNCHANGED <<sources, opened, held, receipt, target, operation>>
  BY DEF Abort, CarrierInv, ReportInv, writerVars, packagerVars
<1>2. CASE carrier = "ABORTED" /\ UNCHANGED <<carrier, failures>>
  <2>1. Raised' = Raised /\ Unclosed' = Unclosed /\ failures' \in Seq(Calls \X Nat)
    BY <1>2 DEF Raised, Unclosed, InputsInv
  <2>2. InputsInv'
    BY <1>1, <1>2, <2>1, InputsStay
  <2> QED
    BY <1>1, <1>2, <2>2 DEF CarrierInv, ReportInv
<1>3. CASE Discard(<<>>)
  <2>1. <<>> \in Seq((Calls \ {"close_input"}) \X {0})
    OBVIOUS
  <2>2. /\ failures' \in Seq(Calls \X Nat) /\ failures' # <<>>
        /\ carrier' \in {"ABORTED", "CLEANUP_REQUIRED"}
        /\ carrier' = "CLEANUP_REQUIRED" => <<"discard", 0>> \in Raised'
        /\ Unclosed' = Unclosed
    BY <1>1, <1>3, <2>1, DiscardAdds
  <2>3. InputsInv'
    BY <1>1, <1>3, <2>2, InputsStay
  <2> QED
    BY <1>1, <1>3, <2>2, <2>3 DEF CarrierInv, ReportInv
<1> QED
  BY <1>2, <1>3 DEF Abort

\* Every step keeps the invariant.
LEMMA StepPacking == PackingInv /\ [Next]_vars => PackingInv'
<1> SUFFICES ASSUME PackingInv, [Next]_vars PROVE PackingInv'
  OBVIOUS
<1>1. CASE UNCHANGED vars
  <2>1. /\ UNCHANGED <<sources, host, opened, held, carrier, receipt, failures,
                       target, operation>>
        /\ Raised' = Raised /\ Unclosed' = Unclosed
        /\ Objects' = Objects /\ Files' = Files
    BY <1>1 DEF vars, writerVars, packagerVars, hostVars, Raised, Unclosed, Objects,
                Files
  <2> QED
    BY <2>1 DEF PackingInv, InputsInv, CarrierInv, ReportInv
<1> QED
  BY <1>1, OpeningKeeps, ClosingKeeps, LeavingKeeps, OpenCarrierKeeps,
     PackageKeeps, PackagingFailureKeeps, CommitKeeps, AbortKeeps DEF Next

-----------------------------------------------------------------------------
(* Nothing is left behind.                                                 *)

\* However packing goes, and whichever calls fail on the way, in the end no
\* input file and no buffer is left open unless the caller is told, and a
\* container is published just when it was complete.
THEOREM PackingLeavesNothing == Spec => []NothingIsLeftBehind
<1>1. PackingInv => NothingIsLeftBehind
  <2> SUFFICES ASSUME PackingInv, host = "done" PROVE NothingIsLeftBehind
    BY DEF NothingIsLeftBehind
  <2>1. /\ Files \in Nat /\ Objects = 1 .. Files /\ Len(opened) = 0
    BY FilesAreNumbered DEF PackingInv, InputsInv
  <2>2. held = {f \in Objects : <<"close_input", f>> \in ToSet(failures)}
    BY <2>1 DEF PackingInv, InputsInv, Unclosed, Raised
  <2>3. /\ carrier \in {"NEW", "ABORTED", "CLEANUP_REQUIRED", "COMMITTED"}
        /\ failures = <<>> => carrier = "COMMITTED"
    BY DEF PackingInv, CarrierInv, ReportInv
  <2>4. /\ carrier = "CLEANUP_REQUIRED" => <<"discard", 0>> \in ToSet(failures)
        /\ carrier = "COMMITTED" =>
             /\ receipt = target /\ operation = "returned"
             /\ \A failure \in ToSet(failures) : failure[1] = "close_input"
    BY DEF PackingInv, ReportInv, Raised
  <2> QED
    BY <2>2, <2>3, <2>4 DEF NothingIsLeftBehind
<1> QED
  BY <1>1, InitPacking, StepPacking, PTL DEF Spec

-----------------------------------------------------------------------------
(* One stage, one chunk after the other.                                   *)

\* The sizes while the data goes through one stage after the other.
Staging(f, stages, size, n) ==
  f = [k \in 0 .. n |-> IF k = 0 THEN size ELSE SizeAfter(stages[k], f[k - 1])]

\* The sessions while one chunk is read after the other.
Decoding(f, policy, manifest, chunks, decoders, wanted, n) ==
  f = [k \in 0 .. n |->
        IF k = 0 THEN Opened(policy, manifest)
        ELSE DecodedNext(policy, manifest, f[k - 1], chunks[k], decoders, wanted)]

\* They come about: there is no smallest number of stages without.
LEMMA StagingExists ==
  ASSUME NEW stages, NEW size, NEW n \in Nat
  PROVE  \E f : Staging(f, stages, size, n)
<1> DEFINE Without == {m \in Nat : ~\E f : Staging(f, stages, size, m)}
<1>1. CASE Without # {}
  <2>1. PICK m \in Without : \A k \in Without : m <= k
    BY <1>1, LeastNumber
  <2>2. CASE m = 0
    <3>1. Staging([k \in 0 .. 0 |-> size], stages, size, 0)
      BY DEF Staging
    <3> QED
      BY <2>1, <2>2, <3>1
  <2>3. CASE m # 0
    <3>1. m - 1 \in Nat /\ m - 1 \notin Without
      BY <2>1, <2>3
    <3>2. PICK f : Staging(f, stages, size, m - 1)
      BY <3>1
    <3> DEFINE g == [k \in 0 .. m |-> IF k = m THEN SizeAfter(stages[m], f[m - 1])
                                      ELSE f[k]]
    <3>3. ASSUME NEW k \in 0 .. m
          PROVE  g[k] = IF k = 0 THEN size ELSE SizeAfter(stages[k], g[k - 1])
      <4>1. CASE k = m
        BY <2>3, <3>1, <4>1
      <4>2. CASE k # m
        <5>1. k \in 0 .. (m - 1) /\ (k # 0 => k - 1 \in 0 .. m /\ k - 1 # m)
          BY <4>2
        <5> QED
          BY <3>2, <4>2, <5>1 DEF Staging
      <4> QED
        BY <4>1, <4>2
    <3>4. Staging(g, stages, size, m)
      <4> DEFINE h == [k \in 0 .. m |-> IF k = 0 THEN size
                                        ELSE SizeAfter(stages[k], g[k - 1])]
      <4>1. g = h
        BY <3>3
      <4> QED
        BY <4>1 DEF Staging
    <3> QED
      BY <2>1, <3>4
  <2> QED
    BY <2>2, <2>3
<1>2. CASE Without = {}
  BY <1>2
<1> QED
  BY <1>1, <1>2

\* So do the sessions of a decoding.
LEMMA DecodingExists ==
  ASSUME NEW policy, NEW manifest, NEW chunks, NEW decoders, NEW wanted, NEW n \in Nat
  PROVE  \E f : Decoding(f, policy, manifest, chunks, decoders, wanted, n)
<1> DEFINE D(f, m) == Decoding(f, policy, manifest, chunks, decoders, wanted, m)
           Then(s, k) == DecodedNext(policy, manifest, s, chunks[k], decoders, wanted)
           Without == {m \in Nat : ~\E f : D(f, m)}
<1>1. CASE Without # {}
  <2>1. PICK m \in Without : \A k \in Without : m <= k
    BY <1>1, LeastNumber
  <2>2. CASE m = 0
    <3>1. D([k \in 0 .. 0 |-> Opened(policy, manifest)], 0)
      BY DEF Decoding
    <3> QED
      BY <2>1, <2>2, <3>1
  <2>3. CASE m # 0
    <3>1. m - 1 \in Nat /\ m - 1 \notin Without
      BY <2>1, <2>3
    <3>2. PICK f : D(f, m - 1)
      BY <3>1
    <3> DEFINE g == [k \in 0 .. m |-> IF k = m THEN Then(f[m - 1], m) ELSE f[k]]
    <3>3. ASSUME NEW k \in 0 .. m
          PROVE  g[k] = IF k = 0 THEN Opened(policy, manifest) ELSE Then(g[k - 1], k)
      <4>1. CASE k = m
        BY <2>3, <3>1, <4>1
      <4>2. CASE k # m
        <5>1. k \in 0 .. (m - 1) /\ (k # 0 => k - 1 \in 0 .. m /\ k - 1 # m)
          BY <4>2
        <5> QED
          BY <3>2, <4>2, <5>1 DEF Decoding
      <4> QED
        BY <4>1, <4>2
    <3>4. D(g, m)
      <4> DEFINE h == [k \in 0 .. m |-> IF k = 0 THEN Opened(policy, manifest)
                                        ELSE Then(g[k - 1], k)]
      <4>1. g = h
        BY <3>3
      <4> QED
        BY <4>1 DEF Decoding
    <3> QED
      BY <2>1, <3>4
  <2> QED
    BY <2>2, <2>3
<1>2. CASE Without = {}
  BY <1>2
<1> QED
  BY <1>1, <1>2

\* SizesThrough() is what comes about after the stages, one by one.
LEMMA SizesAreStaged ==
  ASSUME NEW C, NEW stages \in Seq(C), NEW size
  PROVE  Staging(SizesThrough(stages, size), stages, size, Len(stages))
<1> DEFINE after ==
      CHOOSE f : f = [k \in 0 .. Len(stages) |->
                       IF k = 0 THEN size ELSE SizeAfter(stages[k], f[k - 1])]
<1>1. Staging(after, stages, size, Len(stages))
  BY StagingExists DEF Staging
<1>2. SizesThrough(stages, size) = after
  BY DEF SizesThrough
<1> QED
  BY <1>1, <1>2

\* Decode() charges the end of the container to the last of its sessions.
LEMMA DecodeIsLast ==
  ASSUME NEW policy, NEW manifest, NEW C, NEW chunks \in Seq(C), NEW decoders, NEW wanted
  PROVE  \E f : /\ Decoding(f, policy, manifest, chunks, decoders, wanted, Len(chunks))
                /\ Decode(policy, manifest, chunks, decoders, wanted) =
                     Charged(policy, f[Len(chunks)],
                             <<<<"container_bytes", RecordHeaderSize>>>>)
<1> DEFINE after ==
      CHOOSE f : f = [k \in 0 .. Len(chunks) |->
                       IF k = 0 THEN Opened(policy, manifest)
                       ELSE DecodedNext(policy, manifest, f[k - 1], chunks[k], decoders, wanted)]
<1>1. Decoding(after, policy, manifest, chunks, decoders, wanted, Len(chunks))
  <2>1. Len(chunks) \in Nat
    OBVIOUS
  <2>2. \E f : Decoding(f, policy, manifest, chunks, decoders, wanted, Len(chunks))
    BY <2>1, DecodingExists
  <2> QED
    BY <2>2 DEF Decoding
<1>2. Decode(policy, manifest, chunks, decoders, wanted) =
        Charged(policy, after[Len(chunks)], <<<<"container_bytes", RecordHeaderSize>>>>)
  BY DEF Decode
<1> QED
  BY <1>1, <1>2

-----------------------------------------------------------------------------
(* What is charged for a chunk.                                            *)

\* Pairs in a row.
LEMMA FivePairs ==
  ASSUME NEW a, NEW b, NEW c, NEW d, NEW e
  PROVE  /\ <<a>> \o <<b, c, d>> \o <<e>> = <<a, b, c, d, e>>
         /\ <<a, b>> \o <<c, d, e>> = <<a, b, c, d, e>>
<1> DEFINE S == {a, b, c, d, e}
           t == <<a, b, c, d, e>>
<1>1. /\ <<a>> \in Seq(S) /\ <<b, c, d>> \in Seq(S) /\ <<e>> \in Seq(S)
      /\ <<a, b>> \in Seq(S) /\ <<c, d, e>> \in Seq(S) /\ t \in Seq(S)
  OBVIOUS
<1>2. /\ Len(<<a>>) = 1 /\ Len(<<b, c, d>>) = 3 /\ Len(<<e>>) = 1
      /\ Len(<<a, b>>) = 2 /\ Len(<<c, d, e>>) = 3 /\ Len(t) = 5
      /\ t[1] = a /\ t[2] = b /\ t[3] = c /\ t[4] = d /\ t[5] = e
  OBVIOUS
<1>3. ASSUME NEW p \in Seq(S), Len(p) = 5,
             p[1] = a, p[2] = b, p[3] = c, p[4] = d, p[5] = e
      PROVE  p = t
  <2> HIDE DEF S, t
  <2>1. \A i \in 1 .. 5 : i = 1 \/ i = 2 \/ i = 3 \/ i = 4 \/ i = 5
    OBVIOUS
  <2>2. \A i \in 1 .. 5 : p[i] = t[i]
    BY <1>2, <1>3, <2>1
  <2> QED
    BY <1>1, <1>2, <1>3, <2>2
<1>4. <<a>> \o <<b, c, d>> \o <<e>> = t
  <2> DEFINE q == <<a>> \o <<b, c, d>>
             p == q \o <<e>>
  <2> HIDE DEF S, t
  <2>1. /\ q \in Seq(S) /\ Len(q) = 4
        /\ q[1] = a /\ q[2] = b /\ q[3] = c /\ q[4] = d
    BY <1>1, <1>2
  <2> HIDE DEF q
  <2> DEFINE r == <<e>>
  <2>4. r \in Seq(S) /\ Len(r) = 1 /\ r[1] = e
    BY <1>1
  <2> HIDE DEF r
  <2>5. /\ q \o r \in Seq(S) /\ Len(q \o r) = 5
        /\ \A i \in 1 .. 4 : (q \o r)[i] = q[i]
        /\ (q \o r)[5] = r[1]
    <3>1. /\ q \o r \in Seq(S) /\ Len(q \o r) = Len(q) + Len(r)
          /\ \A i \in 1 .. Len(q) : (q \o r)[i] = q[i]
          /\ \A i \in 1 .. Len(r) : (q \o r)[Len(q) + i] = r[i]
      <4>1. q \in Seq(S) /\ r \in Seq(S)
        BY <2>1, <2>4
      <4> QED
        BY <4>1, Joined
    <3>4. Len(q) = 4 /\ Len(r) = 1
      BY <2>1, <2>4
    <3> HIDE DEF p
    <3>5. (q \o r)[5] = r[1]
      <4>1. 1 \in 1 .. Len(r) /\ Len(q) + 1 = 5
        BY <3>4
      <4> QED
        BY <3>1, <4>1
    <3>6. \A i \in 1 .. 4 : i \in 1 .. Len(q)
      BY <3>4
    <3>7. \A i \in 1 .. 4 : (q \o r)[i] = q[i]
      BY <3>1, <3>6
    <3> QED
      BY <3>1, <3>4, <3>5, <3>7
  <2>2. /\ p \in Seq(S) /\ Len(p) = 5
        /\ p[1] = a /\ p[2] = b /\ p[3] = c /\ p[4] = d /\ p[5] = e
    BY <2>1, <2>4, <2>5 DEF r
  <2> HIDE DEF p
  <2>3. p = t
    BY <1>3, <2>2
  <2> QED
    BY <2>3 DEF p, q
<1>5. <<a, b>> \o <<c, d, e>> = t
  <2> DEFINE p == <<a, b>> \o <<c, d, e>>
  <2> HIDE DEF S, t
  <2>1. /\ p \in Seq(S) /\ Len(p) = 5
        /\ p[1] = a /\ p[2] = b /\ p[3] = c /\ p[4] = d /\ p[5] = e
    BY <1>1, <1>2
  <2> HIDE DEF p
  <2>2. p = t
    BY <1>3, <2>1
  <2> QED
    BY <2>2 DEF p
<1> QED
  BY <1>4, <1>5

\* The resources that coding charges, and those of which only the peak is kept.
LEMMA CoreNames ==
  /\ "logical_bytes" \in CoreResource /\ "chunks" \in CoreResource
  /\ "container_bytes" \in CoreResource /\ "stage_executions" \in CoreResource
  /\ "logical_chunk_bytes" \in CoreResource \ TotalResources
  /\ "encoded_chunk_bytes" \in CoreResource \ TotalResources
  /\ "intermediate_bytes" \in CoreResource \ TotalResources
  /\ "manifest_bytes" \in CoreResource \ TotalResources
  /\ TotalResources = {"container_bytes", "chunks", "logical_bytes", "stage_executions"}
BY DEF CoreResource, TotalResources, PeakResources

\* What encoding charges, in order.
LEMMA EncodingCharges ==
  ASSUME NEW stages \in Seq(STRING), NEW size \in Nat, NEW encoded \in Nat
  PROVE  LET charges == <<<<"logical_chunk_bytes", size>>>>
                          \o ExecutionCharges(stages, size, size)
                          \o <<<<"encoded_chunk_bytes", encoded>>>>
         IN  /\ charges \in Charges /\ Len(charges) = 5
             /\ charges[1] = <<"logical_chunk_bytes", size>>
             /\ charges[2] = <<"logical_bytes", size>>
             /\ charges[3] = <<"intermediate_bytes", size>>
             /\ charges[4] = <<"stage_executions", Len(stages)>>
             /\ charges[5] = <<"encoded_chunk_bytes", encoded>>
<1> DEFINE a == <<"logical_chunk_bytes", size>>
           b == <<"logical_bytes", size>>
           c == <<"intermediate_bytes", size>>
           d == <<"stage_executions", Len(stages)>>
           e == <<"encoded_chunk_bytes", encoded>>
           S == CoreResource \X Nat
<1>1. a \in S /\ b \in S /\ c \in S /\ d \in S /\ e \in S
  BY CoreNames
<1>2. ExecutionCharges(stages, size, size) = <<b, c, d>>
  BY DEF ExecutionCharges
<1> HIDE DEF a, b, c, d, e, S
<1>3. <<a>> \o <<b, c, d>> \o <<e>> = <<a, b, c, d, e>>
  BY FivePairs, ZenonT(30)
<1>4. /\ <<a, b, c, d, e>> \in Seq(S) /\ Len(<<a, b, c, d, e>>) = 5
      /\ <<a, b, c, d, e>>[1] = a /\ <<a, b, c, d, e>>[2] = b
      /\ <<a, b, c, d, e>>[3] = c /\ <<a, b, c, d, e>>[4] = d
      /\ <<a, b, c, d, e>>[5] = e
  BY <1>1
<1> QED
  BY <1>2, <1>3, <1>4 DEF a, b, c, d, e, S, Charges

\* The four charges of reading a chunk.
LEMMA RecordCharges ==
  ASSUME NEW chunk \in Chunks
  PROVE  LET charges == ReadingCharges(chunk)
         IN  /\ charges \in Charges /\ Len(charges) = 4
             /\ charges[1] = <<"encoded_chunk_bytes", chunk.encoded>>
             /\ charges[2] = <<"logical_chunk_bytes", chunk.logical>>
             /\ charges[3] = <<"chunks", 1>>
             /\ charges[4] = <<"container_bytes", ChunkSize(chunk)>>
<1> DEFINE a == <<"encoded_chunk_bytes", chunk.encoded>>
           b == <<"logical_chunk_bytes", chunk.logical>>
           c == <<"chunks", 1>>
           d == <<"container_bytes", ChunkSize(chunk)>>
           S == CoreResource \X Nat
<1>1. a \in S /\ b \in S /\ c \in S /\ d \in S
  BY CoreNames, ChunkSizes
<1>2. ReadingCharges(chunk) = <<a, b, c, d>>
  BY DEF ReadingCharges
<1> HIDE DEF a, b, c, d, S
<1>4. /\ <<a, b, c, d>> \in Seq(S) /\ Len(<<a, b, c, d>>) = 4
      /\ <<a, b, c, d>>[1] = a /\ <<a, b, c, d>>[2] = b
      /\ <<a, b, c, d>>[3] = c /\ <<a, b, c, d>>[4] = d
  BY <1>1
<1> QED
  BY <1>2, <1>4 DEF a, b, c, d, S, Charges

\* The charge for bytes of the container.
LEMMA ByteCharges ==
  ASSUME NEW n \in Nat
  PROVE  LET charges == <<<<"container_bytes", n>>>>
         IN  charges \in Charges /\ Len(charges) = 1 /\ charges[1] = <<"container_bytes", n>>
<1> DEFINE a == <<"container_bytes", n>>
           S == CoreResource \X Nat
<1>1. a \in S
  BY CoreNames
<1> HIDE DEF a, S
<1>2. <<a>> \in Seq(S) /\ Len(<<a>>) = 1 /\ <<a>>[1] = a
  BY <1>1
<1> QED
  BY <1>2 DEF a, S, Charges

-----------------------------------------------------------------------------
(* Encoding and decoding a chunk.                                          *)

\* What a chunk needs of a policy and its registry, the totals aside, to be decoded.
Decodable(policy, stages, c) ==
  /\ stages \in Seq(STRING)
  /\ c.id.through = stages
  /\ Allows(policy, "logical_chunk_bytes", c.logical)
  /\ Allows(policy, "encoded_chunk_bytes", c.encoded)
  /\ Allows(policy, "intermediate_bytes", c.encoded)
  /\ \A k \in 0 .. (Len(stages) - 1) :
       Allows(policy, "intermediate_bytes", SizesThrough(stages, c.logical)[k])

\* What is charged when a chunk is encoded, and what it says if it was not refused:
\* the chunk can be decoded under the same policy.
LEMMA EncodingFacts ==
  ASSUME NEW policy \in Policy, NEW s, IsSession(s), WithinPolicy(policy, s.account),
         NEW data, NEW id, NEW recipe, recipe.stages \in Seq(STRING),
         EncodedChunk(data, id, recipe) \in Chunks,
         NEW t, t = EncodeChunk(policy, s, data, id, recipe)
  PROVE  LET c == EncodedChunk(data, id, recipe) IN
         /\ t.ok \in BOOLEAN /\ t.account \in Account /\ t.output = c
         /\ WithinPolicy(policy, t.account)
         /\ \A r \in CoreResource : s.account[r] <= t.account[r]
         /\ t.account["chunks"] = s.account["chunks"]
         /\ t.ok =>
              /\ Decodable(policy, recipe.stages, c)
              /\ s.account["logical_bytes"] + c.logical <= t.account["logical_bytes"]
              /\ s.account["stage_executions"] + Len(c.id.through)
                   <= t.account["stage_executions"]
<1> DEFINE stages == recipe.stages
           c == EncodedChunk(data, id, recipe)
           sizes == SizesThrough(stages, data.size)
           n == Len(stages)
           charges == <<<<"logical_chunk_bytes", data.size>>>>
                        \o ExecutionCharges(stages, data.size, data.size)
                        \o <<<<"encoded_chunk_bytes", sizes[n]>>>>
           charged == Charged(policy, s, charges)
<1>1. /\ c.logical = data.size /\ c.encoded = sizes[n] /\ c.id.through = stages
      /\ data.size \in Nat /\ sizes[n] \in Nat
  <2>1. c.logical = data.size /\ c.encoded = sizes[n] /\ c.id.through = stages
    BY DEF EncodedChunk
  <2>2. c.logical \in Nat /\ c.encoded \in Nat
    BY ChunkSizes
  <2> QED
    BY <2>1, <2>2
<1>2. t = [Require(charged, StagesFit(policy, sizes, n)) EXCEPT !.output = c]
  BY DEF EncodeChunk
<1>3. /\ n \in Nat /\ Staging(sizes, stages, data.size, n)
  BY SizesAreStaged
<1>4. sizes[0] = data.size
  BY <1>3 DEF Staging
<1> HIDE DEF c, sizes
<1>5. /\ charges \in Charges /\ Len(charges) = 5
      /\ charges[1] = <<"logical_chunk_bytes", data.size>>
      /\ charges[2] = <<"logical_bytes", data.size>>
      /\ charges[3] = <<"intermediate_bytes", data.size>>
      /\ charges[4] = <<"stage_executions", n>>
      /\ charges[5] = <<"encoded_chunk_bytes", sizes[n]>>
  BY <1>1, EncodingCharges
<1> HIDE DEF charges
<1>6. /\ IsSession(charged) /\ WithinPolicy(policy, charged.account)
      /\ \A r \in CoreResource : s.account[r] <= charged.account[r]
      /\ \A r \in CoreResource :
           (\A k \in 1 .. Len(charges) : charges[k][1] # r)
             => charged.account[r] = s.account[r]
      /\ charged.ok =>
           \A k \in 1 .. Len(charges) :
             /\ Allows(policy, charges[k][1], charges[k][2])
             /\ charges[k][1] \in TotalResources =>
                  s.account[charges[k][1]] + charges[k][2]
                    <= charged.account[charges[k][1]]
  <2>1. charged = Charged(policy, s, charges)
    OBVIOUS
  <2> HIDE DEF charged
  <2>2. IsSession(charged)
    BY <1>5, <2>1, ChargedFacts
  <2>3. WithinPolicy(policy, charged.account)
    BY <1>5, <2>1, ChargedFacts
  <2>4. \A r \in CoreResource : s.account[r] <= charged.account[r]
    BY <1>5, <2>1, ChargedFacts
  <2>5. Untouched(charged, s, charges)
    BY <1>5, <2>1, ChargedFacts
  <2>6. charged.ok =>
          \A k \in 1 .. Len(charges) :
            /\ Allows(policy, charges[k][1], charges[k][2])
            /\ charges[k][1] \in TotalResources =>
                 s.account[charges[k][1]] + charges[k][2]
                   <= charged.account[charges[k][1]]
    BY <1>5, <2>1, ChargedFacts
  <2> QED
    BY <2>2, <2>3, <2>4, <2>5, <2>6 DEF Untouched
<1> HIDE DEF charged, n
<1>7. /\ t.ok = (charged.ok /\ StagesFit(policy, sizes, n))
      /\ t.account = charged.account /\ t.output = c
  <2>1. /\ charged = [ok |-> charged.ok, account |-> charged.account,
                      output |-> charged.output]
        /\ charged.ok \in BOOLEAN
    BY <1>6 DEF IsSession
  <2>2. Require(charged, StagesFit(policy, sizes, n)) =
          [ok |-> charged.ok /\ StagesFit(policy, sizes, n),
           account |-> charged.account, output |-> charged.output]
    BY <2>1 DEF Require
  <2> QED
    BY <1>2, <2>2
<1>8. t.account["chunks"] = s.account["chunks"]
  <2>1. \A k \in 1 .. 5 : k = 1 \/ k = 2 \/ k = 3 \/ k = 4 \/ k = 5
    OBVIOUS
  <2>2. \A k \in 1 .. 5 : charges[k][1] # "chunks"
    BY <1>5, <2>1
  <2> QED
    BY <1>5, <1>6, <1>7, <2>2, CoreNames
<1>9. ASSUME t.ok
      PROVE  /\ Decodable(policy, stages, c)
             /\ s.account["logical_bytes"] + c.logical <= t.account["logical_bytes"]
             /\ s.account["stage_executions"] + Len(c.id.through)
                  <= t.account["stage_executions"]
  <2>1. charged.ok /\ StagesFit(policy, sizes, n)
    BY <1>7, <1>9
  <2>2. \A k \in 1 .. 5 :
          /\ Allows(policy, charges[k][1], charges[k][2])
          /\ charges[k][1] \in TotalResources =>
               s.account[charges[k][1]] + charges[k][2] <= t.account[charges[k][1]]
    BY <1>5, <1>6, <1>7, <2>1
  <2>3. 1 \in 1 .. 5 /\ 2 \in 1 .. 5 /\ 3 \in 1 .. 5 /\ 4 \in 1 .. 5 /\ 5 \in 1 .. 5
    OBVIOUS
  <2>4. /\ Allows(policy, "logical_chunk_bytes", data.size)
        /\ Allows(policy, "intermediate_bytes", data.size)
        /\ Allows(policy, "encoded_chunk_bytes", sizes[n])
        /\ s.account["logical_bytes"] + data.size <= t.account["logical_bytes"]
        /\ s.account["stage_executions"] + n <= t.account["stage_executions"]
    BY <1>5, <2>2, <2>3, CoreNames
  <2>5. \A k \in 0 .. n : Allows(policy, "intermediate_bytes", sizes[k])
    <3>1. \A k \in 0 .. n : k = 0 \/ k \in 1 .. n
      BY <1>3
    <3> QED
      BY <1>4, <2>1, <2>4, <3>1 DEF StagesFit
  <2>6. Decodable(policy, stages, c)
    <3>1. Allows(policy, "intermediate_bytes", sizes[n])
      BY <1>3, <2>5
    <3>2. \A k \in 0 .. (n - 1) :
            Allows(policy, "intermediate_bytes", SizesThrough(stages, c.logical)[k])
      <4>1. \A k \in 0 .. (n - 1) : k \in 0 .. n
        BY <1>3
      <4> QED
        BY <1>1, <2>5, <4>1 DEF sizes
    <3> QED
      BY <1>1, <2>4, <3>1, <3>2 DEF Decodable, n
  <2> QED
    BY <1>1, <2>4, <2>6 DEF n
<1> QED
  BY <1>6, <1>7, <1>8, <1>9 DEF IsSession, c

\* The totals of a session.
TotalsAre(s, container, chunks, logical, executions) ==
  /\ s.account["container_bytes"] = container
  /\ s.account["chunks"] = chunks
  /\ s.account["logical_bytes"] = logical
  /\ s.account["stage_executions"] = executions

\* A session that nothing was refused to.
Good(policy, s) == IsSession(s) /\ s.ok /\ WithinPolicy(policy, s.account)

\* Bytes of the container are read.
LEMMA BytesFacts ==
  ASSUME NEW policy \in Policy, NEW s, Good(policy, s), NEW n \in Nat,
         NEW b \in Nat, NEW k, NEW l, NEW e, TotalsAre(s, b, k, l, e),
         Allows(policy, "container_bytes", b + n),
         NEW t, t = Charged(policy, s, <<<<"container_bytes", n>>>>)
  PROVE  Good(policy, t) /\ SameOutput(s, t) /\ TotalsAre(t, b + n, k, l, e)
<1> DEFINE charges == <<<<"container_bytes", n>>>>
<1>1. /\ charges \in Charges /\ Len(charges) = 1
      /\ charges[1] = <<"container_bytes", n>>
  BY ByteCharges
<1>2. t = Charged(policy, s, charges)
  OBVIOUS
<1> HIDE DEF charges
<1>3. IsSession(s) /\ s.ok /\ WithinPolicy(policy, s.account)
  BY DEF Good
<1>4. (\A i \in 1 .. Len(charges) : i = 1) /\ 1 \in 1 .. Len(charges)
  BY <1>1
<1>5. \A i \in 1 .. Len(charges) :
        IF charges[i][1] \in TotalResources
        THEN /\ Allows(policy, charges[i][1], s.account[charges[i][1]] + charges[i][2])
             /\ \A j \in 1 .. Len(charges) : charges[j][1] = charges[i][1] => j = i
        ELSE Allows(policy, charges[i][1], charges[i][2])
  BY <1>1, <1>4, CoreNames DEF TotalsAre
<1>6. AllTaken(t, s, charges)
  BY <1>1, <1>2, <1>3, <1>5, ChargedFits
<1>7. t.ok /\ t.account["container_bytes"] = b + n
  BY <1>1, <1>4, <1>6, CoreNames DEF AllTaken, TotalsAre
<1>8. IsSession(t)
  BY <1>1, <1>2, <1>3, ChargedFacts
<1>9. WithinPolicy(policy, t.account)
  BY <1>1, <1>2, <1>3, ChargedFacts
<1>10. SameOutput(s, t)
  BY <1>1, <1>2, <1>3, ChargedFacts
<1>11. Untouched(t, s, charges)
  BY <1>1, <1>2, <1>3, ChargedFacts
<1>12. TotalsAre(t, b + n, k, l, e)
  BY <1>1, <1>4, <1>7, <1>11, CoreNames DEF TotalsAre, Untouched
<1> QED
  BY <1>7, <1>8, <1>9, <1>10, <1>12 DEF Good

\* The record of a chunk is read.
LEMMA ReadingFacts ==
  ASSUME NEW policy \in Policy, NEW s, Good(policy, s), NEW c \in Chunks,
         NEW b \in Nat, NEW k \in Nat, NEW l \in Nat, NEW e \in Nat, TotalsAre(s, b, k, l, e),
         Allows(policy, "logical_chunk_bytes", c.logical),
         Allows(policy, "encoded_chunk_bytes", c.encoded),
         Allows(policy, "container_bytes", b + ChunkSize(c)),
         Allows(policy, "chunks", k + 1),
         NEW t, t = Charged(policy, s, ReadingCharges(c))
  PROVE  Good(policy, t) /\ SameOutput(s, t) /\ TotalsAre(t, b + ChunkSize(c), k + 1, l, e)
<1> DEFINE charges == ReadingCharges(c)
<1>1. /\ charges \in Charges /\ Len(charges) = 4
      /\ charges[1] = <<"encoded_chunk_bytes", c.encoded>>
      /\ charges[2] = <<"logical_chunk_bytes", c.logical>>
      /\ charges[3] = <<"chunks", 1>>
      /\ charges[4] = <<"container_bytes", ChunkSize(c)>>
  BY RecordCharges
<1>2. t = Charged(policy, s, charges)
  OBVIOUS
<1> HIDE DEF charges
<1>3. IsSession(s) /\ s.ok /\ WithinPolicy(policy, s.account)
  BY DEF Good
<1>4. /\ \A i \in 1 .. Len(charges) : i = 1 \/ i = 2 \/ i = 3 \/ i = 4
      /\ 3 \in 1 .. Len(charges) /\ 4 \in 1 .. Len(charges)
  BY <1>1
<1>5. \A i \in 1 .. Len(charges) :
        IF charges[i][1] \in TotalResources
        THEN /\ Allows(policy, charges[i][1], s.account[charges[i][1]] + charges[i][2])
             /\ \A j \in 1 .. Len(charges) : charges[j][1] = charges[i][1] => j = i
        ELSE Allows(policy, charges[i][1], charges[i][2])
  <2> SUFFICES ASSUME NEW i \in 1 .. Len(charges)
               PROVE  IF charges[i][1] \in TotalResources
                      THEN /\ Allows(policy, charges[i][1],
                                     s.account[charges[i][1]] + charges[i][2])
                           /\ \A j \in 1 .. Len(charges) :
                                charges[j][1] = charges[i][1] => j = i
                      ELSE Allows(policy, charges[i][1], charges[i][2])
    OBVIOUS
  <2>1. CASE i = 1
    BY <1>1, <2>1, CoreNames
  <2>2. CASE i = 2
    BY <1>1, <2>2, CoreNames
  <2>3. CASE i = 3
    BY <1>1, <1>4, <2>3, CoreNames DEF TotalsAre
  <2>4. CASE i = 4
    BY <1>1, <1>4, <2>4, CoreNames DEF TotalsAre
  <2> QED
    BY <1>4, <2>1, <2>2, <2>3, <2>4
<1>6. AllTaken(t, s, charges)
  BY <1>1, <1>2, <1>3, <1>5, ChargedFits
<1>7. /\ t.ok
      /\ \A i \in 1 .. Len(charges) :
           charges[i][1] \in TotalResources =>
             t.account[charges[i][1]] = s.account[charges[i][1]] + charges[i][2]
  BY <1>6 DEF AllTaken
<1>8. IsSession(t)
  BY <1>1, <1>2, <1>3, ChargedFacts
<1>9. WithinPolicy(policy, t.account)
  BY <1>1, <1>2, <1>3, ChargedFacts
<1>10. SameOutput(s, t)
  BY <1>1, <1>2, <1>3, ChargedFacts
<1>11. Untouched(t, s, charges)
  BY <1>1, <1>2, <1>3, ChargedFacts
<1>12. TotalsAre(t, b + ChunkSize(c), k + 1, l, e)
  <2>1. t.account["chunks"] = k + 1 /\ t.account["container_bytes"] = b + ChunkSize(c)
    BY <1>1, <1>4, <1>7, CoreNames DEF TotalsAre
  <2>2. t.account["logical_bytes"] = l /\ t.account["stage_executions"] = e
    BY <1>1, <1>4, <1>11, CoreNames DEF TotalsAre, Untouched
  <2> QED
    BY <2>1, <2>2 DEF TotalsAre
<1> QED
  BY <1>7, <1>8, <1>9, <1>10, <1>12 DEF Good

\* What decoding a chunk adds to what was put out.
PutsOut(s, t, c) ==
  t.output = Append(s.output, [stream |-> c.stream, content |-> c.id.content])

\* A chunk is decoded.
LEMMA DecodingFacts ==
  ASSUME NEW policy \in Policy, NEW s, Good(policy, s), NEW c \in Chunks,
         NEW b \in Nat, NEW k \in Nat, NEW l \in Nat, NEW e \in Nat, TotalsAre(s, b, k, l, e),
         NEW recipe, Decodable(policy, recipe.stages, c),
         NEW decoders, ToSet(recipe.stages) \subseteq decoders,
         Allows(policy, "logical_bytes", l + c.logical),
         Allows(policy, "stage_executions", e + Len(c.id.through)),
         NEW t, t = DecodeChunk(policy, s, c, recipe, decoders)
  PROVE  /\ Good(policy, t)
         /\ PutsOut(s, t, c)
         /\ TotalsAre(t, b, k, l + c.logical, e + Len(c.id.through))
<1> DEFINE stages == recipe.stages
           charges == <<<<"encoded_chunk_bytes", c.encoded>>,
                        <<"logical_chunk_bytes", c.logical>>>>
                        \o ExecutionCharges(stages, c.encoded, c.logical)
           u == Charged(policy, s, charges)
           out == Append(u.output, [stream |-> c.stream, content |-> c.id.content])
           decodes == /\ ToSet(stages) \subseteq decoders
                      /\ c.id.through = stages
                      /\ \A j \in 0 .. (Len(stages) - 1) :
                           Allows(policy, "intermediate_bytes",
                                  SizesThrough(stages, c.logical)[j])
<1>0. /\ stages \in Seq(STRING) /\ c.id.through = stages /\ decodes
      /\ c.encoded \in Nat /\ c.logical \in Nat
  BY ChunkSizes DEF Decodable
<1>a. t = [Require(u, decodes) EXCEPT !.output = out]
  BY DEF DecodeChunk
<1> HIDE DEF decodes
<1>1. /\ charges \in Charges /\ Len(charges) = 5
      /\ charges[1] = <<"encoded_chunk_bytes", c.encoded>>
      /\ charges[2] = <<"logical_chunk_bytes", c.logical>>
      /\ charges[3] = <<"logical_bytes", c.logical>>
      /\ charges[4] = <<"intermediate_bytes", c.encoded>>
      /\ charges[5] = <<"stage_executions", Len(stages)>>
  <2> DEFINE p1 == <<"encoded_chunk_bytes", c.encoded>>
             p2 == <<"logical_chunk_bytes", c.logical>>
             p3 == <<"logical_bytes", c.logical>>
             p4 == <<"intermediate_bytes", c.encoded>>
             p5 == <<"stage_executions", Len(stages)>>
             S == CoreResource \X Nat
  <2>1. Len(stages) \in Nat
    BY <1>0
  <2>2. p1 \in S /\ p2 \in S /\ p3 \in S /\ p4 \in S /\ p5 \in S
    BY <1>0, <2>1, CoreNames
  <2>3. ExecutionCharges(stages, c.encoded, c.logical) = <<p3, p4, p5>>
    BY DEF ExecutionCharges
  <2>4. charges = <<p1, p2>> \o <<p3, p4, p5>>
    BY <2>3
  <2> HIDE DEF charges, p1, p2, p3, p4, p5, S
  <2>5. <<p1, p2>> \o <<p3, p4, p5>> = <<p1, p2, p3, p4, p5>>
    BY FivePairs, ZenonT(30)
  <2>6. /\ <<p1, p2, p3, p4, p5>> \in Seq(S) /\ Len(<<p1, p2, p3, p4, p5>>) = 5
        /\ <<p1, p2, p3, p4, p5>>[1] = p1 /\ <<p1, p2, p3, p4, p5>>[2] = p2
        /\ <<p1, p2, p3, p4, p5>>[3] = p3 /\ <<p1, p2, p3, p4, p5>>[4] = p4
        /\ <<p1, p2, p3, p4, p5>>[5] = p5
    BY <2>2
  <2>7. /\ charges \in Seq(S) /\ Len(charges) = 5
        /\ charges[1] = p1 /\ charges[2] = p2 /\ charges[3] = p3 /\ charges[4] = p4
        /\ charges[5] = p5
    BY <2>4, <2>5, <2>6
  <2> QED
    BY <2>7 DEF p1, p2, p3, p4, p5, S, Charges
<1>2. u = Charged(policy, s, charges)
  OBVIOUS
<1> HIDE DEF charges, u, stages
<1>3. IsSession(s) /\ s.ok /\ WithinPolicy(policy, s.account)
  BY DEF Good
<1>4. /\ \A i \in 1 .. Len(charges) : i = 1 \/ i = 2 \/ i = 3 \/ i = 4 \/ i = 5
      /\ 3 \in 1 .. Len(charges) /\ 5 \in 1 .. Len(charges)
  BY <1>1
<1>b. /\ Allows(policy, "logical_chunk_bytes", c.logical)
      /\ Allows(policy, "encoded_chunk_bytes", c.encoded)
      /\ Allows(policy, "intermediate_bytes", c.encoded)
      /\ Allows(policy, "stage_executions", e + Len(stages))
  BY <1>0 DEF Decodable
<1>5. \A i \in 1 .. Len(charges) :
        IF charges[i][1] \in TotalResources
        THEN /\ Allows(policy, charges[i][1], s.account[charges[i][1]] + charges[i][2])
             /\ \A j \in 1 .. Len(charges) : charges[j][1] = charges[i][1] => j = i
        ELSE Allows(policy, charges[i][1], charges[i][2])
  <2> SUFFICES ASSUME NEW i \in 1 .. Len(charges)
               PROVE  IF charges[i][1] \in TotalResources
                      THEN /\ Allows(policy, charges[i][1],
                                     s.account[charges[i][1]] + charges[i][2])
                           /\ \A j \in 1 .. Len(charges) :
                                charges[j][1] = charges[i][1] => j = i
                      ELSE Allows(policy, charges[i][1], charges[i][2])
    OBVIOUS
  <2>1. CASE i = 1
    BY <1>1, <1>b, <2>1, CoreNames
  <2>2. CASE i = 2
    BY <1>1, <1>b, <2>2, CoreNames
  <2>3. CASE i = 3
    BY <1>1, <1>4, <1>b, <2>3, CoreNames DEF TotalsAre
  <2>4. CASE i = 4
    BY <1>1, <1>b, <2>4, CoreNames
  <2>5. CASE i = 5
    BY <1>1, <1>4, <1>b, <2>5, CoreNames DEF TotalsAre
  <2> QED
    BY <1>4, <2>1, <2>2, <2>3, <2>4, <2>5
<1>6. AllTaken(u, s, charges)
  BY <1>1, <1>2, <1>3, <1>5, ChargedFits
<1>7. /\ u.ok
      /\ \A i \in 1 .. Len(charges) :
           charges[i][1] \in TotalResources =>
             u.account[charges[i][1]] = s.account[charges[i][1]] + charges[i][2]
  BY <1>6 DEF AllTaken
<1>8. IsSession(u)
  BY <1>1, <1>2, <1>3, ChargedFacts
<1>9. WithinPolicy(policy, u.account)
  BY <1>1, <1>2, <1>3, ChargedFacts
<1>10. SameOutput(s, u)
  BY <1>1, <1>2, <1>3, ChargedFacts
<1>11. Untouched(u, s, charges)
  BY <1>1, <1>2, <1>3, ChargedFacts
<1>12. TotalsAre(u, b, k, l + c.logical, e + Len(stages))
  <2>1. u.account["logical_bytes"] = l + c.logical
    BY <1>1, <1>4, <1>7, CoreNames DEF TotalsAre
  <2>2. u.account["stage_executions"] = e + Len(stages)
    BY <1>1, <1>4, <1>7, CoreNames DEF TotalsAre
  <2>3. u.account["container_bytes"] = b /\ u.account["chunks"] = k
    BY <1>1, <1>4, <1>11, CoreNames DEF TotalsAre, Untouched
  <2> QED
    BY <2>1, <2>2, <2>3 DEF TotalsAre
<1>13. t = [ok |-> TRUE, account |-> u.account, output |-> out]
  <2>1. u = [ok |-> u.ok, account |-> u.account, output |-> u.output]
    BY <1>8 DEF IsSession
  <2>2. Require(u, decodes) = [ok |-> TRUE, account |-> u.account, output |-> u.output]
    BY <1>0, <1>7, <2>1 DEF Require
  <2> HIDE DEF out
  <2>3. t = [[ok |-> TRUE, account |-> u.account, output |-> u.output]
               EXCEPT !.output = out]
    BY <1>a, <2>2
  <2> QED
    BY <2>3
<1>14. /\ t.ok = TRUE /\ t.account = u.account
       /\ t.output = Append(s.output, [stream |-> c.stream, content |-> c.id.content])
  BY <1>10, <1>13 DEF SameOutput
<1>15. IsSession(t)
  BY <1>8, <1>13, <1>14 DEF IsSession
<1>16. PutsOut(s, t, c)
  BY <1>14 DEF PutsOut
<1> QED
  BY <1>0, <1>9, <1>12, <1>14, <1>15, <1>16 DEF Good, TotalsAre

-----------------------------------------------------------------------------
(* Decoding all chunks of a container.                                     *)

\* The sum of the beginning of a sequence.
UpTo(s, k) == SumOf(SubSeq(s, 1, k))

\* One more element adds itself.
LEMMA UpToOneMore ==
  ASSUME NEW s \in Seq(Nat), NEW k \in 1 .. Len(s)
  PROVE  UpTo(s, k) = UpTo(s, k - 1) + s[k] /\ s[k] \in Nat
<1>1. /\ k - 1 \in 0 .. (Len(s) - 1) /\ (k - 1) + 1 = k /\ s[k] \in Nat
      /\ SubSeq(s, 1, k - 1) \in Seq(Nat)
  OBVIOUS
<1>2. SubSeq(s, 1, k) = Append(SubSeq(s, 1, k - 1), s[k])
  BY <1>1, NextBeginning
<1> DEFINE b == SubSeq(s, 1, k - 1)
           x == s[k]
<1>3. SubSeq(s, 1, k) = Append(b, x) /\ b \in Seq(Nat) /\ x \in Nat
  BY <1>1, <1>2
<1>4. SumOf(SubSeq(s, 1, k)) = SumOf(b) + x
  <2> HIDE DEF b, x
  <2> QED
    BY <1>3, SumOfOneMore
<1> QED
  BY <1>1, <1>4 DEF UpTo

\* The sum of a beginning is at most that of the whole.
LEMMA UpToBounds ==
  ASSUME NEW s \in Seq(Nat), NEW k \in 0 .. Len(s)
  PROVE  /\ UpTo(s, k) \in Nat /\ SumOf(s) \in Nat /\ UpTo(s, k) <= SumOf(s)
         /\ UpTo(s, 0) = 0 /\ UpTo(s, Len(s)) = SumOf(s)
<1>1. SubSeq(s, 1, k) \in Seq(Nat) /\ SubSeq(s, 1, 0) = <<>> /\ SubSeq(s, 1, Len(s)) = s
  OBVIOUS
<1>2. UpTo(s, k) \in Nat /\ SumOf(s) \in Nat
  BY <1>1, SumOfOneMore DEF UpTo
<1>3. SumOf(SubSeq(s, 1, k)) <= SumOf(s)
  BY SumOfBeginning
<1>4. UpTo(s, 0) = 0 /\ UpTo(s, Len(s)) = SumOf(s)
  <2>1. SumOf(SubSeq(s, 1, 0)) = 0
    BY <1>1, SumOfNothing
  <2>2. SumOf(SubSeq(s, 1, Len(s))) = SumOf(s)
    BY <1>1
  <2> QED
    BY <2>1, <2>2 DEF UpTo
<1> QED
  BY <1>2, <1>3, <1>4 DEF UpTo

\* The bytes that the chunks of a container take.
Stored(chunks) == [k \in DOMAIN chunks |-> ChunkSize(chunks[k])]

\* The logical sizes of chunks.
Logicals(chunks) == [k \in DOMAIN chunks |-> chunks[k].logical]

\* The stages they went through.
Executions(chunks) == [k \in DOMAIN chunks |-> Len(chunks[k].id.through)]

\* What decoding chunks puts out.
PutOut(chunks) ==
  [k \in DOMAIN chunks |-> [stream |-> chunks[k].stream, content |-> chunks[k].id.content]]

\* These are naturals, one for each chunk.
LEMMA ChunkNumbers ==
  ASSUME NEW chunks \in Seq(Chunks),
         \A k \in 1 .. Len(chunks) : chunks[k].id.through \in Seq(STRING)
  PROVE  /\ Stored(chunks) \in Seq(Nat) /\ Len(Stored(chunks)) = Len(chunks)
         /\ Logicals(chunks) \in Seq(Nat) /\ Len(Logicals(chunks)) = Len(chunks)
         /\ Executions(chunks) \in Seq(Nat) /\ Len(Executions(chunks)) = Len(chunks)
<1> DEFINE n == Len(chunks)
<1>1. n \in Nat /\ DOMAIN chunks = 1 .. n /\ \A k \in 1 .. n : chunks[k] \in Chunks
  OBVIOUS
<1>2. \A k \in 1 .. n : /\ ChunkSize(chunks[k]) \in Nat /\ chunks[k].logical \in Nat
                        /\ Len(chunks[k].id.through) \in Nat
  BY <1>1, ChunkSizes
<1> HIDE DEF n
<1>3. /\ Stored(chunks) \in [1 .. n -> Nat] /\ Logicals(chunks) \in [1 .. n -> Nat]
      /\ Executions(chunks) \in [1 .. n -> Nat]
  BY <1>1, <1>2 DEF Stored, Logicals, Executions
<1> QED
  BY <1>1, <1>3, FunctionIsSequence DEF n

\* A container whose chunks an operation may decode, each and all, is decoded.
LEMMA DecodesAll ==
  ASSUME NEW policy \in Policy, NEW manifest, NEW decoders, NEW chunks \in Seq(Chunks),
         NEW m, m = Charged(policy, Session(NewAccount), ManifestCharges(manifest)),
         Good(policy, m), TotalsAre(m, 0, 0, 0, 0), m.output = <<>>,
         \A k \in 1 .. Len(chunks) :
           /\ Decodable(policy, RecipeOf(manifest, chunks[k].recipe).stages, chunks[k])
           /\ ToSet(RecipeOf(manifest, chunks[k].recipe).stages) \subseteq decoders,
         Allows(policy, "chunks", Len(chunks)),
         Allows(policy, "container_bytes",
                PreambleSize + SumOf(Stored(chunks)) + RecordHeaderSize),
         Allows(policy, "logical_bytes", SumOf(Logicals(chunks))),
         Allows(policy, "stage_executions", SumOf(Executions(chunks))),
         NEW t, t = DecodeAll(policy, manifest, chunks, decoders)
  PROVE  t.ok /\ t.output = PutOut(chunks)
<1> DEFINE n == Len(chunks)
           wanted == [c \in ToSet(chunks) |-> <<>>]
           B(k) == PreambleSize + UpTo(Stored(chunks), k)
           L(k) == UpTo(Logicals(chunks), k)
           E(k) == UpTo(Executions(chunks), k)
           Item(k) == [stream |-> chunks[k].stream, content |-> chunks[k].id.content]
           Out(k) == [j \in 1 .. k |-> Item(j)]
<1>1. /\ n \in Nat /\ DOMAIN chunks = 1 .. n
      /\ \A k \in 1 .. n : chunks[k] \in Chunks /\ chunks[k] \in DOMAIN wanted
  BY DEF ToSet
<1>2. PICK f : /\ Decoding(f, policy, manifest, chunks, decoders, wanted, n)
               /\ t = Charged(policy, f[n], <<<<"container_bytes", RecordHeaderSize>>>>)
  BY DecodeIsLast DEF DecodeAll
<1>3. /\ f[0] = Opened(policy, manifest)
      /\ \A k \in 1 .. n : f[k] = DecodedNext(policy, manifest, f[k - 1], chunks[k],
                                              decoders, wanted)
  <2>1. 0 \in 0 .. n /\ \A k \in 1 .. n : k \in 0 .. n /\ k # 0
    BY <1>1
  <2>2. f = [k \in 0 .. n |->
              IF k = 0 THEN Opened(policy, manifest)
              ELSE DecodedNext(policy, manifest, f[k - 1], chunks[k], decoders, wanted)]
    BY <1>2 DEF Decoding
  <2>3. \A k \in 0 .. n : f[k] =
              IF k = 0 THEN Opened(policy, manifest)
              ELSE DecodedNext(policy, manifest, f[k - 1], chunks[k], decoders, wanted)
    <3> HIDE DEF wanted, n
    <3> QED
      BY <2>2
  <2> HIDE DEF wanted, n
  <2> QED
    BY <2>1, <2>3
<1>4. /\ Stored(chunks) \in Seq(Nat) /\ Logicals(chunks) \in Seq(Nat)
      /\ Executions(chunks) \in Seq(Nat)
      /\ Len(Stored(chunks)) = n /\ Len(Logicals(chunks)) = n /\ Len(Executions(chunks)) = n
  BY ChunkNumbers DEF Decodable
<1>5. \A k \in 0 .. n : /\ B(k) \in Nat /\ L(k) \in Nat /\ E(k) \in Nat
                        /\ B(k) <= PreambleSize + SumOf(Stored(chunks))
                        /\ L(k) <= SumOf(Logicals(chunks)) /\ E(k) <= SumOf(Executions(chunks))
  <2> SUFFICES ASSUME NEW k \in 0 .. n
               PROVE  /\ B(k) \in Nat /\ L(k) \in Nat /\ E(k) \in Nat
                      /\ B(k) <= PreambleSize + SumOf(Stored(chunks))
                      /\ L(k) <= SumOf(Logicals(chunks)) /\ E(k) <= SumOf(Executions(chunks))
    OBVIOUS
  <2> HIDE DEF n
  <2>1. UpTo(Stored(chunks), k) \in Nat /\ SumOf(Stored(chunks)) \in Nat
        /\ UpTo(Stored(chunks), k) <= SumOf(Stored(chunks))
    BY <1>4, UpToBounds
  <2>2. /\ UpTo(Logicals(chunks), k) \in Nat
        /\ UpTo(Logicals(chunks), k) <= SumOf(Logicals(chunks))
    BY <1>4, UpToBounds
  <2>3. /\ UpTo(Executions(chunks), k) \in Nat
        /\ UpTo(Executions(chunks), k) <= SumOf(Executions(chunks))
    BY <1>4, UpToBounds
  <2> QED
    BY <2>1, <2>2, <2>3, SizesAreNaturals
<1>6. /\ B(0) = PreambleSize /\ L(0) = 0 /\ E(0) = 0
      /\ B(n) = PreambleSize + SumOf(Stored(chunks))
      /\ SumOf(Stored(chunks)) \in Nat /\ SumOf(Logicals(chunks)) \in Nat
      /\ SumOf(Executions(chunks)) \in Nat
  <2>0. 0 \in 0 .. n
    BY <1>1
  <2> HIDE DEF n
  <2>1. /\ UpTo(Stored(chunks), 0) = 0 /\ UpTo(Stored(chunks), n) = SumOf(Stored(chunks))
        /\ SumOf(Stored(chunks)) \in Nat
    BY <1>4, <2>0, UpToBounds
  <2>2. UpTo(Logicals(chunks), 0) = 0 /\ SumOf(Logicals(chunks)) \in Nat
    BY <1>4, <2>0, UpToBounds
  <2>3. UpTo(Executions(chunks), 0) = 0 /\ SumOf(Executions(chunks)) \in Nat
    BY <1>4, <2>0, UpToBounds
  <2> QED
    BY <2>1, <2>2, <2>3, SizesAreNaturals
<1>7. \A k \in 1 .. n : /\ B(k) = B(k - 1) + ChunkSize(chunks[k])
                        /\ L(k) = L(k - 1) + chunks[k].logical
                        /\ E(k) = E(k - 1) + Len(chunks[k].id.through)
  <2> SUFFICES ASSUME NEW k \in 1 .. n
               PROVE  /\ B(k) = B(k - 1) + ChunkSize(chunks[k])
                      /\ L(k) = L(k - 1) + chunks[k].logical
                      /\ E(k) = E(k - 1) + Len(chunks[k].id.through)
    OBVIOUS
  <2>1. /\ Stored(chunks)[k] = ChunkSize(chunks[k]) /\ Logicals(chunks)[k] = chunks[k].logical
        /\ Executions(chunks)[k] = Len(chunks[k].id.through)
    BY <1>1 DEF Stored, Logicals, Executions
  <2>2. k - 1 \in 0 .. n
    BY <1>1
  <2>3. /\ UpTo(Stored(chunks), k) = UpTo(Stored(chunks), k - 1) + ChunkSize(chunks[k])
        /\ ChunkSize(chunks[k]) \in Nat
        /\ L(k) = L(k - 1) + chunks[k].logical
        /\ E(k) = E(k - 1) + Len(chunks[k].id.through)
    BY <1>4, <2>1, UpToOneMore
  <2>4. UpTo(Stored(chunks), k - 1) \in Nat
    BY <1>4, <2>2, UpToBounds
  <2>5. B(k) = B(k - 1) + ChunkSize(chunks[k])
    BY <2>3, <2>4, SizesAreNaturals
  <2>6. L(k) = L(k - 1) + chunks[k].logical /\ E(k) = E(k - 1) + Len(chunks[k].id.through)
    BY <2>3
  <2> HIDE DEF B, L, E
  <2> QED
    BY <2>5, <2>6
<1> DEFINE P(k) == /\ Good(policy, f[k]) /\ TotalsAre(f[k], B(k), k, L(k), E(k))
                   /\ f[k].output = Out(k)
           Bad == {k \in 0 .. n : ~P(k)}
<1>8. P(0)
  <2> DEFINE s == f[0]
  <2>1. s = Charged(policy, m, <<<<"container_bytes", PreambleSize>>>>)
    BY <1>3 DEF Opened
  <2>2. Allows(policy, "container_bytes", 0 + PreambleSize)
    <3>1. /\ PreambleSize + SumOf(Stored(chunks)) + RecordHeaderSize \in Nat
          /\ PreambleSize <= PreambleSize + SumOf(Stored(chunks)) + RecordHeaderSize
          /\ 0 + PreambleSize = PreambleSize
      BY <1>6, SizesAreNaturals
    <3> QED
      BY <3>1, AllowsLess, CoreNames, SizesAreNaturals
  <2> HIDE DEF s
  <2>3. Good(policy, s) /\ SameOutput(m, s) /\ TotalsAre(s, 0 + PreambleSize, 0, 0, 0)
    BY <2>1, <2>2, BytesFacts, SizesAreNaturals
  <2>4. Out(0) = <<>>
    OBVIOUS
  <2>5. s.output = <<>>
    BY <2>3 DEF SameOutput
  <2>6. 0 + PreambleSize = PreambleSize
    BY SizesAreNaturals
  <2> HIDE DEF B, L, E, Out
  <2> QED
    BY <1>6, <2>3, <2>4, <2>5, <2>6 DEF s
<1>9. ASSUME NEW k \in 1 .. n, P(k - 1) PROVE P(k)
  <2> DEFINE c == chunks[k]
             recipe == RecipeOf(manifest, c.recipe)
             s == f[k - 1]
             read == Charged(policy, s, ReadingCharges(c))
             t1 == f[k]
             b == B(k - 1)
             l == L(k - 1)
             e == E(k - 1)
  <2>1. /\ k - 1 \in 0 .. n /\ k \in 0 .. n /\ (k - 1) + 1 = k /\ k \in Nat /\ k - 1 \in Nat
        /\ k <= n /\ c \in Chunks
    BY <1>1
  <2>2. b \in Nat /\ l \in Nat /\ e \in Nat
    BY <1>5, <2>1
  <2>3. /\ Decodable(policy, recipe.stages, c) /\ ToSet(recipe.stages) \subseteq decoders
        /\ c.logical \in Nat /\ c.encoded \in Nat /\ ChunkSize(c) \in Nat
        /\ Len(c.id.through) \in Nat
    BY <1>1, <2>1, ChunkSizes DEF Decodable
  <2>4. /\ B(k) = b + ChunkSize(c) /\ L(k) = l + c.logical
        /\ E(k) = e + Len(c.id.through)
    BY <1>7
  <2>5. /\ B(k) \in Nat /\ L(k) \in Nat /\ E(k) \in Nat
        /\ B(k) <= PreambleSize + SumOf(Stored(chunks)) + RecordHeaderSize
        /\ PreambleSize + SumOf(Stored(chunks)) + RecordHeaderSize \in Nat
        /\ L(k) <= SumOf(Logicals(chunks)) /\ E(k) <= SumOf(Executions(chunks))
    <3>1. /\ B(k) \in Nat /\ L(k) \in Nat /\ E(k) \in Nat
          /\ B(k) <= PreambleSize + SumOf(Stored(chunks))
          /\ L(k) <= SumOf(Logicals(chunks)) /\ E(k) <= SumOf(Executions(chunks))
      BY <1>5, <2>1
    <3> HIDE DEF B, L, E
    <3> QED
      BY <1>6, <3>1, SizesAreNaturals
  <2> HIDE DEF B, L, E
  <2>6. /\ Allows(policy, "container_bytes", b + ChunkSize(c))
        /\ Allows(policy, "logical_bytes", l + c.logical)
        /\ Allows(policy, "stage_executions", e + Len(c.id.through))
        /\ Allows(policy, "chunks", (k - 1) + 1)
    BY <1>1, <1>6, <2>1, <2>4, <2>5, AllowsLess, CoreNames
  <2>7. t1 = DecodeChunk(policy, Charged(policy, read, <<>>), c, recipe, decoders) \/ ~read.ok
    <3>1. t1 = DecodedNext(policy, manifest, s, c, decoders, wanted)
      BY <1>3
    <3>2. c \in DOMAIN wanted /\ wanted[c] = <<>>
      BY <1>1
    <3> HIDE DEF wanted, t1, s, c
    <3> QED
      BY <3>1, <3>2 DEF DecodedNext
  <2>8. read = Charged(policy, s, ReadingCharges(c))
    OBVIOUS
  <2>9. /\ Good(policy, s) /\ TotalsAre(s, b, k - 1, l, e) /\ s.output = Out(k - 1)
    BY <1>9
  <2> HIDE DEF c, recipe, s, t1, read, b, l, e
  <2>10. /\ Good(policy, read) /\ SameOutput(s, read)
         /\ TotalsAre(read, b + ChunkSize(c), (k - 1) + 1, l, e)
    BY <2>1, <2>2, <2>3, <2>6, <2>8, <2>9, ReadingFacts DEF Decodable
  <2>11. Charged(policy, read, <<>>) = read
    BY ChargedNothing
  <2>12. t1 = DecodeChunk(policy, read, c, recipe, decoders)
    BY <2>7, <2>10, <2>11 DEF Good
  <2>13. b + ChunkSize(c) \in Nat /\ (k - 1) + 1 \in Nat
    BY <2>1, <2>2, <2>3
  <2>14. /\ Good(policy, t1)
         /\ t1.output = Append(read.output, [stream |-> c.stream, content |-> c.id.content])
         /\ TotalsAre(t1, b + ChunkSize(c), (k - 1) + 1, l + c.logical,
                      e + Len(c.id.through))
    <3> DEFINE b1 == b + ChunkSize(c)
               k1 == (k - 1) + 1
    <3>1. b1 \in Nat /\ k1 \in Nat /\ TotalsAre(read, b1, k1, l, e)
      BY <2>10, <2>13
    <3> HIDE DEF b1, k1
    <3>2. Good(policy, t1)
      BY <2>2, <2>3, <2>6, <2>10, <2>12, <3>1, <2>1, DecodingFacts DEF c
    <3>3. PutsOut(read, t1, c)
      BY <2>2, <2>3, <2>6, <2>10, <2>12, <3>1, <2>1, DecodingFacts
    <3>4. TotalsAre(t1, b1, k1, l + c.logical, e + Len(c.id.through))
      BY <2>2, <2>3, <2>6, <2>10, <2>12, <3>1, <2>1, DecodingFacts
    <3> QED
      BY <3>2, <3>3, <3>4 DEF b1, k1, PutsOut
  <2>15. TotalsAre(t1, B(k), k, L(k), E(k))
    BY <2>1, <2>4, <2>14
  <2>16. t1.output = Append(Out(k - 1), Item(k))
    BY <2>9, <2>10, <2>14 DEF SameOutput, c
  <2>17. Append(Out(k - 1), Item(k)) = Out(k)
    <3> DEFINE S == {Item(j) : j \in 1 .. n}
    <3>1. Out(k - 1) \in [1 .. (k - 1) -> S] /\ Item(k) \in S
      BY <1>1, <2>1
    <3>2. \A j \in 1 .. (k - 1) : Out(k - 1)[j] = Item(j)
      OBVIOUS
    <3> HIDE DEF Item, S
    <3>3. Out(k) = [j \in 1 .. k |-> Item(j)]
      OBVIOUS
    <3> HIDE DEF Out
    <3> QED
      BY <2>1, <3>1, <3>2, <3>3
  <2> QED
    BY <2>14, <2>15, <2>16, <2>17 DEF t1
<1>10. Bad = {}
  <2> SUFFICES ASSUME Bad # {} PROVE FALSE
    OBVIOUS
  <2>1. Bad \in SUBSET Nat
    BY <1>1
  <2>2. PICK k \in Bad : \A j \in Bad : k <= j
    BY <2>1, LeastNumber
  <2> HIDE DEF P
  <2>3. k # 0 /\ k \in 0 .. n /\ ~P(k)
    BY <1>8, <2>2
  <2>4. k \in 1 .. n /\ k - 1 \in 0 .. n /\ k - 1 \notin Bad
    BY <1>1, <2>2, <2>3
  <2> QED
    BY <1>9, <2>3, <2>4
<1>11. P(n)
  <2> HIDE DEF P, n
  <2>1. n \in 0 .. n
    BY <1>1
  <2> QED
    BY <1>10, <2>1
<1>12. t.ok /\ SameOutput(f[n], t)
  <2> DEFINE s == f[n]
  <2>1. /\ Good(policy, s) /\ TotalsAre(s, B(n), n, L(n), E(n)) /\ B(n) \in Nat
        /\ Allows(policy, "container_bytes", B(n) + RecordHeaderSize)
    <3>1. B(n) \in Nat
      <4> HIDE DEF B, L, E, n
      <4>1. n \in 0 .. n
        BY <1>1
      <4> QED
        BY <1>5, <4>1
    <3>2. Good(policy, s) /\ TotalsAre(s, B(n), n, L(n), E(n))
      BY <1>11
    <3> HIDE DEF B, L, E, s
    <3> QED
      BY <1>6, <3>1, <3>2
  <2>2. t = Charged(policy, s, <<<<"container_bytes", RecordHeaderSize>>>>)
    BY <1>2
  <2> HIDE DEF s, B, L, E, n
  <2>3. Good(policy, t) /\ SameOutput(s, t)
    BY <2>1, <2>2, BytesFacts, SizesAreNaturals
  <2> QED
    BY <2>3 DEF Good, s
<1>13. Out(n) = PutOut(chunks)
  BY <1>1 DEF PutOut
<1> QED
  BY <1>11, <1>12, <1>13 DEF SameOutput

-----------------------------------------------------------------------------
(* One chunk more.                                                         *)

\* A function of each element of a sequence with one more.
LEMMA MapOneMore ==
  ASSUME NEW S, NEW T, NEW F \in [S -> T], NEW s \in Seq(S), NEW x \in S
  PROVE  /\ [k \in DOMAIN Append(s, x) |-> F[Append(s, x)[k]]] =
              Append([k \in DOMAIN s |-> F[s[k]]], F[x])
         /\ [k \in DOMAIN s |-> F[s[k]]] \in Seq(T)
<1> DEFINE n == Len(s)
           f == [k \in DOMAIN s |-> F[s[k]]]
           t == Append(s, x)
<1>1. /\ n \in Nat /\ DOMAIN s = 1 .. n /\ DOMAIN t = 1 .. (n + 1) /\ t[n + 1] = x
      /\ \A k \in 1 .. n : t[k] = s[k] /\ s[k] \in S
  OBVIOUS
<1> HIDE DEF n, t
<1>2. f = [k \in 1 .. n |-> F[s[k]]] /\ f \in [1 .. n -> T] /\ F[x] \in T
  BY <1>1
<1>3. f \in Seq(T) /\ Len(f) = n
  BY <1>1, <1>2, FunctionIsSequence
<1>4. \A k \in 1 .. n : f[k] = F[s[k]]
  BY <1>2
<1> HIDE DEF f
<1>5. Append(f, F[x]) = [k \in 1 .. (n + 1) |-> IF k = n + 1 THEN F[x] ELSE f[k]]
  BY <1>1, <1>2, <1>3
<1>6. \A k \in 1 .. (n + 1) : F[t[k]] = IF k = n + 1 THEN F[x] ELSE f[k]
  <2> SUFFICES ASSUME NEW k \in 1 .. (n + 1)
               PROVE  F[t[k]] = IF k = n + 1 THEN F[x] ELSE f[k]
    OBVIOUS
  <2>1. k = n + 1 \/ k \in 1 .. n
    BY <1>1
  <2> QED
    BY <1>1, <1>4, <2>1
<1>7. [k \in DOMAIN t |-> F[t[k]]] = Append(f, F[x])
  BY <1>1, <1>5, <1>6
<1> QED
  BY <1>3, <1>7 DEF f, t

\* Chunks that went through stages.
Coded == {c \in Chunks : c.id.through \in Seq(STRING)}

\* What chunks add up to, and what decoding them puts out, with one more.
LEMMA OneChunkMore ==
  ASSUME NEW chunks \in Seq(Coded), NEW c \in Coded
  PROVE  LET more == Append(chunks, c) IN
         /\ more \in Seq(Coded)
         /\ SumOf(Stored(more)) = SumOf(Stored(chunks)) + ChunkSize(c)
         /\ SumOf(Logicals(more)) = SumOf(Logicals(chunks)) + c.logical
         /\ SumOf(Executions(more)) = SumOf(Executions(chunks)) + Len(c.id.through)
         /\ SumOf(Stored(chunks)) \in Nat /\ SumOf(Logicals(chunks)) \in Nat
         /\ SumOf(Executions(chunks)) \in Nat
         /\ ChunkSize(c) \in Nat /\ c.logical \in Nat /\ Len(c.id.through) \in Nat
         /\ PutOut(more) =
              Append(PutOut(chunks), [stream |-> c.stream, content |-> c.id.content])
<1> DEFINE more == Append(chunks, c)
           Item(d) == [stream |-> d.stream, content |-> d.id.content]
           sizes == [d \in Coded |-> ChunkSize(d)]
           logicals == [d \in Coded |-> d.logical]
           executions == [d \in Coded |-> Len(d.id.through)]
           items == [d \in Coded |-> Item(d)]
           T == {Item(d) : d \in Coded}
<1>1. /\ more \in Seq(Coded)
      /\ \A k \in DOMAIN chunks : chunks[k] \in Coded
      /\ \A k \in DOMAIN more : more[k] \in Coded
  OBVIOUS
<1>2. /\ sizes \in [Coded -> Nat] /\ logicals \in [Coded -> Nat]
      /\ executions \in [Coded -> Nat] /\ items \in [Coded -> T]
  BY ChunkSizes DEF Coded
<1>3. /\ sizes[c] = ChunkSize(c) /\ logicals[c] = c.logical
      /\ executions[c] = Len(c.id.through) /\ items[c] = Item(c)
      /\ ChunkSize(c) \in Nat /\ c.logical \in Nat /\ Len(c.id.through) \in Nat
  BY ChunkSizes DEF Coded
<1>4. /\ Stored(more) = [k \in DOMAIN more |-> sizes[more[k]]]
      /\ Stored(chunks) = [k \in DOMAIN chunks |-> sizes[chunks[k]]]
  <2> HIDE DEF more
  <2> QED
    BY <1>1 DEF Stored
<1>5. /\ Logicals(more) = [k \in DOMAIN more |-> logicals[more[k]]]
      /\ Logicals(chunks) = [k \in DOMAIN chunks |-> logicals[chunks[k]]]
  <2> HIDE DEF more
  <2> QED
    BY <1>1 DEF Logicals
<1>6. /\ Executions(more) = [k \in DOMAIN more |-> executions[more[k]]]
      /\ Executions(chunks) = [k \in DOMAIN chunks |-> executions[chunks[k]]]
  <2> HIDE DEF more
  <2> QED
    BY <1>1 DEF Executions
<1>7. /\ PutOut(more) = [k \in DOMAIN more |-> items[more[k]]]
      /\ PutOut(chunks) = [k \in DOMAIN chunks |-> items[chunks[k]]]
  <2> HIDE DEF more
  <2> QED
    BY <1>1 DEF PutOut
<1> HIDE DEF sizes, logicals, executions, items, Item, T
<1>8. Stored(more) = Append(Stored(chunks), ChunkSize(c)) /\ Stored(chunks) \in Seq(Nat)
  BY <1>2, <1>3, <1>4, MapOneMore, SMTT(30)
<1>9. Logicals(more) = Append(Logicals(chunks), c.logical) /\ Logicals(chunks) \in Seq(Nat)
  BY <1>2, <1>3, <1>5, MapOneMore, SMTT(30)
<1>10. /\ Executions(more) = Append(Executions(chunks), Len(c.id.through))
       /\ Executions(chunks) \in Seq(Nat)
  BY <1>2, <1>3, <1>6, MapOneMore, SMTT(30)
<1>11. PutOut(more) = Append(PutOut(chunks), Item(c))
  BY <1>2, <1>3, <1>7, MapOneMore, SMTT(30)
<1> HIDE DEF more
<1>12. /\ SumOf(Stored(more)) = SumOf(Stored(chunks)) + ChunkSize(c)
       /\ SumOf(Stored(chunks)) \in Nat
  BY <1>3, <1>8, SumOfOneMore
<1>13. /\ SumOf(Logicals(more)) = SumOf(Logicals(chunks)) + c.logical
       /\ SumOf(Logicals(chunks)) \in Nat
  BY <1>3, <1>9, SumOfOneMore
<1>14. /\ SumOf(Executions(more)) = SumOf(Executions(chunks)) + Len(c.id.through)
       /\ SumOf(Executions(chunks)) \in Nat
  BY <1>3, <1>10, SumOfOneMore
<1> QED
  BY <1>1, <1>3, <1>11, <1>12, <1>13, <1>14 DEF more, Item

\* What is recovered of a stream when one more item is put out.
LEMMA RecoveredOneMore ==
  ASSUME NEW S, NEW out \in Seq(S), NEW e \in S, NEW i
  PROVE  Recovered(Append(out, e), i) =
           IF e.stream = i - 1 THEN Append(Recovered(out, i), e.content)
           ELSE Recovered(out, i)
<1> DEFINE v == Append(out, e)
           N == Len(out)
           P == {k \in DOMAIN out : out[k].stream = i - 1}
           Q == {k \in DOMAIN v : v[k].stream = i - 1}
           n == Cardinality(P)
           T == {x.content : x \in S}
<1>1. /\ N \in Nat /\ DOMAIN out = 1 .. N /\ DOMAIN v = 1 .. (N + 1) /\ v[N + 1] = e
      /\ \A k \in 1 .. N : v[k] = out[k] /\ out[k] \in S
  OBVIOUS
<1> HIDE DEF v, N
<1>2. P \in SUBSET (1 .. N) /\ P \in SUBSET Nat /\ IsFiniteSet(P) /\ n \in Nat
  <2>1. P \in SUBSET (1 .. N) /\ P \in SUBSET Nat
    BY <1>1
  <2>2. IsFiniteSet(1 .. N)
    BY <1>1, FS_Interval
  <2> HIDE DEF P
  <2>3. IsFiniteSet(P)
    BY <2>1, <2>2, FS_Subset
  <2> QED
    BY <2>1, <2>3, FS_CardinalityType
<1>3. /\ Recovered(out, i) = [k \in 1 .. n |-> out[InOrder(P)[k]].content]
      /\ Recovered(v, i) = [k \in 1 .. Cardinality(Q) |-> v[InOrder(Q)[k]].content]
  BY DEF Recovered
<1>4. Q = P \cup (IF e.stream = i - 1 THEN {N + 1} ELSE {})
  BY <1>1
<1>5. InOrder(P) \in [1 .. n -> P]
  <2> HIDE DEF P
  <2> QED
    BY <1>2, InOrderLists
<1> HIDE DEF P, Q, n
<1>6. \A k \in 1 .. n : InOrder(P)[k] \in 1 .. N
  BY <1>2, <1>5
<1>7. Recovered(out, i) \in Seq(T) /\ Len(Recovered(out, i)) = n
  <2>1. \A k \in 1 .. n : out[InOrder(P)[k]].content \in T
    BY <1>1, <1>6
  <2>2. Recovered(out, i) \in [1 .. n -> T]
    BY <1>3, <2>1
  <2> QED
    BY <1>2, <2>2, FunctionIsSequence
<1>8. CASE e.stream = i - 1
  <2> DEFINE l == N + 1
  <2>1. l \in Nat /\ (\A y \in P : y < l) /\ Q = P \cup {l}
    BY <1>1, <1>2, <1>4, <1>8
  <2> HIDE DEF l
  <2>2. /\ Cardinality(Q) = n + 1
        /\ \A k \in 1 .. n : InOrder(Q)[k] = InOrder(P)[k]
        /\ InOrder(Q)[n + 1] = l
    BY <1>2, <2>1, InOrderOneMore DEF n
  <2>3. \A k \in 1 .. (n + 1) :
          v[InOrder(Q)[k]].content =
            IF k = n + 1 THEN e.content ELSE Recovered(out, i)[k]
    <3> SUFFICES ASSUME NEW k \in 1 .. (n + 1)
                 PROVE  v[InOrder(Q)[k]].content =
                          IF k = n + 1 THEN e.content ELSE Recovered(out, i)[k]
      OBVIOUS
    <3>1. CASE k = n + 1
      BY <1>1, <2>2, <3>1 DEF l
    <3>2. CASE k # n + 1
      <4>1. k \in 1 .. n
        BY <1>2, <3>2
      <4> QED
        BY <1>1, <1>3, <1>6, <2>2, <3>2, <4>1
    <3> QED
      BY <3>1, <3>2
  <2>4. Recovered(v, i) =
          [k \in 1 .. (n + 1) |-> IF k = n + 1 THEN e.content ELSE Recovered(out, i)[k]]
    BY <1>3, <2>2, <2>3
  <2>5. e.content \in T
    OBVIOUS
  <2> HIDE DEF T
  <2>6. Append(Recovered(out, i), e.content) =
          [k \in 1 .. (n + 1) |-> IF k = n + 1 THEN e.content ELSE Recovered(out, i)[k]]
    BY <1>2, <1>7, <2>5
  <2> QED
    BY <1>8, <2>4, <2>6 DEF v
<1>9. CASE e.stream # i - 1
  <2>1. Q = P /\ Cardinality(Q) = n
    BY <1>4, <1>9 DEF n
  <2>2. \A k \in 1 .. n : v[InOrder(P)[k]] = out[InOrder(P)[k]]
    BY <1>1, <1>6
  <2>3. Recovered(v, i) = Recovered(out, i)
    BY <1>3, <2>1, <2>2
  <2> QED
    BY <1>9, <2>3 DEF v
<1> QED
  BY <1>8, <1>9

\* Nothing is recovered of nothing.
LEMMA NothingRecovered ==
  ASSUME NEW i
  PROVE  Recovered(<<>>, i) = <<>> /\ PutOut(<<>>) = <<>>
<1>1. {k \in DOMAIN <<>> : <<>>[k].stream = i - 1} = {} /\ Cardinality({}) = 0
  BY FS_EmptySet
<1>2. Recovered(<<>>, i) = <<>>
  BY <1>1 DEF Recovered
<1> QED
  BY <1>2 DEF PutOut

-----------------------------------------------------------------------------
(* What a complete container needs of a policy.                            *)

\* The size of what precedes a commit is that of the preamble and the chunks.
LEMMA SizeOfContent ==
  ASSUME NEW w \in Seq(Contents), ValidContent(w)
  PROVE  /\ ChunksOf(w) \in Seq(Chunks)
         /\ SizeOf(w) = PreambleSize + SumOf(Stored(ChunksOf(w)))
<1> DEFINE n == Len(w)
           To(k) == SubSeq(w, 1, k)
           P(k) == /\ ChunksOf(To(k)) \in Seq(Chunks)
                   /\ SizeOf(To(k)) = PreambleSize + SumOf(Stored(ChunksOf(To(k))))
           Bad == {k \in 1 .. n : ~P(k)}
<1>1. /\ n \in Nat /\ n >= 1 /\ To(n) = w /\ w[1] = Preamble
      /\ \A k \in 2 .. n : w[k].kind = "chunk" /\ w[k] \in Contents
  BY DEF ValidContent
<1>2. /\ \A r \in Contents : IsRecord(r)
      /\ Preamble \in Contents
  BY ContentsAreRecords DEF Contents
<1>3. P(1)
  <2>0. 0 \in 0 .. (Len(w) - 1) /\ 0 + 1 = 1 /\ SubSeq(w, 1, 0) = <<>>
    BY <1>1
  <2>1. To(1) = Append(<<>>, Preamble)
    BY <1>1, <2>0, NextBeginning
  <2>2. /\ ChunksOf(Append(<<>>, Preamble)) = <<>>
        /\ SizeOf(Append(<<>>, Preamble)) = PreambleSize
    BY <1>2, PreambleFirst
  <2>3. Stored(<<>>) = <<>> /\ <<>> \in Seq(Chunks)
    BY DEF Stored
  <2> DEFINE v == To(1)
  <2>4. ChunksOf(v) = <<>> /\ SizeOf(v) = PreambleSize
    BY <2>1, <2>2
  <2> HIDE DEF v
  <2>5. ChunksOf(v) \in Seq(Chunks) /\ SumOf(Stored(ChunksOf(v))) = 0
    BY <2>3, <2>4, SumOfNothing
  <2> QED
    BY <2>4, <2>5, SizesAreNaturals DEF v
<1>4. ASSUME NEW k \in 2 .. n, P(k - 1) PROVE P(k)
  <2> DEFINE v == To(k - 1)
  <2>1. k - 1 \in 0 .. (Len(w) - 1) /\ (k - 1) + 1 = k /\ v \in Seq(Contents)
    BY <1>1
  <2>2. PICK c \in Chunks : w[k] = ChunkRecord(c)
    BY <1>1, RecordKinds DEF Contents
  <2>3. To(k) = Append(v, ChunkRecord(c))
    BY <2>1, <2>2, NextBeginning
  <2>4. /\ ChunksOf(v) \in Seq(Chunks)
        /\ SizeOf(v) = PreambleSize + SumOf(Stored(ChunksOf(v)))
    BY <1>4
  <2> HIDE DEF v, To, n
  <2>5. /\ ChunkRecord(c) \in Contents /\ ChunkRecord(c).kind = "chunk"
        /\ ChunkRecord(c).chunk = c /\ RecordSize(ChunkRecord(c)) = ChunkSize(c)
    BY RecordKinds DEF Contents
  <2>6. ChunksOf(To(k)) = Append(ChunksOf(v), c)
    BY <1>2, <2>1, <2>3, <2>5, ChunksOfOneMore
  <2>7. SizeOf(To(k)) = SizeOf(v) + ChunkSize(c)
    BY <1>2, <2>1, <2>3, <2>5, SizeOfOneMore
  <2> DEFINE chunks == ChunksOf(v)
             sizes == [d \in Chunks |-> ChunkSize(d)]
             more == Append(chunks, c)
  <2>8. /\ chunks \in Seq(Chunks) /\ more \in Seq(Chunks)
        /\ \A i \in DOMAIN chunks : chunks[i] \in Chunks
        /\ \A i \in DOMAIN more : more[i] \in Chunks
        /\ sizes \in [Chunks -> Nat] /\ sizes[c] = ChunkSize(c) /\ ChunkSize(c) \in Nat
    <3>1. chunks \in Seq(Chunks)
      BY <2>4
    <3> HIDE DEF chunks
    <3> QED
      BY <3>1, ChunkSizes
  <2>9. Stored(more) = Append(Stored(chunks), ChunkSize(c)) /\ Stored(chunks) \in Seq(Nat)
    <3> HIDE DEF chunks, more
    <3>1. /\ Stored(more) = [i \in DOMAIN more |-> sizes[more[i]]]
          /\ Stored(chunks) = [i \in DOMAIN chunks |-> sizes[chunks[i]]]
      BY <2>8 DEF Stored
    <3> HIDE DEF sizes
    <3> QED
      BY <2>8, <3>1, MapOneMore DEF more
  <2>10. /\ SumOf(Stored(more)) = SumOf(Stored(chunks)) + ChunkSize(c)
         /\ SumOf(Stored(chunks)) \in Nat
    <3> HIDE DEF chunks, more
    <3> QED
      BY <2>8, <2>9, SumOfOneMore
  <2>11. ChunksOf(To(k)) = more /\ SizeOf(v) = PreambleSize + SumOf(Stored(chunks))
    BY <2>4, <2>6
  <2> HIDE DEF chunks, more
  <2> QED
    BY <2>7, <2>8, <2>10, <2>11, SizesAreNaturals
<1>5. Bad = {}
  <2> SUFFICES ASSUME Bad # {} PROVE FALSE
    OBVIOUS
  <2>1. Bad \in SUBSET Nat
    BY <1>1
  <2>2. PICK k \in Bad : \A j \in Bad : k <= j
    BY <2>1, LeastNumber
  <2> HIDE DEF P, n
  <2>3. k # 1 /\ k \in 1 .. n /\ ~P(k)
    BY <1>3, <2>2
  <2>4. k \in 2 .. n /\ k - 1 \in 1 .. n /\ k - 1 \notin Bad
    BY <1>1, <2>2, <2>3
  <2> QED
    BY <1>4, <2>3, <2>4
<1>6. P(n)
  <2> HIDE DEF P, n
  <2>1. n \in 1 .. n
    BY <1>1
  <2> QED
    BY <1>5, <2>1
<1> QED
  BY <1>1, <1>6

\* A beginning of a container holds no commit.
LEMMA ContentHasNoCommit ==
  ASSUME NEW w \in Seq(Contents), w # <<>>
  PROVE  ~ValidContainer(w)
<1> SUFFICES ASSUME ValidContainer(w) PROVE FALSE
  OBVIOUS
<1>1. /\ Len(w) \in 1 .. Len(w) /\ w[Len(w)] \in Contents
      /\ w[Len(w)].kind = "commit"
  <2>1. Len(w) \in 1 .. Len(w) /\ w[Len(w)] \in Contents
    OBVIOUS
  <2> QED
    BY <2>1, RecordKinds DEF ValidContainer
<1> QED
  BY <1>1, RecordKinds DEF Contents

\* What a complete container needs of the policy it was written under.
LEMMA ContainerNeeds ==
  ASSUME NEW policy \in Policy, MeetsPolicy(policy, target), ValidContainer(target),
         DepositInv, NEW chunks, chunks = ChunksOf(target)
  PROVE  /\ chunks \in Seq(Chunks)
         /\ Allows(policy, "chunks", Len(chunks))
         /\ Allows(policy, "container_bytes",
                   PreambleSize + SumOf(Stored(chunks)) + RecordHeaderSize)
<1> DEFINE body == BodyOf(target)
           commit == target[Len(target)]
<1>1. target # <<>>
  BY DEF ValidContainer
<1>2. body \in Seq(Contents) /\ target = Append(body, commit)
  BY <1>1, ContentHasNoCommit DEF DepositInv
<1>3. /\ ValidContent(body)
      /\ commit = CommitRecord(TotalsOf(body), SizeOf(body), body)
  BY DEF ValidContainer, BodyOf
<1> HIDE DEF body, commit
<1> DEFINE R == Contents \cup {commit}
<1>4. /\ \A r \in R : IsRecord(r)
      /\ body \in Seq(R) /\ commit \in R
      /\ commit.kind = "commit" /\ RecordSize(commit) = RecordHeaderSize
  <2>1. commit.kind = "commit" /\ RecordSize(commit) = RecordHeaderSize
    BY <1>3, RecordKinds
  <2>2. IsRecord(commit)
    BY <1>3, <2>1 DEF IsRecord, CommitRecord
  <2>3. body \in Seq(R)
    BY <1>2
  <2> QED
    BY <2>1, <2>2, <2>3, ContentsAreRecords
<1> HIDE DEF R
<1>5. ChunksOf(target) = ChunksOf(body)
  BY <1>2, <1>4, ChunksOfOneMore
<1>6. SizeOf(target) = SizeOf(body) + RecordHeaderSize
  BY <1>2, <1>4, SizeOfOneMore
<1>7. /\ chunks \in Seq(Chunks)
      /\ SizeOf(body) = PreambleSize + SumOf(Stored(chunks))
  BY <1>2, <1>3, <1>5, SizeOfContent
<1>8. TotalsOf(target).chunks = Len(chunks)
  BY DEF TotalsOf
<1> QED
  BY <1>6, <1>7, <1>8 DEF MeetsPolicy

-----------------------------------------------------------------------------
(* What is charged for the manifest of a request.                          *)

\* The image of a finite set is finite.
LEMMA ImageIsFinite ==
  ASSUME NEW S, IsFiniteSet(S), NEW f, DOMAIN f = S
  PROVE  IsFiniteSet({f[x] : x \in S})
<1> DEFINE T == {f[x] : x \in S}
           g == [x \in S |-> f[x]]
<1>1. g \in Surjection(S, T)
  BY DEF Surjection
<1> HIDE DEF g, T
<1>2. IsFiniteSet(T)
  BY <1>1, FS_Surjection
<1> QED
  BY <1>2 DEF T

\* A recipe of a manifest.
Recipe == [id : Nat, stages : Seq(STRING)]

\* A request is a sequence of sources; what a source asks for is a recipe.
LEMMA RequestShape ==
  ASSUME NEW requested \in SourceLists
  PROVE  /\ Len(requested) \in Nat /\ DOMAIN requested = 1 .. Len(requested)
         /\ requested \in Seq([object : Nat, type : STRING, recipe : Seq(STRING), max : Nat])
         /\ \A i \in DOMAIN requested : requested[i].recipe \in Seq(STRING)
<1> DEFINE S == [object : Nat, type : STRING, recipe : Seq(STRING), max : Nat]
<1>1. requested \in Seq(S)
  BY PackagerAssumption
<1>2. \A s \in S : s.recipe \in Seq(STRING)
  OBVIOUS
<1>3. \A i \in DOMAIN requested : requested[i] \in S
  <2> HIDE DEF S
  <2> QED
    BY <1>1
<1> QED
  BY <1>1, <1>2, <1>3

\* Equal recipes get one ID, different ones different IDs.
LEMMA RecipesFacts ==
  ASSUME NEW requested \in SourceLists
  PROVE  LET R == RecipesOf(requested) IN
         /\ R \in Seq(Recipe)
         /\ \A j \in DOMAIN R : R[j].id = j - 1 /\ R[j].stages \in Seq(STRING)
         /\ \A i \in DOMAIN requested :
              /\ RecipeFor(requested, i) \in ToSet(R)
              /\ RecipeFor(requested, i).stages = requested[i].recipe
<1> DEFINE n == Len(requested)
           wanted == [i \in DOMAIN requested |-> requested[i].recipe]
           distinct == Missing(wanted, {})
           m == Len(distinct)
           R == RecipesOf(requested)
<1>1. n \in Nat /\ DOMAIN requested = 1 .. n
      /\ \A i \in 1 .. n : requested[i].recipe \in Seq(STRING)
  BY RequestShape
<1> HIDE DEF n
<1>2. wanted \in Seq(Seq(STRING)) /\ Len(wanted) = n
  <2>1. wanted \in [1 .. n -> Seq(STRING)]
    BY <1>1
  <2> HIDE DEF wanted
  <2> QED
    BY <1>1, <2>1, FunctionIsSequence
<1>3. /\ R = [j \in DOMAIN distinct |-> [id |-> j - 1, stages |-> distinct[j]]]
      /\ \A i \in 1 .. n : wanted[i] = requested[i].recipe
  BY <1>1 DEF RecipesOf
<1> HIDE DEF wanted, R
<1>4. distinct \in Seq(Seq(STRING))
  BY <1>2, MissingElements
<1>5. \A i \in 1 .. n : \E j \in DOMAIN distinct : distinct[j] = wanted[i]
  <2> SUFFICES ASSUME NEW i \in 1 .. n
               PROVE  \E j \in DOMAIN distinct : distinct[j] = wanted[i]
    OBVIOUS
  <2>1. i \in DOMAIN wanted /\ wanted[i] \notin {}
    BY <1>1, <1>2
  <2> QED
    BY <1>2, <2>1, MissingAll
<1> HIDE DEF distinct
<1>6. /\ m \in Nat /\ DOMAIN distinct = 1 .. m /\ DOMAIN R = 1 .. m
      /\ \A j \in 1 .. m : /\ distinct[j] \in Seq(STRING)
                           /\ R[j] = [id |-> j - 1, stages |-> distinct[j]]
  BY <1>3, <1>4
<1> HIDE DEF m
<1>7. \A j \in 1 .. m : /\ R[j].id = j - 1 /\ R[j].stages = distinct[j]
                        /\ R[j] \in Recipe
  BY <1>6 DEF Recipe
<1>8. R \in Seq(Recipe)
  <2>1. R \in [1 .. m -> Recipe]
    BY <1>3, <1>6, <1>7
  <2> QED
    BY <1>6, <2>1, FunctionIsSequence
<1>9. ASSUME NEW i \in DOMAIN requested
      PROVE  /\ RecipeFor(requested, i) \in ToSet(R)
             /\ RecipeFor(requested, i).stages = requested[i].recipe
  <2>1. PICK j \in 1 .. m : distinct[j] = requested[i].recipe
    BY <1>1, <1>3, <1>5, <1>6
  <2>2. R[j] \in ToSet(R) /\ R[j].stages = requested[i].recipe
    BY <1>6, <1>7, <2>1 DEF ToSet
  <2>3. RecipeFor(requested, i) =
          CHOOSE r \in ToSet(R) : r.stages = requested[i].recipe
    BY DEF RecipeFor, R
  <2> QED
    BY <2>2, <2>3
<1> QED
  BY <1>6, <1>7, <1>8, <1>9 DEF R

\* The manifest of a request tells the recipe of a chunk by the ID that the chunk has.
LEMMA RecipeFound ==
  ASSUME sources \in SourceLists, NEW i \in DOMAIN sources
  PROVE  LET recipe == RecipeFor(sources, i) IN
         /\ RecipeOf(Manifest, recipe.id) = recipe
         /\ recipe.stages = sources[i].recipe
         /\ recipe.stages \in Seq(STRING)
         /\ ToSet(recipe.stages) \subseteq Stages
<1> DEFINE R == RecipesOf(sources)
           recipe == RecipeFor(sources, i)
<1>1. /\ R \in Seq(Recipe) /\ \A j \in DOMAIN R : R[j].id = j - 1
      /\ recipe \in ToSet(R) /\ recipe.stages = sources[i].recipe
  BY RecipesFacts
<1>2. recipe.stages \in Seq(STRING)
  BY <1>1, RequestShape
<1>3. ToSet(recipe.stages) \subseteq Stages
  BY <1>1 DEF Stages
<1>4. RecipeOf(Manifest, recipe.id) = CHOOSE r \in ToSet(R) : r.id = recipe.id
  BY DEF RecipeOf, Manifest
<1> HIDE DEF R, recipe
<1>5. \A r \in ToSet(R) : r.id = recipe.id => r = recipe
  <2>1. \A j, k \in DOMAIN R : R[j].id = R[k].id => j = k
    <3> SUFFICES ASSUME NEW j \in DOMAIN R, NEW k \in DOMAIN R, R[j].id = R[k].id
                 PROVE  j = k
      OBVIOUS
    <3>1. j \in Nat /\ k \in Nat /\ j - 1 = k - 1
      BY <1>1
    <3> QED
      BY <3>1
  <2> QED
    BY <1>1, <2>1 DEF ToSet
<1>6. RecipeOf(Manifest, recipe.id) = recipe
  BY <1>1, <1>4, <1>5
<1> QED
  BY <1>1, <1>2, <1>3, <1>6 DEF recipe

\* What is charged for the stages of recipes adds to no total.
LEMMA StagesAreCharged ==
  ASSUME NEW recipes \in Seq(Recipe)
  PROVE  StageCharges(recipes) \in PeakCharges
<1> DEFINE n == Len(recipes)
           C == (CoreResource \ TotalResources) \X Nat
           length == [j \in 1 .. n |-> Len(recipes[j].stages)]
           half(k) == (k + 1) \div 2
           One(i) == <<"stages_per_recipe", Len(recipes[i].stages)>>
           All(i) == <<"total_stages", SumOf([j \in 1 .. i |-> Len(recipes[j].stages)])>>
<1>1. /\ n \in Nat /\ \A j \in 1 .. n : recipes[j] \in Recipe
      /\ \A j \in 1 .. n : Len(recipes[j].stages) \in Nat
  <2>1. n \in Nat /\ \A j \in 1 .. n : recipes[j] \in Recipe
    OBVIOUS
  <2>2. \A r \in Recipe : Len(r.stages) \in Nat
    BY DEF Recipe
  <2> QED
    BY <2>1, <2>2
<1> HIDE DEF n
<1>2. /\ "stages_per_recipe" \in CoreResource \ TotalResources
      /\ "total_stages" \in CoreResource \ TotalResources
  BY DEF CoreResource, PeakResources, TotalResources
<1>3. \A i \in 1 .. n : One(i) \in C
  BY <1>1, <1>2
<1>4. ASSUME NEW i \in 1 .. n
      PROVE  All(i) \in C
  <2> DEFINE t == [j \in 1 .. i |-> Len(recipes[j].stages)]
  <2>1. i \in Nat /\ t \in [1 .. i -> Nat]
    BY <1>1
  <2> HIDE DEF t
  <2>2. t \in Seq(Nat)
    BY <2>1, FunctionIsSequence
  <2>3. SumOf(t) \in Nat
    BY <2>2, SumOfOneMore, 0 \in Nat
  <2> QED
    BY <1>2, <2>3 DEF t
<1>5. \A k \in 1 .. 2 * n : half(k) \in 1 .. n
  BY <1>1
<1> HIDE DEF One, All, C
<1>6. \A k \in 1 .. 2 * n :
        (IF k = 2 * half(k) - 1 THEN One(half(k)) ELSE All(half(k))) \in C
  <2> HIDE DEF half
  <2> QED
    BY <1>3, <1>4, <1>5
<1>7. StageCharges(recipes) =
        [k \in 1 .. 2 * n |-> IF k = 2 * half(k) - 1 THEN One(half(k)) ELSE All(half(k))]
  BY DEF StageCharges, One, All, n
<1> HIDE DEF half
<1>8. StageCharges(recipes) \in [1 .. 2 * n -> C] /\ 2 * n \in Nat
  BY <1>1, <1>6, <1>7
<1>9. StageCharges(recipes) \in Seq(C)
  BY <1>8, FunctionIsSequence
<1> QED
  BY <1>9 DEF PeakCharges, C

\* What is charged before the first chunk adds to no total, nor do the counts.
LEMMA ManifestIsCharged ==
  ASSUME sources \in SourceLists
  PROVE  /\ ManifestCharges(Manifest) \in PeakCharges
         /\ CountCharges(Manifest) \in PeakCharges
<1> DEFINE C == (CoreResource \ TotalResources) \X Nat
           recipes == RecipesOf(sources)
           streams == [i \in DOMAIN sources |-> [id |-> i - 1, type |-> sources[i].type]]
           extensions == Types \cup Stages
           first == <<<<"recipes", Len(recipes)>>, <<"streams", Len(streams)>>,
                      <<"extensions", Cardinality(extensions)>>>>
           last == <<<<"manifest_bytes", ManifestSize>>>>
<1>1. /\ CountCharges(Manifest) = first \o StageCharges(recipes)
      /\ ManifestCharges(Manifest) = CountCharges(Manifest) \o last
  BY DEF ManifestCharges, CountCharges, Manifest
<1>2. Len(sources) \in Nat /\ DOMAIN sources = 1 .. Len(sources)
      /\ \A i \in DOMAIN sources : sources[i].recipe \in Seq(STRING)
  BY RequestShape
<1>3. recipes \in Seq(Recipe) /\ Len(recipes) \in Nat
  <2>1. recipes \in Seq(Recipe)
    BY RecipesFacts
  <2> HIDE DEF recipes
  <2> QED
    BY <2>1
<1>4. Len(streams) \in Nat
  <2>1. streams \in [1 .. Len(sources) -> {streams[i] : i \in DOMAIN sources}]
    BY <1>2
  <2> HIDE DEF streams
  <2> QED
    BY <1>2, <2>1, FunctionIsSequence
<1>5. Cardinality(extensions) \in Nat
  <2>0. IsFiniteSet(1 .. Len(sources))
    BY <1>2, FS_Interval
  <2> DEFINE types == [i \in 1 .. Len(sources) |-> sources[i].type]
             sets == [i \in 1 .. Len(sources) |-> ToSet(sources[i].recipe)]
  <2>1. IsFiniteSet(Types)
    <3>1. Types = {types[i] : i \in 1 .. Len(sources)}
      BY <1>2 DEF Types
    <3>2. DOMAIN types = 1 .. Len(sources)
      OBVIOUS
    <3> HIDE DEF types
    <3> QED
      BY <2>0, <3>1, <3>2, ImageIsFinite
  <2>2. IsFiniteSet(Stages)
    <3> DEFINE family == {sets[i] : i \in 1 .. Len(sources)}
    <3>1. Stages = UNION family
      BY <1>2 DEF Stages
    <3>2. \A stages \in Seq(STRING) : IsFiniteSet(ToSet(stages))
      <4> SUFFICES ASSUME NEW stages \in Seq(STRING) PROVE IsFiniteSet(ToSet(stages))
        OBVIOUS
      <4>1. IsFiniteSet(DOMAIN stages)
        BY FS_Interval
      <4> QED
        BY <4>1, ImageIsFinite DEF ToSet
    <3>3. \A S \in family : IsFiniteSet(S)
      BY <1>2, <3>2
    <3>4. IsFiniteSet(family)
      <4>1. DOMAIN sets = 1 .. Len(sources)
        OBVIOUS
      <4> HIDE DEF sets
      <4> QED
        BY <2>0, <4>1, ImageIsFinite
    <3> HIDE DEF family
    <3> QED
      BY <3>1, <3>3, <3>4, FS_UNION
  <2>3. IsFiniteSet(extensions)
    BY <2>1, <2>2, FS_Union
  <2> QED
    BY <2>3, FS_CardinalityType
<1>6. /\ "recipes" \in CoreResource \ TotalResources
      /\ "streams" \in CoreResource \ TotalResources
      /\ "extensions" \in CoreResource \ TotalResources
      /\ "manifest_bytes" \in CoreResource \ TotalResources
  BY DEF CoreResource, PeakResources, TotalResources
<1> HIDE DEF recipes, streams, extensions
<1>7. first \in Seq(C) /\ last \in Seq(C)
  BY <1>3, <1>4, <1>5, <1>6, SizesAreNaturals
<1>8. StageCharges(recipes) \in Seq(C)
  BY <1>3, StagesAreCharged DEF PeakCharges
<1> HIDE DEF first, last, C
<1>9. /\ first \o StageCharges(recipes) \in Seq(C)
      /\ (first \o StageCharges(recipes)) \o last \in Seq(C)
  BY <1>7, <1>8, Joined
<1> QED
  BY <1>1, <1>9 DEF PeakCharges, C

\* A new operation is charged for a manifest: if nothing is refused, that leaves all
\* totals as they were and nothing put out.
LEMMA ChargedForManifest ==
  ASSUME NEW policy \in Policy, NEW charges \in PeakCharges,
         NEW m, m = Charged(policy, Session(NewAccount), charges)
  PROVE  /\ IsSession(m) /\ WithinPolicy(policy, m.account)
         /\ TotalsAre(m, 0, 0, 0, 0)
         /\ m.ok => Good(policy, m)
         /\ SameOutput(Session(NewAccount), m)
<1> DEFINE s == Session(NewAccount)
<1>1. /\ IsSession(s) /\ s.account = NewAccount /\ WithinPolicy(policy, s.account)
  <2>1. NewAccount \in Account /\ WithinPolicy(policy, NewAccount)
    BY NewAccountWithinPolicy
  <2> QED
    BY <2>1 DEF Session, IsSession
<1>2. /\ charges \in Charges
      /\ \A k \in 1 .. Len(charges) : charges[k][1] \notin TotalResources
  <2> DEFINE C == (CoreResource \ TotalResources) \X Nat
             D == CoreResource \X Nat
  <2>1. /\ charges \in Seq(C) /\ \A c \in C : c \in D /\ c[1] \notin TotalResources
    BY DEF PeakCharges
  <2> HIDE DEF C, D
  <2>2. \A k \in 1 .. Len(charges) : charges[k] \in C
    BY <2>1
  <2>3. charges \in Seq(D)
    BY <2>1, <2>2, ElementsElsewhere
  <2> QED
    BY <2>1, <2>2, <2>3 DEF Charges, D
<1>3. \A r \in CoreResource : NewAccount[r] = 0
  BY DEF NewAccount
<1> HIDE DEF s
<1>a. m = Charged(policy, s, charges)
  BY DEF s
<1>4. IsSession(m)
  BY <1>1, <1>2, <1>a, ChargedFacts
<1>5. WithinPolicy(policy, m.account)
  BY <1>1, <1>2, <1>a, ChargedFacts
<1>6. SameOutput(s, m)
  BY <1>1, <1>2, <1>a, ChargedFacts
<1>7. Untouched(m, s, charges)
  BY <1>1, <1>2, <1>a, ChargedFacts
<1>8. TotalsAre(m, 0, 0, 0, 0)
  BY <1>1, <1>2, <1>3, <1>7, CoreNames DEF Untouched, TotalsAre
<1> QED
  BY <1>4, <1>5, <1>6, <1>8 DEF Good, s

-----------------------------------------------------------------------------
(* The invariant of a packaging operation.                                 *)

\* What always holds of the writer alone.
WriterInv == Shape /\ TargetInv /\ DepositInv /\ SpentInv /\ AccountWithinPolicy

\* The chunks that were encoded: those the writer has, and the one it takes next.
Made == ChunksOf(InFlight) \o coded

\* Under the policy of the operation, a chunk can be decoded with its decoders.
Recoverable(c) ==
  LET stages == RecipeOf(Manifest, c.recipe).stages IN
  /\ Decodable(writerPolicy, stages, c)
  /\ ToSet(stages) \subseteq Stages

\* Where the operation is tells what the writer holds.
ProgressInv ==
  /\ sources \in SourceLists
  /\ at \in 0 .. Len(sources)
  /\ reading => at # 0
  /\ provided \in [DOMAIN sources -> Seq(Nat \X Nat \X LogicalSizes)]
  /\ coded = <<>> \/ \E c \in Coded : coded = <<c>>
  /\ operation = "prepared" => writerAccount = NewAccount
  /\ operation \in {"prepared", "constructing"} =>
       /\ writerState = "new" /\ coded = <<>>
       /\ \A i \in DOMAIN sources : provided[i] = <<>>
  /\ operation \in {"finishing", "returned"} => coded = <<>>
  /\ operation = "returned" => writerState = "complete"

\* Of an operation that did not raise, all that a recovery needs was allowed: its
\* manifest, every chunk by itself, and what the chunks add up to.
CodingInv ==
  operation \in {"constructing", "packaging", "finishing", "returned"} =>
    /\ Charged(writerPolicy, Session(NewAccount), ManifestCharges(Manifest)).ok
    /\ Made \in Seq(Coded)
    /\ \A k \in 1 .. Len(Made) : Recoverable(Made[k])
    /\ SumOf(Logicals(Made)) <= writerAccount["logical_bytes"]
    /\ SumOf(Executions(Made)) <= writerAccount["stage_executions"]
    /\ \A i \in DOMAIN sources : Recovered(PutOut(Made), i) = provided[i]

\* What always holds of a packaging operation.
PackageInv == WriterInv /\ ProgressInv /\ CodingInv

\* Every step of a writer keeps its invariant.
LEMMA WriterKeeps ==
  ASSUME WriterInv, NEW counts \in PeakCharges, [SessionNext(counts)]_writerVars
  PROVE  WriterInv'
BY ShapeStep, TargetStep, DepositStep, SpentStep, CeilingsStep DEF WriterInv

\* So does what others charge its accountant, if that is no chunk.
LEMMA ChargesKeepWriter ==
  ASSUME WriterInv, writerAccount' \in Account, WithinPolicy(writerPolicy, writerAccount'),
         writerAccount'["chunks"] = writerAccount["chunks"],
         UNCHANGED <<writerPolicy, writerState, nextSequences, writerTotals, bytesWritten,
                     outgoing, target, torn, targetFaulted>>
  PROVE  WriterInv'
<1>1. Idle' = Idle /\ InFlight' = InFlight
  BY DEF Idle, InFlight
<1>2. Shape'
  BY <1>1 DEF WriterInv, Shape, TypeOK
<1>3. TargetInv'
  BY <1>1 DEF WriterInv, TargetInv, MayFollow, CompletedContainerIsValid
<1>4. DepositInv'
  BY DEF WriterInv, DepositInv
<1>5. SpentInv'
  BY <1>1 DEF WriterInv, SpentInv
<1>6. AccountWithinPolicy'
  BY DEF AccountWithinPolicy
<1> QED
  BY <1>2, <1>3, <1>4, <1>5, <1>6 DEF WriterInv

\* No step of a writer lowers what its accountant recorded.
LEMMA AccountGrows ==
  ASSUME Shape, NEW counts \in PeakCharges, [SessionNext(counts)]_writerVars,
         NEW r \in CoreResource
  PROVE  /\ writerAccount[r] <= writerAccount'[r]
         /\ writerAccount[r] \in Nat
<1>0. writerAccount \in Account /\ writerAccount[r] \in Nat
  BY DEF Shape, TypeOK, Account
<1> USE ResourceNames, SizesAreNaturals
<1>1. CASE UNCHANGED writerAccount
  BY <1>0, <1>1
<1>2. ASSUME NEW other \in CoreResource, NEW n \in Nat,
             writerAccount' = Recorded(writerAccount, other, n)
      PROVE  writerAccount[r] <= writerAccount'[r]
  BY <1>0, <1>2, RecordedNeverLower
<1>3. CASE Construct(counts) \/ ConstructRefused(counts)
  <2>1. \A q \in CoreResource : writerAccount[q] <= writerAccount'[q]
    BY ONLY Shape, counts \in PeakCharges, <1>3, ManifestCharged
  <2> QED
    BY <1>0, <2>1
<1>4. ASSUME NEW c \in Chunks, WriteChunk(c)
      PROVE  writerAccount[r] <= writerAccount'[r]
  <2> DEFINE a == Recorded(writerAccount, "encoded_chunk_bytes", c.encoded)
             b == Recorded(a, "logical_chunk_bytes", c.logical)
             d == Recorded(b, "chunks", 1)
  <2>1. writerAccount' = d /\ c.encoded \in Nat /\ c.logical \in Nat /\ 1 \in Nat
    BY <1>4, ChunkSizes DEF WriteChunk, ChargedForChunk
  <2>2. a \in Account /\ writerAccount[r] <= a[r]
    BY <1>0, <2>1, RecordedIsAccount, RecordedNeverLower
  <2> HIDE DEF a
  <2>3. "logical_chunk_bytes" \in CoreResource /\ "chunks" \in CoreResource
    BY CoreNames
  <2>4. b \in Account /\ a[r] <= b[r]
    BY <2>1, <2>2, <2>3, RecordedIsAccount, RecordedNeverLower
  <2> HIDE DEF b
  <2>5. d \in Account /\ b[r] <= d[r]
    BY <2>1, <2>3, <2>4, RecordedIsAccount, RecordedNeverLower
  <2> HIDE DEF d
  <2>6. a[r] \in Nat /\ b[r] \in Nat /\ d[r] \in Nat
    BY <2>2, <2>4, <2>5 DEF Account
  <2> QED
    BY <1>0, <2>1, <2>2, <2>4, <2>5, <2>6
<1>5. ASSUME NEW c \in Chunks, WriteChunkRefused(c)
      PROVE  writerAccount[r] <= writerAccount'[r]
  BY <1>1, <1>2, <1>5, ChunkSizes DEF WriteChunkRefused
<1>6. ASSUME NEW n \in WriteResults, TargetAccepts(n)
      PROVE  writerAccount[r] <= writerAccount'[r]
  <2>1. n \in Nat
    BY DEF WriteResults, Shape, TypeOK
  <2> QED
    BY <1>2, <1>6, <2>1 DEF TargetAccepts
<1>7. ASSUME NEW q \in SharedResources, NEW n \in 1 .. SharedBound,
             ForeignCharge(q, n)
      PROVE  writerAccount[r] <= writerAccount'[r]
  <2>1. q \in CoreResource /\ n \in Nat
    BY WriterAssumption
  <2> QED
    BY <1>2, <1>7, <2>1 DEF ForeignCharge
<1>8. ASSUME NEW n, ChargeRefused(n) \/ TargetRaises(n)
      PROVE  writerAccount[r] <= writerAccount'[r]
  BY <1>1, <1>8 DEF ChargeRefused, TargetRaises
<1>9. CASE Finish \/ UNCHANGED writerVars
  BY <1>1, <1>9 DEF Finish, writerVars
<1> QED
  BY <1>0, <1>3, <1>4, <1>5, <1>6, <1>7, <1>8, <1>9 DEF SessionNext, WriteStep

\* What a step of a writer that goes on adds to the chunks it has.
LEMMA ChunksSent ==
  ASSUME WriterInv
  PROVE  /\ \A counts :
              Construct(counts) => ChunksOf(InFlight)' = ChunksOf(InFlight)
         /\ Finish => ChunksOf(InFlight)' = ChunksOf(InFlight)
         /\ \A c \in Chunks :
              WriteChunk(c) => ChunksOf(InFlight)' = Append(ChunksOf(InFlight), c)
         /\ WriteStep /\ writerState' \notin {"failed", "raised"} =>
              InFlight' = InFlight
<1> USE DEF WriterInv
<1>0. (\E counts : Construct(counts)) \/ Finish
        \/ (\E c \in Chunks : WriteChunk(c)) =>
        target \in Seq(Contents) /\ Idle /\ InFlight = target
  BY DEF TargetInv, Construct, Finish, WriteChunk, MayCall, InFlight
<1>1. ASSUME NEW r, IsRecord(r), r.kind # "none", outgoing' = Sending(r),
             UNCHANGED target, target \in Seq(Contents)
      PROVE  ChunksOf(InFlight)' =
               IF r.kind = "chunk" THEN Append(ChunksOf(target), r.chunk)
               ELSE ChunksOf(target)
  <2> DEFINE R == Contents \cup {r}
  <2>1. InFlight' = Append(target, r)
    BY <1>1, OutgoingKinds DEF InFlight, Idle, Sending
  <2>2. (\A x \in R : IsRecord(x)) /\ r \in R /\ target \in Seq(R)
    BY <1>1, ContentsAreRecords
  <2> HIDE DEF R
  <2> QED
    BY <2>1, <2>2, ChunksOfOneMore
<1>2. ASSUME NEW counts, Construct(counts)
      PROVE  ChunksOf(InFlight)' = ChunksOf(InFlight)
  <2>1. Preamble \in Contents
    BY DEF Contents
  <2>2. /\ IsRecord(Preamble) /\ Preamble.kind = "preamble"
        /\ outgoing' = Sending(Preamble) /\ UNCHANGED target
    BY <1>2, <2>1, ContentsAreRecords, RecordKinds DEF Construct
  <2>3. ChunksOf(InFlight)' = ChunksOf(target)
    BY <1>0, <1>1, <1>2, <2>2
  <2> QED
    BY <1>0, <1>2, <2>3
<1>3. ASSUME Finish
      PROVE  ChunksOf(InFlight)' = ChunksOf(InFlight)
  <2> DEFINE r == CommitRecord(writerTotals, bytesWritten, target)
  <2>1. r.kind = "commit" /\ IsRecord(r)
    BY RecordKinds DEF IsRecord, CommitRecord
  <2>2. outgoing' = Sending(r) /\ UNCHANGED target
    BY <1>3 DEF Finish
  <2> HIDE DEF r
  <2>3. ChunksOf(InFlight)' = ChunksOf(target)
    BY <1>0, <1>1, <1>3, <2>1, <2>2
  <2> QED
    BY <1>0, <1>3, <2>3
<1>4. ASSUME NEW c \in Chunks, WriteChunk(c)
      PROVE  ChunksOf(InFlight)' = Append(ChunksOf(InFlight), c)
  <2>1. ChunkRecord(c) \in Contents
    BY DEF Contents
  <2> QED
    BY <1>0, <1>1, <1>4, <2>1, ContentsAreRecords, RecordKinds DEF WriteChunk
<1>5. ASSUME NEW n \in WriteResults, TargetAccepts(n)
      PROVE  InFlight' = InFlight
  <2>1. n \in Nat /\ ~Idle /\ IsOutgoing(outgoing) /\ outgoing.remaining \in Nat
    BY <1>5 DEF WriteResults, Shape, TypeOK, TargetAccepts
  <2>2. CASE n = outgoing.remaining
    BY <1>5, <2>1, <2>2 DEF TargetAccepts, Accepted, InFlight, Idle
  <2>3. CASE n # outgoing.remaining
    <3>1. /\ outgoing' = [record |-> outgoing.record,
                          remaining |-> outgoing.remaining - n]
          /\ target' = target
      BY <1>5, <2>1, <2>3 DEF TargetAccepts, Accepted, IsOutgoing
    <3>2. ~Idle'
      BY <2>1, <3>1, BusyKinds, OutgoingKinds DEF Idle
    <3> QED
      BY <2>1, <3>1, <3>2 DEF InFlight
  <2> QED
    BY <2>2, <2>3
<1>6. ASSUME NEW n, ChargeRefused(n) \/ TargetRaises(n)
      PROVE  writerState' \in {"failed", "raised"}
  BY <1>6 DEF ChargeRefused, TargetRaises, Broken
<1> QED
  BY <1>2, <1>3, <1>4, <1>5, <1>6 DEF WriteStep

-----------------------------------------------------------------------------
(* Every step of the operation keeps it.                                   *)

\* What chunks add up to.
LEMMA ChunkSums ==
  ASSUME NEW chunks \in Seq(Coded)
  PROVE  SumOf(Logicals(chunks)) \in Nat /\ SumOf(Executions(chunks)) \in Nat
<1>1. \A c \in Coded : c \in Chunks /\ c.id.through \in Seq(STRING)
  BY DEF Coded
<1>2. \A k \in 1 .. Len(chunks) : chunks[k] \in Coded
  OBVIOUS
<1>3. chunks \in Seq(Chunks)
  BY <1>1, <1>2, ElementsElsewhere
<1>4. Logicals(chunks) \in Seq(Nat) /\ Executions(chunks) \in Seq(Nat)
  BY <1>1, <1>2, <1>3, ChunkNumbers
<1> QED
  BY <1>4, SumOfOneMore, 0 \in Nat

\* The operation has passed its preflight and did not raise.
Active == {"constructing", "packaging", "finishing", "returned"}

\* An operation that makes no chunk stays recoverable.
LEMMA CodingStays ==
  ASSUME CodingInv, UNCHANGED <<writerPolicy, sources, provided>>, Made' = Made,
         \A r \in CoreResource : /\ writerAccount[r] \in Nat /\ writerAccount'[r] \in Nat
                                 /\ writerAccount[r] <= writerAccount'[r],
         operation' \in Active => operation \in Active
  PROVE  CodingInv'
<1> SUFFICES ASSUME operation' \in Active PROVE CodingInv'
  BY DEF CodingInv, Active
<1>1. Manifest' = Manifest /\ Stages' = Stages
  BY DEF Manifest, Types, Stages
<1>2. /\ Charged(writerPolicy, Session(NewAccount), ManifestCharges(Manifest)).ok
      /\ Made \in Seq(Coded)
      /\ \A k \in 1 .. Len(Made) : Recoverable(Made[k])
      /\ SumOf(Logicals(Made)) <= writerAccount["logical_bytes"]
      /\ SumOf(Executions(Made)) <= writerAccount["stage_executions"]
      /\ \A i \in DOMAIN sources : Recovered(PutOut(Made), i) = provided[i]
  BY DEF CodingInv, Active
<1>3. /\ SumOf(Logicals(Made)) <= writerAccount'["logical_bytes"]
      /\ SumOf(Executions(Made)) <= writerAccount'["stage_executions"]
  <2>1. SumOf(Logicals(Made)) \in Nat /\ SumOf(Executions(Made)) \in Nat
    BY <1>2, ChunkSums
  <2>2. /\ writerAccount["logical_bytes"] \in Nat /\ writerAccount'["logical_bytes"] \in Nat
        /\ writerAccount["logical_bytes"] <= writerAccount'["logical_bytes"]
    BY CoreNames
  <2>3. /\ writerAccount["stage_executions"] \in Nat
        /\ writerAccount'["stage_executions"] \in Nat
        /\ writerAccount["stage_executions"] <= writerAccount'["stage_executions"]
    BY CoreNames
  <2> QED
    BY <1>2, <2>1, <2>2, <2>3
<1>4. \A k \in 1 .. Len(Made') : Recoverable(Made[k])'
  BY <1>1, <1>2 DEF Recoverable
<1> QED
  BY <1>1, <1>2, <1>3, <1>4 DEF CodingInv

\* Between two calls the writer has chunks in a sequence.
LEMMA ChunksInFlight ==
  ASSUME WriterInv, MayCall \/ writerState = "new"
  PROVE  \E S : ChunksOf(InFlight) \in Seq(S)
<1>1. target \in Seq(Contents) /\ InFlight = target
  BY DEF WriterInv, TargetInv, MayCall, InFlight
<1> QED
  BY <1>1, ContentsAreRecords, ChunksAreChunks

\* A writer that is not constructed has no chunks.
LEMMA NothingMade ==
  ASSUME WriterInv, writerState = "new", coded = <<>>
  PROVE  Made = <<>>
<1>1. InFlight = <<>>
  BY DEF WriterInv, TargetInv, InFlight
<1> QED
  BY <1>1, NothingYet DEF Made

\* The account and the policy of a writer have their types.
LEMMA AccountTypes ==
  ASSUME WriterInv
  PROVE  writerAccount \in Account /\ writerPolicy \in Policy
BY WriterAssumption DEF WriterInv, Shape, TypeOK

\* Preflight.
LEMMA PreflightKeeps ==
  ASSUME PackageInv, Preflight
  PROVE  PackageInv'
<1> USE DEF PackageInv
<1> DEFINE s == Session(writerAccount)
           planned == Require(s, Plannable)
           m == Charged(writerPolicy, Session(NewAccount), ManifestCharges(Manifest))
           charged == IF planned.ok
                      THEN Charged(writerPolicy, planned, ManifestCharges(Manifest))
                      ELSE planned
<1>1. /\ operation = "prepared" /\ writerAccount = NewAccount /\ writerState = "new"
      /\ coded = <<>> /\ \A i \in DOMAIN sources : provided[i] = <<>>
      /\ UNCHANGED <<writerPolicy, writerState, nextSequences, writerTotals,
                     bytesWritten, outgoing, target, torn, targetFaulted, sources,
                     encoders, claimed, at, reading, coded, provided>>
      /\ writerAccount' = charged.account
      /\ operation' \in {"constructing", "raised"}
      /\ operation' = "constructing" => charged.ok
  BY DEF Preflight, ProgressInv
<1>2. writerPolicy \in Policy /\ sources \in SourceLists /\ NewAccount \in Account
      /\ WithinPolicy(writerPolicy, NewAccount)
  BY AccountTypes, NewAccountWithinPolicy DEF ProgressInv
<1>3. /\ IsSession(m) /\ WithinPolicy(writerPolicy, m.account) /\ TotalsAre(m, 0, 0, 0, 0)
  BY <1>2, ManifestIsCharged, ChargedForManifest
<1>4. /\ charged.account \in Account /\ WithinPolicy(writerPolicy, charged.account)
      /\ charged.account["chunks"] = 0
      /\ charged.ok => m.ok /\ charged.account = m.account
  <2>1. s = [ok |-> TRUE, account |-> NewAccount, output |-> <<>>]
    BY <1>1 DEF Session
  <2> HIDE DEF s
  <2>2. CASE Plannable
    <3>0. planned = [ok |-> TRUE, account |-> NewAccount, output |-> <<>>]
      BY <2>1, <2>2 DEF Require
    <3>1. planned = Session(NewAccount) /\ planned.ok
      BY <3>0 DEF Session
    <3> HIDE DEF planned, m
    <3>2. charged = m
      BY <3>1 DEF m
    <3> HIDE DEF charged
    <3> QED
      BY <1>3, <3>2 DEF IsSession, TotalsAre
  <2>3. CASE ~Plannable
    <3>0. planned.account = NewAccount /\ ~planned.ok
      <4>1. planned = [s EXCEPT !.ok = s.ok /\ Plannable]
        BY DEF Require
      <4>2. planned.account = NewAccount
        BY <2>1, <4>1
      <4>3. planned.ok = (s.ok /\ Plannable)
        BY <2>1, <4>1
      <4> QED
        BY <2>3, <4>2, <4>3
    <3>1. ~planned.ok /\ planned.account = NewAccount /\ NewAccount["chunks"] = 0
      BY <3>0, CoreNames DEF NewAccount
    <3> HIDE DEF planned, m
    <3>2. charged = planned
      BY <3>1
    <3> HIDE DEF charged
    <3> QED
      BY <1>2, <3>1, <3>2
  <2> QED
    BY <2>2, <2>3
<1> HIDE DEF charged, planned
<1>5. NewAccount["chunks"] = 0
  BY CoreNames DEF NewAccount
<1>6. WriterInv'
  BY <1>1, <1>4, <1>5, ChargesKeepWriter
<1>7. ProgressInv'
  BY <1>1 DEF ProgressInv
<1>8. CodingInv'
  <2> SUFFICES ASSUME operation' = "constructing" PROVE CodingInv'
    BY <1>1 DEF CodingInv
  <2>1. m.ok /\ writerAccount' = m.account
    BY <1>1, <1>4
  <2>2. Made' = <<>>
    BY <1>1, NothingMade DEF Made, InFlight, Idle
  <2>3. Manifest' = Manifest
    BY <1>1 DEF Manifest, Types, Stages
  <2>4. /\ SumOf(Logicals(<<>>)) = 0 /\ SumOf(Executions(<<>>)) = 0
        /\ <<>> \in Seq(Coded) /\ Len(<<>>) = 0
    <3>1. Logicals(<<>>) = <<>> /\ Executions(<<>>) = <<>>
      BY DEF Logicals, Executions
    <3> QED
      BY <3>1, SumOfNothing
  <2>5. writerAccount'["logical_bytes"] = 0 /\ writerAccount'["stage_executions"] = 0
    BY <1>3, <2>1 DEF TotalsAre
  <2>6. \A i \in DOMAIN sources : Recovered(PutOut(<<>>), i) = provided[i]
    BY <1>1, NothingRecovered
  <2> QED
    BY <1>1, <2>1, <2>2, <2>3, <2>4, <2>5, <2>6 DEF CodingInv
<1> QED
  BY <1>6, <1>7, <1>8

\* A call other than the constructor is one whatever is counted, also nothing.
LEMMA NothingCounted == <<>> \in PeakCharges
BY DEF PeakCharges

\* What is enough for a step of the writer.
LEMMA WriterStepKeeps ==
  ASSUME PackageInv, ProgressInv',
         NEW counts \in PeakCharges, [SessionNext(counts)]_writerVars,
         UNCHANGED <<sources, provided>>, operation' \in Active => Made' = Made,
         operation' \in Active => operation \in Active
  PROVE  PackageInv'
<1>1. WriterInv'
  BY WriterKeeps DEF PackageInv
<1>2. UNCHANGED writerPolicy
  BY DEF SessionNext, Construct, ConstructRefused, WriteChunk, WriteChunkRefused, Finish,
         WriteStep, TargetAccepts, ChargeRefused, TargetRaises, ForeignCharge, writerVars
<1>3. \A r \in CoreResource : /\ writerAccount[r] \in Nat /\ writerAccount'[r] \in Nat
                              /\ writerAccount[r] <= writerAccount'[r]
  <2>1. writerAccount' \in Account
    BY <1>1 DEF WriterInv, Shape, TypeOK
  <2> QED
    BY <2>1, AccountGrows DEF PackageInv, WriterInv, Account
<1>4. CASE operation' \in Active
  BY <1>1, <1>2, <1>3, <1>4, CodingStays DEF PackageInv
<1>5. CASE operation' \notin Active
  BY <1>1, <1>5 DEF PackageInv, CodingInv, Active
<1> QED
  BY <1>4, <1>5

\* The writer is constructed, or not.
LEMMA OpenWriterKeeps ==
  ASSUME PackageInv, OpenWriter
  PROVE  PackageInv'
<1> USE DEF PackageInv
<1>1. /\ operation = "constructing"
      /\ UNCHANGED <<sources, encoders, claimed, at, reading, coded, provided>>
      /\ operation' = IF writerState' = "raised" THEN "raised" ELSE "packaging"
  BY DEF OpenWriter
<1>2. PICK counts \in PeakCharges : Construct(counts) \/ ConstructRefused(counts)
  BY ManifestIsCharged DEF OpenWriter, ProgressInv
<1>3. ProgressInv'
  BY <1>1 DEF ProgressInv
<1>4. operation' \in Active => Made' = Made
  <2> SUFFICES ASSUME operation' \in Active PROVE Made' = Made
    OBVIOUS
  <2>1. Construct(counts)
    BY <1>1, <1>2 DEF ConstructRefused, Active
  <2> QED
    BY <1>1, <2>1, ChunksSent DEF Made
<1>5. SessionNext(counts)
  BY <1>2 DEF SessionNext
<1> QED
  BY <1>1, <1>3, <1>4, <1>5, WriterStepKeeps DEF Active

\* The target takes bytes, or raises.
LEMMA SendKeeps ==
  ASSUME PackageInv, Send
  PROVE  PackageInv'
<1> USE DEF PackageInv
<1>1. /\ WriteStep /\ SessionNext(<<>>)
      /\ UNCHANGED <<sources, encoders, claimed, at, reading, coded, provided>>
      /\ operation' = IF writerState' \in {"failed", "raised"} THEN "raised" ELSE operation
  BY DEF Send, SessionNext
<1>2. writerState = "writing"
  <2>1. ~Idle
    BY <1>1 DEF WriteStep, TargetAccepts, ChargeRefused, TargetRaises
  <2> QED
    BY <2>1 DEF WriterInv, Shape
<1>3. operation \notin {"prepared", "constructing", "returned"}
  BY <1>2 DEF ProgressInv
<1>4. ProgressInv'
  BY <1>1, <1>3 DEF ProgressInv
<1>5. operation' \in Active => Made' = Made /\ operation \in Active
  <2> SUFFICES ASSUME operation' \in Active PROVE Made' = Made /\ operation \in Active
    OBVIOUS
  <2>1. operation' = operation /\ writerState' \notin {"failed", "raised"}
    BY <1>1 DEF Active
  <2>2. InFlight' = InFlight
    BY <1>1, <2>1, ChunksSent
  <2> QED
    BY <1>1, <2>1, <2>2 DEF Made
<1> QED
  BY <1>1, <1>4, <1>5, NothingCounted, WriterStepKeeps

\* Nothing of the writer changes, nor what it was given.
LEMMA OthersKeep ==
  ASSUME PackageInv,
         NextSource \/ SourceEnds \/ ForeignRaises \/ Return \/ UNCHANGED packagerVars,
         UNCHANGED writerVars
  PROVE  PackageInv'
<1> USE DEF PackageInv
<1>1. UNCHANGED <<sources, coded, provided>> /\ Made' = Made
  BY DEF NextSource, SourceEnds, ForeignRaises, Return, packagerVars, Made, InFlight,
         Idle, writerVars
<1>2. operation' \in Active => operation \in Active
  BY DEF NextSource, SourceEnds, ForeignRaises, Return, packagerVars, Active, Packaging
<1>3. Len(sources) \in Nat
  BY RequestShape DEF ProgressInv
<1>4. ProgressInv'
  <2> USE DEF writerVars
  <2>1. CASE NextSource
    <3>1. /\ operation = "packaging" /\ operation' \in {"packaging", "raised"}
          /\ at' \in {at, at + 1} /\ at' <= Len(sources)
          /\ reading' => at' = at + 1
          /\ UNCHANGED <<sources, coded, provided>>
      BY <1>3, <2>1 DEF NextSource, Packaging, ProgressInv
    <3>2. at' \in 0 .. Len(sources) /\ (reading' => at' # 0)
      BY <1>3, <3>1 DEF ProgressInv
    <3> QED
      BY <3>1, <3>2 DEF ProgressInv
  <2>2. CASE SourceEnds
    BY <2>2 DEF SourceEnds, Packaging, ProgressInv
  <2>3. CASE ForeignRaises
    BY <2>3 DEF ForeignRaises, ProgressInv
  <2>4. CASE Return
    BY <2>4 DEF Return, ProgressInv
  <2>5. CASE UNCHANGED packagerVars
    BY <2>5 DEF packagerVars, ProgressInv
  <2> QED
    BY <2>1, <2>2, <2>3, <2>4, <2>5
<1> QED
  BY <1>1, <1>2, <1>4, NothingCounted, WriterStepKeeps

\* The commit is sent.
LEMMA FinishWriterKeeps ==
  ASSUME PackageInv, FinishWriter
  PROVE  PackageInv'
<1> USE DEF PackageInv
<1>1. /\ operation = "packaging" /\ operation' = "finishing" /\ coded = <<>>
      /\ SessionNext(<<>>) /\ Finish
      /\ UNCHANGED <<sources, encoders, claimed, at, reading, coded, provided>>
  BY DEF FinishWriter, Packaging, SessionNext
<1>2. ProgressInv'
  BY <1>1 DEF ProgressInv
<1>3. Made' = Made
  BY <1>1, ChunksSent DEF Made
<1> QED
  BY <1>1, <1>2, <1>3, NothingCounted, WriterStepKeeps DEF Active

\* The writer takes the encoded chunk, or refuses it.
LEMMA HandOverKeeps ==
  ASSUME PackageInv, HandOver
  PROVE  PackageInv'
<1> USE DEF PackageInv
<1>1. /\ operation = "packaging" /\ operation' \in {"packaging", "raised"} /\ coded' = <<>>
      /\ UNCHANGED <<sources, encoders, claimed, at, reading, provided>>
  BY DEF HandOver
<1>2. PICK c \in Coded : coded = <<c>>
  BY DEF HandOver, ProgressInv
<1>3. c \in Chunks /\ coded[1] = c
  BY <1>2 DEF Coded
<1>4. /\ WriteChunk(c) \/ WriteChunkRefused(c)
      /\ operation' = "packaging" => WriteChunk(c)
  BY <1>1, <1>3 DEF HandOver
<1>5. SessionNext(<<>>) /\ MayCall
  BY <1>3, <1>4 DEF SessionNext, WriteChunk, WriteChunkRefused
<1>6. ProgressInv'
  BY <1>1 DEF ProgressInv
<1>7. operation' \in Active => Made' = Made
  <2> SUFFICES ASSUME WriteChunk(c) PROVE Made' = Made
    BY <1>1, <1>4 DEF Active
  <2>1. ChunksOf(InFlight)' = Append(ChunksOf(InFlight), c)
    BY <1>3, ChunksSent
  <2>2. PICK S : ChunksOf(InFlight) \in Seq(S)
    BY <1>5, ChunksInFlight
  <2> DEFINE chunks == ChunksOf(InFlight)
  <2>3. chunks \in Seq(S) /\ Made = chunks \o <<c>> /\ Made' = Append(chunks, c) \o <<>>
    BY <1>1, <1>2, <2>1, <2>2 DEF Made
  <2> HIDE DEF chunks
  <2>4. chunks \in Seq(S \cup {c})
    BY <2>3
  <2>5. Append(chunks, c) \o <<>> = chunks \o <<c>>
    BY <2>4
  <2> QED
    BY <2>3, <2>5
<1> QED
  BY <1>1, <1>5, <1>6, <1>7, NothingCounted, WriterStepKeeps DEF Active

\* What a source's chunk becomes: the encoder takes it for the manifest's recipe.
LEMMA ChunkOfSource ==
  ASSUME sources \in SourceLists, NEW i \in DOMAIN sources,
         NEW k \in 0 .. (MaxChunks - 1), NEW n \in LogicalSizes,
         NEW c, c = ChunkOf(sources, i, k, n)
  PROVE  /\ c = EncodedChunk(DataOf(i, k, n), IdOf(i, k), RecipeFor(sources, i))
         /\ c \in Coded /\ c.stream = i - 1 /\ c.id.content = <<i, k, n>>
         /\ RecipeOf(Manifest, c.recipe).stages = RecipeFor(sources, i).stages
         /\ RecipeFor(sources, i).stages \in Seq(STRING)
         /\ ToSet(RecipeFor(sources, i).stages) \subseteq Stages
<1> DEFINE recipe == RecipeFor(sources, i)
<1>1. c = EncodedChunk(DataOf(i, k, n), IdOf(i, k), recipe)
  BY DEF ChunkOf
<1>2. /\ RecipeOf(Manifest, recipe.id) = recipe /\ recipe.stages \in Seq(STRING)
      /\ ToSet(recipe.stages) \subseteq Stages
  BY RecipeFound
<1> HIDE DEF recipe
<1>3. /\ c.stream = i - 1 /\ c.id.content = <<i, k, n>> /\ c.id.through = recipe.stages
      /\ c.recipe = recipe.id
  BY <1>1 DEF EncodedChunk, DataOf, IdOf
<1>4. c \in Chunks
  BY PackagerAssumption
<1> QED
  BY <1>1, <1>2, <1>3, <1>4 DEF Coded, recipe

\* A condition on a session.
LEMMA Required ==
  ASSUME NEW s, IsSession(s), NEW condition, NEW t, t = Require(s, condition)
  PROVE  /\ t.account = s.account
         /\ t.ok => IsSession(t)
<1>1. /\ s = [ok |-> s.ok, account |-> s.account, output |-> s.output]
      /\ s.ok \in BOOLEAN /\ s.account \in Account
  BY DEF IsSession
<1>2. t = [s EXCEPT !.ok = s.ok /\ condition]
  BY DEF Require
<1>3. t = [ok |-> s.ok /\ condition, account |-> s.account, output |-> s.output]
  BY <1>1, <1>2
<1>4. t.account = s.account
  BY <1>3
<1>5. ASSUME t.ok PROVE IsSession(t)
  <2>0. t.ok = (s.ok /\ condition)
    BY <1>3
  <2>1. s.ok /\ condition
    BY <1>5, <2>0
  <2>2. (s.ok /\ condition) = TRUE
    BY <2>1
  <2>3. t = [ok |-> TRUE, account |-> s.account, output |-> s.output]
    BY <1>3, <2>2
  <2> QED
    BY <1>1, <2>3 DEF IsSession
<1> QED
  BY <1>4, <1>5

\* The contents that a source yielded, with one more.
LEMMA ProvidedOneMore ==
  ASSUME ProgressInv, NEW i \in DOMAIN sources, NEW n \in LogicalSizes,
         Len(provided[i]) < MaxChunks,
         provided' = [provided EXCEPT ![i] = Append(@, <<i, Len(provided[i]), n>>)]
  PROVE  /\ Len(provided[i]) \in 0 .. (MaxChunks - 1)
         /\ provided' \in [DOMAIN sources -> Seq(Nat \X Nat \X LogicalSizes)]
         /\ \A j \in DOMAIN sources :
              provided'[j] = IF j = i THEN Append(provided[i], <<i, Len(provided[i]), n>>)
                             ELSE provided[j]
<1> DEFINE S == Nat \X Nat \X LogicalSizes
           D == DOMAIN sources
           x == <<i, Len(provided[i]), n>>
<1>1. provided \in [D -> Seq(S)] /\ i \in Nat /\ MaxChunks \in Nat
  <2>1. provided \in [D -> Seq(S)] /\ MaxChunks \in Nat
    BY PackagerAssumption DEF ProgressInv
  <2>2. DOMAIN sources = 1 .. Len(sources) /\ Len(sources) \in Nat
    BY RequestShape DEF ProgressInv
  <2> QED
    BY <2>1, <2>2
<1>2. provided[i] \in Seq(S) /\ Len(provided[i]) \in Nat /\ x \in S
  <2>1. provided[i] \in Seq(S)
    BY <1>1
  <2> HIDE DEF S
  <2>2. Len(provided[i]) \in Nat
    BY <2>1
  <2> QED
    BY <1>1, <2>1, <2>2 DEF S
<1> HIDE DEF S, x
<1>3. Append(provided[i], x) \in Seq(S)
  BY <1>2
<1>4. provided' = [provided EXCEPT ![i] = Append(provided[i], x)]
  BY DEF x
<1> HIDE DEF D
<1>5. provided' \in [D -> Seq(S)]
  BY <1>1, <1>3, <1>4
<1>6. \A j \in D : provided'[j] = IF j = i THEN Append(provided[i], x) ELSE provided[j]
  BY <1>1, <1>4
<1> QED
  BY <1>1, <1>2, <1>5, <1>6 DEF S, D, x

\* A source yields a chunk, which is encoded or refused.
LEMMA ProvideChunkKeeps ==
  ASSUME PackageInv, NEW n \in LogicalSizes, ProvideChunk(n)
  PROVE  PackageInv'
<1> USE DEF PackageInv
<1> DEFINE k == Len(provided[at])
           c == ChunkOf(sources, at, k, n)
           condition == n <= sources[at].max /\ FitsChunkCapacity([logical |-> n])
           admitted == Require(Session(writerAccount), condition)
           recipe == RecipeFor(sources, at)
           t == EncodeChunk(writerPolicy, admitted, DataOf(at, k, n), IdOf(at, k), recipe)
           encoded == IF admitted.ok THEN t ELSE admitted
<1>1. /\ operation = "packaging" /\ MayCall /\ coded = <<>> /\ reading
      /\ k < MaxChunks
      /\ writerAccount' = encoded.account
      /\ IF encoded.ok
         THEN /\ coded' = <<encoded.output>>
              /\ provided' = [provided EXCEPT ![at] = Append(@, <<at, k, n>>)]
              /\ UNCHANGED operation
         ELSE operation' = "raised" /\ UNCHANGED <<coded, provided>>
      /\ UNCHANGED <<writerPolicy, writerState, nextSequences, writerTotals, bytesWritten,
                     outgoing, target, torn, targetFaulted, sources, encoders, claimed,
                     at, reading>>
  BY DEF ProvideChunk, Packaging, DataOf, IdOf
<1>2. /\ at \in DOMAIN sources /\ sources \in SourceLists /\ k \in 0 .. (MaxChunks - 1)
      /\ writerPolicy \in Policy /\ writerAccount \in Account
      /\ WithinPolicy(writerPolicy, writerAccount)
  <2>1. at \in DOMAIN sources
    BY <1>1, RequestShape DEF ProgressInv
  <2>2. provided[at] \in Seq(Nat \X Nat \X LogicalSizes)
    BY <2>1 DEF ProgressInv
  <2>3. k \in Nat /\ MaxChunks \in Nat
    BY <2>2, PackagerAssumption
  <2> QED
    BY <1>1, <2>1, <2>3, AccountTypes DEF ProgressInv, WriterInv, AccountWithinPolicy
<1>3. /\ c = EncodedChunk(DataOf(at, k, n), IdOf(at, k), recipe)
      /\ c \in Coded /\ c.stream = at - 1 /\ c.id.content = <<at, k, n>>
      /\ RecipeOf(Manifest, c.recipe).stages = recipe.stages
      /\ recipe.stages \in Seq(STRING)
      /\ ToSet(recipe.stages) \subseteq Stages
  BY <1>2, ChunkOfSource
<1>4. /\ admitted.account = writerAccount
      /\ admitted.ok => IsSession(admitted)
  <2> DEFINE s == Session(writerAccount)
  <2>1. IsSession(s) /\ s.account = writerAccount
    BY <1>2 DEF Session, IsSession
  <2> HIDE DEF s, condition
  <2> QED
    BY <2>1, Required DEF s
<1> HIDE DEF admitted, recipe, k
<1>5. c \in Chunks
  BY <1>3 DEF Coded
<1> DEFINE goal ==
             /\ t.account \in Account /\ t.output = c
             /\ WithinPolicy(writerPolicy, t.account)
             /\ \A r \in CoreResource : writerAccount[r] <= t.account[r]
             /\ t.account["chunks"] = writerAccount["chunks"]
             /\ t.ok =>
                  /\ Decodable(writerPolicy, recipe.stages, c)
                  /\ writerAccount["logical_bytes"] + c.logical
                       <= t.account["logical_bytes"]
                  /\ writerAccount["stage_executions"] + Len(c.id.through)
                       <= t.account["stage_executions"]
<1>6. ASSUME admitted.ok PROVE goal
  BY <1>2, <1>3, <1>4, <1>5, <1>6, EncodingFacts
<1> HIDE DEF c, t
<1>7. /\ writerAccount' \in Account /\ WithinPolicy(writerPolicy, writerAccount')
      /\ writerAccount'["chunks"] = writerAccount["chunks"]
      /\ encoded.ok => admitted.ok /\ encoded = t
  <2>1. CASE admitted.ok
    BY <1>1, <1>6, <2>1
  <2>2. CASE ~admitted.ok
    BY <1>1, <1>2, <1>4, <2>2
  <2> QED
    BY <2>1, <2>2
<1> HIDE DEF goal
<1>8. WriterInv'
  BY <1>1, <1>7, ChargesKeepWriter
<1>9. CASE ~encoded.ok
  <2>1. ProgressInv'
    BY <1>1, <1>9 DEF ProgressInv
  <2>2. CodingInv'
    BY <1>1, <1>9 DEF CodingInv
  <2> QED
    BY <1>8, <2>1, <2>2
<1>10. CASE encoded.ok
  <2>1. /\ t.ok /\ coded' = <<c>> /\ operation' = "packaging"
        /\ writerAccount' = t.account
        /\ provided' = [provided EXCEPT ![at] = Append(@, <<at, k, n>>)]
    BY <1>1, <1>6, <1>7, <1>10 DEF goal
  <2> HIDE DEF encoded
  <2>2. /\ provided' \in [DOMAIN sources -> Seq(Nat \X Nat \X LogicalSizes)]
        /\ \A j \in DOMAIN sources :
             provided'[j] = IF j = at THEN Append(provided[at], <<at, k, n>>)
                            ELSE provided[j]
    BY <1>1, <1>2, <2>1, ProvidedOneMore DEF k
  <2>3. ProgressInv'
    BY <1>1, <1>3, <2>1, <2>2 DEF ProgressInv
  <2>4. /\ Charged(writerPolicy, Session(NewAccount), ManifestCharges(Manifest)).ok
        /\ Made \in Seq(Coded)
        /\ \A j \in 1 .. Len(Made) : Recoverable(Made[j])
        /\ SumOf(Logicals(Made)) <= writerAccount["logical_bytes"]
        /\ SumOf(Executions(Made)) <= writerAccount["stage_executions"]
        /\ \A i \in DOMAIN sources : Recovered(PutOut(Made), i) = provided[i]
    BY <1>1 DEF CodingInv
  <2>5. Made' = Append(Made, c)
    <3>1. PICK S : ChunksOf(InFlight) \in Seq(S)
      BY <1>1, ChunksInFlight
    <3>2. ChunksOf(InFlight)' = ChunksOf(InFlight)
      BY <1>1 DEF InFlight, Idle
    <3> DEFINE chunks == ChunksOf(InFlight)
    <3>3. Made = chunks \o <<>> /\ Made' = chunks \o <<c>> /\ chunks \in Seq(S)
      BY <1>1, <2>1, <3>1, <3>2 DEF Made
    <3> HIDE DEF chunks
    <3>4. chunks \in Seq(S \cup {c}) /\ chunks \o <<>> = chunks
      BY <3>3
    <3> QED
      BY <3>3, <3>4
  <2>6. Manifest' = Manifest /\ Stages' = Stages
    BY <1>1 DEF Manifest, Types, Stages
  <2>7. /\ Append(Made, c) \in Seq(Coded)
        /\ SumOf(Logicals(Append(Made, c))) = SumOf(Logicals(Made)) + c.logical
        /\ SumOf(Executions(Append(Made, c))) =
             SumOf(Executions(Made)) + Len(c.id.through)
        /\ SumOf(Logicals(Made)) \in Nat /\ SumOf(Executions(Made)) \in Nat
        /\ c.logical \in Nat /\ Len(c.id.through) \in Nat
        /\ PutOut(Append(Made, c)) =
             Append(PutOut(Made), [stream |-> c.stream, content |-> c.id.content])
    BY <1>3, <2>4, OneChunkMore
  <2>8. \A j \in 1 .. Len(Made') : Recoverable(Made[j])'
    <3>1. Recoverable(c)
      BY <1>3, <1>6, <1>7, <1>10, <2>1 DEF goal, Recoverable
    <3>2. \A j \in 1 .. Len(Append(Made, c)) : Recoverable(Append(Made, c)[j])
      <4> SUFFICES ASSUME NEW j \in 1 .. Len(Append(Made, c))
                   PROVE  Recoverable(Append(Made, c)[j])
        OBVIOUS
      <4>1. \/ j = Len(Made) + 1 /\ Append(Made, c)[j] = c
            \/ j \in 1 .. Len(Made) /\ Append(Made, c)[j] = Made[j]
        BY <2>4
      <4> QED
        BY <2>4, <3>1, <4>1
    <3>3. writerPolicy' = writerPolicy
      BY <1>1
    <3>4. \A j \in 1 .. Len(Append(Made, c)) : Recoverable(Made[j])'
      BY <2>5, <2>6, <3>2, <3>3 DEF Recoverable
    <3> QED
      BY <2>5, <3>4
  <2>9. /\ SumOf(Logicals(Append(Made, c))) <= writerAccount'["logical_bytes"]
        /\ SumOf(Executions(Append(Made, c))) <= writerAccount'["stage_executions"]
    <3>1. /\ writerAccount["logical_bytes"] + c.logical <= writerAccount'["logical_bytes"]
          /\ writerAccount["stage_executions"] + Len(c.id.through)
               <= writerAccount'["stage_executions"]
      BY <1>6, <1>7, <1>10, <2>1 DEF goal
    <3>2. \A a \in Account : a["logical_bytes"] \in Nat /\ a["stage_executions"] \in Nat
      BY CoreNames DEF Account
    <3>3. /\ writerAccount["logical_bytes"] \in Nat
          /\ writerAccount["stage_executions"] \in Nat
          /\ writerAccount'["logical_bytes"] \in Nat
          /\ writerAccount'["stage_executions"] \in Nat
      BY <1>2, <1>7, <3>2
    <3>4. SumOf(Logicals(Append(Made, c))) <= writerAccount'["logical_bytes"]
      BY <2>4, <2>7, <3>1, <3>3
    <3>5. SumOf(Executions(Append(Made, c))) <= writerAccount'["stage_executions"]
      BY <2>4, <2>7, <3>1, <3>3
    <3> QED
      BY <3>4, <3>5
  <2>10. \A i \in DOMAIN sources : Recovered(PutOut(Append(Made, c)), i) = provided'[i]
    <3> SUFFICES ASSUME NEW i \in DOMAIN sources
                 PROVE  Recovered(PutOut(Append(Made, c)), i) = provided'[i]
      OBVIOUS
    <3> DEFINE e == [stream |-> c.stream, content |-> c.id.content]
    <3>1. PICK S : PutOut(Made) \in Seq(S) /\ e \in S
      <4> DEFINE T == {PutOut(Made)[j] : j \in 1 .. Len(Made)} \cup {e}
      <4>1. Len(Made) \in Nat /\ PutOut(Made) \in [1 .. Len(Made) -> T]
        <5>1. Len(Made) \in Nat /\ DOMAIN Made = 1 .. Len(Made)
          BY <2>4
        <5>2. PutOut(Made) \in [1 .. Len(Made) ->
                                 {PutOut(Made)[j] : j \in 1 .. Len(Made)} \cup {e}]
          BY <5>1 DEF PutOut
        <5> QED
          BY <5>1, <5>2
      <4>2. e \in T
        OBVIOUS
      <4> HIDE DEF T, e
      <4>3. PutOut(Made) \in Seq(T)
        BY <4>1, FunctionIsSequence
      <4> QED
        BY <4>2, <4>3
    <3>2. e.stream = at - 1 /\ e.content = <<at, k, n>>
      BY <1>3
    <3> HIDE DEF e
    <3>3. Recovered(Append(PutOut(Made), e), i) =
            IF e.stream = i - 1 THEN Append(Recovered(PutOut(Made), i), e.content)
            ELSE Recovered(PutOut(Made), i)
      BY <3>1, RecoveredOneMore
    <3>4. i \in Nat /\ at \in Nat /\ (at - 1 = i - 1 <=> i = at)
      <4>1. DOMAIN sources = 1 .. Len(sources) /\ Len(sources) \in Nat
        BY <1>2, RequestShape
      <4> QED
        BY <1>2, <4>1
    <3>5. PutOut(Append(Made, c)) = Append(PutOut(Made), e)
      BY <2>7 DEF e
    <3>6. Recovered(PutOut(Made), i) = provided[i]
      BY <2>4
    <3> QED
      BY <2>2, <3>2, <3>3, <3>4, <3>5, <3>6
  <2>11. CodingInv'
    <3>1. writerPolicy' = writerPolicy /\ sources' = sources
      BY <1>1
    <3> QED
      BY <2>4, <2>5, <2>6, <2>7, <2>8, <2>9, <2>10, <3>1 DEF CodingInv
  <2> QED
    BY <1>8, <2>3, <2>11
<1> QED
  BY <1>9, <1>10

\* At first nothing is charged, made or written.
LEMMA InitPackage == PackingInit => PackageInv
<1> SUFFICES ASSUME PackingInit PROVE PackageInv
  OBVIOUS
<1>1. /\ WriterInit /\ sources \in SourceLists /\ operation = "prepared" /\ at = 0
      /\ reading = FALSE /\ coded = <<>> /\ provided = [i \in DOMAIN sources |-> <<>>]
  BY DEF PackingInit, Init
<1>2. writerAccount = NewAccount /\ writerState = "new" /\ writerPolicy \in Policy
  BY <1>1, WriterAssumption DEF WriterInit
<1>3. WriterInv
  <2>1. AccountWithinPolicy
    BY <1>2, NewAccountWithinPolicy DEF AccountWithinPolicy
  <2> QED
    BY <1>1, <2>1, InitShape, InitTarget, InitDeposit, InitSpent DEF WriterInv
<1>4. ProgressInv
  <2>1. 0 \in 0 .. Len(sources)
    BY <1>1, RequestShape
  <2>2. provided \in [DOMAIN sources -> Seq(Nat \X Nat \X LogicalSizes)]
    BY <1>1
  <2> QED
    BY <1>1, <1>2, <2>1, <2>2 DEF ProgressInv
<1>5. CodingInv
  BY <1>1 DEF CodingInv
<1> QED
  BY <1>3, <1>4, <1>5 DEF PackageInv

\* Every step keeps the invariant.
LEMMA StepPackage == PackageInv /\ [Next]_vars => PackageInv'
<1> SUFFICES ASSUME PackageInv, [Next]_vars PROVE PackageInv'
  OBVIOUS
<1>1. CASE Package
  <2>1. WriteTo
    BY <1>1 DEF Package
  <2>2. CASE NextSource \/ SourceEnds \/ ForeignRaises \/ Return
    <3>1. UNCHANGED writerVars
      BY <2>2 DEF NextSource, SourceEnds, ForeignRaises, Return
    <3> QED
      BY <2>2, <3>1, OthersKeep
  <2> QED
    BY <2>1, <2>2, PreflightKeeps, OpenWriterKeeps, SendKeeps, ProvideChunkKeeps,
       HandOverKeeps, FinishWriterKeeps DEF WriteTo
<1>2. CASE ~Package
  <2>1. UNCHANGED writerVars /\ UNCHANGED packagerVars
    BY <1>2 DEF Next, RefuseInputs, OpenInput, CloseInput, Leave, OpenCarrier, Commit,
                PackagingFails, Abort, vars
  <2> QED
    BY <2>1, OthersKeep
<1> QED
  BY <1>1, <1>2

\* What is published is what the target held when the operation returned.
ReceiptInv == receipt # <<>> =>
  /\ carrier = "COMMITTED" /\ host \in {"closing", "done"}
  /\ receipt = target /\ operation = "returned"

\* Every step keeps that of the receipt.
LEMMA StepReceipt == PackingInv /\ ReceiptInv /\ [Next]_vars => ReceiptInv'
<1> SUFFICES ASSUME PackingInv, ReceiptInv, [Next]_vars PROVE ReceiptInv'
  OBVIOUS
<1>1. CASE Package
  BY <1>1 DEF Package, hostVars, ReceiptInv
<1>2. CASE Commit
  BY <1>2 DEF Commit, Discard, ReceiptInv, packagerVars, writerVars
<1>3. CASE RefuseInputs \/ OpenInput \/ OpenCarrier \/ PackagingFails \/ Abort
  BY <1>3 DEF RefuseInputs, OpenInput, OpenCarrier, PackagingFails, Abort, ReceiptInv
<1>4. CASE CloseInput \/ Leave \/ UNCHANGED vars
  BY <1>4 DEF CloseInput, Leave, vars, hostVars, ReceiptInv, packagerVars, writerVars
<1> QED
  BY <1>1, <1>2, <1>3, <1>4 DEF Next

\* What the target holds when the operation has returned can be recovered.
LEMMA ReturnedIsRecoverable ==
  ASSUME PackageInv, operation = "returned"
  PROVE  LET t == DecodeAll(writerPolicy, Manifest, ChunksOf(target), Stages) IN
         /\ ValidContainer(target)
         /\ t.ok
         /\ \A i \in DOMAIN sources : Recovered(t.output, i) = provided[i]
<1> USE DEF PackageInv
<1> DEFINE chunks == ChunksOf(target)
           m == Charged(writerPolicy, Session(NewAccount), ManifestCharges(Manifest))
           t == DecodeAll(writerPolicy, Manifest, chunks, Stages)
<1>1. writerState = "complete" /\ coded = <<>> /\ sources \in SourceLists
  BY DEF ProgressInv
<1>2. ValidContainer(target) /\ Idle /\ DepositInv
  BY <1>1 DEF WriterInv, TargetInv, CompletedContainerIsValid, Shape
<1>3. target # <<>>
  BY <1>2 DEF ValidContainer
<1>4. /\ writerPolicy \in Policy /\ writerAccount \in Account
      /\ WithinPolicy(writerPolicy, writerAccount)
  BY AccountTypes DEF WriterInv, AccountWithinPolicy
<1>5. MeetsPolicy(writerPolicy, target)
  BY <1>3 DEF WriterInv, SpentInv
<1>6. /\ chunks \in Seq(Chunks)
      /\ Allows(writerPolicy, "chunks", Len(chunks))
      /\ Allows(writerPolicy, "container_bytes",
                PreambleSize + SumOf(Stored(chunks)) + RecordHeaderSize)
  BY <1>2, <1>4, <1>5, ContainerNeeds
<1>7. Made = chunks
  <2>1. Made = chunks \o <<>>
    BY <1>1, <1>2 DEF Made, InFlight
  <2> HIDE DEF chunks
  <2> QED
    BY <1>6, <2>1
<1> HIDE DEF chunks
<1>8. /\ m.ok /\ chunks \in Seq(Coded)
      /\ \A k \in 1 .. Len(chunks) : Recoverable(chunks[k])
      /\ SumOf(Logicals(chunks)) <= writerAccount["logical_bytes"]
      /\ SumOf(Executions(chunks)) <= writerAccount["stage_executions"]
      /\ \A i \in DOMAIN sources : Recovered(PutOut(chunks), i) = provided[i]
  BY <1>7 DEF CodingInv
<1>9. Good(writerPolicy, m) /\ TotalsAre(m, 0, 0, 0, 0) /\ m.output = <<>>
  <2>1. SameOutput(Session(NewAccount), m) /\ TotalsAre(m, 0, 0, 0, 0)
        /\ Good(writerPolicy, m)
    BY <1>1, <1>4, <1>8, ManifestIsCharged, ChargedForManifest
  <2> HIDE DEF m
  <2> QED
    BY <2>1 DEF SameOutput, Session
<1>10. /\ Allows(writerPolicy, "logical_bytes", SumOf(Logicals(chunks)))
       /\ Allows(writerPolicy, "stage_executions", SumOf(Executions(chunks)))
  <2>1. SumOf(Logicals(chunks)) \in Nat /\ SumOf(Executions(chunks)) \in Nat
    BY <1>8, ChunkSums
  <2>2. \A r \in CoreResource : /\ Allows(writerPolicy, r, writerAccount[r])
                                /\ writerAccount[r] \in Nat
    BY <1>4 DEF WithinPolicy, Account
  <2> QED
    BY <1>4, <1>8, <2>1, <2>2, CoreNames, AllowsLess
<1>11. \A k \in 1 .. Len(chunks) :
         /\ Decodable(writerPolicy, RecipeOf(Manifest, chunks[k].recipe).stages, chunks[k])
         /\ ToSet(RecipeOf(Manifest, chunks[k].recipe).stages) \subseteq Stages
  BY <1>8 DEF Recoverable
<1>12. t.ok /\ t.output = PutOut(chunks)
  BY <1>4, <1>6, <1>9, <1>10, <1>11, DecodesAll
<1> HIDE DEF t
<1> QED
  BY <1>2, <1>8, <1>12 DEF t, chunks

-----------------------------------------------------------------------------
(* What is published can be recovered.                                     *)

\* A container that was published can be recovered by an operation that runs
\* under the policy it was packaged under, with decoders for its stages: no
\* ceiling of the reader or of the decoders refuses what the packager, the
\* encoder and the writer let through, and every stream gives back what its
\* source yielded.
THEOREM PackagesAreRecoverable == Spec => []RecoverableUnderPackagingPolicy
<1>1. PackingInit => ReceiptInv
  BY DEF PackingInit, ReceiptInv
<1>2. PackageInv /\ ReceiptInv => RecoverableUnderPackagingPolicy
  BY ReturnedIsRecoverable DEF ReceiptInv, RecoverableUnderPackagingPolicy
<1> QED
  BY <1>1, <1>2, InitPacking, StepPacking, InitPackage, StepPackage, StepReceipt, PTL
  DEF Spec
================================================================================
