------------------------- MODULE CommandHostProofs -------------------------
(***************************************************************************)
(* Theorems about LimitProfiles and about CommandHost, which uses it.      *)
(* LimitProfiles, for any managers, profiles, resources and catalogs:      *)
(* limits.json is always readable and its selection never dangles, `limits *)
(* show` lists the policy in force, and, when one manager lives at a time, *)
(* a change writes what was asked for and nothing else.                    *)
(* CommandHost, for any plugins, environments, profiles and invocations:   *)
(* what plugins enable and plugins disable acknowledged is what            *)
(* plugins.json says, the host uses limits.json as LimitProfiles does,     *)
(* containers are worked on under the selected profile, only trusted code  *)
(* runs, and it makes no difference to the runtime in which order its      *)
(* plugins were selected.                                                  *)
(***************************************************************************)
EXTENDS CommandHost, EnumerationProofs, SequenceTheorems

-----------------------------------------------------------------------------
(* The inductive invariants.                                               *)

ProfileIds == Ids \cup {"default"}
Overrides == UNION {[Keys -> Maxima] : Keys \in SUBSET AllResources}
Customs == UNION {[I -> Overrides] : I \in SUBSET Ids}
Documents == [active : ProfileIds, custom : Customs]

TypeOK ==
  /\ disk \in Documents
  /\ memory \in [Managers -> Documents]
  /\ pending \in [Managers -> Documents]
  /\ stage \in [Managers -> {"none", "ready", "writing", "persisted"}]
  /\ request \in [Managers ->
                    [kind : {"none", "create", "set", "use", "delete"},
                     id : ProfileIds]]

\* The profile that is selected is there, or was when it was selected.
Anchored(d) == d.active \in {"default"} \cup CustomIds(d) \cup AllContributed

DocumentsInv ==
  /\ TypeOK
  /\ Anchored(disk)
  /\ \A m \in Managers : Anchored(memory[m]) /\ Anchored(pending[m])

\* The change from one document to the other is no more than the request.
Amends(before, after, r) ==
  /\ \A id \in Ids :
       id # r.id \/ r.kind = "use" =>
         /\ id \in CustomIds(after) <=> id \in CustomIds(before)
         /\ id \in CustomIds(before) => after.custom[id] = before.custom[id]
  /\ r.kind # "use" => after.active = before.active

\* The one manager that lives knows the file, and what it writes is its memory
\* with the change that was requested.
Current(m) ==
  /\ stage[m] \in {"ready", "writing"} => memory[m] = disk
  /\ stage[m] = "persisted" => pending[m] = disk
  /\ stage[m] = "writing" => Amends(memory[m], pending[m], request[m])

CurrentInv ==
  /\ \A m, n \in Managers : stage[m] # "none" /\ stage[n] # "none" => m = n
  /\ \A m \in Managers : Current(m)

-----------------------------------------------------------------------------
(* Documents.                                                              *)

\* Put() gives a function one value more, or another one.
LEMMA PutType ==
  ASSUME NEW V, NEW D, NEW f \in [D -> V], NEW key, NEW value \in V
  PROVE  /\ Put(f, key, value) \in [D \cup {key} -> V]
         /\ DOMAIN Put(f, key, value) = D \cup {key}
         /\ Put(f, key, value)[key] = value
         /\ \A k \in D : k # key => Put(f, key, value)[k] = f[k]
  BY DEF Put

\* A missing file stands for a document whose selection is there.
LEMMA EmptyIsDocument ==
  EmptyDocument \in Documents /\ Anchored(EmptyDocument)
<1>1. NoProfiles \in [{} -> Overrides]
  BY DEF NoProfiles
<1>2. NoProfiles \in Customs
  BY <1>1 DEF Customs
<1> QED
  BY <1>2 DEF EmptyDocument, Documents, ProfileIds, Anchored

\* A profile that was just created overrides nothing.
LEMMA NoOverridesType == NoOverrides \in Overrides
<1>1. NoProfiles \in [{} -> Maxima]
  BY DEF NoProfiles
<1> QED
  BY <1>1 DEF NoOverrides, Overrides

\* The custom profiles of a document, one by one.
LEMMA CustomOf ==
  ASSUME NEW d \in Documents
  PROVE  /\ CustomIds(d) \subseteq Ids
         /\ d.custom \in [CustomIds(d) -> Overrides]
         /\ d.custom \in Customs
         /\ d.active \in ProfileIds
<1>1. d.custom \in Customs /\ d.active \in ProfileIds
  BY DEF Documents
<1>2. PICK I \in SUBSET Ids : d.custom \in [I -> Overrides]
  BY <1>1 DEF Customs
<1> QED
  BY <1>1, <1>2 DEF CustomIds

\* Functions of overrides are custom profiles.
LEMMA CustomType ==
  ASSUME NEW I \in SUBSET Ids, NEW f \in [I -> Overrides]
  PROVE  f \in Customs
  BY DEF Customs

\* What EXCEPT makes of a document.
LEMMA WithCustom ==
  ASSUME NEW d \in Documents, NEW f \in Customs
  PROVE  /\ [d EXCEPT !.custom = f] \in Documents
         /\ [d EXCEPT !.custom = f].custom = f
         /\ [d EXCEPT !.custom = f].active = d.active
  BY DEF Documents

\* Another selection makes another document.
LEMMA WithActive ==
  ASSUME NEW d \in Documents, NEW id \in ProfileIds
  PROVE  /\ [d EXCEPT !.active = id] \in Documents
         /\ [d EXCEPT !.active = id].custom = d.custom
         /\ [d EXCEPT !.active = id].active = id
  BY DEF Documents

\* A proper document is one that _read_limit_state() accepts.
LEMMA ProperIsDocument ==
  ASSUME NEW d \in Documents
  PROVE  IsDocument(d)
<1>1. /\ CustomIds(d) \subseteq Ids
      /\ d.custom \in [CustomIds(d) -> Overrides]
      /\ d.active \in ProfileIds
  BY CustomOf
<1>2. ASSUME NEW id \in CustomIds(d)
      PROVE  /\ DOMAIN d.custom[id] \subseteq AllResources
             /\ \A r \in DOMAIN d.custom[id] : d.custom[id][r] \in Maxima
  <2>1. d.custom[id] \in Overrides
    BY <1>1, <1>2
  <2>2. PICK Keys \in SUBSET AllResources : d.custom[id] \in [Keys -> Maxima]
    BY <2>1 DEF Overrides
  <2> QED
    BY <2>2
<1> QED
  BY <1>1, <1>2 DEF IsDocument, ProfileIds

-----------------------------------------------------------------------------
(* What create, set, use and delete write.                                 *)

\* create() adds a profile and leaves the others and the selection alone.
LEMMA CreateWrites ==
  ASSUME NEW d \in Documents, Anchored(d), NEW id \in Ids,
         id \notin CustomIds(d), NEW kind, kind # "use"
  PROVE  LET e == [d EXCEPT !.custom = Put(@, id, NoOverrides)]
         IN /\ e \in Documents /\ Anchored(e)
            /\ Amends(d, e, [kind |-> kind, id |-> id])
<1> DEFINE f == Put(d.custom, id, NoOverrides)
           e == [d EXCEPT !.custom = f]
<1>1. CustomIds(d) \subseteq Ids /\ d.custom \in [CustomIds(d) -> Overrides]
  BY CustomOf
<1>2. /\ f \in [CustomIds(d) \cup {id} -> Overrides]
      /\ DOMAIN f = CustomIds(d) \cup {id}
      /\ \A k \in CustomIds(d) : k # id => f[k] = d.custom[k]
  BY <1>1, NoOverridesType DEF Put
<1>3. f \in Customs
  BY <1>1, <1>2, CustomType
<1> HIDE DEF f
<1>4. e \in Documents /\ e.custom = f /\ e.active = d.active
  BY <1>3, WithCustom
<1>5. CustomIds(e) = CustomIds(d) \cup {id}
  BY <1>2, <1>4 DEF CustomIds
<1> HIDE DEF e
<1>6. Anchored(e)
  BY <1>4, <1>5 DEF Anchored
<1>7. Amends(d, e, [kind |-> kind, id |-> id])
  BY <1>2, <1>4, <1>5 DEF Amends
<1> QED
  BY <1>4, <1>6, <1>7 DEF e, f

\* set() changes one profile and leaves the others and the selection alone.
LEMMA SetWrites ==
  ASSUME NEW d \in Documents, Anchored(d), NEW id \in CustomIds(d),
         NEW r \in AllResources, NEW maximum \in Maxima, NEW kind,
         kind # "use"
  PROVE  LET e == [d EXCEPT !.custom[id] = Put(@, r, maximum)]
         IN /\ e \in Documents /\ Anchored(e)
            /\ Amends(d, e, [kind |-> kind, id |-> id])
<1> DEFINE o == Put(d.custom[id], r, maximum)
           f == [d.custom EXCEPT ![id] = o]
           e == [d EXCEPT !.custom = f]
<1>1. CustomIds(d) \subseteq Ids /\ d.custom \in [CustomIds(d) -> Overrides]
  BY CustomOf
<1>2. PICK Keys \in SUBSET AllResources : d.custom[id] \in [Keys -> Maxima]
  <2>1. d.custom[id] \in Overrides
    BY <1>1
  <2> QED
    BY <2>1 DEF Overrides
<1>3. o \in [Keys \cup {r} -> Maxima]
  BY <1>2, PutType, Zenon
<1>4. o \in Overrides
  BY <1>3 DEF Overrides
<1> HIDE DEF o
<1>5. /\ f \in [CustomIds(d) -> Overrides]
      /\ DOMAIN f = CustomIds(d)
      /\ \A k \in CustomIds(d) : k # id => f[k] = d.custom[k]
  BY <1>1, <1>4
<1>6. f \in Customs
  BY <1>1, <1>5, CustomType
<1>7. [d EXCEPT !.custom[id] = o] = e
  BY DEF Documents
<1> HIDE DEF f
<1>8. e \in Documents /\ e.custom = f /\ e.active = d.active
  BY <1>6, WithCustom
<1>9. CustomIds(e) = CustomIds(d)
  BY <1>5, <1>8 DEF CustomIds
<1> HIDE DEF e
<1>10. Anchored(e)
  BY <1>8, <1>9 DEF Anchored
<1>11. Amends(d, e, [kind |-> kind, id |-> id])
  BY <1>5, <1>8, <1>9 DEF Amends
<1> QED
  BY <1>7, <1>8, <1>10, <1>11 DEF o

\* use() changes the selection to a profile that is there.
LEMMA UseWrites ==
  ASSUME NEW d \in Documents, NEW id \in ProfileIds, NEW c \in Catalogs,
         MayUse(d, id, c)
  PROVE  LET e == [d EXCEPT !.active = id]
         IN /\ e \in Documents /\ Anchored(e)
            /\ Amends(d, e, [kind |-> "use", id |-> id])
<1> DEFINE e == [d EXCEPT !.active = id]
<1>1. e \in Documents /\ e.custom = d.custom /\ e.active = id
  BY WithActive
<1> HIDE DEF e
<1>2. id \in Available(d, c)
  BY DEF MayUse
<1>3. PICK t \in Statuses(d, c) : t.source # "unavailable" /\ t.id = id
  BY <1>2 DEF Available
<1>4. id \in {"default"} \cup ContributedIds(c) \cup CustomIds(d)
  BY <1>3 DEF Statuses
<1>5. ContributedIds(c) \subseteq AllContributed
  BY DEF AllContributed
<1>6. CustomIds(e) = CustomIds(d)
  BY <1>1 DEF CustomIds
<1>7. Anchored(e)
  BY <1>1, <1>4, <1>5, <1>6 DEF Anchored
<1>8. Amends(d, e, [kind |-> "use", id |-> id])
  BY <1>1, <1>6 DEF Amends
<1> QED
  BY <1>1, <1>7, <1>8 DEF e

\* delete() removes one profile, which is not the selected one.
LEMMA DeleteWrites ==
  ASSUME NEW d \in Documents, Anchored(d), NEW id, MayDelete(d, id)
  PROVE  LET e == [d EXCEPT !.custom =
                      [i \in CustomIds(d) \ {id} |-> d.custom[i]]]
         IN /\ e \in Documents /\ Anchored(e)
            /\ Amends(d, e, [kind |-> "delete", id |-> id])
<1> DEFINE f == [i \in CustomIds(d) \ {id} |-> d.custom[i]]
           e == [d EXCEPT !.custom = f]
<1>1. CustomIds(d) \subseteq Ids /\ d.custom \in [CustomIds(d) -> Overrides]
  BY CustomOf
<1>2. f \in [CustomIds(d) \ {id} -> Overrides]
  BY <1>1
<1>3. f \in Customs
  BY <1>1, <1>2, CustomType
<1>4. e \in Documents /\ e.custom = f /\ e.active = d.active
  BY <1>3, WithCustom
<1>5. CustomIds(e) = CustomIds(d) \ {id}
  BY <1>4 DEF CustomIds
<1>6. \A k \in CustomIds(e) : e.custom[k] = d.custom[k]
  BY <1>4, <1>5
<1> HIDE DEF e
<1>7. Anchored(e)
  BY <1>4, <1>5 DEF Anchored, MayDelete
<1>8. Amends(d, e, [kind |-> "delete", id |-> id])
  BY <1>4, <1>5, <1>6 DEF Amends
<1> QED
  BY <1>4, <1>7, <1>8 DEF e

-----------------------------------------------------------------------------
(* Every step of a manager.                                                *)

\* A change that keeps the document proper and does what it was asked for.
ProperChange(m) ==
  \E kind \in {"create", "set", "use", "delete"}, id \in ProfileIds,
     document \in Documents :
    /\ Change(m, kind, id, document)
    /\ Anchored(document)
    /\ Amends(memory[m], document, [kind |-> kind, id |-> id])

\* Next, with the four operations taken together.
Operates(m) ==
  \/ Discover(m) \/ WriteFails(m) \/ Replace(m) \/ Return(m) \/ Leave(m)
  \/ ProperChange(m)

\* What create() begins to write is a document, and amends by the request.
LEMMA CreateIsProper ==
  ASSUME DocumentsInv, NEW m \in Managers, NEW id \in Ids, NEW c \in Catalogs,
         Create(m, id, c)
  PROVE  ProperChange(m)
<1> DEFINE d == memory[m]
           e == [d EXCEPT !.custom = Put(@, id, NoOverrides)]
<1>1. d \in Documents /\ Anchored(d)
  BY DEF DocumentsInv, TypeOK
<1>2. id \notin CustomIds(d)
  BY DEF Create, MayCreate
<1>3. /\ e \in Documents /\ Anchored(e)
      /\ Amends(d, e, [kind |-> "create", id |-> id])
  BY <1>1, <1>2, CreateWrites
<1>4. Change(m, "create", id, e)
  BY DEF Create
<1> HIDE DEF e
<1> QED
  BY <1>3, <1>4 DEF ProperChange, ProfileIds

\* What set() begins to write is a document, and amends by the request.
LEMMA SetIsProper ==
  ASSUME DocumentsInv, NEW m \in Managers, NEW id \in ProfileIds,
         NEW r \in AllResources, NEW maximum \in Maxima, NEW c \in Catalogs,
         Set(m, id, r, maximum, c)
  PROVE  ProperChange(m)
<1> DEFINE d == memory[m]
           e == [d EXCEPT !.custom[id] = Put(@, r, maximum)]
<1>1. d \in Documents /\ Anchored(d)
  BY DEF DocumentsInv, TypeOK
<1>2. id \in CustomIds(d)
  BY DEF Set
<1>3. /\ e \in Documents /\ Anchored(e)
      /\ Amends(d, e, [kind |-> "set", id |-> id])
  BY <1>1, <1>2, SetWrites
<1>4. Change(m, "set", id, e)
  BY DEF Set
<1> HIDE DEF e
<1> QED
  BY <1>3, <1>4 DEF ProperChange

\* What use() begins to write is a document, and amends by the request.
LEMMA UseIsProper ==
  ASSUME DocumentsInv, NEW m \in Managers, NEW id \in ProfileIds,
         NEW c \in Catalogs, Use(m, id, c)
  PROVE  ProperChange(m)
<1> DEFINE d == memory[m]
           e == [d EXCEPT !.active = id]
<1>1. d \in Documents
  BY DEF DocumentsInv, TypeOK
<1>2. MayUse(d, id, c)
  BY DEF Use
<1>3. /\ e \in Documents /\ Anchored(e)
      /\ Amends(d, e, [kind |-> "use", id |-> id])
  BY <1>1, <1>2, UseWrites
<1>4. Change(m, "use", id, e)
  BY DEF Use
<1> HIDE DEF e
<1> QED
  BY <1>3, <1>4 DEF ProperChange

\* What delete() begins to write is a document, and amends by the request.
LEMMA DeleteIsProper ==
  ASSUME DocumentsInv, NEW m \in Managers, NEW id \in ProfileIds, Delete(m, id)
  PROVE  ProperChange(m)
<1> DEFINE d == memory[m]
           e == [d EXCEPT !.custom =
                   [i \in CustomIds(d) \ {id} |-> d.custom[i]]]
<1>1. d \in Documents /\ Anchored(d)
  BY DEF DocumentsInv, TypeOK
<1>2. MayDelete(d, id)
  BY DEF Delete
<1>3. /\ e \in Documents /\ Anchored(e)
      /\ Amends(d, e, [kind |-> "delete", id |-> id])
  BY <1>1, <1>2, DeleteWrites
<1>4. Change(m, "delete", id, e)
  BY DEF Delete
<1> HIDE DEF e
<1> QED
  BY <1>3, <1>4 DEF ProperChange

\* Every step of the specification is one of these operations.
LEMMA NextOperates ==
  ASSUME DocumentsInv, Next
  PROVE  \E m \in Managers : Operates(m)
<1>1. PICK m \in Managers :
        \/ Discover(m) \/ WriteFails(m) \/ Replace(m) \/ Return(m) \/ Leave(m)
        \/ \E id \in Ids : Delete(m, id)
        \/ \E c \in Catalogs :
             \/ \E id \in Ids : Create(m, id, c)
             \/ \E id \in Ids \cup {"default"} : Use(m, id, c)
             \/ \E id \in Ids, r \in AllResources, maximum \in Maxima :
                  Set(m, id, r, maximum, c)
  BY DEF Next
<1>2. CASE \E id \in Ids : Delete(m, id)
  BY <1>2, DeleteIsProper DEF Operates, ProfileIds
<1>3. CASE \E c \in Catalogs, id \in Ids : Create(m, id, c)
  BY <1>3, CreateIsProper DEF Operates
<1>4. CASE \E c \in Catalogs, id \in Ids \cup {"default"} : Use(m, id, c)
  BY <1>4, UseIsProper DEF Operates, ProfileIds
<1>5. CASE \E c \in Catalogs, id \in Ids, r \in AllResources,
              maximum \in Maxima : Set(m, id, r, maximum, c)
  BY <1>5, SetIsProper DEF Operates, ProfileIds
<1> QED
  BY <1>1, <1>2, <1>3, <1>4, <1>5 DEF Operates

-----------------------------------------------------------------------------
(* The invariants hold.                                                    *)

\* Before any manager lives the file is missing.
LEMMA InitDocuments == Init => DocumentsInv /\ CurrentInv
<1> SUFFICES ASSUME Init PROVE DocumentsInv /\ CurrentInv
  OBVIOUS
<1> USE DEF Init, File!Init
<1>1. TypeOK
  BY EmptyIsDocument DEF TypeOK, NoRequest, ProfileIds
<1>2. DocumentsInv
  BY <1>1, EmptyIsDocument DEF DocumentsInv
<1>3. CurrentInv
  BY DEF CurrentInv, Current
<1> QED
  BY <1>2, <1>3

\* An operation writes documents only.
LEMMA OperationKeepsDocuments ==
  ASSUME DocumentsInv, NEW m \in Managers, Operates(m)
  PROVE  DocumentsInv'
<1> USE EmptyIsDocument DEF DocumentsInv, TypeOK, File!Enter
<1>1. CASE Discover(m)
  BY <1>1 DEF Discover, File!Discover
<1>2. CASE WriteFails(m)
  BY <1>2 DEF WriteFails, File!BeginFails, Settle, NoRequest, ProfileIds
<1>3. CASE Replace(m)
  BY <1>3 DEF Replace, File!Replace
<1>4. CASE Return(m)
  BY <1>4 DEF Return, File!TakeOver, Settle, NoRequest, ProfileIds
<1>5. CASE Leave(m)
  BY <1>5 DEF Leave, File!Leave, Settle, NoRequest, ProfileIds
<1>6. CASE ProperChange(m)
  BY <1>6 DEF ProperChange, Change, File!Begin
<1> QED
  BY <1>1, <1>2, <1>3, <1>4, <1>5, <1>6 DEF Operates

\* The managers live one after the other.
LEMMA OperationKeepsCurrent ==
  ASSUME DocumentsInv, CurrentInv, NEW m \in Managers, Operates(m),
         Discover(m) => File!Live = {}
  PROVE  CurrentInv'
<1> USE DEF DocumentsInv, TypeOK, CurrentInv, Current, File!Enter
<1>1. CASE Discover(m)
  <2>1. \A n \in Managers : stage[n] = "none"
    BY <1>1 DEF File!Live
  <2> QED
    BY <1>1, <2>1 DEF Discover, File!Discover
<1>2. CASE WriteFails(m)
  BY <1>2 DEF WriteFails, File!BeginFails, Settle
<1>3. CASE Replace(m)
  BY <1>3 DEF Replace, File!Replace
<1>4. CASE Return(m)
  BY <1>4 DEF Return, File!TakeOver, Settle
<1>5. CASE Leave(m)
  BY <1>5 DEF Leave, File!Leave, Settle
<1>6. CASE ProperChange(m)
  BY <1>6 DEF ProperChange, Change, File!Begin
<1> QED
  BY <1>1, <1>2, <1>3, <1>4, <1>5, <1>6 DEF Operates

\* Every step leaves documents in file and memory.
LEMMA StepKeepsDocuments ==
  ASSUME DocumentsInv, [Next]_vars
  PROVE  DocumentsInv'
<1>1. CASE Next
  BY <1>1, NextOperates, OperationKeepsDocuments
<1>2. CASE UNCHANGED vars
  BY <1>2 DEF vars, DocumentsInv, TypeOK
<1> QED
  BY <1>1, <1>2

\* Every document, in the file or in a manager, is one that can be read, and
\* what it selects is there or was contributed: the inductive invariant of the
\* operations, whether managers overlap or not.
THEOREM DocumentsStayProper == Spec => []DocumentsInv
  BY InitDocuments, StepKeepsDocuments, PTL DEF Spec

\* While managers live one after the other, the one that lives knows the file.
THEOREM MemoryIsCurrent ==
  Exclusive => (Spec => [](DocumentsInv /\ CurrentInv))
<1> SUFFICES ASSUME Exclusive PROVE Spec => [](DocumentsInv /\ CurrentInv)
  OBVIOUS
<1>1. ASSUME DocumentsInv, CurrentInv, [Next]_vars
      PROVE  DocumentsInv' /\ CurrentInv'
  <2>1. CASE Next
    <3>1. PICK m \in Managers : Operates(m)
      BY <1>1, <2>1, NextOperates
    <3>2. Discover(m) => File!Live = {}
      BY DEF Discover, File!Discover
    <3> QED
      BY <1>1, <3>1, <3>2, OperationKeepsDocuments, OperationKeepsCurrent
  <2>2. CASE UNCHANGED vars
    BY <1>1, <2>2
    DEF vars, DocumentsInv, TypeOK, CurrentInv, Current
  <2> QED
    BY <1>1, <2>1, <2>2
<1> QED
  BY <1>1, InitDocuments, PTL DEF Spec

-----------------------------------------------------------------------------
(* The properties.                                                         *)

\* A selection that is anchored does not dangle.
LEMMA ProperSurvives == DocumentsInv => SelectionSurvives
  BY ProperIsDocument DEF DocumentsInv, TypeOK, SelectionSurvives, Anchored

\* show and policy() read the same document over the same catalog.
LEMMA ProperShows == DocumentsInv => ShowsThePolicy
<1> SUFFICES ASSUME DocumentsInv, NEW c \in Catalogs,
                    ~Policy(disk, c).refused, NEW r \in c.resources
             PROVE  LET view == View(disk, c, disk.active)
                    IN /\ r \in DOMAIN view
                       /\ view[r] = Policy(disk, c).maxima[r]
  BY DEF ShowsThePolicy
<1>1. CustomIds(disk) \subseteq Ids /\ disk.active \in ProfileIds
  BY CustomOf DEF DocumentsInv, TypeOK
<1>2. ContributedIds(c) \subseteq Ids /\ "default" \notin Ids
  BY IdsAssumption, CatalogsAssumption DEF ContributedIds
<1>3. CASE disk.active \in CustomIds(disk)
  <2>1. disk.active \notin ContributedIds(c) /\ disk.active # "default"
    BY <1>1, <1>2, <1>3 DEF Policy
  <2>2. Policy(disk, c).maxima = Resolved(disk.custom[disk.active], c)
    BY <1>3, <2>1 DEF Policy
  <2>3. View(disk, c, disk.active) =
          [s \in c.resources \cup DOMAIN disk.custom[disk.active] |->
             Maximum(disk.custom[disk.active], s)]
    BY <1>3, <2>1 DEF View
  <2> QED
    BY <2>2, <2>3 DEF Resolved
<1>4. CASE /\ disk.active \notin CustomIds(disk)
           /\ disk.active \in ContributedIds(c)
  <2>1. disk.active # "default"
    BY <1>2, <1>4
  <2>2. Policy(disk, c).maxima = Resolved(c.profiles[disk.active], c)
    BY <1>4, <2>1 DEF Policy
  <2>3. View(disk, c, disk.active) = Resolved(c.profiles[disk.active], c)
    BY <1>4, <2>1 DEF View
  <2> QED
    BY <2>2, <2>3 DEF Resolved
<1>5. CASE disk.active \notin CustomIds(disk) \cup ContributedIds(c)
  <2>1. disk.active = "default"
    BY <1>5 DEF Policy
  <2>2. Policy(disk, c).maxima = Resolved(NoOverrides, c)
    BY <1>5, <2>1 DEF Policy
  <2>3. View(disk, c, disk.active) = Resolved(NoOverrides, c)
    BY <1>5, <2>1 DEF View
  <2> QED
    BY <2>2, <2>3 DEF Resolved
<1> QED
  BY <1>3, <1>4, <1>5

\* limits.json can always be read, and what it selects is the default, one of
\* its own profiles or one that a plugin contributes, whatever was interrupted.
THEOREM SelectionNeverDangles == Spec => []SelectionSurvives
  BY DocumentsStayProper, ProperSurvives, PTL

\* `limits show` lists, for the selected profile, the ceilings of policy().
THEOREM ShowTellsTheTruth == Spec => []ShowsThePolicy
  BY DocumentsStayProper, ProperShows, PTL

\* What replaces the file amends it by the manager's request.
LEMMA OperationAmends ==
  ASSUME DocumentsInv, CurrentInv, NEW m \in Managers, Replaces(m),
         NEW n \in Managers, Operates(n)
  PROVE  Amends(disk, disk', request[m])
<1>1. n = m
  BY DEF Operates, ProperChange, Change, Replaces, DocumentsInv, TypeOK,
         Discover, WriteFails, Replace, Return, Leave, File!Enter, File!Begin,
         File!Discover, File!BeginFails, File!Replace, File!TakeOver, File!Leave
<1>2. Replace(m)
  BY <1>1 DEF Operates, ProperChange, Change, Replaces, DocumentsInv, TypeOK,
         Discover, WriteFails, Replace, Return, Leave, File!Enter, File!Begin,
         File!Discover, File!BeginFails, File!Replace, File!TakeOver, File!Leave
<1>3. /\ disk' = pending[m] /\ memory[m] = disk
      /\ Amends(memory[m], pending[m], request[m])
  BY <1>2 DEF Replace, File!Replace, CurrentInv, Current
<1> QED
  BY <1>3

\* A change writes what was requested and nothing else, while managers live one
\* after the other.
THEOREM WritesOnlyTheRequest == Exclusive => (Spec => OnlyTheRequest)
<1> SUFFICES ASSUME Exclusive PROVE Spec => OnlyTheRequest
  OBVIOUS
<1> DEFINE Step == \A m \in Managers :
                     Replaces(m) => Amends(disk, disk', request[m])
<1>1. ASSUME DocumentsInv, CurrentInv, [Next]_vars PROVE Step
  <2>1. CASE Next
    BY <1>1, <2>1, NextOperates, OperationAmends
  <2>2. CASE UNCHANGED vars
    BY <2>2 DEF vars, Replaces
  <2> QED
    BY <1>1, <2>1, <2>2
<1>2. Spec => [][Step]_vars
  BY <1>1, MemoryIsCurrent, PTL DEF Spec
<1> QED
  BY <1>2 DEF OnlyTheRequest, Amends

-----------------------------------------------------------------------------
(* CommandHost: the inductive invariant.                                   *)

PluginType ==
  /\ environment \in Environments
  /\ enabledFile \subseteq Names
  /\ enabled \in [Managers -> SUBSET Names]
  /\ enabling \in [Managers -> SUBSET Names]
  /\ enablingStage \in [Managers -> {"none", "ready", "writing", "persisted"}]
  /\ DOMAIN discovered = Managers
  /\ \A m \in Managers : P!InstalledFor(m) \subseteq Names
  /\ DOMAIN change = Managers
  /\ promised \in [Names -> {"unknown", "enabled", "disabled"}]

\* While a call changes a plugin nothing is promised of it, and the document of
\* the change is the one in the manager's memory with the plugin in or out.
Asked(m) ==
  LET name == change[m].name IN
  /\ name \in Names
  /\ promised[name] = "unknown"
  /\ \/ change[m].to = "enabled" /\ enabling[m] = enabled[m] \cup {name}
     \/ change[m].to = "disabled" /\ enabling[m] = enabled[m] \ {name}

\* The one manager that lives knows the file.
PluginCurrent(m) ==
  /\ enablingStage[m] \in {"ready", "writing"} => enabled[m] = enabledFile
  /\ enablingStage[m] = "persisted" => enabling[m] = enabledFile
  /\ enablingStage[m] \in {"writing", "persisted"} => Asked(m)

PluginInv ==
  /\ PluginType
  /\ \A m, n \in Managers :
       enablingStage[m] # "none" /\ enablingStage[n] # "none" => m = n
  /\ \A m \in Managers : PluginCurrent(m)
  /\ AcknowledgedPersists

\* What a handler that changes limits has been given.
LastInv ==
  /\ {"invocation", "result", "executed"} \subseteq DOMAIN last
  /\ last.result = "started" /\ last.invocation.command \in LimitCommands =>
       /\ last.catalog \in Catalogs
       /\ last.invocation.profile \in ProfileIds

\* Nothing has changed since an operation on containers was done.
WorkedInv ==
  last.result = "worked" /\ NeedsRuntime(last.invocation) =>
    /\ Idle
    /\ last.catalog \in Catalogs
    /\ LET policy == Policy(disk, last.catalog)
       IN ~policy.refused /\ last.maxima = policy.maxima

HostInv == PluginInv /\ LastInv /\ WorkedInv

-----------------------------------------------------------------------------
(* plugins.json.                                                           *)

\* Every step of a manager of PluginState.
PluginStep(m) ==
  \/ \E installed : P!Discover(m, installed) /\ DOMAIN installed \subseteq Names
  \/ \E n : P!Enable(m, n) \/ P!Disable(m, n)
  \/ \E n, to : P!NothingToDo(m, n, to)
  \/ P!WriteFails(m) \/ P!Replace(m) \/ P!Return(m) \/ P!Leave(m)

\* Every step of the one manager that lives keeps the invariant.
LEMMA PluginStepKeeps ==
  ASSUME PluginInv, NEW m \in Managers, PluginStep(m),
         environment' \in Environments,
         P!File!Live = {} \/ enablingStage[m] # "none"
  PROVE  PluginInv'
<1> USE DEF PluginInv, PluginType, PluginCurrent, AcknowledgedPersists,
            P!AcknowledgedPersists, P!InstalledFor, P!File!Enter
<1>1. ASSUME NEW installed, P!Discover(m, installed), DOMAIN installed \subseteq Names
      PROVE  PluginInv'
  <2>1. \A n \in Managers : enablingStage[n] = "none"
    BY <1>1 DEF P!Discover, P!File!Discover, P!File!Live
  <2> QED
    BY <1>1, <2>1 DEF P!Discover, P!File!Discover
<1>2. ASSUME NEW n, P!Enable(m, n) PROVE PluginInv'
  BY <1>2 DEF P!Enable, P!Accept, P!Enabled, P!File!Begin, Asked
<1>3. ASSUME NEW n, P!Disable(m, n) PROVE PluginInv'
  BY <1>3 DEF P!Disable, P!Accept, P!Disabled, P!File!Begin, Asked
<1>4. ASSUME NEW n, NEW to, P!NothingToDo(m, n, to) PROVE PluginInv'
  BY <1>4 DEF P!NothingToDo, Asked
<1>5. CASE P!WriteFails(m)
  BY <1>5 DEF P!WriteFails, P!File!BeginFails, P!Settle, Asked
<1>6. CASE P!Replace(m)
  BY <1>6 DEF P!Replace, P!File!Replace, Asked
<1>7. CASE P!Return(m)
  BY <1>7 DEF P!Return, P!File!TakeOver, P!Settle, Asked
<1>8. CASE P!Leave(m)
  BY <1>8 DEF P!Leave, P!File!Leave, P!Settle, P!NothingInstalled, Asked
<1> QED
  BY <1>1, <1>2, <1>3, <1>4, <1>5, <1>6, <1>7, <1>8 DEF PluginStep

\* At first no plugin is enabled, and nothing was acknowledged.
LEMMA InitPlugins == InitHost => PluginInv
  BY DEF InitHost, P!Init, P!File!Init, PluginInv, PluginType, PluginCurrent,
         AcknowledgedPersists, P!AcknowledgedPersists, P!InstalledFor,
         P!NothingInstalled

\* A step of the host is a step on plugins.json or leaves it alone.
LEMMA HostStepsOnPlugins ==
  ASSUME PluginInv, NextHost
  PROVE  /\ environment' \in Environments
         /\ \/ UNCHANGED pluginVars
            \/ \E m \in Managers :
                 /\ PluginStep(m)
                 /\ P!File!Live = {} \/ enablingStage[m] # "none"
<1> DEFINE Goal == /\ environment' \in Environments
                   /\ \/ UNCHANGED pluginVars
                      \/ \E m \in Managers :
                           /\ PluginStep(m)
                           /\ P!File!Live = {} \/ enablingStage[m] # "none"
<1>0. environment \in Environments
  BY DEF PluginInv, PluginType
<1>1. CASE Reinstall
  BY <1>1 DEF Reinstall
<1>2. ASSUME NEW invocation \in Invocations,
             Fail(invocation) \/ Test(invocation) \/ Work(invocation)
      PROVE  Goal
  BY <1>0, <1>2 DEF Fail, Test, Work
<1>3. ASSUME NEW m \in Managers, NEW invocation \in Invocations,
             StartPlugins(m, invocation)
      PROVE  Goal
  <2> DEFINE installed == [n \in Installed(environment) |->
                             Activatable(environment, n)]
  <2>1. P!Discover(m, installed) /\ P!File!Live = {} /\ environment' = environment
    BY <1>3 DEF StartPlugins, Begin, Idle
  <2>2. DOMAIN installed \subseteq Names
    BY <1>0, EnvironmentsAssumption
  <2> HIDE DEF installed
  <2> QED
    BY <1>0, <2>1, <2>2 DEF PluginStep
<1>4. ASSUME NEW m \in Managers, NEW invocation \in Invocations,
             StartLimits(m, invocation)
      PROVE  Goal
  BY <1>0, <1>4 DEF StartLimits, Begin
<1>5. ASSUME NEW m \in Managers, HandlePlugins(m)
      PROVE  Goal
  <2> DEFINE name == last.invocation.name
  <2>1. environment' = environment
    BY <1>5 DEF HandlePlugins
  <2>2. \/ P!Enable(m, name) \/ P!Disable(m, name)
        \/ P!NothingToDo(m, name, "enabled") \/ P!NothingToDo(m, name, "disabled")
    BY <1>5 DEF HandlePlugins
  <2> HIDE DEF name
  <2>3. enablingStage[m] # "none"
    BY <2>2 DEF P!Enable, P!Disable, P!Accept, P!NothingToDo, P!File!Begin
  <2>4. PluginStep(m)
    BY <2>2 DEF PluginStep
  <2> QED
    BY <1>0, <2>1, <2>3, <2>4
<1>6. ASSUME NEW m \in Managers, WritePlugins(m)
      PROVE  Goal
  <2>1. enablingStage[m] # "none"
    BY <1>6 DEF WritePlugins, P!WriteFails, P!Replace, P!Return,
         P!File!BeginFails, P!File!Replace, P!File!TakeOver
  <2>2. environment' = environment
    BY <1>6 DEF WritePlugins
  <2>3. PluginStep(m)
    BY <1>6 DEF WritePlugins, PluginStep
  <2> QED
    BY <1>0, <2>1, <2>2, <2>3
<1>7. ASSUME NEW m \in Managers, HandleLimits(m) \/ WriteLimits(m)
      PROVE  Goal
  BY <1>0, <1>7 DEF HandleLimits, WriteLimits
<1>8. ASSUME NEW m \in Managers, End(m)
      PROVE  Goal
  <2>1. environment' = environment
    BY <1>8 DEF End
  <2>2. CASE UNCHANGED pluginVars
    BY <1>0, <2>1, <2>2
  <2>3. CASE P!Leave(m)
    <3>1. enablingStage[m] # "none"
      BY <2>3 DEF P!Leave, P!File!Leave, P!File!Live
    <3> QED
      BY <1>0, <2>1, <2>3, <3>1 DEF PluginStep
  <2> QED
    BY <1>8, <2>2, <2>3 DEF End
<1> QED
  BY <1>1, <1>2, <1>3, <1>4, <1>5, <1>6, <1>7, <1>8 DEF NextHost

\* Every step of the host keeps the invariant on plugins.json.
LEMMA HostKeepsPlugins ==
  ASSUME PluginInv, [NextHost]_allVars
  PROVE  PluginInv'
<1>1. CASE NextHost
  <2>1. environment' \in Environments
    BY <1>1, HostStepsOnPlugins
  <2>2. CASE UNCHANGED pluginVars
    BY <2>1, <2>2
    DEF pluginVars, PluginInv, PluginType, PluginCurrent, AcknowledgedPersists,
        P!AcknowledgedPersists, P!InstalledFor, Asked
  <2>3. CASE \E m \in Managers :
               /\ PluginStep(m)
               /\ P!File!Live = {} \/ enablingStage[m] # "none"
    BY <2>1, <2>3, PluginStepKeeps
  <2> QED
    BY <1>1, <2>2, <2>3, HostStepsOnPlugins
<1>2. CASE UNCHANGED allVars
  BY <1>2
  DEF allVars, pluginVars, PluginInv, PluginType, PluginCurrent,
      AcknowledgedPersists, P!AcknowledgedPersists, P!InstalledFor, Asked
<1> QED
  BY <1>1, <1>2

\* What plugins enable and plugins disable acknowledged is what plugins.json
\* says, across failed writes, killed processes and changes of the packages.
THEOREM ActivationIsKept == SpecHost => []AcknowledgedPersists
<1>1. SpecHost => []PluginInv
  BY InitPlugins, HostKeepsPlugins, PTL DEF SpecHost
<1>2. PluginInv => AcknowledgedPersists
  BY DEF PluginInv
<1> QED
  BY <1>1, <1>2, PTL

-----------------------------------------------------------------------------
(* limits.json.                                                            *)

\* The catalog of a runtime is one of those that operations meet.
LEMMA CatalogIsKnown ==
  ASSUME PluginInv, NEW invocation \in Invocations, NeedsRuntime(invocation),
         Reaches(invocation)
  PROVE  CatalogOf(invocation) \in Catalogs
<1>1. Parses(invocation) /\ ~RuntimeOf(invocation).refused
  BY DEF Reaches
<1>2. CatalogOf(invocation) = RuntimeOf(invocation).catalog
  BY <1>1 DEF CatalogOf
<1>3. environment \in Environments /\ enabledFile \in SUBSET Names
  BY DEF PluginInv, PluginType
<1> QED
  BY <1>1, <1>2, <1>3, RuntimesAssumption DEF RuntimeOf

\* The handler of a limits command runs over the catalog of a runtime.
LEMMA HandlersAreGiven ==
  ASSUME PluginInv, LastInv, [NextHost]_allVars
  PROVE  LastInv'
<1>1. ASSUME NEW m \in Managers, NEW invocation \in Invocations,
             StartLimits(m, invocation)
      PROVE  LastInv'
  <2>1. Begin(invocation) /\ invocation.command \in LimitCommands
    BY <1>1 DEF StartLimits
  <2>2. NeedsRuntime(invocation)
    BY <2>1 DEF NeedsRuntime, LimitCommands, PluginCommands
  <2>6. CatalogOf(invocation) \in Catalogs
    BY <2>1, <2>2, CatalogIsKnown DEF Begin
  <2>7. /\ {"invocation", "result", "executed"} \subseteq DOMAIN last'
        /\ last'.catalog = CatalogOf(invocation)
        /\ last'.invocation = invocation
    BY <2>1 DEF Begin, Outcome
  <2> QED
    BY <2>6, <2>7, InvocationsAssumption DEF LastInv, ProfileIds
<1>2. ASSUME NEW m \in Managers, NEW invocation \in Invocations,
             StartPlugins(m, invocation)
      PROVE  LastInv'
  BY <1>2 DEF StartPlugins, Begin, Outcome, LastInv, LimitCommands
<1>3. ASSUME NEW invocation \in Invocations,
             Fail(invocation) \/ Test(invocation) \/ Work(invocation)
      PROVE  LastInv'
  BY <1>3 DEF Fail, Test, Work, Outcome, LastInv
<1>4. CASE Reinstall
  BY <1>4 DEF Reinstall, NoInvocation, Outcome, LastInv
<1>5. ASSUME NEW m \in Managers, HandlePlugins(m) \/ HandleLimits(m)
      PROVE  LastInv'
  BY <1>5 DEF HandlePlugins, HandleLimits, Handled, LastInv
<1>6. CASE UNCHANGED last
  BY <1>6 DEF LastInv
<1>7. ASSUME NEW m \in Managers, WritePlugins(m) \/ WriteLimits(m) \/ End(m)
      PROVE  UNCHANGED last
  BY <1>7 DEF WritePlugins, WriteLimits, End
<1>8. CASE UNCHANGED allVars
  BY <1>6, <1>8 DEF allVars
<1> QED
  BY <1>1, <1>2, <1>3, <1>4, <1>5, <1>6, <1>7, <1>8 DEF NextHost

\* At first there is no invocation.
LEMMA InitLast == InitHost => LastInv
  BY DEF InitHost, NoInvocation, Outcome, LastInv

\* Every step of the host is one of LimitProfiles or leaves its variables alone.
LEMMA HostStepsOnLimits ==
  ASSUME DocumentsInv, PluginInv, LastInv, [NextHost]_allVars
  PROVE  [Next]_vars
<1> USE DEF vars, limitVars
<1>1. CASE UNCHANGED limitVars
  BY <1>1
<1>2. CASE Reinstall
  BY <1>2 DEF Reinstall
<1>3. ASSUME NEW invocation \in Invocations,
             Fail(invocation) \/ Test(invocation) \/ Work(invocation)
      PROVE  UNCHANGED limitVars
  BY <1>3 DEF Fail, Test, Work
<1>4. ASSUME NEW m \in Managers, NEW invocation \in Invocations,
             StartPlugins(m, invocation)
      PROVE  UNCHANGED limitVars
  BY <1>4 DEF StartPlugins
<1>5. ASSUME NEW m \in Managers, NEW invocation \in Invocations,
             StartLimits(m, invocation)
      PROVE  Next
  BY <1>5 DEF StartLimits, Next
<1>6. ASSUME NEW m \in Managers, HandlePlugins(m) \/ WritePlugins(m)
      PROVE  UNCHANGED limitVars
  BY <1>6 DEF HandlePlugins, WritePlugins
<1>7. ASSUME NEW m \in Managers, HandleLimits(m)
      PROVE  Next
  <2> DEFINE id == last.invocation.profile
             c == last.catalog
  <2>1. \/ Create(m, id, c) \/ Use(m, id, c) \/ Delete(m, id)
        \/ \E r \in AllResources, maximum \in Maxima : Set(m, id, r, maximum, c)
    BY <1>7 DEF HandleLimits
  <2>2. c \in Catalogs /\ id \in Ids \cup {"default"}
    BY <1>7 DEF HandleLimits, Handled, LastInv, LimitCommands, ProfileIds
  <2> HIDE DEF id, c
  <2>3. CustomIds(memory[m]) \subseteq Ids
    BY CustomOf DEF DocumentsInv, TypeOK
  <2>4. CASE Create(m, id, c)
    <3>1. id \in Ids
      BY <2>2, <2>4 DEF Create, MayCreate
    <3> QED
      BY <2>2, <2>4, <3>1 DEF Next
  <2>5. CASE Use(m, id, c)
    BY <2>2, <2>5 DEF Next
  <2>6. CASE Delete(m, id)
    <3>1. id \in Ids
      BY <2>3, <2>6 DEF Delete, MayDelete
    <3> QED
      BY <2>6, <3>1 DEF Next
  <2>7. ASSUME NEW r \in AllResources, NEW maximum \in Maxima,
               Set(m, id, r, maximum, c)
        PROVE  Next
    <3>1. id \in Ids
      BY <2>3, <2>7 DEF Set
    <3> QED
      BY <2>2, <2>7, <3>1 DEF Next
  <2> QED
    BY <2>1, <2>4, <2>5, <2>6, <2>7
<1>8. ASSUME NEW m \in Managers, WriteLimits(m)
      PROVE  Next
  BY <1>8 DEF WriteLimits, Next
<1>9. ASSUME NEW m \in Managers, End(m)
      PROVE  Next \/ UNCHANGED limitVars
  BY <1>9 DEF End, Next
<1>10. CASE UNCHANGED allVars
  BY <1>1, <1>10 DEF allVars
<1> QED
  BY <1>1, <1>2, <1>3, <1>4, <1>5, <1>6, <1>7, <1>8, <1>9, <1>10 DEF NextHost

\* The host keeps the invariants of both state files.
LEMMA HostKeepsDocuments ==
  SpecHost => [](DocumentsInv /\ PluginInv /\ LastInv)
<1>1. InitHost => DocumentsInv /\ PluginInv /\ LastInv
  BY InitDocuments, InitPlugins, InitLast DEF InitHost
<1>2. ASSUME DocumentsInv, PluginInv, LastInv, [NextHost]_allVars
      PROVE  DocumentsInv' /\ PluginInv' /\ LastInv'
  BY <1>2, HostStepsOnLimits, StepKeepsDocuments, HostKeepsPlugins,
     HandlersAreGiven
<1> QED
  BY <1>1, <1>2, PTL DEF SpecHost

\* The host uses limits.json as LimitProfiles describes: whatever is invoked,
\* and whatever plugins contribute at the time, it does no more to the file
\* than the managers of that specification.
THEOREM HostImplementsLimitProfiles == SpecHost => Spec
<1>1. InitHost => Init
  BY DEF InitHost
<1> QED
  BY <1>1, HostKeepsDocuments, HostStepsOnLimits, PTL DEF SpecHost, Spec

\* Across invocations limits.json can always be read, and what it selects is the
\* default, one of its own profiles or one that a plugin contributes.
THEOREM SelectionSurvivesInvocations == SpecHost => []SelectionSurvives
  BY HostImplementsLimitProfiles, SelectionNeverDangles, PTL

\* `limits show` lists for the selected profile the ceilings that are enforced.
THEOREM InvocationsShowThePolicy == SpecHost => []ShowsThePolicy
  BY HostImplementsLimitProfiles, ShowTellsTheTruth, PTL

\* An invocation on limits writes what was requested and nothing else, since the
\* host lets one manager live at a time.
THEOREM InvocationsWriteOnlyTheRequest ==
  Exclusive => (SpecHost => OnlyTheRequest)
  BY HostImplementsLimitProfiles, WritesOnlyTheRequest, PTL

-----------------------------------------------------------------------------
(* Operations on containers.                                               *)

\* The file is as it was when the last operation on containers was done.
LEMMA HostKeepsWorked ==
  ASSUME PluginInv, LastInv, WorkedInv, [NextHost]_allVars
  PROVE  WorkedInv'
<1>1. ASSUME NEW invocation \in Invocations, Work(invocation)
      PROVE  WorkedInv'
  <2> DEFINE policy == Policy(disk, CatalogOf(invocation))
  <2>1. /\ Idle
        /\ last' = Outcome(invocation,
                           IF policy.refused THEN "refused" ELSE "worked",
                           Executes(invocation), CatalogOf(invocation),
                           policy.maxima)
        /\ UNCHANGED <<environment, limitVars, pluginVars>>
    BY <1>1 DEF Work
  <2>2. /\ last'.result = IF policy.refused THEN "refused" ELSE "worked"
        /\ last'.catalog = CatalogOf(invocation)
        /\ last'.maxima = policy.maxima
    BY <2>1 DEF Outcome
  <2>3. Idle'
    BY <2>1 DEF Idle, limitVars, pluginVars, File!Live, P!File!Live
  <2>4. disk' = disk
    BY <2>1 DEF limitVars
  <2>5. CatalogOf(invocation) \in Catalogs
    BY <1>1, CatalogIsKnown DEF Work
  <2> QED
    BY <2>2, <2>3, <2>4, <2>5
    DEF WorkedInv, Policy, CustomIds, ContributedIds, Resolved, NoOverrides,
        NoProfiles, Maximum
<1>2. ASSUME NEW m \in Managers, NEW invocation \in Invocations,
             StartPlugins(m, invocation) \/ StartLimits(m, invocation)
      PROVE  last'.result # "worked"
  BY <1>2 DEF StartPlugins, StartLimits, Begin, Outcome
<1>3. ASSUME NEW invocation \in Invocations, Fail(invocation)
      PROVE  last'.result # "worked"
  BY <1>3 DEF Fail, Outcome
<1>4. ASSUME NEW invocation \in Invocations, Test(invocation)
      PROVE  ~NeedsRuntime(last'.invocation)
  BY <1>4 DEF Test, Outcome, NeedsRuntime, PluginCommands
<1>5. CASE Reinstall
  BY <1>5 DEF Reinstall, NoInvocation, Outcome, WorkedInv
<1>6. ASSUME NEW m \in Managers, HandlePlugins(m) \/ HandleLimits(m)
      PROVE  last'.result # "worked"
  BY <1>6 DEF HandlePlugins, HandleLimits, Handled, LastInv
<1>7. ASSUME NEW m \in Managers, WritePlugins(m) \/ WriteLimits(m) \/ End(m)
      PROVE  ~Idle /\ UNCHANGED last
  BY <1>7
  DEF WritePlugins, WriteLimits, End, Idle, P!WriteFails, P!Replace, P!Return,
      P!Leave, WriteFails, Replace, Return, Leave, File!Live, P!File!Live,
      File!BeginFails, File!Replace, File!TakeOver, File!Leave,
      P!File!BeginFails, P!File!Replace, P!File!TakeOver, P!File!Leave
<1>8. CASE UNCHANGED allVars
  BY <1>8
  DEF allVars, limitVars, pluginVars, WorkedInv, Idle, File!Live, P!File!Live
<1>9. ASSUME last'.result # "worked" \/ ~NeedsRuntime(last'.invocation)
      PROVE  WorkedInv'
  BY <1>9 DEF WorkedInv, NeedsRuntime
<1>10. ASSUME ~Idle, UNCHANGED last
       PROVE  WorkedInv'
  BY <1>10 DEF WorkedInv, NeedsRuntime
<1> QED
  BY <1>1, <1>2, <1>3, <1>4, <1>5, <1>6, <1>7, <1>8, <1>9, <1>10 DEF NextHost

\* The ceilings of policy() are those of the selected profile.
LEMMA WorkedIsSelected == DocumentsInv /\ WorkedInv => WorksUnderSelection
<1> SUFFICES ASSUME DocumentsInv, WorkedInv, last.result = "worked",
                    NeedsRuntime(last.invocation)
             PROVE  WorksUnderSelection
  BY DEF WorksUnderSelection
<1> DEFINE c == last.catalog
           policy == Policy(disk, c)
           overrides == CASE disk.active \in CustomIds(disk) ->
                               disk.custom[disk.active]
                          [] disk.active \in ContributedIds(c) ->
                               c.profiles[disk.active]
                          [] OTHER -> NoOverrides
<1>1. ~policy.refused /\ last.maxima = policy.maxima
  BY DEF WorkedInv
<1>2. CustomIds(disk) \subseteq Ids
  BY CustomOf DEF DocumentsInv, TypeOK
<1>3. ContributedIds(c) \subseteq Ids /\ "default" \notin Ids
  BY IdsAssumption, CatalogsAssumption DEF WorkedInv, ContributedIds
<1>5. CASE disk.active \in CustomIds(disk)
  <2>1. disk.active \notin ContributedIds(c) /\ disk.active # "default"
    BY <1>1, <1>2, <1>3, <1>5 DEF Policy
  <2>2. policy.maxima = Resolved(disk.custom[disk.active], c)
    BY <1>5, <2>1 DEF Policy
  <2>3. overrides = disk.custom[disk.active]
    BY <1>5, <2>1
  <2> HIDE DEF overrides
  <2>4. ASSUME NEW r \in DOMAIN overrides \cap c.resources
        PROVE  last.maxima[r] = overrides[r]
    <3>1. last.maxima = Resolved(overrides, c)
      BY <1>1, <2>2, <2>3
    <3> HIDE DEF policy
    <3>2. last.maxima[r] = Maximum(overrides, r)
      BY <3>1 DEF Resolved
    <3> QED
      BY <3>2 DEF Maximum
  <2> QED
    BY <1>5, <2>4 DEF WorksUnderSelection, overrides
<1>6. CASE /\ disk.active \notin CustomIds(disk)
           /\ disk.active \in ContributedIds(c)
  <2>1. disk.active # "default"
    BY <1>3, <1>6
  <2>2. policy.maxima = Resolved(c.profiles[disk.active], c)
    BY <1>6, <2>1 DEF Policy
  <2>3. overrides = c.profiles[disk.active]
    BY <1>6
  <2> HIDE DEF overrides
  <2>4. ASSUME NEW r \in DOMAIN overrides \cap c.resources
        PROVE  last.maxima[r] = overrides[r]
    <3>1. last.maxima = Resolved(overrides, c)
      BY <1>1, <2>2, <2>3
    <3> HIDE DEF policy
    <3>2. last.maxima[r] = Maximum(overrides, r)
      BY <3>1 DEF Resolved
    <3> QED
      BY <3>2 DEF Maximum
  <2> QED
    BY <1>6, <2>4 DEF WorksUnderSelection, overrides
<1>7. CASE disk.active \notin CustomIds(disk) \cup ContributedIds(c)
  <2>1. disk.active = "default"
    BY <1>1, <1>7 DEF Policy
  <2>2. DOMAIN overrides = {}
    BY <1>7 DEF NoOverrides, NoProfiles
  <2> HIDE DEF overrides
  <2> QED
    BY <2>1, <2>2 DEF WorksUnderSelection, overrides
<1> QED
  BY <1>5, <1>6, <1>7

\* An operation on containers runs under the selected profile or not at all, and
\* nothing changes the file before the operation is over.
THEOREM WorksAsSelected == SpecHost => []WorksUnderSelection
<1>1. InitHost => WorkedInv
  BY DEF InitHost, NoInvocation, Outcome, WorkedInv
<1>2. SpecHost => []WorkedInv
  BY <1>1, HostKeepsDocuments, HostKeepsWorked, PTL DEF SpecHost
<1> QED
  BY <1>2, HostKeepsDocuments, WorkedIsSelected, PTL

-----------------------------------------------------------------------------
(* Sequences that have the elements of others in another order.            *)

\* Where the elements of the first k of some sequences are.
Slots(seqs, k) == {t \in (1 .. k) \X Nat : t[2] \in DOMAIN seqs[t[1]]}

\* Each element of a sequence is at one place of one of the first k sequences, and
\* each such place is taken once.
Places(at, flat, seqs, k) ==
  /\ at \in [DOMAIN flat -> Slots(seqs, k)]
  /\ \A q, r \in DOMAIN flat : at[q] = at[r] => q = r
  /\ \A t \in Slots(seqs, k) : \E q \in DOMAIN flat : at[q] = t
  /\ \A q \in DOMAIN flat : flat[q] = seqs[at[q][1]][at[q][2]]

\* Joining one more sequence keeps the places of the others.
LEMMA PlacesOfOneMore ==
  ASSUME NEW X, NEW seqs \in Seq(Seq(X)), NEW k \in 1 .. Len(seqs),
         NEW flat \in Seq(X), NEW at, Places(at, flat, seqs, k - 1)
  PROVE  \E more : Places(more, flat \o seqs[k], seqs, k)
<1> DEFINE joined == seqs[k]
           a == Len(flat)
           b == Len(joined)
           both == flat \o joined
           more == [q \in 1 .. (a + b) |-> IF q <= a THEN at[q] ELSE <<k, q - a>>]
<1>1. /\ joined \in Seq(X) /\ a \in Nat /\ b \in Nat /\ k \in Nat
      /\ DOMAIN flat = 1 .. a /\ DOMAIN joined = 1 .. b /\ DOMAIN both = 1 .. (a + b)
      /\ \A q \in 1 .. a : both[q] = flat[q]
      /\ \A q \in 1 .. b : both[a + q] = joined[q]
  OBVIOUS
<1>2. /\ \A q \in 1 .. (a + b) : q <= a => q \in 1 .. a
      /\ \A q \in 1 .. (a + b) : ~(q <= a) => q - a \in 1 .. b /\ a + (q - a) = q
      /\ \A q \in 1 .. a : q \in 1 .. (a + b) /\ q <= a
      /\ \A q \in 1 .. b :
           a + q \in 1 .. (a + b) /\ ~(a + q <= a) /\ (a + q) - a = q
  BY <1>1
<1>3. Slots(seqs, k) = Slots(seqs, k - 1) \cup {<<k, q>> : q \in 1 .. b}
  <2>1. \A m : m \in 1 .. k <=> m \in 1 .. (k - 1) \/ m = k
    BY <1>1
  <2>2. \A q \in 1 .. b : q \in Nat
    OBVIOUS
  <2> QED
    BY <1>1, <2>1, <2>2 DEF Slots
<1>4. \A t \in Slots(seqs, k - 1) : t[1] # k
  BY <1>1 DEF Slots
<1> HIDE DEF a, b, joined, both
<1>5. ASSUME NEW q \in 1 .. a
      PROVE  more[q] = at[q] /\ more[q] \in Slots(seqs, k - 1)
  BY <1>1, <1>2 DEF Places
<1>6. ASSUME NEW q \in 1 .. b
      PROVE  more[a + q] = <<k, q>>
  BY <1>2
<1>7. DOMAIN more = DOMAIN both
  BY <1>1
<1> HIDE DEF more
<1>8. ASSUME NEW q \in 1 .. (a + b)
      PROVE  \/ q \in 1 .. a
             \/ \E r \in 1 .. b : q = a + r
  BY <1>2
<1>9. more \in [DOMAIN both -> Slots(seqs, k)]
  <2>1. ASSUME NEW q \in 1 .. (a + b)
        PROVE  more[q] \in Slots(seqs, k)
    <3>1. CASE q \in 1 .. a
      BY <1>3, <1>5, <3>1
    <3>2. CASE \E r \in 1 .. b : q = a + r
      <4>1. PICK r \in 1 .. b : q = a + r
        BY <3>2
      <4>2. more[q] = <<k, r>>
        BY <1>6, <4>1
      <4> QED
        BY <1>3, <4>2
    <3> QED
      BY <1>8, <3>1, <3>2
  <2>2. more = [q \in DOMAIN both |-> more[q]]
    BY <1>1, <1>7 DEF more
  <2> QED
    BY <1>1, <2>1, <2>2
<1>10. ASSUME NEW q \in 1 .. (a + b), NEW r \in 1 .. (a + b), more[q] = more[r]
       PROVE  q = r
  <2>1. CASE q \in 1 .. a /\ r \in 1 .. a
    BY <1>1, <1>5, <1>10, <2>1 DEF Places
  <2>2. CASE q \in 1 .. a /\ \E i \in 1 .. b : r = a + i
    BY <1>4, <1>5, <1>6, <1>10, <2>2
  <2>3. CASE r \in 1 .. a /\ \E i \in 1 .. b : q = a + i
    BY <1>4, <1>5, <1>6, <1>10, <2>3
  <2>4. CASE (\E i \in 1 .. b : r = a + i) /\ (\E i \in 1 .. b : q = a + i)
    BY <1>6, <1>10, <2>4
  <2> QED
    BY <1>8, <2>1, <2>2, <2>3, <2>4
<1>11. ASSUME NEW t \in Slots(seqs, k)
       PROVE  \E q \in DOMAIN both : more[q] = t
  <2>1. CASE t \in Slots(seqs, k - 1)
    BY <1>1, <1>2, <1>5, <2>1 DEF Places
  <2>2. CASE t \in {<<k, q>> : q \in 1 .. b}
    <3>1. PICK q \in 1 .. b : t = <<k, q>>
      BY <2>2
    <3>2. a + q \in DOMAIN both
      BY <1>1, <1>2, <3>1
    <3>3. more[a + q] = t
      BY <1>6, <3>1
    <3> QED
      BY <3>2, <3>3
  <2> QED
    BY <1>3, <2>1, <2>2
<1>12. ASSUME NEW q \in DOMAIN both
       PROVE  both[q] = seqs[more[q][1]][more[q][2]]
  <2>1. CASE q \in 1 .. a
    BY <1>1, <1>5, <2>1 DEF Places
  <2>2. CASE \E r \in 1 .. b : q = a + r
    BY <1>1, <1>6, <2>2 DEF joined
  <2> QED
    BY <1>1, <1>8, <2>1, <2>2
<1>13. Places(more, both, seqs, k)
  BY <1>1, <1>9, <1>10, <1>11, <1>12 DEF Places
<1> QED
  BY <1>13 DEF both, joined

\* What FlattenSeq() makes of the first sequences, up to the nth.
Joins(f, seqs, n) ==
  f = [i \in 1 .. n |-> IF i = 1 THEN seqs[i] ELSE f[i - 1] \o seqs[i]]

\* However many sequences there are, they can be joined.
LEMMA JoinsExist ==
  ASSUME NEW seqs, NEW n \in Nat
  PROVE  \E f : Joins(f, seqs, n)
<1> DEFINE Without == {k \in Nat : ~\E f : Joins(f, seqs, k)}
<1>1. CASE Without # {}
  <2>1. PICK m \in Without : \A k \in Without : m <= k
    BY <1>1, LeastNumber
  <2>2. CASE m = 0
    <3> DEFINE f == [k \in 1 .. 0 |-> seqs]
    <3>1. f = [i \in 1 .. 0 |-> IF i = 1 THEN seqs[i] ELSE f[i - 1] \o seqs[i]]
      OBVIOUS
    <3> QED
      BY <2>1, <2>2, <3>1 DEF Joins
  <2>3. CASE m # 0
    <3>1. m \in Nat /\ m - 1 \in Nat /\ m - 1 \notin Without
      BY <2>1, <2>3
    <3>2. PICK f : Joins(f, seqs, m - 1)
      BY <3>1
    <3>3. \A i \in 1 .. (m - 1) :
            f[i] = IF i = 1 THEN seqs[i] ELSE f[i - 1] \o seqs[i]
      BY <3>2 DEF Joins
    <3> DEFINE new == IF m = 1 THEN seqs[m] ELSE f[m - 1] \o seqs[m]
               g == [i \in 1 .. m |-> IF i = m THEN new ELSE f[i]]
               h == [i \in 1 .. m |->
                       IF i = 1 THEN seqs[i] ELSE g[i - 1] \o seqs[i]]
    <3>4. ASSUME NEW i \in 1 .. m PROVE g[i] = h[i]
      <4>1. CASE i = m /\ i = 1
        BY <3>1, <4>1
      <4>2. CASE i = m /\ i # 1
        <5>1. i - 1 \in 1 .. m /\ i - 1 # m /\ i - 1 = m - 1
          BY <3>1, <4>2
        <5> QED
          BY <4>2, <5>1
      <4>3. CASE i # m /\ i = 1
        <5>1. i \in 1 .. (m - 1)
          BY <3>1, <4>3
        <5> QED
          BY <3>3, <4>3, <5>1
      <4>4. CASE i # m /\ i # 1
        <5>1. i \in 1 .. (m - 1) /\ i - 1 \in 1 .. m /\ i - 1 # m
          BY <3>1, <4>4
        <5> QED
          BY <3>3, <4>4, <5>1
      <4> QED
        BY <4>1, <4>2, <4>3, <4>4
    <3>5. g = h
      BY <3>4
    <3>6. Joins(g, seqs, m)
      BY <3>5 DEF Joins
    <3> QED
      BY <2>1, <3>6
  <2> QED
    BY <2>2, <2>3
<1>2. CASE Without = {}
  BY <1>2
<1> QED
  BY <1>1, <1>2

\* FlattenSeq() puts every element of every sequence at a place of its own.
LEMMA FlattenPlaces ==
  ASSUME NEW X, NEW seqs \in Seq(Seq(X))
  PROVE  /\ FlattenSeq(seqs) \in Seq(X)
         /\ \E at : Places(at, FlattenSeq(seqs), seqs, Len(seqs))
<1> DEFINE n == Len(seqs)
           flatten ==
             CHOOSE f : f = [i \in 1 .. Len(seqs) |->
                               IF i = 1 THEN seqs[i] ELSE f[i - 1] \o seqs[i]]
<1>1. n \in Nat /\ DOMAIN seqs = 1 .. n
  OBVIOUS
<1>2. CASE n = 0
  <2> DEFINE at == [q \in {} |-> 0]
  <2>1. seqs = <<>> /\ FlattenSeq(seqs) = <<>>
    BY <1>2 DEF FlattenSeq
  <2>2. Slots(seqs, 0) = {}
    BY DEF Slots
  <2>3. Places(at, <<>>, seqs, 0)
    BY <2>2 DEF Places
  <2>4. <<>> \in Seq(X)
    OBVIOUS
  <2> QED
    BY <1>2, <2>1, <2>3, <2>4
<1>3. CASE n # 0
  <2>1. Joins(flatten, seqs, n)
    BY <1>1, JoinsExist DEF Joins
  <2>2. FlattenSeq(seqs) = flatten[n]
    BY <1>3 DEF FlattenSeq
  <2> HIDE DEF flatten
  <2>3. \A i \in 1 .. n : flatten[i] = IF i = 1 THEN seqs[i]
                                                ELSE flatten[i - 1] \o seqs[i]
    BY <2>1 DEF Joins
  <2> DEFINE Placed(i) == /\ flatten[i] \in Seq(X)
                          /\ \E at : Places(at, flatten[i], seqs, i)
             Misplaced == {i \in 1 .. n : ~Placed(i)}
  <2>4. Placed(1)
    <3>1. 1 \in 1 .. Len(seqs) /\ 1 - 1 = 0
      BY <1>1, <1>3
    <3>2. Slots(seqs, 0) = {}
      BY DEF Slots
    <3> DEFINE at == [q \in {} |-> 0]
    <3>3. Places(at, <<>>, seqs, 0) /\ <<>> \in Seq(X)
      BY <3>2 DEF Places
    <3> HIDE DEF at
    <3>4. \E more : Places(more, <<>> \o seqs[1], seqs, 1)
      BY <3>1, <3>3, PlacesOfOneMore
    <3>5. seqs[1] \in Seq(X) /\ <<>> \o seqs[1] = seqs[1]
      BY <3>1
    <3>6. flatten[1] = seqs[1]
      BY <2>3, <3>1
    <3> QED
      BY <3>4, <3>5, <3>6
  <2>5. ASSUME NEW i \in 1 .. n, i # 1, Placed(i - 1) PROVE Placed(i)
    <3>1. i \in 1 .. Len(seqs) /\ seqs[i] \in Seq(X)
      BY <1>1
    <3>2. flatten[i] = flatten[i - 1] \o seqs[i]
      BY <2>3, <2>5
    <3>3. PICK at : /\ flatten[i - 1] \in Seq(X)
                    /\ Places(at, flatten[i - 1], seqs, i - 1)
      BY <2>5
    <3>4. flatten[i] \in Seq(X)
      BY <3>1, <3>2, <3>3
    <3>5. \E more : Places(more, flatten[i], seqs, i)
      BY <3>1, <3>2, <3>3, PlacesOfOneMore
    <3> QED
      BY <3>4, <3>5
  <2> HIDE DEF Placed
  <2>6. CASE Misplaced # {}
    <3>1. Misplaced \in SUBSET Nat
      OBVIOUS
    <3>2. PICK i \in Misplaced : \A j \in Misplaced : i <= j
      BY <2>6, <3>1, LeastNumber
    <3>3. i # 1 /\ i - 1 \in 1 .. n /\ ~(i <= i - 1)
      BY <1>1, <2>4, <3>2
    <3> QED
      BY <2>5, <3>2, <3>3
  <2>7. CASE Misplaced = {}
    BY <1>1, <1>3, <2>2, <2>7 DEF Placed
  <2> QED
    BY <2>6, <2>7
<1> QED
  BY <1>2, <1>3

\* Every element of one sequence is in another, each at a place of its own.
Embeds(s, t) ==
  \E b \in [DOMAIN s -> DOMAIN t] :
    /\ \A q, r \in DOMAIN s : b[q] = b[r] => q = r
    /\ \A q \in DOMAIN s : s[q] = t[b[q]]

\* A sequence has every element of a set, and each once.
Orders(s, N) ==
  /\ s \in Seq(N)
  /\ IsInjectiveSeq(s)
  /\ \A n \in N : \E j \in DOMAIN s : s[j] = n

\* Where two sequences agree, so do two that belong to them.
Follow(S, s, T, t) ==
  /\ Len(S) = Len(s) /\ Len(T) = Len(t)
  /\ \A j \in DOMAIN s, k \in DOMAIN t : s[j] = t[k] => S[j] = T[k]

\* What different names contribute is the same in whatever order they are listed.
LEMMA FlattenRearranged ==
  ASSUME NEW X, NEW N, NEW s, NEW t, Orders(s, N), Orders(t, N),
         NEW S \in Seq(Seq(X)), NEW T \in Seq(Seq(X)), Follow(S, s, T, t)
  PROVE  /\ FlattenSeq(S) \in Seq(X) /\ FlattenSeq(T) \in Seq(X)
         /\ Embeds(FlattenSeq(S), FlattenSeq(T))
<1>0. /\ s \in Seq(N) /\ t \in Seq(N) /\ IsInjectiveSeq(s)
      /\ \A n \in N : \E j \in DOMAIN t : t[j] = n
  BY DEF Orders
<1> DEFINE F == FlattenSeq(S)
           H == FlattenSeq(T)
<1>1. /\ S \in Seq(Seq(X)) /\ Len(S) = Len(s) /\ Len(s) \in Nat
      /\ T \in Seq(Seq(X)) /\ Len(T) = Len(t) /\ Len(t) \in Nat
      /\ DOMAIN s = 1 .. Len(s) /\ DOMAIN t = 1 .. Len(t)
  BY <1>0 DEF Follow
<1>2. /\ \A k \in 1 .. Len(s) : s[k] \in N
      /\ \A j \in 1 .. Len(s), k \in 1 .. Len(t) : s[j] = t[k] => S[j] = T[k]
  <2>1. \A k \in 1 .. Len(s) : s[k] \in N
    BY <1>0
  <2> QED
    BY <1>1, <2>1, Zenon DEF Follow
<1>3. PICK at : Places(at, F, S, Len(S))
  BY <1>1, FlattenPlaces
<1>4. PICK to : Places(to, H, T, Len(T))
  BY <1>1, FlattenPlaces
<1> HIDE DEF F, H
<1> DEFINE Goes(q, r) == /\ t[to[r][1]] = s[at[q][1]]
                         /\ to[r][2] = at[q][2]
           b == [q \in DOMAIN F |-> CHOOSE r \in DOMAIN H : Goes(q, r)]
<1>5. ASSUME NEW q \in DOMAIN F
      PROVE  /\ at[q] = <<at[q][1], at[q][2]>>
             /\ at[q][1] \in 1 .. Len(s) /\ at[q][2] \in Nat
             /\ at[q][2] \in DOMAIN S[at[q][1]]
  <2>1. at[q] \in Slots(S, Len(S))
    BY <1>3 DEF Places
  <2> DEFINE place == at[q]
  <2>2. place \in (1 .. Len(s)) \X Nat /\ place[2] \in DOMAIN S[place[1]]
    BY <1>1, <2>1 DEF Slots
  <2> HIDE DEF place
  <2>3. /\ place = <<place[1], place[2]>>
        /\ place[1] \in 1 .. Len(s) /\ place[2] \in Nat
    BY <2>2
  <2> QED
    BY <2>2, <2>3 DEF place
<1>6. ASSUME NEW q \in DOMAIN F
      PROVE  \E r \in DOMAIN H : Goes(q, r)
  <2> DEFINE n == s[at[q][1]]
             i == at[q][2]
  <2>1. n \in N /\ i = at[q][2]
    BY <1>2, <1>5
  <2> DEFINE here == at[q][1]
  <2>2. here \in 1 .. Len(s) /\ n = s[here] /\ i \in Nat /\ i \in DOMAIN S[here]
    BY <1>5
  <2> HIDE DEF n, i, here
  <2>3. PICK j \in 1 .. Len(t) : t[j] = n
    BY <1>0, <1>1, <2>1
  <2>4. i \in DOMAIN T[j] /\ i \in Nat
    <3>1. T[j] = S[here]
      BY <1>2, <2>2, <2>3
    <3> QED
      BY <2>2, <3>1
  <2>5. <<j, i>> \in Slots(T, Len(T))
    BY <1>1, <2>3, <2>4 DEF Slots
  <2>6. PICK r \in DOMAIN H : to[r] = <<j, i>>
    BY <1>4, <2>5 DEF Places
  <2>7. to[r][1] = j /\ to[r][2] = i
    BY <2>6
  <2>8. t[to[r][1]] = s[at[q][1]] /\ to[r][2] = at[q][2]
    BY <2>1, <2>3, <2>7 DEF n
  <2> QED
    BY <2>8
<1>7. \A q \in DOMAIN F : b[q] \in DOMAIN H /\ Goes(q, b[q])
  BY <1>6
<1>8. b \in [DOMAIN F -> DOMAIN H]
  BY <1>7
<1> HIDE DEF b
<1>9. ASSUME NEW q \in DOMAIN F, NEW r \in DOMAIN F, b[q] = b[r]
      PROVE  q = r
  <2>0. Goes(q, b[q]) /\ Goes(r, b[r])
    BY <1>7
  <2>1. s[at[q][1]] = s[at[r][1]] /\ at[q][2] = at[r][2]
    BY <1>9, <2>0
  <2>2. at[q][1] = at[r][1]
    BY <1>0, <1>1, <1>5, <2>1 DEF IsInjectiveSeq
  <2>3. at[q] = at[r]
    BY <1>5, <2>1, <2>2
  <2> QED
    BY <1>3, <2>3 DEF Places
<1>10. ASSUME NEW q \in DOMAIN F
       PROVE  F[q] = H[b[q]]
  <2>1. F[q] = S[at[q][1]][at[q][2]]
    BY <1>3 DEF Places
  <2>2. H[b[q]] = T[to[b[q]][1]][to[b[q]][2]]
    BY <1>4, <1>7 DEF Places
  <2>3. to[b[q]][1] \in 1 .. Len(t)
    BY <1>1, <1>4, <1>7 DEF Places, Slots
  <2>4. t[to[b[q]][1]] = s[at[q][1]] /\ to[b[q]][2] = at[q][2]
    BY <1>7
  <2>5. T[to[b[q]][1]] = S[at[q][1]]
    BY <1>2, <1>5, <2>3, <2>4
  <2> QED
    BY <2>1, <2>2, <2>4, <2>5
<1> QED
  <2>1. F \in Seq(X) /\ H \in Seq(X)
    BY <1>1, FlattenPlaces DEF F, H
  <2>2. Embeds(F, H)
    BY <1>8, <1>9, <1>10 DEF Embeds
  <2> QED
    BY <2>1, <2>2 DEF F, H

\* What embeds in a sequence without repetitions has none.
LEMMA EmbeddedOnce ==
  ASSUME NEW s, NEW t, Embeds(s, t), IsInjectiveSeq(t)
  PROVE  IsInjectiveSeq(s)
BY DEF Embeds, IsInjectiveSeq

\* What embeds in a sequence is part of it.
LEMMA EmbeddedElements ==
  ASSUME NEW s, NEW t, Embeds(s, t)
  PROVE  ToSet(s) \subseteq ToSet(t)
BY DEF Embeds, ToSet

\* Nothing changes that when both follow the same sequence.
LEMMA EmbeddedBehind ==
  ASSUME NEW X, NEW c \in Seq(X), NEW s \in Seq(X), NEW t \in Seq(X), Embeds(s, t)
  PROVE  Embeds(c \o s, c \o t)
<1> DEFINE n == Len(c)
           S == c \o s
           T == c \o t
<1>1. /\ n \in Nat /\ Len(s) \in Nat /\ Len(t) \in Nat
      /\ DOMAIN s = 1 .. Len(s) /\ DOMAIN t = 1 .. Len(t)
      /\ DOMAIN S = 1 .. (n + Len(s)) /\ DOMAIN T = 1 .. (n + Len(t))
      /\ \A i \in 1 .. n : S[i] = c[i] /\ T[i] = c[i]
      /\ \A i \in 1 .. Len(s) : S[n + i] = s[i]
      /\ \A i \in 1 .. Len(t) : T[n + i] = t[i]
  OBVIOUS
<1> HIDE DEF n, S, T
<1>2. PICK b \in [DOMAIN s -> DOMAIN t] :
        /\ \A q, r \in DOMAIN s : b[q] = b[r] => q = r
        /\ \A q \in DOMAIN s : s[q] = t[b[q]]
  BY DEF Embeds
<1> DEFINE g == [i \in DOMAIN S |-> IF i <= n THEN i ELSE n + b[i - n]]
<1>3. ASSUME NEW i \in DOMAIN S, i <= n
      PROVE  g[i] = i /\ i \in DOMAIN T /\ i \in 1 .. n /\ S[i] = T[g[i]]
  BY <1>1, <1>3
<1>4. ASSUME NEW i \in DOMAIN S, ~(i <= n)
      PROVE  /\ i - n \in 1 .. Len(s) /\ i = n + (i - n)
             /\ g[i] = n + b[i - n] /\ b[i - n] \in 1 .. Len(t)
             /\ g[i] \in DOMAIN T /\ ~(g[i] <= n)
             /\ S[i] = T[g[i]]
  <2>1. i - n \in 1 .. Len(s) /\ i = n + (i - n)
    BY <1>1, <1>4
  <2>2. b[i - n] \in 1 .. Len(t) /\ s[i - n] = t[b[i - n]]
    BY <1>1, <1>2, <2>1
  <2>3. g[i] = n + b[i - n]
    BY <1>4
  <2> HIDE DEF g
  <2>4. g[i] \in DOMAIN T /\ ~(g[i] <= n)
    BY <1>1, <2>2, <2>3
  <2>5. S[n + (i - n)] = s[i - n] /\ T[n + b[i - n]] = t[b[i - n]]
    BY <1>1, <2>1, <2>2
  <2> QED
    BY <2>1, <2>2, <2>3, <2>4, <2>5
<1>5. g \in [DOMAIN S -> DOMAIN T]
  BY <1>3, <1>4
<1> HIDE DEF g
<1>6. ASSUME NEW i \in DOMAIN S, NEW j \in DOMAIN S, g[i] = g[j]
      PROVE  i = j
  <2>1. CASE i <= n /\ j <= n
    BY <1>3, <1>6, <2>1
  <2>2. CASE i <= n /\ ~(j <= n)
    BY <1>3, <1>4, <1>6, <2>2
  <2>3. CASE ~(i <= n) /\ j <= n
    BY <1>3, <1>4, <1>6, <2>3
  <2>4. CASE ~(i <= n) /\ ~(j <= n)
    <3>1. /\ g[i] = n + b[i - n] /\ g[j] = n + b[j - n]
          /\ b[i - n] \in 1 .. Len(t) /\ b[j - n] \in 1 .. Len(t)
          /\ i - n \in 1 .. Len(s) /\ j - n \in 1 .. Len(s)
          /\ i = n + (i - n) /\ j = n + (j - n)
      BY <1>4, <2>4
    <3>2. b[i - n] = b[j - n]
      <4>1. \A x, y \in 1 .. Len(t) : n + x = n + y => x = y
        BY <1>1
      <4> QED
        BY <1>6, <3>1, <4>1
    <3>3. i - n = j - n
      BY <1>1, <1>2, <3>1, <3>2
    <3> QED
      BY <3>1, <3>3
  <2> QED
    BY <2>1, <2>2, <2>3, <2>4
<1>7. \A i \in DOMAIN S : S[i] = T[g[i]]
  BY <1>3, <1>4
<1> QED
  BY <1>5, <1>6, <1>7 DEF Embeds, S, T

\* What different names contribute, in two orders of them.
LEMMA OrdersEmbed ==
  ASSUME NEW N, NEW G, \A n \in N : G[n] \in Seq(ToSet(G[n])),
         NEW s, NEW t, Orders(s, N), Orders(t, N),
         NEW X, X = UNION {ToSet(G[n]) : n \in N},
         NEW one, one = FlattenSeq([k \in DOMAIN s |-> G[s[k]]]),
         NEW other, other = FlattenSeq([k \in DOMAIN t |-> G[t[k]]])
  PROVE  /\ one \in Seq(X) /\ other \in Seq(X)
         /\ Embeds(one, other)
<1>1. \A n \in N : G[n] \in Seq(X)
  <2> SUFFICES ASSUME NEW n \in N PROVE G[n] \in Seq(X)
    OBVIOUS
  <2>1. G[n] \in Seq(ToSet(G[n])) /\ ToSet(G[n]) \subseteq X
    OBVIOUS
  <2>2. \A i \in 1 .. Len(G[n]) : G[n][i] \in X
    BY <2>1
  <2> QED
    BY <2>1, <2>2, ElementsElsewhere
<1>2. /\ s \in Seq(N) /\ t \in Seq(N) /\ IsInjectiveSeq(s)
      /\ \A n \in N : \E j \in DOMAIN t : t[j] = n
  BY DEF Orders
<1> DEFINE parts == [k \in DOMAIN s |-> G[s[k]]]
           others == [k \in DOMAIN t |-> G[t[k]]]
<1>3. /\ parts \in [1 .. Len(s) -> Seq(X)] /\ Len(s) \in Nat
      /\ \A k \in 1 .. Len(s) : parts[k] = G[s[k]]
  BY <1>1, <1>2
<1>4. /\ others \in [1 .. Len(t) -> Seq(X)] /\ Len(t) \in Nat
      /\ \A k \in 1 .. Len(t) : others[k] = G[t[k]]
  BY <1>1, <1>2
<1>5. one = FlattenSeq(parts) /\ other = FlattenSeq(others)
  OBVIOUS
<1> HIDE DEF parts, others
<1>6. /\ parts \in Seq(Seq(X)) /\ Len(parts) = Len(s)
      /\ others \in Seq(Seq(X)) /\ Len(others) = Len(t)
  BY <1>3, <1>4, FunctionIsSequence
<1>7. Follow(parts, s, others, t)
  <2>1. ASSUME NEW j \in 1 .. Len(s), NEW k \in 1 .. Len(t), s[j] = t[k]
        PROVE  parts[j] = others[k]
    <3>1. parts[j] = G[s[j]] /\ others[k] = G[t[k]]
      BY <1>3, <1>4
    <3> QED
      BY <2>1, <3>1
  <2>2. DOMAIN s = 1 .. Len(s) /\ DOMAIN t = 1 .. Len(t)
    BY <1>2
  <2> QED
    BY <1>6, <2>1, <2>2, Zenon DEF Follow
<1>8. /\ FlattenSeq(parts) \in Seq(X) /\ FlattenSeq(others) \in Seq(X)
      /\ Embeds(FlattenSeq(parts), FlattenSeq(others))
  BY <1>6, <1>7, FlattenRearranged
<1> QED
  BY <1>5, <1>8

-----------------------------------------------------------------------------
(* Whose code runs.                                                        *)

\* What is selected is what is enabled or named, each once.
LEMMA SelectedOrders ==
  ASSUME NEW S \in SUBSET Nat, IsFiniteSet(S), NEW A, NEW s \in Seq(A)
  PROVE  Orders(Selected(S, s), S \cup ToSet(s))
<1> DEFINE N == S \cup ToSet(s)
           a == InOrder(S)
           b == Missing(s, S)
           c == Cardinality(S)
<1>1. Selected(S, s) = a \o b
  BY DEF Selected
<1>2. /\ a \in [1 .. c -> S] /\ c \in Nat
      /\ \A i, j \in 1 .. c : i < j => a[i] < a[j]
  BY InOrderLists
<1>3. a \in Seq(S) /\ Len(a) = c /\ DOMAIN a = 1 .. c
  BY <1>2
<1>4. \A n \in S : \E i \in 1 .. c : a[i] = n
  BY <1>2, ListsAll DEF Lists
<1>5. /\ b \in Seq(A)
      /\ \A i \in DOMAIN b : b[i] \notin S /\ \E k \in DOMAIN s : s[k] = b[i]
      /\ \A i, j \in DOMAIN b : i # j => b[i] # b[j]
  BY MissingElements
<1>6. \A k \in DOMAIN s : s[k] \notin S => \E i \in DOMAIN b : b[i] = s[k]
  BY MissingAll
<1>7. \A i, j \in 1 .. c : a[i] = a[j] => i = j
  <2> SUFFICES ASSUME NEW i \in 1 .. c, NEW j \in 1 .. c, i # j
               PROVE  a[i] # a[j]
    OBVIOUS
  <2>1. i < j \/ j < i
    BY <1>2
  <2>2. a[i] \in Nat /\ a[j] \in Nat
    BY <1>2
  <2> QED
    BY <1>2, <2>1, <2>2
<1> HIDE DEF a, b
<1>8. /\ DOMAIN (a \o b) = 1 .. (c + Len(b)) /\ DOMAIN b = 1 .. Len(b)
      /\ Len(b) \in Nat /\ Len(a \o b) = c + Len(b)
      /\ \A i \in 1 .. c : (a \o b)[i] = a[i]
      /\ \A i \in 1 .. Len(b) : (a \o b)[c + i] = b[i]
  <2> DEFINE Y == S \cup A
  <2>1. a \in Seq(Y) /\ b \in Seq(Y)
    BY <1>3, <1>5
  <2> HIDE DEF c, Y
  <2>2. Len(a) = c /\ DOMAIN a = 1 .. c
    BY <1>3
  <2>3. /\ Len(b) \in Nat /\ DOMAIN b = 1 .. Len(b)
        /\ Len(a \o b) = Len(a) + Len(b)
        /\ DOMAIN (a \o b) = 1 .. (Len(a) + Len(b))
    BY <2>1
  <2>4. \A i \in 1 .. Len(a) : (a \o b)[i] = a[i]
    BY <2>1
  <2>5. \A i \in 1 .. Len(b) : (a \o b)[Len(a) + i] = b[i]
    BY <2>1
  <2> QED
    BY <2>2, <2>3, <2>4, <2>5
<1> HIDE DEF c
<1>9. ASSUME NEW i \in 1 .. (c + Len(b))
      PROVE  i \in 1 .. c \/ \E j \in 1 .. Len(b) : i = c + j
  <2>1. i \in 1 .. c \/ (i - c \in 1 .. Len(b) /\ i = c + (i - c))
    BY <1>2, <1>8
  <2> QED
    BY <2>1
<1>10. /\ \A i \in 1 .. c : i \in 1 .. (c + Len(b))
       /\ \A i \in 1 .. Len(b) : c + i \in 1 .. (c + Len(b))
  BY <1>2, <1>8
<1>11. \A i \in DOMAIN b : b[i] \in ToSet(s)
  BY <1>5 DEF ToSet
<1>12. \A i \in 1 .. (c + Len(b)) : (a \o b)[i] \in N
  <2> SUFFICES ASSUME NEW i \in 1 .. (c + Len(b))
               PROVE  (a \o b)[i] \in N
    OBVIOUS
  <2>1. CASE i \in 1 .. c
    BY <1>2, <1>8, <2>1
  <2>2. CASE \E j \in 1 .. Len(b) : i = c + j
    BY <1>8, <1>11, <2>2
  <2> QED
    BY <1>9, <2>1, <2>2
<1>13. a \o b \in Seq(N)
  <2>1. a \o b \in Seq(S \cup A)
    <3>1. a \in Seq(S \cup A) /\ b \in Seq(S \cup A)
      BY <1>3, <1>5
    <3> QED
      BY <3>1
  <2> DEFINE f == a \o b
             Y == S \cup A
  <2> HIDE DEF N, f, Y
  <2>2. f \in Seq(Y) /\ \A i \in 1 .. Len(f) : f[i] \in N
    BY <1>8, <1>12, <2>1 DEF f, Y
  <2> QED
    BY <2>2, ElementsElsewhere DEF f
<1>14. IsInjectiveSeq(a \o b)
  <2> SUFFICES ASSUME NEW i \in 1 .. (c + Len(b)), NEW j \in 1 .. (c + Len(b)),
                      (a \o b)[i] = (a \o b)[j]
               PROVE  i = j
    BY <1>8 DEF IsInjectiveSeq
  <2>1. CASE i \in 1 .. c /\ j \in 1 .. c
    BY <1>7, <1>8, <2>1
  <2>2. CASE i \in 1 .. c /\ \E k \in 1 .. Len(b) : j = c + k
    <3>1. PICK k \in 1 .. Len(b) : j = c + k
      BY <2>2
    <3>2. (a \o b)[i] \in S /\ (a \o b)[j] \notin S
      BY <1>2, <1>5, <1>8, <2>2, <3>1
    <3> QED
      BY <3>2
  <2>3. CASE j \in 1 .. c /\ \E k \in 1 .. Len(b) : i = c + k
    <3>1. PICK k \in 1 .. Len(b) : i = c + k
      BY <2>3
    <3>2. (a \o b)[j] \in S /\ (a \o b)[i] \notin S
      BY <1>2, <1>5, <1>8, <2>3, <3>1
    <3> QED
      BY <3>2
  <2>4. CASE /\ \E k \in 1 .. Len(b) : i = c + k
             /\ \E k \in 1 .. Len(b) : j = c + k
    <3>1. PICK k \in 1 .. Len(b), m \in 1 .. Len(b) : i = c + k /\ j = c + m
      BY <2>4
    <3>2. b[k] = b[m]
      BY <1>8, <3>1
    <3>3. k = m
      BY <1>5, <1>8, <3>2
    <3> QED
      BY <3>1, <3>3
  <2> QED
    BY <1>9, <2>1, <2>2, <2>3, <2>4
<1>15. ASSUME NEW n \in N PROVE \E j \in DOMAIN (a \o b) : (a \o b)[j] = n
  <2>1. CASE n \in S
    BY <1>4, <1>8, <1>10, <2>1
  <2>2. CASE n \notin S
    <3>1. PICK k \in DOMAIN s : s[k] = n
      BY <2>2 DEF ToSet
    <3>2. PICK i \in DOMAIN b : b[i] = n
      BY <1>6, <2>2, <3>1
    <3> QED
      BY <1>8, <1>10, <3>2
  <2> QED
    BY <2>1, <2>2
<1> QED
  BY <1>1, <1>13, <1>14, <1>15 DEF Orders

\* What is selected is enabled or named in the invocation.
LEMMA SelectedIsNamed ==
  ASSUME NEW S \in SUBSET Nat, IsFiniteSet(S), NEW A, NEW s \in Seq(A)
  PROVE  LET selected == Selected(S, s)
         IN  \A i \in DOMAIN selected : selected[i] \in S \cup ToSet(s)
<1>1. Selected(S, s) \in Seq(S \cup ToSet(s))
  BY SelectedOrders DEF Orders
<1> QED
  BY <1>1

\* Only selected plugins are executed.
LEMMA ExecutedIsSelected ==
  ASSUME NEW e, NEW selected, NEW succeeding, NEW T,
         \A i \in DOMAIN selected : selected[i] \in T
  PROVE  ExecutedUpTo(e, selected, succeeding) \subseteq T
  BY DEF ExecutedUpTo

\* The plugins that an invocation may run.
Trusted(invocation) ==
  enabledFile \cup ToSet(invocation.plugin) \cup
  (IF invocation.command = "test" THEN {invocation.name} ELSE {})

TrustedOutcome(outcome) ==
  /\ outcome.executed \subseteq Trusted(outcome.invocation)
  /\ outcome.invocation.command \in {"enable", "disable"} =>
       outcome.executed = {}

\* The invocation that names no plugin.
LEMMA EmptyIsSequence == <<>> \in Seq({}) /\ ToSet(<<>>) = {}
  BY EmptySeq DEF ToSet

\* Every command's composition executes trusted plugins only.
LEMMA InvocationsAreTrusted ==
  ASSUME PluginInv, NEW invocation \in Invocations
  PROVE  /\ Executes(invocation) \subseteq Trusted(invocation)
         /\ invocation.command \in {"enable", "disable"} =>
              Executes(invocation) = {}
<1>1. /\ enabledFile \in SUBSET Nat /\ IsFiniteSet(enabledFile)
      /\ invocation.name \in Nat
      /\ invocation.plugin \in Seq(ToSet(invocation.plugin))
  <2>1. enabledFile \subseteq Names
    BY DEF PluginInv, PluginType
  <2> QED
    BY <2>1, NamesAssumption, InvocationsAssumption, FS_Subset
<1>2. ParsingExecutes(invocation) \subseteq enabledFile
  <2>1. \A i \in DOMAIN Selected(enabledFile, <<>>) :
          Selected(enabledFile, <<>>)[i] \in enabledFile
    BY <1>1, EmptyIsSequence, SelectedIsNamed, Zenon
  <2>2. CommandsExecute(environment, enabledFile) \subseteq enabledFile
    BY <2>1, ExecutedIsSelected DEF CommandsExecute
  <2> QED
    BY <2>2 DEF ParsingExecutes
<1>3. RuntimeExecutes(invocation) \subseteq
        enabledFile \cup ToSet(invocation.plugin)
  <2> DEFINE selected == Selected(enabledFile, invocation.plugin)
             T == enabledFile \cup ToSet(invocation.plugin)
  <2>1. \A i \in DOMAIN selected : selected[i] \in T
    BY <1>1, SelectedIsNamed
  <2>2. Executed(environment, enabledFile, invocation.plugin) =
          ExecutedUpTo(environment, selected,
                         {n \in ToSet(selected) : Loads(environment, n)})
    BY DEF Executed
  <2> HIDE DEF selected, T
  <2>3. Executed(environment, enabledFile, invocation.plugin) \subseteq T
    BY <2>1, <2>2, ExecutedIsSelected
  <2> QED
    BY <2>3 DEF RuntimeExecutes, T
<1>4. TestExecutes(environment, invocation.name, invocation.plugin) \subseteq
        {invocation.name} \cup ToSet(invocation.plugin)
  <2> DEFINE selected == Selected({invocation.name}, invocation.plugin)
             T == {invocation.name} \cup ToSet(invocation.plugin)
  <2>1. \A i \in DOMAIN selected : selected[i] \in T
    BY <1>1, SelectedIsNamed, FS_Singleton
  <2>2. \/ TestExecutes(environment, invocation.name, invocation.plugin) = {}
        \/ TestExecutes(environment, invocation.name, invocation.plugin) =
             ExecutedUpTo(environment, selected,
                            {n \in ToSet(selected) :
                               Extensions(environment, n) # Raises})
    BY DEF TestExecutes
  <2> HIDE DEF selected
  <2>3. \A succeeding :
          ExecutedUpTo(environment, selected, succeeding) \subseteq T
    BY <2>1, ExecutedIsSelected
  <2> QED
    BY <2>2, <2>3
<1>5. invocation.command \in PluginCommands =>
        ParsingExecutes(invocation) = {}
  BY DEF ParsingExecutes, RequiresPluginCommands
<1>6. CASE NeedsRuntime(invocation)
  <2>1. Executes(invocation) =
          ParsingExecutes(invocation) \cup RuntimeExecutes(invocation)
    BY <1>6 DEF Executes, NeedsRuntime, PluginCommands
  <2>2. invocation.command \notin {"enable", "disable"}
    BY <1>6 DEF NeedsRuntime, PluginCommands
  <2> QED
    BY <1>2, <1>3, <2>1, <2>2 DEF Trusted
<1>7. CASE invocation.command = "test"
  <2>1. ~NeedsRuntime(invocation)
    BY <1>7 DEF NeedsRuntime, PluginCommands
  <2>2. Executes(invocation) \subseteq
          ParsingExecutes(invocation) \cup
          TestExecutes(environment, invocation.name, invocation.plugin)
    BY <1>7, <2>1 DEF Executes
  <2> QED
    BY <1>2, <1>4, <1>7, <2>2 DEF Trusted
<1>8. CASE invocation.command \in {"enable", "disable"}
  <2>1. ~NeedsRuntime(invocation) /\ invocation.command # "test"
    BY <1>8 DEF NeedsRuntime, PluginCommands
  <2>2. Executes(invocation) = {}
    BY <1>5, <1>8, <2>1 DEF Executes, PluginCommands
  <2> QED
    BY <2>2
<1> QED
  BY <1>6, <1>7, <1>8 DEF NeedsRuntime, PluginCommands

\* While a handler has not decided, what was enabled when code ran still is.
TrustInv ==
  last.result = "started" =>
    /\ TrustedOutcome(last)
    /\ \A m \in Managers : enablingStage[m] \in {"none", "ready"}

\* Every step of the host leaves an outcome that executed trusted code.
LEMMA HostKeepsTrust ==
  ASSUME PluginInv, LastInv, TrustInv, [NextHost]_allVars
  PROVE  /\ TrustInv'
         /\ last' # last => TrustedOutcome(last')
<1> DEFINE Goal == TrustInv' /\ (last' # last => TrustedOutcome(last'))
<1>1. ASSUME NEW invocation \in Invocations, NEW result, NEW catalog, NEW maxima,
             last' = Outcome(invocation, result, Executes(invocation), catalog,
                             maxima)
      PROVE  TrustedOutcome(last') /\ last'.result = result
  BY <1>1, InvocationsAreTrusted DEF TrustedOutcome, Outcome
<1>2. ASSUME NEW invocation \in Invocations,
             Fail(invocation) \/ Test(invocation) \/ Work(invocation)
      PROVE  Goal
  <2>1. last'.result # "started" /\ TrustedOutcome(last')
    BY <1>1, <1>2 DEF Fail, Test, Work
  <2> QED
    BY <2>1 DEF TrustInv
<1>3. ASSUME NEW m \in Managers, NEW invocation \in Invocations,
             StartPlugins(m, invocation) \/ StartLimits(m, invocation)
      PROVE  Goal
  <2>1. Idle /\ TrustedOutcome(last')
    BY <1>1, <1>3 DEF StartPlugins, StartLimits, Begin
  <2>2. enabledFile' = enabledFile
    BY <1>3 DEF StartPlugins, StartLimits, P!Discover, P!File!Discover,
         pluginVars
  <2>3. \A n \in Managers : enablingStage[n] = "none"
    BY <2>1 DEF Idle, P!File!Live
  <2>4. \A n \in Managers : enablingStage'[n] \in {"none", "ready"}
    BY <1>3, <2>3
    DEF StartPlugins, StartLimits, P!Discover, P!File!Discover, P!File!Enter,
        pluginVars, PluginInv, PluginType
  <2>5. TrustedOutcome(last)'
    BY <2>1, <2>2 DEF TrustedOutcome, Trusted
  <2> QED
    BY <2>1, <2>4, <2>5 DEF TrustInv
<1>4. CASE Reinstall
  <2>1. /\ last'.result = "none" /\ last'.executed = {}
    BY <1>4 DEF Reinstall, NoInvocation, Outcome
  <2> QED
    BY <2>1 DEF TrustInv, TrustedOutcome
<1>5. ASSUME NEW m \in Managers, HandlePlugins(m) \/ HandleLimits(m)
      PROVE  Goal
  <2>1. last.result = "started" /\ last' = [last EXCEPT !.result = "handled"]
    BY <1>5 DEF HandlePlugins, HandleLimits, Handled
  <2>2. /\ last'.result = "handled" /\ last'.executed = last.executed
        /\ last'.invocation = last.invocation
    BY <2>1 DEF LastInv
  <2>3. TrustedOutcome(last)
    BY <2>1 DEF TrustInv
  <2> QED
    BY <2>2, <2>3 DEF TrustInv, TrustedOutcome
<1>6. ASSUME NEW m \in Managers, WritePlugins(m)
      PROVE  Goal
  <2>1. enablingStage[m] \notin {"none", "ready"}
    BY <1>6 DEF WritePlugins, P!WriteFails, P!Replace, P!Return,
         P!File!BeginFails, P!File!Replace, P!File!TakeOver
  <2>2. last' = last
    BY <1>6 DEF WritePlugins
  <2> QED
    BY <2>1, <2>2 DEF TrustInv
<1>7. ASSUME NEW m \in Managers, WriteLimits(m)
      PROVE  Goal
  BY <1>7 DEF WriteLimits, pluginVars, TrustInv, TrustedOutcome, Trusted
<1>8. ASSUME NEW m \in Managers, End(m)
      PROVE  Goal
  <2>1. last' = last
    BY <1>8 DEF End
  <2>2. CASE UNCHANGED pluginVars
    BY <2>1, <2>2 DEF pluginVars, TrustInv, TrustedOutcome, Trusted
  <2>3. CASE P!Leave(m)
    <3>1. /\ enabledFile' = enabledFile
          /\ enablingStage' = [enablingStage EXCEPT ![m] = "none"]
      BY <2>3 DEF P!Leave, P!File!Leave, P!File!Enter
    <3> QED
      BY <2>1, <3>1
      DEF TrustInv, TrustedOutcome, Trusted, PluginInv, PluginType
  <2> QED
    BY <1>8, <2>2, <2>3 DEF End
<1>9. CASE UNCHANGED allVars
  BY <1>9 DEF allVars, pluginVars, TrustInv, TrustedOutcome, Trusted
<1> QED
  BY <1>2, <1>3, <1>4, <1>5, <1>6, <1>7, <1>8, <1>9 DEF NextHost

\* Plugin code runs only when its plugin is enabled or named in the invocation,
\* and plugins enable and plugins disable run none.
THEOREM TrustedCodeOnly == SpecHost => OnlyTrustedCodeRuns
<1> DEFINE Step == last' # last => TrustedOutcome(last')
<1>1. InitHost => TrustInv
  BY DEF InitHost, NoInvocation, Outcome, TrustInv
<1>2. SpecHost => [][Step]_allVars
  BY <1>1, HostKeepsDocuments, HostKeepsTrust, PTL DEF SpecHost
<1>3. Step => (last' # last =>
        LET invocation == last'.invocation IN
        /\ last'.executed \subseteq
             enabledFile \cup ToSet(invocation.plugin) \cup
             (IF invocation.command = "test" THEN {invocation.name} ELSE {})
        /\ invocation.command \in {"enable", "disable"} =>
             last'.executed = {})
  BY DEF TrustedOutcome, Trusted
<1> QED
  BY <1>2, <1>3, PTL DEF OnlyTrustedCodeRuns

-----------------------------------------------------------------------------
(* Registries.                                                             *)

\* An extension that a builder takes when nothing else is registered.
Fit(e) ==
  /\ e.identified
  /\ \A key \in Offered(e) : e.members[key] = "callable"

\* Two extensions that can be in one registry.
Agree(d, e) ==
  d.extension_id = e.extension_id =>
    /\ d.kind = e.kind
    /\ d.descriptor = e.descriptor
    /\ Offered(d) \cap Offered(e) = {}

\* The extensions of a set that share an ID.
Sharing(id, E) == {x \in E : x.extension_id = id}

\* The table of a registry that consists of the extensions of a set.
Tabulates(by_kind, E) ==
  /\ DOMAIN by_kind = Kinds
  /\ \A kind \in Kinds : \A id :
       id \in DOMAIN by_kind[kind] <=>
         \E x \in E : x.kind = kind /\ x.extension_id = id
  /\ \A x \in E :
       LET record == by_kind[x.kind][x.extension_id] IN
       /\ record.descriptor = x.descriptor
       /\ \A key : key \in DOMAIN record.providers <=>
                     \E y \in Sharing(x.extension_id, E) : key \in Offered(y)
       /\ \A y \in Sharing(x.extension_id, E) : \A key \in Offered(y) :
            record.providers[key] = y

Consistent(E) ==
  /\ \A x \in E : x.kind \in Kinds
  /\ \A x, y \in E : x.extension_id = y.extension_id => x.kind = y.kind

\* Nothing is registered at first.
LEMMA NothingTabulated == Tabulates(EmptyCapabilityMaps, {})
BY DEF Tabulates, EmptyCapabilityMaps, Empty, Sharing

\* A builder accepts what agrees with all that it has.
LEMMA AcceptsWhatAgrees ==
  ASSUME NEW by_kind, NEW E, Consistent(E), Tabulates(by_kind, E),
         NEW e, e.identified => e.kind \in Kinds
  PROVE  Accepts(by_kind, e) <=> Fit(e) /\ \A x \in E : Agree(x, e)
<1> SUFFICES ASSUME e.identified, e.kind \in Kinds
             PROVE  Accepts(by_kind, e) <=> Fit(e) /\ \A x \in E : Agree(x, e)
  BY DEF Accepts, Fit
<1> DEFINE id == e.extension_id
           registered == by_kind[e.kind]
<1>1. (\A kind \in Kinds \ {e.kind} : id \notin DOMAIN by_kind[kind])
      <=> \A x \in E : x.extension_id = id => x.kind = e.kind
  BY DEF Tabulates, Consistent
<1>2. id \in DOMAIN registered <=>
        \E x \in E : x.kind = e.kind /\ x.extension_id = id
  BY DEF Tabulates
<1>3. ASSUME NEW x \in E, x.extension_id = id, x.kind = e.kind
      PROVE  /\ registered[id].descriptor = x.descriptor
             /\ \A key : key \in DOMAIN registered[id].providers <=>
                           \E y \in Sharing(id, E) : key \in Offered(y)
  BY <1>3 DEF Tabulates
<1> HIDE DEF registered, id
<1>4. ASSUME Accepts(by_kind, e), NEW x \in E PROVE Agree(x, e)
  <2> SUFFICES ASSUME x.extension_id = id
               PROVE  /\ x.kind = e.kind /\ x.descriptor = e.descriptor
                      /\ Offered(x) \cap Offered(e) = {}
    BY DEF Agree, id
  <2>1. x.kind = e.kind
    BY <1>1, <1>4 DEF Accepts, id
  <2>2. id \in DOMAIN registered
    BY <1>2, <2>1
  <2>3. /\ registered[id].descriptor = e.descriptor
        /\ Offered(e) \cap DOMAIN registered[id].providers = {}
    BY <1>4, <2>2 DEF Accepts, id, registered
  <2>4. x \in Sharing(id, E)
    BY DEF Sharing
  <2> QED
    BY <1>3, <2>1, <2>3, <2>4
<1>5. ASSUME Fit(e), \A x \in E : Agree(x, e) PROVE Accepts(by_kind, e)
  <2>1. \A kind \in Kinds \ {e.kind} : id \notin DOMAIN by_kind[kind]
    BY <1>1, <1>5 DEF Agree, id
  <2>2. ASSUME id \in DOMAIN registered
        PROVE  /\ registered[id].descriptor = e.descriptor
               /\ Offered(e) \cap DOMAIN registered[id].providers = {}
    <3>1. PICK x \in E : x.kind = e.kind /\ x.extension_id = id
      BY <1>2, <2>2
    <3>2. registered[id].descriptor = e.descriptor
      BY <1>3, <1>5, <3>1 DEF Agree, id
    <3>3. \A y \in Sharing(id, E) : Offered(y) \cap Offered(e) = {}
      BY <1>5 DEF Agree, Sharing, id
    <3> QED
      BY <1>3, <3>1, <3>2, <3>3
  <2> QED
    BY <1>5, <2>1, <2>2 DEF Accepts, Fit, id, registered
<1>6. Accepts(by_kind, e) => Fit(e)
  BY DEF Accepts, Fit
<1> QED
  BY <1>4, <1>5, <1>6

\* And registers it with the others.
LEMMA OneMoreTabulated ==
  ASSUME NEW by_kind, NEW E, Consistent(E), Tabulates(by_kind, E),
         NEW e, e.kind \in Kinds, \A x \in E : Agree(x, e)
  PROVE  Tabulates(Registered(by_kind, e), E \cup {e}) /\ Consistent(E \cup {e})
<1> DEFINE id == e.extension_id
           registered == by_kind[e.kind]
           known == IF id \in DOMAIN registered THEN registered[id].providers
                                                ELSE Empty
           providers == [key \in DOMAIN known \cup Offered(e) |->
                           IF key \in Offered(e) THEN e ELSE known[key]]
           record == [descriptor |-> e.descriptor, providers |-> providers]
           updated == [other \in DOMAIN registered \cup {id} |->
                         IF other = id THEN record ELSE registered[other]]
           after == Registered(by_kind, e)
           F == E \cup {e}
<1>1. after = [by_kind EXCEPT ![e.kind] = updated]
  BY DEF Registered
<1>2. DOMAIN by_kind = Kinds /\ DOMAIN after = Kinds
  BY <1>1 DEF Tabulates
<1>3. /\ after[e.kind] = updated
      /\ \A kind \in Kinds \ {e.kind} : after[kind] = by_kind[kind]
  BY <1>1, <1>2
<1>4. /\ updated[id] = record /\ DOMAIN updated = DOMAIN registered \cup {id}
      /\ \A other \in DOMAIN registered :
           other # id => updated[other] = registered[other]
  OBVIOUS
<1>5. record.descriptor = e.descriptor /\ record.providers = providers
  OBVIOUS
<1>6. \A x \in E :
        x.extension_id = id => x.kind = e.kind /\ x.descriptor = e.descriptor
  BY DEF Agree
<1>7. Consistent(F)
  BY <1>6 DEF Consistent
<1>8. /\ \A key : key \in DOMAIN known <=>
                     \E y \in Sharing(id, E) : key \in Offered(y)
      /\ \A y \in Sharing(id, E) : \A key \in Offered(y) : known[key] = y
  <2>1. CASE id \in DOMAIN registered
    <3>1. PICK x \in E : x.kind = e.kind /\ x.extension_id = id
      BY <2>1 DEF Tabulates
    <3> QED
      BY <2>1, <3>1 DEF Tabulates
  <2>2. CASE id \notin DOMAIN registered
    <3>1. Sharing(id, E) = {}
      BY <1>6, <2>2 DEF Tabulates, Sharing
    <3> QED
      BY <2>2, <3>1 DEF Empty
  <2> QED
    BY <2>1, <2>2
<1> HIDE DEF known
<1>9. Sharing(id, F) = Sharing(id, E) \cup {e}
  BY DEF Sharing
<1>10. \A y \in Sharing(id, E) : Offered(y) \cap Offered(e) = {}
  BY DEF Sharing, Agree
<1>11. /\ \A key : key \in DOMAIN providers <=>
                      \E y \in Sharing(id, F) : key \in Offered(y)
       /\ \A y \in Sharing(id, F) : \A key \in Offered(y) : providers[key] = y
  BY <1>8, <1>9, <1>10
<1> HIDE DEF providers, record, updated, after, registered, id, F
<1>12. ASSUME NEW kind \in Kinds, NEW other
       PROVE  other \in DOMAIN after[kind] <=>
                \E x \in F : x.kind = kind /\ x.extension_id = other
  <2>1. other \in DOMAIN by_kind[kind] <=>
          \E x \in E : x.kind = kind /\ x.extension_id = other
    BY DEF Tabulates
  <2>2. CASE kind = e.kind
    BY <1>3, <1>4, <2>1, <2>2 DEF registered, id, F
  <2>3. CASE kind # e.kind
    BY <1>3, <2>1, <2>3 DEF F
  <2> QED
    BY <2>2, <2>3
<1>13. ASSUME NEW x \in F
       PROVE  LET r == after[x.kind][x.extension_id] IN
              /\ r.descriptor = x.descriptor
              /\ \A key : key \in DOMAIN r.providers <=>
                            \E y \in Sharing(x.extension_id, F) : key \in Offered(y)
              /\ \A y \in Sharing(x.extension_id, F) : \A key \in Offered(y) :
                   r.providers[key] = y
  <2>1. CASE x.extension_id = id
    <3>1. x.kind = e.kind /\ x.descriptor = e.descriptor
      BY <1>6, <2>1 DEF F
    <3>2. after[x.kind][x.extension_id] = record
      BY <1>3, <1>4, <2>1, <3>1
    <3> QED
      BY <1>5, <1>11, <2>1, <3>1, <3>2
  <2>2. CASE x.extension_id # id
    <3>1. x \in E
      BY <2>2 DEF F, id
    <3>2. x.kind \in Kinds /\ x.extension_id \in DOMAIN by_kind[x.kind]
      BY <3>1 DEF Consistent, Tabulates
    <3>3. after[x.kind][x.extension_id] = by_kind[x.kind][x.extension_id]
      BY <1>3, <1>4, <2>2, <3>2 DEF registered
    <3>4. Sharing(x.extension_id, F) = Sharing(x.extension_id, E)
      BY <2>2 DEF Sharing, F, id
    <3> QED
      BY <3>1, <3>3, <3>4 DEF Tabulates
  <2> QED
    BY <2>1, <2>2
<1> QED
  BY <1>2, <1>7, <1>12, <1>13 DEF Tabulates, after, F

\* What a builder has before the first extension.
Fresh == [refused |-> FALSE, by_kind |-> EmptyCapabilityMaps]

\* The compositions of the first extensions of a sequence, up to the nth.
Composes(f, s, n) ==
  f = [k \in 0 .. n |-> IF k = 0 THEN Fresh ELSE Composed(f[k - 1], s[k])]

\* However many extensions there are, they have compositions.
LEMMA CompositionsExist ==
  ASSUME NEW s, NEW n \in Nat
  PROVE  \E f : Composes(f, s, n)
<1> DEFINE Without == {k \in Nat : ~\E f : Composes(f, s, k)}
<1>1. CASE Without # {}
  <2>1. PICK m \in Without : \A k \in Without : m <= k
    BY <1>1, LeastNumber
  <2>2. CASE m = 0
    <3> DEFINE f == [k \in 0 .. 0 |-> Fresh]
    <3>1. f = [k \in 0 .. 0 |-> IF k = 0 THEN Fresh ELSE Composed(f[k - 1], s[k])]
      OBVIOUS
    <3> QED
      BY <2>1, <2>2, <3>1 DEF Composes
  <2>3. CASE m # 0
    <3>1. m \in Nat /\ m - 1 \in Nat /\ m - 1 \notin Without
      BY <2>1, <2>3
    <3>2. PICK f : Composes(f, s, m - 1)
      BY <3>1
    <3>3. \A k \in 0 .. (m - 1) :
            f[k] = IF k = 0 THEN Fresh ELSE Composed(f[k - 1], s[k])
      BY <3>2 DEF Composes
    <3> DEFINE g == [k \in 0 .. m |->
                       IF k = m THEN Composed(f[m - 1], s[m]) ELSE f[k]]
               h == [k \in 0 .. m |->
                       IF k = 0 THEN Fresh ELSE Composed(g[k - 1], s[k])]
    <3>4. ASSUME NEW k \in 0 .. m PROVE g[k] = h[k]
      <4>1. CASE k = 0
        BY <2>3, <3>1, <3>3, <4>1
      <4>2. CASE k # 0 /\ k # m
        <5>1. k \in 0 .. (m - 1) /\ k - 1 \in 0 .. m /\ k - 1 # m
          BY <3>1, <4>2
        <5> QED
          BY <3>3, <4>2, <5>1
      <4>3. CASE k # 0 /\ k = m
        <5>1. k - 1 \in 0 .. m /\ k - 1 # m /\ k - 1 = m - 1
          BY <3>1, <4>3
        <5> QED
          BY <4>3, <5>1
      <4> QED
        BY <4>1, <4>2, <4>3
    <3>5. g = h
      BY <3>4
    <3>6. Composes(g, s, m)
      BY <3>5 DEF Composes
    <3> QED
      BY <2>1, <3>6
  <2> QED
    BY <2>2, <2>3
<1>2. CASE Without = {}
  BY <1>2
<1> QED
  BY <1>1, <1>2

\* Compose() is the last of the compositions.
LEMMA ComposeIsLast ==
  ASSUME NEW s, Len(s) \in Nat
  PROVE  \E f : /\ f[0] = Fresh
                /\ \A k \in 1 .. Len(s) : f[k] = Composed(f[k - 1], s[k])
                /\ Compose(s) = f[Len(s)]
<1> DEFINE upTo ==
      CHOOSE f : f = [k \in 0 .. Len(s) |->
                        IF k = 0
                          THEN [refused |-> FALSE, by_kind |-> EmptyCapabilityMaps]
                        ELSE Composed(f[k - 1], s[k])]
<1>1. Composes(upTo, s, Len(s))
  BY CompositionsExist DEF Composes, Fresh
<1>2. Compose(s) = upTo[Len(s)]
  BY DEF Compose
<1> HIDE DEF upTo
<1>3. \A k \in 0 .. Len(s) :
        upTo[k] = IF k = 0 THEN Fresh ELSE Composed(upTo[k - 1], s[k])
  BY <1>1 DEF Composes
<1>4. /\ upTo[0] = Fresh
      /\ \A k \in 1 .. Len(s) : upTo[k] = Composed(upTo[k - 1], s[k])
  BY <1>3
<1> QED
  BY <1>2, <1>4

\* No two of the first extensions of a sequence are at odds.
Compatible(s, k) ==
  \A i \in 1 .. k :
    /\ Fit(s[i])
    /\ \A j \in 1 .. k : i # j => Agree(s[i], s[j])

\* A composition is refused just when there are two that are, or one that no
\* builder takes; what it comes to is otherwise told by the extensions in it.
LEMMA ComposeIsDecided ==
  ASSUME NEW X, NEW s \in Seq(X),
         \A i \in DOMAIN s : s[i].identified => s[i].kind \in Kinds
  PROVE  /\ Compose(s).refused = ~Compatible(s, Len(s))
         /\ ~Compose(s).refused => Tabulates(Compose(s).by_kind, ToSet(s))
<1> DEFINE First(k) == {s[i] : i \in 1 .. k}
<1>1. PICK f : /\ f[0] = Fresh
               /\ \A k \in 1 .. Len(s) : f[k] = Composed(f[k - 1], s[k])
               /\ Compose(s) = f[Len(s)]
  BY ComposeIsLast
<1> DEFINE Decided(k) ==
             /\ f[k].refused = ~Compatible(s, k)
             /\ ~f[k].refused =>
                  /\ Tabulates(f[k].by_kind, First(k))
                  /\ Consistent(First(k))
           Undecided == {k \in 0 .. Len(s) : ~Decided(k)}
<1>2. Len(s) \in Nat /\ DOMAIN s = 1 .. Len(s)
  OBVIOUS
<1>3. Decided(0)
  <2>1. First(0) = {} /\ Compatible(s, 0)
    BY DEF Compatible
  <2>2. Consistent({})
    BY DEF Consistent
  <2>3. f[0].refused = FALSE /\ f[0].by_kind = EmptyCapabilityMaps
    BY <1>1 DEF Fresh
  <2> HIDE DEF First
  <2> QED
    BY <2>1, <2>2, <2>3, NothingTabulated
<1>4. ASSUME NEW k \in 1 .. Len(s), Decided(k - 1) PROVE Decided(k)
  <2> DEFINE e == s[k]
             before == f[k - 1]
             E == First(k - 1)
  <2>1. First(k) = E \cup {e}
    <3>1. \A i : i \in 1 .. k <=> i \in 1 .. (k - 1) \/ i = k
      OBVIOUS
    <3> QED
      BY <3>1
  <2>2. Compatible(s, k) <=>
          /\ Compatible(s, k - 1)
          /\ Fit(e) /\ \A x \in E : Agree(x, e)
    <3>1. \A i : i \in 1 .. k <=> i \in 1 .. (k - 1) \/ i = k
      OBVIOUS
    <3>2. \A i \in 1 .. (k - 1) : i # k
      OBVIOUS
    <3>3. \A x, y : Agree(x, y) <=> Agree(y, x)
      BY DEF Agree
    <3> QED
      BY <3>1, <3>2, <3>3 DEF Compatible
  <2>3. e.identified => e.kind \in Kinds
    BY <1>2
  <2>4. f[k] = Composed(before, e)
    BY <1>1
  <2> HIDE DEF e, E, First, before
  <2>5. CASE ~Compatible(s, k - 1)
    <3>1. before.refused
      BY <1>4, <2>5 DEF before
    <3>2. f[k].refused = TRUE
      BY <2>4, <3>1 DEF Composed
    <3> QED
      BY <2>2, <2>5, <3>2
  <2>6. CASE Compatible(s, k - 1)
    <3>1. ~before.refused /\ Tabulates(before.by_kind, E) /\ Consistent(E)
      BY <1>4, <2>6 DEF before, E
    <3>2. Accepts(before.by_kind, e) <=> Fit(e) /\ \A x \in E : Agree(x, e)
      BY <2>3, <3>1, AcceptsWhatAgrees
    <3>3. CASE Accepts(before.by_kind, e)
      <4>1. f[k].refused = FALSE /\ f[k].by_kind = Registered(before.by_kind, e)
        BY <2>4, <3>1, <3>3 DEF Composed
      <4>2. e.kind \in Kinds /\ \A x \in E : Agree(x, e)
        BY <2>3, <3>2, <3>3 DEF Accepts
      <4>3. Tabulates(f[k].by_kind, E \cup {e}) /\ Consistent(E \cup {e})
        BY <3>1, <4>1, <4>2, OneMoreTabulated
      <4> QED
        BY <2>1, <2>2, <2>6, <3>2, <3>3, <4>1, <4>3
    <3>4. CASE ~Accepts(before.by_kind, e)
      <4>1. f[k].refused = TRUE
        BY <2>4, <3>4 DEF Composed
      <4> QED
        BY <2>2, <3>2, <3>4, <4>1
    <3> QED
      BY <3>3, <3>4
  <2> QED
    BY <2>5, <2>6
<1> HIDE DEF Decided
<1>5. CASE Undecided # {}
  <2>0. Undecided \in SUBSET Nat
    BY <1>2
  <2>1. PICK k \in Undecided : \A j \in Undecided : k <= j
    BY <1>5, <2>0, LeastNumber
  <2>2. k \in 1 .. Len(s) /\ k - 1 \in 0 .. Len(s) /\ ~(k <= k - 1)
    BY <1>2, <1>3, <2>1
  <2> QED
    BY <1>4, <2>1, <2>2
<1>6. CASE Undecided = {}
  <2>1. Decided(Len(s))
    BY <1>2, <1>6
  <2>2. First(Len(s)) = ToSet(s)
    BY <1>2 DEF ToSet
  <2> HIDE DEF First
  <2> QED
    BY <1>1, <2>1, <2>2 DEF Decided
<1> QED
  BY <1>5, <1>6

\* And is at odds with itself only where the sequence is.
LEMMA EmbeddedCompatible ==
  ASSUME NEW s, NEW t, Embeds(s, t), DOMAIN s = 1 .. Len(s), DOMAIN t = 1 .. Len(t),
         Compatible(t, Len(t))
  PROVE  Compatible(s, Len(s))
<1>1. PICK b \in [DOMAIN s -> DOMAIN t] :
        /\ \A q, r \in DOMAIN s : b[q] = b[r] => q = r
        /\ \A q \in DOMAIN s : s[q] = t[b[q]]
  BY DEF Embeds
<1>2. ASSUME NEW i \in 1 .. Len(s) PROVE Fit(s[i])
  BY <1>1 DEF Compatible
<1>3. ASSUME NEW i \in 1 .. Len(s), NEW j \in 1 .. Len(s), i # j
      PROVE  Agree(s[i], s[j])
  <2>1. b[i] \in 1 .. Len(t) /\ b[j] \in 1 .. Len(t) /\ b[i] # b[j]
    BY <1>1, <1>3
  <2>2. s[i] = t[b[i]] /\ s[j] = t[b[j]]
    BY <1>1
  <2> QED
    BY <2>1, <2>2 DEF Compatible
<1> QED
  BY <1>2, <1>3 DEF Compatible

\* A registry of the same extensions in another order.
LEMMA RegistriesAgree ==
  ASSUME NEW X, \A x \in X : x.identified => x.kind \in Kinds,
         NEW s \in Seq(X), NEW t \in Seq(X), Embeds(s, t), Embeds(t, s)
  PROVE  /\ Compose(s).refused = Compose(t).refused
         /\ ~Compose(s).refused =>
              \E E : /\ \A x \in E : x.kind \in Kinds
                     /\ Tabulates(Compose(s).by_kind, E)
                     /\ Tabulates(Compose(t).by_kind, E)
<1>1. /\ Len(s) \in Nat /\ DOMAIN s = 1 .. Len(s)
      /\ Len(t) \in Nat /\ DOMAIN t = 1 .. Len(t)
      /\ \A i \in DOMAIN s : s[i] \in X
      /\ \A i \in DOMAIN t : t[i] \in X
  OBVIOUS
<1>2. /\ Compose(s).refused = ~Compatible(s, Len(s))
      /\ ~Compose(s).refused => Tabulates(Compose(s).by_kind, ToSet(s))
  <2>1. \A i \in DOMAIN s : s[i].identified => s[i].kind \in Kinds
    BY <1>1
  <2> QED
    BY <2>1, ComposeIsDecided
<1>3. /\ Compose(t).refused = ~Compatible(t, Len(t))
      /\ ~Compose(t).refused => Tabulates(Compose(t).by_kind, ToSet(t))
  <2>1. \A i \in DOMAIN t : t[i].identified => t[i].kind \in Kinds
    BY <1>1
  <2> QED
    BY <2>1, ComposeIsDecided
<1>4. Compatible(s, Len(s)) <=> Compatible(t, Len(t))
  BY <1>1, EmbeddedCompatible
<1>5. ToSet(s) = ToSet(t)
  <2>1. ToSet(s) \subseteq ToSet(t) /\ ToSet(t) \subseteq ToSet(s)
    BY EmbeddedElements
  <2> QED
    BY <2>1
<1>6. ASSUME Compatible(s, Len(s)) PROVE \A x \in ToSet(s) : x.kind \in Kinds
  <2>1. \A i \in DOMAIN s : Fit(s[i])
    BY <1>1, <1>6 DEF Compatible
  <2> QED
    BY <1>1, <2>1 DEF Fit, ToSet
<1>7. Compose(s).refused = Compose(t).refused
  <2>1. CASE Compatible(s, Len(s))
    <3>1. Compose(s).refused = FALSE /\ Compose(t).refused = FALSE
      BY <1>2, <1>3, <1>4, <2>1
    <3> QED
      BY <3>1
  <2>2. CASE ~Compatible(s, Len(s))
    <3>1. Compose(s).refused = TRUE /\ Compose(t).refused = TRUE
      BY <1>2, <1>3, <1>4, <2>2
    <3> QED
      BY <3>1
  <2> QED
    BY <2>1, <2>2
<1>8. ASSUME ~Compose(s).refused
      PROVE  /\ \A x \in ToSet(s) : x.kind \in Kinds
             /\ Tabulates(Compose(s).by_kind, ToSet(s))
             /\ Tabulates(Compose(t).by_kind, ToSet(s))
  <2>1. Compatible(s, Len(s)) /\ ~Compose(t).refused
    BY <1>2, <1>7, <1>8, Zenon
  <2>2. Tabulates(Compose(t).by_kind, ToSet(s))
    BY <1>3, <1>5, <2>1, Zenon
  <2> QED
    BY <1>2, <1>6, <1>8, <2>1, <2>2, Zenon
<1> QED
  BY <1>7, <1>8, Zenon

\* Registries of the same extensions list and provide the same.
LEMMA TabulatedAlike ==
  ASSUME NEW E, \A x \in E : x.kind \in Kinds,
         NEW one, NEW other, Tabulates(one.by_kind, E), Tabulates(other.by_kind, E)
  PROVE  /\ Inventory(one) = Inventory(other)
         /\ \A entry \in Inventory(one) : \A key \in entry.available :
              Provider(one, entry.kind, entry.extension_id, key) =
                Provider(other, entry.kind, entry.extension_id, key)
<1>1. \A kind \in Kinds :
        DOMAIN one.by_kind[kind] = DOMAIN other.by_kind[kind]
  <2> SUFFICES ASSUME NEW kind \in Kinds
               PROVE  DOMAIN one.by_kind[kind] = DOMAIN other.by_kind[kind]
    OBVIOUS
  <2>1. \A id :
          id \in DOMAIN one.by_kind[kind] <=> id \in DOMAIN other.by_kind[kind]
    BY DEF Tabulates
  <2> QED
    BY <2>1
<1>2. ASSUME NEW kind \in Kinds, NEW id \in DOMAIN one.by_kind[kind]
      PROVE  /\ one.by_kind[kind][id].descriptor =
                  other.by_kind[kind][id].descriptor
             /\ \A key : Provides(one, kind, id, key) <=>
                          Provides(other, kind, id, key)
             /\ \A key : Provides(one, kind, id, key) =>
                  Provider(one, kind, id, key) = Provider(other, kind, id, key)
  <2>1. PICK x \in E : x.kind = kind /\ x.extension_id = id
    BY DEF Tabulates
  <2>2. /\ one.by_kind[kind][id].descriptor = x.descriptor
        /\ \A key : key \in DOMAIN one.by_kind[kind][id].providers <=>
                      \E y \in Sharing(id, E) : key \in Offered(y)
        /\ \A y \in Sharing(id, E) : \A key \in Offered(y) :
             one.by_kind[kind][id].providers[key] = y
    BY <2>1 DEF Tabulates
  <2>3. /\ other.by_kind[kind][id].descriptor = x.descriptor
        /\ \A key : key \in DOMAIN other.by_kind[kind][id].providers <=>
                      \E y \in Sharing(id, E) : key \in Offered(y)
        /\ \A y \in Sharing(id, E) : \A key \in Offered(y) :
             other.by_kind[kind][id].providers[key] = y
    BY <2>1 DEF Tabulates
  <2> QED
    BY <1>1, <2>2, <2>3 DEF Provides, Provider
<1> DEFINE Entry(registry, kind, id) ==
             [extension_id |-> id, kind |-> kind,
              descriptor |-> registry.by_kind[kind][id].descriptor,
              available |-> {key \in CapabilitySpecs[kind] :
                               Provides(registry, kind, id, key)}]
<1>3. \A kind \in Kinds : \A id \in DOMAIN one.by_kind[kind] :
        Entry(one, kind, id) = Entry(other, kind, id)
  BY <1>2
<1>4. /\ Inventory(one) =
           UNION {{Entry(one, kind, id) : id \in DOMAIN one.by_kind[kind]} :
                    kind \in Kinds}
      /\ Inventory(other) =
           UNION {{Entry(other, kind, id) : id \in DOMAIN other.by_kind[kind]} :
                    kind \in Kinds}
  BY DEF Inventory
<1>5. ASSUME NEW entry \in Inventory(one)
      PROVE  \E kind \in Kinds : \E id \in DOMAIN one.by_kind[kind] :
               entry = Entry(one, kind, id)
  BY <1>4
<1>6. Inventory(one) = Inventory(other)
  <2> HIDE DEF Entry
  <2> QED
    BY <1>1, <1>3, <1>4
<1>7. ASSUME NEW entry \in Inventory(one), NEW key \in entry.available
      PROVE  Provider(one, entry.kind, entry.extension_id, key) =
               Provider(other, entry.kind, entry.extension_id, key)
  <2>1. PICK kind \in Kinds : \E id \in DOMAIN one.by_kind[kind] :
          entry = Entry(one, kind, id)
    BY <1>5, <1>7
  <2>2. PICK id \in DOMAIN one.by_kind[kind] : entry = Entry(one, kind, id)
    BY <2>1
  <2>3. /\ entry.kind = kind /\ entry.extension_id = id
        /\ entry.available =
             {k \in CapabilitySpecs[kind] : Provides(one, kind, id, k)}
    BY <2>2
  <2>4. Provides(one, kind, id, key)
    BY <1>7, <2>3
  <2> QED
    BY <1>2, <2>3, <2>4
<1> QED
  BY <1>6, <1>7

-----------------------------------------------------------------------------
(* Catalogs and runtimes.                                                  *)

\* The resources of the core are listed, each once.
LEMMA CoreIsListed ==
  SetToSeq(CoreResources) \in Seq(CoreResources)
  /\ IsInjectiveSeq(SetToSeq(CoreResources))
<1> DEFINE n == Cardinality(CoreResources)
           p == SetToSeq(CoreResources)
<1>2. n \in Nat /\ ExistsBijection(1 .. n, CoreResources)
  BY NamesAssumption, FS_CardinalityType
<1>3. PICK f \in [1 .. n -> CoreResources] :
        \A i, j \in 1 .. n : f[i] = f[j] => i = j
  BY <1>2 DEF ExistsBijection, Bijection, Injection, Surjection, IsInjective
<1>4. IsInjective(f)
  BY <1>3 DEF IsInjective
<1>5. p \in [1 .. n -> CoreResources] /\ IsInjective(p)
  BY <1>4 DEF SetToSeq
<1> HIDE DEF p
<1>6. p \in Seq(CoreResources)
  BY <1>2, <1>5
<1>7. IsInjectiveSeq(p)
  BY <1>5 DEF IsInjective, IsInjectiveSeq
<1> QED
  BY <1>6, <1>7 DEF p

\* The profiles of a catalog, by their IDs.
ListedIds(profiles) == {profiles[i].id : i \in DOMAIN profiles}
Listing(profiles) == [id \in ListedIds(profiles) |-> OverridesOf(profiles, id)]

\* Catalog() in terms of what is listed.
LEMMA CatalogIs ==
  ASSUME NEW e, NEW s
  PROVE  /\ Catalog(e, s).refused = ~Listable(Resources(e, s), Profiles(e, s))
         /\ Catalog(e, s).resources = ToSet(Resources(e, s))
         /\ Catalog(e, s).profiles = Listing(Profiles(e, s))
<1> DEFINE refused == ~Listable(Resources(e, s), Profiles(e, s))
           resources == ToSet(Resources(e, s))
           profiles == Listing(Profiles(e, s))
<1>1. Catalog(e, s) =
        [refused |-> refused, resources |-> resources, profiles |-> profiles]
  BY DEF Catalog, Listing, ListedIds
<1> HIDE DEF refused, resources, profiles
<1>2. /\ Catalog(e, s).refused = refused
      /\ Catalog(e, s).resources = resources
      /\ Catalog(e, s).profiles = profiles
  BY <1>1
<1> QED
  BY <1>2 DEF refused, resources, profiles

\* Resources and profiles in two orders of the names.
LEMMA ContributionsEmbed ==
  ASSUME NEW e, NEW N, \A n \in N : OfItsType(e, n) /\ Contribution(e, n) # Raises,
         SetToSeq(CoreResources) \in Seq(CoreResources),
         NEW s, NEW t, Orders(s, N), Orders(t, N)
  PROVE  /\ Embeds(Resources(e, s), Resources(e, t))
         /\ Embeds(Profiles(e, s), Profiles(e, t))
<1> DEFINE G == [n \in N |-> ResourceIds(e, n)]
           H == [n \in N |-> Contribution(e, n).profiles]
           core == SetToSeq(CoreResources)
<1>1. \A k \in DOMAIN s : s[k] \in N
  BY DEF Orders
<1>2. \A k \in DOMAIN t : t[k] \in N
  BY DEF Orders
<1>3. \A n \in N : G[n] \in Seq(ToSet(G[n]))
  <2> SUFFICES ASSUME NEW n \in N
               PROVE  ResourceIds(e, n) \in Seq(ToSet(ResourceIds(e, n)))
    OBVIOUS
  <2> DEFINE contributed == Contribution(e, n).resources
             ids == ResourceIds(e, n)
  <2>1. contributed \in Seq(ToSet(contributed))
    BY DEF OfItsType
  <2>2. ids = [i \in DOMAIN contributed |-> contributed[i].id]
    BY DEF ResourceIds
  <2> HIDE DEF contributed, ids
  <2>3. Len(contributed) \in Nat /\ DOMAIN contributed = 1 .. Len(contributed)
    BY <2>1
  <2>4. ids \in [1 .. Len(contributed) -> ToSet(ids)]
    BY <2>2, <2>3 DEF ToSet
  <2> QED
    BY <2>3, <2>4, FunctionIsSequence DEF ids
<1>4. \A n \in N : H[n] \in Seq(ToSet(H[n]))
  BY DEF OfItsType
<1>5. Embeds(Profiles(e, s), Profiles(e, t))
  <2>1. /\ Profiles(e, s) = FlattenSeq([k \in DOMAIN s |-> H[s[k]]])
        /\ Profiles(e, t) = FlattenSeq([k \in DOMAIN t |-> H[t[k]]])
    BY <1>1, <1>2 DEF Profiles
  <2> HIDE DEF H
  <2> QED
    BY <1>4, <2>1, OrdersEmbed
<1> DEFINE one == FlattenSeq([k \in DOMAIN s |-> G[s[k]]])
           other == FlattenSeq([k \in DOMAIN t |-> G[t[k]]])
           X == UNION {ToSet(G[n]) : n \in N}
<1>6. /\ Resources(e, s) = core \o one
      /\ Resources(e, t) = core \o other
  BY <1>1, <1>2 DEF Resources
<1> HIDE DEF G
<1>7. one \in Seq(X) /\ other \in Seq(X) /\ Embeds(one, other)
  BY <1>3, OrdersEmbed
<1> HIDE DEF one, other, X, core
<1>8. Embeds(core \o one, core \o other)
  <2> DEFINE Y == CoreResources \cup X
  <2>1. \A u : u \in Seq(X) => u \in Seq(Y)
    <3> SUFFICES ASSUME NEW u \in Seq(X) PROVE u \in Seq(Y)
      OBVIOUS
    <3>1. \A i \in 1 .. Len(u) : u[i] \in Y
      OBVIOUS
    <3> QED
      BY <3>1, ElementsElsewhere
  <2>2. core \in Seq(Y)
    <3>1. core \in Seq(CoreResources)
      BY DEF core
    <3>2. \A i \in 1 .. Len(core) : core[i] \in Y
      BY <3>1
    <3> QED
      BY <3>1, <3>2, ElementsElsewhere
  <2> HIDE DEF Y
  <2> QED
    BY <1>7, <2>1, <2>2, EmbeddedBehind
<1> QED
  BY <1>5, <1>6, <1>8

\* What one catalog refuses the other does.
LEMMA CatalogsAgree ==
  ASSUME NEW e, NEW s, NEW t,
         Embeds(Resources(e, s), Resources(e, t)),
         Embeds(Resources(e, t), Resources(e, s)),
         Embeds(Profiles(e, s), Profiles(e, t)),
         Embeds(Profiles(e, t), Profiles(e, s)),
         ~Catalog(e, t).refused
  PROVE  /\ ~Catalog(e, s).refused
         /\ Catalog(e, s).resources = Catalog(e, t).resources
         /\ Catalog(e, s).profiles = Catalog(e, t).profiles
<1> DEFINE a == Resources(e, s)
           b == Resources(e, t)
           p == Profiles(e, s)
           q == Profiles(e, t)
<1>1. /\ Catalog(e, s).refused = ~Listable(a, p)
      /\ Catalog(e, s).resources = ToSet(a)
      /\ Catalog(e, s).profiles = Listing(p)
  BY CatalogIs
<1>2. /\ Listable(b, q)
      /\ Catalog(e, t).resources = ToSet(b)
      /\ Catalog(e, t).profiles = Listing(q)
  BY CatalogIs
<1>3. Embeds(a, b) /\ Embeds(b, a) /\ Embeds(p, q) /\ Embeds(q, p)
  OBVIOUS
<1> HIDE DEF a, b, p, q
<1>4. IsInjectiveSeq(a) /\ ToSet(a) = ToSet(b)
  <2>1. IsInjectiveSeq(b)
    BY <1>2 DEF Listable
  <2>2. IsInjectiveSeq(a)
    BY <1>3, <2>1, EmbeddedOnce
  <2>3. ToSet(a) \subseteq ToSet(b) /\ ToSet(b) \subseteq ToSet(a)
    BY <1>3, EmbeddedElements
  <2> QED
    BY <2>2, <2>3
<1>5. PICK f \in [DOMAIN p -> DOMAIN q] :
        /\ \A i, j \in DOMAIN p : f[i] = f[j] => i = j
        /\ \A i \in DOMAIN p : p[i] = q[f[i]]
  BY <1>3 DEF Embeds
<1>6. PICK g \in [DOMAIN q -> DOMAIN p] :
        /\ \A i, j \in DOMAIN q : g[i] = g[j] => i = j
        /\ \A i \in DOMAIN q : q[i] = p[g[i]]
  BY <1>3 DEF Embeds
<1>7. \A i, j \in DOMAIN q : q[i].id = q[j].id => i = j
  BY <1>2 DEF Listable, IsInjectiveSeq
<1>8. \A i, j \in DOMAIN p : p[i].id = p[j].id => i = j
  BY <1>5, <1>7
<1>9. Listable(a, p)
  <2>1. IsInjectiveSeq([i \in DOMAIN p |-> p[i].id])
    BY <1>8 DEF IsInjectiveSeq
  <2>2. \A i \in DOMAIN p : DOMAIN p[i].overrides \subseteq ToSet(a)
    BY <1>2, <1>4, <1>5 DEF Listable
  <2> QED
    BY <1>4, <2>1, <2>2 DEF Listable
<1>10. ListedIds(p) = ListedIds(q)
  BY <1>5, <1>6 DEF ListedIds
<1>11. ASSUME NEW id \in ListedIds(p)
       PROVE  OverridesOf(p, id) = OverridesOf(q, id)
  <2> DEFINE k == CHOOSE i \in DOMAIN p : p[i].id = id
             l == CHOOSE i \in DOMAIN q : q[i].id = id
  <2>1. k \in DOMAIN p /\ p[k].id = id
    BY <1>11 DEF ListedIds
  <2>2. l \in DOMAIN q /\ q[l].id = id
    BY <1>10, <1>11 DEF ListedIds
  <2> HIDE DEF k, l
  <2>3. f[k] \in DOMAIN q /\ p[k] = q[f[k]]
    BY <1>5, <2>1
  <2>4. f[k] = l
    BY <1>7, <2>1, <2>2, <2>3
  <2>5. p[k].overrides = q[l].overrides
    BY <2>3, <2>4
  <2> QED
    BY <2>5 DEF OverridesOf, k, l
<1>12. Listing(p) = Listing(q)
  BY <1>10, <1>11 DEF Listing
<1> QED
  BY <1>1, <1>2, <1>4, <1>9, <1>12

\* In two orders of the names they embed in each other.
LEMMA ExtensionsEmbed ==
  ASSUME NEW e, NEW N, \A n \in N : OfItsType(e, n) /\ Loads(e, n),
         NEW s, NEW t, Orders(s, N), Orders(t, N)
  PROVE  \E X : /\ ExtensionsOf(e, s) \in Seq(X) /\ ExtensionsOf(e, t) \in Seq(X)
                /\ Embeds(ExtensionsOf(e, s), ExtensionsOf(e, t))
                /\ \A x \in X : x.identified => x.kind \in Kinds
<1> DEFINE G == [n \in N |-> Extensions(e, n)]
           X == UNION {ToSet(G[n]) : n \in N}
<1>1. \A n \in N : /\ G[n] \in Seq(ToSet(G[n]))
                   /\ \A x \in ToSet(G[n]) : x.identified => x.kind \in Kinds
  BY DEF OfItsType, Loads
<1>2. (\A k \in DOMAIN s : s[k] \in N) /\ \A k \in DOMAIN t : t[k] \in N
  BY DEF Orders
<1>3. /\ ExtensionsOf(e, s) = FlattenSeq([k \in DOMAIN s |-> G[s[k]]])
      /\ ExtensionsOf(e, t) = FlattenSeq([k \in DOMAIN t |-> G[t[k]]])
  BY <1>2 DEF ExtensionsOf
<1> HIDE DEF G
<1>4. \A x \in X : x.identified => x.kind \in Kinds
  BY <1>1
<1>5. /\ ExtensionsOf(e, s) \in Seq(X) /\ ExtensionsOf(e, t) \in Seq(X)
      /\ Embeds(ExtensionsOf(e, s), ExtensionsOf(e, t))
  BY <1>1, <1>3, OrdersEmbed
<1> QED
  BY <1>4, <1>5

\* And so runtimes of the same plugins are the same, in whatever order they are
\* selected.
LEMMA RuntimesAgree ==
  ASSUME NEW e, NEW N, \A n \in N : n \in Installed(e) => OfItsType(e, n),
         SetToSeq(CoreResources) \in Seq(CoreResources),
         NEW s, NEW t, Orders(s, N), Orders(t, N)
  PROVE  SameRuntime(RuntimeFor(e, s), RuntimeFor(e, t))
<1>1. (\E i \in DOMAIN s : ~Loads(e, s[i])) <=> \E n \in N : ~Loads(e, n)
  BY DEF Orders
<1>2. (\E i \in DOMAIN t : ~Loads(e, t[i])) <=> \E n \in N : ~Loads(e, n)
  BY DEF Orders
<1>3. SameRuntime(Refused, Refused)
  BY Zenon DEF SameRuntime
<1>4. CASE \E n \in N : ~Loads(e, n)
  <2>1. RuntimeFor(e, s) = Refused /\ RuntimeFor(e, t) = Refused
    BY <1>1, <1>2, <1>4, Zenon DEF RuntimeFor
  <2> QED
    BY <1>3, <2>1, Zenon
<1>5. CASE \A n \in N : Loads(e, n)
  <2> DEFINE one == Compose(ExtensionsOf(e, s))
             other == Compose(ExtensionsOf(e, t))
             c == Catalog(e, s)
             d == Catalog(e, t)
             Whole(registry, catalog) ==
               [refused |-> FALSE, registry |-> registry,
                catalog |-> [resources |-> catalog.resources,
                             profiles |-> catalog.profiles]]
  <2>1. /\ RuntimeFor(e, s) = IF one.refused \/ c.refused THEN Refused
                              ELSE Whole(one, c)
        /\ RuntimeFor(e, t) = IF other.refused \/ d.refused THEN Refused
                              ELSE Whole(other, d)
    BY <1>1, <1>2, <1>5, Zenon DEF RuntimeFor
  <2>2. \A n \in N : /\ OfItsType(e, n) /\ Loads(e, n)
                     /\ Contribution(e, n) # Raises
    BY <1>5 DEF Loads
  <2>3. /\ one.refused = other.refused
        /\ ~one.refused =>
             \E E : /\ \A x \in E : x.kind \in Kinds
                    /\ Tabulates(one.by_kind, E)
                    /\ Tabulates(other.by_kind, E)
    <3>1. PICK X : /\ ExtensionsOf(e, s) \in Seq(X) /\ ExtensionsOf(e, t) \in Seq(X)
                   /\ Embeds(ExtensionsOf(e, s), ExtensionsOf(e, t))
                   /\ \A x \in X : x.identified => x.kind \in Kinds
      BY <2>2, ExtensionsEmbed
    <3>2. Embeds(ExtensionsOf(e, t), ExtensionsOf(e, s))
      BY <2>2, ExtensionsEmbed
    <3> QED
      BY <3>1, <3>2, RegistriesAgree
  <2>4. /\ Embeds(Resources(e, s), Resources(e, t))
        /\ Embeds(Resources(e, t), Resources(e, s))
        /\ Embeds(Profiles(e, s), Profiles(e, t))
        /\ Embeds(Profiles(e, t), Profiles(e, s))
    BY <2>2, ContributionsEmbed
  <2>5. /\ ~d.refused => /\ ~c.refused
                         /\ c.resources = d.resources /\ c.profiles = d.profiles
        /\ ~c.refused => ~d.refused
    BY <2>4, CatalogsAgree
  <2> HIDE DEF one, other, c, d
  <2>6. CASE one.refused \/ c.refused
    <3>1. RuntimeFor(e, s) = Refused /\ RuntimeFor(e, t) = Refused
      BY <2>1, <2>3, <2>5, <2>6, Zenon
    <3> QED
      BY <1>3, <3>1, Zenon
  <2>7. CASE ~(one.refused \/ c.refused)
    <3>1. RuntimeFor(e, s) = Whole(one, c) /\ RuntimeFor(e, t) = Whole(other, d)
      BY <2>1, <2>3, <2>5, <2>7, Zenon
    <3>2. /\ Whole(one, c).refused = Whole(other, d).refused
          /\ Whole(one, c).catalog = Whole(other, d).catalog
          /\ Whole(one, c).registry = one /\ Whole(other, d).registry = other
      BY <2>5, <2>7
    <3>3. PICK E : /\ \A x \in E : x.kind \in Kinds
                   /\ Tabulates(one.by_kind, E) /\ Tabulates(other.by_kind, E)
      BY <2>3, <2>7
    <3>4. /\ Inventory(one) = Inventory(other)
          /\ \A entry \in Inventory(one) : \A key \in entry.available :
               Provider(one, entry.kind, entry.extension_id, key) =
                 Provider(other, entry.kind, entry.extension_id, key)
      BY <3>3, TabulatedAlike
    <3> HIDE DEF Whole
    <3>5. SameRuntime(Whole(one, c), Whole(other, d))
      BY <3>2, <3>4, Zenon DEF SameRuntime
    <3> QED
      BY <3>1, <3>5, Zenon
  <2> QED
    BY <2>6, <2>7
<1> QED
  BY <1>4, <1>5

\* The elements of a sequence that lists a set.
LEMMA PermutationsList ==
  ASSUME NEW S, IsFiniteSet(S), NEW s \in SetToAllKPermutations(S)
  PROVE  s \in Seq(S)
<1>1. PICK T \in SUBSET S : s \in [1 .. Cardinality(T) -> T]
  BY DEF SetToAllKPermutations, SetToSeqs
<1>2. Cardinality(T) \in Nat
  BY FS_Subset, FS_CardinalityType
<1>3. s \in [1 .. Cardinality(T) -> S]
  BY <1>1
<1> QED
  BY <1>2, <1>3, FunctionIsSequence

\* Which of the selected plugins are enabled and which are named, and in which
\* order, makes no difference to the runtime: Runtime() of plugins.py.
THEOREM SelectionDecides == SpecHost => []SelectionDecidesRuntime
<1>1. ASSUME environment \in Environments, NEW chosen \in SUBSET Names,
             NEW enabledOnes \in SUBSET chosen,
             NEW order \in SetToAllKPermutations(chosen \ enabledOnes),
             ToSet(order) = chosen \ enabledOnes
      PROVE  SameRuntime(Runtime(environment, enabledOnes, order),
                         Runtime(environment, chosen, <<>>))
  <2>1. /\ chosen \in SUBSET Nat /\ IsFiniteSet(chosen)
        /\ enabledOnes \in SUBSET Nat /\ IsFiniteSet(enabledOnes)
        /\ IsFiniteSet(chosen \ enabledOnes)
    BY NamesAssumption, FS_Subset
  <2>2. order \in Seq(chosen \ enabledOnes)
    BY <2>1, PermutationsList
  <2>3. Orders(Selected(enabledOnes, order), chosen)
    <3>1. enabledOnes \cup ToSet(order) = chosen
      BY <1>1
    <3>2. Orders(Selected(enabledOnes, order), enabledOnes \cup ToSet(order))
      BY <2>1, <2>2, SelectedOrders
    <3> QED
      BY <3>1, <3>2
  <2>4. Orders(Selected(chosen, <<>>), chosen)
    <3>1. chosen \cup ToSet(<<>>) = chosen
      BY EmptyIsSequence
    <3>2. Orders(Selected(chosen, <<>>), chosen \cup ToSet(<<>>))
      BY <2>1, EmptyIsSequence, SelectedOrders
    <3> QED
      BY <3>1, <3>2
  <2>5. \A n \in chosen : n \in Installed(environment) => OfItsType(environment, n)
    BY <1>1, EnvironmentsAssumption
  <2>6. SameRuntime(RuntimeFor(environment, Selected(enabledOnes, order)),
                    RuntimeFor(environment, Selected(chosen, <<>>)))
    BY <2>3, <2>4, <2>5, CoreIsListed, RuntimesAgree
  <2> QED
    BY <2>6, Zenon DEF Runtime
<1>2. PluginInv => SelectionDecidesRuntime
  <2> SUFFICES ASSUME environment \in Environments
               PROVE  SelectionDecidesRuntime
    BY DEF PluginInv, PluginType
  <2> QED
    BY <1>1, Zenon DEF SelectionDecidesRuntime
<1> QED
  BY <1>2, InitPlugins, HostKeepsPlugins, PTL DEF SpecHost

-----------------------------------------------------------------------------
(* What can always be reached.                                             *)

\* Without extensions there is a registry.
LEMMA NothingComposes == Compose(<<>>).refused = FALSE
BY ComposeIsLast DEF Fresh

\* Without plugins there is a runtime.
LEMMA NothingRuns == ASSUME NEW e PROVE ~Runtime(e, {}, <<>>).refused
<1>1. Selected({}, <<>>) = <<>>
  <2>1. {} \in SUBSET Nat /\ IsFiniteSet({}) /\ <<>> \in Seq({})
        /\ {} \cup ToSet(<<>>) = {}
    BY FS_EmptySet, EmptyIsSequence
  <2>2. Selected({}, <<>>) \in Seq({})
    BY <2>1, SelectedOrders DEF Orders
  <2> QED
    BY <2>2
<1>2. SetToSeq(CoreResources) \in Seq(CoreResources)
      /\ IsInjectiveSeq(SetToSeq(CoreResources))
  BY CoreIsListed
<1>3. ExtensionsOf(e, <<>>) = <<>> /\ Profiles(e, <<>>) = <<>>
  BY DEF ExtensionsOf, Profiles, FlattenSeq
<1>4. Resources(e, <<>>) = SetToSeq(CoreResources)
  <2>1. Resources(e, <<>>) = SetToSeq(CoreResources) \o <<>>
    BY DEF Resources, FlattenSeq
  <2> QED
    BY <1>2, <2>1
<1>5. Listable(Resources(e, <<>>), Profiles(e, <<>>))
  BY <1>2, <1>3, <1>4 DEF Listable, IsInjectiveSeq
<1>6. ~Catalog(e, <<>>).refused
  BY <1>5, CatalogIs
<1>7. ~Compose(ExtensionsOf(e, <<>>)).refused
  BY <1>3, NothingComposes
<1>8. ~RuntimeFor(e, <<>>).refused
  BY <1>6, <1>7 DEF RuntimeFor
<1> QED
  BY <1>1, <1>8 DEF Runtime

\* Whatever enabled plugins do when they are loaded, each can be disabled; and
\* when none is enabled, the limit profiles can be managed.
THEOREM AlwaysCanDisable == SpecHost => []AlwaysDisables
<1>1. AlwaysDisables
  <2> SUFFICES ASSUME Idle, Discoverable(environment),
                      NEW invocation \in Invocations
               PROVE  /\ invocation.command = "disable" => Reaches(invocation)
                      /\ enabledFile = {} /\ invocation.plugin = <<>> /\
                         invocation.command \in LimitCommands =>
                           Reaches(invocation)
    BY DEF AlwaysDisables
  <2>1. ASSUME invocation.command = "disable"
        PROVE  Reaches(invocation)
    BY <2>1 DEF Reaches, Parses, RequiresPluginCommands, NeedsRuntime,
         PluginCommands
  <2>2. ASSUME enabledFile = {}, invocation.plugin = <<>>,
               invocation.command \in LimitCommands
        PROVE  Reaches(invocation)
    BY <2>2, NothingRuns DEF Reaches, Parses, RequiresPluginCommands, RuntimeOf
  <2> QED
    BY <2>1, <2>2
<1> QED
  BY <1>1, PTL
=============================================================================
