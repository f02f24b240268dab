---------------------------- MODULE LimitProfiles ----------------------------
(***************************************************************************)
(* Resource limit profiles, src/obst/resources/profiles.py: the operations *)
(* of LimitProfileManager over limits.json, which holds the active profile *)
(* and the overrides of every custom profile.  Each operation is given the *)
(* catalog of the runtime: the profiles and resources that the plugins     *)
(* enabled at that time contribute.  It may differ from call to call.      *)
(***************************************************************************)
CONSTANTS
  Managers, Exclusive,  \* see StateFile
  Ids,        \* profile identifiers besides "default"
  Maxima,     \* ceilings: values of an override, with None among them
  Catalogs    \* the catalogs that operations meet:
              \* [profiles : identifier -> overrides, resources : set]

ASSUME IdsAssumption == "default" \notin Ids
ASSUME CatalogsAssumption ==
  \A c \in Catalogs : DOMAIN c.profiles \subseteq Ids

VARIABLES
  disk, memory, pending, stage,  \* see StateFile
  request   \* per manager: the change it is making

NoProfiles == [id \in {} |-> "none"]
NoOverrides == NoProfiles

\* Without limits.json the immutable default profile is active.
EmptyDocument == [active |-> "default", custom |-> NoProfiles]

File == INSTANCE StateFile

vars == <<disk, memory, pending, stage, request>>

NoRequest == [kind |-> "none", id |-> "default"]

Init ==
  /\ File!Init
  /\ request = [m \in Managers |-> NoRequest]

-----------------------------------------------------------------------------
(* Reading a document through a catalog.                                   *)

CustomIds(d) == DOMAIN d.custom
ContributedIds(c) == DOMAIN c.profiles

AllContributed == UNION {ContributedIds(c) : c \in Catalogs}
AllResources == UNION {c.resources : c \in Catalogs}

\* profiles() refuses every document with a custom profile of a contributed name.
Collides(d, c) == CustomIds(d) \cap ContributedIds(c) # {}

\* What a profile sets, and the defaults elsewhere.
Maximum(overrides, r) ==
  IF r \in DOMAIN overrides THEN overrides[r] ELSE "default"

Resolved(overrides, c) == [r \in c.resources |-> Maximum(overrides, r)]

\* profiles(): every profile with where it comes from; a selected profile that
\* nothing provides now is retained.
Statuses(d, c) ==
  {[id |-> "default", source |-> "default"]}
  \cup {[id |-> id, source |-> "plugin"] : id \in ContributedIds(c)}
  \cup {[id |-> id, source |-> "custom"] : id \in CustomIds(d)}
  \cup {[id |-> id, source |-> "unavailable"] :
          id \in {d.active} \ ({"default"} \cup ContributedIds(c) \cup CustomIds(d))}

Available(d, c) == {s.id : s \in {t \in Statuses(d, c) : t.source # "unavailable"}}

\* A seeded fault: of a custom profile only what it sets is listed.
ViewOfOverrides(d, c, id) ==
  CASE id \in CustomIds(d) -> d.custom[id]
    [] id \notin CustomIds(d) /\ id \in ContributedIds(c) ->
         Resolved(c.profiles[id], c)
    [] id = "default" -> Resolved(NoOverrides, c)
    [] OTHER -> NoOverrides

\* What show() lists for a visible profile: the ceilings of the resources of the
\* runtime, and those of a custom profile on resources it does not have now.
View(d, c, id) ==
  CASE id \in CustomIds(d) ->
         [r \in c.resources \cup DOMAIN d.custom[id] |-> Maximum(d.custom[id], r)]
    [] id \notin CustomIds(d) /\ id \in ContributedIds(c) ->
         Resolved(c.profiles[id], c)
    [] id = "default" -> Resolved(NoOverrides, c)
    [] OTHER -> NoOverrides

\* A seeded fault: a profile that is not available stands for the defaults.
PolicyOrDefault(d, c) ==
  [refused |-> FALSE,
   maxima |-> Resolved(IF d.active \in CustomIds(d) THEN d.custom[d.active]
                       ELSE IF d.active \in ContributedIds(c)
                       THEN c.profiles[d.active] ELSE NoOverrides, c)]

\* policy(): the ceilings in force, or a refusal.
Policy(d, c) ==
  CASE d.active \in CustomIds(d) /\ d.active \notin ContributedIds(c) ->
         [refused |-> FALSE, maxima |-> Resolved(d.custom[d.active], c)]
    [] d.active \notin CustomIds(d) /\ d.active \in ContributedIds(c) ->
         [refused |-> FALSE, maxima |-> Resolved(c.profiles[d.active], c)]
    [] d.active = "default" ->
         [refused |-> FALSE, maxima |-> Resolved(NoOverrides, c)]
    [] OTHER -> [refused |-> TRUE, maxima |-> NoOverrides]

-----------------------------------------------------------------------------
(* Operations.                                                             *)

Discover(m) == File!Discover(m) /\ UNCHANGED request

\* A dictionary with one more entry, or another value of one.
Put(f, key, value) ==
  [k \in DOMAIN f \cup {key} |-> IF k = key THEN value ELSE f[k]]

\* Write the document and remember what for.
Change(m, kind, id, document) ==
  /\ File!Begin(m, document)
  /\ request' = [request EXCEPT ![m] = [kind |-> kind, id |-> id]]

MayCreate(m, id, c) ==
  /\ id # "default"
  /\ id \notin CustomIds(memory[m]) \cup ContributedIds(c)

\* A seeded fault: the new profile becomes the selected one.
CreateAndSelect(m, id, c) ==
  /\ MayCreate(m, id, c)
  /\ Change(m, "create", id,
            [memory[m] EXCEPT !.custom = Put(@, id, NoOverrides), !.active = id])

Create(m, id, c) ==
  /\ MayCreate(m, id, c)
  /\ Change(m, "create", id,
            [memory[m] EXCEPT !.custom = Put(@, id, NoOverrides)])

\* An override of an unknown resource can be changed, not added.
Set(m, id, r, maximum, c) ==
  /\ id \in CustomIds(memory[m])
  /\ r \in c.resources \cup DOMAIN memory[m].custom[id]
  /\ Change(m, "set", id,
            [memory[m] EXCEPT !.custom[id] = Put(@, r, maximum)])

MayUse(d, id, c) ==
  /\ ~Collides(d, c)
  /\ id \in Available(d, c)

Use(m, id, c) ==
  /\ MayUse(memory[m], id, c)
  /\ Change(m, "use", id, [memory[m] EXCEPT !.active = id])

\* A seeded fault: the active profile may be deleted.
MayDeleteAny(d, id) == id \in CustomIds(d)

MayDelete(d, id) == id \in CustomIds(d) /\ id # d.active

Delete(m, id) ==
  /\ MayDelete(memory[m], id)
  /\ Change(m, "delete", id,
            [memory[m] EXCEPT !.custom =
               [i \in CustomIds(memory[m]) \ {id} |-> memory[m].custom[i]]])

Settle(m) == request' = [request EXCEPT ![m] = NoRequest]

WriteFails(m) == File!BeginFails(m) /\ Settle(m)

Replace(m) == File!Replace(m) /\ UNCHANGED request

\* _profiles or _active_profile_id is assigned.  The call then describes the
\* result, and raises if another custom profile collides: nothing changes.
Return(m) == File!TakeOver(m) /\ Settle(m)

Leave(m) == File!Leave(m) /\ Settle(m)

Next ==
  \E m \in Managers :
    \/ Discover(m) \/ WriteFails(m) \/ Replace(m) \/ Return(m) \/ Leave(m)
    \/ \E id \in Ids : Delete(m, id)
    \/ \E c \in Catalogs :
         \/ \E id \in Ids : Create(m, id, c)
         \/ \E id \in Ids \cup {"default"} : Use(m, id, c)
         \/ \E id \in Ids, r \in AllResources, maximum \in Maxima :
              Set(m, id, r, maximum, c)

Spec == Init /\ [][Next]_vars

-----------------------------------------------------------------------------
(* Properties.                                                             *)

\* What _read_limit_state() accepts; any other file is refused by every command.
IsDocument(d) ==
  /\ d.active \in Ids \cup {"default"}
  /\ CustomIds(d) \subseteq Ids
  /\ \A id \in CustomIds(d) :
       /\ DOMAIN d.custom[id] \subseteq AllResources
       /\ \A r \in DOMAIN d.custom[id] : d.custom[id][r] \in Maxima

\* The selection never dangles: the file names the default, a custom profile it
\* holds, or one that some plugin contributes: every change writes selection and
\* profiles together, and the active profile cannot be deleted.  And whenever a
\* process was killed, the next one can read the file.
SelectionSurvives ==
  /\ IsDocument(disk)
  /\ disk.active \in {"default"} \cup CustomIds(disk) \cup AllContributed

Replaces(m) == stage[m] = "writing" /\ stage'[m] = "persisted"

\* create(), set(), use() and delete() change in the file what they were asked
\* for and nothing else, whatever failed or was acknowledged before.
OnlyTheRequest ==
  [][\A m \in Managers : Replaces(m) =>
       /\ \A id \in Ids :
            id # request[m].id \/ request[m].kind = "use" =>
              /\ id \in CustomIds(disk') <=> id \in CustomIds(disk)
              /\ id \in CustomIds(disk) => disk'.custom[id] = disk.custom[id]
       /\ request[m].kind # "use" => disk'.active = disk.active]_vars

\* `limits show` tells the truth: what it lists for the selected profile is the
\* policy under which operations run, and it lists something whenever they may.
ShowsThePolicy ==
  \A c \in Catalogs :
    LET policy == Policy(disk, c)
        view == View(disk, c, disk.active)
    IN ~policy.refused =>
         \A r \in c.resources : r \in DOMAIN view /\ view[r] = policy.maxima[r]

\* An active custom profile can be given up for the default, whatever plugins
\* are enabled.  (Violated: a contributed profile of its name blocks use().)
ActiveCanBeRetired ==
  \A m \in Managers :
    stage[m] = "ready" /\ memory[m].active \in CustomIds(memory[m]) =>
      \A c \in Catalogs : MayUse(memory[m], "default", c)
=============================================================================
