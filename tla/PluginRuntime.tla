---------------------------- MODULE PluginRuntime ----------------------------
(***************************************************************************)
(* What installed plugins contribute to the host, src/obst/plugins.py, and *)
(* the catalog of resources and profiles made of it, resources/policy.py.  *)
(*                                                                         *)
(* An environment is what Python packaging knows and what the entry points *)
(* load:                                                                   *)
(*   [entries |-> a set of [group, name, dist],                            *)
(*    code |-> name -> [extensions, commands, resources]]                  *)
(* A loaded value is Raises when loading or calling the factory raises or  *)
(* the result is not of its exact type.  Extensions are a sequence, and so *)
(* are command names; a resource contribution is                           *)
(*   [resources |-> sequence of [id, owner],                               *)
(*    profiles |-> sequence of [id, owner, overrides]]                     *)
(* where owner is what the identifier says before its last slash.  Names   *)
(* are ordered as numbers.                                                 *)
(***************************************************************************)
EXTENDS ExtensionRegistry, Naturals, FiniteSets, Enumeration

CONSTANTS
  CoreResources,  \* identifiers of the resources of obst.core
  HostCommands,   \* names the host keeps for its own commands
  Raises

NoDistribution == "none"
RuntimeGroups == {"extensions", "commands", "resources"}

\* An entry point with a name of the required form.
ValidName(name) == name > 0

-----------------------------------------------------------------------------
(* discover(): metadata only, no plugin code is imported.                  *)

\* _index_entry_points() finds a name once per group, and the groups of a name
\* come from one known distribution.
Discoverable(environment) ==
  /\ \A e \in environment.entries : ValidName(e.name)
  /\ \A e, f \in environment.entries :
       e # f /\ e.name = f.name =>
         /\ e.group # f.group
         /\ e.dist = f.dist
         /\ e.dist # NoDistribution

Installed(environment) == {e.name : e \in environment.entries}

Publishes(environment, name, group) ==
  \E e \in environment.entries : e.name = name /\ e.group = group

\* What enable() asks for: a contribution besides conformance cases.
Activatable(environment, name) ==
  \E group \in RuntimeGroups : Publishes(environment, name, group)

\* The loaded value of an entry point, or that of none.
Loaded(environment, name, group, absent) ==
  IF Publishes(environment, name, group)
    THEN environment.code[name][group] ELSE absent

NoContribution == [resources |-> <<>>, profiles |-> <<>>]

Extensions(environment, name) == Loaded(environment, name, "extensions", <<>>)
Contribution(environment, name) ==
  Loaded(environment, name, "resources", NoContribution)

\* What is loaded without raising is of its type: exact tuples, and extensions of
\* a kind that there is, as far as their identity can be read.
OfItsType(environment, name) ==
  LET extensions == Extensions(environment, name)
      contribution == Contribution(environment, name)
  IN /\ extensions # Raises =>
          /\ extensions \in Seq(ToSet(extensions))
          /\ \A x \in ToSet(extensions) : x.identified => x.kind \in Kinds
     /\ contribution # Raises =>
          /\ contribution.resources \in Seq(ToSet(contribution.resources))
          /\ contribution.profiles \in Seq(ToSet(contribution.profiles))

-----------------------------------------------------------------------------
(* runtime()                                                               *)

\* The enabled plugins in order, then the additional ones that are not yet in.
Selected(enabled, additional) ==
  InOrder(enabled) \o Missing(additional, enabled)

\* Identifiers are qualified by an extension ID of the same plugin.
OwnsItsContribution(environment, name) ==
  LET owned == {Extensions(environment, name)[i].extension_id :
                  i \in DOMAIN Extensions(environment, name)}
      contribution == Contribution(environment, name)
  IN /\ \A i \in DOMAIN contribution.resources :
          contribution.resources[i].owner \in owned
     /\ \A i \in DOMAIN contribution.profiles :
          contribution.profiles[i].owner \in owned

\* A selected plugin is there, its code can be loaded and it is consistent.
Loads(environment, name) ==
  /\ name \in Installed(environment)
  /\ Extensions(environment, name) # Raises
  /\ Contribution(environment, name) # Raises
  /\ OwnsItsContribution(environment, name)

\* The plugins of a sequence whose code runs: up to the first that fails.
ExecutedUpTo(environment, selected, succeeding) ==
  {selected[i] : i \in {i \in DOMAIN selected :
     /\ selected[i] \in Installed(environment)
     /\ \A j \in 1..(i - 1) : selected[j] \in succeeding}}

Executed(environment, enabled, additional) ==
  LET selected == Selected(enabled, additional) IN
  ExecutedUpTo(environment, selected, {n \in ToSet(selected) : Loads(environment, n)})

IsInjectiveSeq(s) == \A i, j \in DOMAIN s : s[i] = s[j] => i = j

\* _compose_resource_catalog(): the resources of the core and of the selected
\* plugins, and the plugins' profiles.
ResourceIds(environment, name) ==
  LET contributed == Contribution(environment, name).resources
  IN  [i \in DOMAIN contributed |-> contributed[i].id]

Resources(environment, selected) ==
  SetToSeq(CoreResources) \o
  FlattenSeq([k \in DOMAIN selected |-> ResourceIds(environment, selected[k])])

Profiles(environment, selected) ==
  FlattenSeq([k \in DOMAIN selected |->
                Contribution(environment, selected[k]).profiles])

\* ResourceCatalog: no resource and no profile twice, and no profile that sets a
\* resource nobody contributes.
Listable(resources, profiles) ==
  /\ IsInjectiveSeq(resources)
  /\ IsInjectiveSeq([i \in DOMAIN profiles |-> profiles[i].id])
  /\ \A i \in DOMAIN profiles :
       DOMAIN profiles[i].overrides \subseteq ToSet(resources)

\* What a profile that is listed sets.
OverridesOf(profiles, id) ==
  profiles[CHOOSE i \in DOMAIN profiles : profiles[i].id = id].overrides

Catalog(environment, selected) ==
  LET resources == Resources(environment, selected)
      profiles == Profiles(environment, selected)
  IN [refused |-> ~Listable(resources, profiles),
      resources |-> ToSet(resources),
      profiles |-> [id \in {profiles[i].id : i \in DOMAIN profiles} |->
                      OverridesOf(profiles, id)]]

NoCatalog == [resources |-> {}, profiles |-> Empty]
Refused ==
  [refused |-> TRUE, registry |-> Compose(<<>>), catalog |-> NoCatalog]

\* The extensions of the selected plugins.
ExtensionsOf(environment, selected) ==
  FlattenSeq([k \in DOMAIN selected |-> Extensions(environment, selected[k])])

\* The registry and the catalog of the selected plugins, all of them or none.
RuntimeFor(environment, selected) ==
  LET registry == Compose(ExtensionsOf(environment, selected))
      catalog == Catalog(environment, selected)
  IN
  IF \/ \E i \in DOMAIN selected : ~Loads(environment, selected[i])
     \/ registry.refused \/ catalog.refused
  THEN Refused
  ELSE [refused |-> FALSE, registry |-> registry,
        catalog |-> [resources |-> catalog.resources,
                     profiles |-> catalog.profiles]]

Runtime(environment, enabled, additional) ==
  RuntimeFor(environment, Selected(enabled, additional))

-----------------------------------------------------------------------------
(* commands() and the parser that is built from them.                      *)

CommandNames(environment, name) == Loaded(environment, name, "commands", <<>>)

LoadsCommands(environment, name) ==
  /\ name \in Installed(environment)
  /\ CommandNames(environment, name) # Raises

AllCommandNames(environment, enabled) ==
  LET selected == Selected(enabled, <<>>) IN
  FlattenSeq([k \in DOMAIN selected |-> CommandNames(environment, selected[k])])

\* Every enabled plugin loads, and no command has two owners.
CommandsLoad(environment, enabled) ==
  /\ \A name \in enabled : LoadsCommands(environment, name)
  /\ IsInjectiveSeq(AllCommandNames(environment, enabled))

\* build_parser_tree(): no command is one of the host.
CommandsAccepted(environment, enabled) ==
  /\ CommandsLoad(environment, enabled)
  /\ ToSet(AllCommandNames(environment, enabled)) \cap HostCommands = {}

\* The plugins whose code commands() runs.
CommandsExecute(environment, enabled) ==
  ExecutedUpTo(environment, Selected(enabled, <<>>),
               {n \in enabled : CommandsLoad(environment, {m \in enabled : m <= n})})

-----------------------------------------------------------------------------
(* test() runs the plugin and its dependencies, enabled or not.            *)

Tests(environment, name, additional) ==
  LET selected == Selected({name}, additional) IN
  /\ Publishes(environment, name, "conformance")
  /\ \A i \in DOMAIN selected :
       /\ selected[i] \in Installed(environment)
       /\ Extensions(environment, selected[i]) # Raises

TestExecutes(environment, name, additional) ==
  IF ~Publishes(environment, name, "conformance") THEN {} ELSE
  LET selected == Selected({name}, additional) IN
  ExecutedUpTo(environment, selected,
               {n \in ToSet(selected) : Extensions(environment, n) # Raises})
=============================================================================
