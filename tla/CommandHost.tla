----------------------------- MODULE CommandHost -----------------------------
(***************************************************************************)
(* The command line host, src/obst/cli/main.py: one invocation after the   *)
(* other over an environment of installed plugins, the persisted set of    *)
(* enabled plugins (PluginState) and the persisted limit profiles          *)
(* (LimitProfiles).  Between invocations plugins come, go and change.  An  *)
(* invocation discovers plugins, loads the commands of the enabled ones    *)
(* when its arguments need them, composes the runtime unless it is a       *)
(* plugins command, and then does its work: a change of one of the state   *)
(* files, with every failure of that, or an operation under the selected   *)
(* ceilings.                                                               *)
(***************************************************************************)
EXTENDS LimitProfiles, PluginRuntime

CONSTANTS
  Names,        \* plugin names
  Environments, \* see PluginRuntime
  Invocations   \* what is typed: [command, name, profile, plugin], with the
                \* values of --plugin in the last

\* What is typed is named within the instance; plugin names are ordered.
ASSUME InvocationsAssumption ==
  \A invocation \in Invocations :
    /\ invocation.profile \in Ids \cup {"default"}
    /\ invocation.name \in Nat
    /\ invocation.plugin \in Seq(ToSet(invocation.plugin))

ASSUME NamesAssumption ==
  Names \subseteq Nat /\ IsFiniteSet(Names) /\ IsFiniteSet(CoreResources)

VARIABLES
  environment,    \* what is installed
  enabledFile, enabled, enabling, enablingStage,  \* PluginState's disk, memory,
                                                  \* pending and stage
  discovered, change, promised,                   \* see PluginState
  last            \* the last invocation: what it is and what it came to

P == INSTANCE PluginState WITH
       disk <- enabledFile, memory <- enabled, pending <- enabling,
       stage <- enablingStage, request <- change

\* What is installed is named within the instance, and what it loads is as the
\* loaders require.
ASSUME EnvironmentsAssumption ==
  \A e \in Environments :
    /\ Installed(e) \subseteq Names
    /\ \A name \in Installed(e) : OfItsType(e, name)

\* Catalogs leaves out none that a runtime of these plugins has.
ASSUME RuntimesAssumption ==
  \A e \in Environments, names \in SUBSET Names, invocation \in Invocations :
    LET runtime == Runtime(e, names, invocation.plugin) IN
    ~runtime.refused => runtime.catalog \in Catalogs

limitVars == <<disk, memory, pending, stage, request>>
pluginVars == <<enabledFile, enabled, enabling, enablingStage, discovered, change,
                promised>>
allVars == <<limitVars, pluginVars, environment, last>>

\* What an invocation came to: whose code ran, the catalog of its runtime and,
\* for one that works on containers, its ceilings.
Outcome(invocation, result, executed, catalog, maxima) ==
  [invocation |-> invocation, result |-> result, executed |-> executed,
   catalog |-> catalog, maxima |-> maxima]

NoInvocation ==
  Outcome([command |-> "none", name |-> 0, profile |-> "default",
           plugin |-> <<>>], "none", {}, NoCatalog,
          NoOverrides)

InitHost ==
  /\ Init
  /\ P!Init
  /\ environment \in Environments
  /\ last = NoInvocation

-----------------------------------------------------------------------------
(* How an invocation gets to its work.                                     *)

Idle == File!Live = {} /\ P!File!Live = {}

PluginCommands == {"enable", "disable", "test"}
LimitCommands == {"create", "set", "use", "delete"}

\* A seeded fault: commands are loaded for every invocation.
RequiresPluginCommandsAlways(invocation) == TRUE

\* requires_plugin_commands(): the host's own commands parse without plugin code.
RequiresPluginCommands(invocation) ==
  invocation.command \notin PluginCommands \cup LimitCommands \cup {"inspect"}

\* The invocation is parsed: nothing up to here has failed.
Parses(invocation) ==
  /\ Discoverable(environment)
  /\ RequiresPluginCommands(invocation) =>
       /\ CommandsAccepted(environment, enabledFile)
       /\ invocation.command \in
            ToSet(AllCommandNames(environment, enabledFile))

\* Plugin code that runs before the command does.
ParsingExecutes(invocation) ==
  IF Discoverable(environment) /\ RequiresPluginCommands(invocation)
    THEN CommandsExecute(environment, enabledFile) ELSE {}

NeedsRuntime(invocation) == invocation.command \notin PluginCommands

RuntimeOf(invocation) == Runtime(environment, enabledFile, invocation.plugin)

\* A seeded fault: the runtime takes every plugin that is installed.
RuntimeExecutesAll(invocation) ==
  IF Parses(invocation)
    THEN Executed(environment, Installed(environment), invocation.plugin) ELSE {}

RuntimeExecutes(invocation) ==
  IF Parses(invocation)
    THEN Executed(environment, enabledFile, invocation.plugin) ELSE {}

Executes(invocation) ==
  ParsingExecutes(invocation) \cup
  CASE NeedsRuntime(invocation) -> RuntimeExecutes(invocation)
    [] invocation.command = "test" /\ Parses(invocation) ->
         TestExecutes(environment, invocation.name, invocation.plugin)
    [] OTHER -> {}

\* The handler of the command is reached.
Reaches(invocation) ==
  /\ Parses(invocation)
  /\ NeedsRuntime(invocation) => ~RuntimeOf(invocation).refused

CatalogOf(invocation) ==
  IF NeedsRuntime(invocation) /\ Parses(invocation)
    THEN RuntimeOf(invocation).catalog ELSE NoCatalog

-----------------------------------------------------------------------------
(* Invocations.                                                            *)

\* Discovery, parsing or the composition of the runtime fails: no handler runs.
Fail(invocation) ==
  /\ Idle
  /\ ~Reaches(invocation)
  /\ last' = Outcome(invocation, "refused", Executes(invocation), NoCatalog,
                     NoOverrides)
  /\ UNCHANGED <<environment, limitVars, pluginVars>>

Begin(invocation) ==
  /\ Idle
  /\ Reaches(invocation)
  /\ last' = Outcome(invocation, "started", Executes(invocation),
                     CatalogOf(invocation), NoOverrides)
  /\ UNCHANGED environment

\* plugins enable and plugins disable
StartPlugins(m, invocation) ==
  /\ invocation.command \in {"enable", "disable"}
  /\ Begin(invocation)
  /\ P!Discover(m, [n \in Installed(environment) |->
                      Activatable(environment, n)])
  /\ UNCHANGED limitVars

\* limits ...
StartLimits(m, invocation) ==
  /\ invocation.command \in LimitCommands
  /\ Begin(invocation)
  /\ Discover(m)
  /\ UNCHANGED pluginVars

\* plugins test
Test(invocation) ==
  /\ invocation.command = "test"
  /\ Idle
  /\ Reaches(invocation)
  /\ last' = Outcome(invocation,
                     IF Tests(environment, invocation.name, invocation.plugin)
                       THEN "worked" ELSE "refused",
                     Executes(invocation), NoCatalog, NoOverrides)
  /\ UNCHANGED <<environment, limitVars, pluginVars>>

\* inspect and the commands of plugins: a new accounting under the policy of the
\* selected profile.
Work(invocation) ==
  /\ NeedsRuntime(invocation)
  /\ invocation.command \notin LimitCommands
  /\ Idle
  /\ Reaches(invocation)
  /\ LET policy == Policy(disk, CatalogOf(invocation)) IN
     last' = Outcome(invocation, IF policy.refused THEN "refused" ELSE "worked",
                     Executes(invocation), CatalogOf(invocation), policy.maxima)
  /\ UNCHANGED <<environment, limitVars, pluginVars>>

\* The handler of the command has accepted the request.
Handled == /\ last.result = "started"
           /\ last' = [last EXCEPT !.result = "handled"]

\* The handler of a plugins command.
HandlePlugins(m) ==
  /\ Handled
  /\ LET name == last.invocation.name IN
     CASE last.invocation.command = "enable" ->
            P!Enable(m, name) \/ P!NothingToDo(m, name, "enabled")
       [] last.invocation.command = "disable" ->
            P!Disable(m, name) \/ P!NothingToDo(m, name, "disabled")
       [] OTHER -> FALSE
  /\ UNCHANGED <<environment, limitVars>>

WritePlugins(m) ==
  /\ P!WriteFails(m) \/ P!Replace(m) \/ P!Return(m)
  /\ UNCHANGED <<environment, limitVars, last>>

\* The handler of a limits command, over the catalog of the runtime.
HandleLimits(m) ==
  /\ Handled
  /\ LET id == last.invocation.profile
         catalog == last.catalog
     IN CASE last.invocation.command = "create" -> Create(m, id, catalog)
          [] last.invocation.command = "use" -> Use(m, id, catalog)
          [] last.invocation.command = "delete" -> Delete(m, id)
          [] last.invocation.command = "set" ->
               \E r \in AllResources, maximum \in Maxima :
                 Set(m, id, r, maximum, catalog)
          [] OTHER -> FALSE
  /\ UNCHANGED <<environment, pluginVars>>

WriteLimits(m) ==
  /\ WriteFails(m) \/ Replace(m) \/ Return(m)
  /\ UNCHANGED <<environment, pluginVars, last>>

\* The process ends, with its result, with a refusal of the handler, or killed.
End(m) ==
  /\ \/ Leave(m) /\ UNCHANGED pluginVars
     \/ P!Leave(m) /\ UNCHANGED limitVars
  /\ UNCHANGED <<environment, last>>

\* Packages are installed, removed or changed.
Reinstall ==
  /\ Idle
  /\ environment' \in Environments
  /\ last' = NoInvocation
  /\ UNCHANGED <<limitVars, pluginVars>>

NextHost ==
  \/ Reinstall
  \/ \E invocation \in Invocations :
       \/ Fail(invocation) \/ Test(invocation) \/ Work(invocation)
       \/ \E m \in Managers : StartPlugins(m, invocation) \/ StartLimits(m, invocation)
  \/ \E m \in Managers :
       \/ HandlePlugins(m) \/ WritePlugins(m) \/ HandleLimits(m) \/ WriteLimits(m)
       \/ End(m)

SpecHost == InitHost /\ [][NextHost]_allVars

-----------------------------------------------------------------------------
(* Properties.                                                             *)

\* What enable and disable acknowledged is what the file says, across failed and
\* killed invocations and whatever happens to the packages in between.
AcknowledgedPersists == P!AcknowledgedPersists

\* Plugin code runs only when its plugin is enabled or named in the invocation,
\* and plugins enable and plugins disable run none at all.
OnlyTrustedCodeRuns ==
  [][last' # last =>
       LET invocation == last'.invocation IN
       /\ last'.executed \subseteq
            enabledFile \cup ToSet(invocation.plugin) \cup
            (IF invocation.command = "test" THEN {invocation.name} ELSE {})
       /\ invocation.command \in {"enable", "disable"} =>
            last'.executed = {}]_allVars

\* Whatever the enabled plugins do when they are loaded, each can be disabled,
\* and the limit profiles managed once they are.
AlwaysDisables ==
  Idle /\ Discoverable(environment) =>
    /\ \A invocation \in Invocations :
         invocation.command = "disable" => Reaches(invocation)
    /\ enabledFile = {} =>
         \A invocation \in Invocations :
           invocation.command \in LimitCommands /\ invocation.plugin = <<>> =>
             Reaches(invocation)

\* Both are refused, or they offer the same capabilities of the same extensions
\* under the same catalog.
SameRuntime(one, other) ==
  LET inventory == Inventory(one.registry) IN
  /\ one.refused = other.refused
  /\ one.catalog = other.catalog
  /\ inventory = Inventory(other.registry)
  /\ \A entry \in inventory : \A key \in entry.available :
       Provider(one.registry, entry.kind, entry.extension_id, key) =
         Provider(other.registry, entry.kind, entry.extension_id, key)

\* It makes no difference which of the selected plugins are enabled and which are
\* named in the invocation, or in which order: the same capabilities are provided
\* by the same extensions under the same catalog, or the selection is refused.
\* (It depends on the environment alone and is evaluated before anything is done
\* in it.)
SelectionDecidesRuntime ==
  last = NoInvocation /\ enabledFile = {} /\ disk = EmptyDocument =>
    \A chosen \in SUBSET Names : \A enabledOnes \in SUBSET chosen :
      \A order \in SetToAllKPermutations(chosen \ enabledOnes) :
        ToSet(order) = chosen \ enabledOnes =>
          SameRuntime(Runtime(environment, enabledOnes, order),
                      Runtime(environment, chosen, <<>>))

\* An operation on containers runs under the selected profile or not at all: what
\* the profile sets on a resource of the runtime is in force, also after plugins
\* that contributed the profile or the resource went away and came back.
WorksUnderSelection ==
  last.result = "worked" /\ NeedsRuntime(last.invocation) =>
    LET overrides == CASE disk.active \in CustomIds(disk) -> disk.custom[disk.active]
                       [] disk.active \in ContributedIds(last.catalog) ->
                            last.catalog.profiles[disk.active]
                       [] OTHER -> NoOverrides
    IN /\ disk.active = "default" \/ disk.active \in
            CustomIds(disk) \cup ContributedIds(last.catalog)
       /\ \A r \in DOMAIN overrides \cap last.catalog.resources :
            last.maxima[r] = overrides[r]
=============================================================================
