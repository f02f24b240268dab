----------------------------- MODULE PluginState -----------------------------
(***************************************************************************)
(* Activation of plugins, src/obst/plugins.py: PluginManager.enable() and  *)
(* disable() over the persisted set of enabled plugin names.  Plugins are  *)
(* installed and uninstalled outside; what a manager discovered does not   *)
(* change while it lives.                                                  *)
(***************************************************************************)
CONSTANTS
  Managers, Exclusive,  \* see StateFile
  Names       \* plugin names

VARIABLES
  disk, memory, pending, stage,  \* see StateFile; a document is a set of names
  discovered,  \* per manager: _installed, a function of the installed names that
               \* says which publish more than conformance cases
  request,     \* per manager: the change it is making
  promised     \* history: what the last acknowledged call on a name said, or
               \* "unknown" once a later call on it did not return

File == INSTANCE StateFile WITH EmptyDocument <- {}

NothingInstalled == [n \in {} |-> FALSE]
NoRequest == [to |-> "unknown"]

Init ==
  /\ File!Init
  /\ discovered = [m \in Managers |-> NothingInstalled]
  /\ request = [m \in Managers |-> NoRequest]
  /\ promised = [n \in Names |-> "disabled"]

-----------------------------------------------------------------------------
\* The plugins of the environment are what they are at this moment.
Discover(m, installed) ==
  /\ File!Discover(m)
  /\ discovered' = [discovered EXCEPT ![m] = installed]
  /\ UNCHANGED <<request, promised>>

InstalledFor(m) == DOMAIN discovered[m]

\* A seeded fault: the set that is written starts from what is installed.
EnabledIfInstalled(m, n) == (memory[m] \cap InstalledFor(m)) \cup {n}

\* The document that enable(n) and disable(n) write.
Enabled(m, n) == memory[m] \cup {n}
Disabled(m, n) == memory[m] \ {n}

Accept(m, n, to, document) ==
  /\ File!Begin(m, document)
  /\ request' = [request EXCEPT ![m] = [name |-> n, to |-> to]]
  /\ promised' = [promised EXCEPT ![n] = "unknown"]
  /\ UNCHANGED discovered

Enable(m, n) ==
  /\ n \in InstalledFor(m)
  /\ discovered[m][n]
  /\ n \notin memory[m]
  /\ Accept(m, n, "enabled", Enabled(m, n))

Disable(m, n) ==
  /\ n \in memory[m]
  /\ Accept(m, n, "disabled", Disabled(m, n))

\* The plugin is in the requested state as far as this manager knows.
NothingToDo(m, n, to) ==
  /\ stage[m] = "ready"
  /\ \/ to = "enabled" /\ n \in InstalledFor(m) /\ discovered[m][n] /\ n \in memory[m]
     \/ to = "disabled" /\ n \in InstalledFor(m) /\ n \notin memory[m]
  /\ promised' = [promised EXCEPT ![n] = to]
  /\ UNCHANGED <<disk, memory, pending, stage, discovered, request>>

Settle(m) == request' = [request EXCEPT ![m] = NoRequest]

WriteFails(m) ==
  /\ File!BeginFails(m)
  /\ Settle(m)
  /\ UNCHANGED <<discovered, promised>>

Replace(m) ==
  /\ File!Replace(m)
  /\ UNCHANGED <<discovered, request, promised>>

\* _enabled is assigned and the call returns the new status.
Return(m) ==
  /\ File!TakeOver(m)
  /\ promised' = [promised EXCEPT ![request[m].name] = request[m].to]
  /\ Settle(m)
  /\ UNCHANGED discovered

Leave(m) ==
  /\ File!Leave(m)
  /\ Settle(m)
  /\ discovered' = [discovered EXCEPT ![m] = NothingInstalled]
  /\ UNCHANGED promised

-----------------------------------------------------------------------------
(* Properties.                                                             *)

\* What enable() and disable() acknowledged is what the file says, across
\* failed and abandoned calls, restarts, later calls on other plugins, and the
\* plugin's own removal from the environment.
AcknowledgedPersists ==
  \A n \in Names :
    /\ promised[n] = "enabled" => n \in disk
    /\ promised[n] = "disabled" => n \notin disk
=============================================================================
