------------------------------ MODULE StateFile ------------------------------
(***************************************************************************)
(* The local state files of the host, plugins.json (plugins.py) and        *)
(* limits.json (resources/profiles.py), and how the manager objects use    *)
(* them: a manager reads the whole document once, when it is discovered,   *)
(* keeps it in memory, and replaces the whole document on every change.    *)
(* No lock is held in between.  A replacement goes through a synced        *)
(* temporary file and os.replace(), so it happens at once or not at all;   *)
(* what goes wrong goes wrong before or after it.                          *)
(***************************************************************************)
CONSTANTS
  Managers,      \* manager objects, one after the other, each of some process
  EmptyDocument, \* what a missing file stands for
  Exclusive      \* the host lets one manager live at a time

VARIABLES
  disk,     \* the document in the state file
  memory,   \* per manager: the document it keeps
  pending,  \* per manager: the document of the change it is making
  stage     \* per manager: "none" (does not exist), "ready", "writing" or
            \* "persisted"

Init ==
  /\ disk = EmptyDocument
  /\ memory = [m \in Managers |-> EmptyDocument]
  /\ pending = [m \in Managers |-> EmptyDocument]
  /\ stage = [m \in Managers |-> "none"]

Enter(m, s) == stage' = [stage EXCEPT ![m] = s]

Live == {m \in Managers : stage[m] # "none"}

\* discover() and __init__: read the document.
Discover(m) ==
  /\ m \notin Live
  /\ Exclusive => Live = {}
  /\ memory' = [memory EXCEPT ![m] = disk]
  /\ pending' = [pending EXCEPT ![m] = disk]
  /\ Enter(m, "ready")
  /\ UNCHANGED disk

\* A change was accepted; its new document goes to a temporary file.
Begin(m, document) ==
  /\ stage[m] = "ready"
  /\ pending' = [pending EXCEPT ![m] = document]
  /\ Enter(m, "writing")
  /\ UNCHANGED <<disk, memory>>

\* Creating, writing, syncing or renaming the temporary file fails.
BeginFails(m) ==
  /\ stage[m] = "writing"
  /\ Enter(m, "ready")
  /\ pending' = [pending EXCEPT ![m] = memory[m]]
  /\ UNCHANGED <<disk, memory>>

\* os.replace()
Replace(m) ==
  /\ stage[m] = "writing"
  /\ disk' = pending[m]
  /\ Enter(m, "persisted")
  /\ UNCHANGED <<memory, pending>>

\* The manager takes over what it has written.
TakeOver(m) ==
  /\ stage[m] = "persisted"
  /\ memory' = [memory EXCEPT ![m] = pending[m]]
  /\ Enter(m, "ready")
  /\ UNCHANGED <<disk, pending>>

\* The process of a manager ends, or dies wherever it is, or the host drops the
\* manager after an exception: what it knew is gone.
Leave(m) ==
  /\ m \in Live
  /\ Enter(m, "none")
  /\ memory' = [memory EXCEPT ![m] = EmptyDocument]
  /\ pending' = [pending EXCEPT ![m] = EmptyDocument]
  /\ UNCHANGED disk
=============================================================================
