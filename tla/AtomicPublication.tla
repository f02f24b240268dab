-------------------------- MODULE AtomicPublication --------------------------
(***************************************************************************)
(* What publication to one name promises, whatever it takes underneath:    *)
(* the name changes from one complete container to another in one step, a  *)
(* session that may not overwrite never replaces anything, and a session   *)
(* either publishes once or never.                                         *)
(***************************************************************************)
CONSTANTS
  Sessions,     \* publications attempted
  Overwriting,  \* those that may replace what is there
  Absent,       \* the name refers to nothing
  Previous      \* the name refers to what was there before

VARIABLES
  visible,  \* what the name refers to
  status    \* per session: "pending", "published" or "refused"

Init ==
  /\ visible \in {Absent, Previous}
  /\ status = [p \in Sessions |-> "pending"]

Publish(p) ==
  /\ status[p] = "pending"
  /\ visible = Absent \/ p \in Overwriting
  /\ visible' = p
  /\ status' = [status EXCEPT ![p] = "published"]

\* A power failure, or a crash, ends several sessions at once.
RefuseAll(S) ==
  /\ \A p \in S : status[p] = "pending"
  /\ status' = [p \in Sessions |-> IF p \in S THEN "refused" ELSE status[p]]
  /\ UNCHANGED visible

Next ==
  \/ \E p \in Sessions : Publish(p)
  \/ \E S \in SUBSET Sessions : RefuseAll(S)

Spec == Init /\ [][Next]_<<visible, status>>
=============================================================================
