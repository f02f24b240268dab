------------------------- MODULE ResourceAccounting -------------------------
(***************************************************************************)
(* The operation-local accountant of src/obst/core/resource_accounting.py. *)
(*                                                                         *)
(* One accountant belongs to one operation and is handed to every reader,  *)
(* writer and recipe session that cooperates in it.  Its whole state is    *)
(* the dictionary _values, here a function from resources to naturals; the *)
(* policy that bounds it never changes.  The operators below are the       *)
(* accountant's methods as functions of that state, so that the modules    *)
(* that own an accountant keep it in a variable of their own.              *)
(***************************************************************************)
EXTENDS Integers, Sequences

CONSTANT Unbounded  \* ResourcePolicy.maximum() returned None

ASSUME UnboundedAssumption == Unbounded \notin Nat

-----------------------------------------------------------------------------
\* Resources whose observations add up over the operation.
TotalResources == {"container_bytes", "chunks", "logical_bytes",
                   "stage_executions"}

\* Resources of which only the largest observation is kept.
PeakResources == {"manifest_bytes", "encoded_chunk_bytes",
                  "logical_chunk_bytes", "intermediate_bytes",
                  "materialized_stream_bytes", "extensions", "recipes",
                  "streams", "total_stages", "stages_per_recipe"}

CoreResource == TotalResources \cup PeakResources

Policy  == [CoreResource -> Nat \cup {Unbounded}]
Account == [CoreResource -> Nat]

\* ResourceAccounting.__init__
NewAccount == [r \in CoreResource |-> 0]

-----------------------------------------------------------------------------
\* check(): an absolute observation that the policy does not refuse.
Allows(policy, r, observed) ==
  policy[r] # Unbounded => observed <= policy[r]

\* _project(): what one more observation would make of the recorded value.
Projected(account, r, amount) ==
  IF r \in TotalResources
    THEN account[r] + amount
    ELSE IF amount > account[r] THEN amount ELSE account[r]

\* A seeded fault: record() checks the increment, not the projected total.
AmountAllowed(policy, account, r, amount) == Allows(policy, r, amount)

\* record() commits only after check() accepted the projection, so a caller
\* that may be refused guards with CanRecord and assigns Recorded.
CanRecord(policy, account, r, amount) ==
  Allows(policy, r, Projected(account, r, amount))

Recorded(account, r, amount) ==
  [account EXCEPT ![r] = Projected(account, r, amount)]

-----------------------------------------------------------------------------
\* A caller that records one thing after another, and raises when the first is
\* refused: whether nothing was refused yet, the account, and what it makes.
Session(account) == [ok |-> TRUE, account |-> account, output |-> <<>>]

\* accounting.record() of a pair: the resource and the amount.
ChargedOnce(policy, session, charge) ==
  IF session.ok /\ CanRecord(policy, session.account, charge[1], charge[2])
  THEN [session EXCEPT !.account = Recorded(@, charge[1], charge[2])]
  ELSE [session EXCEPT !.ok = FALSE]

\* One after the other, until one is refused.
Charged(policy, session, charges) ==
  LET after[k \in 0 .. Len(charges)] ==
        IF k = 0 THEN session ELSE ChargedOnce(policy, after[k - 1], charges[k])
  IN  after[Len(charges)]

-----------------------------------------------------------------------------
\* No recorded value ever exceeds the ceiling of the policy.
WithinPolicy(policy, account) ==
  \A r \in CoreResource : Allows(policy, r, account[r])
=============================================================================
