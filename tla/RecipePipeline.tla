---------------------------- MODULE RecipePipeline ----------------------------
(***************************************************************************)
(* A recipe session of src/obst/core/pipeline.py: RecipeEncoder or         *)
(* RecipeDecoder, with the providers it calls.  A session binds a recipe   *)
(* once, caches the binding, and runs data through the recipe's stages     *)
(* under the ceilings of the operation's accountant, which other           *)
(* components charge between its calls.                                    *)
(*                                                                         *)
(* A step is one provider call, or the Python between two of them.  Data   *)
(* is its size.  A provider may do anything: return any size or value that *)
(* is not bytes, reject its parameters or input, or raise.                 *)
(***************************************************************************)
EXTENDS ResourceAccounting, Sequences, SequencesExt, Enumeration

CONSTANTS
  Policies,       \* policies of the operation
  Recipe,         \* recipes
  StagesOf,       \* per recipe: the sequence of its stages
  Registered,     \* per direction: stages with a provider
  MaxSize,        \* bound: bytes of one intermediate
  MaxCalls,       \* bound: calls of one session
  MaxRequest,     \* bound: recipes of one preflight
  ForeignBound    \* bound: what other components charge

Direction == {"encode", "decode"}

ASSUME PipelineAssumption ==
  /\ Policies \subseteq Policy
  /\ MaxSize \in Nat /\ MaxCalls \in Nat /\ MaxRequest \in Nat
  /\ ForeignBound \in Nat
  /\ \A r \in Recipe : StagesOf[r] \in Seq(Range(StagesOf[r]))

VARIABLES
  policy, account,  \* the operation's accountant
  direction,        \* which session this is
  bindings,         \* _bindings: of each cached recipe, its bound stages
  binding,          \* the stages bound so far of the recipe that is bound now
  phase,            \* "idle", "binding" or "executing"
  call,             \* "preflight" or "recipe": the call that is running
  queue,            \* recipes that it still has to bind
  stage,            \* the stage that is executed next
  recipe,           \* the recipe that it executes
  size,             \* bytes of the current data
  limit,            \* max_output_size, or expected_size
  outcome,          \* how the last call ended
  calls             \* calls so far

callVars == <<call, recipe, limit>>
bindingVars == <<bindings, binding>>
vars == <<policy, account, direction, bindingVars, phase, callVars, queue,
          stage, size, outcome, calls>>

\* The keys of _bindings.
bound == DOMAIN bindings

\* An encoder runs the stages in their order, a decoder in reverse.
Path(r) == IF direction = "encode" THEN StagesOf[r] ELSE Reverse(StagesOf[r])

Init ==
  /\ policy \in Policies
  /\ account = NewAccount
  /\ direction \in Direction
  /\ bindings = [r \in {} |-> <<>>]
  /\ binding = <<>>
  /\ phase = "idle"
  /\ call = "preflight"
  /\ queue = <<>>
  /\ stage = 1
  /\ recipe \in Recipe
  /\ size = 0
  /\ limit = 0
  /\ outcome = "returned"
  /\ calls = 0

-----------------------------------------------------------------------------
(* How a call starts and ends.                                             *)

NewCall ==
  /\ phase = "idle"
  /\ calls < MaxCalls
  /\ calls' = calls + 1

End(how) ==
  /\ phase' = "idle"
  /\ outcome' = how

\* Every stage of the recipe has a provider for this direction.
Resolvable(r) ==
  \A i \in DOMAIN StagesOf[r] : StagesOf[r][i] \in Registered[direction]

\* All recipes are resolved before the first is bound.
AllResolvable(rs) == \A i \in DOMAIN rs : Resolvable(rs[i])

\* A seeded fault: duplicates in one request are not noticed.
NotCached(rs) == SelectSeq(rs, LAMBDA r : r \notin bound)

\* The recipes of a request that are not cached, each at its first place.
Pending(rs) == Missing(rs, bound)

\* Go and bind what is pending, unless a provider is missing.
Resolve(pending) ==
  IF AllResolvable(pending)
    THEN /\ phase' = "binding"
         /\ queue' = pending
         /\ UNCHANGED outcome
    ELSE /\ End("missing provider")
         /\ UNCHANGED queue

\* RecipeEncoder.preflight()
Preflight(rs) ==
  /\ direction = "encode"
  /\ NewCall
  /\ call' = "preflight"
  /\ Resolve(Pending(rs))
  /\ UNCHANGED <<policy, account, direction, bindingVars, stage, recipe, size,
                 limit>>

\* A seeded fault: the recipe's stages are checked without those already run.
PrecheckedAlone(r, n, logical) ==
  /\ Allows(policy, "logical_bytes", account["logical_bytes"] + logical)
  /\ Allows(policy, "stage_executions", Len(StagesOf[r]))
  /\ CanRecord(policy, account, "intermediate_bytes", n)

\* _precheck_recipe_operation(): the whole recipe against what is left.
Prechecked(r, n, logical) ==
  /\ Allows(policy, "logical_bytes", account["logical_bytes"] + logical)
  /\ Allows(policy, "stage_executions",
            account["stage_executions"] + Len(StagesOf[r]))
  /\ CanRecord(policy, account, "intermediate_bytes", n)

\* The logical bytes of a call: an encoder's input, a decoder's output.
Logical(n, max) == IF direction = "encode" THEN n ELSE max

\* RecipeEncoder.encode() with max_output_size, RecipeDecoder.decode() with
\* expected_size, which is never None.
Start(r, n, max) ==
  /\ direction = "decode" => max # Unbounded
  /\ NewCall
  /\ Prechecked(r, n, Logical(n, max))
  /\ account' = Recorded(account, "intermediate_bytes", n)
  /\ call' = "recipe"
  /\ recipe' = r
  /\ size' = n
  /\ limit' = max
  /\ Resolve(Pending(<<r>>))
  /\ UNCHANGED <<policy, direction, bindingVars, stage>>

StartRefused(r, n, max) ==
  /\ direction = "decode" => max # Unbounded
  /\ NewCall
  /\ ~Prechecked(r, n, Logical(n, max))
  /\ End("resource limit")
  /\ UNCHANGED <<policy, account, direction, bindingVars, callVars, queue,
                 stage, size>>

-----------------------------------------------------------------------------
(* Binding.                                                                *)

Failures == {"rejected", "contract violation", "resource limit"}

\* A seeded fault: a recipe keeps the stages that were bound before one failed.
BindFailsHalfWay ==
  /\ \E how \in Failures : End(how)
  /\ bindings' = [r \in bound \cup {queue[1]} |->
                   IF r = queue[1] THEN binding ELSE bindings[r]]
  /\ queue' = <<>>
  /\ binding' = <<>>

\* bind_encoder() or bind_decoder() raises, or returns no operation.
BindFails ==
  /\ \E how \in Failures : End(how)
  /\ queue' = <<>>
  /\ binding' = <<>>
  /\ UNCHANGED bindings

\* One bind_encoder() or bind_decoder() of the recipe at the head of the queue.
BindStage ==
  /\ phase = "binding"
  /\ queue # <<>>
  /\ LET path == Path(queue[1]) IN
     /\ Len(binding) < Len(path)
     /\ \/ /\ binding' = Append(binding, path[Len(binding) + 1])
           /\ UNCHANGED <<bindings, phase, outcome, queue>>
        \/ BindFails
  /\ UNCHANGED <<policy, account, direction, callVars, stage, size, calls>>

\* Every stage is bound: the recipe's binding is cached.
CacheBinding ==
  /\ phase = "binding"
  /\ queue # <<>>
  /\ Len(binding) = Len(Path(queue[1]))
  /\ bindings' = [r \in bound \cup {queue[1]} |->
                   IF r = queue[1] THEN binding ELSE bindings[r]]
  /\ binding' = <<>>
  /\ queue' = Tail(queue)
  /\ UNCHANGED <<policy, account, direction, phase, callVars, stage, size,
                 outcome, calls>>

PreflightDone ==
  /\ phase = "binding"
  /\ queue = <<>>
  /\ call = "preflight"
  /\ End("returned")
  /\ UNCHANGED <<policy, account, direction, bindingVars, callVars, queue,
                 stage, size, calls>>

\* The input is charged, and the stages begin.  (That this charge, and that of
\* each stage, is not refused any more is NeverRefusedHalfWay.)
Begin ==
  /\ phase = "binding"
  /\ queue = <<>>
  /\ call = "recipe"
  /\ CanRecord(policy, account, "logical_bytes", Logical(size, limit))
  /\ account' = Recorded(account, "logical_bytes", Logical(size, limit))
  /\ phase' = "executing"
  /\ UNCHANGED <<policy, direction, bindingVars, callVars, queue, stage, size,
                 outcome, calls>>

-----------------------------------------------------------------------------
(* Execution.                                                              *)

Within(n, max) == max # Unbounded => n <= max

\* What runs are the stages that the cache has for the recipe.
Running == bindings[recipe]

\* A seeded fault: a stage before the last may return anything.
StageAllowsAtTheEnd(i, n) ==
  i = Len(Running) =>
    Within(n, limit) /\ Allows(policy, "intermediate_bytes", n)

\* max_output_size of one stage: the last one gets the caller's as well.
StageAllows(i, n) ==
  /\ Allows(policy, "intermediate_bytes", n)
  /\ i = Len(Running) => Within(n, limit)

\* The execution of a stage is charged before its provider is called.
ExecuteStage ==
  /\ phase = "executing"
  /\ stage <= Len(Running)
  /\ CanRecord(policy, account, "stage_executions", 1)
  /\ account' = Recorded(account, "stage_executions", 1)
  /\ \/ /\ \E n \in 0 .. MaxSize : StageAllows(stage, n) /\ size' = n
        /\ stage' = stage + 1
        /\ UNCHANGED <<phase, outcome>>
     \/ /\ \E how \in Failures : End(how)
        /\ stage' = 1
        /\ UNCHANGED size
  /\ UNCHANGED <<policy, direction, bindingVars, callVars, queue, calls>>

\* A recipe without stages meets the caller's limit here.
ResultAccepted ==
  IF direction = "encode" THEN Within(size, limit) ELSE size = limit

Finish ==
  /\ phase = "executing"
  /\ stage > Len(Running)
  /\ IF ResultAccepted THEN End("returned") ELSE End("rejected")
  /\ stage' = 1
  /\ UNCHANGED <<policy, account, direction, bindingVars, callVars, queue,
                 size, calls>>

-----------------------------------------------------------------------------
\* Another session of the operation charges the accountant between two calls.
ForeignCharge(r) ==
  /\ phase = "idle"
  /\ CanRecord(policy, account, r, 1)
  /\ account[r] < ForeignBound
  /\ account' = Recorded(account, r, 1)
  /\ UNCHANGED <<policy, direction, bindingVars, phase, callVars, queue, stage,
                 size, outcome, calls>>

Next ==
  \/ \E rs \in BoundedSeq(Recipe, MaxRequest) : Preflight(rs)
  \/ \E r \in Recipe, n \in 0 .. MaxSize,
        max \in (0 .. MaxSize) \cup {Unbounded} :
       Start(r, n, max) \/ StartRefused(r, n, max)
  \/ BindStage
  \/ CacheBinding
  \/ PreflightDone
  \/ Begin
  \/ ExecuteStage
  \/ Finish
  \/ \E r \in {"logical_bytes", "stage_executions"} : ForeignCharge(r)

Spec == Init /\ [][Next]_vars

-----------------------------------------------------------------------------
(* Properties.                                                             *)

\* A ceiling that a recipe would pass is noticed before its first provider is
\* called: the charges that follow are never refused half way.
NeverRefusedHalfWay ==
  /\ WithinPolicy(policy, account)
  /\ call = "recipe" /\ phase = "binding" =>
       /\ CanRecord(policy, account, "logical_bytes", Logical(size, limit))
       /\ CanRecord(policy, account, "stage_executions", Len(StagesOf[recipe]))
  /\ phase = "executing" /\ stage <= Len(Running) =>
       CanRecord(policy, account, "stage_executions", 1)

\* The providers of the request are known to exist, and no recipe that is bound
\* already, or waits twice, will be bound again.
BoundOnceAllResolved ==
  phase = "binding" =>
    /\ \A i \in DOMAIN queue : Resolvable(queue[i]) /\ queue[i] \notin bound
    /\ \A i, j \in DOMAIN queue : i # j => queue[i] # queue[j]

\* What runs is each stage of the recipe, in the order in which the data passes
\* them.
RunsWhole ==
  phase = "executing" => recipe \in bound /\ Running = Path(recipe)

\* While a provider is bound every other of the request is known to exist, and a
\* recipe is bound once; and whatever failed to be bound before, and was tried
\* again, it runs whole, never with the stages that were bound before a failure.
BoundOnceAndWhole == BoundOnceAllResolved /\ RunsWhole

\* Data between two stages is always within the policy's ceiling, and only data
\* within the caller's is returned; a decoder returns exactly what was expected.
ResultWithinCeilings ==
  /\ phase = "executing" => Allows(policy, "intermediate_bytes", size)
  /\ phase = "idle" /\ call = "recipe" /\ outcome = "returned" =>
       /\ Allows(policy, "intermediate_bytes", size)
       /\ Within(size, limit)
       /\ direction = "decode" => size = limit

=============================================================================
