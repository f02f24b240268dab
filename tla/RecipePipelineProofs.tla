------------------------ MODULE RecipePipelineProofs ------------------------
(***************************************************************************)
(* Theorems about RecipePipeline for any recipes, policies, providers and  *)
(* sizes: a session that passed its precheck is never refused half way, it *)
(* binds a recipe once and only when every provider is known to exist,     *)
(* runs it whole, and hands on what is within the ceilings.                *)
(***************************************************************************)
EXTENDS RecipePipeline, EnumerationProofs, SequenceTheorems

-----------------------------------------------------------------------------
(* The inductive invariant.                                                *)

TypeOK ==
  /\ policy \in Policy
  /\ account \in Account
  /\ direction \in Direction
  /\ phase \in {"idle", "binding", "executing"}
  /\ call \in {"preflight", "recipe"}
  /\ queue \in Seq(Recipe)
  /\ stage \in Nat \ {0}
  /\ recipe \in Recipe
  /\ size \in Nat
  /\ limit \in Nat \cup {Unbounded}

\* What the rest of the call will charge has room.
Reserved ==
  /\ WithinPolicy(policy, account)
  /\ phase # "idle" /\ call = "recipe" =>
       /\ direction = "decode" => limit # Unbounded
       /\ Allows(policy, "intermediate_bytes", size)
  /\ phase = "binding" /\ call = "recipe" =>
       /\ CanRecord(policy, account, "logical_bytes", Logical(size, limit))
       /\ CanRecord(policy, account, "stage_executions", Len(StagesOf[recipe]))
  /\ phase = "executing" =>
       /\ call = "recipe"
       /\ stage <= Len(StagesOf[recipe]) + 1
       /\ CanRecord(policy, account, "stage_executions",
                    (Len(StagesOf[recipe]) + 1) - stage)

\* What was returned.
Returned ==
  phase = "idle" /\ call = "recipe" /\ outcome = "returned" =>
    /\ Allows(policy, "intermediate_bytes", size)
    /\ Within(size, limit)
    /\ direction = "decode" => size = limit

\* The first stages of a recipe, in the order in which the data passes them.
Begun(b, r) ==
  /\ b \in Seq(Range(StagesOf[r]))
  /\ Len(b) <= Len(Path(r))
  /\ \A i \in 1 .. Len(b) : b[i] = Path(r)[i]

\* What is cached, and what the call that is running will have cached.
Cached ==
  /\ \A r \in bound : bindings[r] = Path(r)
  /\ phase # "binding" \/ queue = <<>> => binding = <<>>
  /\ phase # "executing" => stage = 1
  /\ phase = "binding" /\ queue # <<>> => Begun(binding, queue[1])
  /\ phase = "binding" /\ call = "recipe" =>
       recipe \in bound \/ \E i \in DOMAIN queue : queue[i] = recipe
  /\ phase = "executing" => recipe \in bound

SessionInv ==
  /\ TypeOK
  /\ Reserved
  /\ Returned
  /\ BoundOnceAllResolved
  /\ Cached

-----------------------------------------------------------------------------
(* Facts about the operators.                                              *)

\* record() leaves a dictionary of naturals, and commits only what check()
\* accepted.
LEMMA RecordedIsWithin ==
  ASSUME NEW p, NEW a \in Account, NEW r \in CoreResource, NEW amount \in Nat
  PROVE  /\ Recorded(a, r, amount) \in Account
         /\ WithinPolicy(p, a) /\ CanRecord(p, a, r, amount)
              => WithinPolicy(p, Recorded(a, r, amount))
<1>1. Projected(a, r, amount) \in Nat
  BY DEF Projected, Account
<1>2. ASSUME WithinPolicy(p, a), CanRecord(p, a, r, amount),
             NEW other \in CoreResource
      PROVE  Allows(p, other, Recorded(a, r, amount)[other])
  BY <1>2 DEF Account, Recorded, CanRecord, WithinPolicy
<1> QED
  BY <1>1, <1>2 DEF Recorded, Account, WithinPolicy

\* The stages of a recipe are finitely many, in either order.
LEMMA StagesAreSequences ==
  ASSUME NEW r \in Recipe, direction \in Direction
  PROVE  /\ Len(StagesOf[r]) \in Nat /\ Len(Path(r)) = Len(StagesOf[r])
         /\ Path(r) \in Seq(Range(StagesOf[r]))
<1> DEFINE s == StagesOf[r]
           S == Range(StagesOf[r])
<1>1. s \in Seq(S)
  BY PipelineAssumption
<1> HIDE DEF s, S
<1>2. Len(s) \in Nat
  BY <1>1
<1>3. Reverse(s) \in Seq(S) /\ Len(Reverse(s)) = Len(s)
  <2>1. \A i \in 1 .. Len(s) : (Len(s) - i) + 1 \in 1 .. Len(s)
    BY <1>2
  <2>2. \A i \in 1 .. Len(s) : s[(Len(s) - i) + 1] \in S
    BY <1>1, <2>1
  <2> QED
    BY <1>2, <2>2 DEF Reverse
<1> QED
  BY <1>1, <1>2, <1>3 DEF Path, s, S

\* A request is a sequence of recipes.
LEMMA RequestIsSequence ==
  ASSUME NEW rs \in BoundedSeq(Recipe, MaxRequest)
  PROVE  rs \in Seq(Recipe)
<1>1. rs \in UNION {[1 .. m -> Recipe] : m \in 0 .. MaxRequest}
  BY DEF BoundedSeq, SeqOf
<1>2. PICK m \in 0 .. MaxRequest : rs \in [1 .. m -> Recipe]
  BY <1>1
<1> QED
  BY <1>2, PipelineAssumption

\* The ceiling of a total leaves room for less when it does for more.
LEMMA RoomForLess ==
  ASSUME NEW p \in Policy, NEW a \in Account, NEW more \in Nat,
         NEW less \in Nat, less <= more,
         CanRecord(p, a, "stage_executions", more)
  PROVE  CanRecord(p, a, "stage_executions", less)
<1>1. a["stage_executions"] \in Nat
      /\ p["stage_executions"] \in Nat \cup {Unbounded}
  BY DEF Policy, Account, CoreResource, TotalResources
<1> QED
  BY <1>1 DEF CanRecord, Projected, Allows, TotalResources

\* A charge of one resource leaves the room of a total as it was.
LEMMA OtherRoom ==
  ASSUME NEW p, NEW a \in Account, NEW r \in CoreResource, NEW amount \in Nat,
         NEW other \in TotalResources, other # r, NEW n
  PROVE  CanRecord(p, Recorded(a, r, amount), other, n) <=>
           CanRecord(p, a, other, n)
<1>1. Recorded(a, r, amount)[other] = a[other]
  BY DEF Recorded, Account, CoreResource
<1> QED
  BY <1>1 DEF CanRecord, Projected

\* What is left of a total after a charge.
LEMMA RoomLeft ==
  ASSUME NEW p, NEW a \in Account, NEW n \in Nat, n # 0,
         CanRecord(p, a, "stage_executions", n)
  PROVE  CanRecord(p, Recorded(a, "stage_executions", 1), "stage_executions",
                   n - 1)
<1>1. a["stage_executions"] \in Nat
  BY DEF Account, CoreResource, TotalResources
<1>2. Recorded(a, "stage_executions", 1)["stage_executions"] =
        a["stage_executions"] + 1
  BY DEF Recorded, Account, Projected, CoreResource, TotalResources
<1>3. (a["stage_executions"] + 1) + (n - 1) = a["stage_executions"] + n
  BY <1>1
<1> QED
  BY <1>2, <1>3 DEF CanRecord, Projected, TotalResources

\* What is pending is not cached, and nothing is pending twice.
LEMMA PendingIsNew ==
  ASSUME NEW rs \in Seq(Recipe)
  PROVE  /\ Pending(rs) \in Seq(Recipe)
         /\ \A i \in DOMAIN Pending(rs) : Pending(rs)[i] \notin bound
         /\ \A i, j \in DOMAIN Pending(rs) :
              i # j => Pending(rs)[i] # Pending(rs)[j]
  BY MissingElements DEF Pending

\* A recipe that is not cached is pending when it is asked for.
LEMMA OneIsPending ==
  ASSUME NEW r, r \notin bound
  PROVE  \E i \in DOMAIN Pending(<<r>>) : Pending(<<r>>)[i] = r
<1>1. FirstPlaces(<<r>>, bound) = {1}
  BY DEF FirstPlaces
<1>2. IsFiniteSet({1}) /\ Cardinality({1}) = 1
  <2>1. /\ IsFiniteSet({1})
        /\ \A x : IsFiniteSet({x}) /\ Cardinality({x}) = 1
    BY FS_Singleton, Zenon
  <2> QED
    BY <2>1
<1>3. InOrder({1}) \in [1 .. 1 -> {1}]
  <2>1. {1} \in SUBSET Nat
    OBVIOUS
  <2> QED
    BY <1>2, <2>1, InOrderLists
<1> QED
  BY <1>1, <1>2, <1>3 DEF Pending, Missing

\* Nothing yet is the beginning of every recipe.
LEMMA NothingBegun ==
  ASSUME NEW r \in Recipe, direction \in Direction
  PROVE  Begun(<<>>, r)
BY StagesAreSequences DEF Begun

-----------------------------------------------------------------------------
(* The invariant holds.                                                    *)

\* At first nothing is bound, charged or returned.
LEMMA InitSession == Init => SessionInv
<1> SUFFICES ASSUME Init PROVE SessionInv
  OBVIOUS
<1>1. policy \in Policy
  BY PipelineAssumption DEF Init
<1>2. account \in Account /\ WithinPolicy(policy, account)
  <2>1. account = NewAccount
    BY DEF Init
  <2>2. NewAccount \in Account
    BY DEF NewAccount, Account
  <2>3. ASSUME NEW r \in CoreResource
        PROVE  Allows(policy, r, NewAccount[r])
    <3>1. policy[r] \in Nat \cup {Unbounded} /\ NewAccount[r] = 0
      BY <1>1 DEF Policy, NewAccount
    <3> QED
      BY <3>1 DEF Allows
  <2> QED
    BY <2>1, <2>2, <2>3 DEF WithinPolicy
<1>3. TypeOK
  BY <1>1, <1>2 DEF Init, TypeOK
<1> QED
  BY <1>2, <1>3
  DEF Init, SessionInv, Reserved, Returned, BoundOnceAllResolved, Cached, bound

\* A request is resolved: everything is bound next, or nothing is.
LEMMA ResolvedIsBindable ==
  ASSUME SessionInv, NEW pending \in Seq(Recipe),
         \A i \in DOMAIN pending : pending[i] \notin bound,
         \A i, j \in DOMAIN pending : i # j => pending[i] # pending[j],
         Resolve(pending), phase = "idle",
         UNCHANGED <<bindingVars, stage, direction>>,
         call' = "recipe" =>
           recipe' \in bound \/ \E i \in DOMAIN pending : pending[i] = recipe'
  PROVE  /\ BoundOnceAllResolved' /\ Cached'
         /\ queue' \in Seq(Recipe)
         /\ phase' \in {"idle", "binding"}
         /\ phase' = "idle" => outcome' = "missing provider"
<1> USE DEF Resolve, End, AllResolvable, Resolvable, SessionInv, TypeOK,
            BoundOnceAllResolved
<1>0. /\ bound' = bound /\ direction' = direction
      /\ binding' = <<>> /\ stage' = 1
      /\ \A r \in bound' : bindings'[r] = Path(r)'
  BY DEF bindingVars, bound, Cached, Path
<1>1. CASE AllResolvable(pending)
  <2>1. /\ phase' = "binding" /\ queue' = pending
        /\ \A i \in DOMAIN pending : Resolvable(pending[i])
    BY <1>1
  <2>2. \A r : Resolvable(r)' <=> Resolvable(r)
    BY <1>0
  <2> HIDE DEF Resolvable
  <2>3. BoundOnceAllResolved'
    BY <1>0, <2>1, <2>2
  <2>4. (queue # <<>> => Begun(binding, queue[1]))'
    <3> SUFFICES ASSUME queue' # <<>> PROVE Begun(binding, queue[1])'
      OBVIOUS
    <3>1. pending[1] \in Recipe
      BY <2>1
    <3>2. Begun(<<>>, pending[1])
      BY <3>1, NothingBegun
    <3> QED
      BY <1>0, <2>1, <3>2 DEF Begun, Path
  <2>5. Cached'
    BY <1>0, <2>1, <2>4 DEF Cached
  <2> QED
    BY <2>1, <2>3, <2>5
<1>2. CASE ~AllResolvable(pending)
  BY <1>0, <1>2 DEF Cached
<1> QED
  BY <1>1, <1>2

\* A preflight begins with recipes that can all be bound, or ends.
LEMMA PreflightKeeps ==
  ASSUME SessionInv, NEW rs \in BoundedSeq(Recipe, MaxRequest), Preflight(rs)
  PROVE  SessionInv'
<1>1. rs \in Seq(Recipe)
  BY RequestIsSequence
<1>2. /\ Resolve(Pending(rs)) /\ phase = "idle" /\ call' # "recipe"
      /\ UNCHANGED <<bindingVars, stage, direction>>
  BY DEF Preflight, NewCall
<1>3. /\ BoundOnceAllResolved' /\ Cached'
      /\ queue' \in Seq(Recipe)
      /\ phase' \in {"idle", "binding"}
  BY <1>1, <1>2, PendingIsNew, ResolvedIsBindable
<1>4. TypeOK'
  BY <1>3 DEF SessionInv, TypeOK, Preflight
<1>5. Reserved'
  BY <1>3 DEF SessionInv, Reserved, Preflight
<1>6. Returned'
  BY DEF Preflight, Returned
<1> QED
  BY <1>3, <1>4, <1>5, <1>6 DEF SessionInv

\* A call that begins has room for all that it will charge.
LEMMA StartKeeps ==
  ASSUME SessionInv, NEW r \in Recipe, NEW n \in 0 .. MaxSize,
         NEW max \in (0 .. MaxSize) \cup {Unbounded}, Start(r, n, max)
  PROVE  SessionInv'
<1>1. <<r>> \in Seq(Recipe)
  OBVIOUS
<1>2. /\ Resolve(Pending(<<r>>)) /\ phase = "idle" /\ recipe' = r
      /\ UNCHANGED <<bindingVars, stage, direction>>
  BY DEF Start, NewCall
<1>3. /\ BoundOnceAllResolved' /\ Cached'
      /\ queue' \in Seq(Recipe)
      /\ phase' \in {"idle", "binding"}
      /\ phase' = "idle" => outcome' = "missing provider"
  BY <1>1, <1>2, PendingIsNew, OneIsPending, ResolvedIsBindable
<1>4. n \in Nat /\ max \in Nat \cup {Unbounded}
  BY PipelineAssumption
<1>5. /\ account \in Account /\ policy \in Policy
      /\ WithinPolicy(policy, account)
  BY DEF SessionInv, TypeOK, Reserved
<1>6. /\ "intermediate_bytes" \in CoreResource \ TotalResources
      /\ {"logical_bytes", "stage_executions"} \subseteq TotalResources
  BY DEF CoreResource, PeakResources, TotalResources
<1>7. /\ policy' = policy /\ direction' = direction
      /\ account' = Recorded(account, "intermediate_bytes", n)
      /\ call' = "recipe" /\ recipe' = r /\ size' = n /\ limit' = max
      /\ Prechecked(r, n, Logical(n, max))
      /\ direction = "decode" => max # Unbounded
  BY DEF Start
<1>8. account' \in Account
  BY <1>4, <1>5, <1>6, <1>7, RecordedIsWithin
<1>9. TypeOK'
  BY <1>2, <1>3, <1>4, <1>7, <1>8 DEF SessionInv, TypeOK
<1>10. WithinPolicy(policy, account')
  BY <1>4, <1>5, <1>6, <1>7, RecordedIsWithin DEF Prechecked
<1>11. Allows(policy, "intermediate_bytes", n)
  <2>1. CanRecord(policy, account, "intermediate_bytes", n)
    BY <1>7 DEF Prechecked
  <2>2. /\ account["intermediate_bytes"] \in Nat
        /\ policy["intermediate_bytes"] \in Nat \cup {Unbounded}
    BY <1>5, <1>6 DEF Account, Policy
  <2> QED
    BY <1>4, <1>6, <2>1, <2>2 DEF CanRecord, Projected, Allows
<1>12. /\ CanRecord(policy, account, "logical_bytes", Logical(n, max))
       /\ CanRecord(policy, account, "stage_executions", Len(StagesOf[r]))
  BY <1>6, <1>7 DEF Prechecked, CanRecord, Projected
<1>13. /\ CanRecord(policy, account', "logical_bytes", Logical(n, max))
       /\ CanRecord(policy, account', "stage_executions", Len(StagesOf[r]))
  BY <1>4, <1>5, <1>6, <1>7, <1>12, OtherRoom
<1>14. Reserved'
  BY <1>3, <1>7, <1>10, <1>11, <1>13 DEF Reserved, Logical
<1>15. Returned'
  BY <1>3 DEF Returned
<1> QED
  BY <1>3, <1>9, <1>14, <1>15 DEF SessionInv

\* A call that is refused changes nothing else.
LEMMA StartRefusedKeeps ==
  ASSUME SessionInv, NEW r \in Recipe, NEW n \in 0 .. MaxSize,
         NEW max \in (0 .. MaxSize) \cup {Unbounded}, StartRefused(r, n, max)
  PROVE  SessionInv'
  BY DEF StartRefused, End, NewCall, callVars, bindingVars, SessionInv, TypeOK,
         Reserved, Returned, BoundOnceAllResolved, Cached, bound, Path

\* Binding a stage charges nothing.
LEMMA BindStageKeeps ==
  ASSUME SessionInv, BindStage
  PROVE  SessionInv'
<1> DEFINE path == Path(queue[1])
           more == Append(binding, path[Len(binding) + 1])
<1>1. /\ phase = "binding" /\ queue # <<>> /\ Len(binding) < Len(path)
      /\ UNCHANGED <<policy, account, direction, bindings, call, recipe, limit,
                     stage, size>>
  BY DEF BindStage, BindFails, callVars
<1>2. /\ TypeOK /\ Reserved /\ BoundOnceAllResolved /\ Cached
  BY DEF SessionInv
<1>3. bound' = bound /\ \A r : Path(r)' = Path(r)
  BY <1>1 DEF bound, Path
<1>4. CASE binding' = more /\ UNCHANGED <<phase, outcome, queue>>
  <2>1. TypeOK'
    BY <1>1, <1>2, <1>4 DEF TypeOK
  <2>2. Reserved'
    BY <1>1, <1>2, <1>4 DEF Reserved, Logical
  <2>3. Begun(more, queue[1])
    <3>1. queue[1] \in Recipe /\ direction \in Direction
      BY <1>1, <1>2 DEF TypeOK
    <3> DEFINE S == Range(StagesOf[queue[1]])
    <3>2. path \in Seq(S) /\ Begun(binding, queue[1])
      BY <1>1, <1>2, <3>1, StagesAreSequences DEF Cached
    <3> HIDE DEF path, S
    <3>3. /\ binding \in Seq(S)
          /\ \A i \in 1 .. Len(binding) : binding[i] = path[i]
      BY <3>2 DEF Begun, path, S
    <3>4. /\ more \in Seq(S) /\ Len(more) <= Len(path)
          /\ \A i \in 1 .. Len(more) : more[i] = path[i]
      BY <1>1, <3>2, <3>3
    <3> QED
      BY <3>4 DEF Begun, path, S
  <2> HIDE DEF more
  <2>4. Cached'
    BY <1>1, <1>2, <1>3, <1>4, <2>3 DEF Cached, Begun
  <2> QED
    BY <1>1, <1>2, <1>3, <1>4, <2>1, <2>2, <2>4
    DEF SessionInv, Returned, BoundOnceAllResolved, Resolvable
<1>5. CASE BindFails
  <2>1. /\ phase' = "idle" /\ outcome' # "returned" /\ queue' = <<>>
        /\ binding' = <<>>
    BY <1>5 DEF BindFails, End, Failures
  <2>2. queue' \in Seq(Recipe)
    BY <2>1, EmptySeq
  <2>3. TypeOK'
    BY <1>1, <1>2, <2>1, <2>2 DEF TypeOK
  <2>4. Reserved'
    BY <1>1, <1>2, <2>1 DEF Reserved
  <2>5. Cached'
    BY <1>1, <1>2, <1>3, <2>1 DEF Cached
  <2> QED
    BY <2>1, <2>3, <2>4, <2>5 DEF SessionInv, Returned, BoundOnceAllResolved
<1> QED
  BY <1>4, <1>5 DEF BindStage

\* A recipe whose stages are all bound is bound.
LEMMA CacheBindingKeeps ==
  ASSUME SessionInv, CacheBinding
  PROVE  SessionInv'
<1> USE DEF CacheBinding, callVars, SessionInv
<1>0. /\ bound' = bound \cup {queue[1]}
      /\ \A r \in bound' :
           bindings'[r] = IF r = queue[1] THEN binding ELSE bindings[r]
      /\ direction' = direction
  BY DEF bound
<1>1. queue \in Seq(Recipe) /\ queue # <<>>
  BY DEF TypeOK
<1>2. /\ Tail(queue) \in Seq(Recipe)
      /\ Len(Tail(queue)) = Len(queue) - 1
      /\ \A i \in 1 .. Len(Tail(queue)) : Tail(queue)[i] = queue[i + 1]
  BY <1>1, HeadTailProperties
<1>3. TypeOK'
  BY <1>2 DEF TypeOK
<1>4. Reserved'
  BY DEF Reserved, Logical
<1>5. Returned'
  BY DEF Returned
<1>6. BoundOnceAllResolved'
  <2>1. ASSUME NEW i \in DOMAIN Tail(queue)
        PROVE  /\ i + 1 \in DOMAIN queue /\ i + 1 # 1
               /\ Tail(queue)[i] = queue[i + 1]
    BY <1>1, <1>2
  <2>2. 1 \in DOMAIN queue
    BY <1>1
  <2>3. ASSUME NEW i \in DOMAIN Tail(queue)
        PROVE  /\ Resolvable(Tail(queue)[i])
               /\ Tail(queue)[i] \notin bound \cup {queue[1]}
    BY <2>1, <2>2 DEF BoundOnceAllResolved
  <2>4. ASSUME NEW i \in DOMAIN Tail(queue), NEW j \in DOMAIN Tail(queue), i # j
        PROVE  Tail(queue)[i] # Tail(queue)[j]
    <3>1. i \in Int /\ j \in Int
      BY <2>1, <1>2
    <3>2. i + 1 # j + 1
      BY <2>4, <3>1
    <3> QED
      BY <2>1, <2>4, <3>2 DEF BoundOnceAllResolved
  <2> QED
    BY <1>0, <2>3, <2>4 DEF BoundOnceAllResolved, Resolvable
<1>7. Cached'
  <2>1. queue[1] \in Recipe /\ direction \in Direction
    BY <1>1 DEF TypeOK
  <2> DEFINE S == Range(StagesOf[queue[1]])
             path == Path(queue[1])
  <2>2. /\ path \in Seq(S) /\ binding \in Seq(S) /\ Len(binding) = Len(path)
        /\ \A i \in 1 .. Len(binding) : binding[i] = path[i]
    BY <1>1, <2>1, StagesAreSequences DEF Cached, Begun
  <2> HIDE DEF S, path
  <2>3. binding = path
    BY <2>2
  <2>4. \A r \in bound' : bindings'[r] = Path(r)'
    BY <1>0, <2>3 DEF Cached, Path, path
  <2>5. (queue # <<>> => Begun(binding, queue[1]))'
    <3> SUFFICES ASSUME queue' # <<>> PROVE Begun(binding, queue[1])'
      OBVIOUS
    <3> DEFINE next == Tail(queue)[1]
    <3>1. next \in Recipe
      BY <1>2
    <3>2. Begun(<<>>, next)
      BY <2>1, <3>1, NothingBegun
    <3>3. binding' = <<>> /\ queue'[1] = next
      OBVIOUS
    <3> HIDE DEF next
    <3> QED
      BY <1>0, <3>2, <3>3 DEF Begun, Path
  <2>6. call' = "recipe" =>
          recipe' \in bound' \/ \E i \in DOMAIN queue' : queue'[i] = recipe'
    <3> SUFFICES ASSUME call = "recipe", recipe \notin bound, recipe # queue[1]
                 PROVE  \E i \in DOMAIN queue' : queue'[i] = recipe
      BY <1>0
    <3>1. PICK i \in DOMAIN queue : queue[i] = recipe
      BY DEF Cached
    <3>2. i - 1 \in 1 .. Len(Tail(queue)) /\ (i - 1) + 1 = i
      BY <1>1, <1>2, <3>1
    <3> QED
      BY <1>2, <3>1, <3>2
  <2>7. phase' = "binding" /\ stage' = 1
    BY DEF Cached
  <2> QED
    BY <2>4, <2>5, <2>6, <2>7 DEF Cached
<1> QED
  BY <1>3, <1>4, <1>5, <1>6, <1>7

\* A step that binds nothing leaves the cache as it was.
LEMMA CacheKept ==
  ASSUME Cached, UNCHANGED <<bindingVars, direction>>
  PROVE  /\ bound' = bound /\ bindings' = bindings
         /\ \A r \in bound' : bindings'[r] = Path(r)'
         /\ binding' = binding
BY DEF Cached, bindingVars, bound, Path

\* A preflight returns when its recipes are bound.
LEMMA PreflightDoneKeeps ==
  ASSUME SessionInv, PreflightDone
  PROVE  SessionInv'
<1> USE DEF PreflightDone, End, callVars, bindingVars, SessionInv
<1>1. Cached'
  BY CacheKept DEF Cached
<1> QED
  BY <1>1 DEF TypeOK, Reserved, Returned, BoundOnceAllResolved

\* Execution begins when its recipe is bound, and charges the chunk.
LEMMA BeginKeeps ==
  ASSUME SessionInv, Begin
  PROVE  SessionInv'
<1> USE DEF Begin, callVars, bindingVars, SessionInv
<1> DEFINE n == Logical(size, limit)
<1>1. /\ account \in Account /\ n \in Nat /\ recipe \in Recipe
      /\ WithinPolicy(policy, account)
  BY DEF TypeOK, Reserved, Logical, Direction
<1>2. /\ {"logical_bytes", "stage_executions"} \subseteq TotalResources
      /\ TotalResources \subseteq CoreResource
  BY DEF CoreResource, TotalResources
<1>3. account' \in Account
  BY <1>1, <1>2, RecordedIsWithin
<1>4. WithinPolicy(policy, account')
  BY <1>1, <1>2, RecordedIsWithin
<1>5. CanRecord(policy, account', "stage_executions", Len(StagesOf[recipe]))
  BY <1>1, <1>2, OtherRoom DEF Reserved
<1>6. Len(StagesOf[recipe]) \in Nat
  BY <1>1, StagesAreSequences
<1>7. stage = 1
  BY DEF Cached
<1> HIDE DEF n
<1>8. TypeOK'
  BY <1>3 DEF TypeOK
<1>9. Reserved'
  <2>1. (Len(StagesOf[recipe]) + 1) - stage = Len(StagesOf[recipe])
    BY <1>6, <1>7
  <2> QED
    BY <1>4, <1>5, <1>6, <1>7, <2>1 DEF Reserved
<1>10. Cached'
  BY CacheKept DEF Cached
<1> QED
  BY <1>8, <1>9, <1>10 DEF Returned, BoundOnceAllResolved

\* A provider call takes its execution out of what was reserved.
LEMMA ExecuteStageKeeps ==
  ASSUME SessionInv, ExecuteStage
  PROVE  SessionInv'
<1> DEFINE stages == Len(StagesOf[recipe])
           left == (stages + 1) - stage
<1>1. TypeOK /\ Reserved /\ Cached
  BY DEF SessionInv
<1>2. /\ phase = "executing"
      /\ stage <= Len(Running)
      /\ CanRecord(policy, account, "stage_executions", 1)
      /\ account' = Recorded(account, "stage_executions", 1)
      /\ UNCHANGED <<policy, direction, bindings, binding, call, recipe, limit,
                     queue>>
  BY DEF ExecuteStage, callVars, bindingVars
<1>3. /\ account \in Account /\ recipe \in Recipe /\ stage \in Nat \ {0}
      /\ WithinPolicy(policy, account)
  BY <1>1 DEF TypeOK, Reserved
<1>4. stages \in Nat /\ stage <= stages
  <2>1. direction \in Direction /\ Running = Path(recipe)
    BY <1>1, <1>2 DEF TypeOK, Cached, Running
  <2> QED
    BY <1>2, <1>3, <2>1, StagesAreSequences
<1>5. "stage_executions" \in CoreResource
  BY DEF CoreResource, TotalResources
<1>6. account' \in Account /\ WithinPolicy(policy, account')
  BY <1>2, <1>3, <1>5, RecordedIsWithin
<1>7. CanRecord(policy, account, "stage_executions", left)
  BY <1>1, <1>2 DEF Reserved
<1> HIDE DEF stages
<1>8. left \in Nat \ {0} /\ left - 1 = (stages + 1) - (stage + 1)
  BY <1>3, <1>4
<1> HIDE DEF left
<1>9. CanRecord(policy, account', "stage_executions",
                (stages + 1) - (stage + 1))
  BY <1>2, <1>3, <1>7, <1>8, RoomLeft
<1>10. CASE /\ \E n \in 0 .. MaxSize : StageAllows(stage, n) /\ size' = n
            /\ stage' = stage + 1
            /\ UNCHANGED <<phase, outcome>>
  <2>1. size' \in Nat /\ Allows(policy, "intermediate_bytes", size')
    BY <1>10, PipelineAssumption DEF StageAllows
  <2>2. TypeOK'
    BY <1>1, <1>2, <1>3, <1>6, <1>10, <2>1 DEF TypeOK
  <2>3. stage' <= stages + 1
    BY <1>3, <1>4, <1>10
  <2>4. Reserved'
    BY <1>1, <1>2, <1>6, <1>9, <1>10, <2>1, <2>3 DEF Reserved, stages
  <2>5. Cached'
    BY <1>1, <1>2, <1>10 DEF Cached, bound, Path
  <2> QED
    BY <1>2, <1>10, <2>2, <2>4, <2>5
    DEF SessionInv, Returned, BoundOnceAllResolved
<1>11. CASE /\ \E how \in Failures : End(how)
            /\ stage' = 1
            /\ UNCHANGED size
  <2>1. phase' = "idle" /\ outcome' # "returned"
    BY <1>11 DEF End, Failures
  <2>2. TypeOK'
    BY <1>1, <1>2, <1>6, <1>11, <2>1 DEF TypeOK
  <2>3. Reserved'
    BY <1>2, <1>6, <2>1 DEF Reserved
  <2>4. Cached'
    BY <1>1, <1>2, <1>11, <2>1 DEF Cached, bound, Path
  <2> QED
    BY <2>1, <2>2, <2>3, <2>4 DEF SessionInv, Returned, BoundOnceAllResolved
<1> QED
  BY <1>10, <1>11 DEF ExecuteStage

\* What is returned is within the ceilings.
LEMMA FinishKeeps ==
  ASSUME SessionInv, Finish
  PROVE  SessionInv'
<1> USE DEF Finish, End, callVars, bindingVars, SessionInv
<1>1. TypeOK'
  BY DEF TypeOK
<1>2. Reserved'
  BY DEF Reserved
<1>3. Returned'
  BY DEF Returned, Reserved, ResultAccepted, Within, TypeOK, Direction
<1>4. Cached'
  BY DEF Cached, bound, Path
<1> QED
  BY <1>1, <1>2, <1>3, <1>4 DEF BoundOnceAllResolved

\* Others charge the account between two calls only.
LEMMA ForeignChargeKeeps ==
  ASSUME SessionInv, NEW r \in {"logical_bytes", "stage_executions"},
         ForeignCharge(r)
  PROVE  SessionInv'
<1>1. r \in CoreResource
  BY DEF CoreResource, TotalResources
<1>2. account' \in Account /\ WithinPolicy(policy, account')
  BY <1>1, RecordedIsWithin
  DEF ForeignCharge, SessionInv, TypeOK, Reserved
<1> QED
  BY <1>2
  DEF ForeignCharge, callVars, bindingVars, SessionInv, TypeOK, Reserved,
      Returned, BoundOnceAllResolved, Cached, bound, Path

\* The inductive invariant of a session.
THEOREM SessionIsSound == Spec => []SessionInv
<1>1. ASSUME SessionInv, [Next]_vars PROVE SessionInv'
  <2>1. CASE Next
    BY <1>1, <2>1, PreflightKeeps, StartKeeps, StartRefusedKeeps,
       BindStageKeeps, CacheBindingKeeps, PreflightDoneKeeps, BeginKeeps,
       ExecuteStageKeeps, FinishKeeps, ForeignChargeKeeps
    DEF Next
  <2>2. CASE UNCHANGED vars
    BY <1>1, <2>2
    DEF vars, callVars, bindingVars, SessionInv, TypeOK, Reserved, Returned,
        BoundOnceAllResolved, Resolvable, Logical, Cached, Begun, bound, Path
  <2> QED
    BY <1>1, <2>1, <2>2
<1> QED
  BY <1>1, InitSession, PTL DEF Spec

-----------------------------------------------------------------------------
(* The properties.                                                         *)

\* With room for the rest of the call no provider call is refused.
LEMMA SoundIsNotRefused == SessionInv => NeverRefusedHalfWay
<1> SUFFICES ASSUME SessionInv PROVE NeverRefusedHalfWay
  OBVIOUS
<1>1. Reserved /\ TypeOK /\ Cached
  BY DEF SessionInv
<1>2. ASSUME phase = "executing", stage <= Len(Running)
      PROVE  CanRecord(policy, account, "stage_executions", 1)
  <2> DEFINE left == (Len(StagesOf[recipe]) + 1) - stage
  <2>1. /\ recipe \in Recipe /\ stage \in Nat /\ policy \in Policy
        /\ account \in Account /\ direction \in Direction
        /\ Running = Path(recipe)
    BY <1>1, <1>2 DEF TypeOK, Cached, Running
  <2>2. left \in Nat /\ 1 <= left
    BY <1>2, <2>1, StagesAreSequences
  <2>3. CanRecord(policy, account, "stage_executions", left)
    BY <1>1, <1>2 DEF Reserved
  <2> QED
    BY <2>1, <2>2, <2>3, RoomForLess
<1> QED
  BY <1>1, <1>2 DEF NeverRefusedHalfWay, Reserved

\* When a recipe would pass a ceiling of logical bytes or stage executions, the
\* call is refused before its first provider is called; afterwards there is room
\* for everything it still charges.
THEOREM PrecheckForetells == Spec => []NeverRefusedHalfWay
  BY SessionIsSound, SoundIsNotRefused, PTL

\* While a session binds, all providers of the request are known to exist, and
\* no recipe is bound a second time; and a recipe runs only when all of its stages
\* were bound, whatever failed before.
THEOREM BindsOnceAndWhole == Spec => []BoundOnceAndWhole
<1>1. SessionInv => BoundOnceAndWhole
  BY DEF SessionInv, Cached, BoundOnceAndWhole, RunsWhole, Running
<1> QED
  BY <1>1, SessionIsSound, PTL

\* Between two stages data is within the policy, and what is returned is within
\* the caller's limit too; a decoder returns exactly what was expected.
THEOREM ResultsAreWithin == Spec => []ResultWithinCeilings
<1>1. SessionInv => ResultWithinCeilings
  BY DEF SessionInv, Reserved, Returned, ResultWithinCeilings
<1> QED
  BY <1>1, SessionIsSound, PTL
=============================================================================
