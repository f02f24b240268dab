\* Two calls of an encoder or decoder, one of them of a preflight perhaps.
SPECIFICATION Spec
CONSTANTS
  Unbounded = Unbounded
  Policies <- MCPolicies
  Recipe <- MCRecipe
  StagesOf <- MCStagesOf
  Registered <- MCRegistered
  MaxSize = 2
  MaxCalls = 2
  MaxRequest = 2
  ForeignBound = 1
INVARIANTS
  NeverRefusedHalfWay
  BoundOnceAndWhole
  ResultWithinCeilings
CHECK_DEADLOCK FALSE
