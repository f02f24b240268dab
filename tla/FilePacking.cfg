\* Packages of up to two sources with up to two chunks each.
SPECIFICATION Spec
CONSTANTS
  Unbounded = Unbounded
  StreamIds = {0, 1}
  RecipeIds = {0, 1}
  HeaderSize = 1
  ManifestSize = 1
  Declarations <- NoCounts
  RecordHeaderSize = 1
  UintMax = 99
  Chunks <- EncodedChunks
  SharedResources = {}
  SharedBound = 0
  SizeAfter <- SizeAfterStage
  Policies <- PackagePolicies
  SourceLists <- Requested
  EncoderSets <- Registered
  ClaimedSets = {{}, {2}}
  LogicalSizes = {0, 1, 2, 3}
  MaxChunks = 2
  InspectionPolicies <- RecoveryPolicies
INVARIANTS
  RecoverableUnderPackagingPolicy
  NothingIsLeftBehind
  InspectionForetellsRecovery
CHECK_DEADLOCK FALSE
