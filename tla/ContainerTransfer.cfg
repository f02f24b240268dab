\* Writer and reader under one policy, unlimited or with ceilings that some
\* containers meet exactly, and at most two faults of the storage.
SPECIFICATION Spec
CONSTANTS
  Unbounded = Unbounded
  StreamIds = {"s1", "s2"}
  RecipeIds = {"r1"}
  HeaderSize = 1
  ManifestSize = 1
  Declarations <- MCDeclarations
  RecordHeaderSize = 1
  UintMax = 99
  ManifestHeaderSize = 1
  Policies <- TransferPolicies
  Chunks <- MixedChunks
  SharedResources = {}
  SharedBound = 0
  ReaderPolicies <- TransferPolicies
  Sources <- Nothing
  ReaderShared = {}
  ReaderBound = 0
  SamePolicy = TRUE
  MaxFaults = 2
INVARIANTS
  ReadableUnderTheSamePolicy
PROPERTIES
  DeliversStreams
  FinishedIsRead
CHECK_DEADLOCK FALSE
