\* A private byte account; chunks and logical bytes charged by others.
SPECIFICATION WriterSpec
CONSTANTS
  Unbounded = Unbounded
  StreamIds = {"s1", "s2"}
  RecipeIds = {"r1", "r2"}
  HeaderSize = 1
  ManifestSize = 1
  Declarations <- MCDeclarations
  RecordHeaderSize = 2
  UintMax = 9
  Policies <- MCPolicies
  Chunks <- MCChunks
  SharedResources = {"chunks", "logical_bytes"}
  SharedBound = 2
INVARIANTS
  TypeOK
  AccountWithinPolicy
  FinishAlwaysPossible
  EmissionReserved
  NoTornRecordWithoutFault
  CompletedContainerIsValid
PROPERTIES
  NothingAfterTheEnd
CHECK_DEADLOCK FALSE
