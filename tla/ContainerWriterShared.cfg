\* Another component charges container bytes to the same accountant.
SPECIFICATION WriterSpec
CONSTANTS
  Unbounded = Unbounded
  StreamIds = {"s1", "s2"}
  RecipeIds = {"r1", "r2"}
  HeaderSize = 1
  ManifestSize = 1
  Declarations <- MCDeclarations
  RecordHeaderSize = 2
  UintMax = 9
  Policies <- MCPolicies
  Chunks <- MCChunks
  SharedResources = {"container_bytes"}
  SharedBound = 2
INVARIANTS
  NoTornRecordWithoutFault
CHECK_DEADLOCK FALSE
