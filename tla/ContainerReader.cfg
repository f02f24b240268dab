\* Every source of at most two chunks, and a consumer that charges bytes to
\* the accountant of the reader.
SPECIFICATION ReaderSpec
CONSTANTS
  Unbounded = Unbounded
  StreamIds = {"s1", "s2"}
  RecipeIds = {"r1", "r2"}
  HeaderSize = 1
  ManifestSize = 2
  Declarations <- MCDeclarations
  RecordHeaderSize = 2
  UintMax = 99
  ManifestHeaderSize = 1
  ReaderPolicies <- MCPolicies
  Sources <- MCSources
  ReaderShared = {"container_bytes"}
  ReaderBound = 2
  MaxChunks = 2
INVARIANTS
  AcceptsOnlyValid
  RefusesOnlyInvalid
  DeliveredIsCheckedPrefix
PROPERTIES
  EndedForGood
CHECK_DEADLOCK FALSE
