\* One task each: a decoded manifest, a loaded suite, a suite that is run.
SPECIFICATION Spec
CONSTANTS
  Tasks <- MCTasks
  HeaderSize = 4
  Uint16 = 3
  Uint32 = 40
  IsExtensionId <- MCIsExtensionId
  IsUrl <- MCIsUrl
  Unbounded = Unbounded
  Bytes = {"00", "ff"}
  Sha256 <- MCSha256
  ExtensionIds <- MCExtensionIds
  CaseIds = {"a", "b"}
  Base = 2
  MaxLevel = 1
  MaxDictionary = 2
  Overhead = 2
  NoCeiling = NoCeiling
  NFC <- MCNFC
  IsFileName <- MCIsFileName
  Ask <- MCAsk
INVARIANTS
  ManifestsAreCanonical
  SuitesAreCanonical
  VerdictsFollowTheContract
CHECK_DEADLOCK FALSE
