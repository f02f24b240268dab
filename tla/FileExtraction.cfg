\* Two extractions, one replacement of the directory, and foreign files.
SPECIFICATION Spec
CONSTANTS
  Extractions <- MCExtractions
  MembersOf <- MCMembersOf
  Absent = Absent
  Other = Other
  MaxIdentity = 2
INVARIANTS
  OnlyDecodedInItsRoot
  AllOrNothing
  ResidueIsReported
PROPERTIES
  NeverOverwrites
CHECK_DEADLOCK FALSE
