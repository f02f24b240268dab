\* Two sessions that may not overwrite, one that may, and a reader; asynchronous
\* exceptions, crashes and a power failure.
SPECIFICATION Spec
CONSTANTS
  Sessions = {s1, s2, s3}
  Overwriting = {s3}
  Readers = {r1}
  Absent = Absent
  Previous = Previous
  Interrupts = TRUE
INVARIANTS
  OnlyCompleteVisible
  ReceiptMeansPublished
  ResidueIsReported
  FailureMeansUnpublished
PROPERTIES
  PublishesAtomically
CHECK_DEADLOCK FALSE
