\* One interrupt after the target became visible.
SPECIFICATION Spec
CONSTANTS
  Sessions = {s1, s2, s3}
  Overwriting = {s3}
  Readers = {}
  Absent = Absent
  Previous = Previous
  Interrupts = TRUE
INVARIANTS
  NoFailureOnceVisible
CHECK_DEADLOCK FALSE
