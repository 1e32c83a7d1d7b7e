SPECIFICATION Spec
CONSTANTS
  Base = 3
  SeqWidth = 2
  CodeWidth = 1
  IntHalf = 100
  MaxField = 1
  MaxBytes = 8
INVARIANTS
  RoundTrip
  Canonical
CHECK_DEADLOCK FALSE
