\* README.md:418: the alarms inserted after the start are handled.
SPECIFICATION Spec
CONSTANTS
  MaxId = 2
  Matching = {1, 2}
  RetryLimits = {1}
  RowsNamed = TRUE
  MaxFaults = 0
INVARIANTS
  NewRowsReachTheReader
CHECK_DEADLOCK FALSE
