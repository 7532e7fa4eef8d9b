\* README.md:422: a restarted worker continues from its checkpoint.
SPECIFICATION Spec
CONSTANTS
  MaxId = 2
  Matching = {1, 2}
  RetryLimits = {1}
  RowsNamed = TRUE
  MaxFaults = 1
PROPERTIES
  ResumesFromCheckpoint
CHECK_DEADLOCK FALSE
