\* README.md:421: the checkpoint is saved only after the push succeeded.
SPECIFICATION Spec
CONSTANTS
  MaxId = 2
  Matching = {1, 2}
  RetryLimits = {1}
  RowsNamed = TRUE
  MaxFaults = 1
INVARIANTS
  ProcessedWasShown
CHECK_DEADLOCK FALSE
