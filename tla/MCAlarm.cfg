\* Ids commit in any order; the worker crashes, fails and is restarted, until
\* the faults stop.  Or a task any two of whose writes fail.
SPECIFICATION MCSpec
CONSTANTS
  MaxId = 3
  Matching = {1, 2, 3}
  RetryLimits = {0, 2}
  RowsNamed = FALSE
  MaxFaults = 3
  Thread = {h1}
  Task = {a}
  NoTask = none
  MaxCalls = 1
  MaxTaskFaults = 2
INVARIANTS
  TypeOK
  PushesBounded
  ProcessedWasPushed
  NothingPassedOver
  SavedWasPushed
PROPERTIES
  SavedNeverDecreases
  ImplementsDelivery
  AheadIsProcessed
  CatchesUp
  EveryTaskReturns
CHECK_DEADLOCK FALSE
