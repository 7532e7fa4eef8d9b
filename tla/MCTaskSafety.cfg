\* Two handler threads at work on one task each, any one thing may go wrong.
SPECIFICATION Spec
CONSTANTS
  Thread = {h1, h2}
  Task = {a, b}
  NoTask = none
  MaxCalls = 1
  MaxFaults = 1
SYMMETRY Symmetry
INVARIANTS
  TypeOK
  RecordAgreesWithReturn
  UsageIsOwn
  RecordIsComplete
  StatusIsExplained
PROPERTIES
  ImplementsLifecycle
CHECK_DEADLOCK FALSE
