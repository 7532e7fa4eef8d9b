\* test_optimization_task_service.py:167, for two handler threads at once.
SPECIFICATION Spec
CONSTANTS
  Thread = {h1, h2}
  Task = {a, b}
  NoTask = none
  MaxCalls = 0
  MaxFaults = 0
INVARIANTS
  DebugShowsOwnRetrieval
CHECK_DEADLOCK FALSE
