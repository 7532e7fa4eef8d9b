\* Two requests, each of any kind, with clients that may leave; or two
\* diagnoses and the MCP server.
SPECIFICATION MCSpec
CONSTANTS
  MaxRequests = 2
  MaxProgress = 1
  ReportLengths = {2}
  Threads = {1, 2}
  Metrics <- BothMetrics
  MaxTurns <- Turns
  MaxStreams = 2
INVARIANTS
  TypeOK
  OneServicePerProvider
  StreamIsWellFormed
  VerdictFitsReport
PROPERTIES
  EveryRequestEnds
  EveryAnalysisEnds
CHECK_DEADLOCK FALSE
