\* README.md:555 of the program: a report lists what could not be collected.
SPECIFICATION MCSpec
CONSTANTS
  NoSchema = NoSchema
  NoVersion = NoVersion
  NewCase = "c9"
  Findable = {"c3", "c5", "c9"}
  Schemas = {1, 2}
  Tables = {"t", "u"}
  Instance <- InstanceTable
  Library <- CaseLibrary
  MaxRoutes = 3
  CandidateLimit = 4
  MetricNames = {"cpu_usage", "active_threads"}
  Threads = {1, 2}
  Metrics <- BothMetrics
  MaxTurns <- Turns
  MaxStreams = 2
  Hosts = {1, 2}
  Alerts <- AlertTexts
  Advice <- QwenProfiles
  MaxParts = 3
  MaxProgress <- Deliveries
  MaxReport = 1
  MaxFaults = 1
INVARIANT
  ReportListsGaps
CHECK_DEADLOCK FALSE
