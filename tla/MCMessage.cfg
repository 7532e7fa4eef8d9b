\* A statement over up to two tables; an alert with up to two addresses; two
\* diagnoses and the MCP server; a message delivered once or twice, with one
\* failing call of DingTalk.
SPECIFICATION MCSpec
CONSTANTS
  NoSchema = NoSchema
  NoVersion = NoVersion
  NewCase = "c9"
  Findable = {"c3", "c5", "c9"}
  Schemas = {1, 2}
  Tables = {"t", "u"}
  Instance <- InstanceTable
  Library <- CaseLibrary
  MaxRoutes = 3
  CandidateLimit = 4
  MetricNames = {"cpu_usage", "active_threads"}
  Threads = {1, 2}
  Metrics <- BothMetrics
  MaxTurns <- Turns
  MaxStreams = 2
  Hosts = {1, 2}
  Alerts <- AlertTexts
  Advice <- QwenProfiles
  MaxParts = 3
  MaxProgress <- Deliveries
  MaxReport = 1
  MaxFaults = 1
INVARIANTS
  SqlTypeOK
  TypeOK
  RoutedIffPlaceable
  EvidenceIsOfStatement
  AnswerSettlesSchema
  StatusIsTruthful
  CasesAreRelevant
  WithoutHitsRulesDecide
  EvidenceIsOfOneHost
  ReportKeepsItsShape
  MetricsAreOwn
  WholeAnswerIsShown
  NothingLeftBehind
  EveryCardIsClosed
CHECK_DEADLOCK FALSE
