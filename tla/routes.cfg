\* A CLI command and the web server on one database.
SPECIFICATION Spec
CONSTANTS
  aider = aider
  http = http
  summary = summary
  cli = cli
  web = web
  None = None
  RouteOrder <- SmallOrder
  Families = {"execution"}
  Executors = {"aider", "http", "local"}
  Lanes = {"cli", "api"}
  Abilities = {"code", "text", "none"}
  Words = {}
  DEFAULT_EXECUTOR = "aider"
  Fingerprints = {"timeout"}
  Cli = {cli}
  Web = {web}
  Offered <- SmallOffered
  Shipped <- SmallShipped
  Stored <- SmallStored
  RegistryFiles <- SmallRegistryFiles
  PolicyFiles <- SmallPolicyFiles
  WeightReports <- SmallWeightReports
  ProfileChanges <- SmallProfileChanges
  Telemetries <- SmallTelemetries
  Tasks <- SmallTasks
  AuditRequests <- SmallAuditRequests
  RoundRequests = {0, 2}
  SelectionBound = 1
  CommandBound = 4
INVARIANTS LogReplaysToTruth MemoryWasCommitted SupportedRouteIsFound
PROPERTIES ReviewChangesWhatWasApproved SuggestionsSettle
