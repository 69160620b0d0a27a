SPECIFICATION Spec
CONSTANTS
  StoreThreads = {"t", "u"}
  Clients = {"a", "b"}
  MaxRequests = 3
  BridgeCalls = {"c"}
  MaxInstances = 2
  Devices = {"d1", "d2"}
  DebugCalls = {"c1"}
  MaxCommands = 2
  PanelThreads = {"t"}
  MaxRuns = 3
  TokenLimit = 5
  Lengths = {1, 5}
  Histories <- MCHistories
  MaxMessages = 2
  MaxTokens = 2
  MaxStarts = 3
  Catalog <- MCCatalog
  Quotas = {1}
  Wishes <- MCWishes
  MaxFailures = 1
  Uploaders = {"u", "v"}
  Folders = {"d"}
  FileNames = {"f"}
  MaxChunks = 2
  Sizes = {2, 3}
  MaxFiles = 3
  MaxMs = 1
  LlmThreads = {"t", "u"}
  MaxAsked = 2
  Instances <- MCInstances
  Donors <- MCDonors
  Envs <- MCEnvs
INVARIANTS DocumentSound  AsksItsOwn AnsweredOnce ClientSound SavedStay 
 
CHECK_DEADLOCK FALSE
