SPECIFICATION FairSpec
CONSTANTS
  Workers <- Workers2
  Registered <- Registered2
  Capabilities <- MCCapabilities
  Caps <- MCCaps
  NoTask = NoTask
  NoWorker = NoWorker
  Goals = {"probe"}
  NoGoal = NoGoal
  MemoryCap = 0
  Callers = {u1, u2}
  Operators = {op}
  Forbidden <- MCForbidden
  PlanOf <- MCPlanOf
  ModelsMayFail = FALSE
  Reasons = {"quota"}
  NoReason = ""
  Threads = TRUE
INVARIANTS
  BusyHasReleaser
  StopBlocksNewCalls
PROPERTIES
  StopDrains
  CallsReturn
