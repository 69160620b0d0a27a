SPECIFICATION Spec
CONSTANTS
  Workers <- Workers2
  Registered <- Registered2
  Capabilities <- MCCapabilities
  Caps <- MCCaps
  NoTask = NoTask
  NoWorker = NoWorker
  Goals = {"check"}
  NoGoal = NoGoal
  MemoryCap = 0
  Callers = {u1}
  Operators = {op}
  Forbidden <- MCForbidden
  PlanOf <- MCPlanOf
  ModelsMayFail = FALSE
  Reasons = {"quota"}
  NoReason = ""
  Threads = TRUE
PROPERTIES
  NoDispatchWhileStopped
