SPECIFICATION FairSpec
CONSTANTS
  Workers <- Workers3
  Registered <- Registered3
  Capabilities <- MCCapabilities
  Caps <- MCCaps
  NoTask = NoTask
  NoWorker = NoWorker
  Goals = {"deploy", "check", "backup", "wipe"}
  NoGoal = NoGoal
  MemoryCap = 5
  Callers = {u1, u2}
  Operators = {op}
  Forbidden <- MCForbidden
  PlanOf <- MCPlanOf
  ModelsMayFail = TRUE
  Reasons = {"quota"}
  NoReason = ""
  Threads = FALSE
INVARIANTS
  WorkersHome
  
  
PROPERTIES
  NoDoubleBooking
  ServiceSpec
