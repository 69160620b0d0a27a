SPECIFICATION Spec
CONSTANTS
  ClawUsers = {"a", "b"}
  ClawThreads = {"t"}
  ClawForms = {"f", "g"}
  MaxRows = 2
  MaxIssued = 1
  MaxSids = 2
  MaxBoots = 1
  MaxOps = 1
  KeyThreads = {"r", "s"}
  Names = {"a", "b"}
  MaxKeyOps = 3
  MaxKeyBoots = 1
  Providers = {"openai", "anthropic"}
  LogLimit = 2
  MaxSamples = 3
  Latencies = {0, 40000}
  Amounts = {2}
  MaxCalls = 4
  MaxDays = 4
  MaxRestarts = 1
INVARIANTS IssuedKeys 
  
CHECK_DEADLOCK FALSE
