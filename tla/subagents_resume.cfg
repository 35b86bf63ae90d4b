\* One run delegated while its session is resuming.
SPECIFICATION Spec
CONSTANTS
  explorer = explorer
  Runs = {r1}
  Agents <- OneAgent
  AgentOf <- AllOneAgent
  MaxConcurrent <- One
  Delegators <- OneAgent
  MaxDepth <- One
  Targets <- One
  Limit = 1
  MaxContinuation = 1
  MaxEvents = 1
  MaxCrashes = 1
  MaxFaults = 0
  None = None
PROPERTIES IdentityIsStable
CHECK_DEADLOCK FALSE
