\* One run, one target.
SPECIFICATION FairSpec
CONSTANTS
  explorer = explorer
  Runs = {r1}
  Agents <- OneAgent
  AgentOf <- AllOneAgent
  MaxConcurrent <- One
  Delegators <- OneAgent
  MaxDepth <- One
  Targets <- One
  Limit = 1
  MaxContinuation = 1
  MaxEvents = 1
  MaxCrashes = 0
  MaxFaults = 0
  None = None
PROPERTIES AnswerArrives
CHECK_DEADLOCK FALSE
