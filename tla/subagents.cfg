\* Two runs that may nest or follow one another, two targets each, a crash and a fault.
SPECIFICATION Spec
CONSTANTS
  explorer = explorer
  Runs = {r1, r2}
  Agents <- OneAgent
  AgentOf <- AllOneAgent
  MaxConcurrent <- Two
  Delegators <- OneAgent
  MaxDepth <- One
  Targets <- Two
  Limit = 2
  MaxContinuation = 1
  MaxEvents = 1
  MaxCrashes = 1
  MaxFaults = 1
  None = None
SYMMETRY Identities
INVARIANTS TypeOK  CallersAreAnswered AnswerMatchesRun VerdictStands OneSuccessor
CHECK_DEADLOCK FALSE
