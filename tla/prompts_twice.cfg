\* One prompt, a crash, and a client that repeats its command while the session
\* is being resumed.
SPECIFICATION FairSpec
CONSTANTS
  Prompts = {p1}
  Guides = {}
  Resends = TRUE
  MaxCrashes = 1
  MaxFaults = 0
  MaxEvictions = 0
  None = None
  p1 = p1
  p2 = p2
  guide = guide
PROPERTIES NeverRepeated
CHECK_DEADLOCK FALSE
