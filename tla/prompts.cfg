\* Three prompts, one of them fit for native guidance; a crash, a fault and a
\* command result that is forgotten.
SPECIFICATION FairSpec
CONSTANTS
  Prompts = {p1, p2, guide}
  Guides = {guide}
  Resends = FALSE
  MaxCrashes = 1
  MaxFaults = 1
  MaxEvictions = 1
  None = None
  p1 = p1
  p2 = p2
  guide = guide
INVARIANTS TypeOK AcceptedSurvives EngineTracksProvider
PROPERTIES StartedOnce GuidanceIsNotReplayed StartsInOrder QueuedPromptStarts
CHECK_DEADLOCK FALSE
