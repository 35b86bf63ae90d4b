\* Producers against the limits, beside an ordinary prompt and with one fault:
\* two messages with two bodies, three keys, an inbox that holds one outstanding
\* message and batches of one.
SPECIFICATION FairSpec
CONSTANTS
  Messages = {m1, m2}
  Bodies = {x, y}
  Keys = {k1, k2, k3}
  Batches = {b1, b2}
  OwnerPrompts = {o1}
  Turns = {}
  Echo = TRUE
  Capacity = 1
  BatchLimit = 1
  Commands <- AllCommands
  GateStates = {"open", "closed"}
  MaxFaults = 1
  None = None
INVARIANTS RemovedNeverTaken
PROPERTIES AdmissionIsStable ResumeOnlyByFreshKey 
CHECK_DEADLOCK FALSE
