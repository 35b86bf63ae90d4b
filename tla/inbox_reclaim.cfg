\* One message, one batch and a crash between its prompt and its fence.
SPECIFICATION Spec
CONSTANTS
  Messages = {m1}
  Bodies = {x}
  Keys = {k1}
  Batches = {b1}
  OwnerPrompts = {}
  Turns = {}
  Echo = TRUE
  Capacity = 1
  BatchLimit = 1
  Commands <- EnqueueOnly
  GateStates = {"open"}
  MaxFaults = 1
  None = None
INVARIANTS ReconstructedClaimIsSent
CHECK_DEADLOCK FALSE
