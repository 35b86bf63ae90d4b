\* Two messages, two batches and an ordinary prompt; two faults anywhere, a
\* provider that chooses its turn ids, and an authority that changes.
SPECIFICATION Spec
CONSTANTS
  Messages = {m1, m2}
  Bodies = {x}
  Keys = {k1, k2, k3}
  Batches = {b1, b2}
  OwnerPrompts = {o1}
  Turns = {t1, t2, t3, t4}
  Echo = FALSE
  Capacity = 2
  BatchLimit = 2
  Commands <- EnqueueAndPause
  GateStates = {"open", "withheld", "closed"}
  MaxFaults = 2
  None = None
SYMMETRY Identities
INVARIANTS TypeOK AtMostOnce TickHasTheSession SessionTracksProvider ConsumedByItsOwnTurn
PROPERTIES StopHoldsDelivery SteerSparesDelivery KeepsPromise
