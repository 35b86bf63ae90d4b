\* One report of a child that changes parents.
SPECIFICATION Spec
CONSTANTS
  p = p
  q = q
  c = c
  h = h
  None = None
  Sessions = {p, q, c}
  Chats = {}
  Reports = {r1}
  Relays = {}
  Calls <- OneWay
  MaxChildren = 1
  Capacity = 1
  MaxRevision = 2
INVARIANTS EvidenceWakesOnce
CHECK_DEADLOCK FALSE
