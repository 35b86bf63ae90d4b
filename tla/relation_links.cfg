\* Two callers that may act late on what they read of one child, an owner Chat
\* that adopts by sending, deletion holds; four changes per link.
SPECIFICATION Spec
CONSTANTS
  p = p
  q = q
  c = c
  h = h
  None = None
  Sessions = {p, c, h}
  Chats = {h}
  Reports = {r1}
  Relays = {m1}
  Calls <- BothWays
  MaxChildren = 1
  Capacity = 1
  MaxRevision = 4
INVARIANTS TypeOK LinksWithinRules
PROPERTIES DispatchedWithAuthority NoStaleTransition HeldLinkStays
CHECK_DEADLOCK FALSE
