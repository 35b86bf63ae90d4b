\* One report and one relay while their child is claimed or transferred, closed
\* and deleted; no owner Chat, so ensure_delivery_settled is the only guard.
SPECIFICATION FairSpec
CONSTANTS
  p = p
  q = q
  c = c
  h = h
  None = None
  Sessions = {p, q, c}
  Chats = {}
  Reports = {r1}
  Relays = {m1}
  Calls <- OneWay
  MaxChildren = 1
  Capacity = 1
  MaxRevision = 2
INVARIANTS MailFollowsLinks
PROPERTIES ReceiptSurvives 
CHECK_DEADLOCK FALSE
