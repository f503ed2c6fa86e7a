\* Requests left out: connecting does not depend on them.
SPECIFICATION ClientFairSpec
CONSTANTS
  Sockets = {w1, w2}
  Requests = {}
  EarlyRequests = {}
  Credentials = {p1}
  Lists = {i1}
  None = None
  MaxPending = 1
  MaxStore = 3
  DeleteMayFail = FALSE
INVARIANTS
  NoStall
PROPERTIES
  Settles
