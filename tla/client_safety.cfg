\* Three sockets alive or remembered, three requests (one an identity listing), a buffer of two.
SPECIFICATION ClientSpec
CONSTANTS
  Sockets = {w1, w2, w3}
  Requests = {r1, r2, r3}
  EarlyRequests = {r3}
  Credentials = {p1, p2}
  Lists = {i1, i2}
  None = None
  MaxPending = 2
  MaxStore = 3
  DeleteMayFail = TRUE
SYMMETRY ClientSymmetry
INVARIANTS
  NoLeakedSocket
  ConnectedIsStored
  AnnouncedIsCurrent
  PendingIsServed
PROPERTIES
  AnswersLiveRequest
