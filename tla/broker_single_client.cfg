\* One client that reconnects; three callers, room for two of them and for one
\* request in flight.
SPECIFICATION SingleClientSpec
CONSTANTS
  Requests = {r1, r2, r3}
  Sessions = {s1, s2}
  None = None
  Capacity = 1
  MaxPending = 2
  MaxAttempt = 2
SYMMETRY Symmetry
INVARIANTS
  AwaitedIsPending
  WorkConserving
  WorkerViewAgrees
PROPERTIES
  ImplementsLine
CHECK_DEADLOCK FALSE
