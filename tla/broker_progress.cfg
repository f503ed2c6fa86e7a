\* The actor serves its branches fairly and the push service is polled; no deadline need ever pass.
SPECIFICATION PushSpec
CONSTANTS
  Requests = {r1, r2}
  Sessions = {s1}
  None = None
  Capacity = 1
  MaxPending = 2
  MaxAttempt = 1
INVARIANTS
  LatestIsPublished
PROPERTIES
  WaitingIsTried
  OverdueAnswered
  CancellationAnswered
CHECK_DEADLOCK FALSE
