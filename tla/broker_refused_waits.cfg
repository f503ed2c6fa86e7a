\* A second client knocks when a deadline has passed.
SPECIFICATION ContendedFairSpec
CONSTANTS
  Requests = {r1}
  Sessions = {s1, s2}
  None = None
  Capacity = 1
  MaxPending = 1
  MaxAttempt = 2
PROPERTIES
  OverdueAnswered
CHECK_DEADLOCK FALSE
