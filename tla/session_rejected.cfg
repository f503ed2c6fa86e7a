\* A second browser pairs while the revoked one is still bound.
SPECIFICATION SessionSpec
CONSTANTS
  Sessions = {s1, s2}
  Clients = {c1, c2}
  Values = {v1}
  None = None
  MaxDoubt = 1
INVARIANTS
  RejectedHoldsNothing
