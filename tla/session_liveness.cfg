\* Two connections at a time, two clients in turn, one identity list.
SPECIFICATION SessionFairSpec
CONSTANTS
  Sessions = {s1, s2}
  Clients = {c1, c2}
  Values = {v1}
  None = None
  MaxDoubt = 1
PROPERTIES
  RevokedLeaves
  DeadLeaves
