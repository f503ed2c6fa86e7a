\* Two connections at a time, three clients in turn, one identity list,
\* up to three contents of the file in doubt.
SPECIFICATION SessionSpec
CONSTANTS
  Sessions = {s1, s2}
  Clients = {c1, c2, c3}
  Values = {v1}
  None = None
  MaxDoubt = 3
SYMMETRY SessionSymmetry
INVARIANTS
  RevokedStaysOut
  AdvertisedIsStored
  IdentitiesAreOwn
  GrantedHoldsSlot
  ServedIsPaired
  SlotIsHeld
