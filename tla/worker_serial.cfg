\* Three keys; the page waits for each call to end before it starts the next.
SPECIFICATION WorkerSpec
CONSTANTS
  Keys = {k1, k2, k3}
  Calls = {a}
  None = None
SYMMETRY WorkerSymmetry
INVARIANTS
  MetadataMatchesBlobs
  MemoryMatchesStore
  IdentitiesMatchVault
