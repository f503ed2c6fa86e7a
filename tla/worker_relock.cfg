\* One call at a time; the connection is lost while a key is removed.
SPECIFICATION WorkerSpec
CONSTANTS
  Keys = {k1}
  Calls = {a}
  None = None
SYMMETRY WorkerSymmetry
PROPERTIES
  LockHolds
