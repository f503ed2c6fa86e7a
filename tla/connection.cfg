\* Connections: two, with three frames between them, of which two may wait.
\* Codec: limits that strings of three cells exceed.
\* Daemons: two processes, four starts; one may be displaced, stopped and started again while the other runs.
SPECIFICATION LocalSpec
CONSTANTS
  Connections = {c1, c2}
  Lists = {l1}
  None = None
  MaxPipelined = 2
  MaxFrames = 3
  MaxReasonSize = 2
  MaxCommandArguments = 2
  MaxCommandSize = 2
  Daemons = {d1, d2}
  Inodes = {i1, i2}
  Keys = {k1, k2}
  Nothing = Nothing
  MaxStarts = 4
SYMMETRY LocalSymmetry
INVARIANTS
  AnswersInOrder
  ContextShared
  RequestsTracked
  RoundTrip
  OneReading
  SocketRetained
  KeyPersists
PROPERTIES
  IdentitiesCurrent
