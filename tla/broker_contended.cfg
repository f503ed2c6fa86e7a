\* Any number of clients: a session, its successor and one more, with room for
\* two requests at a time.
SPECIFICATION Spec
CONSTANTS
  Requests = {r1, r2}
  Sessions = {s1, s2, s3}
  None = None
  Capacity = 2
  MaxPending = 2
  MaxAttempt = 3
SYMMETRY Symmetry
INVARIANTS
  QueueInAdmissionOrder
  WorkOnActiveSession
  WaitingIsAnnounced
  CommandsWellFormed
  AnswerFromLastAttempt
PROPERTIES
  AnsweredIsLeftAlone
CHECK_DEADLOCK FALSE
