SPECIFICATION WorkersSpec
CONSTANTS
  Request = {q1, q2}
  CloneRequest = {q1}
  MaxInflight = 2
  QueueSize = 1
  MaxChunks = 2
  Caller = {s1, s2}
  AvatarCap = 2
  MaxSegments = 1
INVARIANTS
  ModelServicesAreSafe
PROPERTIES
  PrivateFilesAreDeleted
CHECK_DEADLOCK FALSE
