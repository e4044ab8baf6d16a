SPECIFICATION ServicesSpec
CONSTANTS
  None = None
  Candidate = {c1}
  Evaluation = {e1, e2}
  MaxVersion = 3
  MaxCrashes = 1
  Job = {j1, j2}
  MaxDue = 2
  ghost = ghost
  Node = {a, b, c}
  Id <- MCId
  Post = {p1, p2, p3}
  Key = {k1}
  MaxDeaths = 1
  Window = 2
  SeenLimit = 3
  SeenKept = 2
  MaxEvents = 5
  CallId = {i1, i2}
  MaxTrace = 4
  Reader = {r1}
  MaxTurns = 2
  MaxCalls = 1
INVARIANTS
  EvolutionInv
  SchedulerInv
  VerdictIsRight
  LabInv
  RetriesAgree
PROPERTIES
  JobFires
  FeedIsHonest
  StreamsEnd
CHECK_DEADLOCK FALSE
