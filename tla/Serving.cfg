SPECIFICATION ServingSpec
CONSTANTS
  r1 = r1  r2 = r2
  clock = clock  write = write  banned = banned  ghost = ghost
  None = None
  Run = {r1, r2}
  Tool = {clock, write, banned, ghost}
  Action <- Policy
  Turns <- MCTurns
  MaxSteps = 1
  MaxAsks = 2
  Client = {c1, c2, c3}
  Lifespan = lifespan
  MaxBuilds = 4
  MaxConnections = 2
  MaxSessions = 2
  MaxAttempts = 2
  Sizes = {1, 2}
  MaxMessages = 2
  MaxBytes = 4
  Token = {1, 2}
  Expiry <- MCExpiry
  Skew = 1
  MaxEntries = 1
  Burst = 2
  Rate = 1
  Stale = 2
  MaxTime = 4
  PersonaId = {p1, p2}
  ConsentId = {k1}
  MaxRevision = 2
  Body = {b1, b2}
  Session = {session}
  Faults = {"write", "sync"}
  c1 = c1  c2 = c2  c3 = c3
SYMMETRY Clients
INVARIANTS
  RunInv
  FactoryInv
  GatewayInv
  LimitsHold
  ConsentIsDurable
PROPERTIES
  SettledIsFinal
  ExecutorLeavesVerdict
  FlushIsHonest
CHECK_DEADLOCK FALSE
