SPECIFICATION FairSpec
CONSTANTS
  r1 = r1  r2 = r2
  clock = clock  write = write  banned = banned  ghost = ghost
  None = None
  Run = {r1, r2}
  Tool = {clock, write, banned, ghost}
  Action <- Policy
  Turns <- MCTurns
  MaxSteps = 1
  MaxAsks = 2
PROPERTIES
  EveryDriveLeavesVerdict
CHECK_DEADLOCK FALSE
