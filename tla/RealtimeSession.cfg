SPECIFICATION FairSpec
CONSTANTS
  max_turns = 2
  speech_queue_size = 1
  MaxPhrases = 1
  MaxMedia = 1
  MaxInputs = 3
  MaxFaults = 1
  MaxEvents = 3
  FaultKinds = {"vad", "adapter", "timeout", "cancel", "slow", "gone", "revoked", "shutdown"}
INVARIANTS
  NothingStaleIsHeard
  OneCurrentTurn
  StateIsSound
CHECK_DEADLOCK FALSE
PROPERTIES
  ActiveStateEnds
  CloseCompletes
