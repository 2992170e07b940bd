SPECIFICATION Spec
CONSTANTS
  MaxSessions = 1
  MaxUpdates = 6
  MaxCommands = 0
  MaxSeq = 3
  Window = 2
  Worlds <- ResettingWorld
INVARIANT ResetNotStale
