SPECIFICATION Spec
CONSTANTS
  MaxSessions = 2
  MaxUpdates = 4
  MaxCommands = 3
  MaxSeq = 3
  Window = 2
  Worlds <- MCWorlds
INVARIANT TypeOK
PROPERTIES
  AcceptedInOrder
  ExecutedInOrder
