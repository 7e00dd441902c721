SPECIFICATION LifeFairSpec
CONSTANTS
  Requests = {r1}
  Ids = {i1}
  Shutdowns = {s1, s2}
  Attempts = 2
  MaxSignals = 2
  MaxFaults = 2
INVARIANTS
  LifeTypeOK
  WorkHasConnections
  EntriesBounded
PROPERTIES
  NothingCutOff
  ShutdownEnds
  QueuedIsWritten
CHECK_DEADLOCK FALSE
