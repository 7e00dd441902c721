SPECIFICATION Spec
CONSTANTS
  Pages = {o, d, a}
  Lists = {a}
  Drivers = {d}
  None = None
  MaxVersion = 2
  MaxAsks = 2
  MaxFaults = 1
INVARIANTS
  MembersMayJoin
  SubscribedAtRest
  StaleOnlyByMissing
CHECK_DEADLOCK FALSE
