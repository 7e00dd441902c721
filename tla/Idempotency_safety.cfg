SPECIFICATION FairSpec
CONSTANTS
  Scopes = {s1, s2}
  Keys = {k1}
  Requests = {r1, r2, r3}
  None = None
  MaxRuns = 5
  MaxFaults = 2
INVARIANTS
  OneRunner
  SameAnswer
  AnswerKept
PROPERTIES
  ReservationEnds
CHECK_DEADLOCK FALSE
