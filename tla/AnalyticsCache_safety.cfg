SPECIFICATION FairSpec
CONSTANTS
  Readers = {r1, r2}
  Writers = {w1, w2}
  MaxVersion = 1
  MaxFaults = 1
INVARIANTS
  StaleOnlyByOverlap
PROPERTIES
  FreshAtLast
