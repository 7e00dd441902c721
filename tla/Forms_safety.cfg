SPECIFICATION FairSpec
CONSTANTS
  Clicks = {c1, c2}
  Nobody = Nobody
  MaxLost = 1
  MaxChanges = 2
INVARIANTS
  CsrfRetrySuffices
  MadeAsTold
  PendingOnlyByFailure
PROPERTIES
  SubmissionsEnd
CHECK_DEADLOCK FALSE
