SPECIFICATION FairSpec
CONSTANTS
  Events = {e1}
  Workers = {w1, w2}
  NoEvent = NoEvent
  NoWorker = NoWorker
  MaxAttempts = 3
  Faults = {"crash"}
  MaxFailures = 1
PROPERTIES
  EventsPublished
