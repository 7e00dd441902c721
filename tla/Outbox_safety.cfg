SPECIFICATION FairSpec
CONSTANTS
  Events = {e1}
  Workers = {w1, w2}
  NoEvent = NoEvent
  NoWorker = NoWorker
  MaxAttempts = 3
  Faults = {"add", "claim", "enqueue", "mark", "crash", "stall", "notify"}
  MaxFailures = 3
INVARIANTS
  OneClaimant
  PublishedWasHandedOver
  DeliveriesBounded
PROPERTIES
  PublishedIsFinal
  EventsDelivered
