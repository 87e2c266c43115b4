SPECIFICATION MCSpec
CONSTANTS
  Events = {e1, e2}
  Relays = {r1, r2}
  Times = {1}
  BatchSize = 2
  MaxRetry = 2
  MaxFaults = 2
  Replicas = {p1}
  FlushSize = 2
  DedupSize = 1
INVARIANTS
  PublishedWasSent
  NoDoublePublish
  EventsAreAccounted
PROPERTIES
  EventsArrive
CHECK_DEADLOCK FALSE
