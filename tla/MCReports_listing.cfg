\* Three jobs within two seconds of two ticks each, listed two at a time.
SPECIFICATION Spec
CONSTANTS
  Ids = {1, 2, 3}
  RequestedLimit = 2
  TicksPerSecond = 2
  NoCursor = NoCursor
  MaxClock = 3
CHECK_DEADLOCK FALSE
INVARIANT
  EveryRowListed
