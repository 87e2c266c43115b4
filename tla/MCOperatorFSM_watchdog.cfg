\* The watchdog under crashes: a fair sweep, requests that may die anywhere.
SPECIFICATION FairSpec
CONSTANTS
  Procs = {p1, p2}
  Watchdog = Watchdog
  Sessions = {s1, s2}
  Calls = {c1}
  Nil = Nil
  MaxRequests = 3
  MaxAborts = 1
CHECK_DEADLOCK FALSE
INVARIANT
  NoSilentSessionLeak
PROPERTY
  AbsentGoesOffline
