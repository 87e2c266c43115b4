\* Two requests and the watchdog on one operator, four requests in all.
SPECIFICATION Spec
CONSTANTS
  Procs = {p1, p2}
  Watchdog = Watchdog
  Sessions = {s1, s2}
  Calls = {c1, c2}
  Nil = Nil
  MaxRequests = 4
  MaxAborts = 0
CHECK_DEADLOCK FALSE
SYMMETRY Symmetry
INVARIANTS
  TypeOK
  CleanSnapshot
  NoLostUpdate
  LiveSessionIsOpen
  AuditTrailComplete
PROPERTIES
  WritesAreAtomic
  CallNotDisplaced
