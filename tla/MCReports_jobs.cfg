\* Two jobs on two handlers, two faults anywhere, one retry; three finished
\* calls, one tariff change, one fault of billing.
SPECIFICATION MCSpec
CONSTANTS
  Jobs = {j1, j2}
  Workers = {w1, w2}
  NoJob = NoJob
  Kinds = {"finance", "custom"}
  Spans = {1, 31}
  AsyncPeriodDays = 30
  MaxRetry = 1
  MaxFaults = 2
  FinCalls = {"a", "b", "z"}
  FinInfo <- mcFin
  BillProjects = {"p", "q"}
  ProjectFee <- mcFee
  Imported <- mcImported
  Trunks = {"t", "u"}
  Defaults <- mcDefaults
  Patches <- mcPatches
  Admins = {"m"}
  Subscribers = {"s"}
  BytesPerGB = 2
  MonthDays = 4
  LastDay = 4
  MaxAckPending = 2
  MaxVersion = 1
  MaxBillFaults = 1
CHECK_DEADLOCK FALSE
INVARIANTS
  JobsAreAccounted
  SumsAgree
PROPERTIES
  SettledIsFinal
  JobsEnd
  FinalizedIsCharged
