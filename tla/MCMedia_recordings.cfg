SPECIFICATION Spec
CONSTANTS
  w1 = w1
  w2 = w2
  q1 = q1
  q2 = q2
  RecCalls = {1, 2}
  CallOrg <- mcOrgs
  CommitRequests = {q1, q2}
  RecCallers <- mcListeners
  Plans <- mcPlans
  SearchDefault = 1
  SearchMax = 2
  MaxRecDay = 2
  MaxRecFaults = 1
  MaxAccess = 1
  Workers = {w1, w2}
  RetentionBatch = 1
  VerifyDays = 1
  MaxVerify = 1
  FsNodes = {1, 2}
  TrunkConfigs <- mcTrunks
  DefaultStrategy = "round_robin"
  RouteRequests = {q1, q2}
  NodeCap = 1
  MaxRouteFaults = 1
INVARIANTS
  RecordsAreAccounted
  ChannelsAreBounded
PROPERTIES
  ImplementsRecordingLife
  ExpiredIsErased
  DriftIsRepaired
CHECK_DEADLOCK FALSE
