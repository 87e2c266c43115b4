SPECIFICATION Spec
CONSTANTS
  Scenarios = {"connection", "registry", "refreshed", "presence", "cache", "login", "tokens", "users", "keys", "tenants"}
  CriticalQueueSize = 2
  WriteBufferSize = 2
  PongTimeout = 2
  RateLimit = 1
  Burst = 2
  Wrap = 4
  c1 = c1
  c2 = c2
  c3 = c3
  r1 = r1
  r2 = r2
  u1 = u1
  u2 = u2
  t1 = t1
  t2 = t2
  call1 = call1
  Nil = Nil
  Conns = {c1, c2, c3}
  Replicas = {r1, r2}
  replicaOf <- twoReplicas
  ClaimSet <- mcClaims
  Filters <- mcFilters
  TenantOf <- mcTenantOf
  HubTopics = {"trunks.health", "op.commands"}
  SubIds = {1}
  Casters = {b1}
  CacheReplicas = {r1}
  Ttl = 2
  InnerTimeout = 1
  MaxClock = 5
  MaxFlights = 2
  Logins = {l1, l2}
  Threshold = 2
  PerIP = 1
  PerAccount = 1
  MaxHits = 2
  MaxFails = 3
  MaxLapses = 1
  Sids = {s1, s2}
  Jtis = {1, 2, 3}
  Exchanges = {x1, x2}
  MaxRedisFaults = 1
  MaxSeconds = 2
  Callers <- mcCallers
  Members = {u1}
  Requests = {q1, q2}
  BackupCodes = {"c1"}
  MaxSecrets = 2
  MaxPasswords = 2
  Orgs = {"t1", "t2"}
  KeyUsers = {k1, k2}
  Size = 2
  MaxBuffers = 3
  MaxSealed = 1
  OrgCodes = {"o1", "o2", "o3"}
  TooLong = {"o3"}
  Onboardings = {n1, n2}
  HasBuckets = TRUE
  MaxMoves = 2
INVARIANTS
  EventsAreKept
  CopiesAreTrue
  LoginsAreBounded
  TokensAreSafe
  UsersAreConsistent
  TenantsAreAccounted
PROPERTIES
  SilentPeerUnwinds
CHECK_DEADLOCK FALSE
