\* One project with two respondents and two requests; one survey with two
\* versions; schemas of two questions; eight days of four slots; two calls of
\* the generator.
SPECIFICATION OfficeSpec
CONSTANTS
  CrmCallers <- mcCallers
  ProjectIds = {"a"}
  Codes = {"k"}
  Operators = {"o"}
  ProjectRequests = {q1, q2}
  ListDefault = 1
  ListMax = 2
  MaxEdits = 1
  RespIds = {m1, m2}
  RawPhones = {"8916", "+7916", "+7495", "junk"}
  Phones = {"p1", "p2"}
  Normal <- mcNormal
  RespRequests = {q1, q2}
  GraceDays = 1
  PurgeBatch = 1
  MaxDay = 3
  Jobs = {"j"}
  Purges = {"c"}
  Files <- mcFiles
  BatchSize = 2
  MaxRows = 3
  ImportRetry = 1
  PurgeRetry = 0
  MaxFaults = 1
  SurveyCallers <- mcCallers
  SurveyIds = {"s"}
  VersionIds = {m1, m2}
  SurveyRequests = {q1, q2}
  SurveyPage = 1
  MaxSurveyEdits = 1
  MaxActivations = 2
  QNames = {"qa", "qb", "qz"}
  Docs <- mcDocs
  Payloads <- mcPayloads
  Interviews = {m1, m2}
  Conditions = {"c1", "c2", "c3", "bad"}
  Whitelisted = {"c1", "c2", "c3"}
  Schemas = {"d1", "d2", "broken"}
  Parseable = {"d1", "d2"}
  ProgramCap = 2
  SchemaCap = 1
  DayLen = 4
  RegionZones <- mcZones
  AskedRegions = {"msk", "kam", "nowhere"}
  Holidays = {2, 4, 5}
  PlatformPolicy <- mcPlatform
  RawPolicies <- mcOverrides
  Horizon = 2
  LastSlot = 32
  GenRuns = {"a", "b"}
  GenProcess <- mcGenProcess
  GenProject <- mcGenProject
  GenWanted <- mcGenWanted
  GenQuotas <- mcQuotas
  RegionPhones <- mcRegionPhones
  OnDnc = {"dnc"}
  CrmRefuses = {"n2"}
  NoPhone = "none"
  BucketRate = 2
  SeenTtl = 1
  GenSkew = 1
  MaxGenTime = 2
  MaxGenFaults = 1
CHECK_DEADLOCK FALSE
SYMMETRY Symmetry
INVARIANTS
  RespondentsAreConsistent
  AnswersAgree
  VersionsHold
  InterviewsAreSound
  DiallingIsPlanned
PROPERTIES
  RetiredStaysRetired
