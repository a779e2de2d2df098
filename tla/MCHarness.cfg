SPECIFICATION Spec
CONSTANTS
  first = first
  second = second
  other = other
  Files = {first, second}
  Nodes = {1}
  Listed <- Lists
  Killable = {first}
  WaitLimit = 0
  HookLimit = 0
  StaleLimit = 1
  Nobody = Nobody
  e1 = e1
  e2 = e2
  e3 = e3
  Exercises = {e1, e2, e3}
  NoOne = NoOne
  Casts <- MCCasts
  FrontSettings = {"unset", "private", "public"}
  MaxDeliveries = 2
  Bodies = {"one"}
  SecretBytes <- SecretSizes
  Tolerance = 1
  Skews = {0, 2}
  MaxClock = 2
  MaxSent = 2
  MaxVerified = 2
  Budget = 4
  PollEvery = 2
  Latest = 9
  RETRY_WAIT_FLOOR = 1
  DEFAULT_RETRY_WAIT_CAP = 3
  MAX_RETRY_WAIT_CAP = 5
  ADVERTISED_BOUND_GRACE = 2
  RetryEnvs = {0, 9}
  Policies <- MCPolicies
  LatestRetry = 11
  Held = {h1, h2, h3}
  Pools = {1, 2, 3, 4, 5}
  Servers = {f1, f2}
  Patience = 2
  MaxRotations = 2
  PeerVersions <- MCPeerVersions
  MaxTasks = 2
  TaskStates = {"SUBMITTED", "REJECTED"}
  ServerRevisions <- MCRevisions
  Catalogue = 6
  TOOLS_PAGE_SIZE = 3
  Rounds = 3
  MaxRecorded = 4
  Redirects = {"r1"}
  Verifiers = {"v1", "v2"}
  MaxCodes = 2
  MaxTokenRequests = 3
  WAVES_CHILDREN = 3
  WAVES_MAX_CONCURRENCY = 2
  OVERLAP_TOLERANCE_MS = 1
  Adverts <- MCAdverts
  Lags = {0, 1}
  LatestFanOut = 3
  Defects = {"none", "dedup-new-run", "refused-starts-run", "refused-changes-state", "skew-accepted", "reread-leaks-secret", "no-causation", "wrong-causation", "record-leaks-canary", "refused-not-recorded", "refused-records-state-change", "wrong-retention", "limit-ignored", "cursor-not-bound", "tenant-leak", "tenant-404"}
  Drifts <- MCDrifts
  SKEW_PROBE_SECONDS = 6
  SKEW_BOUND = 3
  Majors = {403, 404}
  Together = 2
  Deciders = {"a", "b"}
  Versions = {0, 1, 5}
  MaxTurns = 3
  Fields <- MCFields
  MaxFields = 2
  SensitiveParams = {"key"}
  SuppliedParams = {"name"}
  CompensationPolicies = {p1, p2}
  NoPolicy = NoPolicy
  Chains = {"r", "a.b", "a_b", "b"}
  Root = "r"
  Slug <- MCSlug
  RefsOfChain <- MCRefs
  MaxDepths = {1, 3}
  Items <- MCItems
  MaxExports = 2
  Original <- MCOriginal
  Facet <- MCFacet
  Replacement <- MCReplacement
  Rewrites <- MCRewrites
  Rows <- MCRows
  NoRow = NoRow
  Corrections <- MCCorrections
  NoMember = NoMember
  LastMinor = 2
  LastDay = 1
  MaxMerges = 3
  Counted = {"x", "y"}
  Bundles = {"vacuous", "tier-1", "independent"}
  Overrides <- MCOverrides
  Null = Null
  DAYS_A = 2
  MONTHS_B = 4
  MaxCommits = 5
  FileOf <- MCFileOf
  FileMajors <- MCFileMajors
  Scenarios <- MCScenarios
  OverlapScoped <- MCOverlapScoped
  RetirementWitness = "header"
  Family = {"list", "watch", "page"}
  Partial = {"watch"}
  FirstLegs <- MCFirstLegs
  Additions <- MCAdditions
  Candidates <- MCCandidates
  Orders <- MCOrders
  NoBundleYet = NoBundleYet
  PromptDefects = {"none", "list-invalid-item", "filter-ignored", "no-etag", "etag-no-304", "unknown-200", "unknown-nested-envelope", "gate-off-serves", "create-no-location", "source-not-user", "dup-accepted", "update-not-stored", "non-monotonic-accepted", "delete-not-gone", "builtin-deletable", "writes-unauthenticated", "mutable-gate-off-serves", "render-nondeterministic", "render-ignores-vars", "render-bad-hash", "render-leaks-body", "render-unbound-ok", "pack-unstamped", "reference-pack-404"}
  PromptAdverts <- MCPromptAdverts
  Shelves <- MCShelves
  User = "user"
  Anonymous = "anon"
  MaxQuestions = 1
  DeployFaults = {"none", "open to all", "challenge for another scope", "any edge", "skips", "conflict unnamed", "state before advertisement", "takes any share", "binds nothing", "share ignored", "replay resolves again", "unpinned", "points nowhere", "restores nothing", "restores the first", "stuck paused", "names no run", "event leaks", "resume recorded as promoted", "lists another's", "gate open", "promotes behind the gate", "moves what it refuses"}
  DeployFacets <- MCDeployFacets
  DeployVersions <- MCDeployVersions
  Incumbencies <- MCIncumbencies
  MaxDrives = 2
  StreamBodies <- MCStreamBodies
  SoakDeadline = 2
  RunInterval = 1
  SoakLimit = 3
  SoakWorkers = 2
  RUNS = 3
  CancelTargets = {2}
  StressPolls = 1
  LoadPathSets <- MCLoadPathSets
  CoreFamilies <- MCCoreFamilies
  CorpusDocs <- MCCorpusDocs
  NamedFor <- MCNamedFor
  LibCalls <- MCLibCalls
  LibOrder <- MCLibOrder
  ScenarioPool <- MCScenarioPool
  NewHeadings <- MCNewHeadings
  CorpusLimit = 3
  SuiteContents = {"s1", "s2"}
  Contracts <- MCContracts
  ReleaseVersions <- MCReleaseVersions
  MergeLimit = 2
  TagLimit = 2
  LastHour = 1
  GRACE_HOURS = 0
  HISTORY_LIMIT = 3
  Resources <- MCResources
  RunPolls = 1
  RunTimeout = 2
  FixtureTicks = 4
  DurableHosts <- MCDurableHosts
  RESUME_WINDOW = 2
  ObservationCeiling = 2
  UndeclaredBound = 1
  FirstArrivalBudget = 1
  QuietWindow = 1
  ClaimTtl = 2
  WorkLasts = 3
  SecretHosts <- MCSecretHosts
  CanaryTextMax = 6
  DigestTextMax = 6
  MAX_WINDOWS = 5
  FacetNames <- MCFacetNames
  Conditionals <- MCConditionals
  MaxConditionals = 2
  MaxClauses = 3
  MaxPayloadEdits = 2
  PayloadDefs <- MCPayloadDefs
  Desks <- MCDesks
  FacetSet = {"f", "note"}
  RESERVED = {"note"}
  FloorFiles <- MCFloorFiles
  Floor <- MCFloor
  NeedSets <- MCNeedSets
  MaxEdits <- MCMaxEdits
  MaxVersions = 2
  LookAhead = 3
  SchemaFiles = {"run", "event", "envelope"}
  API_SEEDS = {"run"}
  NOT_COPIED = {"envelope"}
  MaxSteps = 4
  CitedPaths = {"test", "sources"}
  RootA = "idp-A"
  RootB = "idp-B"
  NameIds = {"same"}
  FirstSamlHour = 2
  LastSamlHour = 4
INVARIANTS
  LockTypeOK
  OneAfterAnotherUntilBroken
  ListedIsOwn
  NeverAnothersProgram
  EachCountsItsOwn
  LiveListenerStands
  
  LatchIsTrue
  
  ConvictedPastItsBound
  IsolationVerdictIsTrue
  DoublesKeepTheirWord
  
  ChainsExpandWhole
  ReleasesKeepTheirPromises
CHECK_DEADLOCK FALSE
