SPECIFICATION CertifySpec
CONSTANTS
  f1 = f1
  f2 = f2
  f3 = f3
  Ids = {"it1", "it2", "it3", "row1", "row2", "row3", "gate", "lane"}
  Files = {f1, f2, f3}
  NoFile = NoFile
  FileOrder <- MCFileOrder
  Details = {"why", "partial-witness", "observed", "unclassified-return"}
  NoDetail = NoDetail
  Absent = Absent
  Calls <- MCCalls
  AppendMayFail = TRUE
  LedgerTestFiles = {}
  MaxRecordings = 8
  BlockedStands = FALSE
  Legs <- MCLegs
  DefaultIds <- MCDefaultIds
  FileIds <- MCFileIds
  ReqIds = {}
  GateIds = {}
  LaneId = "lane"
  NoId = NoId
  OptedOut = {}
  Strict = FALSE
  OffLane = {}
  CoherenceFiles = {}
  TeardownFiles = {}
  ObservingFiles = {}
  SelfVerdicts <- MCSelf
  NoteKinds <- Excuses
  MaxNotes = 0
  MaxAsserts = 1
  MaxOwnRecords = 1
  PROFILE_FLOOR_SCENARIOS <- MCFloors
  Registry <- MCRegistry
  RegistryFound = TRUE
  FamiliesInName <- MCFamiliesInName
  Hosts <- MCHosts
  TargetFlag = 0
  MajorFiles <- MCMajorFiles
  ReqOf <- MCReqOf
  MaxWorkers = 1
  MayFailToLoad = {f2}
  MayDie = {f2}
  Requests <- MCRequests
  HostKey = "host"
  VerifierKey = "verifier"
INVARIANTS
  CertifyTypeOK
  
  RecordedRowsAreUsed
  VerifierAgreesWithEmitter
  ObservedRelaxationDenies
  PublishedBundleVerifies
PROPERTIES
  CertifierIsHonest
CHECK_DEADLOCK FALSE
