SPECIFICATION RecorderSpec
CONSTANTS
  f1 = f1
  f2 = f2
  f3 = f3
  Ids = {"it1", "it2", "row1", "row3", "gate", "lane"}
  Files = {f1, f3}
  NoFile = NoFile
  FileOrder <- MCFileOrder
  Details = {"why", "partial-witness", "observed", "unclassified-return"}
  NoDetail = NoDetail
  Absent = Absent
  Calls <- MCCalls
  AppendMayFail = FALSE
  LedgerTestFiles = {}
  MaxRecordings = 8
  BlockedStands = TRUE
  Legs <- MCLegs
  DefaultIds <- MCDefaultIds
  FileIds <- MCFileIds
  ReqIds = {}
  GateIds = {"gate"}
  LaneId = "lane"
  NoId = NoId
  OptedOut = {}
  Strict = FALSE
  OffLane = {}
  CoherenceFiles = {f3}
  TeardownFiles = {f1}
  ObservingFiles = {f1, f3}
  SelfVerdicts <- MCNoSelf
  NoteKinds <- AllNotes
  MaxNotes = 1
  MaxAsserts = 1
  MaxOwnRecords = 1
INVARIANTS
  RecorderTypeOK
  FailedLegDenies
  SilentFileBlocked
  PassIsWitnessed
  ExcusedByOwnReason
CHECK_DEADLOCK FALSE
