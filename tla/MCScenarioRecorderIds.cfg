SPECIFICATION RecorderSpec
CONSTANTS
  f1 = f1
  f2 = f2
  f3 = f3
  Ids = {"it1", "it2", "row1", "gate", "lane", "req"}
  Files = {f1}
  NoFile = NoFile
  FileOrder <- MCFileOrder
  Details = {"why", "partial-witness", "observed", "unclassified-return"}
  NoDetail = NoDetail
  Absent = Absent
  Calls <- MCCalls
  AppendMayFail = FALSE
  LedgerTestFiles = {}
  MaxRecordings = 8
  BlockedStands = FALSE
  Legs <- MCLegs
  DefaultIds <- MCDefaultIds
  FileIds <- MCFileIds
  ReqIds = {"req"}
  GateIds = {}
  LaneId = "lane"
  NoId = NoId
  OptedOut = {}
  Strict = FALSE
  OffLane = {}
  CoherenceFiles = {}
  TeardownFiles = {f1}
  ObservingFiles = {f1}
  SelfVerdicts <- MCSelf
  NoteKinds <- PlainNotes
  MaxNotes = 1
  MaxAsserts = 1
  MaxOwnRecords = 1
INVARIANTS
  RowUnderOwnId
  NoLegRoundedUp
  SelfClassificationStands
CHECK_DEADLOCK FALSE
