SPECIFICATION RecorderSpec
CONSTANTS
  f1 = f1
  f2 = f2
  f3 = f3
  Ids = {"it1", "it3", "row1", "row2", "gate", "lane"}
  Files = {f1, f2}
  NoFile = NoFile
  FileOrder <- MCFileOrder
  Details = {"why", "partial-witness", "observed", "unclassified-return"}
  NoDetail = NoDetail
  Absent = Absent
  Calls <- MCCalls
  AppendMayFail = FALSE
  LedgerTestFiles = {}
  MaxRecordings = 8
  BlockedStands = TRUE
  Legs <- MCOneLeg
  DefaultIds <- MCDefaultIds
  FileIds <- MCFileIds
  ReqIds = {}
  GateIds = {"gate"}
  LaneId = "lane"
  NoId = NoId
  OptedOut = {"gate"}
  Strict = TRUE
  OffLane = {f2}
  CoherenceFiles = {}
  TeardownFiles = {f1}
  ObservingFiles = {f1, f2}
  SelfVerdicts <- MCSelfOne
  NoteKinds <- BlockedNotes
  MaxNotes = 0
  MaxAsserts = 1
  MaxOwnRecords = 1
PROPERTIES
  LedgerSpec
  EveryFileGetsARow
CHECK_DEADLOCK FALSE
