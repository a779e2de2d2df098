SPECIFICATION LedgerSpec
CONSTANTS
  f1 = f1
  f2 = f2
  Ids = {"leg", "row", "gate"}
  Files = {f1, f2}
  NoFile = NoFile
  FileOrder <- MCFileOrder
  Details = {"why"}
  NoDetail = NoDetail
  Absent = Absent
  Calls <- MCCalls
  AppendMayFail = TRUE
  LedgerTestFiles = {f2}
  MaxRecordings = 2
INVARIANTS
  LedgerTypeOK
  ReadNeverRoundsUp
  SinkAgreesWithMemory
  EveryAssertionCountedOnce
  InterleavingInvisible
PROPERTIES
  NeverMoreCertifiable
CHECK_DEADLOCK FALSE
