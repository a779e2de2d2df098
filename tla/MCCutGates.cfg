SPECIFICATION CutSpec
CONSTANTS
  FileOf <- MCFileOf
  FileMajors <- MCFileMajors
  Scenarios <- MCScenarios
  OverlapScoped <- MCOverlapScoped
  RetirementWitness = "header"
  Family = {"list", "watch", "page"}
  Partial = {"watch"}
  FirstLegs <- MCFirstLegs
  Additions <- MCAdditions
  Candidates <- MCCandidates
  Orders <- MCOrders
  NoBundleYet = NoBundleYet
INVARIANT RunScenariosShowEveryLeg
CHECK_DEADLOCK FALSE
