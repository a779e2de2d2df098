SPECIFICATION LockSpec
CONSTANTS
  both = both
  first = first
  crossed = crossed
  Files = {both, crossed}
  Nodes = {1, 2}
  Listed <- Lists
  Killable = {crossed}
  WaitLimit = 0
  HookLimit = 0
  StaleLimit = 1
  Nobody = Nobody
INVARIANTS
  NoCircularWait
PROPERTIES
  EveryFileEnds
CHECK_DEADLOCK FALSE
