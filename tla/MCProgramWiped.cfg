SPECIFICATION ProgramsSpec
CONSTANTS
  first = first
  second = second
  third = third
  other = other
  Files = {first, other}
  Nodes = {1}
  Listed <- Lists
  Killable = {}
  WaitLimit = 0
  HookLimit = 0
  StaleLimit = 1
  Nobody = Nobody
INVARIANTS
  NoMidFileWipe
CHECK_DEADLOCK FALSE
