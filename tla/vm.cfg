SPECIFICATION FairSpec
CONSTANTS
  Programs <- MCPrograms
  Vars = {1, 2, 3}
  N = 2
  MaxStack = 10
INVARIANTS
  JumpsSound
  NeverShort
PROPERTIES
  Halts
CHECK_DEADLOCK FALSE
