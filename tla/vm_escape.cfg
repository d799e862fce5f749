SPECIFICATION Spec
CONSTANTS
  Programs <- MCPrograms
  Vars = {1, 2, 3}
  N = 2
  MaxStack = 10
INVARIANTS
  NoEscape
CHECK_DEADLOCK FALSE
