SPECIFICATION Spec
CONSTANTS
  a = a
  b = b
  c = c
  d = d
  Keys = {a, b, c}
  Values = {1, 2}
  NoKey = NoKey
  NoValue = NoValue
  Hash <- MCHash
  InitialCapacity = 2
  MaxCapacity = 8
  MaxSetDeletes = 2
  MemoryFails = TRUE
INVARIANTS
  TableSound
  IterVisitsOnce
  

  
CHECK_DEADLOCK FALSE
