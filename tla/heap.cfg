SPECIFICATION Spec
CONSTANTS
  o1 = o1
  o2 = o2
  o3 = o3
  Objects = {o1, o2, o3}
  None = None
  MaxRegistrations = 2
  MaxVars = 1
SYMMETRY Symmetry
INVARIANTS
  
  FaultNeedsCause
  
CHECK_DEADLOCK FALSE
