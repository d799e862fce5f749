SPECIFICATION FairSpec
CONSTANTS
  Producers = {p1, p2}
  Consumers = {c1}
  Items = {n1, n2, n3}
  Stubs = {s0, s1, s2, s3}
  InitStub = s0
  Null = Null
  Modes = {"concurrent", "exclusive", "drain", "reclaim"}
INVARIANTS
  LossNeedsOverlap
  
PROPERTIES
  CallsReturn
  ImplementsFifo
CHECK_DEADLOCK FALSE
