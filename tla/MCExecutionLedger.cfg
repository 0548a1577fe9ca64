CONSTANTS
  s1 = s1
  i1 = i1
  i2 = i2
  g1 = g1
  g2 = g2
  r1 = r1
  NoOwner = NoOwner
  NoRun = NoRun
  Sessions = {s1}
  Inputs = {i1, i2}
  SessionOf <- OneSession
  Gateways = {g1, g2}
  Runs = {r1}
  Revisions = {1}
  LeaseTTL = 1
  QueueTTL = 1
  PerSession = 2
  Global = 2
  SweepBatch = 1
  Skew <- OneLags
  MaxTime = 1
SPECIFICATION Spec
INVARIANTS SingleSlot FencedOnceAndUnknown QueueMatchesRows
PROPERTIES RuntimeNeverGoesBack DeliveryNeverRegresses ImplementsLifecycle ImplementsWaitingLine
CHECK_DEADLOCK FALSE
SYMMETRY Symmetry
