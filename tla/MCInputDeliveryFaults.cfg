CONSTANTS
  s1 = s1
  i1 = i1
  i2 = i2
  i3 = i3
  g1 = g1
  g2 = g2
  r1 = r1
  r2 = r2
  r3 = r3
  NoOwner = NoOwner
  NoRun = NoRun
  NoInput = NoInput
  Sessions = {s1}
  Inputs = {i1, i2}
  SessionOf <- OneSession
  Gateways = {g1, g2}
  Runs = {r1, r2}
  Revisions = {}
  LeaseTTL = 1
  QueueTTL = 1
  PerSession = 2
  Global = 2
  SweepBatch = 2
  Skew <- NoSkew
  MaxTime = 1
  AutoRetry = TRUE
  CrashReplay = TRUE
  Operator = TRUE
  MaxGiven = 2
SPECIFICATION DSpec
INVARIANTS WriteAhead
PROPERTIES PrimaryDispatchOnce
CHECK_DEADLOCK FALSE
SYMMETRY Symmetry
