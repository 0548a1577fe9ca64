SPECIFICATION LiveSpec
CONSTANTS
  o1 = o1
  t1 = t1
  c1 = c1
  c2 = c2
  r1 = r1
  l1 = l1
  l2 = l2
  Occurrences = {o1}
  Targets = {t1}
  NoTarget = NoTarget
  Contents = {c1, c2}
  Runs = {r1}
  Loops = {l1, l2}
  MaxAttempts = 3
  MaxCrashes = 1
INVARIANTS AtMostOnce OneAnswer LedgerTruthful OwedKeepsPayload
PROPERTIES DecidedStays LeaseSettles
CHECK_DEADLOCK FALSE
