SPECIFICATION LiveSpec
CONSTANTS
  e1 = e1
  e2 = e2
  l1 = l1
  l2 = l2
  l3 = l3
  l4 = l4
  Events = {e1, e2}
  Sentinel = Sentinel
  Torn = Torn
  LegacyEvents = {l1, l2, l3, l4}
  LegacyRows <- OldRows
  ChannelCap = 1
  BatchSize = 2
  Retention = 1
  MaxTime = 2
  MaxFaults = 2
  MaxCrashes = 1
INVARIANTS NothingLost ChainSound
PROPERTIES RetentionKept AcceptedSettles
CHECK_DEADLOCK FALSE
