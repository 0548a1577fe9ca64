SPECIFICATION Spec
CONSTANTS
  j1 = j1
  r1 = r1
  r2 = r2
  t1 = t1
  Jobs = {j1}
  Schedules <- AllSchedules
  FirstSchedules <- EveryOrBad
  Attached = {}
  DeleteAfterRun = {j1}
  Threads = {r1, r2}
  Ticks = {t1}
  Caps = {1, 2}
  MaxTime = 2
  MaxEvents <- EventsPerCap
SYMMETRY Symmetry
INVARIANTS AtMostOneRun SlotsExact
PROPERTIES RunNeverRevives
CHECK_DEADLOCK FALSE
