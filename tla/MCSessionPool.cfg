SPECIFICATION Spec
CONSTANTS
  s1 = s1  u1 = u1  x1 = x1  w1 = w1  w2 = w2
  o1 = o1  o2 = o2  p1 = p1  p2 = p2
  Sessions = {s1}
  Users = {u1}
  Workspaces = {x1}
  Workers = {w1, w2}
  Objects = {o1, o2}
  Procs = {p1, p2}
  UserOf <- MCUserOf
  HomeOf <- MCHomeOf
  NoWorkspace = NoWorkspace  NoWorker = NoWorker
  NoObject = NoObject  NoSession = NoSession
  FirstLimits <- Tight
  Limits <- MCLimits
  MaxDeletes = 1
  MaxReloads = 1
SYMMETRY Symmetry
CHECK_DEADLOCK FALSE
INVARIANTS NoSlotLeak QuotaExact
PROPERTIES NoOrphan DeletedStaysDeleted
VIEW View
