SPECIFICATION Spec
CONSTANTS
  c1 = c1
  c2 = c2
  Conns <- MCConns
  NoConn = NoConn
  Budgets <- MCBudgets
  Broadcast = 1
  WriteCap = 1
  CaptureCap = 1
INVARIANT NoStandstill
CHECK_DEADLOCK FALSE
