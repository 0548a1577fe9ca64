CONSTANTS
  e1 = e1
  Executions = {e1}
  Capacity = 2
  MaxLifetime = 1
  LeaseTTL = 1
  MaxReports = 2
  MaxRestarts = 1
  Ends = {"completed", "failed"}
  Deliveries = {"delivered", "unknown"}
SPECIFICATION FairSpec
INVARIANTS NothingForgotten ReleaseWakesQueue
PROPERTIES TerminalConverges ExclusionsReleased
