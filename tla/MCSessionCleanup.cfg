SPECIFICATION LiveSpec
CONSTANTS
  Sessions = {s1}
  Gateways = {g1, g2}
  MaxLives = 2
  MaxRemotes = 2
  MaxClaims = 5
  MaxFaults = 1
CHECK_DEADLOCK FALSE
INVARIANTS NoRevival JobTruthful
PROPERTIES NoLostCleanup PurgeFinishes
