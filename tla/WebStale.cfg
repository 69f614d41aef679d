SPECIFICATION Spec
CONSTANTS
  Bundles = {b1, b2}
  Home <- AllHomes
  Requests = {r1, r2}
  Routes = {"discover"}
  MaxObjects = 2
  MaxLogs = 0
  Reloads = FALSE
SYMMETRY Trades
INVARIANTS MapIsACache
CHECK_DEADLOCK FALSE
