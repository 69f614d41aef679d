SPECIFICATION Spec
CONSTANTS
  Bundles = {b1, b2}
  Home <- AllHomes
  Requests = {r1, r2}
  Routes = {"analyze", "convert", "generate", "attach", "detach"}
  MaxObjects = 3
  MaxLogs = 1
  Reloads = TRUE
SYMMETRY Trades
VIEW Seen
INVARIANTS SnapshotIsComplete PreflightIsCurrent Settled
CHECK_DEADLOCK FALSE
