SPECIFICATION Spec
CONSTANTS
  Bundles = {b1}
  Home <- AllHomes
  Requests = {r1, r2}
  Routes = {"convert", "check", "attach"}
  MaxObjects = 1
  MaxLogs = 2
  Reloads = FALSE
SYMMETRY Trades
INVARIANTS ReplacedLogInvalidates
CHECK_DEADLOCK FALSE
