SPECIFICATION Spec
CONSTANTS
  c1 = c1  c2 = c2  c3 = c3  h1 = h1
  NoName = NoName
  NC = 2
  NH = 1
  CtrlNames = {c1, c2}
  HelperNames = {h1}
  Mappings <- HelperSwap
  Prefix <- NoPrefix
  Gap = {h1}
  Fixed = {h1}
  HasModels = TRUE
  Echo = FALSE
  Tearing = {"models", "tpcall", "ctrl", "help"}
  Crashes = TRUE
  Operator = {"clear", "forget", "rename"}
SYMMETRY Trades
INVARIANTS LedgerHonest
PROPERTIES AcceptedKept NoMixedGenerations
CHECK_DEADLOCK FALSE
