\* Every corpus of the menu; every service and every mapping of one or two endpoints.
CONSTANTS
  Names <- MCNames
  Files <- MCFiles
  Filters <- MCFilters
  Envs <- MCEnvs
  Menu = "all"
SPECIFICATION BothSpec
CHECK_DEADLOCK FALSE
INVARIANTS JoinsAreTrue KeysNameTheirBlocks PlannedIsWhatRuns WritesKeepTheirTx
