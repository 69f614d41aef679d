\* A query before the dispatch, and both slices as endpoints.
CONSTANTS
  Names <- MCNames
  Files <- MCFiles
  Filters <- MCFilters
  Envs <- MCEnvs
  Letters <- MCLetters
  Binds <- MCBinds
  Multi <- MCMulti
  Typed <- MCTyped
  Pascal <- MCPascal
  Spoken <- MCSpoken
  EndsIn = {}
  UserMaps <- MCUserMaps
  Editions <- MCEditions
  Stops <- MCStops
  MaxRuns = 2
  armGates <- GatesOfArm
  Menu = "shared"
  Batches = {}
  Tuxedo = {}
  Tables = {}
SPECIFICATION TargetsSpec
CHECK_DEADLOCK FALSE
INVARIANT ConstsAreDistinct
