\* C#: three services and two later editions, five mappings, two runs; Python:
\* two directories of three batches, every reply and every failed write.
CONSTANTS
  Names <- MCNames
  Files <- MCFiles
  Filters <- MCFilters
  Envs <- MCEnvs
  Letters <- MCLetters
  Binds <- MCBinds
  Multi <- MCMulti
  Typed <- MCTyped
  Pascal <- MCPascal
  Spoken <- MCSpoken
  EndsIn = {}
  UserMaps <- MCUserMaps
  Editions <- MCEditions
  Stops <- MCStops
  MaxRuns = 2
  armGates <- GatesOfArm
  Menu = "all"
  Batches <- MCBatches
  Tuxedo <- MCTuxedo
  Tables <- MCTables
SPECIFICATION TargetsSpec
CHECK_DEADLOCK FALSE
INVARIANTS BlocksKeepGuards TreesRunTheEntry BatchesRunAsBefore OutIsTheRuns
PROPERTIES AcceptedBodiesKept
