\* Two tables rebuilt one right after the other.
CONSTANTS
  Batches <- MCBatches
  Tuxedo <- MCTuxedo
  Envs <- MCEnvs
  Slips <- MCSlips
  Menu = "two rebuilds"
SPECIFICATION BatchSpec
CHECK_DEADLOCK FALSE
INVARIANT RebuildsTruncate
