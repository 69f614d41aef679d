\* Every text, every branch and every view of the menus; every entry, value and filter.
SPECIFICATION AllSpec
CONSTANTS
  NoCall = NoCall
  callA = callA
  callB = callB
  MaxLines = 3
  Views <- MCViews
  Budgets = {1, 3, 5}
  MinBudget = 2
  MaxRetries = 1
  TxWrap = TRUE
  Ceiling = TRUE
  Units <- MCGoUnits
  Fns <- MCFns
  SameSpelling <- MCSameSpelling
  Alike <- MCAlike
  Numeric <- MCNumeric
  SeamUnits <- MCSeamUnits
  SliceNames <- MCNames
  Programs <- MCPrograms
  Filters <- MCFilters
  Envs <- MCEnvs
INVARIANTS SlicesFaithful TxAsRun ResponsesNameWrites ValuesAreLegacy ReportsFailure OneTransaction NothingLeftOut ViewsRunAsBranches EchoesAccepted AcceptedRunAsBranches FragmentsAreTheView ValidatedPasses

CHECK_DEADLOCK FALSE
