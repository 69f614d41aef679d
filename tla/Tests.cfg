CONSTANTS
  GetDB = "GetDB"
  NoVal = NoVal
  Yes = Yes
  No = No
  r1 = r1
  r2 = r2
  NoRequest = NoRequest
  Placeholder = Placeholder
  Trips = 2
  Requests = {r1, r2}
  LogShape <- StoreLog
  Zero <- ZeroValue
  Units <- MCUnits
  Asked <- MCAsked
  Outcomes <- MCOutcomes
  MaxSwitches = 2
  Menu = "all"
  Row = Row
  Assumed = "assumed"
  Empty = ""
  MaxMethods = 2
  MaxGenRuns = 2
  Methods <- MCMethods
  Existing = {}
  Green <- Passes
SPECIFICATION BothSpec
CHECK_DEADLOCK FALSE
INVARIANTS TracesAreRequests SuitesHold PathsAreTheBodys
PROPERTIES SuitesKept
