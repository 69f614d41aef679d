SPECIFICATION AllSpec
CONSTANTS
  c1 = c1  c2 = c2  c3 = c3  h1 = h1
  NoName = NoName
  NC = 2
  NH = 1
  CtrlNames = {c1, c2}
  HelperNames = {h1}
  Mappings <- HelperSwap
  Prefix <- NoPrefix
  Gap = {c2}
  Fixed = {}
  HasModels = TRUE
  Echo = FALSE
  Tearing = {}
  Crashes = FALSE
  Operator = {"clear", "rename"}
  good = good  long = long  bad = bad  blank = blank
  NoPayload = NoPayload
  Payloads = {good, long, bad, blank}
  Good = {good, long}
  Blank = {blank}
  Size <- Sizes
  MaxRetries = 2
  Retries = 1
  Base = 4
  NoteCost = 1
  MaxPrompt = 10
  MaxOutput = 3
  Context = 12
  ModelMax = 6
  Reserve = 1
  MinRoom = 2
  Override = 0
  Repair = TRUE
  AbortOnChatError = FALSE
  ka = ka  kb = kb  kc = kc  kx = kx
  sa = sa  sb = sb  sc = sc  sd = sd
  f1 = f1  f2 = f2  f3 = f3  f4 = f4
  NoKey = NoKey
  N = 3
  Workers = 2
  Sources = {ka, kb, kc, kx}
  Key <- Keys
  Methods <- OwnMethods
  Drafts = {f1, f2, f3, f4}
  Directories <- TeamDirectories
  Excluded = {kx}
  Lenient = FALSE
  MayFail = {1, 3}
INVARIANTS ArtifactsOnDisk TrailIsComplete RequestFits ReportedAsDone
PROPERTIES RunsConverge SeamReturns ConvertEnds ImplementsContract ImplementsParallelFor
CHECK_DEADLOCK FALSE
