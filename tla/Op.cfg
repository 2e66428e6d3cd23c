SPECIFICATION OpSpec
CONSTANTS
  LNames = {"a", "b"}
  LDepth = 2
  LSizes = {2}
  LBin <- MCBin
  LProcs = {"p", "q"}
  LOps = 3
  LFaults = 1
  CPaths <- MCPaths
  CStart <- MCStart
  CConfs <- MCConfs
  CProcs = {"p", "q"}
  CMain = "p"
  CSide <- MCSide
  COps = 2
  CFaults = 1
  KUsers = {"u", "v", "w"}
  KLinks = {1, 2, 3}
  KUses = 3
INVARIANTS
  LocalSafe
  CachesSafe
PROPERTIES
  CCallsEnd
CHECK_DEADLOCK FALSE
