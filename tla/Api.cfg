SPECIFICATION ApiSpec
CONSTANTS
  SIds = {1, 2}
  SMounts <- MCSMounts
  SPaths <- MCSPaths
  SDrivers = {1, 2, 3, 4}
  SAdmins = {"p", "q"}
  SMain = "p"
  SOps = 3
  SFaults = 1
  RIds = {1, 2, 3}
  RKeys <- MCRKeys
  RProcs = {"p", "q"}
  ROps = 3
  RFaults = 1
  XDeclared <- MCXDeclared
  XPrefixes <- MCXPrefixes
  XBase <- MCXBase
  XLocals = {"a"}
  XAttrs <- MCXAttrs
  XOuter <- MCXOuter
  XDepth = 2
  XSeq = 2
  YChars = {"x", "]", ">", "<", "&", "quot", "CR", "LF", "bad"}
  YIllegal = {"bad"}
  YLen = 3
  ZFields <- MCZFields
  ZMax = 3
  PTree <- MCPTree
  PBodies <- MCPBodies
  PPatches <- MCPPatches
  IReqs = {"p", "q"}
  ITree <- MCITree
  IIgnored <- MCIIgnored
  IUpdates <- MCIUpdates
  IStops = 1
  IFaults = 1
  UProcs = {"p", "q"}
  UDirs <- MCDirs
  UNames = {"a", "b"}
  UMounts <- MCMounts
  UCalls = 3
  UFaults = 1
  QDirs <- MCDirs
  QNames = {"a", "b"}
  QMounts <- MCMounts
  QCalls = 3
  QFaults = 1
  VMax = 4
  VBatch = 2
  VLimit = 3
  VReqs <- MCVReqs
  ENames <- MCENames
  ETrees <- MCETrees
  EMetaSets <- MCEMetaSets
  EReqs <- MCEReqs
  EUploads <- MCEUploads
  EFaults = 1
  AProcs = {"p", "q"}
  AMax = 2
  AStarts = 3
  AChanges = 2
  ATime = 2
INVARIANTS
  SMountsMatch
  RowsRight
  XmlRoundTrip
  DavAnswers
  BuildsEnd
  IndexFollows
  LookupsExact
  FilesKept
  LoginsRight
CHECK_DEADLOCK FALSE
