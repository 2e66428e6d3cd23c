SPECIFICATION DownloadSpec
CONSTANTS
  PipeSize = 2
  PipeUses = 2
  DRanges <- MCRanges
  DPartSize = 4
  DConc = 2
  DRetries = 1
  DSlots = 2
  DFaults = 1
  DBusys = 1
  HBlockSize = 2
  HMaxMemories = {1, 3}
  HAutoLimit = 1
  HBlockLimit = 2
  HPage = 2
  HBound = 5
  HOps = 2
  FSize = 4
  FLimit = 2
  FFails = 1
  FCalls = 4
  SSize = 5
  SLen = 2
  SFails = 1
  RSize = 3
  RWindow = 2
  RCallers = {1, 2}
  RCalls = 3
  RFails = 1
  VSizes = {0, 3}
  VSpecs <- MCSpecs
  VTags <- MCTags
  VModTimes = {0, 3, 4}
INVARIANTS
  PipeSafe
  DownloadSafe
  CacheSafe
  ReadersExact
PROPERTIES
  PipeRefines
  DownloadLive
CHECK_DEADLOCK FALSE
