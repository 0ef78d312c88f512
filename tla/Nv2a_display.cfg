SPECIFICATION Spec
CONSTANTS
  Garbage <- MCGarbage
  UserAddresses <- MCUserAddresses
  CrtcAddresses <- MCCrtcAddresses
  CioIndexes <- MCCioIndexes
  PraminAddresses <- MCPraminAddresses
  RamAddresses <- MCRamAddresses
  Mode <- MCMode
  Start <- MCStart
  Pixel = 255
  Put = 64
  Own = 1
  Other = 2
  OtherIndex = 40
  Elsewhere <- MCElsewhere
INVARIANTS
  TypeOK
  FrameOfPrefix
  SubmissionKept
PROPERTIES
  ModeShown
  WaitsEnd
CHECK_DEADLOCK FALSE
