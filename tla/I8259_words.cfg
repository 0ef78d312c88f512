SPECIFICATION Spec
CONSTANTS
  LineCount = 4
  DeviceIRQs = {0, 7}
  ElcrMask <- MCEdgeOnly
  Bases = {}
  Modes <- MCPlainMode
  Masks = {{}, {0, 2}}
  Commands = {1}
  OCW3Words <- MCModeWords
INVARIANTS
  OneVectorPerHandler
PROPERTY HandlerReturns
