SPECIFICATION Spec
CONSTANTS
  LineCount = 4
  DeviceIRQs = {0, 4, 7}
  ElcrMask <- MCEdgeOnly
  Bases = {}
  Modes <- MCPlainMode
  Masks = {{}, {0, 2}}
  Commands = {1, 3, 5, 6, 7}
  OCW3Words <- MCNoWords
INVARIANTS
  TypeOK
  MasterDrained
  CascadeNotLost
  OneVectorPerHandler
