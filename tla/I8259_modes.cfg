SPECIFICATION Spec
CONSTANTS
  LineCount = 4
  DeviceIRQs = {0, 7}
  ElcrMask <- MCEdgeOnly
  Bases = {8}
  Modes <- MCAllModes
  Masks = {{}, {0, 2}}
  Commands = {1, 4}
  OCW3Words <- MCNoWords
INVARIANTS
  CascadeNotLost
  RecursionBounded
