SPECIFICATION DriverSpec
CONSTANTS
  Addresses <- MCAddresses
  Devices <- MCDevices
  Controls <- MCControls
  BlockLength = 2
  ExactAck = TRUE
  Commands <- MCCommands
  Bytes <- MCBytes
  Image <- MCImage
  Requests <- MCRequests
  Attempts = 2
INVARIANTS
  TypeOK
  InterruptMeansStatus
  VersionWhole
  WritesKept
  AnsweredOnce
PROPERTY RequestEnds
