SPECIFICATION Spec
CONSTANTS
  ExactAck = TRUE
  Prefetch = TRUE
  Maskings = {TRUE, FALSE}
INVARIANTS
  OneVectorInFlight
  LinesAgree
PROPERTIES
  ServiceOnce
  ServiceEnds
