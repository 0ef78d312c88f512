SPECIFICATION Spec
CONSTANTS
  Functions <- MCFunctions
  Requests <- MCRequests
  HandlerRequest <- MCHandlerRequest
  MaxPreemptions = 3
INVARIANTS
  IdentityKept
  CompletedIsHeld
PROPERTIES
  StrayWritesHarmless
  DriverSucceeds
CHECK_DEADLOCK FALSE
