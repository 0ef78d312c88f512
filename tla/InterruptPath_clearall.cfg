SPECIFICATION Spec
CONSTANTS
  ExactAck = FALSE
  Prefetch = TRUE
  Maskings = {FALSE}
PROPERTY ServiceEnds
