SPECIFICATION Spec
CONSTANTS
  v1 = v1
  v2 = v2
  Vectors <- MCVectors
  MaxPending = 3
INVARIANT InjectedIntoReadyGuest
PROPERTY FifoSpec
