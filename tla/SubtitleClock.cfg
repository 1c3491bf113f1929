SPECIFICATION Spec
CONSTANTS
  Millisecond = 2
  Seeks <- MCSeeks
  Delays <- MCDelays
  Thetas <- MCThetas
  MaxTime = 3
  MaxAnchor = 5
INVARIANTS
  OverlayFollows
PROPERTIES
  ImplementsContract
CHECK_DEADLOCK FALSE
