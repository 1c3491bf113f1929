SPECIFICATION Spec
SYMMETRY Symmetry
CONSTANTS
  Streams = {video, audio}
INVARIANTS
  DeadDeviceIsFatal
CHECK_DEADLOCK FALSE
