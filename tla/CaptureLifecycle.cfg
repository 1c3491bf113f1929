SPECIFICATION FairSpec
CONSTANTS
  Streams = {video, audio}
INVARIANTS
  OneProducer
  SeenErrorIsFatal
  ExitIsHonest
PROPERTIES
  LossesAreNoticed
CHECK_DEADLOCK FALSE
