SPECIFICATION FairSpec
CONSTANTS
  Viewers = {v1, v2}
  Listeners = {l1}
  MaxViewers = 2
  MaxListeners = 1
  MaxPending = 2
  MaxFrames = 3
  MaxEvents = 3
INVARIANTS
  TypeOK
  NewestIsNext
  EncoderOnDemand
PROPERTIES
  BacklogIsSound
  FramesArrive
  StopCompletes
CHECK_DEADLOCK FALSE
