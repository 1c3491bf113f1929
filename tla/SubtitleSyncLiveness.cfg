SPECIFICATION FairSpec
CONSTANTS
  Files = {f1}
  Models = {m1}
  NoFile = NoFile
  NoModel = NoModel
  kMinWindows = 1
  kSyncListenWindow = 1
  MaxGeneration = 2
PROPERTIES
  SyncSettles
  NobodyBlocks
  ImplementsContract
CHECK_DEADLOCK FALSE
