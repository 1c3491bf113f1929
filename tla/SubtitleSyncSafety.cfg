SPECIFICATION Spec
SYMMETRY Symmetry
CONSTANTS
  Files = {f1, f2}
  Models = {m1, m2}
  NoFile = NoFile
  NoModel = NoModel
  kMinWindows = 2
  kSyncListenWindow = 1
  MaxGeneration = 3
INVARIANTS
  TapIsSound
  SessionWellFormed
  LastActionWins
PROPERTIES
  FreshEvidence
  ExpiredNeverLocks
CHECK_DEADLOCK FALSE
