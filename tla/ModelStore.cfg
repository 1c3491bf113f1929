SPECIFICATION Spec
CONSTANTS
  a = a
  b = b
  good = good
  text = text
  empty = empty
  None = None
  Library = Library
  Outside = Outside
  Models = {a, b}
  Bodies = {good, text, empty}
  Loadable = {good}
  Length <- MCLength
  Limit <- MCLimit
  kMaxConcurrentUploads = 2
  MaxRequests = 4
  MaxUploads = 3
SYMMETRY Symmetric
INVARIANTS
  NothingLeaks
  SelectionIsStored
  SelectionIsPersisted
PROPERTIES
  ImplementsContract
CHECK_DEADLOCK FALSE
