SPECIFICATION Spec
CONSTANTS
  serif = serif
  small = small
  large = large
  gold = gold
  Bad = Bad
  None = None
  Values <- MCValues
  MaxRequests = 3
  MaxKeys = 2
INVARIANTS
  StyleIsKept
  StyleIsShown
PROPERTIES
  HookEnds
CHECK_DEADLOCK FALSE
