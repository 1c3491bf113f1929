SPECIFICATION Spec
CONSTANTS
  t1 = t1
  t2 = t2
  c1 = c1
  c2 = c2
  bad = bad
  None = None
  Titles = {t1, t2}
  Contents = {c1, c2, bad}
  Playable = {c1, c2}
  Delays <- MCDelays
  MaxRequests = 2
SYMMETRY Symmetric
PROPERTIES
  DeletedIsGone
CHECK_DEADLOCK FALSE
