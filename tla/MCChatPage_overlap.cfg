CONSTANTS
  s1 = s1
  s2 = s2
  p1 = p1
  p2 = p2
  Sid = {s1, s2}
  Slot = {p1, p2}
  Length = 2
  None = None
  Patient = TRUE
SPECIFICATION FairSpec
INVARIANTS TypeOK ShownIsAPrefix
PROPERTY EveryMessageIsShown
CHECK_DEADLOCK FALSE
