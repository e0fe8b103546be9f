\* One cycle at a time, one posting, one failure.
SPECIFICATION FairSpec
CONSTANTS
  u1 = u1 u2 = u2 p1 = p1 p2 = p2 c1 = c1 c2 = c2
  None = None
  Left = {}
  User = {u1}
  Posting = {p1}
  Cycle = {c1}
  MaxFaults = 1
  MaxCards = 2
PROPERTY DecisionsStand
CHECK_DEADLOCK FALSE
