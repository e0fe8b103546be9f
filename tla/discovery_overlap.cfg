\* The scheduler's cycle and /discover at the same time, on two postings.
SPECIFICATION FairSpec
CONSTANTS
  u1 = u1 u2 = u2 p1 = p1 p2 = p2 c1 = c1 c2 = c2
  None = None
  Left = {p1}
  User = {u1}
  Posting = {p1, p2}
  Cycle = {c1, c2}
  MaxFaults = 0
  MaxCards = 2
INVARIANT PendingWasDelivered
PROPERTY EveryCycleEnds
CHECK_DEADLOCK FALSE
