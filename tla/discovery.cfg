\* One cycle at a time, two postings for one user, two failures.
SPECIFICATION FairSpec
CONSTANTS
  u1 = u1 u2 = u2 p1 = p1 p2 = p2 c1 = c1 c2 = c2
  None = None
  Left = {}
  User = {u1}
  Posting = {p1, p2}
  Cycle = {c1}
  MaxFaults = 2
  MaxCards = 4
INVARIANTS TypeOK PendingWasDelivered DeadCardsHaveACause RepeatsHaveACause
PROPERTY EventuallyDelivered
CHECK_DEADLOCK FALSE
