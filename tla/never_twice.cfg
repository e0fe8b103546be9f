\* One process, two presses on one card.
SPECIFICATION Spec
CONSTANTS
  u1 = u1 u2 = u2 a1 = a1 a2 = a2 i1 = i1 i2 = i2
  t1 = t1 t2 = t2 t3 = t3 m1 = m1 m2 = m2
  None = None
  User = {u1}
  App <- OneApp
  OwnerOf <- OwnedByU1
  Instance = {i1}
  Tap = {t1, t2}
  Request <- Requests
  Mail = {}
  MaxFaults = 0
  SubmissionEnabled = TRUE
  GhostedSweepEnabled = FALSE
INVARIANT NeverSubmittedTwice
CHECK_DEADLOCK FALSE
