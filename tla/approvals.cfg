\* Button presses against submission cycles: three presses on one card by its
\* owner or another user and one crash or failure with one process; two presses
\* with two processes, as during a rolling deploy.
SPECIFICATION Spec
CONSTANTS
  u1 = u1 u2 = u2 a1 = a1 a2 = a2 i1 = i1 i2 = i2
  t1 = t1 t2 = t2 t3 = t3 m1 = m1 m2 = m2
  None = None
  User = {u1, u2}
  App <- OneApp
  OwnerOf <- OwnedByU1
  Instance = {i1, i2}
  Tap = {t1, t2, t3}
  Request <- Requests
  Mail = {}
  MaxFaults = 1
  SubmissionEnabled = TRUE
  GhostedSweepEnabled = FALSE
SYMMETRY ProcessSymmetry
CONSTRAINT OneOrTwoProcesses
INVARIANTS TypeOK OneClickPerApproval Licensed RepliesAreTrue SubmittedWasClicked
PROPERTY KeepsThePromise
CHECK_DEADLOCK FALSE
