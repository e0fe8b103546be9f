\* Two users and a stranger, two updates at a time, two job boards.
SPECIFICATION Spec
CONSTANTS
  p1 = p1 p2 = p2 p3 = p3 r1 = r1 r2 = r2 r3 = r3
  None = None
  Person = {p1, p2, p3}
  RegisteredBefore = {p1, p2}
  AllowedTelegramIds = {p1, p2, "typo"}
  Request = {r1, r2}
  Character <- MCCharacter
  Alphanumeric <- MCAlphanumeric
  Digit <- MCDigit
  File <- MCFile
  Answer <- MCAnswer
  Suggestions <- MCSuggestions
  Source = {"adzuna", "remoteok"}
  MaxFaults = 1
SYMMETRY Symmetry
INVARIANTS TypeOK NothingFabricated InventionsAreFlagged StrangersCostNothing
  TokenIsKnown AnsweredIsRegistered
PROPERTY CyclesAreComplete
CHECK_DEADLOCK FALSE
