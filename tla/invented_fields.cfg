\* One PDF, and an LLM that answers what passes and is not there.
SPECIFICATION Spec
CONSTANTS
  p1 = p1 p2 = p2 p3 = p3 r1 = r1 r2 = r2 r3 = r3
  None = None
  Person = {p1}
  RegisteredBefore = {p1}
  AllowedTelegramIds = {}
  Request = {r1}
  Character <- MCCharacter
  Alphanumeric <- MCAlphanumeric
  Digit <- MCDigit
  File <- MCFile
  Answer <- MCHidden
  Suggestions <- MCSuggestions
  Source = {"adzuna", "remoteok"}
  MaxFaults = 0
INVARIANT NothingIsInvented
CHECK_DEADLOCK FALSE
