\* A company whose name has no letter or digit that is looked at.
SPECIFICATION Spec
CONSTANTS
  u1 = u1 a1 = a1 a2 = a2 a3 = a3 i1 = i1 m1 = m1 m2 = m2
  None = None
  User = {u1}
  App = {a1, a2, a3}
  OwnerOf <- Owned
  Instance = {i1}
  Request = {m1, m2}
  Mail = {m1, m2}
  MaxFaults = 0
  Character <- MCCharacter
  Alphanumeric <- MCAlphanumeric
  Webmail <- MCWebmail
  Companies <- MCCompanies
  Letter <- MCLetter
  Submitted <- MCSubmitted
  LLMHint <- MCLLMHint
  EmailSanityFilterEnabled = TRUE
INVARIANT UnrelatedNeverAttach
CHECK_DEADLOCK FALSE
