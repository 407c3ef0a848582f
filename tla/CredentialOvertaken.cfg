\* An item changes between its decrypt and the poll of the answer.
CONSTANTS
  NoAccount = NoAccount
  NoPassword = NoPassword
  Account = {a, b}
  DefaultAccount = a
  HasTeam = TRUE
  MaxPasswords = 2
  MaxEvents = 3
  ReadRace = TRUE
SPECIFICATION Spec
CHECK_DEADLOCK FALSE
INVARIANTS
  AvailableIsCurrent
