\* Accounts, items and notices change around reads and reloads.
CONSTANTS
  NoAccount = NoAccount
  NoPassword = NoPassword
  Account = {a, b}
  DefaultAccount = a
  HasTeam = TRUE
  MaxPasswords = 2
  MaxEvents = 4
  ReadRace = FALSE
SPECIFICATION FairSpec
CHECK_DEADLOCK FALSE
INVARIANTS
  IInv
  PasswordBelongs
  AvailableIsCurrent
  RemovedStaysOut
PROPERTIES
  StartIsAuthenticated
  GrantedReadConverges
