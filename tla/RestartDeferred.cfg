\* A user name is changed while OpenCode runs under the old one.
CONSTANTS
  NoAccount = NoAccount
  Account = {a, b}
  FirstAccount = a
  MaxSaves = 2
  MaxFaults = 0
  MaxCrashes = 0
  AckRace = FALSE
  StageOver = FALSE
SPECIFICATION FairSpec
CHECK_DEADLOCK FALSE
PROPERTIES
  DeferredRestartIsDone
