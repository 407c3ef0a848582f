\* Saves, migrations and their recovery across faults and crashes.
CONSTANTS
  NoAccount = NoAccount
  Account = {a, b}
  FirstAccount = a
  MaxSaves = 2
  MaxFaults = 1
  MaxCrashes = 1
  AckRace = FALSE
  StageOver = FALSE
SPECIFICATION FairSpec
CHECK_DEADLOCK FALSE
INVARIANTS
  NoticeInv
  BeliefIsNoticed
  NoneLeftBehind
PROPERTIES
  StartIsInformed
  NoticeSettles
  CleanupSparesActive
