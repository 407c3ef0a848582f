\* An acknowledgement while the next save writes its item.
CONSTANTS
  NoAccount = NoAccount
  Account = {a, b}
  FirstAccount = a
  MaxSaves = 2
  MaxFaults = 0
  MaxCrashes = 0
  AckRace = TRUE
  StageOver = FALSE
SPECIFICATION Spec
CHECK_DEADLOCK FALSE
INVARIANTS
  BeliefIsNoticed
