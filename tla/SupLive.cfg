\* What must eventually happen, under FairSpec.
CONSTANTS
  i1 = i1
  i2 = i2
  NoInst = NoInst
  Inst = {i1, i2}
  MaxAttempts = 1
  MaxCommands = 2
  MaxFaults = 2
  MaxCrashes = 1
  Faults = {"storage", "spawn", "residue", "identity"}
  ReattachRace = FALSE
SPECIFICATION FairSpec
CHECK_DEADLOCK FALSE
PROPERTIES
  RetryConverges
  ExitIsCompleted
  RecoveryEnds
  ExitIsNoticed
  BlockEnds
  StopEnds
