\* A start left over from a save that failed after a Stop.
CONSTANTS
  i1 = i1
  i2 = i2
  NoInst = NoInst
  Inst = {i1, i2}
  MaxAttempts = 1
  MaxCommands = 3
  MaxFaults = 3
  MaxCrashes = 0
  Faults = {"storage"}
  ReattachRace = FALSE
SPECIFICATION Spec
SYMMETRY Instances
CHECK_DEADLOCK FALSE
INVARIANTS
  SpawnIsWanted
