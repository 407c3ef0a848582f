\* Failed and uncertain saves, power loss, launches that fail.
CONSTANTS
  i1 = i1
  i2 = i2
  NoInst = NoInst
  Inst = {i1, i2}
  MaxAttempts = 1
  MaxCommands = 2
  MaxFaults = 3
  MaxCrashes = 2
  Faults = {"storage", "power", "unreadable", "spawn", "residue", "identity"}
  ReattachRace = FALSE
SPECIFICATION Spec
SYMMETRY Instances
CHECK_DEADLOCK FALSE
INVARIANTS
  OneServer
  LiveIsEvidenced
  StoppedIsHonest
  AckedDesiredSurvives
  ExitIsScheduled
  ConvergenceIsScheduled
PROPERTIES
  KeepsCustody
