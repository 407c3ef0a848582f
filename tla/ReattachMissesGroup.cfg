\* The leader exits during the health check of a reattachment.
CONSTANTS
  i1 = i1
  i2 = i2
  NoInst = NoInst
  Inst = {i1, i2}
  MaxAttempts = 1
  MaxCommands = 1
  MaxFaults = 2
  MaxCrashes = 1
  Faults = {"residue"}
  ReattachRace = TRUE
SPECIFICATION Spec
SYMMETRY Instances
CHECK_DEADLOCK FALSE
INVARIANTS
  OneGroup
