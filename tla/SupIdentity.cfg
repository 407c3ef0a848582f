\* Unverified, escaped, reused and sick processes, lost credentials.
CONSTANTS
  i1 = i1
  i2 = i2
  NoInst = NoInst
  Inst = {i1, i2}
  MaxAttempts = 2
  MaxCommands = 2
  MaxFaults = 3
  MaxCrashes = 2
  Faults = {"inspect", "escape", "residue", "reuse", "identity", "drift", "config", "sick", "spawn", "keychain"}
  ReattachRace = FALSE
SPECIFICATION Spec
SYMMETRY Instances
CHECK_DEADLOCK FALSE
INVARIANTS
  IInv
  OneGroup
  SpawnIsWanted
PROPERTIES
  KillIsOwn
