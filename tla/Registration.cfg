\* Registration of the agent across upgrades, requests, faults and crashes.
CONSTANTS
  LastBundle = 2
  MaximumAttempts = 3
  StatusChecks = 1
  IPCChecks = {1}
  MaxRequests = 2
  MaxFaults = 1
  MaxCrashes = 1
SPECIFICATION FairSpec
CHECK_DEADLOCK FALSE
INVARIANTS
  IInv
  BudgetSurvives
PROPERTIES
  RemovalStands
  TransactionEnds
