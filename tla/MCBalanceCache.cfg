SPECIFICATION FairSpec
CONSTANTS
  Users = {alice, bob}
  WebProcesses = {web1}
  MaxMoney = 2
  MaxTxs = 2
  MaxFaults = 1
INVARIANTS
  TypeOK
  StaleIsExplained
PROPERTY
  EventuallyShown
CHECK_DEADLOCK FALSE
