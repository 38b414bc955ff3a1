SPECIFICATION RecordsFairSpec
CONSTANTS
  Handlers = {p1, p2}
  Invocations = {l1, l2}
  MaxCharges = 2
  Deposits = 1
  MaxConfs = 2
  MaxAsks = 2
  MaxFaults = 1
INVARIANTS
  RecordsTypeOK
  FundedOncePerCharge
  EveryChargeAccounted
  ToldDepositsNamed
  ConfirmationsExplained
PROPERTIES
  EveryChargeSettles
  ConfirmedAtLast
CHECK_DEADLOCK FALSE
