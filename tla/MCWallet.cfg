SPECIFICATION Spec
CONSTANTS
  u1 = u1
  u2 = u2
  reserves = reserves
  outside = outside
  Users <- MCUsers
  Reserves = reserves
  External = {outside}
  TipAmount = 3
  FeeAmount = 1
  StandardFee = 2
  FundAmount = 6
  Dust = 1
  Seed <- MCSeed
  DepositAmounts = {5}
  MaxTxs = 18
INVARIANTS
  TypeOK
  FeesAsIntended
PROPERTY
  ImplementsAccountLedger
CHECK_DEADLOCK FALSE
