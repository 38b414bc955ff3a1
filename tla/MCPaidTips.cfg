SPECIFICATION PaidFairSpec
CONSTANTS
  alice = alice
  t1 = t1
  r1 = r1
  r2 = r2
  a = a
  b = b
  reserves = reserves
  outside = outside
  Users = {alice}
  Tweets = {t1}
  Runs = {r1, r2}
  Window = 1
  MaxSends = 2
  MaxFaults = 1
  Address <- MCAddress
  Author <- MCAuthor
  Owned = {a, b}
  Reserves = reserves
  External = {outside}
  TipAmount = 3
  FeeAmount = 1
  StandardFee = 2
  FundAmount = 6
  Dust = 1
  Seed <- MCSeed
  DepositAmounts = {}
  MaxTxs = 4
INVARIANTS
  ChainHasPaidTips
  ToldTipsAreOnChain
PROPERTY
  EventuallyRecorded
CHECK_DEADLOCK FALSE
