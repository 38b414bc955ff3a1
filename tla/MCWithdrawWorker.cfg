SPECIFICATION FairSpec
CONSTANTS
  Users = {alice, bob}
  Strangers = {nobody}
  WithEndpoint = {alice}
  MaxRequests = 2
  MaxMoney = 2
  MaxArrivals = 3
  MaxFaults = 2
INVARIANTS
  TypeOK
  NoRequestLost
  RepeatedOnlyAfterFaults
  UnrecordedOnlyByFaults
PROPERTY
  KnownAnswered
CHECK_DEADLOCK FALSE
