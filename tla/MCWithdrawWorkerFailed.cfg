SPECIFICATION Spec
CONSTANTS
  Users = {alice, bob}
  Strangers = {nobody}
  WithEndpoint = {alice}
  MaxRequests = 2
  MaxMoney = 2
  MaxArrivals = 3
  MaxFaults = 2
INVARIANT
  FailedMeansNotSent
CHECK_DEADLOCK FALSE
