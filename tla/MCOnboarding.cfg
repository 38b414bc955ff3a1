SPECIFICATION OnboardingFairSpec
CONSTANTS
  Users = {alice, bob}
  Tokens = {t1, t2}
  Handlers = {p1, p2}
  MaxRequests = 2
  MaxAutotips = 2
  None = None
INVARIANTS
  OnboardingTypeOK
  OneTimerPerToken
  InvokedForOwner
  WelcomedOnceUnlessEarly
PROPERTIES
  RestartConnects
  RestartDisconnects
CHECK_DEADLOCK FALSE
