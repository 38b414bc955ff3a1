SPECIFICATION Spec
CONSTANTS
  Users = {alice}
  Tweets = {t1, t2}
  Runs = {r1}
  Window = 1
  MaxSends = 2
  MaxFaults = 1
PROPERTY
  NewTipIsNew
CHECK_DEADLOCK FALSE
