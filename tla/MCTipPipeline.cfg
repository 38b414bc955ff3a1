SPECIFICATION Spec
CONSTANTS
  Users = {alice}
  Tweets = {t1, t2}
  Runs = {r1}
  Window = 2
  MaxSends = 2
  MaxFaults = 1
INVARIANTS
  TypeOK
  OnePaymentPerMessage
  RecordedTipsArePaid
  ToldTipsAreRecorded
PROPERTIES
  TippedStaysTipped
  SettledIsFinal
CHECK_DEADLOCK FALSE
