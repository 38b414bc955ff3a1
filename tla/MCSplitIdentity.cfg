SPECIFICATION SplitSpec
CONSTANTS
  People = {alice, bob}
  Tokens = {t1}
  Handlers = {p1, p2}
  MaxLogins = 3
  MaxTips = 2
  None = None
INVARIANTS
  SplitTypeOK
  MoneyIsOwned
  DuplicatesOnlyByRaces
PROPERTY
  RepaidOnlyBySplits
CHECK_DEADLOCK FALSE
