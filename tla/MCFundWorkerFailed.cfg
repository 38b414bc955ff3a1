SPECIFICATION Spec
CONSTANTS
  Handlers = {p1, p2}
  MaxCharges = 3
  Deposits = 2
PROPERTY
  FailedStaysQueued
CHECK_DEADLOCK FALSE
