SPECIFICATION Spec
CONSTANTS
  Asks = {opener, a1, a2}
  Opener = opener
  None = none
INVARIANT RerunShownUnderItsQuestion
CHECK_DEADLOCK FALSE
