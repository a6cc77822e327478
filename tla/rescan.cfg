SPECIFICATION FailedSpec
CONSTANTS
  b1 = b1
  b2 = b2
  Failing = {b1, b2}
  MaxRetries = 2
  ChanCap = 1
  NotHeld = NotHeld
  NoBlock = NoBlock
  MaxCrashes = 1
SYMMETRY Symmetry
INVARIANTS
  FailedTypeOK
  ForgottenNeedsCrash
CHECK_DEADLOCK FALSE
