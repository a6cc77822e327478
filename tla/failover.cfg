SPECIFICATION FairSpec
CONSTANTS
  NumProviders = 2
  Faulty = {0}
  c1 = c1
  c2 = c2
  Callers = {c1, c2}
  MaxAttempts = 2
  ErrorThreshold = 3
  MaxFaults = 1
INVARIANTS
  TypeOK
  FailsForAReason
PROPERTIES
  SettlesOnGood
