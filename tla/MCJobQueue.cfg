SPECIFICATION FairSpec
CONSTANTS
  Workers = {w1, w2}
  Jobs = {j1, j2}
  MaxAttempts = 2
  Lease = 1
  MaxDelay = 2
  Prompt = TRUE
  MaxCrashes = 2
CHECK_DEADLOCK FALSE
INVARIANTS
  OneRunner
  GivenUpAfterAll
PROPERTIES
  JobsEnd
