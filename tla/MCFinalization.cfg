SPECIFICATION FairSpec
CONSTANTS
  Docs = {d1, d2}
  Parties = {p1}
  Failing = {"send"}
  MaxFiles = 2
  Workers = {w1, w2}
  MaxAttempts = 2
  Lease = 0
  MaxDelay = 0
  Prompt = TRUE
  MaxCrashes = 0
CHECK_DEADLOCK FALSE
PROPERTIES
  CopiesPromised
  CopiesArrive
  SessionEnds
