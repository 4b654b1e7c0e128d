SPECIFICATION Spec
CONSTANTS
  Docs = {d1}
  Parties = {p1, p2}
  Failing = {"build", "done"}
  MaxFiles = 3
  Workers = {w1, w2}
  MaxAttempts = 2
  Lease = 0
  MaxDelay = 0
  Prompt = TRUE
  MaxCrashes = 1
CHECK_DEADLOCK FALSE
INVARIANTS
  SameFile
  MailedOnce
  FailureShown
