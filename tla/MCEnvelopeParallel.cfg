SPECIFICATION FairSpec
CONSTANTS
  NumRecipients = 2
  CC = {}
  Step <- Parallel
  Slots = {s1, s2}
  OfficeActions = {"send"}
  MaxSends = 1
  MaxEdits = 0
  MaxArchived = 2
  Crashes = FALSE
  Deadline = TRUE
  OneVisitEach = TRUE
CHECK_DEADLOCK FALSE
PROPERTIES
  SignedGetsOutput
