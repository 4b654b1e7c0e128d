SPECIFICATION Spec
CONSTANTS
  NumRecipients = 3
  CC = {3}
  Step <- SerialThenCopy
  Slots = {s1}
  OfficeActions = {"send", "resend", "signed", "declined", "canceled", "expire", "edit"}
  MaxSends = 2
  MaxEdits = 1
  MaxArchived = 2
  Crashes = TRUE
  Deadline = TRUE
  OneVisitEach = FALSE
CHECK_DEADLOCK FALSE
INVARIANTS
  StatusFollowsRecipients
  OutputMeansAllSigned
  SigningInTurn
  InvitedHoldsLiveLink
PROPERTIES
  SignatureStands
  ClosedStaysClosed
  SignedInOrder
