SPECIFICATION Spec
CONSTANTS
  Slots = {s1}
  MaxFailed = 2
  LockTime = 1
  InviteTime = 2
  SessionTime = 3
  Imported = FALSE
  Admin = {"issue", "revoke", "unlock", "save"}
  MaxTime = 5
  MaxInvites = 2
  MaxPasswords = 2
  MaxSessions = 2
  MaxWrong = 3
CHECK_DEADLOCK FALSE
INVARIANTS
  ActiveMeansPassword
  FailuresLock
  InvitationUsedOnce
  OneOpenInvitation
  OldPasswordEnds
PROPERTIES
  LockHolds
