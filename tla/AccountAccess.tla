---------------------------- MODULE AccountAccess ----------------------------
(***************************************************************************)
(* One internal account: its membership, its password credential, the      *)
(* invitation links issued for it, the signed session cookies handed out,  *)
(* and the HTTP requests that work on it at the same time. Most handlers   *)
(* read first, hash or compare a password, and write what they computed    *)
(* from that first read; each such pair is two steps here. Nothing on the  *)
(* server remembers a session: a cookie is valid while it is young enough, *)
(* the account is active and no later password change supersedes it.       *)
(***************************************************************************)
EXTENDS Naturals, FiniteSets, Sequences

CONSTANTS Slots,           \* HTTP requests the servers work on at one time
          MaxFailed,       \* MAX_FAILED_LOGIN_ATTEMPTS
          LockTime,        \* ACCOUNT_LOCKOUT_WINDOW_MS
          InviteTime,      \* INVITATION_EXPIRY_MS
          SessionTime,     \* the cookie's maximum age
          Imported,        \* TRUE: the account comes with a temporary password
          Admin,           \* what administrators do: a subset of AdminActions
          MaxTime,         \* bound: the clock
          MaxInvites,      \* bound: invitations issued
          MaxPasswords,    \* bound: passwords ever set
          MaxSessions,     \* bound: cookies kept by browsers
          MaxWrong         \* bound: wrong passwords tried in a row

AdminActions == {"issue", "revoke", "unlock", "save"}

ASSUME AccountAssumption ==
  /\ {MaxFailed, LockTime, InviteTime, SessionTime} \subseteq Nat \ {0}
  /\ {MaxTime, MaxInvites, MaxPasswords, MaxSessions, MaxWrong} \subseteq Nat
  /\ Imported \in BOOLEAN
  /\ Admin \subseteq AdminActions

VARIABLES account,     \* Membership.status
          cred,        \* the UserCredential row; pw = 0 while there is none
          invites,     \* the Invitation rows, in the order they were created
          sessions,    \* cookies in browsers, and the password each was got with
          passwords,   \* passwords set so far; they are numbered
          now,         \* the clock
          wrong,       \* wrong passwords since the last reset or lockout
          op           \* the HTTP request each slot is working on

vars == <<account, cred, invites, sessions, passwords, now, wrong, op>>

Status == {"invited", "active", "disabled"}

NoCredential == [pw |-> 0, must |-> FALSE, failed |-> 0, lockedUntil |-> 0, changedAt |-> 0]
TemporaryPassword == [NoCredential EXCEPT !.pw = 1, !.must = TRUE]

NewInvite == [accepted |-> FALSE, revoked |-> FALSE, expires |-> now + InviteTime, uses |-> 0]

Idle == [pc |-> "idle", typed |-> 0, seen |-> NoCredential, status |-> "invited",
         at |-> 0, invite |-> 0, scope |-> {}]

Init ==
  /\ now = 1
  /\ account = IF Imported THEN "active" ELSE "invited"
  /\ cred = IF Imported THEN TemporaryPassword ELSE NoCredential
  /\ invites = IF Imported THEN <<>> ELSE <<NewInvite>>
  /\ sessions = {}
  /\ passwords = cred.pw
  /\ wrong = 0
  /\ op = [s \in Slots |-> Idle]

\* Cookies and password changes carry the millisecond they were made in; two
\* of them in the same millisecond are left out.
Fresh ==
  now \notin {cred.changedAt} \cup {x.at : x \in sessions}
             \cup {op[s].at : s \in {q \in Slots : op[q].pc \in {"change", "invited", "accept"}}}

Continue(s, o) == op' = [op EXCEPT ![s] = o]
End(s) == Continue(s, Idle)

-----------------------------------------------------------------------------
(* authenticatePasswordUser                                                *)

Locked(c) == c.lockedUntil > now

MayTry_Always(c) == TRUE
MayTry(c) == ~Locked(c)

LocksAt_Late(failures) == failures > MaxFailed
LocksAt(failures) == failures >= MaxFailed

\* It reads the credential, and gives up at once without one or while locked.
StartLogin(s) ==
  /\ op[s].pc = "idle"
  /\ wrong < MaxWrong
  /\ account = "active" /\ cred.pw # 0 /\ MayTry(cred)
  /\ \E typed \in 0..passwords :
       Continue(s, [Idle EXCEPT !.pc = "login", !.typed = typed, !.seen = cred, !.at = now])
  /\ UNCHANGED <<account, cred, invites, sessions, passwords, now, wrong>>

\* The comparison fails: the count it read plus one is written back.
RejectLogin(s) ==
  /\ op[s].pc = "login"
  /\ op[s].typed # op[s].seen.pw
  /\ LET failures == op[s].seen.failed + 1
         locks    == LocksAt(failures)
     IN /\ cred' = [cred EXCEPT !.failed = failures,
                                !.lockedUntil = IF locks THEN op[s].at + LockTime ELSE 0]
        /\ wrong' = IF locks THEN 0 ELSE wrong + 1
  /\ End(s)
  /\ UNCHANGED <<account, invites, sessions, passwords, now>>

AcceptLogin(s) ==
  /\ op[s].pc = "login"
  /\ op[s].typed = op[s].seen.pw
  /\ cred' = [cred EXCEPT !.failed = 0, !.lockedUntil = 0]
  /\ wrong' = 0
  /\ Continue(s, [Idle EXCEPT !.pc = "cookie", !.typed = op[s].typed])
  /\ UNCHANGED <<account, invites, sessions, passwords, now>>

\* The route signs a cookie with the time of that moment; the answer may be lost.
SetCookie(s) ==
  /\ op[s].pc = "cookie"
  /\ \/ UNCHANGED sessions
     \/ /\ Cardinality(sessions) < MaxSessions /\ Fresh
        /\ sessions' = sessions \cup {[at |-> now, pw |-> op[s].typed]}
  /\ End(s)
  /\ UNCHANGED <<account, cred, invites, passwords, now, wrong>>

-----------------------------------------------------------------------------
(* Sessions, and changing the password from one.                           *)

Superseded(x) == cred.changedAt > x.at

Valid(x) == account = "active" /\ now <= x.at + SessionTime /\ ~Superseded(x)

\* Switching the company signs a new cookie for the same session.
SwitchCompany(s) ==
  /\ op[s].pc = "idle"
  /\ \E x \in sessions :
       /\ Valid(x)
       /\ Continue(s, [Idle EXCEPT !.pc = "cookie", !.typed = x.pw])
  /\ UNCHANGED <<account, cred, invites, sessions, passwords, now, wrong>>

\* The current password is asked for unless it is a temporary one; whoever
\* holds a cookie knows the password it was got with.
StartChange(s) ==
  /\ op[s].pc = "idle"
  /\ passwords < MaxPasswords /\ Fresh
  /\ \E x \in sessions : Valid(x) /\ (cred.must \/ x.pw = cred.pw)
  /\ Continue(s, [Idle EXCEPT !.pc = "change", !.at = now])
  /\ UNCHANGED <<account, cred, invites, sessions, passwords, now, wrong>>

\* Slip: the new credential keeps the old time of change.
NewPassword_KeepsTime(c, pw, at) ==
  [c EXCEPT !.pw = pw, !.must = FALSE, !.failed = 0, !.lockedUntil = 0]

\* A password that is set, whichever way, starts with a clean record.
NewPassword(c, pw, at) ==
  [pw |-> pw, must |-> FALSE, failed |-> 0, lockedUntil |-> 0, changedAt |-> at]

ChangePassword(s) ==
  /\ op[s].pc = "change"
  /\ passwords' = passwords + 1
  /\ cred' = NewPassword(cred, passwords', op[s].at)
  /\ wrong' = 0
  /\ Continue(s, [Idle EXCEPT !.pc = "cookie", !.typed = passwords'])
  /\ UNCHANGED <<account, invites, sessions, now>>

-----------------------------------------------------------------------------
(* acceptInvitation                                                        *)

Ready_UsedAgain(i) == ~invites[i].revoked /\ invites[i].expires > now
Ready(i) == ~invites[i].accepted /\ ~invites[i].revoked /\ invites[i].expires > now

\* The snapshot says the link is ready; the new password is hashed.
OpenInvitation(s) ==
  /\ op[s].pc = "idle"
  /\ passwords < MaxPasswords /\ Fresh
  /\ \E i \in DOMAIN invites :
       /\ Ready(i)
       /\ Continue(s, [Idle EXCEPT !.pc = "invited", !.invite = i, !.at = now])
  /\ UNCHANGED <<account, cred, invites, sessions, passwords, now, wrong>>

\* The transaction reads the invitation and its membership again, and the user's
\* isActive, which nothing in the program ever clears.
CheckInvitation(s) ==
  /\ op[s].pc = "invited"
  /\ IF Ready(op[s].invite) /\ account # "disabled"
       THEN Continue(s, [op[s] EXCEPT !.pc = "accept", !.status = account])
       ELSE End(s)
  /\ UNCHANGED <<account, cred, invites, sessions, passwords, now, wrong>>

Activated(read, status) == IF read = "invited" THEN "active" ELSE status

Used(invite) == [invite EXCEPT !.accepted = TRUE, !.uses = invite.uses + 1]

AcceptInvitation(s) ==
  /\ op[s].pc = "accept"
  /\ passwords' = passwords + 1
  /\ cred' = NewPassword(cred, passwords', op[s].at)
  /\ wrong' = 0
  /\ account' = Activated(op[s].status, account)
  /\ invites' = [i \in DOMAIN invites |->
                   IF i = op[s].invite THEN Used(invites[i]) ELSE invites[i]]
  /\ Continue(s, [Idle EXCEPT !.pc = "cookie", !.typed = passwords'])
  /\ UNCHANGED <<sessions, now>>

-----------------------------------------------------------------------------
(* The users page.                                                         *)

Open == {i \in DOMAIN invites : ~invites[i].accepted /\ ~invites[i].revoked}

Scope_Expired == {i \in Open : invites[i].expires <= now}
Scope == Open

\* issueInvitationForMembership: the rows its updateMany finds...
StartIssue(s) ==
  /\ op[s].pc = "idle" /\ "issue" \in Admin
  /\ Len(invites) < MaxInvites
  /\ account # "disabled"
  /\ Continue(s, [Idle EXCEPT !.pc = "issue", !.scope = Scope])
  /\ UNCHANGED <<account, cred, invites, sessions, passwords, now, wrong>>

\* ... are revoked if still open, and a new invitation is added.
Issue(s) ==
  /\ op[s].pc = "issue"
  /\ invites' = Append([i \in DOMAIN invites |->
                          IF i \in op[s].scope \cap Open
                            THEN [invites[i] EXCEPT !.revoked = TRUE] ELSE invites[i]],
                       NewInvite)
  /\ End(s)
  /\ UNCHANGED <<account, cred, sessions, passwords, now, wrong>>

\* revokeInvitationForMembership and unlockInternalAccount: one statement each.
Revoke(s) ==
  /\ op[s].pc = "idle" /\ "revoke" \in Admin
  /\ Open # {}
  /\ invites' = [i \in DOMAIN invites |->
                   IF i \in Open THEN [invites[i] EXCEPT !.revoked = TRUE] ELSE invites[i]]
  /\ UNCHANGED <<account, cred, sessions, passwords, now, wrong, op>>

Unlock(s) ==
  /\ op[s].pc = "idle" /\ "unlock" \in Admin
  /\ cred.pw # 0
  /\ cred' = [cred EXCEPT !.failed = 0, !.lockedUntil = 0]
  /\ wrong' = 0
  /\ UNCHANGED <<account, invites, sessions, passwords, now, op>>

\* Slip: a guard of updateOfficeAdminUser is missing.
MaySave_ActivateAny(status) == ~(cred.pw # 0 /\ status = "invited")

\* No account is active without a password, or invited with one.
MaySave(status) ==
  /\ ~(cred.pw = 0 /\ status = "active")
  /\ ~(cred.pw # 0 /\ status = "invited")

\* updateOfficeAdminUser writes the status it checked against its first read.
StartSave(s) ==
  /\ op[s].pc = "idle" /\ "save" \in Admin
  /\ \E status \in Status :
       /\ MaySave(status)
       /\ Continue(s, [Idle EXCEPT !.pc = "save", !.status = status])
  /\ UNCHANGED <<account, cred, invites, sessions, passwords, now, wrong>>

Save(s) ==
  /\ op[s].pc = "save"
  /\ account' = op[s].status
  /\ End(s)
  /\ UNCHANGED <<cred, invites, sessions, passwords, now, wrong>>

-----------------------------------------------------------------------------
Crash(s) ==
  /\ op[s].pc # "idle"
  /\ End(s)
  /\ UNCHANGED <<account, cred, invites, sessions, passwords, now, wrong>>

Tick ==
  /\ now < MaxTime
  /\ now' = now + 1
  /\ UNCHANGED <<account, cred, invites, sessions, passwords, wrong, op>>

\* the steps of the requests: app/api/auth (login, change-password, invitations),
\* account/active-company and office/users
Handle(s) ==
  \/ StartLogin(s) \/ RejectLogin(s) \/ AcceptLogin(s) \/ SetCookie(s)
  \/ SwitchCompany(s) \/ StartChange(s) \/ ChangePassword(s)
  \/ OpenInvitation(s) \/ CheckInvitation(s) \/ AcceptInvitation(s)
  \/ StartIssue(s) \/ Issue(s) \/ StartSave(s) \/ Save(s)
  \/ Revoke(s) \/ Unlock(s) \/ Crash(s)

Next == (\E s \in Slots : Handle(s)) \/ Tick

Spec == Init /\ [][Next]_vars

-----------------------------------------------------------------------------
(* What must hold.                                                         *)

Credential == [pw : Nat, must : BOOLEAN, failed : Nat, lockedUntil : Nat, changedAt : Nat]
Invite == [accepted : BOOLEAN, revoked : BOOLEAN, expires : Nat, uses : Nat]
Operation ==
  [pc     : {"idle", "login", "cookie", "change", "invited", "accept", "issue", "save"},
   typed  : Nat,
   seen   : Credential,
   status : Status,
   at     : Nat,
   invite : Nat,
   scope  : SUBSET Nat]

\* Every variable has the shape the schema gives it.
TypeOK ==
  /\ account \in Status
  /\ cred \in Credential
  /\ invites \in Seq(Invite)
  /\ sessions \subseteq [at : Nat, pw : Nat]
  /\ passwords \in Nat /\ now \in Nat /\ wrong \in Nat
  /\ op \in [Slots -> Operation]

\* An account that may sign in has a password, whatever overlaps.
ActiveMeansPassword == account = "active" => cred.pw # 0

\* docs/specs/auth-invitations-users-spec.md: accounts lock after 5 failed
\* password attempts, so no more than that many are tried in between.
FailuresLock == wrong < MaxFailed

\* docs/specs/auth-usage-guide.md: a lock ends after an hour or by an
\* administrator. No login attempt lifts a lock that is running.
LockHolds ==
  [][Locked(cred) /\ now' = now /\ cred'.lockedUntil <= now
       => \A s \in Slots : op[s].pc = "login" => op'[s] = op[s]]_vars

\* An invitation sets one password at most, and none once it is revoked.
InvitationUsedOnce ==
  \A i \in DOMAIN invites :
    /\ invites[i].uses <= 1
    /\ invites[i].revoked => invites[i].uses = 0

\* A new link replaces the earlier ones.
OneOpenInvitation == Cardinality(Open) <= 1

\* A password that was replaced gives no access any more: every cookie that
\* was got with it is superseded.
OldPasswordEnds == \A x \in sessions : Valid(x) => x.pw = cred.pw
=============================================================================
