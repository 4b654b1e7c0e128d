------------------------- MODULE AccountAccessProofs -------------------------
(* Theorems about AccountAccess, for any lockout limit, any times, and      *)
(* either any number of overlapping HTTP requests or one at a time.         *)
EXTENDS AccountAccess, SequenceTheorems, FiniteSetTheorems, TLAPS

LEMMA IdleType == Idle \in Operation /\ NoCredential \in Credential
BY DEF Idle, NoCredential, Operation, Credential, Status

LEMMA InviteType ==
  ASSUME now \in Nat
  PROVE  NewInvite \in Invite
BY AccountAssumption DEF NewInvite, Invite

LEMMA ContinueType ==
  ASSUME TypeOK, NEW s \in Slots, NEW o \in Operation, Continue(s, o)
  PROVE  op' \in [Slots -> Operation]
BY DEF TypeOK, Continue

LEMMA EndType ==
  ASSUME TypeOK, NEW s \in Slots, End(s)
  PROVE  op' \in [Slots -> Operation]
BY IdleType, ContinueType DEF End

LEMMA NewPasswordType ==
  ASSUME NEW pw \in Nat, NEW at \in Nat
  PROVE  NewPassword(cred, pw, at) \in Credential
BY DEF NewPassword, Credential

LEMMA UsedType ==
  ASSUME NEW invite \in Invite
  PROVE  Used(invite) \in Invite
<1>1. invite.uses + 1 \in Nat
  BY DEF Invite
<1> QED
  BY <1>1 DEF Used, Invite

LEMMA InviteAt ==
  ASSUME invites \in Seq(Invite), NEW i \in DOMAIN invites
  PROVE  invites[i] \in Invite
OBVIOUS

\* Changing some invitations in place keeps the sequence of them.
LEMMA InvitesType ==
  ASSUME invites \in Seq(Invite), NEW f, f = [i \in DOMAIN invites |-> f[i]],
         \A i \in DOMAIN invites : f[i] \in Invite
  PROVE  f \in Seq(Invite)
<1>1. DOMAIN invites = 1..Len(invites) /\ Len(invites) \in Nat
  OBVIOUS
<1>2. f \in [1..Len(invites) -> Invite]
  BY <1>1
<1> QED
  BY <1>1, <1>2

LEMMA LoginType ==
  ASSUME TypeOK, NEW s \in Slots, StartLogin(s) \/ RejectLogin(s) \/ AcceptLogin(s)
  PROVE  TypeOK'
<1>1. CASE StartLogin(s)
  <2>1. PICK typed \in 0..passwords :
          Continue(s, [Idle EXCEPT !.pc = "login", !.typed = typed, !.seen = cred, !.at = now])
    BY <1>1 DEF StartLogin
  <2>2. [Idle EXCEPT !.pc = "login", !.typed = typed, !.seen = cred, !.at = now] \in Operation
    <3>1. typed \in Nat /\ cred \in Credential /\ now \in Nat
      BY DEF TypeOK
    <3> QED
      BY <3>1, IdleType DEF Operation
  <2>3. op' \in [Slots -> Operation]
    BY <2>1, <2>2, ContinueType
  <2> QED
    BY <1>1, <2>3 DEF StartLogin, TypeOK
<1>2. CASE RejectLogin(s)
  <2>1. op' \in [Slots -> Operation]
    BY <1>2, EndType DEF RejectLogin
  <2>2. op[s].seen.failed \in Nat /\ op[s].at \in Nat
    BY DEF TypeOK, Operation, Credential
  <2>3. cred' \in Credential /\ wrong' \in Nat
    <3>1. op[s].at + LockTime \in Nat /\ op[s].seen.failed + 1 \in Nat
      BY <2>2, AccountAssumption
    <3>2. cred \in Credential /\ wrong \in Nat
      BY DEF TypeOK
    <3>3. cred' \in Credential
      BY <1>2, <3>1, <3>2 DEF RejectLogin, Credential
    <3>4. wrong' \in {0, wrong + 1}
      BY <1>2 DEF RejectLogin
    <3> QED
      BY <3>2, <3>3, <3>4
  <2> QED
    BY <1>2, <2>1, <2>3 DEF RejectLogin, TypeOK
<1>3. CASE AcceptLogin(s)
  <2>1. [Idle EXCEPT !.pc = "cookie", !.typed = op[s].typed] \in Operation
    BY IdleType DEF Operation, TypeOK
  <2>2. op' \in [Slots -> Operation]
    BY <1>3, <2>1, ContinueType DEF AcceptLogin
  <2>3. cred' \in Credential
    BY <1>3 DEF AcceptLogin, TypeOK, Credential
  <2> QED
    BY <1>3, <2>2, <2>3 DEF AcceptLogin, TypeOK
<1> QED
  BY <1>1, <1>2, <1>3

LEMMA SessionType ==
  ASSUME TypeOK, NEW s \in Slots,
         SetCookie(s) \/ SwitchCompany(s) \/ StartChange(s) \/ ChangePassword(s)
  PROVE  TypeOK'
<1>1. op[s] \in Operation /\ now \in Nat
  BY DEF TypeOK
<1>2. CASE SetCookie(s)
  <2>1. op' \in [Slots -> Operation]
    BY <1>2, EndType DEF SetCookie
  <2>2. [at |-> now, pw |-> op[s].typed] \in [at : Nat, pw : Nat]
    BY <1>1 DEF Operation
  <2>3. sessions' \subseteq [at : Nat, pw : Nat]
    BY <1>2, <2>2 DEF SetCookie, TypeOK
  <2> QED
    BY <1>2, <2>1, <2>3 DEF SetCookie, TypeOK
<1>3. CASE SwitchCompany(s)
  <2>1. PICK x \in sessions : Continue(s, [Idle EXCEPT !.pc = "cookie", !.typed = x.pw])
    BY <1>3 DEF SwitchCompany
  <2>2. x.pw \in Nat
    BY DEF TypeOK
  <2>3. [Idle EXCEPT !.pc = "cookie", !.typed = x.pw] \in Operation
    BY <2>2, IdleType DEF Operation
  <2>4. op' \in [Slots -> Operation]
    BY <2>1, <2>3, ContinueType
  <2> QED
    BY <1>3, <2>4 DEF SwitchCompany, TypeOK
<1>4. CASE StartChange(s)
  <2>1. [Idle EXCEPT !.pc = "change", !.at = now] \in Operation
    BY <1>1, IdleType DEF Operation
  <2>2. op' \in [Slots -> Operation]
    BY <1>4, <2>1, ContinueType DEF StartChange
  <2> QED
    BY <1>4, <2>2 DEF StartChange, TypeOK
<1>5. CASE ChangePassword(s)
  <2>1. passwords' \in Nat /\ op[s].at \in Nat
    BY <1>1, <1>5 DEF ChangePassword, TypeOK, Operation
  <2>2. cred' \in Credential
    BY <1>5, <2>1, NewPasswordType DEF ChangePassword
  <2>3. [Idle EXCEPT !.pc = "cookie", !.typed = passwords'] \in Operation
    BY <2>1, IdleType DEF Operation
  <2>4. op' \in [Slots -> Operation]
    BY <1>5, <2>3, ContinueType DEF ChangePassword
  <2> QED
    BY <1>5, <2>1, <2>2, <2>4 DEF ChangePassword, TypeOK
<1> QED
  BY <1>2, <1>3, <1>4, <1>5

LEMMA InvitationType ==
  ASSUME TypeOK, NEW s \in Slots,
         OpenInvitation(s) \/ CheckInvitation(s) \/ AcceptInvitation(s)
  PROVE  TypeOK'
<1>1. op[s] \in Operation /\ now \in Nat /\ account \in Status /\ invites \in Seq(Invite)
  BY DEF TypeOK
<1>2. CASE OpenInvitation(s)
  <2>1. PICK i \in DOMAIN invites :
          Continue(s, [Idle EXCEPT !.pc = "invited", !.invite = i, !.at = now])
    BY <1>2 DEF OpenInvitation
  <2>2. i \in Nat
    BY <1>1
  <2>3. [Idle EXCEPT !.pc = "invited", !.invite = i, !.at = now] \in Operation
    BY <1>1, <2>2, IdleType DEF Operation
  <2>4. op' \in [Slots -> Operation]
    BY <2>1, <2>3, ContinueType
  <2> QED
    BY <1>2, <2>4 DEF OpenInvitation, TypeOK
<1>3. CASE CheckInvitation(s)
  <2>1. [op[s] EXCEPT !.pc = "accept", !.status = account] \in Operation
    BY <1>1 DEF Operation
  <2>2. op' \in [Slots -> Operation]
    BY <1>3, <2>1, ContinueType, EndType DEF CheckInvitation
  <2> QED
    BY <1>3, <2>2 DEF CheckInvitation, TypeOK
<1>4. CASE AcceptInvitation(s)
  <2>1. passwords' \in Nat /\ op[s].at \in Nat
    BY <1>1, <1>4 DEF AcceptInvitation, TypeOK, Operation
  <2>2. cred' \in Credential
    BY <1>4, <2>1, NewPasswordType DEF AcceptInvitation
  <2>3. [Idle EXCEPT !.pc = "cookie", !.typed = passwords'] \in Operation
    BY <2>1, IdleType DEF Operation
  <2>4. op' \in [Slots -> Operation]
    BY <1>4, <2>3, ContinueType DEF AcceptInvitation
  <2>5. account' \in Status
    BY <1>1, <1>4 DEF AcceptInvitation, Activated, Status
  <2>6. invites' \in Seq(Invite)
    <3>1. \A i \in DOMAIN invites : invites'[i] \in Invite
      <4>1. SUFFICES ASSUME NEW i \in DOMAIN invites PROVE invites'[i] \in Invite
        OBVIOUS
      <4>2. invites[i] \in Invite
        BY <1>1, InviteAt
      <4>3. Used(invites[i]) \in Invite
        BY <4>2, UsedType
      <4>4. invites'[i] = IF i = op[s].invite THEN Used(invites[i]) ELSE invites[i]
        BY <1>4 DEF AcceptInvitation
      <4> QED
        BY <4>2, <4>3, <4>4
    <3>2. invites' = [i \in DOMAIN invites |-> invites'[i]]
      BY <1>4 DEF AcceptInvitation
    <3> QED
      BY <1>1, <3>1, <3>2, InvitesType
  <2>7. sessions' = sessions /\ now' = now /\ wrong' = 0
    BY <1>4 DEF AcceptInvitation
  <2> QED
    BY <2>1, <2>2, <2>4, <2>5, <2>6, <2>7 DEF TypeOK
<1> QED
  BY <1>2, <1>3, <1>4

LEMMA AdminType ==
  ASSUME TypeOK, NEW s \in Slots,
         StartIssue(s) \/ Issue(s) \/ StartSave(s) \/ Save(s) \/ Revoke(s) \/ Unlock(s)
  PROVE  TypeOK'
<1>1. /\ op[s] \in Operation /\ now \in Nat /\ account \in Status /\ invites \in Seq(Invite)
      /\ Open \subseteq Nat
  BY DEF TypeOK, Open
<1>2. CASE StartIssue(s)
  <2>1. [Idle EXCEPT !.pc = "issue", !.scope = Scope] \in Operation
    BY <1>1, IdleType DEF Operation, Scope
  <2>2. op' \in [Slots -> Operation]
    BY <1>2, <2>1, ContinueType DEF StartIssue
  <2> QED
    BY <1>2, <2>2 DEF StartIssue, TypeOK
<1>3. CASE Issue(s)
  <2> DEFINE f == [i \in DOMAIN invites |->
                     IF i \in op[s].scope \cap Open
                       THEN [invites[i] EXCEPT !.revoked = TRUE] ELSE invites[i]]
  <2>1. op' \in [Slots -> Operation]
    BY <1>3, EndType DEF Issue
  <2>2. \A i \in DOMAIN invites : f[i] \in Invite
    <3>1. \A i \in DOMAIN invites : invites[i] \in Invite
      BY <1>1, InviteAt
    <3> QED
      BY <3>1 DEF Invite
  <2>3. f = [i \in DOMAIN invites |-> f[i]]
    OBVIOUS
  <2>4. invites' = Append(f, NewInvite)
    BY <1>3 DEF Issue
  <2> HIDE DEF f
  <2>5. f \in Seq(Invite)
    BY <1>1, <2>2, <2>3, InvitesType
  <2>6. invites' \in Seq(Invite)
    BY <1>1, <2>4, <2>5, InviteType
  <2> QED
    BY <1>3, <2>1, <2>6 DEF Issue, TypeOK
<1>4. CASE Revoke(s)
  <2>1. \A i \in DOMAIN invites : invites'[i] \in Invite
    <3>1. \A i \in DOMAIN invites : invites[i] \in Invite
      BY <1>1, InviteAt
    <3> QED
      BY <1>4, <3>1 DEF Revoke, Invite
  <2>2. invites' = [i \in DOMAIN invites |-> invites'[i]]
    BY <1>4 DEF Revoke
  <2>3. invites' \in Seq(Invite)
    BY <1>1, <2>1, <2>2, InvitesType
  <2> QED
    BY <1>4, <2>3 DEF Revoke, TypeOK
<1>5. CASE Unlock(s)
  <2>1. cred' \in Credential
    BY <1>5 DEF Unlock, TypeOK, Credential
  <2> QED
    BY <1>5, <2>1 DEF Unlock, TypeOK
<1>6. CASE StartSave(s)
  <2>1. PICK status \in Status : Continue(s, [Idle EXCEPT !.pc = "save", !.status = status])
    BY <1>6 DEF StartSave
  <2>2. [Idle EXCEPT !.pc = "save", !.status = status] \in Operation
    BY IdleType DEF Operation
  <2>3. op' \in [Slots -> Operation]
    BY <2>1, <2>2, ContinueType
  <2> QED
    BY <1>6, <2>3 DEF StartSave, TypeOK
<1>7. CASE Save(s)
  <2>1. op' \in [Slots -> Operation]
    BY <1>7, EndType DEF Save
  <2>2. account' \in Status
    BY <1>1, <1>7 DEF Save, Operation
  <2> QED
    BY <1>7, <2>1, <2>2 DEF Save, TypeOK
<1> QED
  BY <1>2, <1>3, <1>4, <1>5, <1>6, <1>7

LEMMA TypeInit == Init => TypeOK
<1> SUFFICES ASSUME Init PROVE TypeOK
  OBVIOUS
<1>1. cred \in Credential
  BY IdleType DEF Init, TemporaryPassword, Credential
<1>2. op \in [Slots -> Operation]
  BY IdleType DEF Init
<1>3. invites \in Seq(Invite)
  <2>1. now \in Nat
    BY DEF Init
  <2>2. <<NewInvite>> \in Seq(Invite) /\ <<>> \in Seq(Invite)
    BY <2>1, InviteType
  <2> QED
    BY <2>2 DEF Init
<1>4. passwords \in Nat
  BY <1>1 DEF Init, Credential
<1> QED
  BY <1>1, <1>2, <1>3, <1>4 DEF Init, TypeOK, Status

LEMMA TypeStep == TypeOK /\ [Next]_vars => TypeOK'
<1> SUFFICES ASSUME TypeOK, [Next]_vars PROVE TypeOK'
  OBVIOUS
<1>1. CASE \E s \in Slots : Handle(s)
  <2>1. PICK s \in Slots : Handle(s)
    BY <1>1
  <2>2. CASE Crash(s)
    <3>1. op' \in [Slots -> Operation]
      BY <2>2, EndType DEF Crash
    <3> QED
      BY <2>2, <3>1 DEF Crash, TypeOK
  <2> QED
    BY <2>1, <2>2, LoginType, SessionType, InvitationType, AdminType DEF Handle
<1>2. CASE Tick
  BY <1>2 DEF Tick, TypeOK
<1>3. CASE UNCHANGED vars
  BY <1>3 DEF vars, TypeOK
<1> QED
  BY <1>1, <1>2, <1>3 DEF Next

(* However requests overlap or die, the account, its credential, its        *)
(* invitations and cookies keep the shape of the schema.                    *)
THEOREM TypeCorrect == Spec => []TypeOK
BY TypeInit, TypeStep, PTL DEF Spec

-----------------------------------------------------------------------------
(* Whatever overlaps, an active account has a password.                     *)

\* A save that is going to activate the account has seen its password, and a
\* password is never taken away.
PasswordInv ==
  /\ TypeOK
  /\ ActiveMeansPassword
  /\ \A s \in Slots : op[s].pc = "save" /\ op[s].status = "active" => cred.pw # 0

LEMMA Continued ==
  ASSUME TypeOK, NEW s \in Slots, NEW o, Continue(s, o)
  PROVE  /\ op'[s] = o
         /\ \A q \in Slots : q # s => op'[q] = op[q]
BY DEF TypeOK, Continue

\* A handler moves its own slot only.
LEMMA OthersWait ==
  ASSUME TypeOK, NEW s \in Slots, Handle(s), NEW q \in Slots, q # s
  PROVE  op'[q] = op[q]
<1>1. (\E o : Continue(s, o)) \/ op' = op
  BY DEF Handle, StartLogin, RejectLogin, AcceptLogin, SetCookie, SwitchCompany, StartChange,
         ChangePassword, OpenInvitation, CheckInvitation, AcceptInvitation, StartIssue, Issue,
         StartSave, Save, Revoke, Unlock, Crash, End
<1> QED
  BY <1>1, Continued

LEMMA IdleFields == /\ Idle.pc = "idle" /\ Idle.typed = 0 /\ Idle.seen = NoCredential
                    /\ Idle.status = "invited" /\ Idle.at = 0 /\ Idle.invite = 0
BY DEF Idle

\* Only setting a password changes the one there is, and it sets a real one.
LEMMA PasswordStep ==
  ASSUME TypeOK, NEW s \in Slots, Handle(s)
  PROVE  \/ cred'.pw = cred.pw
         \/ cred'.pw # 0 /\ (ChangePassword(s) \/ AcceptInvitation(s))
<1>1. passwords \in Nat /\ passwords + 1 # 0 /\ cred \in Credential
  BY DEF TypeOK
<1>2. CASE ChangePassword(s)
  BY <1>1, <1>2 DEF ChangePassword, NewPassword
<1>3. CASE AcceptInvitation(s)
  BY <1>1, <1>3 DEF AcceptInvitation, NewPassword
<1>4. CASE RejectLogin(s)
  BY <1>1, <1>4 DEF RejectLogin, Credential
<1>5. CASE AcceptLogin(s)
  BY <1>1, <1>5 DEF AcceptLogin, Credential
<1>6. CASE Unlock(s)
  BY <1>1, <1>6 DEF Unlock, Credential
<1>7. CASE \/ StartLogin(s) \/ SetCookie(s) \/ SwitchCompany(s) \/ StartChange(s)
           \/ OpenInvitation(s) \/ CheckInvitation(s) \/ StartIssue(s) \/ Issue(s)
           \/ StartSave(s) \/ Save(s) \/ Revoke(s) \/ Crash(s)
  BY <1>7 DEF StartLogin, SetCookie, SwitchCompany, StartChange, OpenInvitation,
              CheckInvitation, StartIssue, Issue, StartSave, Save, Revoke, Crash
<1> QED
  BY <1>2, <1>3, <1>4, <1>5, <1>6, <1>7 DEF Handle

\* Only two handlers write the membership's status, and a request is about to
\* activate the account only if it has just started and seen a password.
LEMMA AccountStep ==
  ASSUME TypeOK, NEW s \in Slots, Handle(s)
  PROVE  account' = account \/ Save(s) \/ AcceptInvitation(s)
BY DEF Handle, StartLogin, RejectLogin, AcceptLogin, SetCookie, SwitchCompany, StartChange,
       ChangePassword, OpenInvitation, CheckInvitation, StartIssue, Issue, StartSave,
       Revoke, Unlock, Crash

\* What each handler leaves in its slot.
LEMMA NextOperation ==
  ASSUME TypeOK, NEW s \in Slots
  PROVE  /\ StartLogin(s) => op'[s].pc = "login" /\ op'[s].seen = cred /\ op'[s].at = now
         /\ AcceptLogin(s) => op'[s].pc = "cookie" /\ op'[s].typed = op[s].typed
         /\ SwitchCompany(s) => op'[s].pc = "cookie" /\ \E x \in sessions :
                                                         Valid(x) /\ op'[s].typed = x.pw
         /\ StartChange(s) => op'[s].pc = "change" /\ op'[s].at = now
         /\ ChangePassword(s) \/ AcceptInvitation(s)
              => op'[s].pc = "cookie" /\ op'[s].typed = passwords'
         /\ OpenInvitation(s) => op'[s].pc = "invited" /\ op'[s].at = now
                                 /\ op'[s].invite \in DOMAIN invites
         /\ CheckInvitation(s)
              => \/ op'[s] = Idle
                 \/ /\ op'[s].pc = "accept" /\ op'[s].at = op[s].at
                    /\ op'[s].invite = op[s].invite /\ Ready(op[s].invite)
         /\ StartIssue(s) => op'[s].pc = "issue" /\ op'[s].scope = Scope
         /\ StartSave(s) => op'[s].pc = "save" /\ MaySave(op'[s].status)
         /\ RejectLogin(s) \/ SetCookie(s) \/ Issue(s) \/ Save(s) \/ Crash(s) => op'[s] = Idle
         /\ Revoke(s) \/ Unlock(s) => op'[s] = op[s]
<1>1. ASSUME StartLogin(s)
      PROVE  op'[s].pc = "login" /\ op'[s].seen = cred /\ op'[s].at = now
  <2>1. PICK typed \in 0..passwords :
          Continue(s, [Idle EXCEPT !.pc = "login", !.typed = typed, !.seen = cred, !.at = now])
    BY <1>1 DEF StartLogin
  <2>2. op'[s] = [Idle EXCEPT !.pc = "login", !.typed = typed, !.seen = cred, !.at = now]
    BY <2>1, Continued
  <2> QED
    BY <2>2 DEF Idle
<1>2. ASSUME AcceptLogin(s)
      PROVE  op'[s].pc = "cookie" /\ op'[s].typed = op[s].typed
  <2>1. op'[s] = [Idle EXCEPT !.pc = "cookie", !.typed = op[s].typed]
    BY <1>2, Continued DEF AcceptLogin
  <2> QED
    BY <2>1 DEF Idle
<1>3. ASSUME SwitchCompany(s)
      PROVE  op'[s].pc = "cookie" /\ \E x \in sessions : Valid(x) /\ op'[s].typed = x.pw
  <2>1. PICK x \in sessions :
          Valid(x) /\ Continue(s, [Idle EXCEPT !.pc = "cookie", !.typed = x.pw])
    BY <1>3 DEF SwitchCompany
  <2>2. op'[s] = [Idle EXCEPT !.pc = "cookie", !.typed = x.pw]
    BY <2>1, Continued
  <2>3. op'[s].pc = "cookie" /\ op'[s].typed = x.pw
    BY <2>2 DEF Idle
  <2> QED
    BY <2>1, <2>3
<1>4. ASSUME StartChange(s)
      PROVE  op'[s].pc = "change" /\ op'[s].at = now
  <2>1. op'[s] = [Idle EXCEPT !.pc = "change", !.at = now]
    BY <1>4, Continued DEF StartChange
  <2> QED
    BY <2>1 DEF Idle
<1>5. ASSUME ChangePassword(s) \/ AcceptInvitation(s)
      PROVE  op'[s].pc = "cookie" /\ op'[s].typed = passwords'
  <2>1. op'[s] = [Idle EXCEPT !.pc = "cookie", !.typed = passwords']
    BY <1>5, Continued DEF ChangePassword, AcceptInvitation
  <2> QED
    BY <2>1 DEF Idle
<1>6. ASSUME OpenInvitation(s)
      PROVE  op'[s].pc = "invited" /\ op'[s].at = now /\ op'[s].invite \in DOMAIN invites
  <2>1. PICK i \in DOMAIN invites :
          Continue(s, [Idle EXCEPT !.pc = "invited", !.invite = i, !.at = now])
    BY <1>6 DEF OpenInvitation
  <2>2. op'[s] = [Idle EXCEPT !.pc = "invited", !.invite = i, !.at = now]
    BY <2>1, Continued
  <2> QED
    BY <2>2 DEF Idle
<1>7. ASSUME CheckInvitation(s)
      PROVE  \/ op'[s] = Idle
             \/ /\ op'[s].pc = "accept" /\ op'[s].at = op[s].at
                /\ op'[s].invite = op[s].invite /\ Ready(op[s].invite)
  <2>1. op[s] \in Operation
    BY DEF TypeOK
  <2>2. \/ op'[s] = Idle
        \/ op'[s] = [op[s] EXCEPT !.pc = "accept", !.status = account] /\ Ready(op[s].invite)
    BY <1>7, Continued DEF CheckInvitation, End
  <2> QED
    BY <2>1, <2>2 DEF Operation
<1>8. ASSUME StartIssue(s)
      PROVE  op'[s].pc = "issue" /\ op'[s].scope = Scope
  <2>1. op'[s] = [Idle EXCEPT !.pc = "issue", !.scope = Scope]
    BY <1>8, Continued DEF StartIssue
  <2> QED
    BY <2>1 DEF Idle
<1>9. ASSUME StartSave(s)
      PROVE  op'[s].pc = "save" /\ MaySave(op'[s].status)
  <2>1. PICK status \in Status :
          MaySave(status) /\ Continue(s, [Idle EXCEPT !.pc = "save", !.status = status])
    BY <1>9 DEF StartSave
  <2>2. op'[s] = [Idle EXCEPT !.pc = "save", !.status = status]
    BY <2>1, Continued
  <2>3. op'[s].pc = "save" /\ op'[s].status = status
    BY <2>2 DEF Idle
  <2> QED
    BY <2>1, <2>3
<1>10. ASSUME RejectLogin(s) \/ SetCookie(s) \/ Issue(s) \/ Save(s) \/ Crash(s)
       PROVE  op'[s] = Idle
  BY <1>10, Continued DEF RejectLogin, SetCookie, Issue, Save, Crash, End
<1>11. ASSUME Revoke(s) \/ Unlock(s)
       PROVE  op'[s] = op[s]
  BY <1>11 DEF Revoke, Unlock
<1> QED
  BY <1>1, <1>2, <1>3, <1>4, <1>5, <1>6, <1>7, <1>8, <1>9, <1>10, <1>11

LEMMA SaveStep ==
  ASSUME TypeOK, NEW s \in Slots, Handle(s),
         op'[s].pc = "save", op'[s].status = "active"
  PROVE  cred'.pw # 0 \/ op'[s] = op[s]
<1>1. CASE StartSave(s)
  <2>1. MaySave(op'[s].status) /\ cred' = cred
    BY <1>1, NextOperation DEF StartSave
  <2> QED
    BY <2>1 DEF MaySave
<1>2. CASE ~StartSave(s)
  BY <1>2, NextOperation, IdleFields DEF Handle
<1> QED
  BY <1>1, <1>2

LEMMA PasswordInvStep == PasswordInv /\ [Next]_vars => PasswordInv'
<1> SUFFICES ASSUME PasswordInv, [Next]_vars PROVE PasswordInv'
  OBVIOUS
<1>1. TypeOK /\ TypeOK'
  BY TypeStep DEF PasswordInv
<1>2. CASE \E s \in Slots : Handle(s)
  <2>1. PICK s \in Slots : Handle(s)
    BY <1>2
  <2>2. cred.pw # 0 => cred'.pw # 0
    BY <1>1, <2>1, PasswordStep
  <2>3. ActiveMeansPassword'
    <3>1. CASE account' = account
      BY <2>2, <3>1 DEF PasswordInv, ActiveMeansPassword
    <3>2. CASE Save(s)
      BY <3>2 DEF Save, PasswordInv, ActiveMeansPassword
    <3>3. CASE AcceptInvitation(s)
      BY <1>1, <3>3 DEF AcceptInvitation, NewPassword, ActiveMeansPassword, TypeOK
    <3> QED
      BY <1>1, <2>1, <3>1, <3>2, <3>3, AccountStep
  <2>4. ASSUME NEW q \in Slots, op'[q].pc = "save", op'[q].status = "active"
        PROVE  cred'.pw # 0
    <3>1. CASE op'[q] = op[q]
      BY <2>2, <2>4, <3>1 DEF PasswordInv
    <3>2. CASE q = s
      BY <1>1, <2>1, <2>4, <3>1, <3>2, SaveStep
    <3>3. CASE q # s
      <4>1. op'[q] = op[q]
        BY <1>1, <2>1, <3>3, OthersWait
      <4> QED
        BY <3>1, <4>1
    <3> QED
      BY <3>2, <3>3
  <2> QED
    BY <1>1, <2>3, <2>4 DEF PasswordInv
<1>3. CASE Tick
  BY <1>1, <1>3 DEF Tick, PasswordInv, ActiveMeansPassword
<1>4. CASE UNCHANGED vars
  BY <1>1, <1>4 DEF vars, PasswordInv, ActiveMeansPassword
<1> QED
  BY <1>2, <1>3, <1>4 DEF Next

(* However logins, invitations, password changes and administrators         *)
(* overlap, an account that may sign in has a password.                     *)
THEOREM ActiveHasPassword == Spec => []ActiveMeansPassword
<1>1. Init => PasswordInv
  <2> SUFFICES ASSUME Init PROVE PasswordInv
    OBVIOUS
  <2>1. ActiveMeansPassword
    BY DEF Init, ActiveMeansPassword, TemporaryPassword, NoCredential
  <2>2. \A s \in Slots : op[s].pc = "idle"
    BY DEF Init, Idle
  <2> QED
    BY <2>1, <2>2, TypeInit DEF PasswordInv
<1>2. PasswordInv => ActiveMeansPassword
  BY DEF PasswordInv
<1> QED
  BY <1>1, <1>2, PasswordInvStep, PTL DEF Spec

-----------------------------------------------------------------------------
(* One HTTP request at a time: what the request at work has read is still   *)
(* so.                                                                      *)

OneAtATime == \A p, q \in Slots : p = q

\* A login compares with the credential as it is, and that is not locked.
LoginInv ==
  /\ TypeOK
  /\ \A s \in Slots : op[s].pc = "login" =>
       /\ op[s].seen = cred
       /\ cred.lockedUntil <= op[s].at /\ op[s].at <= now

LEMMA LoginInvStep ==
  ASSUME OneAtATime, LoginInv, [Next]_vars
  PROVE  LoginInv'
<1>1. TypeOK /\ TypeOK'
  BY TypeStep DEF LoginInv
<1>2. CASE \E s \in Slots : Handle(s)
  <2>1. PICK s \in Slots : Handle(s)
    BY <1>2
  <2>2. ASSUME op'[s].pc = "login"
        PROVE  op'[s].seen = cred' /\ cred'.lockedUntil <= op'[s].at /\ op'[s].at <= now'
    <3>1. StartLogin(s)
      <4>1. Revoke(s) \/ Unlock(s) => op[s].pc = "idle"
        BY DEF Revoke, Unlock
      <4> QED
        BY <1>1, <2>1, <2>2, <4>1, NextOperation, IdleFields DEF Handle
    <3>2. op'[s].seen = cred /\ op'[s].at = now /\ cred' = cred /\ now' = now
      BY <1>1, <3>1, NextOperation DEF StartLogin
    <3>3. ~(cred.lockedUntil > now)
      BY <3>1 DEF StartLogin, MayTry, Locked
    <3>4. cred.lockedUntil \in Nat /\ now \in Nat
      BY <1>1 DEF TypeOK, Credential
    <3> QED
      BY <3>2, <3>3, <3>4
  <2>3. \A q \in Slots : q = s
    BY DEF OneAtATime
  <2> QED
    BY <1>1, <2>2, <2>3 DEF LoginInv
<1>3. CASE Tick
  <2>1. UNCHANGED <<cred, op>> /\ now' = now + 1 /\ now \in Nat
    BY <1>1, <1>3 DEF Tick, TypeOK
  <2>2. \A s \in Slots : op[s].at \in Nat
    BY <1>1 DEF TypeOK, Operation
  <2> QED
    BY <1>1, <2>1, <2>2 DEF LoginInv
<1>4. CASE UNCHANGED vars
  BY <1>1, <1>4 DEF vars, LoginInv
<1> QED
  BY <1>2, <1>3, <1>4 DEF Next

LEMMA LoginInit == Init => LoginInv
BY TypeInit, IdleFields DEF Init, LoginInv

(* A lock that is running lets no login attempt through: only an            *)
(* administrator or a new password ends it early.                           *)
THEOREM SerialLock ==
  ASSUME OneAtATime
  PROVE  Spec => LockHolds
<1>1. ASSUME LoginInv, Locked(cred) PROVE \A s \in Slots : op[s].pc # "login"
  <2>1. SUFFICES ASSUME NEW s \in Slots, op[s].pc = "login" PROVE FALSE
    OBVIOUS
  <2>2. cred.lockedUntil <= op[s].at /\ op[s].at <= now /\ cred.lockedUntil > now
    BY <1>1, <2>1 DEF LoginInv, Locked
  <2>3. cred.lockedUntil \in Nat /\ op[s].at \in Nat /\ now \in Nat
    BY <1>1 DEF LoginInv, TypeOK, Operation, Credential
  <2> QED
    BY <2>2, <2>3
<1>2. LoginInv => (Locked(cred) /\ now' = now /\ cred'.lockedUntil <= now
                     => \A s \in Slots : op[s].pc = "login" => op'[s] = op[s])
  BY <1>1
<1>3. LoginInv /\ [Next]_vars => LoginInv'
  BY LoginInvStep
<1> QED
  BY <1>2, <1>3, LoginInit, PTL DEF Spec, LockHolds

FailuresInv ==
  /\ LoginInv
  /\ FailuresLock
  /\ wrong <= cred.failed

LEMMA FailuresInvStep ==
  ASSUME OneAtATime, FailuresInv, [Next]_vars
  PROVE  FailuresInv'
<1>1. LoginInv /\ LoginInv' /\ TypeOK
  BY LoginInvStep DEF FailuresInv, LoginInv
<1>2. wrong \in Nat /\ cred.failed \in Nat /\ MaxFailed \in Nat \ {0} /\ cred \in Credential
  BY <1>1, AccountAssumption DEF TypeOK, Credential
<1>3. CASE \E s \in Slots : Handle(s)
  <2>1. PICK s \in Slots : Handle(s)
    BY <1>3
  <2>2. CASE RejectLogin(s)
    <3>1. op[s].seen = cred
      BY <1>1, <2>2 DEF RejectLogin, LoginInv
    <3>2. cred'.failed = cred.failed + 1
      BY <1>2, <2>2, <3>1 DEF RejectLogin, Credential
    <3>3. wrong' = IF cred.failed + 1 >= MaxFailed THEN 0 ELSE wrong + 1
      BY <2>2, <3>1 DEF RejectLogin, LocksAt
    <3> QED
      BY <1>1, <1>2, <3>2, <3>3 DEF FailuresInv, FailuresLock
  <2>3. CASE AcceptLogin(s) \/ ChangePassword(s) \/ AcceptInvitation(s) \/ Unlock(s)
    <3>1. wrong' = 0
      BY <2>3 DEF AcceptLogin, ChangePassword, AcceptInvitation, Unlock
    <3>2. cred'.failed = 0
      <4>1. CASE ChangePassword(s)
        BY <4>1 DEF ChangePassword, NewPassword
      <4>2. CASE AcceptInvitation(s)
        BY <4>2 DEF AcceptInvitation, NewPassword
      <4>3. CASE AcceptLogin(s) \/ Unlock(s)
        BY <1>2, <4>3 DEF AcceptLogin, Unlock, Credential
      <4> QED
        BY <2>3, <4>1, <4>2, <4>3
    <3> QED
      BY <1>1, <1>2, <3>1, <3>2 DEF FailuresInv, FailuresLock
  <2>4. CASE \/ StartLogin(s) \/ SetCookie(s) \/ SwitchCompany(s) \/ StartChange(s)
             \/ OpenInvitation(s) \/ CheckInvitation(s) \/ StartIssue(s) \/ Issue(s)
             \/ StartSave(s) \/ Save(s) \/ Revoke(s) \/ Crash(s)
    <3>1. UNCHANGED <<cred, wrong>>
      BY <2>4 DEF StartLogin, SetCookie, SwitchCompany, StartChange, OpenInvitation,
                  CheckInvitation, StartIssue, Issue, StartSave, Save, Revoke, Crash
    <3> QED
      BY <1>1, <3>1 DEF FailuresInv, FailuresLock
  <2> QED
    BY <2>1, <2>2, <2>3, <2>4 DEF Handle
<1>4. CASE Tick
  BY <1>1, <1>4 DEF Tick, FailuresInv, FailuresLock
<1>5. CASE UNCHANGED vars
  BY <1>1, <1>5 DEF vars, FailuresInv, FailuresLock
<1> QED
  BY <1>3, <1>4, <1>5 DEF Next

(* One request at a time, the account locks on the last allowed failure.    *)
THEOREM SerialFailures ==
  ASSUME OneAtATime
  PROVE  Spec => []FailuresLock
<1>1. Init => FailuresInv
  <2> SUFFICES ASSUME Init PROVE FailuresInv
    OBVIOUS
  <2>1. wrong = 0 /\ cred.failed = 0 /\ MaxFailed \in Nat \ {0}
    BY AccountAssumption DEF Init, TemporaryPassword, NoCredential
  <2> QED
    BY <2>1, LoginInit DEF FailuresInv, FailuresLock
<1>2. FailuresInv => FailuresLock
  BY DEF FailuresInv
<1>3. FailuresInv /\ [Next]_vars => FailuresInv'
  BY FailuresInvStep
<1> QED
  BY <1>1, <1>2, <1>3, PTL DEF Spec

\* Every cookie is older than the last change of the password, or was got with
\* the password of now; one that is being made will be.
SupersedeInv ==
  /\ LoginInv
  /\ \A x \in sessions : x.at <= now /\ (x.pw = cred.pw \/ x.at < cred.changedAt)
  /\ \A s \in Slots :
       /\ op[s].pc = "cookie" => op[s].typed = cred.pw
       /\ op[s].pc \in {"change", "invited", "accept"} => \A x \in sessions : x.at < op[s].at

\* Setting a password leaves every cookie behind the change.
LEMMA SupersedeSet ==
  ASSUME OneAtATime, SupersedeInv, NEW s \in Slots, ChangePassword(s) \/ AcceptInvitation(s)
  PROVE  /\ \A x \in sessions : x.at < cred'.changedAt
         /\ cred'.pw = passwords'
         /\ sessions' = sessions /\ now' = now
<1>1. op[s].pc \in {"change", "invited", "accept"}
  BY DEF ChangePassword, AcceptInvitation
<1>2. cred'.changedAt = op[s].at /\ cred'.pw = passwords'
  BY DEF ChangePassword, AcceptInvitation, NewPassword
<1> QED
  BY <1>1, <1>2 DEF SupersedeInv, ChangePassword, AcceptInvitation

LEMMA SupersedeInvStep ==
  ASSUME OneAtATime, SupersedeInv, [Next]_vars
  PROVE  SupersedeInv'
<1>1. LoginInv /\ LoginInv' /\ TypeOK /\ now \in Nat /\ cred \in Credential
  BY LoginInvStep DEF SupersedeInv, LoginInv, TypeOK
<1>2. \A x \in sessions : x.at \in Nat
  BY <1>1 DEF TypeOK
<1>3. CASE \E s \in Slots : Handle(s)
  <2>1. PICK s \in Slots : Handle(s)
    BY <1>3
  <2>2. \A q \in Slots : q = s
    BY DEF OneAtATime
  <2> DEFINE Cookies == \A x \in sessions : x.at <= now
                                            /\ (x.pw = cred.pw \/ x.at < cred.changedAt)
             Made == op[s].pc = "cookie" => op[s].typed = cred.pw
             Setting == op[s].pc \in {"change", "invited", "accept"}
                          => \A x \in sessions : x.at < op[s].at
  <2>3. Cookies /\ Made /\ Setting
    BY DEF SupersedeInv
  <2>4. SUFFICES Cookies' /\ Made' /\ Setting'
    BY <1>1, <2>2 DEF SupersedeInv
  <2>5. CASE ChangePassword(s) \/ AcceptInvitation(s)
    <3>1. op'[s].pc = "cookie" /\ op'[s].typed = passwords'
      BY <1>1, <2>5, NextOperation
    <3> QED
      BY <2>3, <2>5, <3>1, SupersedeSet
  <2>6. CASE SetCookie(s)
    <3>1. op'[s].pc = "idle" /\ cred' = cred /\ now' = now
      BY <1>1, <2>6, NextOperation, IdleFields DEF SetCookie
    <3>2. op[s].typed = cred.pw
      BY <2>3, <2>6 DEF SetCookie
    <3>3. \A x \in sessions' : x \in sessions \/ (x.at = now /\ x.pw = cred.pw)
      BY <2>6, <3>2 DEF SetCookie
    <3> QED
      BY <1>1, <2>3, <3>1, <3>3
  <2>7. CASE RejectLogin(s) \/ AcceptLogin(s) \/ Unlock(s)
    <3>1. cred'.pw = cred.pw /\ cred'.changedAt = cred.changedAt
      <4>1. CASE RejectLogin(s)
        BY <1>1, <4>1 DEF RejectLogin, Credential
      <4>2. CASE AcceptLogin(s) \/ Unlock(s)
        BY <1>1, <4>2 DEF AcceptLogin, Unlock, Credential
      <4> QED
        BY <2>7, <4>1, <4>2
    <3>2. sessions' = sessions /\ now' = now
      BY <2>7 DEF RejectLogin, AcceptLogin, Unlock
    <3>3. CASE AcceptLogin(s)
      <4>1. op[s].typed = cred.pw
        BY <1>1, <3>3 DEF AcceptLogin, LoginInv
      <4>2. op'[s].pc = "cookie" /\ op'[s].typed = op[s].typed
        BY <1>1, <3>3, NextOperation
      <4> QED
        BY <2>3, <3>1, <3>2, <4>1, <4>2
    <3>4. CASE RejectLogin(s) \/ Unlock(s)
      <4>1. op'[s].pc = "idle"
        BY <1>1, <3>4, NextOperation, IdleFields DEF Unlock
      <4> QED
        BY <2>3, <3>1, <3>2, <4>1
    <3> QED
      BY <2>7, <3>3, <3>4
  <2>8. CASE \/ StartLogin(s) \/ SwitchCompany(s) \/ StartChange(s) \/ OpenInvitation(s)
             \/ CheckInvitation(s) \/ StartIssue(s) \/ Issue(s) \/ StartSave(s) \/ Save(s)
             \/ Revoke(s) \/ Crash(s)
    <3>1. UNCHANGED <<cred, sessions, now>>
      BY <2>8 DEF StartLogin, SwitchCompany, StartChange, OpenInvitation, CheckInvitation,
                  StartIssue, Issue, StartSave, Save, Revoke, Crash
    <3>2. Cookies'
      BY <2>3, <3>1
    <3>3. Made'
      <4>1. CASE SwitchCompany(s)
        <5>1. PICK x \in sessions : Valid(x) /\ op'[s].typed = x.pw
          BY <1>1, <4>1, NextOperation
        <5>2. ~(x.at < cred.changedAt)
          BY <5>1 DEF Valid, Superseded
        <5> QED
          BY <2>3, <3>1, <5>1, <5>2
      <4>2. CASE ~SwitchCompany(s)
        <5>1. Revoke(s) => op[s].pc = "idle"
          BY DEF Revoke
        <5>2. op'[s].pc # "cookie"
          BY <1>1, <2>8, <4>2, <5>1, NextOperation, IdleFields
        <5> QED
          BY <5>2
      <4> QED
        BY <4>1, <4>2
    <3>4. Setting'
      <4>1. CASE StartChange(s) \/ OpenInvitation(s)
        <5>1. op'[s].at = now
          BY <1>1, <4>1, NextOperation
        <5>2. \A x \in sessions : now # x.at
          BY <4>1 DEF StartChange, OpenInvitation, Fresh
        <5>3. \A x \in sessions : x.at < now
          BY <1>1, <1>2, <2>3, <5>2
        <5> QED
          BY <3>1, <5>1, <5>3
      <4>2. CASE CheckInvitation(s)
        <5>1. op[s].pc = "invited" /\ (op'[s].pc = "idle" \/ op'[s].at = op[s].at)
          BY <1>1, <4>2, NextOperation, IdleFields DEF CheckInvitation
        <5> QED
          BY <2>3, <3>1, <5>1
      <4>3. CASE ~(StartChange(s) \/ OpenInvitation(s) \/ CheckInvitation(s))
        <5>1. Revoke(s) => op[s].pc = "idle"
          BY DEF Revoke
        <5>2. op'[s].pc \notin {"change", "invited", "accept"}
          BY <1>1, <2>8, <4>3, <5>1, NextOperation, IdleFields
        <5> QED
          BY <5>2
      <4> QED
        BY <4>1, <4>2, <4>3
    <3> QED
      BY <3>2, <3>3, <3>4
  <2> QED
    BY <2>1, <2>5, <2>6, <2>7, <2>8 DEF Handle
<1>4. CASE Tick
  <2>1. UNCHANGED <<cred, sessions, op>> /\ now' = now + 1
    BY <1>4 DEF Tick
  <2> QED
    BY <1>1, <1>2, <2>1 DEF SupersedeInv
<1>5. CASE UNCHANGED vars
  BY <1>1, <1>5 DEF vars, SupersedeInv
<1> QED
  BY <1>3, <1>4, <1>5 DEF Next

(* One request at a time, a cookie got with a password that was replaced is *)
(* superseded, whoever replaced it and however the session was renewed.     *)
THEOREM SerialSupersede ==
  ASSUME OneAtATime
  PROVE  Spec => []OldPasswordEnds
<1>1. Init => SupersedeInv
  BY LoginInit, IdleFields DEF Init, SupersedeInv
<1>2. SupersedeInv => OldPasswordEnds
  <2> SUFFICES ASSUME SupersedeInv, NEW x \in sessions, Valid(x) PROVE x.pw = cred.pw
    BY DEF OldPasswordEnds
  <2>1. ~(x.at < cred.changedAt)
    BY DEF Valid, Superseded
  <2> QED
    BY <2>1 DEF SupersedeInv
<1>3. SupersedeInv /\ [Next]_vars => SupersedeInv'
  BY SupersedeInvStep
<1> QED
  BY <1>1, <1>2, <1>3, PTL DEF Spec

\* An invitation being accepted is still open, and open ones are unused.
InviteInv ==
  /\ TypeOK
  /\ InvitationUsedOnce
  /\ \A i \in Open : invites[i].uses = 0
  /\ \A s \in Slots : /\ op[s].pc = "invited" => op[s].invite \in DOMAIN invites
                      /\ op[s].pc = "accept" => op[s].invite \in Open

\* How an invitation that is there can change.
LEMMA InviteStep ==
  ASSUME OneAtATime, InviteInv, NEW s \in Slots, Handle(s), invites' # invites,
         NEW i \in DOMAIN invites'
  PROVE  \/ /\ i \in DOMAIN invites /\ invites'[i] = invites[i]
         \/ /\ i \in Open /\ invites'[i].revoked /\ invites'[i].uses = 0
         \/ /\ i \in Open /\ invites'[i].accepted /\ ~invites'[i].revoked
            /\ invites'[i].uses = 1
         \/ /\ invites'[i].uses = 0 /\ ~invites'[i].revoked
<1>1. TypeOK /\ invites \in Seq(Invite)
  BY DEF InviteInv, TypeOK
<1>2. Issue(s) \/ Revoke(s) \/ AcceptInvitation(s)
  BY DEF Handle, StartLogin, RejectLogin, AcceptLogin, SetCookie, SwitchCompany, StartChange,
         ChangePassword, OpenInvitation, CheckInvitation, StartIssue, StartSave, Save, Unlock,
         Crash
<1>3. ASSUME NEW j \in Open
      PROVE  /\ j \in DOMAIN invites /\ ~invites[j].revoked /\ ~invites[j].accepted
             /\ invites[j].uses = 0 /\ invites[j] \in Invite
             /\ [invites[j] EXCEPT !.revoked = TRUE].revoked
             /\ [invites[j] EXCEPT !.revoked = TRUE].uses = 0
  <2>1. j \in DOMAIN invites /\ ~invites[j].revoked /\ ~invites[j].accepted /\ invites[j].uses = 0
    BY DEF Open, InviteInv
  <2>2. invites[j] \in Invite
    BY <1>1, <2>1, InviteAt
  <2> QED
    BY <2>1, <2>2 DEF Invite
<1>4. CASE AcceptInvitation(s)
  <2>1. i \in DOMAIN invites
        /\ invites'[i] = IF i = op[s].invite THEN Used(invites[i]) ELSE invites[i]
    BY <1>4 DEF AcceptInvitation
  <2>2. op[s].invite \in Open
    BY <1>4 DEF AcceptInvitation, InviteInv
  <2>3. CASE i = op[s].invite
    <3>1. i \in Open /\ invites[i] \in Invite /\ invites[i].uses = 0 /\ ~invites[i].revoked
      BY <1>3, <2>2, <2>3
    <3>2. Used(invites[i]).accepted /\ ~Used(invites[i]).revoked /\ Used(invites[i]).uses = 0 + 1
      BY <3>1 DEF Used, Invite
    <3> QED
      BY <2>1, <2>3, <3>1, <3>2
  <2> QED
    BY <2>1, <2>3
<1>5. CASE Revoke(s)
  <2>1. i \in DOMAIN invites
        /\ invites'[i] = IF i \in Open THEN [invites[i] EXCEPT !.revoked = TRUE] ELSE invites[i]
    BY <1>5 DEF Revoke
  <2> QED
    BY <1>3, <2>1
<1>6. CASE Issue(s)
  <2> DEFINE f == [j \in DOMAIN invites |->
                     IF j \in op[s].scope \cap Open
                       THEN [invites[j] EXCEPT !.revoked = TRUE] ELSE invites[j]]
  <2>1. invites' = Append(f, NewInvite)
    BY <1>6 DEF Issue
  <2>2. \A j \in DOMAIN invites : f[j] \in Invite
    <3>1. \A j \in DOMAIN invites : invites[j] \in Invite
      BY <1>1, InviteAt
    <3> QED
      BY <3>1 DEF Invite
  <2>3. \A j \in DOMAIN invites :
          f[j] = invites[j] \/ (j \in Open /\ f[j] = [invites[j] EXCEPT !.revoked = TRUE])
    OBVIOUS
  <2>4. DOMAIN f = DOMAIN invites /\ f = [j \in DOMAIN invites |-> f[j]]
    OBVIOUS
  <2> HIDE DEF f
  <2>5. f \in Seq(Invite)
    BY <1>1, <2>2, <2>4, InvitesType
  <2>6. \/ i \in DOMAIN f /\ invites'[i] = f[i]
        \/ invites'[i] = NewInvite
    BY <2>1, <2>5
  <2>7. NewInvite.uses = 0 /\ ~NewInvite.revoked
    BY DEF NewInvite
  <2>8. CASE invites'[i] = NewInvite
    BY <2>7, <2>8
  <2>9. CASE i \in DOMAIN f /\ invites'[i] = f[i]
    <3>1. i \in DOMAIN invites
      BY <2>4, <2>9
    <3>2. CASE f[i] = invites[i]
      BY <2>9, <3>1, <3>2
    <3>3. CASE i \in Open /\ f[i] = [invites[i] EXCEPT !.revoked = TRUE]
      <4>1. f[i].revoked /\ f[i].uses = 0
        BY <1>3, <3>3
      <4> QED
        BY <2>9, <3>3, <4>1
    <3> QED
      BY <2>3, <3>1, <3>2, <3>3
  <2> QED
    BY <2>6, <2>8, <2>9
<1> QED
  BY <1>2, <1>4, <1>5, <1>6

LEMMA InviteInvStep ==
  ASSUME OneAtATime, InviteInv, [Next]_vars
  PROVE  InviteInv'
<1>1. TypeOK /\ TypeOK'
  BY TypeStep DEF InviteInv
<1>2. CASE \E s \in Slots : Handle(s)
  <2>1. PICK s \in Slots : Handle(s)
    BY <1>2
  <2>2. \A q \in Slots : q = s
    BY DEF OneAtATime
  <2>3. InvitationUsedOnce' /\ (\A i \in Open : invites[i].uses = 0)'
    <3>1. CASE invites' = invites
      BY <3>1 DEF InviteInv, InvitationUsedOnce, Open
    <3>2. CASE invites' # invites
      <4>1. SUFFICES ASSUME NEW i \in DOMAIN invites'
                     PROVE  /\ invites'[i].uses <= 1
                            /\ invites'[i].revoked => invites'[i].uses = 0
                            /\ ~invites'[i].accepted /\ ~invites'[i].revoked
                                 => invites'[i].uses = 0
        BY DEF InvitationUsedOnce, Open
      <4>2. CASE i \in DOMAIN invites /\ invites'[i] = invites[i]
        BY <4>2 DEF InviteInv, InvitationUsedOnce, Open
      <4> QED
        BY <2>1, <3>2, <4>2, InviteStep
    <3> QED
      BY <3>1, <3>2
  <2>4. op'[s].pc = "invited" => op'[s].invite \in DOMAIN invites'
    <3>1. CASE OpenInvitation(s)
      BY <1>1, <3>1, NextOperation DEF OpenInvitation
    <3>2. CASE ~OpenInvitation(s)
      <4>1. Revoke(s) \/ Unlock(s) => op[s].pc = "idle"
        BY DEF Revoke, Unlock
      <4> QED
        BY <1>1, <2>1, <3>2, <4>1, NextOperation, IdleFields DEF Handle
    <3> QED
      BY <3>1, <3>2
  <2>5. op'[s].pc = "accept" => op'[s].invite \in Open'
    <3>1. CASE CheckInvitation(s)
      <4>1. op[s].invite \in DOMAIN invites /\ invites' = invites
        BY <3>1 DEF CheckInvitation, InviteInv
      <4>2. op'[s].pc = "accept" => op'[s].invite = op[s].invite /\ Ready(op[s].invite)
        BY <1>1, <3>1, NextOperation, IdleFields
      <4> QED
        BY <4>1, <4>2 DEF Ready, Open
    <3>2. CASE ~CheckInvitation(s)
      <4>1. Revoke(s) \/ Unlock(s) => op[s].pc = "idle"
        BY DEF Revoke, Unlock
      <4> QED
        BY <1>1, <2>1, <3>2, <4>1, NextOperation, IdleFields DEF Handle
    <3> QED
      BY <3>1, <3>2
  <2> QED
    BY <1>1, <2>2, <2>3, <2>4, <2>5 DEF InviteInv
<1>3. CASE Tick
  BY <1>1, <1>3 DEF Tick, InviteInv, InvitationUsedOnce, Open
<1>4. CASE UNCHANGED vars
  BY <1>1, <1>4 DEF vars, InviteInv, InvitationUsedOnce, Open
<1> QED
  BY <1>2, <1>3, <1>4 DEF Next

(* One request at a time, an invitation sets one password at most, and none *)
(* once an administrator revoked or replaced it.                            *)
THEOREM SerialInvitation ==
  ASSUME OneAtATime
  PROVE  Spec => []InvitationUsedOnce
<1>1. Init => InviteInv
  <2> SUFFICES ASSUME Init PROVE InviteInv
    OBVIOUS
  <2>1. \A i \in DOMAIN invites : invites[i].uses = 0 /\ ~invites[i].revoked
    <3>1. invites = <<>> \/ invites = <<NewInvite>>
      BY DEF Init
    <3>2. NewInvite.uses = 0 /\ ~NewInvite.revoked
      BY DEF NewInvite
    <3> QED
      BY <3>1, <3>2
  <2>2. InvitationUsedOnce /\ \A i \in Open : invites[i].uses = 0
    BY <2>1 DEF InvitationUsedOnce, Open
  <2>3. \A s \in Slots : op[s].pc = "idle"
    BY IdleFields DEF Init
  <2> QED
    BY <2>2, <2>3, TypeInit DEF InviteInv
<1>2. InviteInv => InvitationUsedOnce
  BY DEF InviteInv
<1>3. InviteInv /\ [Next]_vars => InviteInv'
  BY InviteInvStep
<1> QED
  BY <1>1, <1>2, <1>3, PTL DEF Spec

-----------------------------------------------------------------------------
(* Any overlap but one: two administrators do not issue at the same time.   *)

OneIssuing == \A p, q \in Slots : op[p].pc = "issue" /\ op[q].pc = "issue" => p = q

\* There is one open invitation at most, and an administrator who is issuing
\* another has found it.
OpenInv ==
  /\ TypeOK
  /\ \A i, j \in Open : i = j
  /\ \A s \in Slots : op[s].pc = "issue" => Open \subseteq op[s].scope

LEMMA OneOpen ==
  ASSUME \A i, j \in Open : i = j
  PROVE  OneOpenInvitation
<1>1. CASE Open = {}
  <2>1. Cardinality({}) = 0
    BY FS_EmptySet
  <2> QED
    BY <1>1, <2>1 DEF OneOpenInvitation
<1>2. ASSUME NEW i \in Open
      PROVE  OneOpenInvitation
  <2>1. Open = {i}
    BY <1>2
  <2>2. Cardinality({i}) = 1
    BY FS_Singleton
  <2> QED
    BY <2>1, <2>2 DEF OneOpenInvitation
<1> QED
  BY <1>1, <1>2

\* Only issuing opens an invitation.
LEMMA OpenStep ==
  ASSUME TypeOK, NEW s \in Slots, Handle(s), ~Issue(s)
  PROVE  Open' \subseteq Open
<1>1. CASE invites' = invites
  BY <1>1 DEF Open
<1>2. CASE AcceptInvitation(s) \/ Revoke(s)
  <2>1. ASSUME NEW i \in Open'
        PROVE  i \in Open
    <3>1. i \in DOMAIN invites' /\ ~invites'[i].accepted /\ ~invites'[i].revoked
      BY DEF Open
    <3>2. invites \in Seq(Invite) /\ i \in DOMAIN invites
      BY <1>2, <3>1 DEF TypeOK, AcceptInvitation, Revoke
    <3>3. invites[i] \in Invite
      BY <3>2, InviteAt
    <3>4. Used(invites[i]).accepted /\ [invites[i] EXCEPT !.revoked = TRUE].revoked
      BY <3>3 DEF Used, Invite
    <3>5. invites'[i] = invites[i]
      BY <1>2, <3>1, <3>2, <3>4 DEF AcceptInvitation, Revoke
    <3> QED
      BY <3>1, <3>2, <3>5 DEF Open
  <2> QED
    BY <2>1
<1> QED
  BY <1>1, <1>2 DEF Handle, StartLogin, RejectLogin, AcceptLogin, SetCookie, SwitchCompany,
     StartChange, ChangePassword, OpenInvitation, CheckInvitation, StartIssue, StartSave, Save,
     Unlock, Crash

\* Issuing closes whatever it found and opens one.
LEMMA IssueStep ==
  ASSUME TypeOK, NEW s \in Slots, Issue(s), Open \subseteq op[s].scope
  PROVE  Open' \subseteq {Len(invites) + 1}
<1> DEFINE f == [j \in DOMAIN invites |->
                   IF j \in op[s].scope \cap Open
                     THEN [invites[j] EXCEPT !.revoked = TRUE] ELSE invites[j]]
<1>1. invites' = Append(f, NewInvite) /\ invites \in Seq(Invite)
  BY DEF Issue, TypeOK
<1>2. \A j \in DOMAIN invites : f[j] \in Invite /\ (f[j].accepted \/ f[j].revoked)
  <2> SUFFICES ASSUME NEW j \in DOMAIN invites
               PROVE  f[j] \in Invite /\ (f[j].accepted \/ f[j].revoked)
    OBVIOUS
  <2>1. invites[j] \in Invite
    BY <1>1, InviteAt
  <2>2. CASE j \in Open
    <3>1. f[j] = [invites[j] EXCEPT !.revoked = TRUE]
      BY <2>2
    <3> QED
      BY <2>1, <3>1 DEF Invite
  <2>3. CASE j \notin Open
    <3>1. f[j] = invites[j]
      BY <2>3
    <3> QED
      BY <2>1, <2>3, <3>1 DEF Open
  <2> QED
    BY <2>2, <2>3
<1>3. DOMAIN f = DOMAIN invites /\ f = [j \in DOMAIN invites |-> f[j]]
  OBVIOUS
<1> HIDE DEF f
<1>4. f \in Seq(Invite)
  BY <1>1, <1>2, <1>3, InvitesType
<1>5. Len(f) = Len(invites) /\ Len(f) \in Nat /\ DOMAIN f = 1..Len(f)
  BY <1>1, <1>3, <1>4
<1>6. /\ Len(invites') = Len(f) + 1 /\ DOMAIN invites' = 1..(Len(f) + 1)
      /\ \A j \in 1..Len(f) : invites'[j] = f[j]
  BY <1>1, <1>4, <1>5
<1>7. ASSUME NEW i \in Open'
      PROVE  i = Len(invites) + 1
  <2>1. i \in 1..(Len(f) + 1) /\ ~invites'[i].accepted /\ ~invites'[i].revoked
    BY <1>6 DEF Open
  <2>2. i \notin 1..Len(f)
    BY <1>2, <1>3, <1>5, <1>6, <2>1
  <2> QED
    BY <1>5, <2>1, <2>2
<1> QED
  BY <1>7

LEMMA OpenInvStep ==
  ASSUME OneIssuing, OpenInv, [Next]_vars
  PROVE  OpenInv'
<1>1. TypeOK /\ TypeOK'
  BY TypeStep DEF OpenInv
<1>2. CASE \E s \in Slots : Handle(s)
  <2>1. PICK s \in Slots : Handle(s)
    BY <1>2
  <2>2. \A q \in Slots : q # s => op'[q] = op[q]
    BY <1>1, <2>1, OthersWait
  <2>3. CASE Issue(s)
    <3>1. op[s].pc = "issue" /\ Open' \subseteq {Len(invites) + 1}
      BY <1>1, <2>3, IssueStep DEF OpenInv, Issue
    <3>2. \A q \in Slots : op'[q].pc # "issue"
      <4>1. op'[s].pc = "idle"
        BY <1>1, <2>3, NextOperation, IdleFields
      <4> QED
        BY <2>2, <3>1, <4>1 DEF OneIssuing
    <3> QED
      BY <1>1, <3>1, <3>2 DEF OpenInv
  <2>4. CASE ~Issue(s)
    <3>1. Open' \subseteq Open
      BY <1>1, <2>1, <2>4, OpenStep
    <3>2. op'[s].pc = "issue" => Open' \subseteq op'[s].scope
      <4>1. CASE StartIssue(s)
        BY <1>1, <3>1, <4>1, NextOperation DEF Scope
      <4>2. CASE ~StartIssue(s)
        <5>1. Revoke(s) \/ Unlock(s) => op[s].pc = "idle"
          BY DEF Revoke, Unlock
        <5> QED
          BY <1>1, <2>1, <2>4, <4>2, <5>1, NextOperation, IdleFields DEF Handle
      <4> QED
        BY <4>1, <4>2
    <3>3. \A q \in Slots : op'[q].pc = "issue" => Open' \subseteq op'[q].scope
      BY <2>2, <3>1, <3>2 DEF OpenInv
    <3> QED
      BY <1>1, <3>1, <3>3 DEF OpenInv
  <2> QED
    BY <2>3, <2>4
<1>3. CASE Tick
  BY <1>1, <1>3 DEF Tick, OpenInv, Open
<1>4. CASE UNCHANGED vars
  BY <1>1, <1>4 DEF vars, OpenInv, Open
<1> QED
  BY <1>2, <1>3, <1>4 DEF Next

(* A new invitation replaces the earlier ones, whatever overlaps with it:   *)
(* only two administrators who issue at the same time can leave more than   *)
(* one link open (issueInvitationForMembership).                            *)
THEOREM OneLinkUnlessIssuedTwice == Spec /\ []OneIssuing => []OneOpenInvitation
<1>1. Init => OpenInv
  <2> SUFFICES ASSUME Init PROVE OpenInv
    OBVIOUS
  <2>1. \A i \in DOMAIN invites : i = 1
    BY DEF Init
  <2>2. \A s \in Slots : op[s].pc = "idle"
    BY IdleFields DEF Init
  <2> QED
    BY <2>1, <2>2, TypeInit DEF OpenInv, Open
<1>2. OpenInv => OneOpenInvitation
  BY OneOpen DEF OpenInv
<1>3. OneIssuing /\ OpenInv /\ [Next]_vars => OpenInv'
  BY OpenInvStep
<1> QED
  BY <1>1, <1>2, <1>3, PTL DEF Spec
=============================================================================
