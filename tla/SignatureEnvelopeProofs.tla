----------------------- MODULE SignatureEnvelopeProofs -----------------------
(* Theorems about SignatureEnvelope, for any number of recipients, any      *)
(* routing and any number of overlapping requests.                          *)
EXTENDS SignatureEnvelope, FiniteSetTheorems, TLAPS

(* A nonempty set of recipients has a first one: the inclusion order on the *)
(* intervals 1..r is well founded.                                          *)
LEMMA FirstType ==
  ASSUME NEW S \in SUBSET Recipients, S # {}
  PROVE  First(S) \in S
<1> DEFINE T == {1..r : r \in S}
<1>1. IsFiniteSet(Recipients)
  BY FS_Interval, RoutingAssumption DEF Recipients
<1>2. T \subseteq FiniteSubsetsOf(Recipients) /\ T # {}
  <2>1. T \subseteq SUBSET Recipients
    BY RoutingAssumption DEF Recipients
  <2> QED
    BY <1>1, <2>1, FS_FiniteSubsetsOfFinite
<1>3. PICK X \in T : \A Y \in T : <<Y, X>> \notin StrictSubsetOrdering(Recipients)
  <2>1. IsWellFoundedOn(StrictSubsetOrdering(Recipients), FiniteSubsetsOf(Recipients))
    BY FS_StrictSubsetOrderingWellFounded
  <2> HIDE DEF T
  <2> QED
    BY <1>2, <2>1, WFMin
<1>4. PICK x \in S : X = 1..x
  OBVIOUS
<1>5. ASSUME NEW y \in S PROVE x <= y
  <2>1. x \in Nat /\ y \in Nat /\ 1..x \in SUBSET Recipients /\ 1..y \in SUBSET Recipients
    BY RoutingAssumption DEF Recipients
  <2>2. SUFFICES ASSUME y < x PROVE FALSE
    BY <2>1
  <2>3. 1..y \subseteq 1..x /\ 1..y # 1..x
    <3>1. x \in 1..x /\ x \notin 1..y
      BY <2>1, <2>2
    <3> QED
      BY <2>1, <2>2, <3>1
  <2>4. <<1..y, 1..x>> \in StrictSubsetOrdering(Recipients)
    BY <2>1, <2>3 DEF StrictSubsetOrdering
  <2> QED
    BY <1>3, <1>4, <2>4
<1> QED
  BY <1>5 DEF First

(* A nonempty set of recipients in, members of the same set out.            *)
LEMMA ActiveType ==
  ASSUME NEW r \in [Recipients -> RecipientStatus]
  PROVE  Active(r) \subseteq Recipients
BY DEF Active, Open, Signers

(* The derived status is always one of the schema.                          *)
LEMMA DeriveType ==
  ASSUME NEW current \in RequestStatus, NEW r
  PROVE  Derive(current, r) \in RequestStatus
BY DEF Derive, RequestStatus

LEMMA CardinalityType ==
  ASSUME NEW S \in SUBSET Recipients
  PROVE  Cardinality(S) \in Nat
<1>1. IsFiniteSet(Recipients)
  BY FS_Interval, RoutingAssumption DEF Recipients
<1> QED
  BY <1>1, FS_Subset, FS_CardinalityType

LEMMA IdleType == Idle \in Operation /\ NoRead \in ReadOf /\ NoWrite \in WriteOf
BY DEF Idle, Operation, Actions, NoRead, NoWrite, NoGrant, NewRows, NewRequest, ReadOf,
       WriteOf, Request, RequestStatus, RecipientStatus

LEMMA ReadType ==
  ASSUME TypeOK
  PROVE  Read \in ReadOf
BY DEF TypeOK, Read, ReadOf, Resolve, Request, RequestStatus

(* An operation in the middle of a transaction has an action, and one that  *)
(* works on a link knows what the visit is for.                             *)
WellFormed(o) ==
  /\ o.pc \in {"mail", "begin", "write", "commit"} => o.kind \in Actions
  /\ o.pc \in {"load", "reload"} \/ o.token # 0 => o.stage # "none"

TypeInv == TypeOK /\ \A s \in Slots : WellFormed(op[s])

LEMMA ContinueType ==
  ASSUME TypeInv, NEW s \in Slots, NEW o \in Operation, WellFormed(o), Continue(s, o)
  PROVE  op' \in [Slots -> Operation] /\ \A q \in Slots : WellFormed(op'[q])
BY DEF TypeInv, TypeOK, Continue

LEMMA EndType ==
  ASSUME TypeInv, NEW s \in Slots, End(s)
  PROVE  op' \in [Slots -> Operation] /\ \A q \in Slots : WellFormed(op'[q])
BY IdleType, ContinueType DEF End, WellFormed, Idle

(* The store, the mailboxes and the archive keep their shape.               *)
LEMMA StoreType ==
  ASSUME TypeInv, UNCHANGED <<store, past, sends, sent, archived>>,
         op' \in [Slots -> Operation] /\ \A q \in Slots : WellFormed(op'[q])
  PROVE  TypeInv'
BY DEF TypeInv, TypeOK, store, sent

LEMMA LoadedType ==
  ASSUME TypeInv, NEW s \in Slots, NEW r \in Recipients, op[s].pc \in {"load", "reload"}
  PROVE  Loaded(s, r) \in Operation /\ WellFormed(Loaded(s, r))
<1>1. op[s] \in Operation /\ WellFormed(op[s]) /\ edition \in Nat
  BY DEF TypeInv, TypeOK
<1>2. CASE op[s].stage = "open"
  BY <1>2, IdleType DEF Loaded, WellFormed, Idle
<1>3. CASE op[s].stage # "open"
  <2>1. op[s].stage \in {"check", "route", "finish"}
    BY <1>1, <1>3 DEF Operation, WellFormed
  <2>2. Read \in ReadOf
    BY ReadType DEF TypeInv
  <2> QED
    BY <1>1, <1>3, <2>1, <2>2 DEF Loaded, Operation, WellFormed
<1> QED
  BY <1>2, <1>3

LEMMA TargetType ==
  ASSUME NEW o \in Operation
  PROVE  Target(o) \in Recipients
<1>1. Recipients # {} /\ o.who \in Recipients \cup {0}
  <2>1. 1 \in Recipients
    BY RoutingAssumption DEF Recipients
  <2>2. o.who \in Recipients \cup {0}
    BY DEF Operation
  <2> QED
    BY <2>1, <2>2
<1>2. Active(o.seen.rows) \subseteq Recipients
  BY DEF Active, Open, Signers
<1> QED
  BY <1>1, <1>2, FirstType DEF Target

LEMMA TouchedType ==
  ASSUME TypeInv, NEW o \in Operation, o.kind \in Actions
  PROVE  Touched(o) \subseteq Recipients
<1>1. Target(o) \in Recipients
  BY TargetType
<1>2. CC \subseteq Recipients
  BY RoutingAssumption
<1> QED
  BY <1>1, <1>2 DEF Touched, Actions

\* No row is written by an action that completes the request.
LEMMA WrittenType ==
  ASSUME NEW o \in Operation, o.kind \in Actions, NEW r \in Touched(o)
  PROVE  Written(o, r) \in RecipientStatus
BY DEF Touched, Written, Actions, RecipientStatus

LEMMA NextStatusType ==
  ASSUME NEW o \in Operation, o.kind \in Actions, NEW after
  PROVE  NextStatus(o, after) \in RequestStatus
<1>1. o.seen.shown \in RequestStatus
  BY DEF Operation, ReadOf
<1>2. \A c \in RequestStatus : Derive(c, after) \in RequestStatus
  BY DeriveType
<1>3. "sent" \in RequestStatus
  BY DEF RequestStatus
<1> HIDE DEF RequestStatus
<1>4. Derive(o.seen.shown, after) \in RequestStatus /\ Derive("sent", after) \in RequestStatus
  BY <1>1, <1>2, <1>3
<1>5. {"sent", "viewed", "signed", "draft", "completed", "voided", "expired"} \subseteq RequestStatus
  BY DEF RequestStatus
<1> QED
  BY <1>4, <1>5 DEF NextStatus, Actions

-----------------------------------------------------------------------------
(* Every action keeps the types.                                            *)

LEMMA ArriveType == ASSUME TypeInv, NEW s \in Slots, Arrive(s) PROVE TypeInv'
<1>1. PICK t \in mailed, stage \in {"open", "check"} :
        Continue(s, [Idle EXCEPT !.pc = "load", !.stage = stage, !.token = t])
  BY DEF Arrive
<1> DEFINE o == [Idle EXCEPT !.pc = "load", !.stage = stage, !.token = t]
<1>2. t \in Nat
  BY DEF TypeInv, TypeOK
<1>3. o \in Operation /\ WellFormed(o)
  BY <1>2, IdleType DEF Operation, WellFormed, Idle
<1> QED
  BY <1>1, <1>3, ContinueType, StoreType DEF Arrive

LEMMA OfficeType == ASSUME TypeInv, NEW s \in Slots, Office(s) PROVE TypeInv'
<1>1. PICK a \in OfficeActions :
        /\ sends' = IF a \in {"send", "resend"} THEN sends + 1 ELSE sends
        /\ Continue(s, IF a \in {"send", "resend"}
                         THEN [Idle EXCEPT !.pc = "mail", !.kind = a, !.seen = Read]
                         ELSE [Idle EXCEPT !.pc = "begin", !.kind = a])
  BY DEF Office
<1>2. a \in Actions
  BY EnvelopeAssumption DEF Actions
<1> DEFINE o == IF a \in {"send", "resend"}
                  THEN [Idle EXCEPT !.pc = "mail", !.kind = a, !.seen = Read]
                  ELSE [Idle EXCEPT !.pc = "begin", !.kind = a]
<1>3. o \in Operation /\ WellFormed(o)
  <2>1. Read \in ReadOf
    BY ReadType DEF TypeInv
  <2> HIDE DEF Actions
  <2> QED
    BY <1>2, <2>1, IdleType DEF Operation, WellFormed, Idle
<1>4. op' \in [Slots -> Operation] /\ \A q \in Slots : WellFormed(op'[q])
  BY <1>1, <1>3, ContinueType
<1> QED
  BY <1>1, <1>4 DEF Office, TypeInv, TypeOK, store, sent

LEMMA LoadType == ASSUME TypeInv, NEW s \in Slots, Load(s) PROVE TypeInv'
<1>1. CASE End(s)
  BY <1>1, EndType, StoreType DEF Load
<1>2. CASE \E r \in Owner(op[s].token) :
             Continue(s, IF Visit(s, r) = "none" THEN Loaded(s, r)
                         ELSE [op[s] EXCEPT !.pc = "begin", !.kind = Visit(s, r),
                                            !.who = r, !.edition = edition])
  <2>1. PICK r \in Owner(op[s].token) :
             Continue(s, IF Visit(s, r) = "none" THEN Loaded(s, r)
                         ELSE [op[s] EXCEPT !.pc = "begin", !.kind = Visit(s, r),
                                            !.who = r, !.edition = edition])
    BY <1>2
  <2>2. r \in Recipients /\ op[s] \in Operation /\ WellFormed(op[s]) /\ edition \in Nat
    BY DEF Owner, TypeInv, TypeOK
  <2>3. Loaded(s, r) \in Operation /\ WellFormed(Loaded(s, r))
    BY <2>2, LoadedType DEF Load
  <2> DEFINE o == [op[s] EXCEPT !.pc = "begin", !.kind = Visit(s, r),
                                !.who = r, !.edition = edition]
  <2>4. Visit(s, r) \in {"expire", "viewed", "none"}
    BY DEF Visit
  <2>5. Visit(s, r) # "none" => o \in Operation /\ WellFormed(o)
    <3>1. o \in Operation
      BY <2>2, <2>4 DEF Operation, Actions
    <3>2. op[s].stage # "none"
      BY <2>2 DEF Load, WellFormed
    <3>3. Visit(s, r) # "none" => o.kind \in Actions
      BY <2>2, <2>4 DEF Actions, Operation
    <3>4. o.stage = op[s].stage
      BY <2>2 DEF Operation
    <3> QED
      BY <3>1, <3>2, <3>3, <3>4 DEF WellFormed
  <2> HIDE DEF o
  <2> QED
    BY <2>1, <2>3, <2>5, ContinueType, StoreType DEF Load, o
<1> QED
  BY <1>1, <1>2 DEF Load

LEMMA ReloadType == ASSUME TypeInv, NEW s \in Slots, Reload(s) PROVE TypeInv'
<1>1. CASE End(s)
  BY <1>1, EndType, StoreType DEF Reload
<1>2. CASE \E r \in Owner(op[s].token) : Continue(s, Loaded(s, r))
  BY <1>2, LoadedType, ContinueType, StoreType DEF Reload, Owner
<1> QED
  BY <1>1, <1>2 DEF Reload

LEMMA CheckType == ASSUME TypeInv, NEW s \in Slots, Check(s) PROVE TypeInv'
<1>1. CASE End(s)
  BY <1>1, EndType, StoreType DEF Check
<1>2. CASE ~End(s)
  <2>1. PICK r \in Owner(op[s].token) :
          Continue(s, [op[s] EXCEPT !.pc = "begin", !.kind = "signed", !.who = r,
                                    !.edition = edition, !.seen = NoRead])
    BY <1>2 DEF Check
  <2> DEFINE o == [op[s] EXCEPT !.pc = "begin", !.kind = "signed", !.who = r,
                                !.edition = edition, !.seen = NoRead]
  <2>2. r \in Recipients /\ op[s] \in Operation /\ WellFormed(op[s]) /\ edition \in Nat
    BY DEF Owner, TypeInv, TypeOK
  <2>3. o \in Operation /\ WellFormed(o)
    BY <2>2, IdleType DEF Operation, WellFormed, Actions
  <2> QED
    BY <2>1, <2>3, ContinueType, StoreType DEF Check
<1> QED
  BY <1>1, <1>2

LEMMA RouteType == ASSUME TypeInv, NEW s \in Slots, Route(s) PROVE TypeInv'
<1>1. op[s] \in Operation /\ WellFormed(op[s]) /\ op[s].pc = "route"
  BY DEF TypeInv, TypeOK, Route
<1> DEFINE o == [op[s] EXCEPT !.pc = "mail", !.kind = "advance"]
           p == [op[s] EXCEPT !.pc = "finish"]
<1>2. o \in Operation /\ WellFormed(o) /\ p \in Operation /\ WellFormed(p)
  BY <1>1 DEF Operation, WellFormed, Actions
<1>3. \/ Continue(s, o)
      \/ Continue(s, p)
  BY DEF Route, Continue
<1> HIDE DEF o, p
<1>4. op' \in [Slots -> Operation] /\ \A q \in Slots : WellFormed(op'[q])
  BY <1>2, <1>3, ContinueType
<1> QED
  BY <1>4, StoreType DEF Route

LEMMA MailType == ASSUME TypeInv, NEW s \in Slots, Mail(s) PROVE TypeInv'
<1> DEFINE to    == Active(op[s].seen.rows)
           token == [r \in Recipients |->
                       IF r \in to THEN issued + Cardinality({q \in to : q <= r}) ELSE 0]
           o     == [op[s] EXCEPT !.pc = "begin", !.grant = token, !.seen = NoRead]
<1>1. op[s] \in Operation /\ WellFormed(op[s]) /\ op[s].pc = "mail" /\ issued \in Nat
  BY DEF TypeInv, TypeOK, Mail
<1>2. to \subseteq Recipients
  BY DEF Active, Open, Signers
<1>3. Cardinality(to) \in Nat
  BY <1>2, CardinalityType
<1>4. token \in [Recipients -> Nat]
  <2>1. \A r \in Recipients : {q \in to : q <= r} \in SUBSET Recipients
    BY <1>2
  <2>2. \A r \in Recipients : Cardinality({q \in to : q <= r}) \in Nat
    BY <2>1, CardinalityType
  <2> QED
    BY <1>1, <2>2
<1>5. o \in Operation /\ WellFormed(o)
  <2> HIDE DEF to, token
  <2> QED
    BY <1>1, <1>4, IdleType DEF Operation, WellFormed
<1>6. issued' = issued + Cardinality(to) /\ mailed' \subseteq mailed \cup {token[r] : r \in to}
  BY DEF Mail
<1>7. issued' \in Nat /\ mailed' \subseteq Nat
  <2>1. mailed \subseteq Nat
    BY DEF TypeInv, TypeOK
  <2>2. {token[r] : r \in to} \subseteq Nat
    BY <1>2, <1>4
  <2> HIDE DEF to, token
  <2> QED
    BY <1>1, <1>3, <1>6, <2>1, <2>2
<1>8. End(s) \/ Continue(s, o)
  BY DEF Mail
<1> HIDE DEF o
<1>9. op' \in [Slots -> Operation] /\ \A q \in Slots : WellFormed(op'[q])
  BY <1>5, <1>8, ContinueType, EndType
<1> QED
  BY <1>7, <1>9 DEF Mail, TypeInv, TypeOK, store

LEMMA FinishType == ASSUME TypeInv, NEW s \in Slots, Finish(s) PROVE TypeInv'
<1> DEFINE o == [Idle EXCEPT !.pc = "begin", !.kind = "completed"]
<1>1. o \in Operation /\ WellFormed(o)
  BY IdleType DEF Operation, WellFormed, Idle, Actions
<1>2. (End(s) \/ Continue(s, o)) /\ (archived' = archived \/ archived' = archived + 1)
  BY DEF Finish
<1> HIDE DEF o
<1>3. op' \in [Slots -> Operation] /\ \A q \in Slots : WellFormed(op'[q])
  BY <1>1, <1>2, ContinueType, EndType
<1> QED
  BY <1>2, <1>3 DEF Finish, TypeInv, TypeOK, store, sent

LEMMA BeginType == ASSUME TypeInv, NEW s \in Slots, Begin(s) PROVE TypeInv'
<1> DEFINE o == [op[s] EXCEPT !.pc = "write", !.seen = Read]
<1>1. op[s] \in Operation /\ WellFormed(op[s]) /\ op[s].pc = "begin" /\ Read \in ReadOf
  BY ReadType DEF TypeInv, TypeOK, Begin
<1>2. o \in Operation /\ WellFormed(o)
  BY <1>1 DEF Operation, WellFormed
<1>3. End(s) \/ Continue(s, o)
  BY DEF Begin
<1> HIDE DEF o
<1> QED
  BY <1>2, <1>3, ContinueType, EndType, StoreType DEF Begin

LEMMA WriteType == ASSUME TypeInv, NEW s \in Slots, Write(s) PROVE TypeInv'
<1> DEFINE after == [r \in Recipients |->
                       IF r \in Touched(op[s]) THEN Written(op[s], r) ELSE rows[r]]
           w == [touched |-> Touched(op[s]), rows |-> after,
                 status |-> NextStatus(op[s], after)]
           o == [op[s] EXCEPT !.pc = "commit", !.write = w]
<1>1. /\ op[s] \in Operation /\ WellFormed(op[s]) /\ op[s].pc = "write"
      /\ rows \in [Recipients -> RecipientStatus]
  BY DEF TypeInv, TypeOK, Write
<1>2. op[s].kind \in Actions
  BY <1>1 DEF WellFormed
<1>3. after \in [Recipients -> RecipientStatus]
  BY <1>1, <1>2, WrittenType
<1>4. Touched(op[s]) \subseteq Recipients
  BY <1>1, <1>2, TouchedType
<1>5. \A a : NextStatus(op[s], a) \in RequestStatus
  BY <1>1, <1>2, NextStatusType
<1> HIDE DEF after
<1>6. w \in WriteOf
  BY <1>3, <1>4, <1>5 DEF WriteOf
<1> HIDE DEF w
<1>7. o \in Operation /\ WellFormed(o)
  BY <1>1, <1>6 DEF Operation, WellFormed
<1>8. End(s) \/ Continue(s, o)
  BY DEF Write, o, w, after
<1> HIDE DEF o
<1> QED
  BY <1>7, <1>8, ContinueType, EndType, StoreType DEF Write

LEMMA CommitType == ASSUME TypeInv, NEW s \in Slots, Commit(s) PROVE TypeInv'
<1>1. /\ op[s] \in Operation /\ WellFormed(op[s]) /\ op[s].pc = "commit"
      /\ op[s].kind \in Actions
      /\ request \in Request /\ rows \in [Recipients -> RecipientStatus]
      /\ link \in [Recipients -> Nat] /\ edition \in Nat
  BY DEF TypeInv, TypeOK, WellFormed, Commit
<1>2. op[s].write \in WriteOf /\ op[s].seen \in ReadOf /\ op[s].grant \in [Recipients -> Nat]
  BY <1>1 DEF Operation
<1>3. request' \in Request
  <2>1. op[s].write.status \in RequestStatus /\ op[s].seen.request.expired \in BOOLEAN
    BY <1>2 DEF WriteOf, ReadOf, Request
  <2> HIDE DEF RequestStatus
  <2>2. Updated(op[s]) \in Request
    BY <1>1, <2>1 DEF Updated, Request
  <2> QED
    BY <2>2 DEF Commit
<1>4. rows' \in [Recipients -> RecipientStatus]
  BY <1>1, <1>2 DEF Commit, WriteOf
<1>5. link' \in [Recipients -> Nat]
  <2>1. \A r \in Recipients : NewLink(op[s], r) \in Nat
    BY <1>1, <1>2 DEF NewLink
  <2>2. link' = [r \in Recipients |-> NewLink(op[s], r)]
    BY DEF Commit
  <2> QED
    BY <2>1, <2>2
<1>6. edition' \in Nat /\ past' \in BOOLEAN
  <2>1. edition' \in Nat
    BY <1>1 DEF Commit
  <2>2. past \in BOOLEAN
    BY DEF TypeInv, TypeOK
  <2>3. past' \in {past, FALSE}
    BY DEF Commit
  <2> QED
    BY <2>1, <2>2, <2>3
<1>7. form' \in FormStatus
  BY DEF Commit, SyncForm, FormStatus, TypeInv, TypeOK
<1>8. After(op[s]) \in Operation /\ WellFormed(After(op[s]))
  <2>1. op[s].token # 0 => op[s].stage # "none"
    BY <1>1 DEF WellFormed
  <2> HIDE DEF Operation
  <2>2. CASE op[s].kind = "signed" /\ op[s].token # 0
    BY <1>1, <2>2, IdleType DEF After, Operation, WellFormed
  <2>3. CASE op[s].kind = "advance"
    BY <1>1, <2>3, IdleType DEF After, Operation, WellFormed, Idle
  <2>4. CASE op[s].kind \in {"viewed", "expire"} /\ op[s].token # 0
    BY <1>1, <2>1, <2>4, IdleType DEF After, Operation, WellFormed
  <2>5. CASE /\ ~(op[s].kind = "signed" /\ op[s].token # 0)
             /\ op[s].kind # "advance"
             /\ ~(op[s].kind \in {"viewed", "expire"} /\ op[s].token # 0)
    <3>1. After(op[s]) = Idle
      BY <2>5 DEF After
    <3> QED
      BY <3>1, IdleType DEF Idle, WellFormed
  <2> QED
    BY <2>2, <2>3, <2>4, <2>5
<1>9. op' \in [Slots -> Operation] /\ \A q \in Slots : WellFormed(op'[q])
  BY <1>8, ContinueType DEF Commit
<1> QED
  BY <1>3, <1>4, <1>5, <1>6, <1>7, <1>9 DEF Commit, TypeInv, TypeOK, sent

-----------------------------------------------------------------------------

LEMMA TypeInit == Init => TypeInv
<1> SUFFICES ASSUME Init PROVE TypeInv
  OBVIOUS
<1>1. \A s \in Slots : op[s] = Idle
  BY DEF Init
<1>2. WellFormed(Idle)
  BY DEF WellFormed, Idle
<1>3. op \in [Slots -> Operation]
  BY IdleType DEF Init
<1>4. request \in Request /\ form \in FormStatus
  BY DEF Init, NewRequest, Request, RequestStatus, FormStatus
<1>5. rows \in [Recipients -> RecipientStatus] /\ link \in [Recipients -> Nat]
  BY DEF Init, NewRows, NoGrant, RecipientStatus
<1> QED
  BY <1>1, <1>2, <1>3, <1>4, <1>5 DEF Init, TypeInv, TypeOK

LEMMA TypeStep == TypeInv /\ [Next]_vars => TypeInv'
<1> SUFFICES ASSUME TypeInv, [Next]_vars PROVE TypeInv'
  OBVIOUS
<1>1. CASE \E s \in Slots : Arrive(s) \/ Office(s) \/ Handle(s) \/ Crash(s)
  <2>1. PICK s \in Slots : Arrive(s) \/ Office(s) \/ Handle(s) \/ Crash(s)
    BY <1>1
  <2>2. CASE Crash(s)
    BY <2>2, EndType, StoreType DEF Crash
  <2>3. CASE Handle(s)
    BY <2>3, LoadType, ReloadType, CheckType, RouteType, MailType, FinishType, BeginType,
       WriteType, CommitType DEF Handle
  <2> QED
    BY <2>1, <2>2, <2>3, ArriveType, OfficeType
<1>2. CASE Tick
  BY <1>2 DEF Tick, TypeInv, TypeOK, store, sent
<1>3. CASE UNCHANGED vars
  BY <1>3 DEF vars, TypeInv, TypeOK
<1> QED
  BY <1>1, <1>2, <1>3 DEF Next

(* Whatever overlaps or crashes, the request, its recipients and links, and *)
(* every HTTP request at work on it keep the shape the code gives them: in  *)
(* particular no transaction reaches its switch with an action it has no    *)
(* branch for, and the derived status is always one of the schema.          *)
THEOREM TypeCorrect == Spec => []TypeOK
<1>1. TypeInv => TypeOK
  BY DEF TypeInv
<1> QED
  BY <1>1, TypeInit, TypeStep, PTL DEF Spec

-----------------------------------------------------------------------------
(* One request at a time. What a handler read is then what the database     *)
(* holds until the handler itself changes it.                               *)

OneAtATime == \A p, q \in Slots : p = q

\* A completed request lets only its own completion and a re-save through.
\* A transaction about to commit leaves the other rows alone and writes the
\* status that its rows add up to.
UpToDate(o) ==
  /\ o.pc \in {"check", "route", "finish"} => o.seen.rows = rows
  /\ o.pc = "mail" => o.kind # "completed"
  /\ o.pc \in {"begin", "write", "commit"} /\ o.kind = "completed" => AllActed(rows)
  /\ o.pc \in {"write", "commit"} /\ request.status = "completed" => o.kind \in {"completed", "edit"}
  /\ o.pc = "commit" =>
       /\ \A r \in Recipients \ o.write.touched : o.write.rows[r] = rows[r]
       /\ o.kind = "completed" => o.write.touched = {}
       /\ o.write.status = NextStatus(o, o.write.rows)

SerialInv ==
  /\ TypeInv
  /\ StatusFollowsRecipients
  /\ OutputMeansAllSigned
  /\ \A s \in Slots : UpToDate(op[s])

\* Deriving the status again from the same recipients changes nothing.
LEMMA DeriveIdempotent ==
  ASSUME NEW c, NEW r
  PROVE  Derive(Derive(c, r), r) = Derive(c, r)
BY DEF Derive

LEMMA DeriveAllActed ==
  ASSUME NEW r, AllActed(r)
  PROVE  Derive("completed", r) = "completed"
<1>1. {r[q] : q \in Signers} = {} \/ {r[q] : q \in Signers} = {"acted"}
  BY DEF AllActed
<1> QED
  BY <1>1 DEF Derive

LEMMA SerialContinue ==
  ASSUME OneAtATime, TypeInv, NEW s \in Slots, NEW o, Continue(s, o)
  PROVE  \A q \in Slots : op'[q] = o
BY DEF OneAtATime, Continue, TypeInv, TypeOK

\* A step that leaves the database alone only has to account for its slot.
LEMMA SerialKeep ==
  ASSUME OneAtATime, SerialInv, TypeInv', NEW s \in Slots, NEW o, Continue(s, o),
         UNCHANGED store, UpToDate(o)
  PROVE  SerialInv'
<1>1. \A q \in Slots : op'[q] = o
  BY SerialContinue DEF SerialInv
<1>2. UpToDate(o)'
  <2>1. rows' = rows /\ request' = request
    BY DEF store
  <2> QED
    BY <2>1 DEF UpToDate, AllActed, NextStatus
<1>3. StatusFollowsRecipients' /\ OutputMeansAllSigned'
  BY DEF SerialInv, store, StatusFollowsRecipients, OutputMeansAllSigned, AllActed
<1> QED
  BY <1>1, <1>2, <1>3 DEF SerialInv, UpToDate

LEMMA SerialEnd ==
  ASSUME OneAtATime, SerialInv, TypeInv', NEW s \in Slots, End(s), UNCHANGED store
  PROVE  SerialInv'
<1>1. UpToDate(Idle)
  BY DEF UpToDate, Idle
<1> QED
  BY <1>1, SerialKeep DEF End

LEMMA LoadedUpToDate ==
  ASSUME TypeInv, NEW s \in Slots, NEW r, op[s].pc \in {"load", "reload"}
  PROVE  UpToDate(Loaded(s, r))
<1>1. op[s] \in Operation /\ WellFormed(op[s])
  BY DEF TypeInv, TypeOK
<1>2. CASE op[s].stage = "open"
  BY <1>2 DEF Loaded, UpToDate, Idle
<1>3. CASE op[s].stage # "open"
  <2>1. op[s].stage \in {"check", "route", "finish"}
    BY <1>1, <1>3 DEF Operation, WellFormed
  <2>2. Loaded(s, r).pc = op[s].stage /\ Loaded(s, r).seen.rows = rows
    BY <1>1, <1>3 DEF Loaded, Operation, Read
  <2> QED
    BY <2>1, <2>2 DEF UpToDate
<1> QED
  BY <1>2, <1>3

\* What a handler does before its transaction changes nothing it relies on.
LEMMA SerialBefore ==
  ASSUME OneAtATime, SerialInv, TypeInv', NEW s \in Slots,
         Arrive(s) \/ Office(s) \/ Load(s) \/ Reload(s) \/ Check(s) \/ Route(s) \/ Mail(s)
  PROVE  SerialInv'
<1>1. op[s] \in Operation /\ UpToDate(op[s]) /\ TypeInv
  BY DEF SerialInv, TypeInv, TypeOK
<1>2. UNCHANGED store
  BY DEF Arrive, Office, Load, Reload, Check, Route, Mail
<1>3. CASE Arrive(s)
  <2>1. PICK t \in mailed, stage \in {"open", "check"} :
          Continue(s, [Idle EXCEPT !.pc = "load", !.stage = stage, !.token = t])
    BY <1>3 DEF Arrive
  <2>2. UpToDate([Idle EXCEPT !.pc = "load", !.stage = stage, !.token = t])
    BY DEF UpToDate, Idle
  <2> QED
    BY <1>2, <2>1, <2>2, SerialKeep
<1>4. CASE Office(s)
  <2>1. PICK a \in OfficeActions :
          Continue(s, IF a \in {"send", "resend"}
                         THEN [Idle EXCEPT !.pc = "mail", !.kind = a, !.seen = Read]
                         ELSE [Idle EXCEPT !.pc = "begin", !.kind = a])
    BY <1>4 DEF Office
  <2>2. a # "completed"
    BY EnvelopeAssumption
  <2>3. UpToDate([Idle EXCEPT !.pc = "mail", !.kind = a, !.seen = Read])
    BY <2>2 DEF UpToDate, Idle
  <2>4. UpToDate([Idle EXCEPT !.pc = "begin", !.kind = a])
    BY <2>2 DEF UpToDate, Idle
  <2>5. CASE a \in {"send", "resend"}
    <3>1. Continue(s, [Idle EXCEPT !.pc = "mail", !.kind = a, !.seen = Read])
      BY <2>1, <2>5
    <3> QED
      BY <1>2, <2>3, <3>1, SerialKeep
  <2>6. CASE a \notin {"send", "resend"}
    <3>1. Continue(s, [Idle EXCEPT !.pc = "begin", !.kind = a])
      BY <2>1, <2>6
    <3> QED
      BY <1>2, <2>4, <3>1, SerialKeep
  <2> QED
    BY <2>5, <2>6
<1>5. CASE Load(s)
  <2>1. CASE End(s)
    BY <1>2, <2>1, SerialEnd
  <2>2. CASE \E r \in Owner(op[s].token) :
               Continue(s, IF Visit(s, r) = "none" THEN Loaded(s, r)
                           ELSE [op[s] EXCEPT !.pc = "begin", !.kind = Visit(s, r),
                                              !.who = r, !.edition = edition])
    <3>1. PICK r \in Owner(op[s].token) :
               Continue(s, IF Visit(s, r) = "none" THEN Loaded(s, r)
                           ELSE [op[s] EXCEPT !.pc = "begin", !.kind = Visit(s, r),
                                              !.who = r, !.edition = edition])
      BY <2>2
    <3>2. UpToDate(Loaded(s, r))
      <4>1. op[s].pc = "load"
        BY <1>5 DEF Load
      <4> QED
        BY <1>1, <4>1, LoadedUpToDate
    <3>3. Visit(s, r) # "completed"
      BY DEF Visit
    <3>4. UpToDate([op[s] EXCEPT !.pc = "begin", !.kind = Visit(s, r),
                                 !.who = r, !.edition = edition])
      BY <1>1, <3>3 DEF UpToDate, Operation
    <3>5. CASE Visit(s, r) = "none"
      BY <1>2, <3>1, <3>2, <3>5, SerialKeep
    <3>6. CASE Visit(s, r) # "none"
      <4>1. Continue(s, [op[s] EXCEPT !.pc = "begin", !.kind = Visit(s, r),
                                      !.who = r, !.edition = edition])
        BY <3>1, <3>6
      <4> QED
        BY <1>2, <3>4, <4>1, SerialKeep
    <3> QED
      BY <3>5, <3>6
  <2> QED
    BY <1>5, <2>1, <2>2 DEF Load
<1>6. CASE Reload(s)
  <2>1. CASE End(s)
    BY <1>2, <2>1, SerialEnd
  <2>2. CASE \E r \in Owner(op[s].token) : Continue(s, Loaded(s, r))
    BY <1>1, <1>2, <1>6, <2>2, LoadedUpToDate, SerialKeep DEF Reload
  <2> QED
    BY <1>6, <2>1, <2>2 DEF Reload
<1>7. CASE Check(s)
  <2>1. CASE End(s)
    BY <1>2, <2>1, SerialEnd
  <2>2. CASE ~End(s)
    <3>1. PICK r \in Owner(op[s].token) :
            Continue(s, [op[s] EXCEPT !.pc = "begin", !.kind = "signed", !.who = r,
                                      !.edition = edition, !.seen = NoRead])
      BY <1>7, <2>2 DEF Check
    <3>2. UpToDate([op[s] EXCEPT !.pc = "begin", !.kind = "signed", !.who = r,
                                 !.edition = edition, !.seen = NoRead])
      BY <1>1 DEF UpToDate, Operation
    <3> QED
      BY <1>2, <3>1, <3>2, SerialKeep
  <2> QED
    BY <2>1, <2>2
<1>8. CASE Route(s)
  <2>1. \/ Continue(s, [op[s] EXCEPT !.pc = "mail", !.kind = "advance"])
        \/ Continue(s, [op[s] EXCEPT !.pc = "finish"])
    BY <1>8 DEF Route, Continue
  <2>2. UpToDate([op[s] EXCEPT !.pc = "mail", !.kind = "advance"])
    BY <1>1 DEF UpToDate, Operation
  <2>3. UpToDate([op[s] EXCEPT !.pc = "finish"])
    BY <1>1, <1>8 DEF UpToDate, Operation, Route
  <2> QED
    BY <1>2, <2>1, <2>2, <2>3, SerialKeep
<1>9. CASE Mail(s)
  <2> DEFINE to    == Active(op[s].seen.rows)
             token == [r \in Recipients |->
                         IF r \in to THEN issued + Cardinality({q \in to : q <= r}) ELSE 0]
  <2>1. End(s) \/ Continue(s, [op[s] EXCEPT !.pc = "begin", !.grant = token, !.seen = NoRead])
    BY <1>9 DEF Mail
  <2> HIDE DEF token
  <2>2. op[s].kind # "completed"
    BY <1>1, <1>9 DEF Mail, UpToDate
  <2>3. UpToDate([op[s] EXCEPT !.pc = "begin", !.grant = token, !.seen = NoRead])
    BY <1>1, <2>2 DEF UpToDate, Operation
  <2> QED
    BY <1>2, <2>1, <2>3, SerialKeep, SerialEnd
<1> QED
  BY <1>3, <1>4, <1>5, <1>6, <1>7, <1>8, <1>9

\* The handler archives only when it read that everybody signed.
LEMMA SerialFinish ==
  ASSUME OneAtATime, SerialInv, TypeInv', NEW s \in Slots, Finish(s)
  PROVE  SerialInv'
<1>1. op[s] \in Operation /\ UpToDate(op[s]) /\ op[s].pc = "finish" /\ UNCHANGED store
  BY DEF SerialInv, TypeInv, TypeOK, Finish
<1>2. CASE End(s)
  BY <1>1, <1>2, SerialEnd
<1>3. CASE Done(op[s].seen) /\ Continue(s, [Idle EXCEPT !.pc = "begin", !.kind = "completed"])
  <2>1. AllActed(rows)
    BY <1>1, <1>3 DEF Done, UpToDate
  <2>2. UpToDate([Idle EXCEPT !.pc = "begin", !.kind = "completed"])
    BY <2>1 DEF UpToDate, Idle
  <2> QED
    BY <1>1, <1>3, <2>2, SerialKeep
<1> QED
  BY <1>2, <1>3 DEF Finish

\* A completed request shows as completed whatever its date says, so the
\* transaction's first read refuses every other action.
LEMMA SerialBegin ==
  ASSUME OneAtATime, SerialInv, TypeInv', NEW s \in Slots, Begin(s)
  PROVE  SerialInv'
<1>1. op[s] \in Operation /\ UpToDate(op[s]) /\ op[s].pc = "begin" /\ UNCHANGED store
  BY DEF SerialInv, TypeInv, TypeOK, Begin
<1>2. CASE End(s)
  BY <1>1, <1>2, SerialEnd
<1>3. CASE ~Refused(op[s].kind, Read) /\ Continue(s, [op[s] EXCEPT !.pc = "write", !.seen = Read])
  <2>1. request.status = "completed" => Read.shown = "completed"
    BY DEF Read, Resolve
  <2>2. request.status = "completed" => op[s].kind \in {"completed", "edit"}
    BY <1>3, <2>1 DEF Refused
  <2>3. UpToDate([op[s] EXCEPT !.pc = "write", !.seen = Read])
    BY <1>1, <2>2 DEF UpToDate, Operation
  <2> QED
    BY <1>1, <1>3, <2>3, SerialKeep
<1> QED
  BY <1>2, <1>3 DEF Begin

LEMMA SerialWrite ==
  ASSUME OneAtATime, SerialInv, TypeInv', NEW s \in Slots, Write(s)
  PROVE  SerialInv'
<1> DEFINE after == [r \in Recipients |->
                       IF r \in Touched(op[s]) THEN Written(op[s], r) ELSE rows[r]]
           w == [touched |-> Touched(op[s]), rows |-> after,
                 status |-> NextStatus(op[s], after)]
           o == [op[s] EXCEPT !.pc = "commit", !.write = w]
<1>1. op[s] \in Operation /\ UpToDate(op[s]) /\ op[s].pc = "write" /\ UNCHANGED store
  BY DEF SerialInv, TypeInv, TypeOK, Write
<1>2. CASE End(s)
  BY <1>1, <1>2, SerialEnd
<1>3. CASE Continue(s, o)
  <2>1. \A r \in Recipients \ Touched(op[s]) : after[r] = rows[r]
    OBVIOUS
  <2>2. op[s].kind = "completed" => Touched(op[s]) = {}
    BY DEF Touched
  <2> HIDE DEF after
  <2>3. /\ o.pc = "commit" /\ o.kind = op[s].kind /\ o.seen = op[s].seen
        /\ o.write.touched = Touched(op[s]) /\ o.write.rows = after
        /\ o.write.status = NextStatus(op[s], after)
    BY <1>1 DEF Operation
  <2> HIDE DEF o
  <2>4. NextStatus(o, after) = NextStatus(op[s], after)
    BY <2>3 DEF NextStatus
  <2>5. UpToDate(o)
    BY <1>1, <2>1, <2>2, <2>3, <2>4 DEF UpToDate
  <2> QED
    BY <1>1, <1>3, <2>5, SerialKeep
<1> QED
  BY <1>2, <1>3 DEF Write

LEMMA SerialCommit ==
  ASSUME OneAtATime, SerialInv, TypeInv', NEW s \in Slots, Commit(s)
  PROVE  SerialInv'
<1> DEFINE o == op[s]
<1>1. /\ o \in Operation /\ UpToDate(o) /\ o.pc = "commit" /\ o.kind \in Actions
      /\ request \in Request /\ edition \in Nat
  BY DEF SerialInv, TypeInv, TypeOK, WellFormed, Commit
<1>2. o.write.rows \in [Recipients -> RecipientStatus] /\ rows \in [Recipients -> RecipientStatus]
  BY <1>1 DEF Operation, WriteOf, SerialInv, TypeInv, TypeOK
<1>3. rows' = o.write.rows
  <2>1. rows' = [r \in Recipients |-> IF r \in o.write.touched THEN o.write.rows[r] ELSE rows[r]]
    BY DEF Commit
  <2>2. \A r \in Recipients \ o.write.touched : o.write.rows[r] = rows[r]
    BY <1>1 DEF UpToDate
  <2> QED
    BY <1>2, <2>1, <2>2
<1>4. request' = Updated(o)
  BY DEF Commit
<1>5. o.write.status = NextStatus(o, rows')
  BY <1>1, <1>3 DEF UpToDate
<1>6. request'.status = o.write.status
  BY <1>1, <1>4 DEF Updated, Request
<1>7. o.kind = "completed" => rows' = rows /\ AllActed(rows) /\ AllActed(rows')
  <2>1. SUFFICES ASSUME o.kind = "completed" PROVE rows' = rows /\ AllActed(rows)
    BY DEF AllActed
  <2>2. o.write.touched = {} /\ AllActed(rows)
    BY <1>1, <2>1 DEF UpToDate
  <2> QED
    BY <1>2, <1>3, <2>2, <1>1 DEF UpToDate
<1>8. StatusFollowsRecipients'
  <2>1. CASE o.kind \in {"send", "resend", "advance", "viewed", "signed", "declined"}
    <3>1. \/ request'.status = Derive("sent", rows')
          \/ request'.status = Derive(o.seen.shown, rows')
      BY <1>5, <1>6, <2>1 DEF NextStatus
    <3>2. request'.status = Derive(request'.status, rows')
      BY <3>1, DeriveIdempotent
    <3> QED
      BY <3>2 DEF StatusFollowsRecipients
  <2>2. CASE o.kind = "completed"
    <3>1. request'.status = "completed"
      BY <1>5, <1>6, <2>2 DEF NextStatus
    <3>2. Derive("completed", rows') = "completed"
      BY <1>7, <2>2, DeriveAllActed
    <3> QED
      BY <3>1, <3>2 DEF StatusFollowsRecipients
  <2>3. CASE o.kind \in {"canceled", "expire"}
    BY <1>5, <1>6, <2>3 DEF NextStatus, StatusFollowsRecipients
  <2>4. CASE o.kind = "edit"
    <3>1. edition' = edition + 1
      BY <2>4 DEF Commit
    <3> QED
      BY <1>1, <3>1 DEF StatusFollowsRecipients
  <2> QED
    BY <1>1, <2>1, <2>2, <2>3, <2>4 DEF Actions
<1>9. OutputMeansAllSigned'
  <2>1. CASE o.kind = "completed"
    <3>1. request'.status = "completed"
      BY <1>5, <1>6, <2>1 DEF NextStatus
    <3>2. AllActed(rows')
      BY <1>7, <2>1
    <3> QED
      BY <3>1, <3>2 DEF OutputMeansAllSigned, AllActed
  <2>2. CASE o.kind = "edit"
    <3>1. request'.output = FALSE
      BY <1>4, <2>2 DEF Updated
    <3> QED
      BY <3>1 DEF OutputMeansAllSigned
  <2>3. CASE o.kind \notin {"completed", "edit"}
    <3>1. request.status # "completed"
      BY <1>1, <2>3 DEF UpToDate
    <3>2. request.output = FALSE
      BY <1>1, <3>1 DEF SerialInv, OutputMeansAllSigned, Request
    <3>3. request'.output = FALSE
      BY <1>1, <1>4, <2>3, <3>2 DEF Updated, Request
    <3> QED
      BY <3>3 DEF OutputMeansAllSigned
  <2> QED
    BY <2>1, <2>2, <2>3
<1>10. \A q \in Slots : UpToDate(op[q])'
  <2>1. \A q \in Slots : op'[q] = After(o)
    BY SerialContinue DEF SerialInv, Commit
  <2>2. After(o).pc \in {"load", "reload", "idle"}
    BY <1>1 DEF After, Operation, Idle
  <2> QED
    BY <2>1, <2>2 DEF UpToDate
<1> QED
  BY <1>8, <1>9, <1>10 DEF SerialInv

LEMMA SerialInit == Init => SerialInv
<1> SUFFICES ASSUME Init PROVE SerialInv
  OBVIOUS
<1>1. \A s \in Slots : UpToDate(op[s])
  BY DEF Init, UpToDate, Idle
<1>2. StatusFollowsRecipients
  <2>1. {rows[r] : r \in Signers} \in {{}, {"draft"}}
    BY DEF Init, NewRows, Signers
  <2> QED
    BY <2>1 DEF Init, NewRequest, StatusFollowsRecipients, Derive
<1>3. OutputMeansAllSigned
  BY DEF Init, NewRequest, OutputMeansAllSigned
<1> QED
  BY <1>1, <1>2, <1>3, TypeInit DEF SerialInv

LEMMA SerialStep == OneAtATime /\ SerialInv /\ [Next]_vars => SerialInv'
<1> SUFFICES ASSUME OneAtATime, SerialInv, [Next]_vars PROVE SerialInv'
  OBVIOUS
<1>1. TypeInv'
  BY TypeStep DEF SerialInv
<1>2. CASE \E s \in Slots : Arrive(s) \/ Office(s) \/ Handle(s) \/ Crash(s)
  <2>1. PICK s \in Slots : Arrive(s) \/ Office(s) \/ Handle(s) \/ Crash(s)
    BY <1>2
  <2>2. CASE Crash(s)
    BY <1>1, <2>2, SerialEnd DEF Crash
  <2>3. CASE Handle(s)
    BY <1>1, <2>3, SerialBefore, SerialFinish, SerialBegin, SerialWrite, SerialCommit DEF Handle
  <2> QED
    BY <1>1, <2>1, <2>2, <2>3, SerialBefore
<1>3. CASE Tick \/ UNCHANGED vars
  <2>1. UNCHANGED <<store, op>>
    BY <1>3 DEF Tick, vars, store
  <2> QED
    BY <1>1, <2>1 DEF SerialInv, store, StatusFollowsRecipients, OutputMeansAllSigned, AllActed,
                      UpToDate, NextStatus
<1> QED
  BY <1>2, <1>3 DEF Next

(* When HTTP requests are served one at a time, the status of a request is  *)
(* the one its recipients add up to, unless it was voided or expired as a   *)
(* whole (updateSignatureRequest): for any number of recipients, routing,   *)
(* office actions, crashes and deadlines.                                   *)
THEOREM SerialStatus == ASSUME OneAtATime PROVE Spec => []StatusFollowsRecipients
<1>1. SerialInv => StatusFollowsRecipients
  BY DEF SerialInv
<1>2. SerialInv /\ [Next]_vars => SerialInv'
  BY SerialStep
<1> QED
  BY <1>1, <1>2, SerialInit, PTL DEF Spec

(* Under the same condition no output is linked to a request before every   *)
(* signer has signed, nor kept by one that is no longer completed.          *)
THEOREM SerialOutput == ASSUME OneAtATime PROVE Spec => []OutputMeansAllSigned
<1>1. SerialInv => OutputMeansAllSigned
  BY DEF SerialInv
<1>2. SerialInv /\ [Next]_vars => SerialInv'
  BY SerialStep
<1> QED
  BY <1>1, <1>2, SerialInit, PTL DEF Spec

-----------------------------------------------------------------------------
(* What is closed. A voided request has nobody left whose turn it is, so no *)
(* invitation to a next step can follow, and every other action is refused. *)

Shut(o) ==
  /\ o.pc \in {"write", "commit"} /\ request.status = "voided" => o.kind \in {"resend", "edit"}
  /\ o.pc = "commit" /\ o.kind = "canceled" =>
       \A r \in Recipients : o.write.rows[r] \in {"acted", "declined", "voided"}

ClosedInv ==
  /\ SerialInv
  /\ request.status = "voided" => Open(rows) = {}
  /\ \A s \in Slots : Shut(op[s])

LEMMA ClosedKeep ==
  ASSUME OneAtATime, ClosedInv, SerialInv', NEW s \in Slots, NEW o, Continue(s, o),
         UNCHANGED store, Shut(o)
  PROVE  ClosedInv'
<1>1. \A q \in Slots : op'[q] = o
  BY SerialContinue DEF ClosedInv, SerialInv
<1>2. rows' = rows /\ request' = request
  BY DEF store
<1> QED
  BY <1>1, <1>2 DEF ClosedInv, Shut, Open

\* Only the two middle steps of a transaction are concerned.
LEMMA ClosedElsewhere ==
  ASSUME OneAtATime, ClosedInv, SerialInv', NEW s \in Slots,
         \/ Arrive(s) \/ Office(s) \/ Load(s) \/ Reload(s) \/ Check(s) \/ Route(s) \/ Mail(s)
         \/ Finish(s) \/ Crash(s)
  PROVE  ClosedInv'
<1>1. op[s] \in Operation /\ WellFormed(op[s])
  BY DEF ClosedInv, SerialInv, TypeInv, TypeOK
<1>2. UNCHANGED store
  BY DEF Arrive, Office, Load, Reload, Check, Route, Mail, Finish, Crash
<1>3. op'[s].pc \notin {"write", "commit"}
  <2>0. \A o : Continue(s, o) => op'[s] = o
    BY DEF Continue, ClosedInv, SerialInv, TypeInv, TypeOK
  <2>1. End(s) => op'[s].pc = "idle"
    BY <2>0 DEF End, Idle
  <2>12. CASE Arrive(s)
    BY <2>0, <2>12 DEF Arrive, Idle
  <2>2. CASE Office(s)
    BY <2>0, <2>2 DEF Office, Idle
  <2>3. ASSUME NEW r PROVE op[s].pc \in {"load", "reload"} => Loaded(s, r).pc \notin {"write", "commit"}
    BY <1>1 DEF Loaded, Operation, WellFormed, Idle
  <2>4. ASSUME NEW r, NEW e PROVE [op[s] EXCEPT !.pc = "begin", !.kind = Visit(s, r), !.who = r, !.edition = e].pc = "begin"
    BY <1>1 DEF Operation
  <2>5. CASE Load(s)
    <3>1. op[s].pc = "load"
      BY <2>5 DEF Load
    <3>2. CASE ~End(s)
      <4>1. PICK r : op'[s] = IF Visit(s, r) = "none" THEN Loaded(s, r)
                              ELSE [op[s] EXCEPT !.pc = "begin", !.kind = Visit(s, r),
                                                 !.who = r, !.edition = edition]
        BY <2>0, <2>5, <3>2 DEF Load
      <4> QED
        BY <2>3, <2>4, <3>1, <4>1
    <3> QED
      BY <2>1, <3>2
  <2>6. CASE Reload(s)
    BY <2>0, <2>1, <2>3, <2>6 DEF Reload
  <2>7. CASE Check(s)
    BY <1>1, <2>0, <2>1, <2>7 DEF Check, Operation
  <2>8. CASE Route(s)
    BY <1>1, <2>0, <2>8 DEF Route, Operation
  <2>9. CASE Mail(s)
    BY <1>1, <2>0, <2>1, <2>9 DEF Mail, Operation
  <2>10. CASE Finish(s)
    BY <2>0, <2>1, <2>10 DEF Finish, Idle
  <2>11. CASE Crash(s)
    BY <2>1, <2>11 DEF Crash
  <2> QED
    BY <2>2, <2>12, <2>5, <2>6, <2>7, <2>8, <2>9, <2>10, <2>11
<1>4. \A q \in Slots : q = s
  BY DEF OneAtATime
<1> QED
  BY <1>2, <1>3, <1>4 DEF ClosedInv, Shut, store, Open

\* A voided request shows as voided whatever its date says, and has no active
\* recipient: the first read refuses all but a resend and a re-save.
LEMMA ClosedBegin ==
  ASSUME OneAtATime, ClosedInv, SerialInv', NEW s \in Slots, Begin(s)
  PROVE  ClosedInv'
<1>1. op[s] \in Operation /\ UNCHANGED store
  BY DEF ClosedInv, SerialInv, TypeInv, TypeOK, Begin
<1>2. CASE End(s)
  BY <1>1, <1>2, ClosedKeep DEF End, Shut, Idle
<1>3. CASE /\ ~Refused(op[s].kind, Read) /\ ~NotEnoughTokens(op[s], Read)
           /\ Continue(s, [op[s] EXCEPT !.pc = "write", !.seen = Read])
  <2>1. request.status = "voided" => Read.shown = "voided"
    BY DEF Read, Resolve
  <2>2. request.status = "voided" => op[s].kind \in {"resend", "advance", "edit"}
    BY <1>3, <2>1 DEF Refused
  <2>3. op[s].kind = "advance" => Active(rows) # {}
    BY <1>3 DEF NotEnoughTokens, Read
  <2>4. request.status = "voided" => op[s].kind # "advance"
    BY <2>3 DEF ClosedInv, Active
  <2>5. Shut([op[s] EXCEPT !.pc = "write", !.seen = Read])
    BY <1>1, <2>2, <2>4 DEF Shut, Operation
  <2> QED
    BY <1>1, <1>3, <2>5, ClosedKeep
<1> QED
  BY <1>2, <1>3 DEF Begin

LEMMA ClosedWrite ==
  ASSUME OneAtATime, ClosedInv, SerialInv', NEW s \in Slots, Write(s)
  PROVE  ClosedInv'
<1> DEFINE after == [r \in Recipients |->
                       IF r \in Touched(op[s]) THEN Written(op[s], r) ELSE rows[r]]
           w == [touched |-> Touched(op[s]), rows |-> after,
                 status |-> NextStatus(op[s], after)]
           o == [op[s] EXCEPT !.pc = "commit", !.write = w]
<1>1. op[s] \in Operation /\ Shut(op[s]) /\ op[s].pc = "write" /\ UNCHANGED store
  BY DEF ClosedInv, SerialInv, TypeInv, TypeOK, Write
<1>2. CASE End(s)
  BY <1>1, <1>2, ClosedKeep DEF End, Shut, Idle
<1>3. CASE Continue(s, o)
  <2>1. op[s].kind = "canceled" => \A r \in Recipients : after[r] \in {"acted", "declined", "voided"}
    BY DEF Touched, Written
  <2> HIDE DEF after
  <2>2. o.pc = "commit" /\ o.kind = op[s].kind /\ o.write.rows = after
    BY <1>1 DEF Operation
  <2> HIDE DEF o
  <2>3. Shut(o)
    BY <1>1, <2>1, <2>2 DEF Shut
  <2> QED
    BY <1>1, <1>3, <2>3, ClosedKeep
<1> QED
  BY <1>2, <1>3 DEF Write

\* In a serial run a transaction commits the rows it wrote.
LEMMA CommitRows ==
  ASSUME OneAtATime, SerialInv, NEW s \in Slots, Commit(s)
  PROVE  /\ op[s] \in Operation /\ UpToDate(op[s]) /\ op[s].pc = "commit"
         /\ op[s].kind \in Actions
         /\ request \in Request
         /\ rows \in [Recipients -> RecipientStatus]
         /\ rows' \in [Recipients -> RecipientStatus]
         /\ rows' = op[s].write.rows
         /\ request'.status = op[s].write.status
         /\ op[s].write.status = NextStatus(op[s], rows')
<1> DEFINE o == op[s]
<1>1. /\ o \in Operation /\ UpToDate(o) /\ o.pc = "commit" /\ o.kind \in Actions
      /\ request \in Request /\ rows \in [Recipients -> RecipientStatus]
  BY DEF SerialInv, TypeInv, TypeOK, WellFormed, Commit
<1>2. o.write.rows \in [Recipients -> RecipientStatus]
  BY <1>1 DEF Operation, WriteOf
<1>3. rows' = o.write.rows
  <2>1. rows' = [r \in Recipients |-> IF r \in o.write.touched THEN o.write.rows[r] ELSE rows[r]]
    BY DEF Commit
  <2>2. \A r \in Recipients \ o.write.touched : o.write.rows[r] = rows[r]
    BY <1>1 DEF UpToDate
  <2> QED
    BY <1>2, <2>1, <2>2
<1>4. request'.status = o.write.status
  <2>1. request' = Updated(o)
    BY DEF Commit
  <2> QED
    BY <1>1, <2>1 DEF Updated, Request
<1> QED
  BY <1>1, <1>2, <1>3, <1>4 DEF UpToDate

LEMMA ClosedCommit ==
  ASSUME OneAtATime, ClosedInv, SerialInv', NEW s \in Slots, Commit(s)
  PROVE  ClosedInv'
<1> DEFINE o == op[s]
<1>1. /\ o \in Operation /\ o.pc = "commit" /\ o.kind \in Actions /\ Shut(o)
      /\ rows' = o.write.rows
      /\ request'.status = NextStatus(o, rows')
  BY CommitRows DEF ClosedInv
<1>2. SUFFICES ASSUME request'.status = "voided" PROVE Open(rows)' = {}
  <2>1. \A q \in Slots : op'[q] = After(o)
    BY SerialContinue DEF ClosedInv, SerialInv, Commit
  <2>2. After(o).pc \in {"load", "reload", "idle"}
    BY <1>1 DEF After, Operation, Idle
  <2> QED
    BY <2>1, <2>2 DEF Shut, ClosedInv
<1>3. CASE o.kind \in {"send", "resend", "advance", "viewed", "signed", "declined"}
  <2>1. \E c : Derive(c, rows') = "voided"
    BY <1>1, <1>2, <1>3 DEF NextStatus
  <2>2. {rows'[r] : r \in Signers} \in {{}, {"voided"}}
    BY <2>1 DEF Derive
  <2> QED
    BY <2>2 DEF Open, RecipientTerminal
<1>4. CASE o.kind = "canceled"
  BY <1>1, <1>4 DEF Shut, Open, Signers, RecipientTerminal
<1>5. CASE o.kind \in {"completed", "expire", "edit"}
  BY <1>1, <1>2, <1>5 DEF NextStatus
<1> QED
  BY <1>1, <1>3, <1>4, <1>5 DEF Actions

LEMMA ClosedInit == Init => ClosedInv
<1> SUFFICES ASSUME Init PROVE ClosedInv
  OBVIOUS
<1>1. request.status # "voided" /\ \A s \in Slots : Shut(op[s])
  BY DEF Init, NewRequest, Shut, Idle
<1> QED
  BY <1>1, SerialInit DEF ClosedInv

LEMMA ClosedStep == OneAtATime /\ ClosedInv /\ [Next]_vars => ClosedInv'
<1> SUFFICES ASSUME OneAtATime, ClosedInv, [Next]_vars PROVE ClosedInv'
  OBVIOUS
<1>1. SerialInv'
  BY SerialStep DEF ClosedInv
<1>2. CASE \E s \in Slots : Arrive(s) \/ Office(s) \/ Handle(s) \/ Crash(s)
  BY <1>1, <1>2, ClosedElsewhere, ClosedBegin, ClosedWrite, ClosedCommit DEF Handle
<1>3. CASE Tick \/ UNCHANGED vars
  <2>1. rows' = rows /\ request' = request /\ op' = op
    BY <1>3 DEF Tick, vars, store
  <2> QED
    BY <1>1, <2>1 DEF ClosedInv, Shut, Open
<1> QED
  BY <1>2, <1>3 DEF Next

(* Served one at a time, a voided or completed request comes back only by a *)
(* resend or by saving it again, whatever else is asked of it and whenever  *)
(* a handler dies (updateSignatureRequest): the archiving handler's own     *)
(* completion and the invitation of a next step find nothing left to do.    *)
THEOREM SerialClosed == ASSUME OneAtATime PROVE Spec => ClosedStaysClosed
<1> DEFINE Comes == request.status \in {"voided", "completed"} /\ request'.status # request.status
                      => \E s \in Slots : op[s].pc = "commit" /\ op[s].kind \in {"resend", "edit"}
<1>1. ClosedInv /\ [Next]_vars => [Comes]_vars
  <2> SUFFICES ASSUME ClosedInv, Next, request.status \in {"voided", "completed"},
                      request'.status # request.status
               PROVE  \E s \in Slots : op[s].pc = "commit" /\ op[s].kind \in {"resend", "edit"}
    OBVIOUS
  <2>1. \A s \in Slots : Arrive(s) \/ Office(s) \/ Crash(s) \/ Tick => request' = request
    BY DEF Arrive, Office, Crash, Tick, store
  <2>2. \A s \in Slots : Handle(s) => request' = request \/ Commit(s)
    BY DEF Handle, Load, Reload, Check, Route, Mail, Finish, Begin, Write, store
  <2>3. PICK s \in Slots : Commit(s)
    BY <2>1, <2>2 DEF Next, Tick, store
  <2>4. /\ op[s].pc = "commit" /\ Shut(op[s]) /\ UpToDate(op[s])
        /\ request'.status = NextStatus(op[s], rows')
    BY <2>3, CommitRows DEF ClosedInv
  <2>5. request.status = "completed" => op[s].kind # "completed"
    BY <2>4 DEF NextStatus
  <2>6. op[s].kind \in {"resend", "edit"}
    BY <2>4, <2>5 DEF Shut, UpToDate
  <2> QED
    BY <2>4, <2>6
<1>2. ClosedInv /\ [Next]_vars => ClosedInv'
  BY ClosedStep
<1> QED
  BY <1>1, <1>2, ClosedInit, PTL DEF Spec, ClosedStaysClosed

-----------------------------------------------------------------------------
(* Whose turn it is. Links are what keeps the routing order: a recipient    *)
(* gets one only when every earlier step is through, and whoever was        *)
(* through stays through. The office can set "viewed" on a recipient by     *)
(* hand, also on one who is through; what follows is about the time it does *)
(* not.                                                                     *)

NoManualView == "viewed" \notin OfficeActions

Sending == {"send", "resend", "advance"}

\* Recipients are voided or expired all at once, and a copy can be marked
\* signed only when nobody is left to sign.
OverTogether ==
  \/ Open(rows) = {}
  \/ /\ \A r \in Signers : rows[r] \notin {"voided", "expired"}
     /\ \A c \in CC : rows[c] # "acted"

\* Links were mailed, to signers; who is invited has one.
LinksMailed ==
  /\ \A r \in Recipients : link[r] # 0 => link[r] \in mailed
  /\ \A c \in CC : link[c] = 0
  /\ \A q \in Signers : rows[q] \in {"sent", "viewed"} => link[q] # 0

LinksInTurn ==
  \A r, q \in Signers :
    Step[q] < Step[r] /\ (link[r] # 0 \/ rows[r] = "acted") => rows[q] \in RecipientTerminal

\* Nobody who was invited is through while the request still shows as sent: a
\* visit that marks such a request viewed takes nothing back.
SentMeansWaiting ==
  request.status = "sent" => \A r \in Signers : link[r] # 0 => rows[r] \notin RecipientTerminal

\* What a handler holds, when m are the links mailed.
Ready(o, m) ==
  /\ \A r \in Recipients : o.grant[r] # 0 => o.grant[r] \in m
  /\ o.pc = "mail" => o.kind \in Sending /\ o.seen.rows = rows
  /\ o.pc \in {"begin", "write", "commit"} =>
       /\ o.kind \in Sending => \A r \in Active(rows) : o.grant[r] # 0
       /\ o.kind = "viewed" =>
            /\ o.who \in Signers /\ link[o.who] # 0 /\ o.edition = edition
            /\ rows[o.who] \notin RecipientTerminal
       /\ o.kind = "signed" /\ o.who # 0 =>
            o.who \in Signers /\ link[o.who] # 0 /\ o.edition = edition
  /\ o.pc \in {"write", "commit"} =>
       /\ o.seen.rows = rows /\ o.seen.edition = edition
       /\ o.kind \in Sending => Active(rows) # {}
  /\ o.pc = "commit" =>
       /\ o.write.touched = Touched(o)
       /\ \A r \in o.write.touched : o.write.rows[r] = Written(o, r)

TurnInv ==
  /\ SerialInv
  /\ OverTogether
  /\ LinksMailed
  /\ LinksInTurn
  /\ SentMeansWaiting
  /\ \A s \in Slots : Ready(op[s], mailed)

\* A set of recipients has one of the lowest routing step.
LEMMA StepFirst ==
  ASSUME NEW S \in SUBSET Recipients, S # {}
  PROVE  \E r \in S : \A q \in S : Step[r] <= Step[q]
<1> DEFINE T == {Step[r] : r \in S}
<1>1. T \in SUBSET Nat /\ T # {}
  BY RoutingAssumption
<1>2. \A q \in Recipients : Step[q] \in Nat
  BY RoutingAssumption
<1>3. PICK x \in T : \A y \in T : <<y, x>> \notin OpToRel(<,Nat)
  <2> HIDE DEF T
  <2> QED
    BY <1>1, NatLessThanWellFounded, WFMin
<1>4. PICK r \in S : Step[r] = x
  OBVIOUS
<1>5. ASSUME NEW q \in S PROVE ~(Step[q] < Step[r])
  BY <1>2, <1>3, <1>4 DEF OpToRel
<1>6. \A q \in S : Step[q] \in Nat
  BY <1>2
<1> QED
  BY <1>5, <1>6

LEMMA SomeActive ==
  ASSUME NEW r, Active(r) = {}
  PROVE  Open(r) = {}
<1>1. Open(r) \in SUBSET Recipients
  BY DEF Open, Signers
<1> QED
  BY <1>1, StepFirst DEF Active

LEMMA TurnKeep ==
  ASSUME OneAtATime, TurnInv, SerialInv', NEW s \in Slots, NEW o, Continue(s, o),
         UNCHANGED store, mailed \subseteq mailed', Ready(o, mailed')
  PROVE  TurnInv'
<1>1. \A q \in Slots : op'[q] = o
  BY SerialContinue DEF TurnInv, SerialInv
<1>2. rows' = rows /\ request' = request /\ link' = link /\ edition' = edition
  BY DEF store
<1>3. Ready(o, mailed)'
  BY <1>2 DEF Ready, Active, Open, Touched, Target, Written
<1>4. \A q \in Slots : Ready(op[q], mailed)'
  BY <1>1, <1>3
<1>5. OverTogether' /\ LinksInTurn' /\ SentMeansWaiting'
  BY <1>2 DEF TurnInv, OverTogether, LinksInTurn, SentMeansWaiting, Open
<1>6. LinksMailed'
  BY <1>2 DEF TurnInv, LinksMailed
<1> QED
  BY <1>4, <1>5, <1>6 DEF TurnInv

LEMMA ReadyIdle == \A m : Ready(Idle, m)
BY DEF Ready, Idle, NoGrant

LEMMA TurnEnd ==
  ASSUME OneAtATime, TurnInv, SerialInv', NEW s \in Slots, End(s), UNCHANGED store,
         mailed \subseteq mailed'
  PROVE  TurnInv'
BY ReadyIdle, TurnKeep DEF End

LEMMA ReadyLoaded ==
  ASSUME TurnInv, NEW s \in Slots, NEW r \in Recipients, op[s].pc \in {"load", "reload"}
  PROVE  Ready(Loaded(s, r), mailed)
<1>1. op[s] \in Operation /\ WellFormed(op[s]) /\ Ready(op[s], mailed)
  BY DEF TurnInv, SerialInv, TypeInv, TypeOK
<1>2. CASE op[s].stage = "open"
  BY <1>2, ReadyIdle DEF Loaded
<1>3. CASE op[s].stage # "open"
  <2>1. Loaded(s, r).pc \in {"check", "route", "finish"} /\ Loaded(s, r).grant = op[s].grant
    BY <1>1, <1>3 DEF Loaded, Operation, WellFormed
  <2> QED
    BY <1>1, <2>1 DEF Ready
<1> QED
  BY <1>2, <1>3

\* A visit that marks the request viewed is of an invited signer who is not
\* through yet.
LEMMA TurnLoad ==
  ASSUME OneAtATime, TurnInv, SerialInv', NEW s \in Slots, Load(s)
  PROVE  TurnInv'
<1>1. /\ op[s] \in Operation /\ Ready(op[s], mailed) /\ op[s].pc = "load"
      /\ UNCHANGED store /\ mailed' = mailed
  BY DEF TurnInv, SerialInv, TypeInv, TypeOK, Load, sent
<1>2. CASE End(s)
  BY <1>1, <1>2, TurnEnd
<1>3. CASE ~End(s)
  <2>1. PICK r \in Owner(op[s].token) :
               Continue(s, IF Visit(s, r) = "none" THEN Loaded(s, r)
                           ELSE [op[s] EXCEPT !.pc = "begin", !.kind = Visit(s, r),
                                              !.who = r, !.edition = edition])
    BY <1>3 DEF Load
  <2>2. r \in Signers /\ link[r] # 0 /\ r \in Recipients
    BY DEF Owner, TurnInv, LinksMailed, Signers
  <2>3. CASE Visit(s, r) = "none"
    BY <1>1, <2>1, <2>2, <2>3, ReadyLoaded, TurnKeep
  <2>4. CASE Visit(s, r) # "none"
    <3> DEFINE o == [op[s] EXCEPT !.pc = "begin", !.kind = Visit(s, r),
                                  !.who = r, !.edition = edition]
    <3>1. \/ Visit(s, r) = "expire"
          \/ Visit(s, r) = "viewed" /\ rows[r] \notin RecipientTerminal
      BY <2>2, <2>4 DEF Visit, TurnInv, SentMeansWaiting, RecipientTerminal
    <3>2. /\ o.pc = "begin" /\ o.kind = Visit(s, r) /\ o.who = r /\ o.edition = edition
          /\ o.grant = op[s].grant
      BY <1>1 DEF Operation
    <3> HIDE DEF o
    <3>3. Ready(o, mailed)
      BY <1>1, <2>2, <3>1, <3>2 DEF Ready, Sending
    <3> QED
      BY <1>1, <2>1, <2>4, <3>3, TurnKeep DEF o
  <2> QED
    BY <2>3, <2>4
<1> QED
  BY <1>2, <1>3

LEMMA TurnReload ==
  ASSUME OneAtATime, TurnInv, SerialInv', NEW s \in Slots, Reload(s)
  PROVE  TurnInv'
<1>1. UNCHANGED store /\ mailed' = mailed /\ op[s].pc = "reload"
  BY DEF Reload, sent
<1>2. CASE End(s)
  BY <1>1, <1>2, TurnEnd
<1>3. CASE ~End(s)
  <2>1. PICK r \in Owner(op[s].token) : Continue(s, Loaded(s, r))
    BY <1>3 DEF Reload
  <2>2. r \in Recipients
    BY DEF Owner
  <2> QED
    BY <1>1, <2>1, <2>2, ReadyLoaded, TurnKeep
<1> QED
  BY <1>2, <1>3

LEMMA TurnCheck ==
  ASSUME OneAtATime, TurnInv, SerialInv', NEW s \in Slots, Check(s)
  PROVE  TurnInv'
<1>1. op[s] \in Operation /\ Ready(op[s], mailed) /\ UNCHANGED store /\ mailed' = mailed
  BY DEF TurnInv, SerialInv, TypeInv, TypeOK, Check, sent
<1>2. CASE End(s)
  BY <1>1, <1>2, TurnEnd
<1>3. CASE ~End(s)
  <2>1. PICK r \in Owner(op[s].token) :
          Continue(s, [op[s] EXCEPT !.pc = "begin", !.kind = "signed", !.who = r,
                                    !.edition = edition, !.seen = NoRead])
    BY <1>3 DEF Check
  <2> DEFINE o == [op[s] EXCEPT !.pc = "begin", !.kind = "signed", !.who = r,
                                !.edition = edition, !.seen = NoRead]
  <2>2. r \in Signers /\ link[r] # 0
    BY DEF Owner, TurnInv, LinksMailed, Signers
  <2>3. /\ o.pc = "begin" /\ o.kind = "signed" /\ o.who = r /\ o.edition = edition
        /\ o.grant = op[s].grant
    BY <1>1 DEF Operation
  <2> HIDE DEF o
  <2>4. Ready(o, mailed)
    BY <1>1, <2>2, <2>3 DEF Ready, Sending
  <2> QED
    BY <1>1, <2>1, <2>4, TurnKeep DEF o
<1> QED
  BY <1>2, <1>3

\* Everybody whose turn it is has been mailed a link before the transaction
\* that stores its hash begins.
LEMMA TurnMail ==
  ASSUME OneAtATime, TurnInv, SerialInv', NEW s \in Slots, Mail(s)
  PROVE  TurnInv'
<1> DEFINE to    == Active(op[s].seen.rows)
           token == [r \in Recipients |->
                       IF r \in to THEN issued + Cardinality({q \in to : q <= r}) ELSE 0]
           o     == [op[s] EXCEPT !.pc = "begin", !.grant = token, !.seen = NoRead]
<1>1. /\ op[s] \in Operation /\ Ready(op[s], mailed) /\ op[s].pc = "mail" /\ issued \in Nat
      /\ UNCHANGED store
  BY DEF TurnInv, SerialInv, TypeInv, TypeOK, Mail
<1>2. mailed \subseteq mailed'
  BY DEF Mail
<1>3. CASE End(s)
  BY <1>1, <1>2, <1>3, TurnEnd
<1>4. CASE ~End(s)
  <2>1. Continue(s, o) /\ mailed' = mailed \cup {token[r] : r \in to}
    BY <1>4 DEF Mail
  <2>2. to = Active(rows) /\ to \subseteq Recipients /\ op[s].kind \in Sending
    BY <1>1 DEF Ready, Active, Open, Signers
  <2>3. ASSUME NEW r \in to PROVE token[r] # 0
    <3> DEFINE before == {q \in to : q <= r}
    <3>1. r \in before /\ before \in SUBSET Recipients /\ r \in Recipients
      BY <2>2, RoutingAssumption DEF Recipients
    <3>2. IsFiniteSet(before)
      <4>1. IsFiniteSet(Recipients)
        BY FS_Interval, RoutingAssumption DEF Recipients
      <4> QED
        BY <3>1, <4>1, FS_Subset
    <3>3. Cardinality(before) \in Nat \ {0}
      BY <3>1, <3>2, FS_CardinalityType, FS_EmptySet
    <3> HIDE DEF before
    <3>4. token[r] = issued + Cardinality(before)
      BY <3>1 DEF before
    <3> QED
      BY <1>1, <3>3, <3>4
  <2>4. \A r \in Recipients : token[r] # 0 => token[r] \in mailed'
    BY <2>1
  <2>5. o.pc = "begin" /\ o.kind = op[s].kind /\ o.grant = token
    BY <1>1 DEF Operation
  <2> HIDE DEF o, token
  <2>6. Ready(o, mailed')
    BY <2>2, <2>3, <2>4, <2>5 DEF Ready, Sending
  <2> QED
    BY <1>1, <1>2, <2>1, <2>6, TurnKeep
<1> QED
  BY <1>3, <1>4

\* The other handlers between transactions.
LEMMA TurnBetween ==
  ASSUME OneAtATime, NoManualView, TurnInv, SerialInv', NEW s \in Slots,
         Arrive(s) \/ Office(s) \/ Route(s) \/ Finish(s) \/ Crash(s)
  PROVE  TurnInv'
<1>1. /\ op[s] \in Operation /\ Ready(op[s], mailed) /\ UpToDate(op[s])
      /\ UNCHANGED store /\ mailed' = mailed
  BY DEF TurnInv, SerialInv, TypeInv, TypeOK, Arrive, Office, Route, Finish, Crash, sent
<1>2. ASSUME End(s) PROVE TurnInv'
  BY <1>1, <1>2, TurnEnd
<1>3. CASE Arrive(s)
  <2>1. PICK t \in mailed, stage \in {"open", "check"} :
          Continue(s, [Idle EXCEPT !.pc = "load", !.stage = stage, !.token = t])
    BY <1>3 DEF Arrive
  <2>2. Ready([Idle EXCEPT !.pc = "load", !.stage = stage, !.token = t], mailed)
    BY DEF Ready, Idle, NoGrant
  <2> QED
    BY <1>1, <2>1, <2>2, TurnKeep
<1>4. CASE Office(s)
  <2>1. PICK a \in OfficeActions :
          Continue(s, IF a \in {"send", "resend"}
                         THEN [Idle EXCEPT !.pc = "mail", !.kind = a, !.seen = Read]
                         ELSE [Idle EXCEPT !.pc = "begin", !.kind = a])
    BY <1>4 DEF Office
  <2>2. CASE a \in {"send", "resend"}
    <3>1. Ready([Idle EXCEPT !.pc = "mail", !.kind = a, !.seen = Read], mailed)
      BY <2>2 DEF Ready, Idle, NoGrant, Read, Sending
    <3> QED
      BY <1>1, <2>1, <2>2, <3>1, TurnKeep
  <2>3. CASE a \notin {"send", "resend"}
    <3>1. a # "viewed" /\ a # "advance"
      BY EnvelopeAssumption DEF NoManualView
    <3>2. Ready([Idle EXCEPT !.pc = "begin", !.kind = a], mailed)
      BY <2>3, <3>1 DEF Ready, Idle, NoGrant, Sending
    <3> QED
      BY <1>1, <2>1, <2>3, <3>2, TurnKeep
  <2> QED
    BY <2>2, <2>3
<1>5. CASE Route(s)
  <2>1. op[s].pc = "route" /\ op[s].seen.rows = rows
    BY <1>1, <1>5 DEF Route, UpToDate
  <2>2. \/ Continue(s, [op[s] EXCEPT !.pc = "mail", !.kind = "advance"])
        \/ Continue(s, [op[s] EXCEPT !.pc = "finish"])
    BY <1>5 DEF Route, Continue
  <2>3. /\ Ready([op[s] EXCEPT !.pc = "mail", !.kind = "advance"], mailed)
        /\ Ready([op[s] EXCEPT !.pc = "finish"], mailed)
    BY <1>1, <2>1 DEF Ready, Operation, Sending
  <2> QED
    BY <1>1, <2>2, <2>3, TurnKeep
<1>6. CASE Finish(s)
  <2>1. End(s) \/ Continue(s, [Idle EXCEPT !.pc = "begin", !.kind = "completed"])
    BY <1>6 DEF Finish
  <2>2. Ready([Idle EXCEPT !.pc = "begin", !.kind = "completed"], mailed)
    BY DEF Ready, Idle, NoGrant, Sending
  <2> QED
    BY <1>1, <1>2, <2>1, <2>2, TurnKeep
<1>7. CASE Crash(s)
  BY <1>2, <1>7 DEF Crash
<1> QED
  BY <1>3, <1>4, <1>5, <1>6, <1>7

LEMMA TurnBegin ==
  ASSUME OneAtATime, TurnInv, SerialInv', NEW s \in Slots, Begin(s)
  PROVE  TurnInv'
<1>1. /\ op[s] \in Operation /\ Ready(op[s], mailed) /\ op[s].pc = "begin"
      /\ UNCHANGED store /\ mailed' = mailed
  BY DEF TurnInv, SerialInv, TypeInv, TypeOK, Begin, sent
<1>2. CASE End(s)
  BY <1>1, <1>2, TurnEnd
<1>3. CASE /\ ~NotEnoughTokens(op[s], Read)
           /\ Continue(s, [op[s] EXCEPT !.pc = "write", !.seen = Read])
  <2> DEFINE o == [op[s] EXCEPT !.pc = "write", !.seen = Read]
  <2>1. op[s].kind \in Sending => Active(rows) # {}
    BY <1>3 DEF NotEnoughTokens, Read, Sending
  <2>2. /\ o.pc = "write" /\ o.kind = op[s].kind /\ o.who = op[s].who
        /\ o.edition = op[s].edition /\ o.grant = op[s].grant /\ o.seen = Read
    BY <1>1 DEF Operation
  <2>3. Read.rows = rows /\ Read.edition = edition
    BY DEF Read
  <2> HIDE DEF o
  <2>4. Ready(o, mailed)
    BY <1>1, <2>1, <2>2, <2>3 DEF Ready
  <2> QED
    BY <1>1, <1>3, <2>4, TurnKeep DEF o
<1> QED
  BY <1>2, <1>3 DEF Begin

LEMMA TurnWrite ==
  ASSUME OneAtATime, TurnInv, SerialInv', NEW s \in Slots, Write(s)
  PROVE  TurnInv'
<1> DEFINE after == [r \in Recipients |->
                       IF r \in Touched(op[s]) THEN Written(op[s], r) ELSE rows[r]]
           w == [touched |-> Touched(op[s]), rows |-> after,
                 status |-> NextStatus(op[s], after)]
           o == [op[s] EXCEPT !.pc = "commit", !.write = w]
<1>1. /\ op[s] \in Operation /\ Ready(op[s], mailed) /\ op[s].pc = "write"
      /\ op[s].kind \in Actions /\ UNCHANGED store /\ mailed' = mailed
  BY DEF TurnInv, SerialInv, TypeInv, TypeOK, WellFormed, Write, sent
<1>2. CASE End(s)
  BY <1>1, <1>2, TurnEnd
<1>3. CASE Continue(s, o)
  <2>1. Touched(op[s]) \subseteq Recipients
    BY <1>1, TouchedType DEF TurnInv, SerialInv
  <2>2. \A r \in Touched(op[s]) : after[r] = Written(op[s], r)
    BY <2>1
  <2> HIDE DEF after
  <2>3. /\ o.pc = "commit" /\ o.kind = op[s].kind /\ o.who = op[s].who
        /\ o.edition = op[s].edition /\ o.grant = op[s].grant /\ o.seen = op[s].seen
        /\ o.write.touched = Touched(op[s]) /\ o.write.rows = after
    BY <1>1 DEF Operation
  <2> HIDE DEF o
  <2>4. Touched(o) = Touched(op[s]) /\ \A r : Written(o, r) = Written(op[s], r)
    BY <2>3 DEF Touched, Target, Written
  <2>5. Ready(o, mailed)
    BY <1>1, <2>2, <2>3, <2>4 DEF Ready
  <2> QED
    BY <1>1, <1>3, <2>5, TurnKeep
<1> QED
  BY <1>2, <1>3 DEF Write

-----------------------------------------------------------------------------
(* What a commit does to the rows and the links.                            *)

\* An action about one recipient: a visit's own, or whoever is first in turn.
LEMMA TargetInTurn ==
  ASSUME TurnInv, NEW s \in Slots, op[s].pc = "commit", op[s].kind = "signed"
  PROVE  /\ Target(op[s]) \in Recipients
         /\ Target(op[s]) \in CC => Open(rows) = {}
         /\ Target(op[s]) \in Signers =>
              \A q \in Signers : Step[q] < Step[Target(op[s])] => rows[q] \in RecipientTerminal
<1> DEFINE o == op[s]
<1>1. o \in Operation /\ Ready(o, mailed) /\ LinksInTurn
  BY DEF TurnInv, SerialInv, TypeInv, TypeOK
<1>2. Target(o) \in Recipients
  BY <1>1, TargetType
<1>3. CASE o.who # 0
  <2>1. Target(o) = o.who /\ o.who \in Signers /\ link[o.who] # 0
    BY <1>1, <1>3 DEF Ready, Target
  <2> QED
    BY <1>1, <1>2, <2>1 DEF LinksInTurn, Signers
<1>4. CASE o.who = 0 /\ Active(rows) # {}
  <2>1. Target(o) = First(Active(rows))
    BY <1>1, <1>4 DEF Ready, Target
  <2>2. Target(o) \in Active(rows)
    <3>1. Active(rows) \in SUBSET Recipients
      BY DEF Active, Open, Signers
    <3> QED
      BY <1>4, <2>1, <3>1, FirstType
  <2>3. Target(o) \in Signers /\ \A q \in Open(rows) : Step[Target(o)] <= Step[q]
    BY <2>2 DEF Active, Open
  <2>4. \A q \in Signers : Step[q] \in Nat
    BY RoutingAssumption DEF Signers
  <2>5. \A q \in Signers : Step[q] < Step[Target(o)] => q \notin Open(rows)
    <3> HIDE DEF o
    <3> QED
      BY <2>3, <2>4
  <2>6. \A q \in Signers : q \notin Open(rows) => rows[q] \in RecipientTerminal
    BY DEF Open
  <2> HIDE DEF o
  <2> QED
    BY <1>2, <2>3, <2>5, <2>6 DEF Signers, o
<1>5. CASE o.who = 0 /\ Active(rows) = {}
  <2>1. Open(rows) = {}
    BY <1>5, SomeActive
  <2> QED
    BY <1>2, <2>1 DEF Open
<1> QED
  BY <1>3, <1>4, <1>5

\* The rows after a commit, recipient by recipient.
LEMMA RowsWritten ==
  ASSUME OneAtATime, TurnInv, NEW s \in Slots, Commit(s)
  PROVE  /\ op[s] \in Operation /\ Ready(op[s], mailed) /\ op[s].pc = "commit"
         /\ op[s].kind \in Actions
         /\ Touched(op[s]) \subseteq Recipients
         /\ \A r \in Touched(op[s]) : rows'[r] = Written(op[s], r)
         /\ \A r \in Recipients \ Touched(op[s]) : rows'[r] = rows[r]
         /\ \A r \in Recipients : rows'[r] \in RecipientStatus /\ rows[r] \in RecipientStatus
<1>1. SerialInv /\ Ready(op[s], mailed)
  BY DEF TurnInv
<1>2. /\ op[s] \in Operation /\ UpToDate(op[s]) /\ op[s].pc = "commit"
      /\ op[s].kind \in Actions
      /\ rows' = op[s].write.rows
      /\ \A r \in Recipients : rows'[r] \in RecipientStatus /\ rows[r] \in RecipientStatus
  BY <1>1, CommitRows
<1>3. Touched(op[s]) \subseteq Recipients
  BY <1>1, <1>2, TouchedType DEF SerialInv
<1>4. op[s].write.touched = Touched(op[s])
  BY <1>1, <1>2 DEF Ready
<1> QED
  BY <1>1, <1>2, <1>3, <1>4 DEF Ready, UpToDate

LEMMA ViewedTarget ==
  ASSUME TurnInv, NEW s \in Slots, op[s].pc = "commit", op[s].kind = "viewed"
  PROVE  /\ Touched(op[s]) = {op[s].who} /\ op[s].who \in Signers
         /\ rows[op[s].who] \notin RecipientTerminal
         /\ link[op[s].who] # 0
<1>1. Ready(op[s], mailed)
  BY DEF TurnInv
<1>2. op[s].who \in Signers /\ op[s].who # 0
  BY <1>1, RoutingAssumption DEF Ready, Signers, Recipients
<1>3. Target(op[s]) = op[s].who
  BY <1>1, <1>2 DEF Ready, Target
<1> QED
  BY <1>1, <1>2, <1>3 DEF Ready, Touched

\* Only replacing the recipients lets one who is through start again.
LEMMA ThroughStaysThrough ==
  ASSUME OneAtATime, TurnInv, NEW s \in Slots, Commit(s), op[s].kind # "edit",
         NEW r \in Signers, rows[r] \in RecipientTerminal
  PROVE  rows'[r] \in RecipientTerminal
<1> DEFINE o == op[s]
<1>1. /\ Ready(o, mailed) /\ o.pc = "commit" /\ o.kind \in Actions /\ r \in Recipients
      /\ \A q \in Touched(o) : rows'[q] = Written(o, q)
      /\ \A q \in Recipients \ Touched(o) : rows'[q] = rows[q]
  BY RowsWritten DEF Signers
<1>2. SUFFICES ASSUME r \in Touched(o) PROVE Written(o, r) \in RecipientTerminal
  BY <1>1
<1>3. CASE o.kind \in Sending
  <2>1. r \notin Touched(o)
    BY <1>1, <1>3 DEF Ready, Touched, Sending, Signers
  <2> QED
    BY <1>2, <2>1
<1>4. CASE o.kind = "viewed"
  BY <1>1, <1>2, <1>4, ViewedTarget
<1>5. CASE o.kind \in {"signed", "declined", "canceled", "expire"}
  BY <1>5 DEF Written, RecipientTerminal
<1>6. CASE o.kind = "completed"
  BY <1>2, <1>6 DEF Touched
<1> QED
  BY <1>1, <1>3, <1>4, <1>5, <1>6 DEF Actions, Sending

\* A cancellation and an expiry leave nobody whose turn it could be.
LEMMA ClosedForAll ==
  ASSUME OneAtATime, TurnInv, NEW s \in Slots, Commit(s), op[s].kind \in {"canceled", "expire"}
  PROVE  Open(rows)' = {}
<1>1. SUFFICES ASSUME NEW r \in Signers PROVE rows'[r] \in RecipientTerminal
  BY DEF Open
<1>2. /\ r \in Recipients
      /\ \A q \in Touched(op[s]) : rows'[q] = Written(op[s], q)
      /\ \A q \in Recipients \ Touched(op[s]) : rows'[q] = rows[q]
  BY RowsWritten DEF Signers
<1> QED
  BY <1>2 DEF Touched, Written, RecipientTerminal

LEMMA CommitTogether ==
  ASSUME OneAtATime, TurnInv, NEW s \in Slots, Commit(s)
  PROVE  OverTogether'
<1> DEFINE o == op[s]
<1>1. /\ Ready(o, mailed) /\ o.pc = "commit" /\ o.kind \in Actions /\ OverTogether
      /\ Touched(o) \subseteq Recipients
      /\ \A r \in Touched(o) : rows'[r] = Written(o, r)
      /\ \A r \in Recipients \ Touched(o) : rows'[r] = rows[r]
      /\ Signers \subseteq Recipients /\ CC \subseteq Recipients
  BY RowsWritten, RoutingAssumption DEF TurnInv, Signers
<1>2. CASE o.kind = "edit"
  BY <1>1, <1>2 DEF Touched, Written, OverTogether
<1>3. CASE o.kind \in {"canceled", "expire"}
  BY <1>3, ClosedForAll DEF OverTogether
<1>4. CASE o.kind # "edit" /\ Open(rows) = {}
  <2>1. \A r \in Signers : rows[r] \in RecipientTerminal
    BY <1>4 DEF Open
  <2>2. \A r \in Signers : rows'[r] \in RecipientTerminal
    BY <1>4, <2>1, ThroughStaysThrough
  <2> QED
    BY <2>2 DEF Open, OverTogether
<1>5. CASE o.kind \notin {"edit", "canceled", "expire"} /\ Open(rows) # {}
  <2>1. /\ \A r \in Signers : rows[r] \notin {"voided", "expired"}
        /\ \A c \in CC : rows[c] # "acted"
    BY <1>1, <1>5 DEF OverTogether
  <2>2. o.kind = "signed" => \A c \in CC : c \notin Touched(o)
    BY <1>1, <1>5, TargetInTurn DEF Touched
  <2>3. \A r \in Touched(o) : /\ Written(o, r) \notin {"voided", "expired"}
                              /\ Written(o, r) = "acted" => o.kind = "signed"
    BY <1>1, <1>5 DEF Touched, Written, Actions
  <2> QED
    BY <1>1, <2>1, <2>2, <2>3 DEF OverTogether
<1> QED
  BY <1>2, <1>3, <1>4, <1>5

\* The links after a commit.
LEMMA LinksWritten ==
  ASSUME OneAtATime, TurnInv, NEW s \in Slots, Commit(s)
  PROVE  /\ \A r \in Recipients :
              /\ op[s].kind = "edit" => link'[r] = 0
              /\ op[s].kind # "edit" =>
                   link'[r] = IF op[s].grant[r] # 0 /\ r \in Active(rows)
                                THEN op[s].grant[r] ELSE link[r]
         /\ mailed' = mailed
<1>1. Ready(op[s], mailed) /\ op[s].pc = "commit" /\ link \in [Recipients -> Nat]
  BY DEF TurnInv, SerialInv, TypeInv, TypeOK, Commit
<1>2. op[s].seen.rows = rows
  BY <1>1 DEF Ready
<1>3. link' = [r \in Recipients |-> NewLink(op[s], r)] /\ mailed' = mailed
  BY DEF Commit, sent
<1> QED
  BY <1>2, <1>3 DEF NewLink

LEMMA CommitLinks ==
  ASSUME OneAtATime, TurnInv, NEW s \in Slots, Commit(s)
  PROVE  LinksMailed'
<1> DEFINE o == op[s]
<1>1. /\ Ready(o, mailed) /\ o.pc = "commit" /\ o.kind \in Actions /\ LinksMailed
      /\ \A r \in Touched(o) : rows'[r] = Written(o, r)
      /\ \A r \in Recipients \ Touched(o) : rows'[r] = rows[r]
      /\ Signers \subseteq Recipients /\ CC \subseteq Recipients
  BY RowsWritten, RoutingAssumption DEF TurnInv, Signers
<1>2. /\ \A r \in Recipients :
           /\ o.kind = "edit" => link'[r] = 0
           /\ o.kind # "edit" => link'[r] = IF o.grant[r] # 0 /\ r \in Active(rows)
                                               THEN o.grant[r] ELSE link[r]
      /\ mailed' = mailed
  BY LinksWritten
<1>3. \A c \in CC : c \notin Active(rows)
  BY DEF Active, Open, Signers
<1>4. \A r \in Recipients : o.grant[r] # 0 => o.grant[r] \in mailed
  BY <1>1 DEF Ready
<1> HIDE DEF o
<1>5. \A r \in Recipients : link'[r] # 0 => link'[r] \in mailed'
  BY <1>1, <1>2, <1>4 DEF LinksMailed
<1>6. \A c \in CC : link'[c] = 0
  BY <1>1, <1>2, <1>3 DEF LinksMailed
<1>7. ASSUME NEW q \in Signers, rows'[q] \in {"sent", "viewed"} PROVE link'[q] # 0
  <2>1. o.kind # "edit" => (link[q] # 0 => link'[q] # 0)
    BY <1>1, <1>2
  <2>2. CASE q \notin Touched(o)
    <3>1. o.kind # "edit"
      BY <1>1, <2>2 DEF Touched
    <3> QED
      BY <1>1, <1>7, <2>1, <2>2, <3>1 DEF LinksMailed
  <2>3. CASE q \in Touched(o)
    <3>1. Written(o, q) \in {"sent", "viewed"}
      BY <1>1, <1>7, <2>3
    <3>2. CASE o.kind \in Sending
      <4>1. q \in Active(rows)
        BY <1>1, <3>1, <3>2 DEF Written, Ready, Sending, Signers
      <4>2. o.grant[q] # 0
        BY <1>1, <3>2, <4>1 DEF Ready
      <4> QED
        BY <1>1, <1>2, <3>2, <4>1, <4>2 DEF Sending
    <3>3. CASE o.kind = "viewed"
      <4>1. link[q] # 0
        BY <1>1, <2>3, <3>3, ViewedTarget DEF o
      <4> QED
        BY <2>1, <3>3, <4>1
    <3> QED
      BY <1>1, <2>3, <3>1, <3>2, <3>3 DEF Written, Actions, Sending, Touched
  <2> QED
    BY <2>2, <2>3
<1> QED
  BY <1>5, <1>6, <1>7 DEF LinksMailed

LEMMA CommitInTurn ==
  ASSUME OneAtATime, TurnInv, NEW s \in Slots, Commit(s)
  PROVE  LinksInTurn'
<1> DEFINE o == op[s]
<1>1. /\ Ready(o, mailed) /\ o.pc = "commit" /\ o.kind \in Actions /\ LinksInTurn
      /\ \A r \in Touched(o) : rows'[r] = Written(o, r)
      /\ \A r \in Recipients \ Touched(o) : rows'[r] = rows[r]
      /\ Signers \subseteq Recipients
  BY RowsWritten DEF TurnInv, Signers
<1>2. \A r \in Recipients :
        /\ o.kind = "edit" => link'[r] = 0
        /\ o.kind # "edit" => link'[r] = IF o.grant[r] # 0 /\ r \in Active(rows)
                                            THEN o.grant[r] ELSE link[r]
  BY LinksWritten
<1>3. CASE o.kind = "edit"
  BY <1>1, <1>2, <1>3 DEF Touched, Written, LinksInTurn
<1>4. CASE o.kind # "edit"
  <2>1. SUFFICES ASSUME NEW r \in Signers, NEW q \in Signers, Step[q] < Step[r],
                        link'[r] # 0 \/ rows'[r] = "acted", rows[q] \notin RecipientTerminal
                 PROVE  FALSE
    BY <1>4, ThroughStaysThrough DEF LinksInTurn
  <2>2. r \notin Active(rows)
    <3>1. q \in Open(rows) /\ Step[q] \in Nat /\ Step[r] \in Nat
      BY <2>1, RoutingAssumption DEF Open, Signers
    <3> QED
      BY <2>1, <3>1 DEF Active
  <2>3. link[r] = 0 /\ rows[r] # "acted"
    BY <1>1, <2>1 DEF LinksInTurn
  <2>4. link'[r] = 0
    BY <1>1, <1>2, <1>4, <2>2, <2>3
  <2>5. rows'[r] = "acted" /\ r \in Touched(o) /\ Written(o, r) = "acted"
    BY <1>1, <2>1, <2>3, <2>4
  <2>6. o.kind = "signed" /\ r = Target(o)
    BY <1>1, <1>4, <2>5 DEF Written, Touched, Actions
  <2> QED
    BY <1>1, <2>1, <2>6, TargetInTurn
<1> QED
  BY <1>3, <1>4

\* A request that still shows as sent has nobody through among its signers.
LEMMA DerivedSent ==
  ASSUME NEW c, NEW r, Derive(c, r) = "sent", Signers # {}
  PROVE  /\ \A q \in Signers : r[q] \notin {"acted", "declined", "viewed"}
         /\ \E q \in Signers : r[q] = "sent"
BY DEF Derive

LEMMA CommitWaiting ==
  ASSUME OneAtATime, TurnInv, NEW s \in Slots, Commit(s)
  PROVE  SentMeansWaiting'
<1> DEFINE o == op[s]
<1>1. /\ o.kind \in Actions
      /\ request'.status = NextStatus(o, rows')
  BY CommitRows DEF TurnInv
<1>2. CASE o.kind = "edit"
  BY <1>2, LinksWritten DEF SentMeansWaiting, Signers
<1>3. CASE o.kind \in {"completed", "canceled", "expire"}
  BY <1>1, <1>3 DEF NextStatus, SentMeansWaiting
<1>4. CASE o.kind \in Sending \cup {"viewed", "signed", "declined"}
  <2>1. SUFFICES ASSUME request'.status = "sent", Signers # {}
                 PROVE  \A r \in Signers : rows'[r] \notin RecipientTerminal
    BY DEF SentMeansWaiting
  <2>2. \E c : Derive(c, rows') = "sent"
    BY <1>1, <1>4, <2>1 DEF NextStatus, Sending
  <2>3. /\ \A q \in Signers : rows'[q] \notin {"acted", "declined", "viewed"}
        /\ \E q \in Signers : rows'[q] = "sent"
    BY <2>1, <2>2, DerivedSent
  <2>4. Open(rows)' # {}
    BY <2>3 DEF Open, RecipientTerminal
  <2>5. OverTogether'
    BY CommitTogether
  <2> QED
    BY <2>3, <2>4, <2>5 DEF OverTogether, RecipientTerminal
<1> QED
  BY <1>1, <1>2, <1>3, <1>4 DEF Actions, Sending

LEMMA TurnCommit ==
  ASSUME OneAtATime, TurnInv, SerialInv', NEW s \in Slots, Commit(s)
  PROVE  TurnInv'
<1>1. OverTogether' /\ LinksMailed' /\ LinksInTurn' /\ SentMeansWaiting'
  BY CommitTogether, CommitLinks, CommitInTurn, CommitWaiting
<1>2. \A q \in Slots : op'[q] = After(op[s])
  BY SerialContinue DEF TurnInv, SerialInv, Commit
<1>3. /\ op[s] \in Operation /\ Ready(op[s], mailed) /\ mailed' = mailed
  BY RowsWritten, LinksWritten
<1>4. /\ After(op[s]).pc \in {"load", "reload", "idle"}
      /\ \A r \in Recipients : After(op[s]).grant[r] \in {0, op[s].grant[r]}
  BY <1>3 DEF After, Operation, Idle, NoGrant
<1>5. \A q \in Slots : Ready(op[q], mailed)'
  BY <1>2, <1>3, <1>4 DEF Ready
<1> QED
  BY <1>1, <1>5 DEF TurnInv

LEMMA TurnInit == Init => TurnInv
<1> SUFFICES ASSUME Init PROVE TurnInv
  OBVIOUS
<1>1. \A s \in Slots : op[s] = Idle
  BY DEF Init
<1>2. \A s \in Slots : Ready(op[s], mailed)
  BY <1>1, ReadyIdle
<1>3. CC \subseteq Recipients /\ Signers \subseteq Recipients
  BY RoutingAssumption DEF Signers
<1>4. \A r \in Recipients : rows[r] = "draft" /\ link[r] = 0
  BY DEF Init, NewRows, NoGrant
<1> QED
  BY <1>2, <1>3, <1>4, SerialInit
     DEF TurnInv, OverTogether, LinksMailed, LinksInTurn, SentMeansWaiting

LEMMA TurnStep == OneAtATime /\ NoManualView /\ TurnInv /\ [Next]_vars => TurnInv'
<1> SUFFICES ASSUME OneAtATime, NoManualView, TurnInv, [Next]_vars PROVE TurnInv'
  OBVIOUS
<1>1. SerialInv'
  BY SerialStep DEF TurnInv
<1>2. CASE \E s \in Slots : Arrive(s) \/ Office(s) \/ Handle(s) \/ Crash(s)
  BY <1>1, <1>2, TurnLoad, TurnReload, TurnCheck, TurnMail, TurnBetween, TurnBegin, TurnWrite,
     TurnCommit DEF Handle
<1>3. CASE Tick \/ UNCHANGED vars
  <2>1. UNCHANGED <<request, rows, link, edition, mailed, op>>
    BY <1>3 DEF Tick, vars, store, sent
  <2>2. Open(rows)' = Open(rows) /\ Active(rows)' = Active(rows)
    BY <2>1 DEF Open, Active
  <2>3. ASSUME NEW s \in Slots PROVE Ready(op[s], mailed)'
    <3>1. Touched(op[s])' = Touched(op[s])
      BY <2>1 DEF Touched, Target
    <3>2. \A r : Written(op[s], r)' = Written(op[s], r)
      BY <2>1 DEF Written
    <3>3. Ready(op[s], mailed)
      BY DEF TurnInv
    <3> QED
      BY <2>1, <2>2, <3>1, <3>2, <3>3 DEF Ready
  <2>4. OverTogether' /\ LinksInTurn' /\ SentMeansWaiting'
    BY <2>1, <2>2 DEF TurnInv, OverTogether, LinksInTurn, SentMeansWaiting
  <2>5. LinksMailed'
    BY <2>1 DEF TurnInv, LinksMailed
  <2> QED
    BY <1>1, <2>3, <2>4, <2>5 DEF TurnInv
<1> QED
  BY <1>2, <1>3 DEF Next

(* Served one at a time, and as long as the office does not mark recipients *)
(* viewed by hand, nobody is invited, reads or signs before every signer of *)
(* an earlier step is through: for any routing, with sends, resends,        *)
(* cancellations and re-saves at any time, and handlers that die            *)
(* (getActiveRecipientsForRouting, advanceSignatureRequestRouting).         *)
THEOREM SerialTurns == ASSUME OneAtATime, NoManualView PROVE Spec => []SigningInTurn
<1>1. TurnInv => SigningInTurn
  BY DEF TurnInv, LinksInTurn, LinksMailed, SigningInTurn
<1>2. TurnInv /\ [Next]_vars => TurnInv'
  BY TurnStep
<1> QED
  BY <1>1, <1>2, TurnInit, PTL DEF Spec

(* Under the same conditions a recipient who is expected to sign holds a    *)
(* link that was mailed and still opens the request: no send stores the     *)
(* hash of a token that did not leave, none leaves a recipient without.     *)
THEOREM SerialLinks == ASSUME OneAtATime, NoManualView PROVE Spec => []InvitedHoldsLiveLink
<1>1. TurnInv => InvitedHoldsLiveLink
  BY DEF TurnInv, LinksMailed, InvitedHoldsLiveLink, Signers
<1>2. TurnInv /\ [Next]_vars => TurnInv'
  BY TurnStep
<1> QED
  BY <1>1, <1>2, TurnInit, PTL DEF Spec

(* Under the same conditions a committed signature stands: no visit, send,  *)
(* expiry or cancellation takes it back, only a re-save of the recipients   *)
(* or the office declining for them.                                        *)
THEOREM SerialSignatures == ASSUME OneAtATime, NoManualView PROVE Spec => SignatureStands
<1> DEFINE Stands == \A r \in Recipients :
                       rows[r] = "acted" /\ rows'[r] # "acted" =>
                         \/ edition' # edition
                         \/ \E s \in Slots : op[s].pc = "commit" /\ op[s].kind = "declined"
<1>1. TurnInv /\ [Next]_vars => [Stands]_vars
  <2> SUFFICES ASSUME TurnInv, Next, NEW r \in Recipients, rows[r] = "acted", rows'[r] # "acted"
               PROVE  \/ edition' # edition
                      \/ \E s \in Slots : op[s].pc = "commit" /\ op[s].kind = "declined"
    OBVIOUS
  <2>1. \A s \in Slots : Arrive(s) \/ Office(s) \/ Crash(s) \/ Tick => rows' = rows
    BY DEF Arrive, Office, Crash, Tick, store
  <2>2. \A s \in Slots : Handle(s) => rows' = rows \/ Commit(s)
    BY DEF Handle, Load, Reload, Check, Route, Mail, Finish, Begin, Write, store
  <2>3. PICK s \in Slots : Commit(s)
    BY <2>1, <2>2 DEF Next, Tick, store
  <2>4. /\ op[s].pc = "commit" /\ op[s].kind \in Actions /\ Ready(op[s], mailed)
        /\ r \in Touched(op[s]) /\ rows'[r] = Written(op[s], r)
    BY <2>3, RowsWritten
  <2>5. CASE op[s].kind \in Sending
    <3>1. r \in CC /\ Open(rows) # {}
      BY <2>4, <2>5 DEF Ready, Touched, Sending, RecipientTerminal, Active
    <3> QED
      BY <3>1 DEF TurnInv, OverTogether
  <2>6. CASE op[s].kind = "viewed"
    BY <2>4, <2>6, ViewedTarget DEF RecipientTerminal
  <2>7. CASE op[s].kind = "signed"
    BY <2>4, <2>7 DEF Written
  <2>8. CASE op[s].kind \in {"canceled", "expire", "completed"}
    BY <2>4, <2>8 DEF Touched
  <2>9. CASE op[s].kind = "edit"
    <3>1. edition' = edition + 1 /\ edition \in Nat
      BY <2>3, <2>9 DEF Commit, TurnInv, SerialInv, TypeInv, TypeOK
    <3> QED
      BY <3>1
  <2> QED
    BY <2>4, <2>5, <2>6, <2>7, <2>8, <2>9 DEF Actions, Sending
<1>2. TurnInv /\ [Next]_vars => TurnInv'
  BY TurnStep
<1> QED
  BY <1>1, <1>2, TurnInit, PTL DEF Spec, SignatureStands

-----------------------------------------------------------------------------
(* The request keeps SigningPromise.  Since no two links are the same, the  *)
(* one a submission was let in by is still of the recipient it has checked. *)

LinksApart ==
  \A r, q \in Recipients :
    link[r] # 0 => link[r] <= issued /\ (q # r => link[q] # link[r])

\* What a handler holds, when n tokens were issued.
Held(o, n) ==
  /\ \A r, q \in Recipients :
       o.grant[r] # 0 => /\ o.pc \in {"begin", "write", "commit"} /\ o.kind \in Sending
                         /\ o.grant[r] <= n /\ o.grant[r] # link[q]
                         /\ q # r => o.grant[q] # o.grant[r]
  /\ o.pc = "check" => o.who \in Owner(o.token)
  /\ o.pc \in {"begin", "write", "commit"} /\ o.kind = "signed" /\ o.who # 0 =>
       rows[o.who] \notin RecipientTerminal
  /\ o.kind = "declined" => o.who = 0

OrderInv ==
  /\ TurnInv
  /\ LinksApart
  /\ \A s \in Slots : Held(op[s], issued)

LEMMA HeldIdle == \A n : Held(Idle, n)
BY DEF Held, Idle, NoGrant

LEMMA OrderFacts ==
  ASSUME OrderInv, NEW s \in Slots
  PROVE  /\ op[s] \in Operation /\ Held(op[s], issued) /\ Ready(op[s], mailed)
         /\ UpToDate(op[s]) /\ WellFormed(op[s])
         /\ issued \in Nat /\ link \in [Recipients -> Nat]
         /\ rows \in [Recipients -> RecipientStatus]
BY DEF OrderInv, TurnInv, SerialInv, TypeInv, TypeOK

LEMMA OrderKeep ==
  ASSUME OneAtATime, OrderInv, TurnInv', NEW s \in Slots, NEW o, Continue(s, o),
         UNCHANGED store, issued' \in Nat, issued <= issued', Held(o, issued')
  PROVE  OrderInv'
<1>1. \A q \in Slots : op'[q] = o
  BY SerialContinue DEF OrderInv, TurnInv, SerialInv
<1>2. rows' = rows /\ link' = link
  BY DEF store
<1>3. Held(o, issued)'
  BY <1>2 DEF Held, Owner
<1>4. \A q \in Slots : Held(op[q], issued)'
  BY <1>1, <1>3
<1>5. LinksApart'
  <2>1. link \in [Recipients -> Nat] /\ issued \in Nat
    BY OrderFacts
  <2> QED
    BY <1>2, <2>1 DEF OrderInv, LinksApart
<1> QED
  BY <1>4, <1>5 DEF OrderInv

LEMMA OrderEnd ==
  ASSUME OneAtATime, OrderInv, TurnInv', NEW s \in Slots, End(s), UNCHANGED store,
         issued' \in Nat, issued <= issued'
  PROVE  OrderInv'
BY HeldIdle, OrderKeep DEF End

LEMMA HeldLoaded ==
  ASSUME OrderInv, NEW s \in Slots, NEW r \in Owner(op[s].token), op[s].pc \in {"load", "reload"}
  PROVE  Held(Loaded(s, r), issued)
<1>1. op[s] \in Operation /\ WellFormed(op[s]) /\ Held(op[s], issued)
  BY OrderFacts
<1>2. CASE op[s].stage = "open"
  BY <1>2, HeldIdle DEF Loaded
<1>3. CASE op[s].stage # "open"
  <2>1. /\ Loaded(s, r).pc \in {"check", "route", "finish"} /\ Loaded(s, r).grant = op[s].grant
        /\ Loaded(s, r).who = r /\ Loaded(s, r).token = op[s].token
        /\ Loaded(s, r).kind = "none"
    BY <1>1, <1>3 DEF Loaded, Operation, WellFormed
  <2>2. \A x \in Recipients : op[s].grant[x] = 0
    BY <1>1 DEF Held
  <2> QED
    BY <2>1, <2>2 DEF Held
<1> QED
  BY <1>2, <1>3

LEMMA OrderLoad ==
  ASSUME OneAtATime, OrderInv, TurnInv', NEW s \in Slots, Load(s) \/ Reload(s)
  PROVE  OrderInv'
<1>1. /\ op[s] \in Operation /\ Held(op[s], issued) /\ op[s].pc \in {"load", "reload"}
      /\ UNCHANGED store /\ issued' = issued /\ issued \in Nat
  BY OrderFacts DEF Load, Reload, sent
<1>2. CASE End(s)
  BY <1>1, <1>2, OrderEnd
<1>3. ASSUME NEW r \in Owner(op[s].token), Continue(s, Loaded(s, r))
      PROVE  OrderInv'
  BY <1>1, <1>3, HeldLoaded, OrderKeep
<1>4. ASSUME NEW r \in Owner(op[s].token), NEW visit \in {"expire", "viewed"},
             Continue(s, [op[s] EXCEPT !.pc = "begin", !.kind = visit, !.who = r,
                                       !.edition = edition])
      PROVE  OrderInv'
  <2>1. PICK o : o = [op[s] EXCEPT !.pc = "begin", !.kind = visit, !.who = r, !.edition = edition]
    OBVIOUS
  <2>2. o.pc = "begin" /\ o.kind = visit /\ o.grant = op[s].grant
    BY <1>1, <2>1 DEF Operation
  <2>3. \A x \in Recipients : op[s].grant[x] = 0
    BY <1>1 DEF Held
  <2>4. Held(o, issued)
    BY <2>2, <2>3 DEF Held
  <2> QED
    BY <1>1, <1>4, <2>1, <2>4, OrderKeep
<1>5. \A r : Visit(s, r) \in {"expire", "viewed", "none"}
  BY DEF Visit
<1> QED
  BY <1>2, <1>3, <1>4, <1>5 DEF Load, Reload

\* It is the recipient whom the submission checked that signs.
LEMMA OrderCheck ==
  ASSUME OneAtATime, OrderInv, TurnInv', NEW s \in Slots, Check(s)
  PROVE  OrderInv'
<1>1. /\ op[s] \in Operation /\ Held(op[s], issued) /\ op[s].pc = "check" /\ UpToDate(op[s])
      /\ UNCHANGED store /\ issued' = issued /\ issued \in Nat
  BY OrderFacts DEF Check, sent
<1>2. CASE End(s)
  BY <1>1, <1>2, OrderEnd
<1>3. CASE ~End(s)
  <2>1. PICK r \in Owner(op[s].token) :
          Continue(s, [op[s] EXCEPT !.pc = "begin", !.kind = "signed", !.who = r,
                                    !.edition = edition, !.seen = NoRead])
    BY <1>3 DEF Check
  <2>2. op[s].seen.rows[op[s].who] \notin RecipientTerminal
    BY <1>3 DEF Check
  <2>3. r = op[s].who
    <3>1. op[s].who \in Owner(op[s].token)
      BY <1>1 DEF Held
    <3> QED
      BY <3>1 DEF Owner, OrderInv, LinksApart
  <2>4. rows[r] \notin RecipientTerminal
    BY <1>1, <2>2, <2>3 DEF UpToDate
  <2>5. PICK o : o = [op[s] EXCEPT !.pc = "begin", !.kind = "signed", !.who = r,
                                   !.edition = edition, !.seen = NoRead]
    OBVIOUS
  <2>6. o.pc = "begin" /\ o.kind = "signed" /\ o.who = r /\ o.grant = op[s].grant
    BY <1>1, <2>5 DEF Operation
  <2>7. \A x \in Recipients : op[s].grant[x] = 0
    BY <1>1 DEF Held
  <2>8. Held(o, issued)
    BY <2>4, <2>6, <2>7 DEF Held
  <2> QED
    BY <1>1, <2>1, <2>5, <2>8, OrderKeep
<1> QED
  BY <1>2, <1>3

LEMMA OrderBetween ==
  ASSUME OneAtATime, OrderInv, TurnInv', NEW s \in Slots,
         Arrive(s) \/ Office(s) \/ Route(s) \/ Finish(s) \/ Begin(s) \/ Write(s) \/ Crash(s)
  PROVE  OrderInv'
<1>1. /\ op[s] \in Operation /\ Held(op[s], issued)
      /\ UNCHANGED store /\ issued' = issued /\ issued \in Nat
  BY OrderFacts DEF Arrive, Office, Route, Finish, Begin, Write, Crash, sent
<1>2. CASE End(s)
  BY <1>1, <1>2, OrderEnd
<1>3. ASSUME NEW o, Continue(s, o), Held(o, issued)
      PROVE  OrderInv'
  BY <1>1, <1>3, OrderKeep
<1>4. CASE Arrive(s)
  <2>1. PICK t, stage : Continue(s, [Idle EXCEPT !.pc = "load", !.stage = stage, !.token = t])
    BY <1>4 DEF Arrive
  <2>2. PICK o : o = [Idle EXCEPT !.pc = "load", !.stage = stage, !.token = t]
    OBVIOUS
  <2>3. o.pc = "load" /\ o.kind = "none" /\ o.grant = NoGrant
    BY <2>2 DEF Idle
  <2>4. Held(o, issued)
    BY <2>3 DEF Held, NoGrant
  <2> QED
    BY <1>3, <2>1, <2>2, <2>4
<1>5. CASE Office(s)
  <2>1. PICK a, o :
          /\ Continue(s, o)
          /\ o = IF a \in {"send", "resend"}
                   THEN [Idle EXCEPT !.pc = "mail", !.kind = a, !.seen = Read]
                   ELSE [Idle EXCEPT !.pc = "begin", !.kind = a]
    BY <1>5 DEF Office
  <2>2. o.pc # "check" /\ o.grant = NoGrant /\ o.who = 0
    BY <2>1 DEF Idle
  <2>3. Held(o, issued)
    BY <2>2 DEF Held, NoGrant
  <2> QED
    BY <1>3, <2>1, <2>3
<1>6. CASE Route(s) /\ ~End(s)
  <2>1. PICK o : /\ Continue(s, o)
                 /\ \/ o = [op[s] EXCEPT !.pc = "mail", !.kind = "advance"]
                    \/ o = [op[s] EXCEPT !.pc = "finish"]
    BY <1>6 DEF Route
  <2>2. /\ o.pc \in {"mail", "finish"} /\ o.grant = op[s].grant
        /\ o.kind \in {"advance", op[s].kind} /\ o.who = op[s].who
    BY <1>1, <2>1 DEF Operation
  <2>3. \A x \in Recipients : op[s].grant[x] = 0
    BY <1>1, <1>6 DEF Held, Route
  <2>4. Held(o, issued)
    BY <1>1, <2>2, <2>3 DEF Held
  <2> QED
    BY <1>3, <2>1, <2>4
<1>7. CASE Finish(s) /\ ~End(s)
  <2>1. Continue(s, [Idle EXCEPT !.pc = "begin", !.kind = "completed"])
    BY <1>7 DEF Finish
  <2>2. PICK o : o = [Idle EXCEPT !.pc = "begin", !.kind = "completed"]
    OBVIOUS
  <2>3. o.pc = "begin" /\ o.kind = "completed" /\ o.grant = NoGrant
    BY <2>2 DEF Idle
  <2>4. Held(o, issued)
    BY <2>3 DEF Held, NoGrant
  <2> QED
    BY <1>3, <2>1, <2>2, <2>4
<1>8. CASE Begin(s) /\ ~End(s)
  <2>1. Continue(s, [op[s] EXCEPT !.pc = "write", !.seen = Read]) /\ op[s].pc = "begin"
    BY <1>8 DEF Begin
  <2>2. PICK o : o = [op[s] EXCEPT !.pc = "write", !.seen = Read]
    OBVIOUS
  <2>3. o.grant = op[s].grant /\ o.pc = "write" /\ o.kind = op[s].kind /\ o.who = op[s].who
    BY <1>1, <2>2 DEF Operation
  <2>4. Held(o, issued)
    BY <1>1, <2>1, <2>3 DEF Held
  <2> QED
    BY <1>3, <2>1, <2>2, <2>4
<1>9. CASE Write(s) /\ ~End(s)
  <2>1. op[s].pc = "write" /\ \E write : Continue(s, [op[s] EXCEPT !.pc = "commit", !.write = write])
    BY <1>9 DEF Write
  <2>2. PICK write : Continue(s, [op[s] EXCEPT !.pc = "commit", !.write = write])
    BY <2>1
  <2>3. PICK o : o = [op[s] EXCEPT !.pc = "commit", !.write = write]
    OBVIOUS
  <2>4. o.grant = op[s].grant /\ o.pc = "commit" /\ o.kind = op[s].kind /\ o.who = op[s].who
    BY <1>1, <2>3 DEF Operation
  <2>5. Held(o, issued)
    BY <1>1, <2>1, <2>4 DEF Held
  <2> QED
    BY <1>3, <2>2, <2>3, <2>5
<1>10. CASE Crash(s)
  BY <1>2, <1>10 DEF Crash
<1> QED
  BY <1>2, <1>4, <1>5, <1>6, <1>7, <1>8, <1>9, <1>10

\* Every recipient of a mailing gets a number of their own, above all earlier ones.
LEMMA Numbers ==
  ASSUME NEW S \in SUBSET Recipients, NEW n \in Nat, NEW f,
         \A r \in S : f[r] = n + Cardinality({q \in S : q <= r})
  PROVE  /\ Cardinality(S) \in Nat
         /\ \A r \in S : f[r] \in Nat /\ n < f[r] /\ f[r] <= n + Cardinality(S)
         /\ \A r, q \in S : q < r => f[q] < f[r]
<1> DEFINE Upto(r) == {q \in S : q <= r}
<1>1. IsFiniteSet(S) /\ Cardinality(S) \in Nat
  <2>1. IsFiniteSet(Recipients)
    BY FS_Interval, RoutingAssumption DEF Recipients
  <2> QED
    BY <2>1, FS_Subset, FS_CardinalityType
<1>2. \A r \in S : r \in Nat
  BY RoutingAssumption DEF Recipients
<1>3. ASSUME NEW r \in S
      PROVE  /\ IsFiniteSet(Upto(r)) /\ Cardinality(Upto(r)) \in Nat
             /\ Cardinality(Upto(r)) <= Cardinality(S) /\ Cardinality(Upto(r)) > 0
  <2>1. Upto(r) \in SUBSET S /\ r \in Upto(r)
    BY <1>2
  <2> HIDE DEF Upto
  <2>2. IsFiniteSet(Upto(r)) /\ Cardinality(Upto(r)) <= Cardinality(S)
    BY <1>1, <2>1, FS_Subset
  <2>3. Cardinality(Upto(r)) \in Nat /\ Cardinality(Upto(r)) # 0
    BY <2>1, <2>2, FS_CardinalityType, FS_EmptySet
  <2> QED
    BY <2>2, <2>3
<1>4. ASSUME NEW r \in S, NEW q \in S, q < r
      PROVE  Cardinality(Upto(q)) < Cardinality(Upto(r))
  <2>1. Upto(q) \in SUBSET Upto(r) /\ r \in Upto(r) /\ r \notin Upto(q)
    BY <1>2, <1>4
  <2>2. /\ IsFiniteSet(Upto(r)) /\ Upto(q) # Upto(r)
        /\ Cardinality(Upto(q)) \in Nat /\ Cardinality(Upto(r)) \in Nat
    BY <1>3, <2>1
  <2> HIDE DEF Upto
  <2>3. /\ Cardinality(Upto(q)) <= Cardinality(Upto(r))
        /\ Cardinality(Upto(q)) # Cardinality(Upto(r))
    BY <2>1, <2>2, FS_Subset
  <2> QED
    BY <2>2, <2>3
<1>5. \A r \in S : f[r] = n + Cardinality(Upto(r))
  OBVIOUS
<1> HIDE DEF Upto
<1>6. \A r \in S : f[r] \in Nat /\ n < f[r] /\ f[r] <= n + Cardinality(S)
  BY <1>1, <1>3, <1>5
<1>7. ASSUME NEW r \in S, NEW q \in S, q < r PROVE f[q] < f[r]
  BY <1>3, <1>4, <1>5, <1>7
<1> QED
  BY <1>1, <1>6, <1>7

LEMMA OrderMail ==
  ASSUME OneAtATime, OrderInv, TurnInv', NEW s \in Slots, Mail(s)
  PROVE  OrderInv'
<1> DEFINE to    == Active(op[s].seen.rows)
           token == [r \in Recipients |->
                       IF r \in to THEN issued + Cardinality({q \in to : q <= r}) ELSE 0]
           o     == [op[s] EXCEPT !.pc = "begin", !.grant = token, !.seen = NoRead]
<1>1. /\ op[s] \in Operation /\ Ready(op[s], mailed) /\ Held(op[s], issued)
      /\ op[s].pc = "mail" /\ UNCHANGED store /\ link \in [Recipients -> Nat]
      /\ issued \in Nat /\ issued' = issued + Cardinality(to)
  BY OrderFacts DEF Mail
<1>2. /\ Cardinality(to) \in Nat
      /\ \A r \in to : token[r] \in Nat /\ issued < token[r] /\ token[r] <= issued'
      /\ \A r, q \in to : q < r => token[q] < token[r]
  <2>1. to \in SUBSET Recipients
    BY DEF Active, Open, Signers
  <2>2. \A r \in to : token[r] = issued + Cardinality({q \in to : q <= r})
    BY <2>1
  <2> HIDE DEF to, token
  <2> QED
    BY <1>1, <2>1, <2>2, Numbers
<1>3. issued' \in Nat /\ issued <= issued'
  BY <1>1, <1>2
<1>4. CASE End(s)
  BY <1>1, <1>3, <1>4, OrderEnd
<1>5. CASE ~End(s)
  <2>1. Continue(s, o)
    BY <1>5 DEF Mail
  <2>2. o.pc = "begin" /\ o.kind \in Sending /\ o.grant = token
    BY <1>1 DEF Operation, Ready
  <2>3. \A r \in Recipients : token[r] # 0 => r \in to
    OBVIOUS
  <2>4. to \subseteq Recipients /\ \A r \in Recipients : r \in Nat
    BY RoutingAssumption DEF Active, Open, Signers, Recipients
  <2>5. ASSUME NEW r \in Recipients, NEW q \in Recipients, token[r] # 0
        PROVE  token[r] <= issued' /\ token[r] # link[q] /\ (q # r => token[q] # token[r])
    <3>1. r \in to /\ token[r] \in Nat /\ issued < token[r] /\ token[r] <= issued'
      BY <1>2, <2>3, <2>5
    <3>2. link[q] \in Nat /\ link[q] <= issued
      BY <1>1 DEF OrderInv, LinksApart
    <3>3. token[r] # link[q]
      BY <1>1, <3>1, <3>2
    <3>4. ASSUME q # r, token[q] = token[r] PROVE FALSE
      <4>1. q \in to
        BY <2>3, <2>5, <3>4
      <4>2. token[q] \in Nat /\ token[r] \in Nat /\ (q < r \/ r < q)
        BY <1>2, <2>4, <3>1, <3>4, <4>1
      <4> HIDE DEF token
      <4> QED
        BY <1>2, <3>1, <3>4, <4>1, <4>2
    <3> QED
      BY <3>1, <3>3, <3>4
  <2> HIDE DEF token, o
  <2>6. Held(o, issued')
    BY <2>2, <2>5 DEF Held, Sending
  <2> QED
    BY <1>1, <1>3, <2>1, <2>6, OrderKeep
<1> QED
  BY <1>4, <1>5

LEMMA OrderCommit ==
  ASSUME OneAtATime, OrderInv, TurnInv', NEW s \in Slots, Commit(s)
  PROVE  OrderInv'
<1> DEFINE o == op[s]
<1>1. /\ o \in Operation /\ Held(o, issued) /\ o.pc = "commit" /\ TurnInv
      /\ issued' = issued /\ issued \in Nat /\ link \in [Recipients -> Nat] /\ LinksApart
  BY OrderFacts DEF OrderInv, Commit, sent
<1>2. \A q \in Slots : op'[q] = After(o)
  BY <1>1, SerialContinue DEF TurnInv, SerialInv, Commit
<1>3. /\ After(o).pc \in {"load", "reload", "idle"} /\ After(o).kind = "none"
      /\ \A r \in Recipients : After(o).grant[r] = 0
  <2>1. o.kind \notin Sending => \A r \in Recipients : o.grant[r] = 0
    BY <1>1 DEF Held
  <2>2. CASE After(o) = Idle
    BY <2>2 DEF Idle, NoGrant
  <2>3. CASE After(o) # Idle /\ o.kind = "advance"
    BY <1>1, <2>3 DEF After, Operation, NoGrant
  <2>4. CASE After(o) # Idle /\ o.kind # "advance"
    <3>1. o.kind \in {"signed", "viewed", "expire"}
      BY <2>4 DEF After
    <3>2. After(o).pc \in {"load", "reload"} /\ After(o).kind = "none" /\ After(o).grant = o.grant
      BY <1>1, <2>4 DEF After, Operation
    <3> QED
      BY <2>1, <3>1, <3>2 DEF Sending
  <2> QED
    BY <2>2, <2>3, <2>4
<1>4. \A q \in Slots : Held(op[q], issued)'
  BY <1>2, <1>3 DEF Held
<1>5. ASSUME NEW r \in Recipients, NEW q \in Recipients, link'[r] # 0
      PROVE  link'[r] <= issued' /\ (q # r => link'[q] # link'[r])
  <2>1. \A x \in Recipients :
          /\ o.kind = "edit" => link'[x] = 0
          /\ o.kind # "edit" => link'[x] \in {link[x], o.grant[x]}
    BY <1>1, LinksWritten
  <2>2. o.kind # "edit"
    BY <1>5, <2>1
  <2>3. \A x, y \in Recipients :
          o.grant[x] # 0 => /\ o.grant[x] <= issued /\ o.grant[x] # link[y]
                            /\ y # x => o.grant[y] # o.grant[x]
    BY <1>1 DEF Held
  <2>4. \A x, y \in Recipients :
          link[x] # 0 => link[x] <= issued /\ (y # x => link[y] # link[x])
    BY <1>1 DEF LinksApart
  <2> HIDE DEF o
  <2> QED
    BY <1>1, <1>5, <2>1, <2>2, <2>3, <2>4
<1> QED
  BY <1>4, <1>5 DEF OrderInv, LinksApart

LEMMA OrderInit == Init => OrderInv
<1> SUFFICES ASSUME Init PROVE OrderInv
  OBVIOUS
<1>1. \A s \in Slots : op[s] = Idle
  BY DEF Init
<1>2. \A r \in Recipients : link[r] = 0
  BY DEF Init, NoGrant
<1> QED
  BY <1>1, <1>2, HeldIdle, TurnInit DEF OrderInv, LinksApart

LEMMA OrderStep == OneAtATime /\ NoManualView /\ OrderInv /\ [Next]_vars => OrderInv'
<1> SUFFICES ASSUME OneAtATime, NoManualView, OrderInv, [Next]_vars PROVE OrderInv'
  OBVIOUS
<1>1. TurnInv'
  BY TurnStep DEF OrderInv
<1>2. CASE \E s \in Slots : Arrive(s) \/ Office(s) \/ Handle(s) \/ Crash(s)
  BY <1>1, <1>2, OrderLoad, OrderCheck, OrderBetween, OrderMail, OrderCommit DEF Handle
<1>3. CASE Tick \/ UNCHANGED vars
  <2>1. UNCHANGED <<rows, link, issued, op>>
    BY <1>3 DEF Tick, vars, store, sent
  <2>2. LinksApart'
    BY <2>1 DEF OrderInv, LinksApart
  <2>3. ASSUME NEW s \in Slots PROVE Held(op[s], issued)'
    <3>1. Held(op[s], issued)
      BY DEF OrderInv
    <3> QED
      BY <2>1, <3>1 DEF Held, Owner
  <2> QED
    BY <1>1, <2>2, <2>3 DEF OrderInv
<1> QED
  BY <1>2, <1>3 DEF Next

-----------------------------------------------------------------------------
(* Each commit seen from outside; between commits nothing of it shows.       *)

\* Who is still expected to sign, and whose turn it is, are the same for both.
LEMMA PromiseTurn ==
  ASSUME OrderInv
  PROVE  /\ Promise!Expected = Open(rows)
         /\ Promise!Turn = Active(rows)
<1>1. \A r \in Signers : rows[r] \in RecipientStatus
  BY DEF OrderInv, TurnInv, SerialInv, TypeInv, TypeOK, Signers
<1>2. \A r \in Signers : Standing(rows[r]) \in {"waiting", "asked"} <=> rows[r] \notin RecipientTerminal
  BY <1>1 DEF Standing, RecipientStatus, RecipientTerminal
<1>3. Promise!Expected = Open(rows)
  BY <1>2 DEF Promise!Expected, Open
<1> QED
  BY <1>3 DEF Promise!Turn, Active

LEMMA PromiseBecome ==
  ASSUME NEW S \in SUBSET Signers, NEW how,
         \A r \in S : Standing(rows'[r]) = how,
         \A r \in Signers \ S : Standing(rows'[r]) = Standing(rows[r])
  PROVE  Promise!Become(S, how)
BY DEF Promise!Become

LEMMA PromiseStutter ==
  ASSUME \A r \in Signers : Standing(rows'[r]) = Standing(rows[r]), request'.output = request.output
  PROVE  UNCHANGED <<[r \in Signers |-> Standing(rows[r])], request.output>>
OBVIOUS

LEMMA CommitOutput ==
  ASSUME OrderInv, NEW s \in Slots, Commit(s)
  PROVE  /\ op[s].kind \in {"send", "resend", "edit"} => request'.output = FALSE
         /\ op[s].kind = "completed" => request'.output = TRUE
         /\ op[s].kind \notin {"send", "resend", "edit", "completed"} =>
              request'.output = request.output
<1>1. request' = Updated(op[s]) /\ request \in Request
  BY DEF Commit, OrderInv, TurnInv, SerialInv, TypeInv, TypeOK
<1> QED
  BY <1>1 DEF Updated, Request

\* A step of SigningPromise, or none.
PromiseNext == Promise!Next \/ UNCHANGED <<[r \in Signers |-> Standing(rows[r])], request.output>>

\* A send asks those whose turn it is.  Nobody else had been asked, so that putting
\* the others back to pending changes nothing of how they stand.
LEMMA PromiseSend ==
  ASSUME OneAtATime, OrderInv, NEW s \in Slots, Commit(s), op[s].kind \in Sending
  PROVE  Promise!Ask(Active(rows))
<1> DEFINE o == op[s]
<1>1. /\ Ready(o, mailed) /\ o.pc = "commit"
      /\ \A r \in Touched(o) : rows'[r] = Written(o, r)
      /\ \A r \in Recipients \ Touched(o) : rows'[r] = rows[r]
      /\ \A r \in Recipients : rows[r] \in RecipientStatus
      /\ Signers \subseteq Recipients
  BY RowsWritten DEF OrderInv, Signers
<1>2. o.seen.rows = rows /\ Active(rows) # {} /\ Active(rows) \subseteq Signers
  BY <1>1 DEF Ready, Active, Open
<1>3. ASSUME NEW r \in Active(rows) PROVE Standing(rows'[r]) = "asked"
  <2>1. r \in Touched(o) /\ Written(o, r) = "sent"
    BY <1>1, <1>2 DEF Touched, Written, Sending, Active, Open
  <2> QED
    BY <1>1, <2>1 DEF Standing
<1>4. ASSUME NEW r \in Signers \ Active(rows) PROVE Standing(rows'[r]) = Standing(rows[r])
  <2>1. CASE rows[r] \in RecipientTerminal
    <3>1. r \notin Touched(o)
      BY <1>2, <2>1 DEF Touched, Sending, Signers
    <3> QED
      BY <1>1, <3>1
  <2>2. CASE rows[r] \notin RecipientTerminal
    <3>1. r \in Open(rows)
      BY <2>2 DEF Open
    <3>2. PICK q \in Open(rows) : ~(Step[r] <= Step[q])
      BY <3>1 DEF Active
    <3>3. q \in Signers /\ rows[q] \notin RecipientTerminal /\ Step[q] < Step[r]
      <4>1. q \in Signers /\ q \in Recipients /\ r \in Recipients
        BY <1>1 DEF Open
      <4>2. Step[q] \in Nat /\ Step[r] \in Nat
        BY <4>1, RoutingAssumption
      <4> QED
        BY <3>2, <4>1, <4>2 DEF Open
    <3>4. link[r] = 0
      BY <3>3 DEF OrderInv, TurnInv, LinksInTurn
    <3>5. rows[r] \notin {"sent", "viewed"}
      BY <3>4 DEF OrderInv, TurnInv, LinksMailed
    <3>6. rows[r] \in {"draft", "pending"}
      BY <1>1, <2>2, <3>5 DEF RecipientStatus, RecipientTerminal
    <3>7. r \in Touched(o) /\ Written(o, r) = "pending"
      BY <1>1, <1>2, <2>2 DEF Touched, Written, Sending, Signers
    <3> QED
      BY <1>1, <3>6, <3>7 DEF Standing
  <2> QED
    BY <2>1, <2>2
<1>5. request.output = FALSE
  <2>1. request \in Request /\ OutputMeansAllSigned
    BY DEF OrderInv, TurnInv, SerialInv, TypeInv, TypeOK
  <2>2. \E r \in Signers : rows[r] # "acted"
    BY <1>2 DEF Active, Open, RecipientTerminal
  <2> QED
    BY <2>1, <2>2 DEF OutputMeansAllSigned, AllActed, Request
<1>6. request'.output = request.output
  BY <1>5, CommitOutput DEF Sending
<1>7. Promise!Become(Active(rows), "asked")
  BY <1>2, <1>3, <1>4, PromiseBecome
<1> QED
  BY <1>6, <1>7, PromiseTurn DEF Promise!Ask

\* A visit leaves a recipient asked who already was, and in turn.
LEMMA PromiseVisit ==
  ASSUME OneAtATime, OrderInv, NEW s \in Slots, Commit(s), op[s].kind = "viewed"
  PROVE  Promise!Ask({op[s].who})
<1> DEFINE o == op[s]
<1>1. /\ o.pc = "commit" /\ TurnInv
      /\ \A r \in Touched(o) : rows'[r] = Written(o, r)
      /\ \A r \in Recipients \ Touched(o) : rows'[r] = rows[r]
      /\ Signers \subseteq Recipients
  BY RowsWritten DEF OrderInv, Signers
<1>2. /\ Touched(o) = {o.who} /\ o.who \in Signers /\ rows[o.who] \notin RecipientTerminal
      /\ link[o.who] # 0
  BY <1>1, ViewedTarget
<1>3. o.who \in Active(rows)
  <2>1. ASSUME NEW q \in Open(rows) PROVE Step[o.who] <= Step[q]
    <3>1. q \in Signers /\ rows[q] \notin RecipientTerminal
      BY DEF Open
    <3>2. Step[o.who] \in Nat /\ Step[q] \in Nat
      BY <1>1, <1>2, <3>1, RoutingAssumption
    <3>3. ~(Step[q] < Step[o.who])
      BY <1>1, <1>2, <3>1 DEF TurnInv, LinksInTurn
    <3> HIDE DEF o
    <3> QED
      BY <3>2, <3>3
  <2> QED
    BY <1>2, <2>1 DEF Active, Open
<1>4. Promise!Become({o.who}, "asked")
  <2>1. Standing(rows'[o.who]) = "asked"
    BY <1>1, <1>2 DEF Written, Standing
  <2>2. \A r \in Signers \ {o.who} : Standing(rows'[r]) = Standing(rows[r])
    BY <1>1, <1>2
  <2> QED
    BY <1>2, <2>1, <2>2, PromiseBecome
<1>5. request'.output = request.output
  BY CommitOutput
<1> QED
  BY <1>3, <1>4, <1>5, PromiseTurn DEF Promise!Ask

\* A result for one recipient is for one whose turn it is, or, when nobody is
\* left to sign, for the first.
LEMMA ResultTarget ==
  ASSUME OrderInv, NEW s \in Slots, op[s].pc = "commit", op[s].kind \in {"signed", "declined"}
  PROVE  LET t == Target(op[s]) IN
         /\ t \in Recipients
         /\ \/ t \in Active(rows)
            \/ Open(rows) = {} /\ \A q \in Recipients : t <= q
<1> DEFINE o == op[s]
<1>1. o \in Operation /\ Ready(o, mailed) /\ Held(o, issued) /\ TurnInv
  BY OrderFacts DEF OrderInv
<1>2. CASE o.who # 0
  <2>1. /\ o.kind = "signed" /\ Target(o) = o.who /\ o.who \in Signers /\ link[o.who] # 0
        /\ rows[o.who] \notin RecipientTerminal /\ o.who \in Recipients
    BY <1>1, <1>2 DEF Ready, Held, Target, Signers
  <2>2. ASSUME NEW q \in Open(rows) PROVE Step[o.who] <= Step[q]
    <3>1. q \in Signers /\ rows[q] \notin RecipientTerminal /\ q \in Recipients
      BY DEF Open, Signers
    <3>2. Step[o.who] \in Nat /\ Step[q] \in Nat
      BY <2>1, <3>1, RoutingAssumption
    <3>3. ~(Step[q] < Step[o.who])
      BY <1>1, <2>1, <3>1 DEF TurnInv, LinksInTurn
    <3> HIDE DEF o
    <3> QED
      BY <3>2, <3>3
  <2> QED
    BY <2>1, <2>2 DEF Active, Open
<1>3. CASE o.who = 0 /\ Active(rows) # {}
  <2>1. Target(o) = First(Active(rows))
    BY <1>1, <1>3 DEF Ready, Target
  <2>2. Active(rows) \in SUBSET Recipients
    BY DEF Active, Open, Signers
  <2> QED
    BY <1>3, <2>1, <2>2, FirstType
<1>4. CASE o.who = 0 /\ Active(rows) = {}
  <2>1. Open(rows) = {}
    BY <1>4, SomeActive
  <2>2. Target(o) = First(Recipients)
    BY <1>1, <1>4 DEF Ready, Target
  <2>3. \A q \in Recipients : 1 <= q
    BY DEF Recipients
  <2>4. 1 \in Recipients
    BY RoutingAssumption DEF Recipients
  <2>5. First(Recipients) \in Recipients /\ \A q \in Recipients : First(Recipients) <= q
    BY <2>3, <2>4 DEF First
  <2> QED
    BY <2>1, <2>2, <2>5
<1> QED
  BY <1>2, <1>3, <1>4

\* A signature or a refusal, of the recipient or entered by the office.
LEMMA PromiseResult ==
  ASSUME OneAtATime, OrderInv, NEW s \in Slots, Commit(s), op[s].kind \in {"signed", "declined"}
  PROVE  PromiseNext
<1> DEFINE o == op[s]
           t == Target(o)
           how == IF o.kind = "signed" THEN "signed" ELSE "out"
<1>1. /\ o.pc = "commit" /\ UpToDate(o) /\ TurnInv
      /\ \A r \in Touched(o) : rows'[r] = Written(o, r)
      /\ \A r \in Recipients \ Touched(o) : rows'[r] = rows[r]
      /\ Signers \subseteq Recipients
  BY RowsWritten, OrderFacts DEF OrderInv, Signers
<1>2. Touched(o) = {t} /\ Standing(Written(o, t)) = how
  BY DEF Touched, Written, Standing
<1>3. request'.output = request.output
  BY CommitOutput
<1>4. request.output = FALSE
  <2>1. request \in Request /\ OutputMeansAllSigned
    BY <1>1 DEF TurnInv, SerialInv, TypeInv, TypeOK
  <2> QED
    BY <1>1, <2>1 DEF UpToDate, OutputMeansAllSigned, Request
<1>5. /\ t \in Recipients
      /\ \/ t \in Active(rows)
         \/ Open(rows) = {} /\ \A q \in Recipients : t <= q
  BY <1>1, ResultTarget
<1> HIDE DEF o, t
<1>6. CASE t \notin Signers
  <2>1. \A r \in Signers : rows'[r] = rows[r]
    BY <1>1, <1>2, <1>6
  <2> QED
    BY <1>3, <2>1, PromiseStutter DEF PromiseNext
<1>7. CASE t \in Signers
  <2>1. Promise!Become({t}, how)
    <3>1. Standing(rows'[t]) = how
      BY <1>1, <1>2
    <3>2. \A r \in Signers \ {t} : Standing(rows'[r]) = Standing(rows[r])
      BY <1>1, <1>2
    <3> QED
      BY <1>7, <3>1, <3>2, PromiseBecome
  <2>2. CASE t \in Active(rows) /\ how = "signed"
    <3>1. Promise!Sign(t)
      BY <1>3, <2>1, <2>2, PromiseTurn DEF Promise!Sign
    <3> QED
      BY <1>7, <3>1 DEF PromiseNext, Promise!Next
  <2>3. CASE t \in Active(rows) /\ how = "out"
    <3>1. Standing(rows[t]) # "signed"
      BY <2>3 DEF Active, Open, RecipientTerminal, Standing
    <3>2. Promise!LeaveOut({t})
      BY <1>3, <1>7, <2>1, <2>3, <3>1 DEF Promise!LeaveOut
    <3> QED
      BY <1>7, <3>2 DEF PromiseNext, Promise!Next
  <2>4. CASE Open(rows) = {} /\ \A q \in Recipients : t <= q
    <3>1. Promise!Enter(t)
      <4>1. Promise!Expected = {}
        BY <2>4, PromiseTurn
      <4>2. how \in {"signed", "out"}
        OBVIOUS
      <4>3. \E how1 \in {"signed", "out"} : Promise!Become({t}, how1)
        BY <2>1, <4>2
      <4> QED
        BY <1>1, <1>3, <1>4, <2>4, <4>1, <4>3 DEF Promise!Enter
    <3> QED
      BY <1>7, <3>1 DEF PromiseNext, Promise!Next
  <2> QED
    BY <1>5, <2>2, <2>3, <2>4
<1> QED
  BY <1>6, <1>7

\* A cancellation and an expiry pass over who signed.
LEMMA PromiseClose ==
  ASSUME OneAtATime, OrderInv, NEW s \in Slots, Commit(s), op[s].kind \in {"canceled", "expire"}
  PROVE  Promise!LeaveOut(Touched(op[s]) \cap Signers)
<1> DEFINE o == op[s]
           S == Touched(o) \cap Signers
<1>1. /\ \A r \in Touched(o) : rows'[r] = Written(o, r)
      /\ \A r \in Recipients \ Touched(o) : rows'[r] = rows[r]
      /\ \A r \in Recipients : rows[r] \in RecipientStatus
      /\ Signers \subseteq Recipients
  BY RowsWritten DEF OrderInv, Signers
<1>2. request'.output = request.output
  BY CommitOutput
<1>3. \A r \in Touched(o) : rows[r] # "acted" /\ Standing(Written(o, r)) = "out"
  BY DEF Touched, Written, Standing
<1>4. \A r \in S : Standing(rows[r]) # "signed"
  BY <1>3 DEF Standing
<1>5. Promise!Become(S, "out")
  <2>1. \A r \in S : Standing(rows'[r]) = "out"
    BY <1>1, <1>3
  <2>2. \A r \in Signers \ S : Standing(rows'[r]) = Standing(rows[r])
    BY <1>1
  <2> HIDE DEF S
  <2>3. S \in SUBSET Signers
    BY DEF S
  <2> QED
    BY <2>1, <2>2, <2>3, PromiseBecome
<1>6. \A r \in S : r \in Signers
  OBVIOUS
<1> HIDE DEF S
<1>7. Promise!LeaveOut(S)
  BY <1>2, <1>4, <1>5, <1>6 DEF Promise!LeaveOut
<1> QED
  BY <1>7 DEF S

LEMMA PromiseFile ==
  ASSUME OneAtATime, OrderInv, NEW s \in Slots, Commit(s), op[s].kind = "completed"
  PROVE  Promise!File
<1>1. /\ op[s].pc = "commit" /\ UpToDate(op[s])
      /\ \A r \in Recipients \ Touched(op[s]) : rows'[r] = rows[r]
      /\ Signers \subseteq Recipients
  BY RowsWritten, OrderFacts DEF OrderInv, Signers
<1>2. \A r \in Signers : Standing(rows[r]) = "signed"
  BY <1>1 DEF UpToDate, AllActed, Standing
<1>3. \A r \in Signers : rows'[r] = rows[r]
  BY <1>1 DEF Touched
<1> QED
  BY <1>2, <1>3, CommitOutput DEF Promise!File

LEMMA PromiseEdit ==
  ASSUME OneAtATime, OrderInv, NEW s \in Slots, Commit(s), op[s].kind = "edit"
  PROVE  Promise!StartOver
<1>1. /\ \A r \in Touched(op[s]) : rows'[r] = Written(op[s], r)
      /\ Signers \subseteq Recipients
  BY RowsWritten DEF OrderInv, Signers
<1>2. \A r \in Signers : Standing(rows'[r]) = "waiting"
  BY <1>1 DEF Touched, Written, Standing
<1>3. Promise!Become(Signers, "waiting")
  BY <1>2, PromiseBecome
<1> QED
  BY <1>3, CommitOutput DEF Promise!StartOver

\* Every step maps to a step of SigningPromise or to a stutter.
LEMMA PromiseStep ==
  ASSUME OneAtATime, OrderInv, [Next]_vars
  PROVE  PromiseNext
<1>1. CASE \E s \in Slots : Commit(s)
  <2>1. PICK s \in Slots : Commit(s)
    BY <1>1
  <2>2. op[s].kind \in Actions
    BY <2>1, RowsWritten DEF OrderInv
  <2>3. CASE op[s].kind \in Sending
    <3>1. Active(rows) \in SUBSET Signers
      BY DEF Active, Open
    <3> QED
      BY <2>1, <2>3, <3>1, PromiseSend DEF PromiseNext, Promise!Next
  <2>4. CASE op[s].kind = "viewed"
    <3>1. {op[s].who} \in SUBSET Signers
      BY <2>1, <2>4, ViewedTarget DEF OrderInv, Commit
    <3> QED
      BY <2>1, <2>4, <3>1, PromiseVisit DEF PromiseNext, Promise!Next
  <2>5. CASE op[s].kind \in {"signed", "declined"}
    BY <2>1, <2>5, PromiseResult
  <2>6. CASE op[s].kind \in {"canceled", "expire"}
    BY <2>1, <2>6, PromiseClose DEF PromiseNext, Promise!Next
  <2>7. CASE op[s].kind = "completed"
    BY <2>1, <2>7, PromiseFile DEF PromiseNext, Promise!Next
  <2>8. CASE op[s].kind = "edit"
    BY <2>1, <2>8, PromiseEdit DEF PromiseNext, Promise!Next
  <2> QED
    BY <2>2, <2>3, <2>4, <2>5, <2>6, <2>7, <2>8 DEF Actions, Sending
<1>2. CASE ~\E s \in Slots : Commit(s)
  <2>1. \A s \in Slots : Arrive(s) \/ Office(s) \/ Crash(s) => UNCHANGED store
    BY DEF Arrive, Office, Crash
  <2>2. \A s \in Slots : Handle(s) => UNCHANGED store
    BY <1>2 DEF Handle, Load, Reload, Check, Route, Mail, Finish, Begin, Write
  <2>3. UNCHANGED store
    BY <2>1, <2>2 DEF Next, Tick, vars, store
  <2>4. rows' = rows /\ request' = request
    BY <2>3 DEF store
  <2> QED
    BY <2>4, PromiseStutter DEF PromiseNext
<1> QED
  BY <1>1, <1>2

LEMMA PromiseInit == Init => Promise!Init
BY DEF Init, NewRows, NewRequest, Promise!Init, Standing, Signers

(* Served one at a time and without "viewed" being set by hand, the code      *)
(* implements SigningPromise, for any recipients and routing and through any  *)
(* crashes: at the step at which somebody is asked or signs it is their turn, *)
(* who signed stays signed and the document filed until the recipients are    *)
(* saved again (updateSignatureRequest with its callers).                     *)
THEOREM SerialPromise == ASSUME OneAtATime, NoManualView PROVE Spec => SignedInOrder
<1>1. OrderInv /\ [Next]_vars => OrderInv'
  BY OrderStep
<1>2. OrderInv /\ [Next]_vars =>
        [Promise!Next]_<<[r \in Signers |-> Standing(rows[r])], request.output>>
  BY PromiseStep DEF PromiseNext
<1> QED
  BY <1>1, <1>2, OrderInit, PromiseInit, PTL DEF Spec, SignedInOrder, Promise!Spec
=============================================================================
