-------------------------- MODULE SignatureEnvelope --------------------------
(***************************************************************************)
(* One external signature request of a transaction: the SignatureRequest   *)
(* row, its recipients, the links mailed to them, and the HTTP requests    *)
(* that work on it at the same time. updateSignatureRequest is one         *)
(* READ COMMITTED database transaction, modelled in three steps: it reads  *)
(* the request and its recipients (Begin), writes recipient rows, which    *)
(* locks them, and reads the recipients again to derive the new status     *)
(* (Write), then writes the request row and commits (Commit). What another *)
(* transaction writes before its commit is not visible.                    *)
(***************************************************************************)
EXTENDS EnvelopeRouting, FiniteSets

CONSTANTS Slots,          \* HTTP requests the servers work on at one time
          OfficeActions,  \* actions the office sends to the PATCH route
          OneVisitEach,   \* TRUE when a link is never open in two requests at once
          MaxSends,       \* bound: sends and resends the office starts
          MaxEdits,       \* bound: times the office saves the request again
          MaxArchived,    \* bound: signed PDFs archived
          Crashes,        \* TRUE when a request may die between two steps
          Deadline        \* TRUE when the request has an expiresAt

ASSUME EnvelopeAssumption ==
  /\ OfficeActions \subseteq {"send", "resend", "viewed", "signed", "declined",
                              "canceled", "expire", "edit"}
  /\ MaxSends \in Nat /\ MaxEdits \in Nat /\ MaxArchived \in Nat
  /\ {OneVisitEach, Crashes, Deadline} \subseteq BOOLEAN

VARIABLES request,   \* the SignatureRequest row
          rows,      \* status of every SignatureRecipient row
          link,      \* number of the token whose hash the row stores, 0 if none
          edition,   \* how often the recipient rows were replaced
          form,      \* status of the linked TransactionForm
          past,      \* expiresAt has passed
          sends,     \* sends and resends the office started
          issued,    \* tokens generated so far
          mailed,    \* tokens whose link reached a mailbox
          archived,  \* signed PDFs created as transaction documents
          op         \* the HTTP request each slot is working on

vars == <<request, rows, link, edition, form, past, sends, issued, mailed, archived, op>>

\* What the database holds, and what the outside world has received.
store == <<request, rows, link, edition, form>>
sent  == <<issued, mailed>>

Actions == {"send", "resend", "advance", "viewed", "signed", "completed",
            "declined", "canceled", "expire", "edit"}

\* The status as of now: an unfinished request past its date shows as expired.
Resolve(req) ==
  IF /\ past /\ ~req.expired
     /\ req.status \notin {"completed", "voided", "declined", "expired"}
    THEN "expired" ELSE req.status

\* What one read of the request returns.
Read == [request |-> request, shown |-> Resolve(request), rows |-> rows,
         edition |-> edition]

NoGrant == [r \in Recipients |-> 0]

NewRequest == [status |-> "draft", expired |-> FALSE, output |-> FALSE]
NewRows == [r \in Recipients |-> "draft"]
NoRead  == [request |-> NewRequest, shown |-> "draft", rows |-> NewRows, edition |-> 0]
NoWrite == [touched |-> {}, rows |-> NewRows, status |-> "draft"]

Idle == [pc |-> "idle", stage |-> "none", kind |-> "none", token |-> 0, who |-> 0,
         edition |-> 0, grant |-> NoGrant, seen |-> NoRead, write |-> NoWrite]

Owner(token) == {r \in Recipients : token # 0 /\ link[r] = token}

Init ==
  /\ request = NewRequest
  /\ rows = NewRows
  /\ link = NoGrant
  /\ edition = 0
  /\ form = "prepared"
  /\ past = FALSE
  /\ sends = 0
  /\ issued = 0
  /\ mailed = {}
  /\ archived = 0
  /\ op = [s \in Slots |-> Idle]

Continue(s, o) == op' = [op EXCEPT ![s] = o]
End(s) == Continue(s, Idle)

-----------------------------------------------------------------------------
(* Requests that arrive.                                                   *)

\* A recipient opens the page of a mailed link, or submits its form.
Arrive(s) ==
  /\ op[s].pc = "idle"
  /\ \E t \in mailed, stage \in {"open", "check"} :
       /\ OneVisitEach => \A q \in Slots : op[q].token # t
       /\ Continue(s, [Idle EXCEPT !.pc = "load", !.stage = stage, !.token = t])
  /\ UNCHANGED <<store, past, sends, sent, archived>>

\* The office sends an action of the PATCH route. A send reads the request
\* first, to know whom to mail; the others go straight to the transaction.
Office(s) ==
  /\ op[s].pc = "idle"
  /\ \E a \in OfficeActions :
       /\ a = "edit" => edition < MaxEdits
       /\ a \in {"send", "resend"} => sends < MaxSends
       /\ sends' = IF a \in {"send", "resend"} THEN sends + 1 ELSE sends
       /\ Continue(s, IF a \in {"send", "resend"}
                         THEN [Idle EXCEPT !.pc = "mail", !.kind = a, !.seen = Read]
                         ELSE [Idle EXCEPT !.pc = "begin", !.kind = a])
  /\ UNCHANGED <<store, past, sent, archived>>

-----------------------------------------------------------------------------
(* getPublicSignatureRequestSnapshot: look the token up, let the visit     *)
(* expire the request or mark it viewed, and read it again if it did.      *)

Visit(s, r) ==
  IF Resolve(request) = "expired" /\ request.status # "expired" THEN "expire"
  ELSE IF request.status = "sent" \/ rows[r] = "sent" THEN "viewed"
  ELSE "none"

Loaded(s, r) ==
  IF op[s].stage = "open" THEN Idle
  ELSE [op[s] EXCEPT !.pc = op[s].stage, !.kind = "none", !.who = r,
                     !.edition = edition, !.seen = Read]

Load(s) ==
  /\ op[s].pc = "load"
  /\ \/ Owner(op[s].token) = {} /\ End(s)
     \/ \E r \in Owner(op[s].token) :
          Continue(s, IF Visit(s, r) = "none" THEN Loaded(s, r)
                      ELSE [op[s] EXCEPT !.pc = "begin", !.kind = Visit(s, r),
                                         !.who = r, !.edition = edition])
  /\ UNCHANGED <<store, past, sends, sent, archived>>

Reload(s) ==
  /\ op[s].pc = "reload"
  /\ \/ Owner(op[s].token) = {} /\ End(s)
     \/ \E r \in Owner(op[s].token) : Continue(s, Loaded(s, r))
  /\ UNCHANGED <<store, past, sends, sent, archived>>

-----------------------------------------------------------------------------
(* The submit handler between its transactions.                            *)

\* It refuses a closed request, a closed link or a step that is not active.
Check(s) ==
  /\ op[s].pc = "check"
  /\ LET seen == op[s].seen
         mine == seen.rows[op[s].who]
     IN \/ /\ \/ request.expired \/ past \/ Owner(op[s].token) = {}
              \/ seen.shown \in {"completed", "declined", "voided", "expired"}
              \/ mine \in RecipientTerminal \cup {"draft", "pending"}
           /\ End(s)
        \/ /\ ~request.expired /\ ~past
           /\ seen.shown \notin {"completed", "declined", "voided", "expired"}
           /\ mine \notin RecipientTerminal \cup {"draft", "pending"}
           /\ \E r \in Owner(op[s].token) :
                Continue(s, [op[s] EXCEPT !.pc = "begin", !.kind = "signed", !.who = r,
                                          !.edition = edition, !.seen = NoRead])
  /\ UNCHANGED <<store, past, sends, sent, archived>>

\* After signing: invite the next step when nobody of it was invited yet.
Route(s) ==
  /\ op[s].pc = "route"
  /\ LET next == Active(op[s].seen.rows)
     IN Continue(s,
          IF next # {} /\ \A r \in next : op[s].seen.rows[r] \in {"pending", "draft"}
            THEN [op[s] EXCEPT !.pc = "mail", !.kind = "advance"]
            ELSE [op[s] EXCEPT !.pc = "finish"])
  /\ UNCHANGED <<store, past, sends, sent, archived>>

\* One mail per invited recipient, in sort order, until one of them fails.
Mail(s) ==
  /\ op[s].pc = "mail"
  /\ LET to    == Active(op[s].seen.rows)
         token == [r \in Recipients |->
                     IF r \in to THEN issued + Cardinality({q \in to : q <= r}) ELSE 0]
     IN /\ issued' = issued + Cardinality(to)
        /\ \/ /\ mailed' = mailed \cup {token[r] : r \in to}
              /\ Continue(s, [op[s] EXCEPT !.pc = "begin", !.grant = token, !.seen = NoRead])
           \/ /\ Crashes
              /\ \E failed \in to :
                   mailed' = mailed \cup {token[r] : r \in {q \in to : q < failed}}
              /\ End(s)
  /\ UNCHANGED <<store, past, sends, archived>>

\* The handler judges by the recipients it read, not by the request's status.
Done_AnySigned(seen) == \E r \in Signers : seen.rows[r] = "acted"
Done_ByStatus(seen) == seen.shown = "completed"
Done(seen) == AllActed(seen.rows)

\* All signed: build the PDF and archive it. Otherwise the request is done.
Finish(s) ==
  /\ op[s].pc = "finish"
  /\ \/ /\ ~Done(op[s].seen)
        /\ End(s)
        /\ UNCHANGED archived
     \/ /\ Done(op[s].seen)
        /\ archived < MaxArchived
        /\ archived' = archived + 1
        /\ Continue(s, [Idle EXCEPT !.pc = "begin", !.kind = "completed"])
  /\ UNCHANGED <<store, past, sends, sent>>

-----------------------------------------------------------------------------
(* updateSignatureRequest and the saving of an existing request.           *)

Refused_AfterVoided(kind, seen) ==
  \/ seen.shown = "completed" /\ kind \notin {"completed", "edit"}
  \/ kind = "resend" /\ seen.shown \notin {"draft", "sent", "viewed", "expired", "voided"}

Refused(kind, seen) ==
  \/ seen.shown = "completed" /\ kind \notin {"completed", "edit"}
  \/ seen.shown = "voided" /\ kind \notin {"resend", "advance", "edit"}
  \/ kind = "resend" /\ seen.shown \notin {"draft", "sent", "viewed", "expired", "voided"}

NotEnoughTokens(o, seen) ==
  /\ o.kind \in {"send", "resend", "advance"}
  /\ LET granted == {r \in Recipients : o.grant[r] # 0}
     IN \/ Active(seen.rows) = {}
        \/ Cardinality(granted) < Cardinality(Active(seen.rows))

\* The transaction's first read, and every reason to refuse the action.
Begin(s) ==
  /\ op[s].pc = "begin"
  /\ IF Refused(op[s].kind, Read) \/ NotEnoughTokens(op[s], Read)
       THEN End(s)
       ELSE Continue(s, [op[s] EXCEPT !.pc = "write", !.seen = Read])
  /\ UNCHANGED <<store, past, sends, sent, archived>>

\* The recipient an action is about: the one named, when it still exists;
\* else the first whose turn it is; else the first.
Target(o) ==
  IF o.who # 0 /\ o.edition = o.seen.edition THEN o.who
  ELSE IF Active(o.seen.rows) # {} THEN First(Active(o.seen.rows))
  ELSE First(Recipients)

\* Slip: a cancellation also takes the rows that have signed.
Touched_CancelAll(o) ==
  CASE o.kind \in {"send", "resend", "advance"} ->
         CC \cup {r \in Recipients : o.seen.rows[r] \notin RecipientTerminal}
    [] o.kind \in {"viewed", "signed", "declined"} -> {Target(o)}
    [] o.kind \in {"canceled", "expire", "edit"} -> Recipients
    [] o.kind = "completed" -> {}

\* Slip: a send also takes those back in who declined.
Touched_AllUnsigned(o) ==
  CASE o.kind \in {"send", "resend", "advance"} ->
         CC \cup {r \in Recipients : o.seen.rows[r] # "acted"}
    [] o.kind \in {"viewed", "signed", "declined"} -> {Target(o)}
    [] o.kind = "canceled" -> {r \in Recipients : rows[r] \notin {"acted", "declined"}}
    [] o.kind = "expire" -> {r \in Recipients : rows[r] \notin {"acted", "declined", "voided"}}
    [] o.kind = "edit" -> Recipients
    [] o.kind = "completed" -> {}

\* The recipient rows a transaction writes, and what it writes in them.
Touched(o) ==
  CASE o.kind \in {"send", "resend", "advance"} ->
         CC \cup {r \in Recipients : o.seen.rows[r] \notin RecipientTerminal}
    [] o.kind \in {"viewed", "signed", "declined"} -> {Target(o)}
    [] o.kind = "canceled" -> {r \in Recipients : rows[r] \notin {"acted", "declined"}}
    [] o.kind = "expire" -> {r \in Recipients : rows[r] \notin {"acted", "declined", "voided"}}
    [] o.kind = "edit" -> Recipients
    [] o.kind = "completed" -> {}

Written(o, r) ==
  CASE o.kind \in {"send", "resend", "advance"} ->
         IF r \in CC \cup Active(o.seen.rows) THEN "sent" ELSE "pending"
    [] o.kind = "viewed"   -> "viewed"
    [] o.kind = "signed"   -> "acted"
    [] o.kind = "declined" -> "declined"
    [] o.kind = "canceled" -> "voided"
    [] o.kind = "expire"   -> "expired"
    [] o.kind = "edit"     -> "draft"

\* Slip: the status is derived from the first read.
NextStatus_FirstRead(o, after) ==
  IF o.kind \in {"viewed", "signed", "declined"}
    THEN Derive(o.seen.shown, o.seen.rows) ELSE Derive("sent", after)

\* The status the request gets, from the recipients as the transaction sees
\* them after its own writes.
NextStatus(o, after) ==
  CASE o.kind \in {"send", "resend", "advance"} -> Derive("sent", after)
    [] o.kind \in {"viewed", "signed", "declined"} -> Derive(o.seen.shown, after)
    [] o.kind = "completed" -> "completed"
    [] o.kind = "canceled"  -> "voided"
    [] o.kind = "expire"    -> "expired"
    [] o.kind = "edit" ->
         IF o.seen.request.status \in {"sent", "viewed", "signed"}
           THEN o.seen.request.status ELSE "draft"

LockedRows == UNION {op[s].write.touched : s \in {q \in Slots : op[q].pc = "commit"}}

\* Writes wait for the rows other transactions hold. A row that was replaced
\* since the first read cannot be updated by its id: the transaction fails.
Write(s) ==
  /\ op[s].pc = "write"
  /\ LET o == op[s]
         after == [r \in Recipients |-> IF r \in Touched(o) THEN Written(o, r) ELSE rows[r]]
     IN /\ Touched(o) \cap LockedRows = {}
        /\ IF o.seen.edition # edition /\ o.kind \notin {"canceled", "expire", "completed", "edit"}
             THEN End(s)
             ELSE Continue(s, [o EXCEPT !.pc = "commit",
                                        !.write = [touched |-> Touched(o), rows |-> after,
                                                   status |-> NextStatus(o, after)]])
  /\ UNCHANGED <<store, past, sends, sent, archived>>

\* The request's columns after the update. An edit writes back what it read.
Updated(o) ==
  CASE o.kind \in {"send", "resend"} ->
         [status |-> o.write.status, expired |-> FALSE, output |-> FALSE]
    [] o.kind = "completed" -> [request EXCEPT !.status = o.write.status, !.output = TRUE]
    [] o.kind = "expire"    -> [request EXCEPT !.status = o.write.status, !.expired = TRUE]
    [] o.kind = "edit" ->
         [status |-> o.write.status, expired |-> o.seen.request.expired, output |-> FALSE]
    [] OTHER -> [request EXCEPT !.status = o.write.status]

\* Where the handler goes on after a transaction.
After(o) ==
  CASE o.kind = "signed" /\ o.token # 0 ->
         [o EXCEPT !.pc = "load", !.stage = "route", !.kind = "none", !.seen = NoRead, !.write = NoWrite]
    [] o.kind = "advance" ->
         [o EXCEPT !.pc = "load", !.stage = "finish", !.kind = "none", !.seen = NoRead, !.write = NoWrite,
                   !.grant = NoGrant]
    [] o.kind \in {"viewed", "expire"} /\ o.token # 0 ->
         [o EXCEPT !.pc = "reload", !.kind = "none", !.seen = NoRead, !.write = NoWrite]
    [] OTHER -> Idle

\* A send stores the hash of the token it mailed to whoever is active.
NewLink_OnlyOffice(o, r) ==
  IF o.kind \in {"send", "resend"} /\ r \in Active(o.seen.rows) THEN o.grant[r] ELSE link[r]
NewLink(o, r) ==
  IF o.kind = "edit" THEN 0
  ELSE IF o.grant[r] # 0 /\ r \in Active(o.seen.rows) THEN o.grant[r]
  ELSE link[r]

Commit(s) ==
  /\ op[s].pc = "commit"
  /\ LET o == op[s]
         replaced == o.kind = "edit"
     IN /\ request' = Updated(o)
        /\ rows' = [r \in Recipients |->
                      IF r \in o.write.touched THEN o.write.rows[r] ELSE rows[r]]
        /\ link' = [r \in Recipients |-> NewLink(o, r)]
        /\ edition' = IF replaced THEN edition + 1 ELSE edition
        /\ past' \in IF replaced THEN {past, FALSE} ELSE {past}
        /\ form' = IF replaced THEN form ELSE SyncForm(form, Resolve(Updated(o)))
        /\ Continue(s, After(o))
  /\ UNCHANGED <<sends, sent, archived>>

-----------------------------------------------------------------------------
\* The process dies, or the database aborts the transaction.
Crash(s) ==
  /\ Crashes
  /\ op[s].pc # "idle"
  /\ End(s)
  /\ UNCHANGED <<store, past, sends, sent, archived>>

Tick ==
  /\ Deadline
  /\ past' = TRUE
  /\ UNCHANGED <<store, sends, sent, archived, op>>

Handle(s) ==
  \/ Load(s) \/ Reload(s) \/ Check(s) \/ Route(s) \/ Mail(s) \/ Finish(s)
  \/ Begin(s) \/ Write(s) \/ Commit(s)

Next ==
  \/ \E s \in Slots : Arrive(s) \/ Office(s) \/ Handle(s) \/ Crash(s)
  \/ Tick

Spec == Init /\ [][Next]_vars

\* A server goes on with every request it has accepted.
FairSpec == Spec /\ \A s \in Slots : WF_vars(Handle(s))

-----------------------------------------------------------------------------
(* What must hold.                                                         *)

Request == [status : RequestStatus, expired : BOOLEAN, output : BOOLEAN]
ReadOf  == [request : Request, shown : RequestStatus,
            rows : [Recipients -> RecipientStatus], edition : Nat]
WriteOf == [touched : SUBSET Recipients, rows : [Recipients -> RecipientStatus],
            status : RequestStatus]

Operation ==
  [pc      : {"idle", "load", "reload", "check", "route", "mail", "finish",
              "begin", "write", "commit"},
   stage   : {"none", "open", "check", "route", "finish"},
   kind    : Actions \cup {"none"},
   token   : Nat,
   who     : Recipients \cup {0},
   edition : Nat,
   grant   : [Recipients -> Nat],
   seen    : ReadOf,
   write   : WriteOf]

\* Every variable has the shape the code gives it.
TypeOK ==
  /\ request \in Request
  /\ rows \in [Recipients -> RecipientStatus]
  /\ link \in [Recipients -> Nat]
  /\ edition \in Nat /\ sends \in Nat /\ issued \in Nat /\ archived \in Nat
  /\ form \in FormStatus
  /\ past \in BOOLEAN
  /\ mailed \subseteq Nat
  /\ op \in [Slots -> Operation]

\* Unless it was voided or expired as a whole, a request shows exactly the
\* status its recipients add up to, as deriveEnvelopeStatusFromRecipients
\* defines it; saving it again (edition > 0) may keep an old status.
StatusFollowsRecipients ==
  edition = 0 => \/ request.status \in {"voided", "expired"}
                 \/ request.status = Derive(request.status, rows)

\* A signed output is linked to a request only while the request is completed
\* and every signer and approver has signed.
OutputMeansAllSigned ==
  request.output => request.status = "completed" /\ AllActed(rows)

\* A recipient is invited, reads or signs only when every signer of an
\* earlier routing step is through.
SigningInTurn ==
  \A r, q \in Signers :
    Step[q] < Step[r] /\ rows[r] \in {"sent", "viewed", "acted"}
      => rows[q] \in RecipientTerminal

\* A recipient who is expected to sign holds a link that opens the request.
InvitedHoldsLiveLink ==
  \A r \in Signers : rows[r] \in {"sent", "viewed"} => link[r] \in mailed

\* A signature, once committed, is never taken back by a later visit, send,
\* expiry or cancellation: only replacing the recipients removes it, or the
\* office when it marks a closed request declined.
SignatureStands ==
  [][\A r \in Recipients :
       rows[r] = "acted" /\ rows'[r] # "acted" =>
         \/ edition' # edition
         \/ \E s \in Slots : op[s].pc = "commit" /\ op[s].kind = "declined"]_vars

\* A voided or completed request is over: it comes back only by a resend or
\* by saving it again.
ClosedStaysClosed ==
  [][request.status \in {"voided", "completed"} /\ request'.status # request.status
       => \E s \in Slots : op[s].pc = "commit" /\ op[s].kind \in {"resend", "edit"}]_vars

\* What a recipient's row says of them to the outside.
Standing(status) ==
  CASE status \in {"draft", "pending"} -> "waiting"
    [] status \in {"sent", "viewed"}   -> "asked"
    [] status = "acted"                -> "signed"
    [] OTHER                           -> "out"

Promise == INSTANCE SigningPromise WITH
  standing <- [r \in Signers |-> Standing(rows[r])],
  filed <- request.output

\* Through visits, sends, resends, expiry, cancellations, declined and repeated
\* submissions and crashes, the request does what SigningPromise says: who is asked
\* or signs is in turn at that very step, and only saving the recipients again takes
\* back what was signed and filed.
SignedInOrder == Promise!Spec

\* When everybody has signed, the signed PDF is archived and linked.
SignedGetsOutput == AllActed(rows) ~> request.output
=============================================================================
