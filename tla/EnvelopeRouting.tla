--------------------------- MODULE EnvelopeRouting ---------------------------
(***************************************************************************)
(* The pure part of an external signature request: who its recipients are, *)
(* whose turn it is, and which status the request shows for them.          *)
(* Recipients are numbered by their sort order.                            *)
(***************************************************************************)
EXTENDS Naturals

CONSTANTS NumRecipients,   \* rows of SignatureRecipient of the request
          CC,              \* the recipients that only receive a copy
          Step             \* routingStep of every recipient

Recipients == 1..NumRecipients

ASSUME RoutingAssumption ==
  /\ NumRecipients \in Nat \ {0}
  /\ CC \subseteq Recipients
  /\ Step \in [Recipients -> Nat \ {0}]

Signers == Recipients \ CC

RecipientStatus ==
  {"draft", "pending", "sent", "viewed", "acted", "declined", "voided", "expired"}

RequestStatus ==
  {"draft", "pending_send", "sent", "viewed", "signed", "completed",
   "declined", "voided", "expired"}

RecipientTerminal == {"acted", "declined", "voided", "expired"}

\* The lowest sort order of a set of recipients.
First(S) == CHOOSE r \in S : \A q \in S : r <= q

Open(rows) == {r \in Signers : rows[r] \notin RecipientTerminal}

Active_AllSteps(rows) == Open(rows)

\* The open recipients of the lowest routing step that still has one.
Active(rows) == {r \in Open(rows) : \A q \in Open(rows) : Step[r] <= Step[q]}

\* The status of the request that its recipients add up to.
Derive(current, rows) ==
  LET shown == {rows[r] : r \in Signers} IN
    IF      shown = {}            THEN current
    ELSE IF "declined" \in shown  THEN "declined"
    ELSE IF shown = {"voided"}    THEN "voided"
    ELSE IF shown = {"expired"}   THEN "expired"
    ELSE IF shown = {"acted"}     THEN "completed"
    ELSE IF "acted" \in shown     THEN "signed"
    ELSE IF "viewed" \in shown    THEN "viewed"
    ELSE IF "sent" \in shown      THEN "sent"
    ELSE IF "pending" \in shown   THEN "pending_send"
    ELSE "draft"

AllActed(rows) == \A r \in Signers : rows[r] = "acted"

\* The form that a request belongs to follows the request's shown status;
\* a voided request matches no branch and leaves the form as it was.
FormStatus == {"prepared", "sent_for_signature", "partially_signed",
               "fully_signed", "rejected"}

SyncForm(form, shown) ==
  CASE shown = "declined"                      -> "rejected"
    [] shown = "completed"                     -> "fully_signed"
    [] shown = "signed"                        -> "partially_signed"
    [] shown \in {"sent", "viewed", "expired"} -> "sent_for_signature"
    [] OTHER                                   -> form
=============================================================================
