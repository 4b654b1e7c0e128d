--------------------------- MODULE ProjectSession ---------------------------
(***************************************************************************)
(* A signing session of a project: a packet of documents that recipients   *)
(* sign in routing order, from links mailed to them or one after the other *)
(* on the agent's iPad. A submission marks the recipient, then goes        *)
(* through the documents: marks its part, counts the parts that are left,  *)
(* and with the last one completes the document and queues the job that    *)
(* finalizes it (ProjectFinalization). Nothing of it is in a transaction:  *)
(* every statement is a step, between which other requests run.            *)
(* Recipients who only get a copy are left out: routing and counting skip  *)
(* them. So are those without a field to fill, whose submissions are all   *)
(* refused.                                                                *)
(***************************************************************************)
EXTENDS Naturals, Sequences

CONSTANTS Signers,      \* recipients of the session
          Step,         \* the routing step of each
          Docs,         \* documents of the packet
          Of,           \* the session recipient behind each part of a document
          Slots,        \* requests the server works on at a time
          MaxSends,     \* bound: times the links are sent
          MaxHandoffs,  \* bound: times the iPad is handed over
          MaxSubmits,   \* bound: submissions
          MaxCrashes    \* bound: requests that die at work

ASSUME SessionAssumption ==
  /\ Step \in [Signers -> Nat]
  /\ Of \in [Docs -> Seq(Signers) \ {<<>>}]
  /\ MaxSends \in Nat /\ MaxHandoffs \in Nat /\ MaxSubmits \in Nat /\ MaxCrashes \in Nat

VARIABLES recipient,  \* ProjectSigningSessionRecipient
          signed,     \* the parts <<d, i>> of documents that are acted
          doc,        \* ProjectSigningSessionDocument, its request and its job
          session,    \* status of the session, and whether its iPad link works
          slot,       \* what each request is at
          count       \* sends, handovers and crashes so far

vars == <<recipient, signed, doc, session, slot, count>>

Idle == [at |-> "idle", who |-> {}, todo |-> {}, doc |-> {}, left |-> FALSE]

\* createProjectSigningSession
Init ==
  /\ recipient = [r \in Signers |-> [status |-> "draft", link |-> FALSE, actedAt |-> FALSE]]
  /\ signed = {}
  /\ doc = [d \in Docs |-> [status |-> "draft", request |-> "draft", job |-> "none"]]
  /\ session = [status |-> "draft", handoff |-> FALSE, completedAt |-> FALSE]
  /\ slot = [s \in Slots |-> Idle]
  /\ count = [sends |-> 0, handoffs |-> 0, submits |-> 0, crashes |-> 0]

Goto(s, at) == slot' = [slot EXCEPT ![s].at = at]
Return(s) == slot' = [slot EXCEPT ![s] = Idle]
Is(s, at, r) == slot[s].at = at /\ slot[s].who = {r}

Terminal_Signed(status) == status \in {"signed", "completed"}
Terminal(status) == status = "completed"

-----------------------------------------------------------------------------
(* The agent: links and the iPad.                                          *)

\* issueProjectRemoteSigningTokens: refused once there are signatures.
Progress ==
  \/ session.completedAt \/ Terminal(session.status)
  \/ \E r \in Signers : recipient[r].status = "acted"
  \/ \E d \in Docs : doc[d].status \in {"signed", "completed"}

SendLinks(s) ==
  /\ slot[s].at = "idle" /\ count.sends < MaxSends
  /\ ~Progress
  /\ count' = [count EXCEPT !.sends = count.sends + 1]
  /\ slot' = [slot EXCEPT ![s] = [Idle EXCEPT !.at = "link", !.todo = Signers]]
  /\ UNCHANGED <<recipient, signed, doc, session>>

\* Recipient after recipient, by routing step: the old link stops working.
Link(s, r) ==
  /\ slot[s].at = "link" /\ r \in slot[s].todo
  /\ \A q \in slot[s].todo : Step[r] <= Step[q]
  /\ recipient' = [recipient EXCEPT ![r].status = "sent", ![r].link = TRUE]
  /\ slot' = [slot EXCEPT ![s].todo = slot[s].todo \ {r}]
  /\ UNCHANGED <<signed, doc, session, count>>

Sent(s) ==
  /\ slot[s].at = "link" /\ slot[s].todo = {}
  /\ session' = [session EXCEPT !.status = "awaiting_signers"]
  /\ Return(s)
  /\ UNCHANGED <<recipient, signed, doc, count>>

\* startProjectSigningHandoff asks nothing of the session's status.
StartHandoff ==
  /\ count.handoffs < MaxHandoffs
  /\ count' = [count EXCEPT !.handoffs = count.handoffs + 1]
  /\ session' = [session EXCEPT !.status = "awaiting_signers", !.handoff = TRUE]
  /\ UNCHANGED <<recipient, signed, doc, slot>>

\* exitProjectSigningHandoff, after its route looked the link up.
AskExit(s) ==
  /\ slot[s].at = "idle" /\ session.handoff
  /\ slot' = [slot EXCEPT ![s] = [Idle EXCEPT !.at = "exit"]]
  /\ UNCHANGED <<recipient, signed, doc, session, count>>

Exit(s) ==
  /\ slot[s].at = "exit"
  /\ session' = [session EXCEPT !.handoff = FALSE]
  /\ Return(s)
  /\ UNCHANGED <<recipient, signed, doc, count>>

-----------------------------------------------------------------------------
(* A recipient signs.                                                      *)

Pending == {r \in Signers : recipient[r].status # "acted"}

\* Is the routing step of r the one whose turn it is?
Active_Pending(r) == r \in Pending
Active(r) ==
  \/ Pending = {}
  \/ /\ \E q \in Pending : Step[q] = Step[r]
     /\ \A q \in Pending : Step[r] <= Step[q]

CountSubmit ==
  /\ count.submits < MaxSubmits
  /\ count' = [count EXCEPT !.submits = count.submits + 1]

\* markProjectSignatureSubmitted: the link, the turn and the mark are three
\* statements, and a recipient who acted is told so and nothing more.
Submit(s, r) ==
  /\ slot[s].at = "idle"
  /\ recipient[r].link /\ recipient[r].status # "acted"
  /\ slot' = [slot EXCEPT ![s] = [Idle EXCEPT !.at = "turn", !.who = {r}]]
  /\ CountSubmit
  /\ UNCHANGED <<recipient, signed, doc, session>>

Turn(s, r) ==
  /\ Is(s, "turn", r)
  /\ IF Active(r) THEN Goto(s, "act") ELSE Return(s)
  /\ UNCHANGED <<recipient, signed, doc, session, count>>

\* markProjectHandoffRecipientSubmitted reads link and turn at once, and
\* takes a recipient who acted before if it is the turn of its step.
SubmitHandoff(s, r) ==
  /\ slot[s].at = "idle" /\ session.handoff
  /\ Active(r)
  /\ slot' = [slot EXCEPT ![s] = [Idle EXCEPT !.at = "act", !.who = {r}]]
  /\ CountSubmit
  /\ UNCHANGED <<recipient, signed, doc, session>>

Act(s, r) ==
  /\ Is(s, "act", r)
  /\ recipient' = [recipient EXCEPT ![r].status = "acted", ![r].actedAt = TRUE]
  /\ Goto(s, "read")
  /\ UNCHANGED <<signed, doc, session, count>>

PartsOf(r, d) == {i \in DOMAIN Of[d] : Of[d][i] = r}
Parts(d) == {<<d, i>> : i \in DOMAIN Of[d]}

Read(s, r) ==
  /\ Is(s, "read", r)
  /\ slot' = [slot EXCEPT ![s] = [slot[s] EXCEPT !.at = "next",
       !.todo = {d \in Docs : ~Terminal(doc[d].status) /\ PartsOf(r, d) # {}}]]
  /\ UNCHANGED <<recipient, signed, doc, session, count>>

\* One part is marked, whichever of the recipient's comes first in an
\* unordered list.
Mark(s, r, d, i) ==
  /\ Is(s, "next", r) /\ d \in slot[s].todo /\ i \in PartsOf(r, d)
  /\ signed' = signed \cup {<<d, i>>}
  /\ slot' = [slot EXCEPT ![s] =
       [slot[s] EXCEPT !.at = "count", !.doc = {d}, !.todo = slot[s].todo \ {d}]]
  /\ UNCHANGED <<recipient, doc, session, count>>

At(s, at, d) == slot[s].at = at /\ slot[s].doc = {d}

Left_Session(d) == \E c \in Docs : ~(Parts(c) \subseteq signed)
Left_FirstStep(d) ==
  \E p \in Parts(d) \ signed : \A q \in Signers : Step[Of[d][p[2]]] <= Step[q]
Left(d) == ~(Parts(d) \subseteq signed)

Count(s, d) ==
  /\ At(s, "count", d)
  /\ slot' = [slot EXCEPT ![s] = [slot[s] EXCEPT !.at = "request", !.left = Left(d)]]
  /\ UNCHANGED <<recipient, signed, doc, session, count>>

Outcome(s) == IF slot[s].left THEN "signed" ELSE "completed"

MarkRequest(s, d) ==
  /\ At(s, "request", d)
  /\ doc' = [doc EXCEPT ![d].request = Outcome(s)]
  /\ Goto(s, "document")
  /\ UNCHANGED <<recipient, signed, session, count>>

AfterDocument(s) == IF slot[s].left THEN "next" ELSE "enqueue"

MarkDocument(s, d) ==
  /\ At(s, "document", d)
  /\ doc' = [doc EXCEPT ![d].status = Outcome(s)]
  /\ Goto(s, AfterDocument(s))
  /\ UNCHANGED <<recipient, signed, session, count>>

Enqueue(s, d) ==
  /\ At(s, "enqueue", d)
  /\ doc' = [doc EXCEPT ![d].job = IF doc[d].job = "none" THEN "queued" ELSE doc[d].job]
  /\ Goto(s, "next")
  /\ UNCHANGED <<recipient, signed, session, count>>

Answer(s) ==
  /\ slot[s].at = "next" /\ slot[s].todo = {}
  /\ Return(s)
  /\ UNCHANGED <<recipient, signed, doc, session, count>>

-----------------------------------------------------------------------------

(* What the finalize job does to the session (all of it: ProjectFinalization). *)

\* markProjectSessionDocumentCompleted
Record(d) ==
  /\ doc[d].job = "queued"
  /\ doc' = [doc EXCEPT ![d].status = "completed", ![d].job = "recorded"]
  /\ UNCHANGED <<recipient, signed, session, slot, count>>

\* completeProjectSigningSessionIfReady
Close(d) ==
  /\ doc[d].job = "recorded"
  /\ doc' = [doc EXCEPT ![d].job = "succeeded"]
  /\ session' =
       IF \E c \in Docs : doc[c].status # "completed"
         THEN [session EXCEPT !.status = IF session.status = "awaiting_signers"
                                           THEN "partially_signed" ELSE session.status]
         ELSE [session EXCEPT !.status = "completed",
                              !.completedAt = session.completedAt \/ ~Terminal(session.status)]
  /\ UNCHANGED <<recipient, signed, slot, count>>

Crash(s) ==
  /\ slot[s].at # "idle" /\ count.crashes < MaxCrashes
  /\ count' = [count EXCEPT !.crashes = count.crashes + 1]
  /\ Return(s)
  /\ UNCHANGED <<recipient, signed, doc, session>>

Arrive(s) ==
  \/ SendLinks(s) \/ AskExit(s)
  \/ \E r \in Signers : Submit(s, r) \/ SubmitHandoff(s, r)

Handle(s) ==
  \/ Sent(s) \/ Exit(s) \/ Answer(s)
  \/ \E r \in Signers : Link(s, r) \/ Turn(s, r) \/ Act(s, r) \/ Read(s, r)
  \/ \E r \in Signers, d \in Docs : \E i \in PartsOf(r, d) : Mark(s, r, d, i)
  \/ \E d \in Docs : Count(s, d) \/ MarkRequest(s, d) \/ MarkDocument(s, d) \/ Enqueue(s, d)

Next ==
  \/ StartHandoff
  \/ \E s \in Slots : Arrive(s) \/ Handle(s) \/ Crash(s)
  \/ \E d \in Docs : Record(d) \/ Close(d)

Spec == Init /\ [][Next]_vars

\* The server goes on with every request it took.
FairSpec == Spec /\ \A s \in Slots : WF_vars(Handle(s))

-----------------------------------------------------------------------------
(* Properties.                                                             *)

Recipient == [status : {"draft", "sent", "acted"}, link : BOOLEAN, actedAt : BOOLEAN]

Document == [status : {"draft", "signed", "completed"},
             request : {"draft", "signed", "completed"},
             job : {"none", "queued", "recorded", "succeeded"}]

Session == [status : {"draft", "awaiting_signers", "partially_signed", "completed"},
            handoff : BOOLEAN, completedAt : BOOLEAN]

Request == [at : {"idle", "link", "exit", "turn", "act", "read", "next", "count",
                  "request", "document", "enqueue"},
            who : SUBSET Signers, todo : SUBSET (Signers \cup Docs),
            doc : SUBSET Docs, left : BOOLEAN]

Counts == [sends : Nat, handoffs : Nat, submits : Nat, crashes : Nat]

TypeOK ==
  /\ recipient \in [Signers -> Recipient]
  /\ signed \subseteq UNION {Parts(d) : d \in Docs}
  /\ doc \in [Docs -> Document]
  /\ session \in Session
  /\ slot \in [Slots -> Request]
  /\ count \in Counts

\* A document goes to be finalized only when every part of it is signed,
\* whatever requests overlap or die.
FinalizedOnlySigned == \A d \in Docs : doc[d].job # "none" => Parts(d) \subseteq signed

\* Nobody signs before everybody of the earlier routing steps did, from
\* links and on the iPad alike, however requests overlap.
InRoutingOrder ==
  \A q, r \in Signers : Step[q] < Step[r] /\ recipient[r].actedAt => recipient[q].actedAt

\* A document whose last part is signed is queued, or a request is at it that
\* will queue it, unless a request died: of the requests that overlap on a
\* document, one sees the end.
SeesEnd(s, d) ==
  ~slot[s].left /\ \E at \in {"request", "document", "enqueue"} : At(s, at, d)

OneSeesTheEnd ==
  \A d \in Docs : Parts(d) \subseteq signed /\ doc[d].job = "none" /\ count.crashes = 0 =>
    \E s \in Slots : At(s, "count", d) \/ SeesEnd(s, d)

\* When all recipients signed and no request died, every document goes to be
\* finalized: "Signed. Acre is finalizing and distributing your secure copies."
PacketFinalizes ==
  (\A r \in Signers : recipient[r].actedAt)
    ~> ((\A d \in Docs : doc[d].job # "none") \/ count.crashes > 0)
=============================================================================
