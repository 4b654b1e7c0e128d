-------------------------- MODULE TransactionTask --------------------------
(***************************************************************************)
(* One checklist task of a transaction with the documents and signature    *)
(* requests linked to it: packages/db/src/transaction-tasks.ts and         *)
(* transaction-documents.                                                  *)
(*                                                                         *)
(* The office handlers (save, complete, reopen, ask for review, approve,   *)
(* reject) read the task with its documents, decide, and write in a        *)
(* transaction that does not look again: two steps, Read* and Write.       *)
(*                                                                         *)
(* The handlers of documents, forms and signature requests are READ        *)
(* COMMITTED transactions of three steps, and any number of them are open  *)
(* at once: they read what they are about, change it and reconcile the     *)
(* task with what they see then (Change: their own change and what others  *)
(* have committed), and commit.  A changed row is locked until then.  One  *)
(* that has to wait for a row waits before it changes anything, and one    *)
(* may fail or be broken off at any point.                                 *)
(*                                                                         *)
(* The compliance status always moves with the review status and who       *)
(* submitted, rejected or completed is only displayed: both are left out.  *)
(***************************************************************************)
CONSTANTS
  People,      \* members who may review tasks and approve documents
  Secondary,   \* those of them who may give secondary approvals
  Nobody,
  Docs,        \* documents of the transaction
  FormDocs,    \* those generated with a form
  Requests,    \* signature requests
  Levels,      \* the requirements staff set on the task
  TaskEdits,   \* the statuses they save
  DocEdits,    \* the statuses they set on a document
  SigSteps,    \* the statuses a signature request goes to
  Slots,       \* office requests served at the same time
  Txs          \* transactions of documents, forms and requests open at once

Status   == {"todo", "in_progress", "review_requested", "completed", "reopened"}
Review   == {"not_required", "pending", "review_requested", "second_review",
             "approved", "rejected"}
\* the flags after normalizeTaskFlags: each one implies the ones before it
Level    == {"none", "document", "approval", "second"}
DocStatus == {"uploaded", "submitted", "approved", "rejected", "signed"}
\* pending_send and viewed count as draft and sent, canceled as voided
SigStatus == {"draft", "sent", "signed", "completed", "declined", "voided", "expired"}

ASSUME TaskAssumption ==
  /\ Nobody \notin People
  /\ Secondary \subseteq People
  /\ FormDocs \subseteq Docs
  /\ Levels \subseteq Level
  /\ TaskEdits \subseteq Status
  /\ DocEdits \subseteq DocStatus
  /\ SigSteps \subseteq SigStatus \ {"draft"}

VARIABLES
  task,    \* the task
  docs,    \* the documents: whether there, linked to the task itself or by
           \* the form, status, isSigned
  sig,     \* the signature requests: on which document, in which status
  slot,    \* the office requests that have read but not written
  tx,      \* the open transactions of documents, forms and requests
  given,   \* history: who approved what was last submitted
  stale    \* history: some request decided on what was no longer so

vars == <<task, docs, sig, slot, tx, given, stale>>

----------------------------------------------------------------------------
(* What the code derives from a task t, documents D and requests S *)

NeedsDocument(t) == t.level # "none"
NeedsReview(t)   == t.level \in {"approval", "second"}
DefaultReview(l) == IF l \in {"approval", "second"} THEN "pending" ELSE "not_required"

Linked(D)        == {d \in Docs : D[d].there /\ D[d].link # {}}
Submitted(D)     == \E d \in Linked(D) : D[d].status # "uploaded"
On(d, S)         == {r \in Requests : S[r].on = {d}}
Unfinished(D, S) == \E d \in Linked(D) : \E r \in On(d, S) : S[r].status # "signed"

\* getTaskMissingWorkflowReason gives a reason
Missing(t, D, S) ==
  \/ NeedsDocument(t) /\ Linked(D) = {}
  \/ NeedsReview(t) /\ ~Submitted(D)
  \/ Unfinished(D, S)
  \/ NeedsReview(t) /\ t.review # "approved"

WorkflowCommitted(t) ==
  t.status = "completed" \/ t.review \notin {"pending", "not_required"}

Reset(t, st, review) == [t EXCEPT !.status = st, !.review = review,
                                  !.first = Nobody, !.second = Nobody]

ShouldInvalidate(t, D, S) ==
  /\ NeedsDocument(t)
  /\ WorkflowCommitted(t)
  /\ \/ Linked(D) = {}
     \/ NeedsReview(t) /\ ~Submitted(D)
     \/ Unfinished(D, S)

\* documents linked to the task itself follow it, signed ones excepted
FollowTask(D, S, st) ==
  [d \in Docs |->
    IF /\ D[d].there /\ "task" \in D[d].link
       /\ ~D[d].signed /\ \A r \in On(d, S) : S[r].status # "signed"
    THEN [D[d] EXCEPT !.status = st]
    ELSE D[d]]

----------------------------------------------------------------------------
(* Office requests: a read, then one write *)

NewTask == [status |-> "todo", review |-> "not_required", level |-> "none",
            first |-> Nobody, second |-> Nobody]
Idle    == [op |-> "idle", by |-> Nobody, put |-> NewTask, fresh |-> TRUE]
NoDoc   == [there |-> FALSE, link |-> {}, status |-> "uploaded", signed |-> FALSE]
NoSig   == [on |-> {}, status |-> "draft"]
Closed  == [op |-> "idle", doc |-> {}, req |-> {}, link |-> {}, status |-> "uploaded",
            signed |-> FALSE, sig |-> "draft", affected |-> FALSE, changed |-> FALSE,
            rows |-> {}, back |-> "none", review |-> "not_required", fresh |-> TRUE]

\* createTransactionTask
Init ==
  /\ \E l \in Levels, st \in {"todo", "in_progress", "completed"} :
       task = [NewTask EXCEPT
         !.level = l,
         !.status = IF l \in {"approval", "second"} /\ st = "completed" THEN "todo" ELSE st,
         !.review = DefaultReview(l)]
  /\ docs = [d \in Docs |-> NoDoc]
  /\ sig = [r \in Requests |-> NoSig]
  /\ slot = [s \in Slots |-> Idle]
  /\ tx = [t \in Txs |-> Closed]
  /\ given = {}
  /\ stale = FALSE

Take(s, op, by, put) ==
  /\ slot[s].op = "idle"
  /\ slot' = [slot EXCEPT ![s] = [op |-> op, by |-> by, put |-> put, fresh |-> TRUE]]
  /\ UNCHANGED <<task, docs, sig, tx, given, stale>>

\* what saving makes of the task t when status st and level l are to hold and
\* set says that the review flags are among the fields sent
Saved(t, st, l, set) ==
  LET n == [t EXCEPT !.level = l]
      clear == \/ ~NeedsReview(n)
               \/ (t.review = "not_required" \/ set) /\ st # "completed"
               \/ st = "reopened"
  IN [n EXCEPT
       !.status = st,
       !.review = CASE st = "review_requested" -> "review_requested"
                    [] st # "completed"        -> DefaultReview(l)
                    [] OTHER -> IF NeedsReview(n) THEN t.review ELSE "not_required",
       !.first  = IF clear THEN Nobody ELSE t.first,
       !.second = IF clear THEN Nobody ELSE t.second]

\* updateTransactionTask up to its transaction: any status may be asked for, or
\* none; complete and reopen are the requests for that status
ReadToSave(s) ==
  \E st \in TaskEdits, l \in Levels \cup {task.level}, set \in BOOLEAN :
    /\ set \/ l = task.level \/ {l, task.level} \subseteq {"none", "document"}
    /\ st = "completed" => ~Missing([task EXCEPT !.level = l], docs, sig)
    /\ Take(s, "save", Nobody, Saved(task, st, l, set))

MayRequestReview(t, D, S) ==
  NeedsReview(t) /\ Linked(D) # {} /\ ~Unfinished(D, S)

ReadToRequest(s) ==
  /\ MayRequestReview(task, docs, sig)
  /\ Take(s, "request", Nobody, NewTask)

ReadToReject(s) ==
  /\ NeedsReview(task)
  /\ Take(s, "reject", Nobody, NewTask)

MayApprove_Anybody(t, D, S, p) ==
  /\ NeedsReview(t)
  /\ t.review \in {"review_requested", "second_review"}
  /\ Submitted(D)
  /\ ~Unfinished(D, S)
  /\ t.level = "second" /\ t.review = "second_review" => p \in Secondary

MayApprove(t, D, S, p) ==
  /\ NeedsReview(t)
  /\ t.review \in {"review_requested", "second_review"}
  /\ Submitted(D)
  /\ ~Unfinished(D, S)
  /\ t.level = "second" =>
       /\ t.review = "second_review" => p \in Secondary
       /\ t.first # p

Approved(t, p) ==
  IF t.level = "second" /\ t.review = "review_requested"
  THEN [t EXCEPT !.status = "review_requested", !.review = "second_review", !.first = p]
  ELSE [t EXCEPT !.status = "in_progress", !.review = "approved",
                 !.first = IF @ = Nobody THEN p ELSE @,
                 !.second = IF t.level = "second" THEN p ELSE Nobody]

ReadToApprove(s) ==
  \E p \in People :
    /\ MayApprove(task, docs, sig, p)
    /\ Take(s, "approve", p, Approved(task, p))

(* The write.  Saving writes every field; the others only theirs. *)

WrittenTask_KeepsRound(op, put) ==
  CASE op = "save"    -> put
    [] op = "request" -> [task EXCEPT !.status = "review_requested",
                                      !.review = IF task.first = Nobody
                                                 THEN "review_requested" ELSE "second_review"]
    [] op = "reject"  -> [task EXCEPT !.status = "reopened", !.review = "rejected"]
    [] OTHER -> [task EXCEPT !.status = put.status, !.review = put.review, !.first = put.first,
                             !.second = IF put.review = "approved" THEN put.second ELSE @]

WrittenTask(op, put) ==
  CASE op = "save"    -> put
    [] op = "request" -> [task EXCEPT !.status = "review_requested",
                                      !.review = "review_requested"]
    [] op = "reject"  -> [task EXCEPT !.status = "reopened", !.review = "rejected"]
    [] OTHER -> [task EXCEPT !.status = put.status, !.review = put.review, !.first = put.first,
                             !.second = IF put.review = "approved" THEN put.second ELSE @]

WrittenDocs(op, put) ==
  CASE op = "save"    -> docs
    [] op = "request" -> FollowTask(docs, sig, "submitted")
    [] op = "reject"  -> FollowTask(docs, sig, "rejected")
    [] OTHER -> FollowTask(docs, sig, IF put.review = "approved" THEN "approved" ELSE "submitted")

\* a saved task that goes on being approved keeps its approvals
GivenAfter(op, by, put) ==
  CASE op = "approve" -> given \cup {by}
    [] op = "save" /\ put.review = "approved" -> given
    [] OTHER -> {}

\* the others no longer know how things are
Outdated(busy) == [k \in DOMAIN busy |-> IF busy[k].op = "idle" THEN busy[k]
                                         ELSE [busy[k] EXCEPT !.fresh = FALSE]]

\* the document rows that open transactions have changed
Locked == {d \in Docs : \E t \in Txs : tx[t].doc = {d} /\ "document" \in tx[t].rows}

Write(s) ==
  LET me == slot[s] IN
  /\ me.op # "idle"
  /\ task' = WrittenTask(me.op, me.put)
  /\ docs' = WrittenDocs(me.op, me.put)
  /\ \A d \in Locked : docs'[d] = docs[d]
  /\ given' = GivenAfter(me.op, me.by, me.put)
  /\ stale' = (stale \/ ~me.fresh)
  /\ slot' = Outdated([slot EXCEPT ![s] = Idle])
  /\ tx' = Outdated(tx)
  /\ UNCHANGED sig

----------------------------------------------------------------------------
(* Documents, forms and signature requests: what each handler reads.  It    *)
(* remembers what it is going to write, and whether it will reconcile the   *)
(* task: that is decided by the links it has read.                          *)

Open(t, what) ==
  /\ tx[t].op = "idle"
  /\ tx' = [tx EXCEPT ![t] = what]
  /\ UNCHANGED <<task, docs, sig, slot, given, stale>>

NewId(d) == ~docs[d].there /\ \A t \in Txs : tx[t].doc # {d}

\* createTransactionDocument, for an upload or for the signed copy of a request
Upload(t, d) ==
  /\ NewId(d) /\ d \notin FormDocs
  /\ \E link \in {{}, {"task"}} :
       Open(t, [Closed EXCEPT !.op = "create", !.doc = {d}, !.link = link,
                              !.affected = (link # {})])

ArchiveSigned(t, r, d) ==
  /\ sig[r].on # {} /\ sig[r].status = "signed"
  /\ NewId(d) /\ d \notin FormDocs
  /\ LET from == CHOOSE e \in Docs : sig[r].on = {e}
         link == docs[from].link \cap {"task"}
     IN Open(t, [Closed EXCEPT !.op = "create", !.doc = {d}, !.link = link,
                               !.status = "signed", !.signed = TRUE,
                               !.affected = (link # {})])

\* createTransactionForm with its generated document: does not reconcile
CreateForm(t, d) ==
  /\ NewId(d) /\ d \in FormDocs
  /\ \E link \in {{}, {"task", "form"}} :
       Open(t, [Closed EXCEPT !.op = "create", !.doc = {d}, !.link = link])

TouchesTask_New(before, after, via) == via \in after

\* updateTransactionDocument: status and link as sent; the tasks reconciled are
\* those the document itself was and is linked to
TouchesTask(before, after, via) == via \in before \cup after

UpdateDocument(t, d) ==
  /\ docs[d].there
  /\ \E st \in DocEdits \cup {docs[d].status}, link \in {{}, {"task"}} :
       Open(t, [Closed EXCEPT !.op = "document", !.doc = {d}, !.link = link, !.status = st,
                              !.affected = TouchesTask(docs[d].link, link, "task")])

UpdateForm(t, d) ==
  /\ docs[d].there /\ d \in FormDocs
  /\ \E link \in {{}, {"form"}} :
       Open(t, [Closed EXCEPT !.op = "form", !.doc = {d}, !.link = link,
                              !.affected = TouchesTask(docs[d].link, link, "form")])

\* deleteTransactionDocument
DeleteDocument(t, d) ==
  /\ docs[d].there
  /\ Open(t, [Closed EXCEPT !.op = "delete", !.doc = {d},
                            !.affected = TouchesTask(docs[d].link, {}, "task")])

\* createSignatureRequest: a new request, or an existing one saved again, maybe
\* for another document; does not reconcile
CreateRequest(t, r, d) ==
  /\ sig[r].on = {} /\ \A u \in Txs : tx[u].req # {r}
  /\ docs[d].there
  /\ Open(t, [Closed EXCEPT !.op = "request", !.doc = {d}, !.req = {r}])

ResaveRequest(t, r, d) ==
  /\ sig[r].on # {} /\ docs[d].there
  /\ Open(t, [Closed EXCEPT !.op = "resave", !.doc = {d}, !.req = {r},
              !.sig = IF sig[r].status \in {"sent", "signed"} THEN sig[r].status ELSE "draft"])

\* updateSignatureRequest: where a request may go from where
MaySet(old, new) ==
  /\ old # "completed"
  /\ old = "voided" => new = "sent"
  /\ new = "completed" => old = "signed" /\ \E d \in Docs : docs[d].signed

SetSignature(t, r, d) ==
  /\ sig[r].on = {d}
  /\ \E new \in SigSteps :
       /\ MaySet(sig[r].status, new)
       /\ Open(t, [Closed EXCEPT !.op = "sign", !.doc = {d}, !.req = {r}, !.sig = new,
                                 !.affected = (docs[d].link # {})])

----------------------------------------------------------------------------
(* Their changes.  An update writes only the columns it is about.           *)

ChangedDocs(me, D) ==
  [d \in Docs |->
    IF me.doc # {d} THEN D[d]
    ELSE CASE me.op = "create"   -> [there |-> TRUE, link |-> me.link, status |-> me.status,
                                     signed |-> me.signed]
           [] me.op = "document" -> [D[d] EXCEPT !.status = me.status,
                                                 !.link = (@ \ {"task"}) \cup me.link]
           [] me.op = "form"     -> [D[d] EXCEPT !.link = (@ \ {"form"}) \cup me.link]
           [] me.op = "delete"   -> NoDoc
           [] me.op = "sign" /\ me.rows # {} ->
                [D[d] EXCEPT !.status = me.status, !.signed = me.signed]
           [] OTHER -> D[d]]

\* deleting a document takes its signature requests along
ChangedRequests(me, S) ==
  [r \in Requests |->
    CASE me.op = "delete" /\ S[r].on = me.doc -> NoSig
      [] me.op = "sign" /\ me.req = {r} -> [S[r] EXCEPT !.status = me.sig]
      [] me.op \in {"request", "resave"} /\ me.req = {r} -> [on |-> me.doc, status |-> me.sig]
      [] OTHER -> S[r]]

\* syncFormAndDocumentSignatureState: what the requests of a form make of its
\* document, unless all are drafts or voided
SignedState(me, states) ==
  [me EXCEPT !.rows = {"document", "form"},
             !.status = CASE "declined" \in states   -> "rejected"
                          [] states = {"completed"} -> "signed"
                          [] OTHER -> "submitted",
             !.signed = (states = {"completed"})]

\* the rows the change locks: of the document, of its form
Changing(me) ==
  LET states == {ChangedRequests(me, sig)[r].status :
                   r \in {q \in Requests : ChangedRequests(me, sig)[q].on = me.doc}}
  IN CASE me.op = "document" -> [me EXCEPT !.rows = {"document"}]
       [] me.op = "form"     -> [me EXCEPT !.rows = {"form"}]
       [] me.op = "delete"   -> [me EXCEPT !.rows = {"document", "form"}]
       [] me.op = "sign" /\ me.doc \subseteq FormDocs /\ ~(states \subseteq {"draft", "voided"})
                             -> SignedState(me, states)
       [] OTHER -> me

\* what is updated, deleted or referred to must still be there
Possible(me) ==
  /\ me.op \notin {"create", "sign"} => \E d \in Docs : me.doc = {d} /\ docs[d].there
  /\ me.op \in {"resave", "sign"} => \E r \in Requests : me.req = {r} /\ sig[r].on # {}

\* two open transactions want the same row, or one deletes what the other refers to
RequestRows(me) == me.req \cup {r \in Requests : me.op = "delete" /\ sig[r].on = me.doc}

Conflict(me, you) ==
  \/ RequestRows(me) \cap RequestRows(you) # {}
  \/ me.doc = you.doc /\ \/ me.rows \cap you.rows # {}
                         \/ me.op = "delete" /\ you.op \in {"request", "resave"}
                         \/ you.op = "delete" /\ me.op \in {"request", "resave"}

Change(t) ==
  LET me == Changing(tx[t])
      reset == /\ me.affected
               /\ ShouldInvalidate(task, ChangedDocs(me, docs), ChangedRequests(me, sig))
  IN
  /\ me.op # "idle" /\ ~me.changed /\ Possible(me)
  /\ \A u \in Txs : tx[u].changed => ~Conflict(me, tx[u])
  /\ tx' = [tx EXCEPT ![t] = [me EXCEPT
       !.changed = TRUE,
       !.back = CASE ~reset                        -> "none"
                  [] reset /\ task.status = "todo" -> "todo"
                  [] reset /\ task.status # "todo" -> "reopened",
       !.review = IF reset THEN DefaultReview(task.level) ELSE @]]
  /\ UNCHANGED <<task, docs, sig, slot, given, stale>>

Commit(t) ==
  LET me == tx[t] IN
  /\ me.op # "idle" /\ me.changed
  /\ docs' = ChangedDocs(me, docs)
  /\ sig' = ChangedRequests(me, sig)
  /\ task' = IF me.back = "none" THEN task ELSE Reset(task, me.back, me.review)
  /\ given' = IF me.back = "none" THEN given ELSE {}
  /\ stale' = (stale \/ ~me.fresh)
  /\ slot' = Outdated(slot)
  /\ tx' = Outdated([tx EXCEPT ![t] = Closed])

Rollback(t) ==
  /\ tx[t].op # "idle"
  /\ tx' = [tx EXCEPT ![t] = Closed]
  /\ UNCHANGED <<task, docs, sig, slot, given, stale>>

Next ==
  \/ \E s \in Slots : \/ ReadToSave(s) \/ ReadToRequest(s) \/ ReadToReject(s)
                      \/ ReadToApprove(s) \/ Write(s)
  \/ \E t \in Txs, d \in Docs :
       \/ Upload(t, d) \/ CreateForm(t, d) \/ UpdateDocument(t, d) \/ UpdateForm(t, d)
       \/ DeleteDocument(t, d)
       \/ \E r \in Requests : \/ ArchiveSigned(t, r, d) \/ CreateRequest(t, r, d)
                              \/ ResaveRequest(t, r, d) \/ SetSignature(t, r, d)
  \/ \E t \in Txs : Change(t) \/ Commit(t) \/ Rollback(t)

Spec == Init /\ [][Next]_vars

----------------------------------------------------------------------------
(* Properties *)

TaskRecord == [status : Status, review : Review, level : Level,
               first : People \cup {Nobody}, second : People \cup {Nobody}]

\* Task, documents, requests and what handlers remember keep their shape.
TypeOK ==
  /\ task \in TaskRecord
  /\ docs \in [Docs -> [there : BOOLEAN, link : SUBSET {"task", "form"},
                        status : DocStatus, signed : BOOLEAN]]
  /\ sig \in [Requests -> [on : SUBSET Docs, status : SigStatus]]
  /\ slot \in [Slots -> [op : {"idle", "save", "request", "reject", "approve"},
                         by : People \cup {Nobody}, put : TaskRecord, fresh : BOOLEAN]]
  /\ tx \in [Txs -> [op : {"idle", "create", "document", "form", "delete", "request",
                           "resave", "sign"},
                     doc : SUBSET Docs, req : SUBSET Requests,
                     link : SUBSET {"task", "form"}, status : DocStatus, signed : BOOLEAN,
                     sig : SigStatus, affected : BOOLEAN, changed : BOOLEAN,
                     rows : SUBSET {"document", "form"}, back : {"none", "todo", "reopened"},
                     review : {"pending", "not_required"}, fresh : BOOLEAN]]
  /\ given \subseteq People
  /\ stale \in BOOLEAN

\* A task that needs review is completed only when approved, whatever statuses
\* and flags are saved over it, on whatever read, in any order
\* (updateTransactionTask against the workflow handlers).
CompletedMeansApproved ==
  task.status = "completed" /\ NeedsReview(task) => task.review = "approved"

\* The two recorded approvals are never of the same person, nor is there a
\* second one without a first, through rejections, saves and stale reads
\* (approveTransactionTask).
TwoPeople ==
  task.review = "approved" /\ task.second # Nobody =>
    task.first # Nobody /\ task.first # task.second

\* As long as nobody decided on a stale read, an approved task was approved after
\* it was last submitted, and where a second approval is recorded both people
\* approved that submission, not an earlier, rejected one.
ApprovedThisRound ==
  ~stale /\ task.review = "approved" =>
    /\ given # {}
    /\ task.second # Nobody => {task.first, task.second} \subseteq given

\* Approval, second review and completion rest on a linked, submitted document
\* and finished signatures.
Accepted(t) ==
  NeedsDocument(t) /\ (t.status = "completed" \/ t.review \in {"second_review", "approved"})

Evidence(t, D, S) ==
  Linked(D) # {} /\ (NeedsReview(t) => Submitted(D)) /\ ~Unfinished(D, S)

\* As long as nobody decided on what was no longer so, what was accepted never
\* loses its evidence without being reopened, except through what does not
\* reconcile: a signature request put on a document or back to a draft
\* (createSignatureRequest), and a document that counts only through its form
\* (updateTransactionDocument, deleteTransactionDocument).
EvidenceKept ==
  [][ ~stale' /\ (Accepted(task) => Evidence(task, docs, sig))
        => \/ Accepted(task') => Evidence(task', docs', sig')
           \/ \E r \in Requests : /\ sig'[r].on # {}
                                 /\ \/ sig'[r].on # sig[r].on
                                    \/ sig'[r].status = "draft" /\ sig[r].status # "draft"
           \/ \E d \in FormDocs : docs[d].link = {"form"} /\ docs'[d] # docs[d]
    ]_vars
============================================================================
