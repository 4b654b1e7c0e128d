----------------------- MODULE TransactionTaskProofs -----------------------
(***************************************************************************)
(* Proofs about TransactionTask, for any documents, requests, people and   *)
(* any number of office requests and transactions that overlap.            *)
(*                                                                         *)
(* What a handler remembers is as good as the task it read: GoodTask holds *)
(* of the task and of everything a handler is about to write.              *)
(***************************************************************************)
EXTENDS TransactionTask, TLAPS

DocRecord  == [there : BOOLEAN, link : SUBSET {"task", "form"},
               status : DocStatus, signed : BOOLEAN]
SigRecord  == [on : SUBSET Docs, status : SigStatus]
SlotRecord == [op : {"idle", "save", "request", "reject", "approve"},
               by : People \cup {Nobody}, put : TaskRecord, fresh : BOOLEAN]
TxRecord ==
  [op : {"idle", "create", "document", "form", "delete", "request", "resave", "sign"},
   doc : SUBSET Docs, req : SUBSET Requests,
   link : SUBSET {"task", "form"}, status : DocStatus, signed : BOOLEAN,
   sig : SigStatus, affected : BOOLEAN, changed : BOOLEAN,
   rows : SUBSET {"document", "form"}, back : {"none", "todo", "reopened"},
   review : {"pending", "not_required"}, fresh : BOOLEAN]

LEMMA TypeParts ==
  TypeOK <=> /\ task \in TaskRecord
             /\ docs \in [Docs -> DocRecord]
             /\ sig \in [Requests -> SigRecord]
             /\ slot \in [Slots -> SlotRecord]
             /\ tx \in [Txs -> TxRecord]
             /\ given \subseteq People
             /\ stale \in BOOLEAN
  BY DEF TypeOK, DocRecord, SigRecord, SlotRecord, TxRecord

LEMMA TypePartsNext ==
  TypeOK' <=> /\ task' \in TaskRecord
              /\ docs' \in [Docs -> DocRecord]
              /\ sig' \in [Requests -> SigRecord]
              /\ slot' \in [Slots -> SlotRecord]
              /\ tx' \in [Txs -> TxRecord]
              /\ given' \subseteq People
              /\ stale' \in BOOLEAN
  BY DEF TypeOK, DocRecord, SigRecord, SlotRecord, TxRecord

\* Completed means approved, a second approval another first one, and a task that
\* waits for the second approval has the first.
GoodTask(t) ==
  /\ t.status = "completed" /\ NeedsReview(t) => t.review = "approved"
  /\ t.review = "approved" /\ t.second # Nobody => t.first # Nobody /\ t.first # t.second
  /\ t.review = "second_review" => t.first # Nobody

GoodSlot(r) ==
  /\ GoodTask(r.put)
  /\ r.op = "approve" => r.by \in People /\ r.put.status # "completed"

IInv ==
  /\ TypeOK
  /\ GoodTask(task)
  /\ \A s \in Slots : GoodSlot(slot[s])

----------------------------------------------------------------------------
(* What the operators of the module return *)

LEMMA ResetFacts ==
  ASSUME NEW t \in TaskRecord, NEW st \in {"todo", "reopened"},
         NEW review \in {"pending", "not_required"}
  PROVE  /\ Reset(t, st, review) \in TaskRecord
         /\ GoodTask(Reset(t, st, review))
         /\ Reset(t, st, review).status = st /\ Reset(t, st, review).review = review
  BY DEF Reset, TaskRecord, Status, Review, GoodTask, NeedsReview

LEMMA DefaultFacts == \A l : DefaultReview(l) \in {"pending", "not_required"}
  BY DEF DefaultReview

LEMMA NewTaskFacts == NewTask \in TaskRecord /\ GoodTask(NewTask)
  BY DEF NewTask, TaskRecord, Status, Review, Level, GoodTask, NeedsReview

LEMMA IdleFacts == Idle \in SlotRecord /\ GoodSlot(Idle)
  BY NewTaskFacts DEF Idle, SlotRecord, GoodSlot

LEMMA ClosedFacts == Closed \in TxRecord /\ Closed.op = "idle"
  BY DEF Closed, TxRecord, DocStatus, SigStatus

LEMMA FollowFacts ==
  ASSUME NEW D \in [Docs -> DocRecord], NEW S, NEW st \in DocStatus
  PROVE  FollowTask(D, S, st) \in [Docs -> DocRecord]
  BY DEF FollowTask, DocRecord

LEMMA SavedFacts ==
  ASSUME NEW t \in TaskRecord, NEW st \in Status, NEW l \in Level, NEW set \in BOOLEAN,
         NEW D, NEW S, GoodTask(t),
         st = "completed" => ~Missing([t EXCEPT !.level = l], D, S)
  PROVE  LET put == Saved(t, st, l, set)
         IN /\ put \in TaskRecord /\ GoodTask(put)
            /\ put.review # "second_review"
            /\ put.review = "approved" => t.review = "approved"
            /\ put.second # Nobody => put.first = t.first /\ put.second = t.second
<1> DEFINE n == [t EXCEPT !.level = l]
           put == Saved(t, st, l, set)
<1>1. n \in TaskRecord /\ n.review = t.review /\ n.level = l
  BY DEF TaskRecord
<1>2. DefaultReview(l) \in {"pending", "not_required"}
  BY DEF DefaultReview
<1>3. st = "completed" /\ NeedsReview(n) => t.review = "approved"
  BY <1>1 DEF Missing
<1>4. /\ put.status = st /\ put.level = l
      /\ put.review = CASE st = "review_requested" -> "review_requested"
                        [] st # "completed"        -> DefaultReview(l)
                        [] OTHER -> IF NeedsReview(n) THEN t.review ELSE "not_required"
      /\ put.first \in {Nobody, t.first} /\ put.second \in {Nobody, t.second}
      /\ put.second # Nobody => put.first = t.first /\ put.second = t.second
  BY <1>1 DEF Saved, TaskRecord
<1>5. put \in TaskRecord
  BY <1>1, <1>2 DEF Saved, TaskRecord, Status, Review
<1>6. put.review = "approved" => st = "completed" /\ t.review = "approved"
  BY <1>2, <1>3, <1>4
<1>7. put.review # "second_review"
  BY <1>2, <1>3, <1>4
<1>8. st = "completed" /\ NeedsReview(put) => put.review = "approved"
  BY <1>1, <1>3, <1>4 DEF NeedsReview
<1> QED BY <1>4, <1>5, <1>6, <1>7, <1>8 DEF GoodTask

LEMMA ApprovedFacts ==
  ASSUME NEW t \in TaskRecord, NEW p \in People, NEW D, NEW S, GoodTask(t),
         MayApprove(t, D, S, p)
  PROVE  /\ Approved(t, p) \in TaskRecord
         /\ GoodTask(Approved(t, p))
         /\ Approved(t, p).status # "completed"
<1>1. CASE t.level = "second" /\ t.review = "review_requested"
  BY <1>1, TaskAssumption DEF Approved, TaskRecord, Status, Review, GoodTask
<1>2. CASE ~(t.level = "second" /\ t.review = "review_requested")
  BY <1>2, TaskAssumption DEF Approved, TaskRecord, Status, Review, GoodTask, MayApprove
<1> QED BY <1>1, <1>2

LEMMA OutdatedFacts ==
  ASSUME NEW busy \in [Slots -> SlotRecord], \A s \in Slots : GoodSlot(busy[s])
  PROVE  /\ Outdated(busy) \in [Slots -> SlotRecord]
         /\ \A s \in Slots : GoodSlot(Outdated(busy)[s])
         /\ \A s \in Slots : Outdated(busy)[s].op # "idle" => ~Outdated(busy)[s].fresh
<1> SUFFICES ASSUME NEW s \in Slots
             PROVE  /\ Outdated(busy)[s] \in SlotRecord
                    /\ GoodSlot(Outdated(busy)[s])
                    /\ Outdated(busy)[s].op # "idle" => ~Outdated(busy)[s].fresh
  BY DEF Outdated
<1>1. CASE busy[s].op = "idle"
  BY <1>1 DEF Outdated
<1>2. CASE busy[s].op # "idle"
  <2>1. Outdated(busy)[s] = [busy[s] EXCEPT !.fresh = FALSE]
    BY <1>2 DEF Outdated
  <2>2. busy[s] \in SlotRecord /\ GoodSlot(busy[s])
    OBVIOUS
  <2> QED BY <2>1, <2>2 DEF SlotRecord, GoodSlot
<1> QED BY <1>1, <1>2

LEMMA OvertakenFacts ==
  ASSUME NEW busy \in [Txs -> TxRecord]
  PROVE  /\ Outdated(busy) \in [Txs -> TxRecord]
         /\ \A t \in Txs : Outdated(busy)[t].op # "idle" => ~Outdated(busy)[t].fresh
<1> SUFFICES ASSUME NEW t \in Txs
             PROVE  /\ Outdated(busy)[t] \in TxRecord
                    /\ Outdated(busy)[t].op # "idle" => ~Outdated(busy)[t].fresh
  BY DEF Outdated
<1>1. CASE busy[t].op = "idle"
  BY <1>1 DEF Outdated
<1>2. CASE busy[t].op # "idle"
  <2>1. Outdated(busy)[t] = [busy[t] EXCEPT !.fresh = FALSE]
    BY <1>2 DEF Outdated
  <2>2. busy[t] \in TxRecord
    OBVIOUS
  <2> QED BY <2>1, <2>2 DEF TxRecord
<1> QED BY <1>1, <1>2

\* What a transaction writes, and what it knows of it when it has changed its rows.
LEMMA ChangedFacts ==
  ASSUME NEW me \in TxRecord, NEW D \in [Docs -> DocRecord], NEW S \in [Requests -> SigRecord]
  PROVE  /\ ChangedDocs(me, D) \in [Docs -> DocRecord]
         /\ ChangedRequests(me, S) \in [Requests -> SigRecord]
<1>1. ASSUME NEW d \in Docs PROVE ChangedDocs(me, D)[d] \in DocRecord
  <2>1. D[d] \in DocRecord /\ NoDoc \in DocRecord
    BY DEF NoDoc, DocRecord, DocStatus
  <2>2. [there |-> TRUE, link |-> me.link, status |-> me.status, signed |-> me.signed]
          \in DocRecord
    BY DEF TxRecord, DocRecord
  <2>3. [D[d] EXCEPT !.status = me.status, !.link = (@ \ {"task"}) \cup me.link] \in DocRecord
    BY <2>1 DEF TxRecord, DocRecord
  <2>4. [D[d] EXCEPT !.link = (@ \ {"form"}) \cup me.link] \in DocRecord
    BY <2>1 DEF TxRecord, DocRecord
  <2>5. [D[d] EXCEPT !.status = me.status, !.signed = me.signed] \in DocRecord
    BY <2>1 DEF TxRecord, DocRecord
  <2> QED BY <2>1, <2>2, <2>3, <2>4, <2>5 DEF ChangedDocs
<1>2. ASSUME NEW r \in Requests PROVE ChangedRequests(me, S)[r] \in SigRecord
  <2>1. S[r] \in SigRecord /\ NoSig \in SigRecord
    BY DEF NoSig, SigRecord, SigStatus
  <2>2. [S[r] EXCEPT !.status = me.sig] \in SigRecord
    BY <2>1 DEF TxRecord, SigRecord
  <2>3. [on |-> me.doc, status |-> me.sig] \in SigRecord
    BY DEF TxRecord, SigRecord
  <2> QED BY <2>1, <2>2, <2>3 DEF ChangedRequests
<1> QED BY <1>1, <1>2 DEF ChangedDocs, ChangedRequests

LEMMA ChangingFacts ==
  ASSUME NEW me \in TxRecord
  PROVE  /\ Changing(me) \in TxRecord
         /\ Changing(me).op = me.op /\ Changing(me).doc = me.doc /\ Changing(me).req = me.req
         /\ Changing(me).link = me.link /\ Changing(me).sig = me.sig
         /\ Changing(me).affected = me.affected /\ Changing(me).fresh = me.fresh
<1> DEFINE Same(x) == /\ x \in TxRecord
                      /\ x.op = me.op /\ x.doc = me.doc /\ x.req = me.req /\ x.link = me.link
                      /\ x.sig = me.sig /\ x.affected = me.affected /\ x.fresh = me.fresh
<1>1. \A rows \in SUBSET {"document", "form"} : Same([me EXCEPT !.rows = rows])
  BY DEF TxRecord
<1>2. \A states : Same(SignedState(me, states))
  BY DEF SignedState, TxRecord, DocStatus
<1>3. Same(me)
  OBVIOUS
<1>4. \/ \E rows \in SUBSET {"document", "form"} : Changing(me) = [me EXCEPT !.rows = rows]
      \/ \E states : Changing(me) = SignedState(me, states)
      \/ Changing(me) = me
  BY DEF Changing
<1>5. Same(Changing(me))
  <2> HIDE DEF Same
  <2> QED BY <1>1, <1>2, <1>3, <1>4
<1> QED BY <1>5

LEMMA WrittenFacts ==
  ASSUME task \in TaskRecord, GoodTask(task),
         NEW r \in SlotRecord, GoodSlot(r), r.op # "idle"
  PROVE  WrittenTask(r.op, r.put) \in TaskRecord /\ GoodTask(WrittenTask(r.op, r.put))
<1>1. CASE r.op = "save"
  BY <1>1 DEF WrittenTask, SlotRecord, GoodSlot
<1>2. CASE r.op = "request"
  BY <1>2 DEF WrittenTask, TaskRecord, Status, Review, GoodTask
<1>3. CASE r.op = "reject"
  BY <1>3 DEF WrittenTask, TaskRecord, Status, Review, GoodTask
<1>4. CASE r.op = "approve"
  <2>1. r.put \in TaskRecord /\ GoodTask(r.put) /\ r.put.status # "completed"
    BY <1>4 DEF SlotRecord, GoodSlot
  <2>2. WrittenTask(r.op, r.put)
          = [task EXCEPT !.status = r.put.status, !.review = r.put.review,
                         !.first = r.put.first,
                         !.second = IF r.put.review = "approved" THEN r.put.second ELSE @]
    BY <1>4 DEF WrittenTask
  <2> QED BY <2>1, <2>2 DEF TaskRecord, GoodTask
<1> QED BY <1>1, <1>2, <1>3, <1>4 DEF SlotRecord

----------------------------------------------------------------------------
(* The invariant *)

LEMMA InvInit == Init => IInv
<1> SUFFICES ASSUME Init PROVE IInv
  OBVIOUS
<1>1. task \in TaskRecord /\ GoodTask(task)
  <2>1. PICK l \in Levels, st \in {"todo", "in_progress", "completed"} :
          task = [NewTask EXCEPT
            !.level = l,
            !.status = IF l \in {"approval", "second"} /\ st = "completed" THEN "todo" ELSE st,
            !.review = DefaultReview(l)]
    BY DEF Init
  <2>2. l \in Level
    BY TaskAssumption
  <2> QED BY <2>1, <2>2 DEF NewTask, TaskRecord, Status, Review, GoodTask, NeedsReview,
             DefaultReview
<1>2. docs \in [Docs -> DocRecord]
  BY DEF Init, NoDoc, DocRecord, DocStatus
<1>3. sig \in [Requests -> SigRecord]
  BY DEF Init, NoSig, SigRecord, SigStatus
<1>4. slot \in [Slots -> SlotRecord] /\ \A s \in Slots : GoodSlot(slot[s])
  BY IdleFacts DEF Init
<1>5. given \subseteq People /\ stale \in BOOLEAN
  BY DEF Init
<1>6. tx \in [Txs -> TxRecord]
  BY ClosedFacts DEF Init
<1> QED BY <1>1, <1>2, <1>3, <1>4, <1>5, <1>6, TypeParts DEF IInv

LEMMA TakeKeeps ==
  ASSUME IInv, NEW s \in Slots, NEW op \in {"save", "request", "reject", "approve"},
         NEW by \in People \cup {Nobody}, NEW put \in TaskRecord, Take(s, op, by, put),
         GoodTask(put), op = "approve" => by \in People /\ put.status # "completed"
  PROVE  IInv'
<1> DEFINE me == [op |-> op, by |-> by, put |-> put, fresh |-> TRUE]
<1>1. me \in SlotRecord /\ GoodSlot(me)
  BY DEF SlotRecord, GoodSlot
<1>2. slot' = [slot EXCEPT ![s] = me]
  BY DEF Take
<1>3. slot' \in [Slots -> SlotRecord] /\ \A x \in Slots : GoodSlot(slot'[x])
  <2> HIDE DEF me
  <2> QED BY <1>1, <1>2, TypeParts DEF IInv
<1>4. UNCHANGED <<task, docs, sig, tx, given, stale>>
  BY DEF Take
<1>5. GoodTask(task)' /\ \A x \in Slots : GoodSlot(slot[x])'
  BY <1>3, <1>4 DEF IInv, GoodTask, GoodSlot, NeedsReview
<1> QED BY <1>3, <1>4, <1>5, TypeParts, TypePartsNext DEF IInv

\* a transaction that is still open has touched nothing the others see
Unseen == UNCHANGED <<task, docs, sig, slot, given, stale>>

LEMMA UnseenKeeps ==
  ASSUME IInv, Unseen, tx' \in [Txs -> TxRecord]
  PROVE  IInv'
<1>1. GoodTask(task)' /\ \A x \in Slots : GoodSlot(slot[x])'
  BY DEF Unseen, IInv, GoodTask, GoodSlot, NeedsReview
<1> QED BY <1>1, TypeParts, TypePartsNext DEF Unseen, IInv

LEMMA CommitKeeps ==
  ASSUME IInv, NEW t \in Txs, Commit(t)
  PROVE  IInv'
<1> DEFINE me == tx[t]
<1>1. /\ me \in TxRecord /\ docs \in [Docs -> DocRecord] /\ sig \in [Requests -> SigRecord]
      /\ task \in TaskRecord /\ slot \in [Slots -> SlotRecord] /\ tx \in [Txs -> TxRecord]
  BY TypeParts DEF IInv
<1>2. docs' \in [Docs -> DocRecord] /\ sig' \in [Requests -> SigRecord]
  BY <1>1, ChangedFacts DEF Commit
<1>3. task' \in TaskRecord /\ GoodTask(task')
  <2>1. me.back \in {"none", "todo", "reopened"} /\ me.review \in {"pending", "not_required"}
    BY <1>1 DEF TxRecord
  <2> QED BY <1>1, <2>1, ResetFacts DEF Commit, IInv
<1>4. given' \subseteq People /\ stale' \in BOOLEAN
  BY <1>1, TypeParts DEF Commit, IInv, TxRecord
<1>5. slot' \in [Slots -> SlotRecord] /\ \A x \in Slots : GoodSlot(slot'[x])
  BY <1>1, OutdatedFacts DEF IInv, Commit
<1>6. tx' \in [Txs -> TxRecord]
  BY <1>1, ClosedFacts, OvertakenFacts DEF Commit
<1>7. GoodTask(task)' /\ \A x \in Slots : GoodSlot(slot[x])'
  BY <1>3, <1>5 DEF GoodTask, GoodSlot, NeedsReview
<1> QED BY <1>2, <1>3, <1>4, <1>5, <1>6, <1>7, TypeParts, TypePartsNext DEF IInv

LEMMA WriteKeeps ==
  ASSUME IInv, NEW s \in Slots, Write(s)
  PROVE  IInv'
<1> DEFINE me == slot[s]
<1>1. me \in SlotRecord /\ GoodSlot(me) /\ me.op # "idle"
  BY TypeParts DEF IInv, Write
<1>2. task' \in TaskRecord /\ GoodTask(task')
  BY <1>1, WrittenFacts, TypeParts DEF IInv, Write
<1>3. docs' \in [Docs -> DocRecord]
  <2>1. docs \in [Docs -> DocRecord]
    BY TypeParts DEF IInv
  <2>2. {"submitted", "rejected", "approved"} \subseteq DocStatus
    BY DEF DocStatus
  <2>3. WrittenDocs(me.op, me.put) \in [Docs -> DocRecord]
    BY <2>1, <2>2, FollowFacts DEF WrittenDocs
  <2> QED BY <2>3 DEF Write
<1>4. given' \subseteq People
  BY <1>1, TypeParts DEF IInv, Write, GivenAfter, GoodSlot
<1>5. stale' \in BOOLEAN /\ sig' = sig
  BY <1>1, TypeParts DEF IInv, Write, SlotRecord
<1>6. slot' \in [Slots -> SlotRecord] /\ \A x \in Slots : GoodSlot(slot'[x])
  <2>1. /\ [slot EXCEPT ![s] = Idle] \in [Slots -> SlotRecord]
        /\ \A x \in Slots : GoodSlot([slot EXCEPT ![s] = Idle][x])
    BY IdleFacts, TypeParts DEF IInv
  <2> QED BY <2>1, OutdatedFacts DEF Write
<1>7. GoodTask(task)' /\ \A x \in Slots : GoodSlot(slot[x])'
  BY <1>2, <1>6 DEF GoodTask, GoodSlot, NeedsReview
<1>8. tx' \in [Txs -> TxRecord]
  BY OvertakenFacts, TypeParts DEF IInv, Write
<1> QED BY <1>2, <1>3, <1>4, <1>5, <1>6, <1>7, <1>8, TypeParts, TypePartsNext DEF IInv

LEMMA SaveKeeps ==
  ASSUME IInv, NEW s \in Slots, ReadToSave(s)
  PROVE  IInv'
<1>1. PICK st \in TaskEdits, l \in Levels \cup {task.level}, set \in BOOLEAN :
        /\ st = "completed" => ~Missing([task EXCEPT !.level = l], docs, sig)
        /\ Take(s, "save", Nobody, Saved(task, st, l, set))
  BY DEF ReadToSave
<1>2. st \in Status /\ l \in Level /\ task \in TaskRecord /\ GoodTask(task)
  BY TaskAssumption, TypeParts DEF IInv, TaskRecord
<1>3. Saved(task, st, l, set) \in TaskRecord /\ GoodTask(Saved(task, st, l, set))
  BY <1>1, <1>2, SavedFacts
<1> QED BY <1>1, <1>3, TakeKeeps

LEMMA ApproveKeeps ==
  ASSUME IInv, NEW s \in Slots, ReadToApprove(s)
  PROVE  IInv'
<1>1. PICK p \in People : /\ MayApprove(task, docs, sig, p)
                          /\ Take(s, "approve", p, Approved(task, p))
  BY DEF ReadToApprove
<1>2. /\ Approved(task, p) \in TaskRecord /\ GoodTask(Approved(task, p))
      /\ Approved(task, p).status # "completed"
  BY <1>1, ApprovedFacts, TypeParts DEF IInv
<1> QED BY <1>1, <1>2, TakeKeeps

\* What a handler me of documents, forms or requests remembers is what it has read
\* in the documents D and requests S.
ReadWell(me, D, S) ==
  /\ me.op = "create" =>
       \E d \in Docs : /\ me.doc = {d} /\ ~D[d].there
                       /\ "form" \in me.link => d \in FormDocs
  /\ me.op = "document" =>
       \E d \in Docs : /\ me.doc = {d} /\ me.link \subseteq {"task"}
                       /\ me.affected = TouchesTask(D[d].link, me.link, "task")
  /\ me.op = "form" =>
       \E d \in FormDocs : /\ me.doc = {d} /\ me.link \subseteq {"form"}
                           /\ me.affected = TouchesTask(D[d].link, me.link, "form")
  /\ me.op = "delete" =>
       \E d \in Docs : me.doc = {d} /\ me.affected = TouchesTask(D[d].link, {}, "task")
  /\ me.op = "request" =>
       \E d \in Docs, r \in Requests :
         me.doc = {d} /\ me.req = {r} /\ D[d].there /\ S[r].on = {}
  /\ me.op = "resave" =>
       \E d \in Docs, r \in Requests :
         me.doc = {d} /\ me.req = {r} /\ D[d].there /\ me.sig \in {S[r].status, "draft"}
  /\ me.op = "sign" =>
       \E d \in Docs, r \in Requests :
         me.doc = {d} /\ me.req = {r} /\ S[r].on = {d} /\ me.affected = (D[d].link # {})

LEMMA OpenDocument ==
  ASSUME IInv, NEW t \in Txs, NEW d \in Docs,
         Upload(t, d) \/ CreateForm(t, d) \/ UpdateDocument(t, d) \/ UpdateForm(t, d)
           \/ DeleteDocument(t, d)
  PROVE  \E what \in TxRecord : Open(t, what) /\ ReadWell(what, docs, sig) /\ ~what.changed
<1>1. CASE Upload(t, d)
  <2>1. PICK link \in {{}, {"task"}} :
          Open(t, [Closed EXCEPT !.op = "create", !.doc = {d}, !.link = link,
                                 !.affected = (link # {})])
    BY <1>1 DEF Upload
  <2> DEFINE what == [Closed EXCEPT !.op = "create", !.doc = {d}, !.link = link,
                                    !.affected = (link # {})]
  <2>2. what \in TxRecord
    BY ClosedFacts DEF TxRecord
  <2>3. /\ what.op = "create" /\ what.doc = {d} /\ what.link = link /\ ~what.changed
        /\ ~docs[d].there
    BY <1>1 DEF Closed, Upload, NewId
  <2> HIDE DEF what
  <2>4. ReadWell(what, docs, sig)
    BY <2>3 DEF ReadWell
  <2> QED BY <2>1, <2>2, <2>3, <2>4 DEF what
<1>2. CASE CreateForm(t, d)
  <2>1. PICK link \in {{}, {"task", "form"}} :
          Open(t, [Closed EXCEPT !.op = "create", !.doc = {d}, !.link = link])
    BY <1>2 DEF CreateForm
  <2> DEFINE what == [Closed EXCEPT !.op = "create", !.doc = {d}, !.link = link]
  <2>2. what \in TxRecord
    BY ClosedFacts DEF TxRecord
  <2>3. /\ what.op = "create" /\ what.doc = {d} /\ what.link = link /\ ~what.changed
        /\ ~docs[d].there /\ d \in FormDocs
    BY <1>2 DEF Closed, CreateForm, NewId
  <2> HIDE DEF what
  <2>4. ReadWell(what, docs, sig)
    BY <2>3 DEF ReadWell
  <2> QED BY <2>1, <2>2, <2>3, <2>4 DEF what
<1>3. CASE UpdateDocument(t, d)
  <2>1. PICK st \in DocEdits \cup {docs[d].status}, link \in {{}, {"task"}} :
          Open(t, [Closed EXCEPT !.op = "document", !.doc = {d}, !.link = link, !.status = st,
                                 !.affected = TouchesTask(docs[d].link, link, "task")])
    BY <1>3 DEF UpdateDocument
  <2> DEFINE touched == TouchesTask(docs[d].link, link, "task")
             what == [Closed EXCEPT !.op = "document", !.doc = {d}, !.link = link,
                                    !.status = st, !.affected = touched]
  <2>2. st \in DocStatus /\ touched \in BOOLEAN
    BY TaskAssumption, TypeParts DEF IInv, DocRecord, TouchesTask
  <2>3. Open(t, what)
    BY <2>1
  <2>4. touched = TouchesTask(docs[d].link, link, "task")
    OBVIOUS
  <2> HIDE DEF touched
  <2>5. what \in TxRecord
    BY <2>2, ClosedFacts DEF TxRecord
  <2>6. /\ what.op = "document" /\ what.doc = {d} /\ what.link = link /\ ~what.changed
        /\ what.affected = touched
    BY DEF Closed
  <2> HIDE DEF what
  <2>7. ReadWell(what, docs, sig)
    BY <2>4, <2>6 DEF ReadWell
  <2> QED BY <2>3, <2>5, <2>6, <2>7
<1>4. CASE UpdateForm(t, d)
  <2>1. PICK link \in {{}, {"form"}} :
          Open(t, [Closed EXCEPT !.op = "form", !.doc = {d}, !.link = link,
                                 !.affected = TouchesTask(docs[d].link, link, "form")])
    BY <1>4 DEF UpdateForm
  <2> DEFINE touched == TouchesTask(docs[d].link, link, "form")
             what == [Closed EXCEPT !.op = "form", !.doc = {d}, !.link = link,
                                    !.affected = touched]
  <2>2. touched \in BOOLEAN
    BY DEF TouchesTask
  <2>3. Open(t, what) /\ d \in FormDocs
    BY <1>4, <2>1 DEF UpdateForm
  <2>4. touched = TouchesTask(docs[d].link, link, "form")
    OBVIOUS
  <2> HIDE DEF touched
  <2>5. what \in TxRecord
    BY <2>2, ClosedFacts DEF TxRecord
  <2>6. /\ what.op = "form" /\ what.doc = {d} /\ what.link = link /\ ~what.changed
        /\ what.affected = touched
    BY DEF Closed
  <2> HIDE DEF what
  <2>7. ReadWell(what, docs, sig)
    BY <2>3, <2>4, <2>6 DEF ReadWell
  <2> QED BY <2>3, <2>5, <2>6, <2>7
<1>5. CASE DeleteDocument(t, d)
  <2> DEFINE touched == TouchesTask(docs[d].link, {}, "task")
             what == [Closed EXCEPT !.op = "delete", !.doc = {d}, !.affected = touched]
  <2>1. Open(t, what) /\ touched \in BOOLEAN
    BY <1>5 DEF DeleteDocument, TouchesTask
  <2>2. touched = TouchesTask(docs[d].link, {}, "task")
    OBVIOUS
  <2> HIDE DEF touched
  <2>3. what \in TxRecord
    BY <2>1, ClosedFacts DEF TxRecord
  <2>4. /\ what.op = "delete" /\ what.doc = {d} /\ ~what.changed
        /\ what.affected = touched
    BY DEF Closed
  <2> HIDE DEF what
  <2>5. ReadWell(what, docs, sig)
    BY <2>2, <2>4 DEF ReadWell
  <2> QED BY <2>1, <2>3, <2>4, <2>5
<1> QED BY <1>1, <1>2, <1>3, <1>4, <1>5

LEMMA OpenRequest ==
  ASSUME IInv, NEW t \in Txs, NEW d \in Docs, NEW r \in Requests,
         ArchiveSigned(t, r, d) \/ CreateRequest(t, r, d) \/ ResaveRequest(t, r, d)
           \/ SetSignature(t, r, d)
  PROVE  \E what \in TxRecord : Open(t, what) /\ ReadWell(what, docs, sig) /\ ~what.changed
<1>1. CASE ArchiveSigned(t, r, d)
  <2> DEFINE from == CHOOSE e \in Docs : sig[r].on = {e}
             link == docs[from].link \cap {"task"}
             what == [Closed EXCEPT !.op = "create", !.doc = {d}, !.link = link,
                                    !.status = "signed", !.signed = TRUE,
                                    !.affected = (link # {})]
  <2>1. Open(t, what)
    BY <1>1 DEF ArchiveSigned
  <2>2. link \in SUBSET {"task"} /\ (link # {}) \in BOOLEAN
    OBVIOUS
  <2> HIDE DEF link
  <2>3. what \in TxRecord
    BY <2>2, ClosedFacts DEF TxRecord, DocStatus
  <2>4. /\ what.op = "create" /\ what.doc = {d} /\ what.link = link /\ ~what.changed
        /\ ~docs[d].there
    BY <1>1 DEF Closed, ArchiveSigned, NewId
  <2> HIDE DEF what
  <2>5. ReadWell(what, docs, sig)
    BY <2>2, <2>4 DEF ReadWell
  <2> QED BY <2>1, <2>3, <2>4, <2>5
<1>2. CASE CreateRequest(t, r, d)
  <2> DEFINE what == [Closed EXCEPT !.op = "request", !.doc = {d}, !.req = {r}]
  <2>1. Open(t, what) /\ what \in TxRecord
    BY <1>2, ClosedFacts DEF CreateRequest, TxRecord
  <2>2. /\ what.op = "request" /\ what.doc = {d} /\ what.req = {r} /\ ~what.changed
        /\ docs[d].there /\ sig[r].on = {}
    BY <1>2 DEF Closed, CreateRequest
  <2> HIDE DEF what
  <2>3. ReadWell(what, docs, sig)
    BY <2>2 DEF ReadWell
  <2> QED BY <2>1, <2>2, <2>3
<1>3. CASE ResaveRequest(t, r, d)
  <2> DEFINE st == IF sig[r].status \in {"sent", "signed"} THEN sig[r].status ELSE "draft"
             what == [Closed EXCEPT !.op = "resave", !.doc = {d}, !.req = {r}, !.sig = st]
  <2>1. Open(t, what)
    BY <1>3 DEF ResaveRequest
  <2>2. st \in SigStatus /\ st \in {sig[r].status, "draft"}
    BY DEF SigStatus
  <2> HIDE DEF st
  <2>3. what \in TxRecord
    BY <2>2, ClosedFacts DEF TxRecord
  <2>4. /\ what.op = "resave" /\ what.doc = {d} /\ what.req = {r} /\ ~what.changed
        /\ what.sig = st /\ docs[d].there
    BY <1>3 DEF Closed, ResaveRequest
  <2> HIDE DEF what
  <2>5. ReadWell(what, docs, sig)
    BY <2>2, <2>4 DEF ReadWell
  <2> QED BY <2>1, <2>3, <2>4, <2>5
<1>4. CASE SetSignature(t, r, d)
  <2>1. PICK new \in SigSteps :
          Open(t, [Closed EXCEPT !.op = "sign", !.doc = {d}, !.req = {r}, !.sig = new,
                                 !.affected = (docs[d].link # {})])
    BY <1>4 DEF SetSignature
  <2> DEFINE what == [Closed EXCEPT !.op = "sign", !.doc = {d}, !.req = {r}, !.sig = new,
                                    !.affected = (docs[d].link # {})]
  <2>2. new \in SigStatus
    BY TaskAssumption
  <2>3. what \in TxRecord
    BY <2>2, ClosedFacts DEF TxRecord
  <2>4. /\ what.op = "sign" /\ what.doc = {d} /\ what.req = {r} /\ ~what.changed
        /\ what.affected = (docs[d].link # {}) /\ sig[r].on = {d}
    BY <1>4 DEF Closed, SetSignature
  <2>5. Open(t, what)
    BY <2>1
  <2> HIDE DEF what
  <2>6. ReadWell(what, docs, sig)
    BY <2>4 DEF ReadWell
  <2> QED BY <2>3, <2>4, <2>5, <2>6
<1> QED BY <1>1, <1>2, <1>3, <1>4

Opened(t) ==
  \E d \in Docs :
    \/ Upload(t, d) \/ CreateForm(t, d) \/ UpdateDocument(t, d) \/ UpdateForm(t, d)
    \/ DeleteDocument(t, d)
    \/ \E r \in Requests : \/ ArchiveSigned(t, r, d) \/ CreateRequest(t, r, d)
                           \/ ResaveRequest(t, r, d) \/ SetSignature(t, r, d)

\* the step after the change, as a transaction of its own sees it
LEMMA ChangeFacts ==
  ASSUME IInv, NEW t \in Txs, Change(t)
  PROVE  \E me \in TxRecord, back \in {"none", "todo", "reopened"},
            review \in {"pending", "not_required"} :
           /\ me = Changing(tx[t])
           /\ tx' = [tx EXCEPT ![t] = [me EXCEPT !.changed = TRUE, !.back = back,
                                                 !.review = review]]
           /\ back = "none" <=> ~(/\ me.affected
                                  /\ ShouldInvalidate(task, ChangedDocs(me, docs),
                                                      ChangedRequests(me, sig)))
<1> DEFINE me == Changing(tx[t])
           reset == /\ me.affected
                    /\ ShouldInvalidate(task, ChangedDocs(me, docs), ChangedRequests(me, sig))
           back == CASE ~reset                        -> "none"
                     [] reset /\ task.status = "todo" -> "todo"
                     [] reset /\ task.status # "todo" -> "reopened"
           review == IF reset THEN DefaultReview(task.level) ELSE me.review
<1>1. me \in TxRecord
  BY ChangingFacts, TypeParts DEF IInv
<1>2. tx' = [tx EXCEPT ![t] = [me EXCEPT !.changed = TRUE, !.back = back, !.review = review]]
  BY DEF Change
<1>3. review \in {"pending", "not_required"}
  BY <1>1, DefaultFacts DEF TxRecord
<1>4. back \in {"none", "todo", "reopened"} /\ (back = "none" <=> ~reset)
  <2>1. reset \in BOOLEAN
    BY <1>1 DEF TxRecord, ShouldInvalidate
  <2> HIDE DEF me, reset
  <2> QED BY <2>1
<1>5. /\ me = Changing(tx[t])
      /\ back = "none" <=> ~(/\ me.affected
                             /\ ShouldInvalidate(task, ChangedDocs(me, docs),
                                                 ChangedRequests(me, sig)))
  BY <1>4
<1> HIDE DEF me, reset, back, review
<1> QED BY <1>1, <1>2, <1>3, <1>4, <1>5

LEMMA OpenKeeps ==
  ASSUME IInv, NEW t \in Txs, Opened(t) \/ Change(t) \/ Rollback(t)
  PROVE  IInv' /\ Unseen
<1>1. tx \in [Txs -> TxRecord]
  BY TypeParts DEF IInv
<1>2. CASE Opened(t)
  <2>1. PICK what \in TxRecord : Open(t, what)
    BY <1>2, OpenDocument, OpenRequest DEF Opened
  <2>2. tx' \in [Txs -> TxRecord] /\ Unseen
    BY <1>1, <2>1 DEF Open, Unseen
  <2> QED BY <2>2, UnseenKeeps
<1>3. CASE Change(t)
  <2>1. PICK me \in TxRecord, back \in {"none", "todo", "reopened"},
             review \in {"pending", "not_required"} :
          tx' = [tx EXCEPT ![t] = [me EXCEPT !.changed = TRUE, !.back = back,
                                             !.review = review]]
    BY <1>3, ChangeFacts
  <2>2. [me EXCEPT !.changed = TRUE, !.back = back, !.review = review] \in TxRecord
    BY DEF TxRecord
  <2>3. tx' \in [Txs -> TxRecord] /\ Unseen
    BY <1>1, <1>3, <2>1, <2>2 DEF Change, Unseen
  <2> QED BY <2>3, UnseenKeeps
<1>4. CASE Rollback(t)
  <2>1. tx' \in [Txs -> TxRecord] /\ Unseen
    BY <1>1, <1>4, ClosedFacts DEF Rollback, Unseen
  <2> QED BY <2>1, UnseenKeeps
<1> QED BY <1>2, <1>3, <1>4

\* one step per action
LEMMA InvStep == IInv /\ [Next]_vars => IInv'
<1> SUFFICES ASSUME IInv, [Next]_vars
             PROVE  IInv'
  OBVIOUS
<1>1. ASSUME NEW s \in Slots, ReadToSave(s)
      PROVE  IInv'
  BY <1>1, SaveKeeps
<1>2. ASSUME NEW s \in Slots, ReadToRequest(s)
      PROVE  IInv'
  BY <1>2, NewTaskFacts, TakeKeeps DEF ReadToRequest
<1>3. ASSUME NEW s \in Slots, ReadToReject(s)
      PROVE  IInv'
  BY <1>3, NewTaskFacts, TakeKeeps DEF ReadToReject
<1>4. ASSUME NEW s \in Slots, ReadToApprove(s)
      PROVE  IInv'
  BY <1>4, ApproveKeeps
<1>5. ASSUME NEW s \in Slots, Write(s)
      PROVE  IInv'
  BY <1>5, WriteKeeps
<1>6. ASSUME NEW t \in Txs, Opened(t) \/ Change(t) \/ Rollback(t)
      PROVE  IInv'
  BY <1>6, OpenKeeps
<1>7. ASSUME NEW t \in Txs, Commit(t)
      PROVE  IInv'
  BY <1>7, CommitKeeps
<1>8. CASE UNCHANGED vars
  BY <1>8 DEF vars, IInv, TypeOK, GoodTask, GoodSlot, NeedsReview
<1> QED BY <1>1, <1>2, <1>3, <1>4, <1>5, <1>6, <1>7, <1>8 DEF Next, Opened

LEMMA Invariant == Spec => []IInv
  BY InvInit, InvStep, PTL DEF Spec

\* Task, documents, requests and everything a handler remembers keep the shape of
\* the schema, however requests overlap.
THEOREM TypeCorrect == Spec => []TypeOK
<1>1. IInv => TypeOK
  BY DEF IInv
<1> QED BY <1>1, Invariant, PTL

\* A task that needs review is completed only when approved, also when its
\* handlers decided on stale reads (updateTransactionTask, completeTransactionTask).
THEOREM CompletedIsApproved == Spec => []CompletedMeansApproved
<1>1. IInv => CompletedMeansApproved
  BY DEF IInv, GoodTask, CompletedMeansApproved
<1> QED BY <1>1, Invariant, PTL

\* The two approvals of a task are of two people, also when their handlers
\* decided on stale reads (approveTransactionTask).
THEOREM ApprovedByTwo == Spec => []TwoPeople
<1>1. IInv => TwoPeople
  BY DEF IInv, GoodTask, TwoPeople
<1> QED BY <1>1, Invariant, PTL

----------------------------------------------------------------------------
(* Approvals of the round.  given holds those who approved what was last    *)
(* submitted; a handler that is still fresh knows the task as it is.        *)

Credited(t, G) ==
  t.review = "approved" => /\ G # {}
                           /\ t.second # Nobody => {t.first, t.second} \subseteq G

FreshSlot(r, G) ==
  r.fresh =>
    /\ r.op = "save" => Credited(r.put, G) /\ r.put.review # "second_review"
    /\ r.op = "approve" =>
         /\ r.put.review \in {"second_review", "approved"}
         /\ r.put.review = "second_review" => r.put.first = r.by
         /\ r.put.second # Nobody /\ r.put.review = "approved"
              => r.put.second = r.by /\ r.put.first \in G

RInv ==
  /\ IInv
  /\ ~stale => /\ Credited(task, given)
               /\ task.review = "second_review" => task.first \in given
               /\ \A s \in Slots : FreshSlot(slot[s], given)

LEMMA RoundInit == Init => RInv
<1> SUFFICES ASSUME Init PROVE RInv
  OBVIOUS
<1>1. task.review \in {"pending", "not_required"}
  BY DEF Init, NewTask, DefaultReview
<1>2. \A s \in Slots : FreshSlot(slot[s], given)
  BY DEF Init, Idle, FreshSlot
<1> QED BY <1>1, <1>2, InvInit DEF RInv, Credited

\* a handler that has just read
LEMMA RoundTake ==
  ASSUME RInv, NEW s \in Slots, NEW op, NEW by, NEW put, Take(s, op, by, put), IInv',
         ~stale => FreshSlot([op |-> op, by |-> by, put |-> put, fresh |-> TRUE], given)
  PROVE  RInv'
<1>1. UNCHANGED <<task, docs, sig, given, stale>>
  BY DEF Take
<1>2. slot \in [Slots -> SlotRecord]
  BY TypeParts DEF RInv, IInv
<1>3. ~stale => \A x \in Slots : FreshSlot(slot'[x], given)
  <2> DEFINE me == [op |-> op, by |-> by, put |-> put, fresh |-> TRUE]
  <2>1. slot' = [slot EXCEPT ![s] = me]
    BY DEF Take
  <2>2. ~stale => FreshSlot(me, given)
    OBVIOUS
  <2> HIDE DEF me
  <2> QED BY <1>2, <2>1, <2>2 DEF RInv
<1> QED BY <1>1, <1>3 DEF RInv, Credited, FreshSlot

LEMMA RoundSave ==
  ASSUME RInv, NEW s \in Slots, ReadToSave(s)
  PROVE  RInv'
<1>1. PICK st \in TaskEdits, l \in Levels \cup {task.level}, set \in BOOLEAN :
        /\ st = "completed" => ~Missing([task EXCEPT !.level = l], docs, sig)
        /\ Take(s, "save", Nobody, Saved(task, st, l, set))
  BY DEF ReadToSave
<1> DEFINE put == Saved(task, st, l, set)
<1>2. st \in Status /\ l \in Level /\ task \in TaskRecord /\ GoodTask(task)
  BY TaskAssumption, TypeParts DEF RInv, IInv, TaskRecord
<1>3. /\ put.review # "second_review"
      /\ put.review = "approved" => task.review = "approved"
      /\ put.second # Nobody => put.first = task.first /\ put.second = task.second
  BY <1>1, <1>2, SavedFacts
<1>4. IInv'
  BY SaveKeeps DEF RInv
<1> HIDE DEF put
<1>5. ~stale => FreshSlot([op |-> "save", by |-> Nobody, put |-> put, fresh |-> TRUE], given)
  BY <1>3 DEF RInv, Credited, FreshSlot
<1> QED BY <1>1, <1>4, <1>5, RoundTake DEF put

LEMMA RoundApprove ==
  ASSUME RInv, NEW s \in Slots, ReadToApprove(s)
  PROVE  RInv'
<1>1. PICK p \in People : /\ MayApprove(task, docs, sig, p)
                          /\ Take(s, "approve", p, Approved(task, p))
  BY DEF ReadToApprove
<1> DEFINE put == Approved(task, p)
<1>2. task \in TaskRecord /\ GoodTask(task)
  BY TypeParts DEF RInv, IInv
<1>3. CASE task.level = "second" /\ task.review = "review_requested"
  <2>1. put.review = "second_review" /\ put.first = p
    BY <1>2, <1>3 DEF Approved, TaskRecord
  <2> HIDE DEF put
  <2>2. FreshSlot([op |-> "approve", by |-> p, put |-> put, fresh |-> TRUE], given)
    BY <2>1 DEF FreshSlot
  <2> QED BY <1>1, <2>2, RoundTake, ApproveKeeps DEF RInv, put
<1>4. CASE ~(task.level = "second" /\ task.review = "review_requested")
  <2>1. /\ put.review = "approved"
        /\ put.second # Nobody => /\ task.level = "second" /\ put.second = p
                                 /\ task.review = "second_review"
                                 /\ put.first = task.first
    BY <1>1, <1>2, <1>4 DEF Approved, TaskRecord, MayApprove, GoodTask
  <2> HIDE DEF put
  <2>2. ~stale => FreshSlot([op |-> "approve", by |-> p, put |-> put, fresh |-> TRUE], given)
    BY <2>1 DEF FreshSlot, RInv
  <2> QED BY <1>1, <2>2, RoundTake, ApproveKeeps DEF RInv, put
<1> QED BY <1>3, <1>4

\* after a step that outdates the other handlers only the task counts
LEMMA RoundOutdated ==
  ASSUME IInv', NEW busy \in [Slots -> SlotRecord], \A s \in Slots : GoodSlot(busy[s]),
         slot' = Outdated(busy),
         ~stale' => /\ Credited(task', given')
                    /\ task'.review = "second_review" => task'.first \in given'
  PROVE  RInv'
<1>1. \A s \in Slots : slot'[s].op # "idle" => ~slot'[s].fresh
  BY OutdatedFacts
<1>2. \A s \in Slots : FreshSlot(slot'[s], given')
  BY <1>1 DEF FreshSlot
<1> QED BY <1>2 DEF RInv, Credited, FreshSlot

\* before a transaction commits nobody sees anything of it
LEMMA RoundUnseen ==
  ASSUME RInv, IInv', Unseen
  PROVE  RInv'
BY DEF Unseen, RInv, Credited, FreshSlot

LEMMA RoundCommit ==
  ASSUME RInv, NEW t \in Txs, Commit(t)
  PROVE  RInv'
<1> DEFINE me == tx[t]
<1>1. slot \in [Slots -> SlotRecord] /\ \A s \in Slots : GoodSlot(slot[s])
  BY TypeParts DEF RInv, IInv
<1>2. slot' = Outdated(slot) /\ (~stale' => ~stale)
  BY DEF Commit
<1>3. IInv'
  BY CommitKeeps DEF RInv
<1>4. CASE me.back # "none"
  <2>1. me.back \in {"todo", "reopened"} /\ me.review \in {"pending", "not_required"}
    BY <1>4, TypeParts DEF RInv, IInv, TxRecord
  <2>2. task'.review \in {"pending", "not_required"}
    BY <1>4, <2>1, ResetFacts, TypeParts DEF Commit, RInv, IInv
  <2> QED BY <1>1, <1>2, <1>3, <2>2, RoundOutdated DEF Credited
<1>5. CASE me.back = "none"
  <2>1. task' = task /\ given' = given
    BY <1>5 DEF Commit
  <2> QED BY <1>1, <1>2, <1>3, <2>1, RoundOutdated DEF RInv
<1> QED BY <1>4, <1>5

LEMMA RoundWrite ==
  ASSUME RInv, NEW s \in Slots, Write(s)
  PROVE  RInv'
<1> DEFINE me == slot[s]
<1>1. /\ me \in SlotRecord /\ me.op # "idle" /\ task \in TaskRecord
      /\ slot \in [Slots -> SlotRecord] /\ \A x \in Slots : GoodSlot(slot[x])
  BY TypeParts DEF RInv, IInv, Write
<1>2. /\ task' = WrittenTask(me.op, me.put)
      /\ given' = GivenAfter(me.op, me.by, me.put)
      /\ stale' = (stale \/ ~me.fresh)
  BY DEF Write
<1>3. ~stale' => me.fresh /\ FreshSlot(me, given)
  BY <1>2 DEF RInv
<1>4. ~stale' => /\ Credited(task', given')
                 /\ task'.review = "second_review" => task'.first \in given'
  <2> HIDE DEF me
  <2>1. CASE me.op = "save"
    BY <1>1, <1>2, <1>3, <2>1 DEF WrittenTask, GivenAfter, FreshSlot, Credited, SlotRecord
  <2>2. CASE me.op \in {"request", "reject"}
    BY <1>1, <1>2, <2>2 DEF WrittenTask, TaskRecord, Credited
  <2>3. CASE me.op = "approve"
    <3>1. given' = given \cup {me.by}
      BY <1>2, <2>3 DEF GivenAfter
    <3>2. /\ task'.review = me.put.review /\ task'.first = me.put.first
          /\ me.put.review = "approved" => task'.second = me.put.second
      BY <1>1, <1>2, <2>3 DEF WrittenTask, TaskRecord
    <3> QED BY <1>1, <1>3, <2>3, <3>1, <3>2 DEF FreshSlot, Credited, SlotRecord
  <2> QED BY <1>1, <2>1, <2>2, <2>3 DEF SlotRecord
<1>5. /\ [slot EXCEPT ![s] = Idle] \in [Slots -> SlotRecord]
      /\ \A x \in Slots : GoodSlot([slot EXCEPT ![s] = Idle][x])
  BY <1>1, IdleFacts
<1>6. slot' = Outdated([slot EXCEPT ![s] = Idle])
  BY DEF Write
<1>7. IInv'
  BY WriteKeeps DEF RInv
<1> QED BY <1>4, <1>5, <1>6, <1>7, RoundOutdated

\* one step per action
LEMMA RoundStep == RInv /\ [Next]_vars => RInv'
<1> SUFFICES ASSUME RInv, [Next]_vars
             PROVE  RInv'
  OBVIOUS
<1>0. IInv'
  BY InvStep DEF RInv
<1>1. ASSUME NEW s \in Slots, ReadToSave(s) PROVE RInv'
  BY <1>1, RoundSave
<1>2. ASSUME NEW s \in Slots, ReadToRequest(s) PROVE RInv'
  <2>1. FreshSlot([op |-> "request", by |-> Nobody, put |-> NewTask, fresh |-> TRUE], given)
    BY DEF FreshSlot
  <2> QED BY <1>0, <1>2, <2>1, RoundTake DEF ReadToRequest
<1>3. ASSUME NEW s \in Slots, ReadToReject(s) PROVE RInv'
  <2>1. FreshSlot([op |-> "reject", by |-> Nobody, put |-> NewTask, fresh |-> TRUE], given)
    BY DEF FreshSlot
  <2> QED BY <1>0, <1>3, <2>1, RoundTake DEF ReadToReject
<1>4. ASSUME NEW s \in Slots, ReadToApprove(s) PROVE RInv'
  BY <1>4, RoundApprove
<1>5. ASSUME NEW s \in Slots, Write(s) PROVE RInv'
  BY <1>5, RoundWrite
<1>6. ASSUME NEW t \in Txs, Opened(t) \/ Change(t) \/ Rollback(t) PROVE RInv'
  BY <1>6, OpenKeeps, RoundUnseen DEF RInv
<1>7. ASSUME NEW t \in Txs, Commit(t) PROVE RInv'
  BY <1>7, RoundCommit
<1>8. CASE UNCHANGED vars
  BY <1>0, <1>8 DEF vars, RInv, Credited, FreshSlot
<1> QED BY <1>1, <1>2, <1>3, <1>4, <1>5, <1>6, <1>7, <1>8 DEF Next, Opened

\* While nobody decides on a stale read, an approved task was approved after it was
\* last submitted, and both recorded approvals are of that submission
\* (requestTransactionTaskReview, approveTransactionTask).
THEOREM RoundApproved == Spec => []ApprovedThisRound
<1>1. RInv => ApprovedThisRound
  BY DEF RInv, Credited, ApprovedThisRound
<1> QED BY <1>1, RoundInit, RoundStep, PTL DEF Spec

----------------------------------------------------------------------------
(* Evidence.  Whoever decided on a fresh read decided on what is so: a save    *)
(* that completes has the evidence for what it writes, an approval for the     *)
(* task as it is, and a transaction that left the task alone had read that its *)
(* document is none of the task's, or has seen that the evidence is there.     *)

SoundSlot(r, t, D, S) ==
  r.fresh => /\ r.op = "save" /\ Accepted(r.put) => Evidence(r.put, D, S)
             /\ r.op = "approve" => Evidence(t, D, S)

\* what the reconciliation decided on
Decided(me, t, D, S) ==
  me.back = "none" <=> ~(me.affected /\ ShouldInvalidate(t, D, S))

SoundTx(me, t, D, S) ==
  me.op # "idle" /\ me.fresh =>
    /\ ReadWell(me, D, S)
    /\ me.changed => Decided(me, t, ChangedDocs(me, D), ChangedRequests(me, S))

\* Only a generated document counts through a form, and a signature request is
\* on a document that is there.
Shape(D, S) ==
  /\ \A d \in Docs : "form" \in D[d].link => d \in FormDocs
  /\ \A r \in Requests, d \in Docs : S[r].on = {d} => D[d].there

EInv ==
  /\ IInv
  /\ ~stale => /\ Shape(docs, sig)
               /\ \A s \in Slots : SoundSlot(slot[s], task, docs, sig)
               /\ \A t \in Txs : SoundTx(tx[t], task, docs, sig)

LEMMA TypesOf ==
  ASSUME IInv
  PROVE  /\ task \in TaskRecord /\ docs \in [Docs -> DocRecord]
         /\ sig \in [Requests -> SigRecord] /\ slot \in [Slots -> SlotRecord]
         /\ tx \in [Txs -> TxRecord] /\ \A s \in Slots : GoodSlot(slot[s])
BY TypeParts DEF IInv

LEMMA EvidenceGrows ==
  ASSUME NEW t, NEW D, NEW E, NEW S, NEW Z, Evidence(t, D, S),
         Linked(D) \subseteq Linked(E),
         \A d \in Linked(D) : D[d].status # "uploaded" => E[d].status # "uploaded",
         \A d \in Linked(E) : \A r \in On(d, Z) :
           Z[r].status # "signed" => d \in Linked(D) /\ r \in On(d, S) /\ S[r].status # "signed"
  PROVE  Evidence(t, E, Z)
BY DEF Evidence, Submitted, Unfinished

\* Documents that follow the task stay where they are.
LEMMA FollowShape ==
  ASSUME NEW D \in [Docs -> DocRecord], NEW S, NEW st \in DocStatus
  PROVE  /\ \A d \in Docs : /\ FollowTask(D, S, st)[d].there = D[d].there
                            /\ FollowTask(D, S, st)[d].link = D[d].link
                            /\ FollowTask(D, S, st)[d].status \in {D[d].status, st}
         /\ Linked(FollowTask(D, S, st)) = Linked(D)
<1>1. ASSUME NEW d \in Docs
      PROVE  /\ FollowTask(D, S, st)[d].there = D[d].there
             /\ FollowTask(D, S, st)[d].link = D[d].link
             /\ FollowTask(D, S, st)[d].status \in {D[d].status, st}
  BY DEF FollowTask, DocRecord
<1>2. Linked(FollowTask(D, S, st)) = Linked(D)
  BY <1>1 DEF Linked
<1> QED BY <1>1, <1>2

LEMMA FollowEvidence ==
  ASSUME NEW t, NEW D \in [Docs -> DocRecord], NEW S, NEW st \in {"submitted", "approved"},
         Evidence(t, D, S)
  PROVE  Evidence(t, FollowTask(D, S, st), S)
<1>1. st \in DocStatus /\ st # "uploaded"
  BY DEF DocStatus
<1> DEFINE E == FollowTask(D, S, st)
<1>2. Linked(E) = Linked(D) /\ \A d \in Docs : E[d].status \in {D[d].status, st}
  BY <1>1, FollowShape
<1>3. Linked(D) \subseteq Docs
  BY DEF Linked
<1> HIDE DEF E
<1> QED BY <1>1, <1>2, <1>3, EvidenceGrows DEF E

\* A document that does not count before or after changes nothing.
LEMMA AsideEvidence ==
  ASSUME NEW D \in [Docs -> DocRecord], NEW E \in [Docs -> DocRecord], NEW S, NEW Z, NEW t,
         NEW d \in Docs, d \notin Linked(D), d \notin Linked(E),
         \A e \in Docs \ {d} : E[e] = D[e],
         \A e \in Docs \ {d} : \A r \in Requests : Z[r].on = {e} => Z[r] = S[r],
         Evidence(t, D, S)
  PROVE  Evidence(t, E, Z)
<1>1. Linked(E) = Linked(D) /\ Linked(D) \subseteq Docs \ {d}
  BY DEF Linked
<1>2. \A e \in Linked(D) : E[e] = D[e]
  BY <1>1
<1>3. ASSUME NEW e \in Linked(E), NEW r \in On(e, Z) PROVE r \in On(e, S) /\ S[r] = Z[r]
  BY <1>1, <1>3 DEF On
<1> QED BY <1>1, <1>2, <1>3, EvidenceGrows

----------------------------------------------------------------------------
(* What the handlers of documents, forms and requests change, one by one: they *)
(* keep the shape, and one that does not reconcile the task keeps its evidence *)
(* or is among the exceptions.                                                 *)

Excused(D, S, E, Z) ==
  \/ \E r \in Requests : /\ Z[r].on # {}
                         /\ \/ Z[r].on # S[r].on
                            \/ Z[r].status = "draft" /\ S[r].status # "draft"
  \/ \E d \in FormDocs : D[d].link = {"form"} /\ E[d] # D[d]

LEMMA OthersStay ==
  ASSUME NEW me, NEW d \in Docs, me.doc = {d}, NEW D, NEW S
  PROVE  /\ \A e \in Docs \ {d} : ChangedDocs(me, D)[e] = D[e]
         /\ me.op \notin {"delete", "sign", "request", "resave"}
              => \A r \in Requests : ChangedRequests(me, S)[r] = S[r]
<1>1. ASSUME NEW e \in Docs \ {d} PROVE ChangedDocs(me, D)[e] = D[e]
  BY DEF ChangedDocs
<1> QED BY <1>1 DEF ChangedRequests

\* a new document only adds to the evidence: no request is on it yet
LEMMA CreateKeeps ==
  ASSUME NEW me \in TxRecord, NEW D \in [Docs -> DocRecord], NEW S \in [Requests -> SigRecord],
         NEW t, Shape(D, S), ReadWell(me, D, S), me.op = "create"
  PROVE  /\ Shape(ChangedDocs(me, D), ChangedRequests(me, S))
         /\ Evidence(t, D, S) => Evidence(t, ChangedDocs(me, D), ChangedRequests(me, S))
<1> DEFINE E == ChangedDocs(me, D)
           Z == ChangedRequests(me, S)
<1>1. PICK d \in Docs : /\ me.doc = {d} /\ ~D[d].there
                        /\ "form" \in me.link => d \in FormDocs
  BY DEF ReadWell
<1>2. E[d].there /\ E[d].link = me.link
  BY <1>1 DEF ChangedDocs
<1>3. /\ \A e \in Docs \ {d} : E[e] = D[e]
      /\ \A r \in Requests : Z[r] = S[r]
  BY <1>1, OthersStay
<1> HIDE DEF E, Z
<1>4. Shape(E, Z)
  BY <1>1, <1>2, <1>3 DEF Shape
<1>5. d \notin Linked(D) /\ Linked(D) \subseteq Linked(E)
  BY <1>1, <1>3 DEF Linked
<1>6. \A e \in Linked(D) : E[e] = D[e]
  BY <1>3, <1>5 DEF Linked
<1>7. ASSUME NEW e \in Linked(E), NEW r \in On(e, Z)
      PROVE  e \in Linked(D) /\ r \in On(e, S) /\ Z[r] = S[r]
  BY <1>1, <1>3, <1>7 DEF Linked, On, Shape
<1>8. Evidence(t, D, S) => Evidence(t, E, Z)
  BY <1>5, <1>6, <1>7, EvidenceGrows
<1> QED BY <1>4, <1>8 DEF E, Z

LEMMA DocumentKeeps ==
  ASSUME NEW me \in TxRecord, NEW D \in [Docs -> DocRecord], NEW S \in [Requests -> SigRecord],
         NEW t, Shape(D, S), ReadWell(me, D, S), me.op = "document"
  PROVE  /\ Shape(ChangedDocs(me, D), ChangedRequests(me, S))
         /\ ~me.affected /\ Evidence(t, D, S) =>
              \/ Evidence(t, ChangedDocs(me, D), ChangedRequests(me, S))
              \/ Excused(D, S, ChangedDocs(me, D), ChangedRequests(me, S))
<1> DEFINE E == ChangedDocs(me, D)
           Z == ChangedRequests(me, S)
<1>1. PICK d \in Docs : /\ me.doc = {d} /\ me.link \subseteq {"task"}
                        /\ me.affected = TouchesTask(D[d].link, me.link, "task")
  BY DEF ReadWell
<1>2. E \in [Docs -> DocRecord] /\ D[d] \in DocRecord
  BY ChangedFacts
<1>3. E[d] = [D[d] EXCEPT !.status = me.status, !.link = (@ \ {"task"}) \cup me.link]
  BY <1>1 DEF ChangedDocs
<1>4. E[d].there = D[d].there /\ E[d].link = (D[d].link \ {"task"}) \cup me.link
  BY <1>2, <1>3 DEF DocRecord
<1>5. \A e \in Docs \ {d} : E[e] = D[e]
  BY <1>1, OthersStay
<1>6. Z = S
  <2>1. \A r \in Requests : Z[r] = S[r]
    BY <1>1, OthersStay
  <2> QED BY <2>1, ChangedFacts
<1> HIDE DEF E, Z
<1>7. Shape(E, Z)
  BY <1>1, <1>4, <1>5, <1>6 DEF Shape
<1>8. ASSUME ~me.affected, Evidence(t, D, S)
      PROVE  Evidence(t, E, Z) \/ Excused(D, S, E, Z)
  <2>1. "task" \notin D[d].link /\ me.link = {}
    BY <1>1, <1>8 DEF TouchesTask
  <2>2. D[d].link = {} \/ D[d].link = {"form"}
    BY <1>2, <2>1 DEF DocRecord
  <2>3. E[d].link = D[d].link
    BY <1>4, <2>1
  <2>4. CASE D[d].link = {}
    <3>1. d \notin Linked(E) /\ d \notin Linked(D)
      BY <2>3, <2>4 DEF Linked
    <3> QED BY <1>2, <1>5, <1>6, <1>8, <3>1, AsideEvidence
  <2>5. CASE D[d].link = {"form"} /\ E[d] # D[d]
    <3>1. d \in FormDocs
      BY <2>5 DEF Shape
    <3> QED BY <2>5, <3>1 DEF Excused
  <2>6. CASE E[d] = D[d]
    <3>1. E = D
      BY <1>2, <1>5, <2>6
    <3> QED BY <1>6, <1>8, <3>1
  <2> QED BY <2>2, <2>4, <2>5, <2>6
<1> QED BY <1>7, <1>8 DEF E, Z

\* the form's own update reconciles whatever it touches
LEMMA FormKeeps ==
  ASSUME NEW me \in TxRecord, NEW D \in [Docs -> DocRecord], NEW S \in [Requests -> SigRecord],
         NEW t, Shape(D, S), ReadWell(me, D, S), me.op = "form"
  PROVE  /\ Shape(ChangedDocs(me, D), ChangedRequests(me, S))
         /\ ~me.affected /\ Evidence(t, D, S)
              => Evidence(t, ChangedDocs(me, D), ChangedRequests(me, S))
<1> DEFINE E == ChangedDocs(me, D)
           Z == ChangedRequests(me, S)
<1>1. PICK d \in FormDocs : /\ me.doc = {d} /\ me.link \subseteq {"form"}
                            /\ me.affected = TouchesTask(D[d].link, me.link, "form")
  BY DEF ReadWell
<1>2. d \in Docs
  BY TaskAssumption
<1>3. E \in [Docs -> DocRecord] /\ D[d] \in DocRecord
  BY <1>2, ChangedFacts
<1>4. E[d] = [D[d] EXCEPT !.link = (@ \ {"form"}) \cup me.link]
  BY <1>1, <1>2 DEF ChangedDocs
<1>5. E[d].there = D[d].there /\ E[d].link = (D[d].link \ {"form"}) \cup me.link
  BY <1>3, <1>4 DEF DocRecord
<1>6. \A e \in Docs \ {d} : E[e] = D[e]
  BY <1>1, <1>2, OthersStay
<1>7. Z = S
  <2>1. \A r \in Requests : Z[r] = S[r]
    BY <1>1, <1>2, OthersStay
  <2> QED BY <2>1, ChangedFacts
<1> HIDE DEF E, Z
<1>8. Shape(E, Z)
  BY <1>1, <1>2, <1>5, <1>6, <1>7 DEF Shape
<1>9. ASSUME ~me.affected PROVE E = D
  <2>1. (D[d].link \ {"form"}) \cup me.link = D[d].link
    BY <1>1, <1>9 DEF TouchesTask
  <2>2. E[d] = D[d]
    BY <1>3, <1>4, <2>1 DEF DocRecord
  <2> QED BY <1>3, <1>6, <2>2
<1> QED BY <1>7, <1>8, <1>9 DEF E, Z

LEMMA DeleteKeeps ==
  ASSUME NEW me \in TxRecord, NEW D \in [Docs -> DocRecord], NEW S \in [Requests -> SigRecord],
         NEW t, Shape(D, S), ReadWell(me, D, S), me.op = "delete"
  PROVE  /\ Shape(ChangedDocs(me, D), ChangedRequests(me, S))
         /\ ~me.affected /\ Evidence(t, D, S) =>
              \/ Evidence(t, ChangedDocs(me, D), ChangedRequests(me, S))
              \/ Excused(D, S, ChangedDocs(me, D), ChangedRequests(me, S))
<1> DEFINE E == ChangedDocs(me, D)
           Z == ChangedRequests(me, S)
<1>1. PICK d \in Docs : me.doc = {d} /\ me.affected = TouchesTask(D[d].link, {}, "task")
  BY DEF ReadWell
<1>2. E \in [Docs -> DocRecord] /\ D[d] \in DocRecord
  BY ChangedFacts
<1>3. E[d].link = {}
  BY <1>1 DEF ChangedDocs, NoDoc
<1>4. \A e \in Docs \ {d} : E[e] = D[e]
  BY <1>1, OthersStay
<1>5. \A r \in Requests : IF S[r].on = {d} THEN Z[r].on = {} ELSE Z[r] = S[r]
  BY <1>1 DEF ChangedRequests, NoSig
<1> HIDE DEF E, Z
<1>6. Shape(E, Z)
  BY <1>3, <1>4, <1>5 DEF Shape
<1>7. ASSUME ~me.affected, Evidence(t, D, S)
      PROVE  Evidence(t, E, Z) \/ Excused(D, S, E, Z)
  <2>1. D[d].link = {} \/ D[d].link = {"form"}
    <3>1. "task" \notin D[d].link
      BY <1>1, <1>7 DEF TouchesTask
    <3>2. D[d].link \subseteq {"task", "form"}
      BY <1>2 DEF DocRecord
    <3> QED BY <3>1, <3>2
  <2>2. CASE D[d].link = {}
    <3>1. d \notin Linked(E) /\ d \notin Linked(D)
      BY <1>3, <2>2 DEF Linked
    <3>2. \A e \in Docs \ {d} : \A r \in Requests : Z[r].on = {e} => Z[r] = S[r]
      BY <1>5
    <3> QED BY <1>2, <1>4, <1>7, <3>1, <3>2, AsideEvidence
  <2>3. CASE D[d].link = {"form"}
    <3>1. d \in FormDocs /\ E[d] # D[d]
      BY <1>3, <2>3 DEF Shape
    <3> QED BY <2>3, <3>1 DEF Excused
  <2> QED BY <2>1, <2>2, <2>3
<1> QED BY <1>6, <1>7 DEF E, Z

\* a request that is created or saved again leaves its document alone
LEMMA RequestKeeps ==
  ASSUME NEW me \in TxRecord, NEW D \in [Docs -> DocRecord], NEW S \in [Requests -> SigRecord],
         NEW t, Shape(D, S), ReadWell(me, D, S), me.op \in {"request", "resave"}
  PROVE  /\ Shape(ChangedDocs(me, D), ChangedRequests(me, S))
         /\ Evidence(t, D, S) =>
              \/ Evidence(t, ChangedDocs(me, D), ChangedRequests(me, S))
              \/ Excused(D, S, ChangedDocs(me, D), ChangedRequests(me, S))
<1> DEFINE E == ChangedDocs(me, D)
           Z == ChangedRequests(me, S)
<1>1. PICK d \in Docs, r \in Requests :
        /\ me.doc = {d} /\ me.req = {r} /\ D[d].there
        /\ S[r].on = {} \/ me.sig \in {S[r].status, "draft"}
  BY DEF ReadWell
<1>2. E = D
  <2>1. \A e \in Docs : E[e] = D[e]
    BY DEF ChangedDocs
  <2> QED BY <2>1, ChangedFacts
<1>3. Z[r] = [on |-> {d}, status |-> me.sig]
  BY <1>1 DEF ChangedRequests
<1>4. \A q \in Requests \ {r} : Z[q] = S[q]
  BY <1>1 DEF ChangedRequests
<1>5. S \in [Requests -> SigRecord] /\ Z \in [Requests -> SigRecord]
  BY ChangedFacts
<1> HIDE DEF E, Z
<1>6. Shape(E, Z)
  BY <1>1, <1>2, <1>3, <1>4 DEF Shape
<1>7. CASE S[r].on # {d} \/ me.sig # S[r].status
  <2>1. Z[r].on = {d} /\ Z[r].status = me.sig /\ {d} # {}
    BY <1>3
  <2>2. Excused(D, S, E, Z)
    BY <1>1, <1>7, <2>1 DEF Excused
  <2> QED BY <1>6, <2>2 DEF E, Z
<1>8. CASE S[r].on = {d} /\ me.sig = S[r].status
  <2>1. Z[r] = S[r]
    BY <1>3, <1>5, <1>8 DEF SigRecord
  <2>2. Z = S
    BY <1>4, <1>5, <2>1
  <2> QED BY <1>2, <1>6, <2>2 DEF E, Z
<1> QED BY <1>7, <1>8

\* a request whose document has no link changes nothing that counts
LEMMA SignKeeps ==
  ASSUME NEW me \in TxRecord, NEW D \in [Docs -> DocRecord], NEW S \in [Requests -> SigRecord],
         NEW t, Shape(D, S), ReadWell(me, D, S), me.op = "sign"
  PROVE  /\ Shape(ChangedDocs(me, D), ChangedRequests(me, S))
         /\ ~me.affected /\ Evidence(t, D, S)
              => Evidence(t, ChangedDocs(me, D), ChangedRequests(me, S))
<1> DEFINE E == ChangedDocs(me, D)
           Z == ChangedRequests(me, S)
<1>1. PICK d \in Docs, r \in Requests :
        me.doc = {d} /\ me.req = {r} /\ S[r].on = {d} /\ me.affected = (D[d].link # {})
  BY DEF ReadWell
<1>2. E \in [Docs -> DocRecord] /\ D[d] \in DocRecord
  BY ChangedFacts
<1>3. E[d].there = D[d].there /\ E[d].link = D[d].link
  <2>1. E[d] \in {D[d], [D[d] EXCEPT !.status = me.status, !.signed = me.signed]}
    BY <1>1 DEF ChangedDocs
  <2> HIDE DEF E
  <2> QED BY <1>2, <2>1 DEF DocRecord
<1>4. \A e \in Docs \ {d} : E[e] = D[e]
  BY <1>1 DEF ChangedDocs
<1>5. /\ Z[r] = [S[r] EXCEPT !.status = me.sig]
      /\ \A q \in Requests \ {r} : Z[q] = S[q]
  BY <1>1 DEF ChangedRequests
<1>6. Z[r].on = {d}
  BY <1>1, <1>5 DEF SigRecord
<1> HIDE DEF E, Z
<1>7. Shape(E, Z)
  <2>1. \A e \in Docs : E[e].there = D[e].there /\ E[e].link = D[e].link
    BY <1>3, <1>4
  <2>2. \A q \in Requests : Z[q].on = S[q].on
    BY <1>1, <1>5, <1>6
  <2> QED BY <2>1, <2>2 DEF Shape
<1>8. ASSUME ~me.affected, Evidence(t, D, S) PROVE Evidence(t, E, Z)
  <2>1. d \notin Linked(E) /\ d \notin Linked(D)
    BY <1>1, <1>3, <1>8 DEF Linked
  <2>2. \A e \in Docs \ {d} : \A q \in Requests : Z[q].on = {e} => Z[q] = S[q]
    BY <1>5, <1>6
  <2> QED BY <1>2, <1>4, <1>8, <2>1, <2>2, AsideEvidence
<1> QED BY <1>7, <1>8 DEF E, Z

----------------------------------------------------------------------------
(* The steps.                                                                  *)

Kept == (Accepted(task) => Evidence(task, docs, sig))
          => (Accepted(task') => Evidence(task', docs', sig'))

\* What has reconciled the task leaves it accepted only with its evidence.
LEMMA AffectedEvidence ==
  ASSUME NEW me \in TxRecord, NEW t \in TaskRecord, NEW D, NEW S, Decided(me, t, D, S),
         me.affected,
         NEW u, u = IF me.back = "none" THEN t ELSE Reset(t, me.back, me.review), Accepted(u)
  PROVE  Evidence(u, D, S)
<1>1. CASE me.back = "none"
  <2>1. u = t /\ ~ShouldInvalidate(t, D, S)
    BY <1>1 DEF Decided
  <2>2. NeedsDocument(t) /\ WorkflowCommitted(t)
    BY <2>1 DEF Accepted, WorkflowCommitted
  <2> QED BY <2>1, <2>2 DEF ShouldInvalidate, Evidence
<1>2. CASE me.back # "none"
  <2>1. me.back \in {"todo", "reopened"} /\ me.review \in {"pending", "not_required"}
    BY <1>2 DEF TxRecord
  <2>2. u.status \in {"todo", "reopened"} /\ u.review \in {"pending", "not_required"}
    BY <1>2, <2>1, ResetFacts
  <2> QED BY <2>2 DEF Accepted
<1> QED BY <1>1, <1>2

\* Whatever a handler changes keeps the shape, and the evidence of a task t that it
\* does not reconcile, apart from the exceptions.
LEMMA ChangeKeeps ==
  ASSUME NEW me \in TxRecord, NEW D \in [Docs -> DocRecord], NEW S \in [Requests -> SigRecord],
         NEW t, Shape(D, S), ReadWell(me, D, S), me.op # "idle"
  PROVE  /\ Shape(ChangedDocs(me, D), ChangedRequests(me, S))
         /\ ~me.affected /\ Evidence(t, D, S) =>
              \/ Evidence(t, ChangedDocs(me, D), ChangedRequests(me, S))
              \/ Excused(D, S, ChangedDocs(me, D), ChangedRequests(me, S))
<1>1. CASE me.op = "create"
  BY <1>1, CreateKeeps
<1>2. CASE me.op = "document"
  BY <1>2, DocumentKeeps
<1>3. CASE me.op = "form"
  BY <1>3, FormKeeps
<1>4. CASE me.op = "delete"
  BY <1>4, DeleteKeeps
<1>5. CASE me.op \in {"request", "resave"}
  BY <1>5, RequestKeeps
<1>6. CASE me.op = "sign"
  BY <1>6, SignKeeps
<1> QED BY <1>1, <1>2, <1>3, <1>4, <1>5, <1>6 DEF TxRecord

LEMMA CommitEvidence ==
  ASSUME EInv, NEW t \in Txs, Commit(t), ~stale'
  PROVE  Shape(docs', sig') /\ (Kept \/ Excused(docs, sig, docs', sig'))
<1> DEFINE me == tx[t]
<1>1. /\ task \in TaskRecord /\ docs \in [Docs -> DocRecord] /\ sig \in [Requests -> SigRecord]
      /\ me \in TxRecord
  BY TypesOf DEF EInv
<1>2. /\ docs' = ChangedDocs(me, docs) /\ sig' = ChangedRequests(me, sig)
      /\ task' = IF me.back = "none" THEN task ELSE Reset(task, me.back, me.review)
      /\ me.op # "idle" /\ me.changed /\ me.fresh /\ ~stale
  BY DEF Commit
<1>3. Shape(docs, sig) /\ SoundTx(me, task, docs, sig)
  BY <1>2 DEF EInv
<1> HIDE DEF me
<1>4. ReadWell(me, docs, sig) /\ Decided(me, task, docs', sig')
  BY <1>2, <1>3 DEF SoundTx
<1>5. /\ Shape(docs', sig')
      /\ ~me.affected /\ Evidence(task, docs, sig)
           => Evidence(task, docs', sig') \/ Excused(docs, sig, docs', sig')
  BY <1>1, <1>2, <1>3, <1>4, ChangeKeeps
<1>6. CASE me.affected
  <2>1. Accepted(task') => Evidence(task', docs', sig')
    BY <1>1, <1>2, <1>4, <1>6, AffectedEvidence
  <2> QED BY <1>5, <2>1 DEF Kept
<1>7. CASE ~me.affected
  <2>1. task' = task
    BY <1>2, <1>4, <1>7 DEF Decided
  <2> QED BY <1>5, <1>7, <2>1 DEF Kept
<1> QED BY <1>1, <1>6, <1>7 DEF TxRecord

\* The write of an office handler that decided on a fresh read.
LEMMA WriteEvidence ==
  ASSUME EInv, NEW s \in Slots, Write(s), ~stale'
  PROVE  Accepted(task') => Evidence(task', docs', sig')
<1> DEFINE me == slot[s]
<1>1. /\ task \in TaskRecord /\ docs \in [Docs -> DocRecord] /\ me \in SlotRecord /\ GoodSlot(me)
      /\ me.op # "idle" /\ me.fresh /\ SoundSlot(me, task, docs, sig)
  BY TypesOf DEF EInv, IInv, Write
<1>2. task' = WrittenTask(me.op, me.put) /\ docs' = WrittenDocs(me.op, me.put) /\ sig' = sig
  BY DEF Write
<1> HIDE DEF me
<1>3. CASE me.op = "save"
  BY <1>1, <1>2, <1>3 DEF SoundSlot, WrittenTask, WrittenDocs
<1>4. CASE me.op \in {"request", "reject"}
  <2>1. /\ task'.status \in {"review_requested", "reopened"}
        /\ task'.review \in {"review_requested", "rejected"}
    BY <1>1, <1>2, <1>4 DEF WrittenTask, TaskRecord
  <2> QED BY <2>1 DEF Accepted
<1>5. CASE me.op = "approve"
  <2>1. Evidence(task, docs, sig)
    BY <1>1, <1>5 DEF SoundSlot
  <2>2. task'.level = task.level
    BY <1>1, <1>2, <1>5 DEF WrittenTask, TaskRecord
  <2>3. PICK st \in {"submitted", "approved"} : docs' = FollowTask(docs, sig, st)
    BY <1>2, <1>5 DEF WrittenDocs
  <2>4. Evidence(task, docs', sig')
    BY <1>1, <1>2, <2>1, <2>3, FollowEvidence
  <2> QED BY <2>2, <2>4 DEF Evidence, NeedsReview
<1> QED BY <1>1, <1>3, <1>4, <1>5 DEF SlotRecord

----------------------------------------------------------------------------
(* The invariant.                                                              *)

\* An office handler that has just read.
LEMMA EvidenceTake ==
  ASSUME EInv, IInv', NEW s \in Slots, NEW o, NEW by, NEW put, Take(s, o, by, put),
         o = "save" /\ Accepted(put) => Evidence(put, docs, sig),
         o = "approve" => Evidence(task, docs, sig)
  PROVE  EInv'
<1> DEFINE me == [op |-> o, by |-> by, put |-> put, fresh |-> TRUE]
<1>1. slot' = [slot EXCEPT ![s] = me] /\ UNCHANGED <<task, docs, sig, tx, stale>>
  BY DEF Take
<1>2. slot \in [Slots -> SlotRecord]
  BY TypesOf DEF EInv
<1>3. SoundSlot(me, task, docs, sig)
  BY DEF SoundSlot
<1> HIDE DEF me
<1>4. ~stale => \A x \in Slots : SoundSlot(slot'[x], task, docs, sig)
  BY <1>1, <1>2, <1>3 DEF EInv
<1> QED BY <1>1, <1>4 DEF EInv

\* After a step the others can see nobody else knows how things are.
LEMMA EvidenceOutdated ==
  ASSUME IInv', ~stale' => Shape(docs', sig'),
         NEW busy \in [Slots -> SlotRecord], \A s \in Slots : GoodSlot(busy[s]),
         slot' = Outdated(busy), NEW open \in [Txs -> TxRecord], tx' = Outdated(open)
  PROVE  EInv'
<1>1. \A s \in Slots : slot'[s].op # "idle" => ~slot'[s].fresh
  BY OutdatedFacts
<1>2. \A t \in Txs : tx'[t].op # "idle" => ~tx'[t].fresh
  BY OvertakenFacts
<1>3. ASSUME NEW s \in Slots PROVE SoundSlot(slot'[s], task', docs', sig')
  BY <1>1 DEF SoundSlot
<1>4. ASSUME NEW t \in Txs PROVE SoundTx(tx'[t], task', docs', sig')
  BY <1>2 DEF SoundTx
<1> QED BY <1>3, <1>4 DEF EInv

\* A transaction that has read or changed but not committed.
LEMMA EvidenceUnseen ==
  ASSUME EInv, IInv', Unseen, NEW t \in Txs, NEW me, tx' = [tx EXCEPT ![t] = me],
         ~stale => SoundTx(me, task, docs, sig)
  PROVE  EInv'
<1>1. tx \in [Txs -> TxRecord]
  BY TypesOf DEF EInv
<1>2. ~stale => \A u \in Txs : SoundTx(tx'[u], task, docs, sig)
  BY <1>1 DEF EInv
<1> QED BY <1>2 DEF EInv, Unseen

LEMMA EvidenceOpened ==
  ASSUME EInv, IInv', Unseen, NEW t \in Txs, Opened(t)
  PROVE  EInv'
<1>1. PICK what \in TxRecord : Open(t, what) /\ ReadWell(what, docs, sig) /\ ~what.changed
  BY OpenDocument, OpenRequest DEF Opened, EInv
<1>2. tx' = [tx EXCEPT ![t] = what]
  BY <1>1 DEF Open
<1>3. SoundTx(what, task, docs, sig)
  BY <1>1 DEF SoundTx
<1> QED BY <1>2, <1>3, EvidenceUnseen

LEMMA EvidenceChange ==
  ASSUME EInv, IInv', Unseen, NEW t \in Txs, Change(t)
  PROVE  EInv'
<1>1. PICK me \in TxRecord, back \in {"none", "todo", "reopened"},
           review \in {"pending", "not_required"} :
        /\ me = Changing(tx[t])
        /\ tx' = [tx EXCEPT ![t] = [me EXCEPT !.changed = TRUE, !.back = back,
                                              !.review = review]]
        /\ back = "none" <=> ~(/\ me.affected
                               /\ ShouldInvalidate(task, ChangedDocs(me, docs),
                                                   ChangedRequests(me, sig)))
  BY ChangeFacts DEF EInv
<1> DEFINE you == [me EXCEPT !.changed = TRUE, !.back = back, !.review = review]
<1>2. /\ you.op = me.op /\ you.doc = me.doc /\ you.req = me.req /\ you.link = me.link
      /\ you.status = me.status /\ you.signed = me.signed /\ you.sig = me.sig
      /\ you.rows = me.rows /\ you.affected = me.affected /\ you.fresh = me.fresh
      /\ you.back = back
  BY DEF TxRecord
<1>3. tx[t] \in TxRecord
  BY TypesOf DEF EInv
<1>4. /\ me.op = tx[t].op /\ me.doc = tx[t].doc /\ me.req = tx[t].req
      /\ me.link = tx[t].link /\ me.sig = tx[t].sig /\ me.affected = tx[t].affected
      /\ me.fresh = tx[t].fresh
  BY <1>1, <1>3, ChangingFacts
<1>5. tx' = [tx EXCEPT ![t] = you]
  BY <1>1
<1> HIDE DEF you
<1>6. /\ ChangedDocs(you, docs) = ChangedDocs(me, docs)
      /\ ChangedRequests(you, sig) = ChangedRequests(me, sig)
  BY <1>2 DEF ChangedDocs, ChangedRequests
<1>7. ASSUME ~stale, you.op # "idle", you.fresh PROVE ReadWell(you, docs, sig)
  <2>1. ReadWell(tx[t], docs, sig)
    BY <1>2, <1>4, <1>7 DEF EInv, SoundTx
  <2> QED BY <1>2, <1>4, <2>1 DEF ReadWell
<1>8. Decided(you, task, ChangedDocs(you, docs), ChangedRequests(you, sig))
  BY <1>1, <1>2, <1>6 DEF Decided
<1>9. ~stale => SoundTx(you, task, docs, sig)
  BY <1>7, <1>8 DEF SoundTx
<1> QED BY <1>5, <1>9, EvidenceUnseen

LEMMA EvidenceReads ==
  ASSUME EInv, IInv', NEW s \in Slots,
         ReadToSave(s) \/ ReadToRequest(s) \/ ReadToReject(s) \/ ReadToApprove(s)
  PROVE  EInv'
<1>1. task \in TaskRecord
  BY TypesOf DEF EInv
<1>2. CASE ReadToSave(s)
  <2>1. PICK st \in TaskEdits, l \in Levels \cup {task.level}, set \in BOOLEAN :
          /\ st = "completed" => ~Missing([task EXCEPT !.level = l], docs, sig)
          /\ Take(s, "save", Nobody, Saved(task, st, l, set))
    BY <1>2 DEF ReadToSave
  <2> DEFINE put == Saved(task, st, l, set)
             n   == [task EXCEPT !.level = l]
  <2>2. put.status = st /\ put.level = l /\ n.level = l
    BY <1>1 DEF Saved, TaskRecord
  <2>3. st # "completed" => put.review \in {"review_requested", "pending", "not_required"}
    BY <1>1 DEF Saved, TaskRecord, DefaultReview
  <2>4. st = "completed" => ~Missing(n, docs, sig)
    BY <2>1
  <2> HIDE DEF put, n
  <2>5. Accepted(put) => Evidence(put, docs, sig)
    BY <2>2, <2>3, <2>4 DEF Accepted, Missing, Evidence, NeedsDocument, NeedsReview
  <2> QED BY <2>1, <2>5, EvidenceTake DEF put
<1>3. CASE ReadToRequest(s)
  BY <1>3, EvidenceTake DEF ReadToRequest
<1>4. CASE ReadToReject(s)
  BY <1>4, EvidenceTake DEF ReadToReject
<1>5. CASE ReadToApprove(s)
  <2>1. PICK p \in People : /\ MayApprove(task, docs, sig, p)
                            /\ Take(s, "approve", p, Approved(task, p))
    BY <1>5 DEF ReadToApprove
  <2>2. Evidence(task, docs, sig)
    BY <2>1 DEF MayApprove, Evidence, Submitted
  <2> QED BY <2>1, <2>2, EvidenceTake
<1> QED BY <1>2, <1>3, <1>4, <1>5

LEMMA EvidenceWrites ==
  ASSUME EInv, IInv', NEW s \in Slots, Write(s)
  PROVE  EInv'
<1>1. /\ docs \in [Docs -> DocRecord] /\ slot \in [Slots -> SlotRecord]
      /\ tx \in [Txs -> TxRecord] /\ \A x \in Slots : GoodSlot(slot[x])
  BY TypesOf DEF EInv
<1>2. /\ [slot EXCEPT ![s] = Idle] \in [Slots -> SlotRecord]
      /\ \A x \in Slots : GoodSlot([slot EXCEPT ![s] = Idle][x])
  BY <1>1, IdleFacts
<1>3. /\ slot' = Outdated([slot EXCEPT ![s] = Idle]) /\ tx' = Outdated(tx) /\ sig' = sig
      /\ ~stale' => ~stale
  BY DEF Write
<1>4. docs' = docs \/ \E st \in DocStatus : docs' = FollowTask(docs, sig, st)
  BY DEF Write, WrittenDocs, DocStatus
<1>5. \A d \in Docs : docs'[d].link = docs[d].link /\ docs'[d].there = docs[d].there
  BY <1>1, <1>4, FollowShape
<1>6. ~stale' => Shape(docs', sig')
  BY <1>3, <1>5 DEF EInv, Shape
<1> QED BY <1>1, <1>2, <1>3, <1>6, EvidenceOutdated

LEMMA EvidenceCommits ==
  ASSUME EInv, IInv', NEW t \in Txs, Commit(t)
  PROVE  EInv'
<1>1. /\ slot \in [Slots -> SlotRecord] /\ \A s \in Slots : GoodSlot(slot[s])
      /\ [tx EXCEPT ![t] = Closed] \in [Txs -> TxRecord]
  BY TypesOf, ClosedFacts DEF EInv
<1>2. slot' = Outdated(slot) /\ tx' = Outdated([tx EXCEPT ![t] = Closed])
  BY DEF Commit
<1>3. ~stale' => Shape(docs', sig')
  BY CommitEvidence
<1> QED BY <1>1, <1>2, <1>3, EvidenceOutdated

LEMMA EvidenceInit == Init => EInv
<1> SUFFICES ASSUME Init PROVE EInv
  OBVIOUS
<1>1. \A d \in Docs : docs[d].link = {}
  BY DEF Init, NoDoc
<1>2. \A r \in Requests : sig[r].on = {}
  BY DEF Init, NoSig
<1>3. \A s \in Slots : slot[s].op = "idle"
  BY DEF Init, Idle
<1>4. \A t \in Txs : tx[t].op = "idle"
  BY DEF Init, Closed
<1> QED BY <1>1, <1>2, <1>3, <1>4, InvInit DEF EInv, Shape, SoundSlot, SoundTx

LEMMA EvidenceStep == EInv /\ [Next]_vars => EInv'
<1> SUFFICES ASSUME EInv, [Next]_vars PROVE EInv'
  OBVIOUS
<1>1. IInv'
  BY InvStep DEF EInv
<1>2. ASSUME NEW s \in Slots,
             ReadToSave(s) \/ ReadToRequest(s) \/ ReadToReject(s) \/ ReadToApprove(s)
      PROVE  EInv'
  BY <1>1, <1>2, EvidenceReads
<1>3. ASSUME NEW s \in Slots, Write(s) PROVE EInv'
  BY <1>1, <1>3, EvidenceWrites
<1>4. ASSUME NEW t \in Txs, Opened(t) PROVE EInv'
  BY <1>1, <1>4, OpenKeeps, EvidenceOpened DEF EInv
<1>5. ASSUME NEW t \in Txs, Change(t) PROVE EInv'
  BY <1>1, <1>5, OpenKeeps, EvidenceChange DEF EInv
<1>6. ASSUME NEW t \in Txs, Rollback(t) PROVE EInv'
  <2>1. tx' = [tx EXCEPT ![t] = Closed] /\ SoundTx(Closed, task, docs, sig)
    BY <1>6, ClosedFacts DEF Rollback, SoundTx
  <2>2. Unseen
    BY <1>6, OpenKeeps DEF EInv
  <2> QED BY <1>1, <2>1, <2>2, EvidenceUnseen
<1>7. ASSUME NEW t \in Txs, Commit(t) PROVE EInv'
  BY <1>1, <1>7, EvidenceCommits
<1>8. CASE UNCHANGED vars
  BY <1>1, <1>8 DEF vars, EInv
<1> QED BY <1>2, <1>3, <1>4, <1>5, <1>6, <1>7, <1>8 DEF Next, Opened

\* What was accepted on evidence never loses it without being reopened while nobody
\* decides on what is no longer so, the transactions of documents, forms and requests
\* that overlap another's commit included: each of them reconciles the task it touches
\* (reconcileTransactionTaskDocumentWorkflow) apart from those the property names, and
\* the office handlers decide on the evidence they read.
THEOREM AcceptedOnEvidence == Spec => EvidenceKept
<1> DEFINE Step == ~stale' /\ (Accepted(task) => Evidence(task, docs, sig))
              => \/ Accepted(task') => Evidence(task', docs', sig')
                 \/ \E r \in Requests : /\ sig'[r].on # {}
                                       /\ \/ sig'[r].on # sig[r].on
                                          \/ sig'[r].status = "draft" /\ sig[r].status # "draft"
                 \/ \E d \in FormDocs : docs[d].link = {"form"} /\ docs'[d] # docs[d]
<1>1. EInv /\ [Next]_vars => [Step]_vars
  <2> SUFFICES ASSUME EInv, Next PROVE Step
    OBVIOUS
  <2>1. ~stale' /\ (Kept \/ Excused(docs, sig, docs', sig')) => Step
    BY DEF Kept, Excused
  <2>2. UNCHANGED <<task, docs, sig>> => Step
    OBVIOUS
  <2>3. ASSUME NEW s \in Slots,
               ReadToSave(s) \/ ReadToRequest(s) \/ ReadToReject(s) \/ ReadToApprove(s)
        PROVE  Step
    <3>1. UNCHANGED <<task, docs, sig>>
      BY <2>3 DEF ReadToSave, ReadToRequest, ReadToReject, ReadToApprove, Take
    <3> QED BY <2>2, <3>1
  <2>4. ASSUME NEW s \in Slots, Write(s) PROVE Step
    BY <2>4, WriteEvidence
  <2>5. ASSUME NEW t \in Txs, Opened(t) \/ Change(t) \/ Rollback(t) PROVE Step
    <3>1. Unseen
      BY <2>5, OpenKeeps DEF EInv
    <3> QED BY <2>2, <3>1 DEF Unseen
  <2>6. ASSUME NEW t \in Txs, Commit(t) PROVE Step
    BY <2>1, <2>6, CommitEvidence
  <2> QED BY <2>3, <2>4, <2>5, <2>6 DEF Next, Opened
<1> QED BY <1>1, EvidenceInit, EvidenceStep, PTL DEF Spec, EvidenceKept

=============================================================================
