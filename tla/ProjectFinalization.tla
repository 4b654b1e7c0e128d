------------------------ MODULE ProjectFinalization -------------------------
(***************************************************************************)
(* What happens to a project packet once its documents are signed: a       *)
(* finalize job builds the signed PDF of each document, records it, files  *)
(* it in the project archive, writes one distribution row per party, and   *)
(* queues the jobs that mail a link to each of them and copy the PDF to    *)
(* Drive; the last one completes the session. Every statement is a step of *)
(* its own, between which other workers run and the process may die. Jobs  *)
(* are claimed, marked and retried by JobQueue.                            *)
(***************************************************************************)
EXTENDS Naturals, Sequences, FiniteSets

CONSTANTS Docs,         \* the documents of the packet
          Parties,      \* signers, responsible agent, archive addresses
          Failing,      \* the steps whose calls may fail
          MaxFiles,     \* bound: signed PDFs built
          Workers, MaxAttempts, Lease, MaxDelay, Prompt, MaxCrashes

Files == 1..MaxFiles
Rows == 1..(Cardinality(Docs) * Cardinality(Parties))

JobIds == ({"finalize"} \X Docs) \cup ({"email"} \X Rows) \cup ({"drive"} \X Files)

VARIABLES jobs, worker, failures, crashes,   \* of the queue
          task,      \* what each worker is doing
          doc,       \* the session's documents, with their archive entries
          files,     \* the document of each SignatureArtifact
          rows,      \* ProjectDocumentDistribution
          session,   \* status of the session
          mailed     \* the links that left, by document and party

Queue == INSTANCE JobQueue WITH Jobs <- JobIds

payload == <<doc, files, rows, session, mailed>>
vars == <<jobs, worker, failures, crashes, task, payload>>

ASSUME FinalizationAssumption ==
  /\ IsFiniteSet(Docs) /\ IsFiniteSet(Parties) /\ Parties # {}
  /\ MaxFiles \in Nat
  /\ Queue!QueueAssumption

Idle == [job |-> {}, step |-> "idle", file |-> 0, todo |-> {}, mine |-> {}]

Init ==
  /\ Queue!Init
  /\ task = [w \in Workers |-> Idle]
  /\ doc = [d \in Docs |-> [status |-> "signed", file |-> 0, final |-> "none", archive |-> 0]]
  /\ files = <<>>
  /\ rows = <<>>
  /\ session = "awaiting_signers"
  /\ mailed = [d \in Docs |-> [p \in Parties |-> <<>>]]

-----------------------------------------------------------------------------
(* The request that brings the last signature of a document.               *)

LastSignature(d) ==
  /\ doc[d].status # "completed"
  /\ doc' = [doc EXCEPT ![d].status = "completed", ![d].final = "queued"]
  /\ UNCHANGED <<jobs, worker, failures, crashes, task, files, rows, session, mailed>>

AskFinalize(d) ==
  /\ doc[d].status = "completed" /\ jobs[<<"finalize", d>>].status = "absent"
  /\ Queue!Enqueue(<<"finalize", d>>)
  /\ UNCHANGED <<task, payload>>

-----------------------------------------------------------------------------
(* Workers.                                                                *)

FirstStep(kind) ==
  CASE kind = "finalize" -> "load" [] kind = "email" -> "check" [] kind = "drive" -> "sync"

Claim(w, j) ==
  /\ task[w].step = "idle"
  /\ Queue!Claim(w, j)
  /\ task' = [task EXCEPT ![w] = [Idle EXCEPT !.job = {j}, !.step = "claimed"]]
  /\ UNCHANGED payload

ReadJob(w, j) ==
  /\ task[w].step = "claimed"
  /\ Queue!Read(w, j)
  /\ task' = [task EXCEPT ![w] = [Idle EXCEPT !.job = {j}, !.step = FirstStep(j[1])]]
  /\ UNCHANGED payload

\* The worker is at `step' of job <<kind, x>>.
At(w, step, kind, x) == task[w].step = step /\ task[w].job = {<<kind, x>>}
Goto(w, step) == task' = [task EXCEPT ![w].step = step]
QueueRests == UNCHANGED <<jobs, worker, failures, crashes>>

(* finalizeProjectSigningPdf                                               *)

Finished_Never(d) == FALSE
Finished(d) == doc[d].file # 0

Load(w, d) ==
  /\ At(w, "load", "finalize", d)
  /\ Goto(w, IF Finished(d) THEN "done" ELSE "build")
  /\ QueueRests /\ UNCHANGED payload

Build(w, d) ==
  /\ At(w, "build", "finalize", d) /\ Len(files) < MaxFiles
  /\ files' = Append(files, d)
  /\ task' = [task EXCEPT ![w].step = "record", ![w].file = Len(files) + 1]
  /\ QueueRests /\ UNCHANGED <<doc, rows, session, mailed>>

\* markProjectSessionDocumentCompleted
Record(w, d) ==
  /\ At(w, "record", "finalize", d)
  /\ doc' = [doc EXCEPT ![d].status = "completed", ![d].file = task[w].file,
                        ![d].final = "succeeded"]
  /\ Goto(w, "archive")
  /\ QueueRests /\ UNCHANGED <<files, rows, session, mailed>>

Signed_Newest(w) == Len(files)
Signed(w) == task[w].file

\* SalesProjectDocument.sessionDocumentId is unique: a second entry fails.
Archive(w, d) ==
  /\ At(w, "archive", "finalize", d) /\ doc[d].archive = 0
  /\ doc' = [doc EXCEPT ![d].archive = Signed(w)]
  /\ task' = [task EXCEPT ![w].step = "rows", ![w].todo = Parties]
  /\ QueueRests /\ UNCHANGED <<files, rows, session, mailed>>

\* createProjectDistributionRows, one row after the other
AddRow(w, d, p) ==
  /\ At(w, "rows", "finalize", d) /\ p \in task[w].todo
  /\ rows' = Append(rows, [doc |-> d, to |-> p, file |-> task[w].file, status |-> "queued"])
  /\ task' = [task EXCEPT ![w].todo = task[w].todo \ {p},
                          ![w].mine = task[w].mine \cup {Len(rows) + 1},
                          ![w].step = IF task[w].todo = {p} THEN "mails" ELSE "rows"]
  /\ QueueRests /\ UNCHANGED <<doc, files, session, mailed>>

\* The email jobs are queued when all rows are there.
QueueMail(w, d, i) ==
  /\ At(w, "mails", "finalize", d) /\ i \in task[w].mine
  /\ Queue!Enqueue(<<"email", i>>)
  /\ task' = [task EXCEPT ![w].mine = task[w].mine \ {i},
                          ![w].step = IF task[w].mine = {i} THEN "copy" ELSE "mails"]
  /\ UNCHANGED payload

QueueDrive(w, d) ==
  /\ At(w, "copy", "finalize", d)
  /\ Queue!Enqueue(<<"drive", task[w].file>>)
  /\ Goto(w, "session")
  /\ UNCHANGED payload

\* The statuses completeProjectSigningSessionIfReady may complete.
Completable_Awaiting(status) == status = "awaiting_signers"
Completable(status) == status \in {"awaiting_signers", "partially_signed"}

\* completeProjectSigningSessionIfReady
CompleteSession(w, d) ==
  /\ At(w, "session", "finalize", d)
  /\ session' = IF \E c \in Docs : doc[c].status # "completed"
                  THEN IF session = "awaiting_signers" THEN "partially_signed" ELSE session
                  ELSE IF Completable(session) THEN "completed" ELSE session
  /\ Goto(w, "done")
  /\ QueueRests /\ UNCHANGED <<doc, files, rows, mailed>>

(* sendProjectCompletionEmail                                              *)

SentBefore_Never(row) == FALSE
SentBefore_Started(row) == row.status # "queued"
SentBefore(row) == row.status = "sent"

Check(w, i) ==
  /\ At(w, "check", "email", i)
  /\ IF SentBefore(rows[i])
       THEN Goto(w, "done") /\ UNCHANGED rows
       ELSE Goto(w, "send") /\ rows' = [rows EXCEPT ![i].status = "sending"]
  /\ QueueRests /\ UNCHANGED <<doc, files, session, mailed>>

Send(w, i) ==
  /\ At(w, "send", "email", i)
  /\ mailed' = [mailed EXCEPT ![rows[i].doc][rows[i].to] = Append(@, rows[i].file)]
  /\ Goto(w, "mark")
  /\ QueueRests /\ UNCHANGED <<doc, files, rows, session>>

MarkSent(w, i) ==
  /\ At(w, "mark", "email", i)
  /\ rows' = [rows EXCEPT ![i].status = "sent"]
  /\ Goto(w, "done")
  /\ QueueRests /\ UNCHANGED <<doc, files, session, mailed>>

\* syncProjectArtifactToDrive: failures are kept on the artifact, not thrown.
Sync(w, f) ==
  /\ At(w, "sync", "drive", f)
  /\ Goto(w, "done")
  /\ QueueRests /\ UNCHANGED payload

Done(w, j) ==
  /\ task[w].step = "done"
  /\ Queue!Succeed(w, j)
  /\ task' = [task EXCEPT ![w] = Idle]
  /\ UNCHANGED payload

-----------------------------------------------------------------------------
(* Failures.                                                               *)

Throws(w, j) ==
  \/ task[w].step \in Failing
  \/ task[w].step = "archive" /\ doc[j[2]].archive # 0

Reported_Finalize(kind) == kind = "finalize"
Reported(kind) == kind \in {"finalize", "email"}

\* processClaimedJob catches and marks; a job given up is then reported.
Fail(w, j) ==
  /\ task[w].job = {j} /\ Throws(w, j)
  /\ Queue!Fail(w, j)
  /\ task' = [task EXCEPT ![w] =
       IF jobs'[j].status = "failed" /\ Reported(j[1])
         THEN [Idle EXCEPT !.job = {j}, !.step = "report"] ELSE Idle]
  /\ UNCHANGED payload

ReportRow(w, i) ==
  /\ At(w, "report", "email", i)
  /\ rows' = [rows EXCEPT ![i].status = "failed"]
  /\ task' = [task EXCEPT ![w] = Idle]
  /\ QueueRests /\ UNCHANGED <<doc, files, session, mailed>>

ReportDoc(w, d) ==
  /\ At(w, "report", "finalize", d)
  /\ doc' = [doc EXCEPT ![d].final = "failed"]
  /\ task' = [task EXCEPT ![w] = Idle]
  /\ QueueRests /\ UNCHANGED <<files, rows, session, mailed>>

\* The process dies: between any two statements of a job, the mark of a job
\* given up and its report included.
Crash(w) ==
  /\ task[w].step # "idle"
  /\ Queue!Crash(w)
  /\ task' = [task EXCEPT ![w] = Idle]
  /\ UNCHANGED payload

Tick == Queue!Tick /\ UNCHANGED <<task, payload>>

Finalize(w, d) ==
  \/ Load(w, d) \/ Build(w, d) \/ Record(w, d) \/ Archive(w, d)
  \/ \E p \in Parties : AddRow(w, d, p)
  \/ \E i \in Rows : QueueMail(w, d, i)
  \/ QueueDrive(w, d) \/ CompleteSession(w, d) \/ ReportDoc(w, d)

Email(w, i) == Check(w, i) \/ Send(w, i) \/ MarkSent(w, i) \/ ReportRow(w, i)

Work(w) ==
  \/ \E j \in JobIds : Claim(w, j) \/ ReadJob(w, j) \/ Done(w, j) \/ Fail(w, j)
  \/ \E d \in Docs : Finalize(w, d)
  \/ \E i \in Rows : Email(w, i)
  \/ \E f \in Files : Sync(w, f)

Next ==
  \/ \E d \in Docs : LastSignature(d) \/ AskFinalize(d)
  \/ \E w \in Workers : Work(w) \/ Crash(w)
  \/ Tick

Spec == Init /\ [][Next]_vars

\* Scans keep coming and go on with what they took; so does the request that
\* brought the last signature; time passes.
FairSpec ==
  /\ Spec
  /\ \A d \in Docs : WF_vars(AskFinalize(d))
  /\ \A w \in Workers : WF_vars(Work(w))
  /\ WF_vars(Tick)

-----------------------------------------------------------------------------
(* Properties.                                                             *)

TypeOK ==
  /\ Queue!TypeOK
  /\ task \in [Workers -> [job : SUBSET JobIds, file : 0..MaxFiles, todo : SUBSET Parties,
                           mine : SUBSET Rows,
                           step : {"idle", "claimed", "load", "build", "record", "archive", "rows",
                                   "mails", "copy", "session", "check", "send", "mark",
                                   "sync", "done", "report"}]]
  /\ doc \in [Docs -> [status : {"signed", "completed"}, file : 0..MaxFiles,
                       final : {"none", "queued", "succeeded", "failed"},
                       archive : 0..MaxFiles]]
  /\ files \in Seq(Docs) /\ Len(files) <= MaxFiles
  /\ rows \in Seq([doc : Docs, to : Parties, file : Files,
                   status : {"queued", "sending", "sent", "failed"}])
  /\ Len(rows) <= Cardinality(Rows)
  /\ session \in {"awaiting_signers", "partially_signed", "completed"}
  /\ mailed \in [Docs -> [Parties -> Seq(Files)]]

\* Seen from outside, finishing a packet gives every document one signed
\* file and mails each party a link to it once (no crash, prompt workers).
Promise == INSTANCE SecureCopies WITH
  official <- [d \in Docs |-> doc[d].file], archive <- [d \in Docs |-> doc[d].archive]
CopiesPromised == Promise!Spec

\* The archive entry, the distribution rows and the links that were mailed
\* are all of the file the document names as its signed copy.
SameFile ==
  /\ \A d \in Docs : doc[d].archive \in {0, doc[d].file}
  /\ \A i \in DOMAIN rows : rows[i].file = doc[rows[i].doc].file
  /\ \A d \in Docs, p \in Parties :
       \A k \in DOMAIN mailed[d][p] : mailed[d][p][k] = doc[d].file

\* A party is mailed a link once, and once more at most for every crash.
MailedOnce ==
  \A d \in Docs, p \in Parties : Len(mailed[d][p]) <= 1 + crashes

\* What is given up is shown where staff can see it, on the distribution row of
\* a mail and on the document otherwise, unless a process died before it could
\* say so: at most one failure for each death is not shown. And nothing is shown
\* as failed that was not given up.
Reporting(j) == \E w \in Workers : task[w].step = "report" /\ task[w].job = {j}

Shown(j) ==
  \/ \E d \in Docs : j = <<"finalize", d>> /\ doc[d].final = "failed"
  \/ \E i \in DOMAIN rows : j = <<"email", i>> /\ rows[i].status = "failed"

Unshown ==
  {j \in ({"finalize"} \X Docs) \cup ({"email"} \X Rows) :
     jobs[j].status = "failed" /\ ~Shown(j) /\ ~Reporting(j)}

FailureShown ==
  /\ \A j \in JobIds : Shown(j) \/ Reporting(j) => jobs[j].status = "failed"
  /\ Cardinality(Unshown) <= crashes

\* A document that is signed by all reaches everybody, or its failure shows:
\* "Signed. Acre is finalizing and distributing your secure copies."
Reached(d, p) ==
  \/ mailed[d][p] # <<>>
  \/ doc[d].final = "failed"
  \/ \E i \in DOMAIN rows : rows[i].doc = d /\ rows[i].to = p /\ rows[i].status = "failed"

CopiesArrive ==
  \A d \in Docs, p \in Parties : doc[d].status = "completed" ~> Reached(d, p)

\* When every document of the packet has its signed file, the session is
\* completed, whichever finalize job came last.
SessionEnds == (\A d \in Docs : doc[d].file # 0) ~> session = "completed"
=============================================================================
