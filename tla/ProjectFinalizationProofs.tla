---------------------- MODULE ProjectFinalizationProofs ----------------------
(* Theorems about ProjectFinalization, for any packet, any parties and any   *)
(* number of workers that crash any number of times but do not outlast the   *)
(* lease of a job. What the queue does is taken from JobQueueProofs.         *)
EXTENDS ProjectFinalization, FiniteSetTheorems, SequenceTheorems, TLAPS

QP == INSTANCE JobQueueProofs WITH Jobs <- JobIds

Steps == {"idle", "claimed", "load", "build", "record", "archive", "rows", "mails", "copy", "session",
          "check", "send", "mark", "sync", "done", "report"}
TaskRecord == [job : SUBSET JobIds, file : 0..MaxFiles, todo : SUBSET Parties,
               mine : SUBSET Nat, step : Steps]
DocRecord == [status : {"signed", "completed"}, file : 0..MaxFiles,
              final : {"none", "queued", "succeeded", "failed"}, archive : 0..MaxFiles]
RowRecord == [doc : Docs, to : Parties, file : Files,
              status : {"queued", "sending", "sent", "failed"}]

Shape ==
  /\ task \in [Workers -> TaskRecord]
  /\ doc \in [Docs -> DocRecord]
  /\ files \in Seq(Docs) /\ Len(files) <= MaxFiles
  /\ rows \in Seq(RowRecord)
  /\ session \in {"awaiting_signers", "partially_signed", "completed"}
  /\ mailed \in [Docs -> [Parties -> Seq(Files)]]

QueueInv == QP!LeaseInv /\ crashes <= MaxCrashes

\* A worker is at the job its task is of until it marked it; what is reported was
\* given up.
Tied(t, at, J) ==
  /\ at = IF t.step \in {"idle", "report"} THEN {} ELSE t.job
  /\ t.step = "report" => \A j \in t.job : J[j].status = "failed"

\* What a task knows, when D are the documents, F the files and R the rows.
Doing(t, D, F, R) ==
  /\ t.mine \subseteq DOMAIN R
  /\ \A d \in Docs : t.job = {<<"finalize", d>>} =>
       /\ t.step \in {"build", "record"} => D[d].file = 0
       /\ t.step = "record" => t.file \in DOMAIN F /\ F[t.file] = d
       /\ t.step \in {"archive", "rows", "mails", "copy", "session"} =>
            t.file # 0 /\ D[d].file = t.file
       /\ t.step = "rows" =>
            /\ D[d].archive = t.file
            /\ \A i \in DOMAIN R : R[i].doc = d => R[i].to \notin t.todo

\* Jobs are queued of signed documents and of rows that are there.
Known(J, D, R) ==
  /\ \A d \in Docs : J[<<"finalize", d>>].status # "absent" => D[d].status = "completed"
  /\ \A i \in Rows : J[<<"email", i>>].status # "absent" => i \in DOMAIN R

\* The signed file of a document is of that document, and what is archived.
DocsRight(D, F) ==
  \A d \in Docs : /\ D[d].file # 0 => D[d].file \in DOMAIN F /\ F[D[d].file] = d
                  /\ D[d].archive \in {0, D[d].file}

\* Each row is of the file its document names and archived, one for each party.
RowsRight(D, R) ==
  /\ \A i \in DOMAIN R : R[i].file = D[R[i].doc].file /\ D[R[i].doc].archive = D[R[i].doc].file
  /\ \A i, k \in DOMAIN R : R[i].doc = R[k].doc /\ R[i].to = R[k].to => i = k

MailRight(D, R, M) ==
  \A d \in Docs, p \in Parties :
    /\ \A k \in DOMAIN M[d][p] : M[d][p][k] = D[d].file
    /\ M[d][p] # <<>> => \E i \in DOMAIN R : R[i].doc = d /\ R[i].to = p

FinalInv ==
  /\ QueueInv
  /\ Shape
  /\ \A w \in Workers : Tied(task[w], worker[w].at, jobs)
  /\ \A w \in Workers : Doing(task[w], doc, files, rows)
  /\ Known(jobs, doc, rows)
  /\ DocsRight(doc, files)
  /\ RowsRight(doc, rows)
  /\ MailRight(doc, rows, mailed)
  /\ FailureShown

-----------------------------------------------------------------------------
(* What the queue's operations do, of its own theorems.                      *)

LEMMA QueueLimits == QP!QueueAssumption
BY FinalizationAssumption DEF Queue!QueueAssumption, QP!QueueAssumption

LEMMA JobShapes ==
  /\ \A d \in Docs : <<"finalize", d>> \in JobIds
  /\ \A i \in Rows : <<"email", i>> \in JobIds
  /\ \A f \in Files : <<"drive", f>> \in JobIds
  /\ \A j \in JobIds : \/ \E d \in Docs : j = <<"finalize", d>>
                       \/ \E i \in Rows : j = <<"email", i>>
                       \/ \E f \in Files : j = <<"drive", f>>
BY DEF JobIds

LEMMA QueueTypes ==
  ASSUME QueueInv
  PROVE  /\ QP!TypeOK
         /\ jobs \in [JobIds -> QP!Row]
         /\ worker \in [Workers -> [at : SUBSET JobIds, read : BOOLEAN, attempts : Nat]]
         /\ crashes \in Nat
BY DEF QueueInv, QP!LeaseInv, QP!TypeOK

\* A worker at a job runs it, alone.
LEMMA AtJob ==
  ASSUME QueueInv, NEW w \in Workers, NEW j, worker[w].at = {j}
  PROVE  /\ jobs[j].status = "running"
         /\ \A v \in Workers : v # w => worker[v].at # {j}
BY DEF QueueInv, QP!LeaseInv, QP!Holds, QP!OneRunner

LEMMA LeaseKept ==
  ASSUME Prompt, QueueInv, QP!Next, crashes' <= MaxCrashes
  PROVE  QueueInv'
<1>1. QP!LeaseInv'
  BY QueueLimits, QP!LeaseStep DEF QueueInv
<1> QED
  BY <1>1 DEF QueueInv

LEMMA EnqueueEffect ==
  ASSUME Prompt, QueueInv, NEW j \in JobIds, Queue!Enqueue(j)
  PROVE  /\ QueueInv' /\ worker' = worker /\ crashes' = crashes
         /\ jobs'[j].status # "absent"
         /\ jobs[j].status # "absent" => jobs'[j].status = jobs[j].status
         /\ jobs[j].status = "absent" => jobs'[j].status = "queued"
         /\ \A k \in JobIds : k # j => jobs'[k].status = jobs[k].status
<1>1. QP!Enqueue(j)
  BY DEF Queue!Enqueue, QP!Enqueue, Queue!Enqueued, QP!Enqueued, Queue!NoJob, QP!NoJob
<1>2. QueueInv'
  BY <1>1, LeaseKept DEF QueueInv, QP!Next, QP!Enqueue
<1>3. jobs \in [JobIds -> QP!Row]
  BY QueueTypes
<1>4. jobs' = [jobs EXCEPT ![j] = QP!Enqueued(jobs[j])] /\ worker' = worker /\ crashes' = crashes
  BY <1>1 DEF QP!Enqueue
<1>5. /\ jobs[j].status # "absent" => QP!Enqueued(jobs[j]).status = jobs[j].status
      /\ jobs[j].status = "absent" => QP!Enqueued(jobs[j]).status = "queued"
  BY DEF QP!Enqueued, QP!NoJob
<1> QED
  BY <1>2, <1>3, <1>4, <1>5

LEMMA ClaimEffect ==
  ASSUME Prompt, QueueInv, NEW w \in Workers, NEW j \in JobIds, Queue!Claim(w, j)
  PROVE  /\ QueueInv' /\ crashes' = crashes
         /\ worker[w].at = {} /\ worker'[w].at = {j}
         /\ \A v \in Workers : v # w => worker'[v] = worker[v]
         /\ jobs[j].status \in {"queued", "running"} /\ jobs'[j].status = "running"
         /\ \A k \in JobIds : k # j => jobs'[k].status = jobs[k].status
<1>1. QP!Claim(w, j)
  BY DEF Queue!Claim, QP!Claim, Queue!Claimable, QP!Claimable, Queue!Stale, QP!Stale
<1>2. QueueInv'
  BY <1>1, LeaseKept DEF QueueInv, QP!Next, QP!Run, QP!Claim
<1>3. jobs[j].status \in {"queued", "running"}
  BY <1>1 DEF QP!Claim, QP!Claimable
<1> QED
  BY <1>1, <1>2, <1>3, QueueLimits, QueueTypes, QP!ClaimStep

LEMMA ReadEffect ==
  ASSUME Prompt, QueueInv, NEW w \in Workers, NEW j \in JobIds, Queue!Read(w, j)
  PROVE  /\ QueueInv' /\ crashes' = crashes /\ jobs' = jobs
         /\ worker'[w].at = {j}
         /\ \A v \in Workers : v # w => worker'[v] = worker[v]
<1>1. QP!Read(w, j)
  BY DEF Queue!Read, QP!Read
<1>2. QueueInv'
  BY <1>1, LeaseKept DEF QueueInv, QP!Next, QP!Run, QP!Read
<1> QED
  BY <1>1, <1>2, QueueLimits, QueueTypes, QP!ReadStep

LEMMA SucceedEffect ==
  ASSUME Prompt, QueueInv, NEW w \in Workers, NEW j \in JobIds, Queue!Succeed(w, j)
  PROVE  /\ QueueInv' /\ crashes' = crashes
         /\ worker[w].at = {j} /\ worker'[w].at = {}
         /\ \A v \in Workers : v # w => worker'[v] = worker[v]
         /\ jobs[j].status = "running" /\ jobs'[j].status = "succeeded"
         /\ \A k \in JobIds : k # j => jobs'[k].status = jobs[k].status
<1>1. QP!Succeed(w, j)
  BY DEF Queue!Succeed, QP!Succeed, Queue!Release, QP!Release, Queue!Free, QP!Free
<1>2. QueueInv'
  BY <1>1, LeaseKept DEF QueueInv, QP!Next, QP!Run, QP!Succeed
<1>3. QP!Release(w) /\ worker[w].at = {j}
  BY <1>1 DEF QP!Succeed
<1> QED
  BY <1>1, <1>2, <1>3, AtJob, QueueLimits, QueueTypes, QP!SucceedStep, QP!ReleaseStep

LEMMA FailEffect ==
  ASSUME Prompt, QueueInv, NEW w \in Workers, NEW j \in JobIds, Queue!Fail(w, j)
  PROVE  /\ QueueInv' /\ crashes' = crashes
         /\ worker[w].at = {j} /\ worker'[w].at = {}
         /\ \A v \in Workers : v # w => worker'[v] = worker[v]
         /\ jobs[j].status = "running" /\ jobs'[j].status \in {"queued", "failed"}
         /\ \A k \in JobIds : k # j => jobs'[k].status = jobs[k].status
<1>1. QP!Fail(w, j)
  BY DEF Queue!Fail, QP!Fail, Queue!Release, QP!Release, Queue!Free, QP!Free,
         Queue!Retries, QP!Retries, Queue!Delay, QP!Delay
<1>2. QueueInv'
  BY <1>1, LeaseKept DEF QueueInv, QP!Next, QP!Run, QP!Fail
<1>3. QP!Release(w) /\ worker[w].at = {j}
  BY <1>1 DEF QP!Fail
<1> QED
  BY <1>1, <1>2, <1>3, AtJob, QueueLimits, QueueTypes, QP!FailStep, QP!ReleaseStep

LEMMA CrashEffect ==
  ASSUME Prompt, QueueInv, NEW w \in Workers, Queue!Crash(w)
  PROVE  /\ QueueInv' /\ crashes' = crashes + 1 /\ jobs' = jobs
         /\ worker'[w].at = {}
         /\ \A v \in Workers : v # w => worker'[v] = worker[v]
<1>1. QP!Crash(w)
  BY DEF Queue!Crash, QP!Crash, Queue!Release, QP!Release, Queue!Free, QP!Free
<1>2. QP!Release(w) /\ crashes' = crashes + 1 /\ jobs' = jobs
      /\ crashes < MaxCrashes
  BY <1>1 DEF QP!Crash
<1>3. crashes' <= MaxCrashes
  BY <1>2, QueueTypes, QueueLimits DEF QP!QueueAssumption
<1>4. QueueInv'
  BY <1>1, <1>3, LeaseKept DEF QP!Next
<1> QED
  BY <1>2, <1>4, QueueLimits, QueueTypes, QP!ReleaseStep

LEMMA TickEffect ==
  ASSUME Prompt, QueueInv, Queue!Tick
  PROVE  /\ QueueInv' /\ worker' = worker /\ crashes' = crashes
         /\ \A k \in JobIds : jobs'[k].status = jobs[k].status
<1>1. QP!Tick
  BY DEF Queue!Tick, QP!Tick, Queue!Aged, QP!Aged, Queue!OutOfLease, QP!OutOfLease
<1>2. QueueInv'
  BY <1>1, LeaseKept DEF QueueInv, QP!Next, QP!Tick
<1> QED
  BY <1>1, <1>2, QueueLimits, QueueTypes, QP!TickStep

-----------------------------------------------------------------------------
(* The invariant, action by action.                                          *)

LEMMA SameJob ==
  ASSUME NEW k, NEW x, NEW l, NEW y, {<<k, x>>} = {<<l, y>>}
  PROVE  k = l /\ x = y
<1>1. <<k, x>> = <<l, y>>
  OBVIOUS
<1> QED
  BY <1>1

\* There is a row at most for each document and party.
LEMMA RowCount ==
  ASSUME NEW R \in Seq(RowRecord),
         \A i, k \in DOMAIN R : R[i].doc = R[k].doc /\ R[i].to = R[k].to => i = k
  PROVE  Len(R) <= Cardinality(Docs) * Cardinality(Parties) /\ DOMAIN R \subseteq Rows
<1> DEFINE f == [i \in 1..Len(R) |-> <<R[i].doc, R[i].to>>]
<1>1. f \in Injection(1..Len(R), Docs \X Parties)
  <2>1. DOMAIN R = 1..Len(R)
    OBVIOUS
  <2>2. \A i \in 1..Len(R) : R[i].doc \in Docs /\ R[i].to \in Parties
    <3>1. \A i \in 1..Len(R) : R[i] \in RowRecord
      OBVIOUS
    <3> QED
      BY <3>1 DEF RowRecord
  <2>3. f \in [1..Len(R) -> Docs \X Parties]
    BY <2>2
  <2>4. \A i, k \in 1..Len(R) : f[i] = f[k] => i = k
    BY <2>1
  <2> HIDE DEF f
  <2> QED
    BY <2>3, <2>4 DEF Injection, IsInjective
<1>2. /\ IsFiniteSet(Docs \X Parties)
      /\ Cardinality(Docs \X Parties) = Cardinality(Docs) * Cardinality(Parties)
  BY FinalizationAssumption, FS_Product
<1>3. /\ IsFiniteSet(1..Len(R))
      /\ Cardinality(1..Len(R)) = IF 1 > Len(R) THEN 0 ELSE Len(R) - 1 + 1
  BY FS_Interval
<1>4. Cardinality(1..Len(R)) <= Cardinality(Docs \X Parties)
  BY <1>1, <1>2, FS_Injection
<1>5. Cardinality(1..Len(R)) = Len(R)
  BY <1>3
<1> HIDE DEF f
<1>6. Len(R) <= Cardinality(Docs) * Cardinality(Parties)
  BY <1>2, <1>4, <1>5
<1>7. Cardinality(Docs) \in Nat /\ Cardinality(Parties) \in Nat
  BY FinalizationAssumption, FS_CardinalityType
<1>8. Cardinality(Docs) * Cardinality(Parties) \in Nat
  BY <1>7
<1> QED
  BY <1>6, <1>8 DEF Rows

LEMMA StepTo ==
  ASSUME Shape, NEW w \in Workers, NEW s \in Steps, Goto(w, s)
  PROVE  /\ task' \in [Workers -> TaskRecord]
         /\ \A v \in Workers : v # w => task'[v] = task[v]
         /\ task'[w].step = s /\ task'[w].job = task[w].job /\ task'[w].file = task[w].file
         /\ task'[w].todo = task[w].todo /\ task'[w].mine = task[w].mine
BY DEF Shape, Goto, TaskRecord

LEMMA IdleTask ==
  /\ Idle \in TaskRecord
  /\ Idle.step = "idle" /\ Idle.job = {} /\ Idle.mine = {}
BY FinalizationAssumption DEF Idle, TaskRecord, Steps

LEMMA NewTask ==
  ASSUME Shape, NEW w \in Workers, NEW t \in TaskRecord, task' = [task EXCEPT ![w] = t]
  PROVE  /\ task' \in [Workers -> TaskRecord]
         /\ \A v \in Workers : v # w => task'[v] = task[v]
         /\ task'[w] = t
BY DEF Shape

\* What a worker is at is running, and no other worker's.
LEMMA Working ==
  ASSUME FinalInv, NEW w \in Workers, NEW j, task[w].job = {j},
         task[w].step \notin {"idle", "report"}
  PROVE  /\ worker[w].at = {j} /\ jobs[j].status = "running"
         /\ \A v \in Workers : v # w /\ task[v].job = {j} => task[v].step \in {"idle", "report"}
<1>1. /\ QueueInv /\ worker[w].at = {j}
      /\ \A v \in Workers : task[v].step \notin {"idle", "report"} => worker[v].at = task[v].job
  BY DEF FinalInv, Tied
<1>2. jobs[j].status = "running" /\ \A v \in Workers : v # w => worker[v].at # {j}
  BY <1>1, AtJob
<1> QED
  BY <1>1, <1>2

LEMMA NotReported ==
  ASSUME FinalInv, NEW j, jobs[j].status # "failed"
  PROVE  ~Reporting(j)
BY DEF FinalInv, Tied, Reporting

LEMMA ReportsStay ==
  ASSUME NEW w \in Workers, \A v \in Workers : v # w => task'[v] = task[v],
         task[w].step # "report", task'[w].step # "report"
  PROVE  \A j : Reporting(j)' <=> Reporting(j)
BY DEF Reporting

\* The jobs that are to be shown when given up.
Told == ({"finalize"} \X Docs) \cup ({"email"} \X Rows)

LEMMA UnshownFinite ==
  /\ IsFiniteSet(Told) /\ Told \subseteq JobIds
  /\ IsFiniteSet(Unshown) /\ Cardinality(Unshown) \in Nat
<1>1. IsFiniteSet({"finalize"} \X Docs)
  BY FinalizationAssumption, FS_Singleton, FS_Product
<1>2. IsFiniteSet(Rows)
  <2>1. Cardinality(Docs) \in Nat /\ Cardinality(Parties) \in Nat
    BY FinalizationAssumption, FS_CardinalityType
  <2>2. Cardinality(Docs) * Cardinality(Parties) \in Nat
    BY <2>1
  <2> DEFINE n == Cardinality(Docs) * Cardinality(Parties)
  <2> HIDE DEF n
  <2>3. IsFiniteSet(1..n)
    BY <2>2, FS_Interval DEF n
  <2> QED
    BY <2>3 DEF Rows, n
<1>3. IsFiniteSet({"email"} \X Rows)
  BY <1>2, FS_Singleton, FS_Product
<1>4. IsFiniteSet(Told)
  BY <1>1, <1>3, FS_Union DEF Told
<1>5. Unshown \subseteq Told
  BY DEF Unshown, Told
<1> QED
  BY <1>4, <1>5, FS_Subset, FS_CardinalityType DEF Told, JobIds

\* Nothing more goes unshown.
LEMMA NoneHidden ==
  ASSUME FinalInv, crashes' \in {crashes, crashes + 1},
         \A j \in JobIds : Shown(j)' \/ Reporting(j)' => jobs'[j].status = "failed",
         Unshown' \subseteq Unshown
  PROVE  FailureShown'
<1>1. Cardinality(Unshown) <= crashes /\ crashes \in Nat
  BY QueueTypes DEF FinalInv, FailureShown
<1>2. Cardinality(Unshown') \in Nat /\ Cardinality(Unshown') <= Cardinality(Unshown)
  BY UnshownFinite, FS_Subset, FS_CardinalityType
<1>3. Cardinality(Unshown) \in Nat
  BY UnshownFinite
<1> QED
  BY <1>1, <1>2, <1>3 DEF FailureShown

\* Whether a job counts as unshown is a matter of its status and where it shows.
LEMMA Hidden ==
  /\ \A j : j \in Unshown
       <=> j \in Told /\ jobs[j].status = "failed" /\ ~Shown(j) /\ ~Reporting(j)
  /\ \A j : j \in Unshown'
       <=> j \in Told /\ jobs'[j].status = "failed" /\ ~Shown(j)' /\ ~Reporting(j)'
<1>1. Unshown = {j \in Told : jobs[j].status = "failed" /\ ~Shown(j) /\ ~Reporting(j)}
  BY DEF Unshown, Told
<1>2. Unshown' = {j \in Told : jobs'[j].status = "failed" /\ ~Shown(j)' /\ ~Reporting(j)'}
  BY DEF Unshown, Told
<1> QED
  BY <1>1, <1>2

LEMMA FailuresRest ==
  ASSUME FinalInv, crashes' \in {crashes, crashes + 1},
         \A j : Reporting(j)' <=> Reporting(j),
         \A j \in JobIds : jobs'[j].status = "failed" <=> jobs[j].status = "failed",
         \A j : Shown(j)' <=> Shown(j)
  PROVE  FailureShown'
<1>1. \A j \in JobIds : Shown(j)' \/ Reporting(j)' => jobs'[j].status = "failed"
  BY DEF FinalInv, FailureShown
<1>2. Unshown' \subseteq Unshown
  BY Hidden, UnshownFinite
<1> QED
  BY <1>1, <1>2, NoneHidden

\* Failures show as before when nothing that shows them changes.
LEMMA ShownStays ==
  ASSUME FinalInv, crashes' \in {crashes, crashes + 1}, \A j : Reporting(j)' <=> Reporting(j),
         \A j \in JobIds : jobs'[j].status = "failed" <=> jobs[j].status = "failed",
         \A d \in Docs : doc'[d].final = "failed" <=> doc[d].final = "failed",
         DOMAIN rows' = DOMAIN rows,
         \A i \in DOMAIN rows : rows'[i].status = "failed" <=> rows[i].status = "failed"
  PROVE  FailureShown'
<1>1. \A j : Shown(j)' <=> Shown(j)
  BY DEF Shown
<1> QED
  BY <1>1, FailuresRest

\* A job and what shows it.
LEMMA WhereShown ==
  ASSUME FinalInv
  PROVE  /\ \A d \in Docs : Shown(<<"finalize", d>>) <=> doc[d].final = "failed"
         /\ \A i \in DOMAIN rows : /\ Shown(<<"email", i>>) <=> rows[i].status = "failed"
                                   /\ <<"email", i>> \in JobIds
<1>1. \A d, e : <<"finalize", d>> = <<"finalize", e>> => d = e
  OBVIOUS
<1>2. \A i, k : <<"email", i>> = <<"email", k>> => i = k
  OBVIOUS
<1>3. \A d, i : <<"finalize", d>> # <<"email", i>>
  OBVIOUS
<1>4. DOMAIN rows \subseteq Rows
  BY RowCount DEF FinalInv, Shape, RowsRight
<1> QED
  BY <1>1, <1>2, <1>3, <1>4, JobShapes DEF Shown

\* The documents with no file yet have no row and no mail.
LEMMA NothingYet ==
  ASSUME FinalInv, NEW d \in Docs, doc[d].archive = 0
  PROVE  /\ \A i \in DOMAIN rows : rows[i].doc # d
         /\ \A p \in Parties : mailed[d][p] = <<>>
<1>1. \A i \in DOMAIN rows : rows[i].file # 0
  <2> SUFFICES ASSUME NEW i \in DOMAIN rows PROVE rows[i].file # 0
    OBVIOUS
  <2>1. rows[i] \in RowRecord
    BY DEF FinalInv, Shape
  <2> QED
    BY <2>1 DEF RowRecord, Files
<1>2. \A i \in DOMAIN rows : rows[i].doc # d
  BY <1>1 DEF FinalInv, RowsRight
<1> QED
  BY <1>2 DEF FinalInv, MailRight

\* A step that leaves the documents, files, rows and mails alone.
LEMMA PayloadRests ==
  ASSUME FinalInv, QueueInv', UNCHANGED payload, task' \in [Workers -> TaskRecord],
         \A v \in Workers : Tied(task'[v], worker'[v].at, jobs'),
         \A v \in Workers : Doing(task'[v], doc, files, rows),
         Known(jobs', doc, rows),
         FailureShown'
  PROVE  FinalInv'
BY DEF FinalInv, payload, Shape

LEMMA EnqueueKeeps ==
  ASSUME Prompt, FinalInv, NEW j \in JobIds, Queue!Enqueue(j), UNCHANGED payload,
         task' \in [Workers -> TaskRecord],
         \A v \in Workers : Tied(task'[v], worker[v].at, jobs),
         \A v \in Workers : Doing(task'[v], doc, files, rows),
         \A k : Reporting(k)' <=> Reporting(k),
         \A d \in Docs : j = <<"finalize", d>> => doc[d].status = "completed",
         \A i \in Rows : j = <<"email", i>> => i \in DOMAIN rows
  PROVE  FinalInv'
<1>1. /\ QueueInv' /\ worker' = worker /\ crashes' = crashes
      /\ jobs[j].status # "absent" => jobs'[j].status = jobs[j].status
      /\ jobs[j].status = "absent" => jobs'[j].status = "queued"
      /\ \A k \in JobIds : k # j => jobs'[k].status = jobs[k].status
  BY EnqueueEffect DEF FinalInv
<1>2. \A k \in JobIds : jobs'[k].status = "failed" <=> jobs[k].status = "failed"
  BY <1>1
<1>3. \A v \in Workers : Tied(task'[v], worker'[v].at, jobs')
  BY <1>1, <1>2 DEF Tied, TaskRecord
<1>4. Known(jobs', doc, rows)
  BY <1>1, JobShapes DEF FinalInv, Known
<1>5. FailureShown'
  BY <1>1, <1>2, ShownStays DEF payload
<1> QED
  BY <1>1, <1>3, <1>4, <1>5, PayloadRests

LEMMA AskFinalizeStep ==
  ASSUME Prompt, FinalInv, NEW d \in Docs, AskFinalize(d)
  PROVE  FinalInv'
<1>1. Queue!Enqueue(<<"finalize", d>>) /\ task' = task /\ UNCHANGED payload
      /\ doc[d].status = "completed"
  BY DEF AskFinalize
<1>2. \A k : Reporting(k)' <=> Reporting(k)
  BY <1>1 DEF Reporting
<1>3. <<"finalize", d>> \in JobIds
  BY JobShapes
<1> QED
  BY <1>1, <1>2, <1>3, EnqueueKeeps DEF FinalInv, Shape

LEMMA QueueMailStep ==
  ASSUME Prompt, FinalInv, NEW w \in Workers, NEW d \in Docs, NEW i \in Rows, QueueMail(w, d, i)
  PROVE  FinalInv'
<1> DEFINE t == [task[w] EXCEPT !.mine = task[w].mine \ {i},
                                !.step = IF task[w].mine = {i} THEN "copy" ELSE "mails"]
<1>1. /\ task[w].step = "mails" /\ task[w].job = {<<"finalize", d>>} /\ i \in task[w].mine
      /\ Queue!Enqueue(<<"email", i>>) /\ task' = [task EXCEPT ![w] = t] /\ UNCHANGED payload
  BY DEF QueueMail, At, FinalInv, Shape
<1>2. task[w] \in TaskRecord
  BY DEF FinalInv, Shape
<1>3. /\ t \in TaskRecord /\ t.step \in {"mails", "copy"} /\ t.job = task[w].job
      /\ t.file = task[w].file /\ t.mine \subseteq task[w].mine
  BY <1>2 DEF TaskRecord, Steps
<1> HIDE DEF t
<1>4. /\ task' \in [Workers -> TaskRecord] /\ task'[w] = t
      /\ \A v \in Workers : v # w => task'[v] = task[v]
  BY <1>1, <1>3, NewTask DEF FinalInv
<1>5. \A v \in Workers : Tied(task'[v], worker[v].at, jobs)
  BY <1>1, <1>3, <1>4 DEF FinalInv, Tied
<1>6. Doing(task[w], doc, files, rows)
  BY DEF FinalInv
<1>7. Doing(t, doc, files, rows)
  BY <1>1, <1>3, <1>6 DEF Doing
<1>8. \A v \in Workers : Doing(task'[v], doc, files, rows)
  BY <1>4, <1>7 DEF FinalInv
<1>9. \A k : Reporting(k)' <=> Reporting(k)
  BY <1>1, <1>3, <1>4, ReportsStay
<1>10. i \in DOMAIN rows /\ <<"email", i>> \in JobIds
  BY <1>1, <1>6, JobShapes DEF Doing
<1> QED
  BY <1>1, <1>4, <1>5, <1>8, <1>9, <1>10, EnqueueKeeps

LEMMA DriveJob ==
  ASSUME FinalInv, NEW w \in Workers, NEW d \in Docs, QueueDrive(w, d)
  PROVE  <<"drive", task[w].file>> \in JobIds
<1>1. task[w].step = "copy" /\ task[w].job = {<<"finalize", d>>}
  BY DEF QueueDrive, At
<1>2. task[w] \in TaskRecord /\ task[w].file # 0
  BY <1>1 DEF FinalInv, Shape, Doing
<1>3. task[w].file \in Files
  BY <1>2, FinalizationAssumption DEF TaskRecord, Files
<1> QED
  BY <1>3, JobShapes

LEMMA QueueDriveStep ==
  ASSUME Prompt, FinalInv, NEW w \in Workers, NEW d \in Docs, QueueDrive(w, d)
  PROVE  FinalInv'
<1>1. /\ task[w].step = "copy" /\ task[w].job = {<<"finalize", d>>}
      /\ Queue!Enqueue(<<"drive", task[w].file>>) /\ Goto(w, "session") /\ UNCHANGED payload
  BY DEF QueueDrive, At
<1>2. /\ task' \in [Workers -> TaskRecord]
      /\ \A v \in Workers : v # w => task'[v] = task[v]
      /\ task'[w].step = "session" /\ task'[w].job = task[w].job
      /\ task'[w].file = task[w].file /\ task'[w].mine = task[w].mine
  BY <1>1, StepTo DEF FinalInv, Steps
<1>3. \A v \in Workers : Tied(task'[v], worker[v].at, jobs)
  BY <1>1, <1>2 DEF FinalInv, Tied
<1>4. Doing(task[w], doc, files, rows)
  BY DEF FinalInv
<1>5. Doing(task'[w], doc, files, rows)
  BY <1>1, <1>2, <1>4 DEF Doing
<1>6. \A v \in Workers : Doing(task'[v], doc, files, rows)
  BY <1>2, <1>5 DEF FinalInv
<1>7. \A k : Reporting(k)' <=> Reporting(k)
  BY <1>1, <1>2, ReportsStay
<1>8. <<"drive", task[w].file>> \in JobIds
  BY DriveJob
<1> QED
  BY <1>1, <1>2, <1>3, <1>6, <1>7, <1>8, EnqueueKeeps

LEMMA QueueRested ==
  ASSUME QueueInv, QueueRests
  PROVE  QueueInv'
BY DEF QueueRests, QueueInv, QP!LeaseInv, QP!TypeOK, QP!Holds, QP!OneRunner, QP!Counted

\* A worker that goes on to another step and touches nothing else.
LEMMA GotoKeeps ==
  ASSUME FinalInv, NEW w \in Workers, NEW s \in Steps, Goto(w, s), QueueRests, UNCHANGED payload,
         task[w].step \notin {"idle", "report"}, s \notin {"idle", "report"},
         Doing(task'[w], doc, files, rows)
  PROVE  FinalInv'
<1>1. /\ task' \in [Workers -> TaskRecord]
      /\ \A v \in Workers : v # w => task'[v] = task[v]
      /\ task'[w].step = s /\ task'[w].job = task[w].job
  BY StepTo DEF FinalInv
<1>2. jobs' = jobs /\ worker' = worker /\ crashes' = crashes /\ QueueInv'
  BY QueueRested DEF QueueRests, FinalInv
<1>3. \A v \in Workers : Tied(task'[v], worker'[v].at, jobs')
  BY <1>1, <1>2 DEF FinalInv, Tied
<1>4. \A v \in Workers : Doing(task'[v], doc, files, rows)
  BY <1>1 DEF FinalInv
<1>5. FailureShown'
  BY <1>1, <1>2, ReportsStay, ShownStays DEF payload
<1> QED
  BY <1>1, <1>2, <1>3, <1>4, <1>5, PayloadRests DEF FinalInv

LEMMA LoadStep ==
  ASSUME FinalInv, NEW w \in Workers, NEW d \in Docs, Load(w, d)
  PROVE  FinalInv'
<1> DEFINE s == IF Finished(d) THEN "done" ELSE "build"
<1>1. /\ task[w].step = "load" /\ task[w].job = {<<"finalize", d>>} /\ Goto(w, s)
      /\ QueueRests /\ UNCHANGED payload
  BY DEF Load, At
<1>2. s \in {"done", "build"} /\ (s = "build" => doc[d].file = 0)
  BY DEF Finished
<1> HIDE DEF s
<1>3. /\ task'[w].step = s /\ task'[w].job = {<<"finalize", d>>} /\ task'[w].mine = task[w].mine
  BY <1>1, <1>2, StepTo DEF FinalInv, Steps
<1>4. Doing(task[w], doc, files, rows)
  BY DEF FinalInv
<1>5. Doing(task'[w], doc, files, rows)
  <2>1. \A c \in Docs : task'[w].job = {<<"finalize", c>>} => c = d
    BY <1>3, SameJob
  <2> QED
    BY <1>2, <1>3, <1>4, <2>1 DEF Doing
<1> QED
  BY <1>1, <1>2, <1>5, GotoKeeps DEF Steps

LEMMA SyncStep ==
  ASSUME FinalInv, NEW w \in Workers, NEW f \in Files, Sync(w, f)
  PROVE  FinalInv'
<1>1. /\ task[w].step = "sync" /\ task[w].job = {<<"drive", f>>} /\ Goto(w, "done")
      /\ QueueRests /\ UNCHANGED payload
  BY DEF Sync, At
<1>2. /\ task'[w].job = {<<"drive", f>>} /\ task'[w].mine = task[w].mine
      /\ task'[w].step = "done"
  BY <1>1, StepTo DEF FinalInv, Steps
<1>3. Doing(task[w], doc, files, rows)
  BY DEF FinalInv
<1>4. Doing(task'[w], doc, files, rows)
  BY <1>2, <1>3 DEF Doing
<1> QED
  BY <1>1, <1>4, GotoKeeps DEF Steps

LEMMA CompleteSessionStep ==
  ASSUME FinalInv, NEW w \in Workers, NEW d \in Docs, CompleteSession(w, d)
  PROVE  FinalInv'
<1>1. /\ task[w].step = "session" /\ task[w].job = {<<"finalize", d>>} /\ Goto(w, "done")
      /\ QueueRests /\ UNCHANGED <<doc, files, rows, mailed>>
      /\ session' \in {session, "partially_signed", "completed"}
  BY DEF CompleteSession, At
<1>2. /\ task' \in [Workers -> TaskRecord]
      /\ \A v \in Workers : v # w => task'[v] = task[v]
      /\ task'[w].step = "done" /\ task'[w].job = task[w].job /\ task'[w].mine = task[w].mine
  BY <1>1, StepTo DEF FinalInv, Steps
<1>3. jobs' = jobs /\ worker' = worker /\ crashes' = crashes /\ QueueInv'
  BY <1>1, QueueRested DEF QueueRests, FinalInv
<1>4. \A v \in Workers : Tied(task'[v], worker'[v].at, jobs')
  BY <1>1, <1>2, <1>3 DEF FinalInv, Tied
<1>5. Doing(task[w], doc, files, rows)
  BY DEF FinalInv
<1>6. Doing(task'[w], doc, files, rows)
  BY <1>2, <1>5 DEF Doing
<1>7. \A v \in Workers : Doing(task'[v], doc, files, rows)
  BY <1>2, <1>6 DEF FinalInv
<1>8. FailureShown'
  BY <1>1, <1>2, <1>3, ReportsStay, ShownStays
<1>9. Shape'
  BY <1>1, <1>2 DEF FinalInv, Shape
<1> QED
  BY <1>1, <1>3, <1>4, <1>7, <1>8, <1>9 DEF FinalInv

\* A worker that takes or leaves a job.
LEMMA WorkerMoves ==
  ASSUME FinalInv, QueueInv', UNCHANGED payload, NEW w \in Workers, NEW t \in TaskRecord,
         task' = [task EXCEPT ![w] = t],
         \A v \in Workers : v # w => worker'[v] = worker[v],
         Tied(t, worker'[w].at, jobs'), Doing(t, doc, files, rows),
         \A k \in JobIds : jobs[k].status = "failed" => jobs'[k].status = "failed",
         \A k \in JobIds : jobs'[k].status # "absent" => jobs[k].status # "absent",
         FailureShown'
  PROVE  FinalInv'
<1>1. /\ task' \in [Workers -> TaskRecord] /\ task'[w] = t
      /\ \A v \in Workers : v # w => task'[v] = task[v]
  BY NewTask DEF FinalInv
<1>2. \A v \in Workers : Tied(task'[v], worker'[v].at, jobs')
  <2> SUFFICES ASSUME NEW v \in Workers PROVE Tied(task'[v], worker'[v].at, jobs')
    OBVIOUS
  <2>1. CASE v = w
    BY <2>1, <1>1
  <2>2. CASE v # w
    <3>1. Tied(task[v], worker[v].at, jobs) /\ task[v] \in TaskRecord
      BY DEF FinalInv, Shape
    <3>2. task'[v] = task[v] /\ worker'[v] = worker[v]
      BY <1>1, <2>2
    <3> QED
      BY <3>1, <3>2 DEF Tied, TaskRecord
  <2> QED
    BY <2>1, <2>2
<1>3. \A v \in Workers : Doing(task'[v], doc, files, rows)
  BY <1>1 DEF FinalInv
<1>4. Known(jobs', doc, rows)
  BY JobShapes DEF FinalInv, Known
<1> QED
  BY <1>1, <1>2, <1>3, <1>4, PayloadRests

LEMMA ClaimedTask ==
  ASSUME NEW j \in JobIds, NEW s \in Steps, NEW t, t = [Idle EXCEPT !.job = {j}, !.step = s]
  PROVE  t \in TaskRecord /\ t.step = s /\ t.job = {j} /\ t.mine = {}
BY IdleTask DEF Idle, TaskRecord

LEMMA ClaimStep ==
  ASSUME Prompt, FinalInv, NEW w \in Workers, NEW j \in JobIds, Claim(w, j)
  PROVE  FinalInv'
<1>1. PICK t : t = [Idle EXCEPT !.job = {j}, !.step = "claimed"]
  OBVIOUS
<1>2. /\ task[w].step = "idle" /\ Queue!Claim(w, j) /\ task' = [task EXCEPT ![w] = t]
      /\ UNCHANGED payload
  BY <1>1 DEF Claim
<1>3. t \in TaskRecord /\ t.step = "claimed" /\ t.job = {j} /\ t.mine = {}
  <2>1. "claimed" \in Steps
    BY DEF Steps
  <2> QED
    BY <1>1, <2>1, ClaimedTask
<1>4. /\ QueueInv' /\ worker'[w].at = {j} /\ crashes' = crashes
      /\ \A v \in Workers : v # w => worker'[v] = worker[v]
      /\ jobs[j].status \in {"queued", "running"} /\ jobs'[j].status = "running"
      /\ \A k \in JobIds : k # j => jobs'[k].status = jobs[k].status
  BY <1>2, ClaimEffect DEF FinalInv
<1>5. \A k \in JobIds : /\ jobs'[k].status = "failed" <=> jobs[k].status = "failed"
                        /\ jobs'[k].status = "absent" <=> jobs[k].status = "absent"
  BY <1>4
<1>6. task'[w] = t /\ \A v \in Workers : v # w => task'[v] = task[v]
  BY <1>2, <1>3, NewTask DEF FinalInv
<1>7. Tied(t, worker'[w].at, jobs') /\ Doing(t, doc, files, rows)
  BY <1>3, <1>4 DEF Tied, Doing
<1>8. FailureShown'
  BY <1>2, <1>3, <1>4, <1>5, <1>6, ReportsStay, ShownStays DEF payload
<1> QED
  BY <1>2, <1>3, <1>4, <1>5, <1>7, <1>8, WorkerMoves

LEMMA FirstSteps == \A j \in JobIds : FirstStep(j[1]) \in {"load", "check", "sync"}
<1>1. \A j \in JobIds : j[1] \in {"finalize", "email", "drive"}
  BY JobShapes
<1> QED
  BY <1>1 DEF FirstStep

LEMMA ReadJobStep ==
  ASSUME Prompt, FinalInv, NEW w \in Workers, NEW j \in JobIds, ReadJob(w, j)
  PROVE  FinalInv'
<1>1. PICK s : s = FirstStep(j[1])
  OBVIOUS
<1>2. s \in {"load", "check", "sync"}
  BY <1>1, FirstSteps
<1>3. PICK t : t = [Idle EXCEPT !.job = {j}, !.step = s]
  OBVIOUS
<1>4. /\ task[w].step = "claimed" /\ Queue!Read(w, j) /\ task' = [task EXCEPT ![w] = t]
      /\ UNCHANGED payload
  BY <1>1, <1>3 DEF ReadJob
<1>5. t \in TaskRecord /\ t.step = s /\ t.job = {j} /\ t.mine = {}
  <2>1. s \in Steps
    BY <1>2 DEF Steps
  <2> QED
    BY <1>3, <2>1, ClaimedTask
<1>6. /\ QueueInv' /\ worker'[w].at = {j} /\ crashes' = crashes /\ jobs' = jobs
      /\ \A v \in Workers : v # w => worker'[v] = worker[v]
  BY <1>4, ReadEffect DEF FinalInv
<1>7. task'[w] = t /\ \A v \in Workers : v # w => task'[v] = task[v]
  BY <1>4, <1>5, NewTask DEF FinalInv
<1>8. Tied(t, worker'[w].at, jobs') /\ Doing(t, doc, files, rows)
  BY <1>2, <1>5, <1>6 DEF Tied, Doing
<1>9. FailureShown'
  BY <1>2, <1>4, <1>5, <1>6, <1>7, ReportsStay, ShownStays DEF payload
<1> QED
  BY <1>4, <1>5, <1>6, <1>8, <1>9, WorkerMoves

LEMMA DoneStep ==
  ASSUME Prompt, FinalInv, NEW w \in Workers, NEW j \in JobIds, Done(w, j)
  PROVE  FinalInv'
<1>1. /\ task[w].step = "done" /\ Queue!Succeed(w, j) /\ task' = [task EXCEPT ![w] = Idle]
      /\ UNCHANGED payload
  BY DEF Done
<1>2. /\ QueueInv' /\ worker'[w].at = {} /\ crashes' = crashes
      /\ \A v \in Workers : v # w => worker'[v] = worker[v]
      /\ jobs[j].status = "running" /\ jobs'[j].status = "succeeded"
      /\ \A k \in JobIds : k # j => jobs'[k].status = jobs[k].status
  BY <1>1, SucceedEffect DEF FinalInv
<1>3. \A k \in JobIds : /\ jobs'[k].status = "failed" <=> jobs[k].status = "failed"
                        /\ jobs'[k].status = "absent" <=> jobs[k].status = "absent"
  BY <1>2
<1>4. task'[w] = Idle /\ \A v \in Workers : v # w => task'[v] = task[v]
  BY <1>1, IdleTask, NewTask DEF FinalInv
<1>5. Tied(Idle, worker'[w].at, jobs') /\ Doing(Idle, doc, files, rows)
  BY <1>2, IdleTask DEF Tied, Doing
<1>6. FailureShown'
  BY <1>1, <1>2, <1>3, <1>4, IdleTask, ReportsStay, ShownStays DEF payload
<1> QED
  BY <1>1, <1>2, <1>3, <1>5, <1>6, IdleTask, WorkerMoves

\* When a worker dies at a report, what it was to report goes unshown; nothing
\* else does.
LEMMA CrashHides ==
  ASSUME FinalInv, NEW w \in Workers, UNCHANGED <<jobs, payload>>, crashes' = crashes + 1,
         task'[w] = Idle, \A v \in Workers : v # w => task'[v] = task[v]
  PROVE  FailureShown'
<1>1. \A j : Shown(j)' <=> Shown(j)
  BY DEF Shown, payload
<1>2. \A j : task[w].job # {j} => (Reporting(j)' <=> Reporting(j))
  BY IdleTask DEF Reporting
<1>3. CASE ~\E j : task[w].job = {j}
  <2>1. \A j : Reporting(j)' <=> Reporting(j)
    BY <1>2, <1>3
  <2> QED
    BY <1>1, <2>1, FailuresRest
<1>4. CASE \E j : task[w].job = {j}
  <2>1. PICK k : task[w].job = {k}
    BY <1>4
  <2>2. \A j : j # k => (Reporting(j)' <=> Reporting(j))
    BY <1>2, <2>1
  <2>3. \A j : Reporting(j)' => Reporting(j)
    BY IdleTask DEF Reporting
  <2>4. \A j \in JobIds : Shown(j)' \/ Reporting(j)' => jobs'[j].status = "failed"
    BY <1>1, <2>3 DEF FinalInv, FailureShown
  <2>5. Unshown' \subseteq Unshown \cup {k}
    BY <1>1, <2>2, Hidden
  <2>6. /\ IsFiniteSet(Unshown \cup {k}) /\ Cardinality(Unshown) \in Nat
        /\ Cardinality(Unshown \cup {k}) \in {Cardinality(Unshown), Cardinality(Unshown) + 1}
    BY UnshownFinite, FS_AddElement
  <2>7. Cardinality(Unshown') \in Nat /\ Cardinality(Unshown') <= Cardinality(Unshown \cup {k})
    BY <2>5, <2>6, FS_Subset, FS_CardinalityType
  <2>8. Cardinality(Unshown) <= crashes /\ crashes \in Nat
    BY QueueTypes DEF FinalInv, FailureShown
  <2>9. Cardinality(Unshown') <= crashes'
    BY <2>6, <2>7, <2>8
  <2> QED
    BY <2>4, <2>9 DEF FailureShown
<1> QED
  BY <1>3, <1>4

LEMMA CrashStep ==
  ASSUME Prompt, FinalInv, NEW w \in Workers, Crash(w)
  PROVE  FinalInv'
<1>1. Queue!Crash(w) /\ task' = [task EXCEPT ![w] = Idle] /\ UNCHANGED payload
  BY DEF Crash
<1>2. /\ QueueInv' /\ worker'[w].at = {} /\ jobs' = jobs /\ crashes' = crashes + 1
      /\ \A v \in Workers : v # w => worker'[v] = worker[v]
  BY <1>1, CrashEffect DEF FinalInv
<1>3. task'[w] = Idle /\ \A v \in Workers : v # w => task'[v] = task[v]
  BY <1>1, IdleTask, NewTask DEF FinalInv
<1>4. Tied(Idle, worker'[w].at, jobs') /\ Doing(Idle, doc, files, rows)
  BY <1>2, IdleTask DEF Tied, Doing
<1>5. FailureShown'
  BY <1>1, <1>2, <1>3, CrashHides
<1> QED
  BY <1>1, <1>2, <1>4, <1>5, IdleTask, WorkerMoves

LEMMA TickStep ==
  ASSUME Prompt, FinalInv, Tick
  PROVE  FinalInv'
<1>1. Queue!Tick /\ task' = task /\ UNCHANGED payload
  BY DEF Tick
<1>2. /\ QueueInv' /\ worker' = worker /\ crashes' = crashes
      /\ \A k \in JobIds : jobs'[k].status = jobs[k].status
  BY <1>1, TickEffect DEF FinalInv
<1>3. task' \in [Workers -> TaskRecord]
  BY <1>1 DEF FinalInv, Shape
<1>4. \A v \in Workers : Tied(task'[v], worker'[v].at, jobs')
  BY <1>1, <1>2, <1>3 DEF FinalInv, Tied, TaskRecord
<1>5. Known(jobs', doc, rows)
  BY <1>2, JobShapes DEF FinalInv, Known
<1>6. \A j : Reporting(j)' <=> Reporting(j)
  BY <1>1 DEF Reporting
<1>7. FailureShown'
  BY <1>1, <1>2, <1>6, ShownStays DEF payload
<1> QED
  BY <1>1, <1>2, <1>3, <1>4, <1>5, <1>7, PayloadRests DEF FinalInv

LEMMA FailStep ==
  ASSUME Prompt, FinalInv, NEW w \in Workers, NEW j \in JobIds, Fail(w, j)
  PROVE  FinalInv'
<1> DEFINE reports == jobs'[j].status = "failed" /\ Reported(j[1])
           t == IF reports THEN [Idle EXCEPT !.job = {j}, !.step = "report"] ELSE Idle
<1>1. /\ task[w].job = {j} /\ Queue!Fail(w, j) /\ task' = [task EXCEPT ![w] = t]
      /\ UNCHANGED payload
  BY DEF Fail
<1>2. /\ QueueInv' /\ worker[w].at = {j} /\ worker'[w].at = {} /\ crashes' = crashes
      /\ \A v \in Workers : v # w => worker'[v] = worker[v]
      /\ jobs[j].status = "running" /\ jobs'[j].status \in {"queued", "failed"}
      /\ \A k \in JobIds : k # j => jobs'[k].status = jobs[k].status
  BY <1>1, FailEffect DEF FinalInv
<1>3. /\ t \in TaskRecord /\ t.mine = {}
      /\ reports => t.step = "report" /\ t.job = {j}
      /\ ~reports => t.step = "idle"
  BY IdleTask DEF Idle, TaskRecord, Steps
<1> HIDE DEF t
<1>4. task'[w] = t /\ \A v \in Workers : v # w => task'[v] = task[v]
  BY <1>1, <1>3, NewTask DEF FinalInv
<1>5. Tied(t, worker'[w].at, jobs')
  BY <1>2, <1>3 DEF Tied
<1>6. Doing(t, doc, files, rows)
  BY <1>3 DEF Doing
<1>7. task[w].step # "report" /\ ~Reporting(j)
  BY <1>2, NotReported DEF FinalInv, Tied
<1>8. /\ \A k : k # j => (Reporting(k)' <=> Reporting(k))
      /\ Reporting(j)' <=> reports
  BY <1>3, <1>4, <1>7 DEF Reporting
<1>9. FailureShown'
  <2>1. \A k : Shown(k)' <=> Shown(k)
    BY <1>1 DEF Shown, payload
  <2>2. \A k \in JobIds : Shown(k)' \/ Reporting(k)' => jobs'[k].status = "failed"
    <3> SUFFICES ASSUME NEW k \in JobIds, Shown(k)' \/ Reporting(k)'
                 PROVE  jobs'[k].status = "failed"
      OBVIOUS
    <3>1. Shown(k) \/ Reporting(k) => jobs[k].status = "failed"
      BY DEF FinalInv, FailureShown
    <3>2. CASE k = j
      BY <1>2, <1>8, <2>1, <3>1, <3>2
    <3>3. CASE k # j
      BY <1>2, <1>8, <2>1, <3>1, <3>3
    <3> QED
      BY <3>2, <3>3
  <2>3. j \in Told => Reported(j[1])
    BY DEF Told, Reported
  <2>4. \A k \in Unshown' : k # j
    BY <1>8, <2>3, Hidden
  <2>5. Unshown' \subseteq Unshown
    <3> SUFFICES ASSUME NEW k \in Unshown' PROVE k \in Unshown
      OBVIOUS
    <3>1. k \in Told /\ jobs'[k].status = "failed" /\ ~Shown(k)' /\ ~Reporting(k)'
      BY Hidden
    <3>2. k # j /\ k \in JobIds
      BY <2>4, <3>1, UnshownFinite
    <3> QED
      BY <1>2, <1>8, <2>1, <3>1, <3>2, Hidden
  <2> QED
    BY <1>2, <2>2, <2>5, NoneHidden
<1>10. \A k \in JobIds : /\ jobs[k].status = "failed" => jobs'[k].status = "failed"
                         /\ jobs'[k].status # "absent" => jobs[k].status # "absent"
  BY <1>2
<1> QED
  BY <1>1, <1>2, <1>3, <1>5, <1>6, <1>9, <1>10, WorkerMoves

\* A step that only changes statuses of documents and rows.
LEMMA StatusesMove ==
  ASSUME FinalInv, QueueRests, UNCHANGED <<files, session, mailed>>,
         doc' \in [Docs -> DocRecord],
         \A d \in Docs : /\ doc'[d].file = doc[d].file /\ doc'[d].archive = doc[d].archive
                         /\ doc[d].status = "completed" => doc'[d].status = "completed",
         rows' \in Seq(RowRecord), DOMAIN rows' = DOMAIN rows,
         \A i \in DOMAIN rows : /\ rows'[i].doc = rows[i].doc /\ rows'[i].to = rows[i].to
                                /\ rows'[i].file = rows[i].file,
         task' \in [Workers -> TaskRecord],
         \A v \in Workers : Tied(task'[v], worker[v].at, jobs),
         \A v \in Workers : Doing(task'[v], doc, files, rows),
         FailureShown'
  PROVE  FinalInv'
<1>1. QueueInv' /\ jobs' = jobs /\ worker' = worker
  BY QueueRested DEF QueueRests, FinalInv
<1>2. Shape'
  BY DEF FinalInv, Shape
<1>3. \A v \in Workers : Tied(task'[v], worker'[v].at, jobs')
  BY <1>1
<1>4. \A v \in Workers : Doing(task'[v], doc', files', rows')
  BY DEF Doing
<1>5. Known(jobs', doc', rows')
  BY <1>1 DEF FinalInv, Known
<1>6. DocsRight(doc', files')
  BY DEF FinalInv, DocsRight
<1>7. RowsRight(doc', rows')
  <2>1. \A i \in DOMAIN rows : rows[i].doc \in Docs
    <3>1. \A i \in DOMAIN rows : rows[i] \in RowRecord
      BY DEF FinalInv, Shape
    <3> QED
      BY <3>1 DEF RowRecord
  <2> QED
    BY <2>1 DEF FinalInv, RowsRight
<1>8. MailRight(doc', rows', mailed')
  BY DEF FinalInv, MailRight
<1> QED
  BY <1>1, <1>2, <1>3, <1>4, <1>5, <1>6, <1>7, <1>8 DEF FinalInv

LEMMA RowMarked ==
  ASSUME NEW R \in Seq(RowRecord), NEW i \in DOMAIN R, NEW S,
         NEW s \in {"queued", "sending", "sent", "failed"}, S = [R EXCEPT ![i].status = s]
  PROVE  /\ S \in Seq(RowRecord) /\ DOMAIN S = DOMAIN R /\ S[i].status = s
         /\ \A k \in DOMAIN R : /\ S[k].doc = R[k].doc /\ S[k].to = R[k].to /\ S[k].file = R[k].file
                                /\ k # i => S[k].status = R[k].status
<1>1. R[i] \in RowRecord
  OBVIOUS
<1> DEFINE r == [R[i] EXCEPT !.status = s]
<1>2. r \in RowRecord /\ r.status = s /\ r.doc = R[i].doc /\ r.to = R[i].to /\ r.file = R[i].file
  BY <1>1 DEF RowRecord
<1>3. S = [R EXCEPT ![i] = r]
  OBVIOUS
<1> HIDE DEF r
<1> QED
  BY <1>2, <1>3, ExceptSeq

LEMMA LastSignatureStep ==
  ASSUME FinalInv, NEW d \in Docs, LastSignature(d)
  PROVE  FinalInv'
<1> DEFINE e == [doc[d] EXCEPT !.status = "completed", !.final = "queued"]
<1>1. /\ doc[d].status # "completed" /\ doc' = [doc EXCEPT ![d] = e] /\ QueueRests
      /\ UNCHANGED <<task, files, rows, session, mailed>>
  BY DEF LastSignature, QueueRests, FinalInv, Shape
<1>2. doc \in [Docs -> DocRecord]
  BY DEF FinalInv, Shape
<1>3. /\ e \in DocRecord /\ e.status = "completed" /\ e.final = "queued"
      /\ e.file = doc[d].file /\ e.archive = doc[d].archive
  BY <1>2 DEF DocRecord
<1> HIDE DEF e
<1>4. /\ doc' \in [Docs -> DocRecord] /\ doc'[d] = e
      /\ \A c \in Docs : c # d => doc'[c] = doc[c]
  BY <1>1, <1>2, <1>3
<1>5. jobs[<<"finalize", d>>].status = "absent"
  BY <1>1 DEF FinalInv, Known
<1>7. doc[d].final # "failed"
  BY <1>5, JobShapes, WhereShown DEF FinalInv, FailureShown
<1>8. FailureShown'
  BY <1>1, <1>3, <1>4, <1>7, ShownStays DEF Reporting, QueueRests
<1>9. rows \in Seq(RowRecord) /\ task \in [Workers -> TaskRecord]
  BY DEF FinalInv, Shape
<1> QED
  BY <1>1, <1>3, <1>4, <1>8, <1>9, StatusesMove DEF FinalInv

\* A report shows the job it is of.
LEMMA ReportShows ==
  ASSUME FinalInv, NEW k, UNCHANGED <<jobs, crashes>>, jobs[k].status = "failed", Shown(k)',
         \A j : j # k => (Shown(j)' <=> Shown(j)),
         \A j : j # k => (Reporting(j)' <=> Reporting(j))
  PROVE  FailureShown'
<1>1. \A j \in JobIds : Shown(j)' \/ Reporting(j)' => jobs'[j].status = "failed"
  BY DEF FinalInv, FailureShown
<1>2. Unshown' \subseteq Unshown
  BY Hidden
<1> QED
  BY <1>1, <1>2, NoneHidden

LEMMA ReportDocStep ==
  ASSUME FinalInv, NEW w \in Workers, NEW d \in Docs, ReportDoc(w, d)
  PROVE  FinalInv'
<1> DEFINE e == [doc[d] EXCEPT !.final = "failed"]
<1>1. /\ task[w].step = "report" /\ task[w].job = {<<"finalize", d>>}
      /\ doc' = [doc EXCEPT ![d] = e] /\ task' = [task EXCEPT ![w] = Idle] /\ QueueRests
      /\ UNCHANGED <<files, rows, session, mailed>>
  BY DEF ReportDoc, At, FinalInv, Shape
<1>2. doc \in [Docs -> DocRecord]
  BY DEF FinalInv, Shape
<1>3. /\ e \in DocRecord /\ e.status = doc[d].status /\ e.final = "failed"
      /\ e.file = doc[d].file /\ e.archive = doc[d].archive
  BY <1>2 DEF DocRecord
<1> HIDE DEF e
<1>4. /\ doc' \in [Docs -> DocRecord] /\ doc'[d] = e
      /\ \A c \in Docs : c # d => doc'[c] = doc[c]
  BY <1>1, <1>2, <1>3
<1>5. /\ task' \in [Workers -> TaskRecord] /\ task'[w] = Idle
      /\ \A v \in Workers : v # w => task'[v] = task[v]
  BY <1>1, IdleTask, NewTask DEF FinalInv
<1>6. worker[w].at = {} /\ jobs[<<"finalize", d>>].status = "failed"
  BY <1>1 DEF FinalInv, Tied
<1>7. \A v \in Workers : Tied(task'[v], worker[v].at, jobs)
  BY <1>5, <1>6, IdleTask DEF FinalInv, Tied
<1>8. \A v \in Workers : Doing(task'[v], doc, files, rows)
  BY <1>5, IdleTask DEF FinalInv, Doing
<1>9. \A j : j # <<"finalize", d>> => (Reporting(j)' <=> Reporting(j))
  BY <1>1, <1>5, IdleTask DEF Reporting
<1>10. FailureShown'
  <2>1. Shown(<<"finalize", d>>)'
    BY <1>3, <1>4 DEF Shown
  <2>2. \A j : j # <<"finalize", d>> => (Shown(j)' <=> Shown(j))
    BY <1>1, <1>4 DEF Shown
  <2> QED
    BY <1>1, <1>6, <1>9, <2>1, <2>2, ReportShows DEF QueueRests
<1>11. rows \in Seq(RowRecord)
  BY DEF FinalInv, Shape
<1> QED
  BY <1>1, <1>3, <1>4, <1>5, <1>7, <1>8, <1>10, <1>11, StatusesMove

\* A worker at an email job has its row.
LEMMA MailRow ==
  ASSUME FinalInv, NEW w \in Workers, NEW i \in Rows, task[w].job = {<<"email", i>>},
         task[w].step # "idle"
  PROVE  i \in DOMAIN rows /\ rows[i] \in RowRecord
<1>1. jobs[<<"email", i>>].status # "absent"
  <2>1. CASE task[w].step = "report"
    BY <2>1 DEF FinalInv, Tied
  <2>2. CASE task[w].step # "report"
    BY <2>2, Working
  <2> QED
    BY <2>1, <2>2
<1>2. i \in DOMAIN rows
  BY <1>1 DEF FinalInv, Known
<1> QED
  BY <1>2 DEF FinalInv, Shape

\* An email job that marks its row and goes on.
LEMMA MarkKeeps ==
  ASSUME FinalInv, NEW w \in Workers, NEW i \in Rows, task[w].job = {<<"email", i>>},
         task[w].step \notin {"idle", "report"}, NEW s \in {"send", "done"}, Goto(w, s),
         NEW u \in {"sending", "sent"}, rows' = [rows EXCEPT ![i].status = u],
         QueueRests, UNCHANGED <<doc, files, session, mailed>>
  PROVE  FinalInv'
<1>1. i \in DOMAIN rows
  BY MailRow
<1>2. /\ rows' \in Seq(RowRecord) /\ DOMAIN rows' = DOMAIN rows /\ rows'[i].status = u
      /\ \A k \in DOMAIN rows : /\ rows'[k].doc = rows[k].doc /\ rows'[k].to = rows[k].to
                                /\ rows'[k].file = rows[k].file
                                /\ k # i => rows'[k].status = rows[k].status
  <2>1. rows \in Seq(RowRecord)
    BY DEF FinalInv, Shape
  <2>2. u \in {"queued", "sending", "sent", "failed"}
    OBVIOUS
  <2> QED
    BY <1>1, <2>1, <2>2, RowMarked
<1>3. /\ task' \in [Workers -> TaskRecord]
      /\ \A v \in Workers : v # w => task'[v] = task[v]
      /\ task'[w].step = s /\ task'[w].job = task[w].job /\ task'[w].mine = task[w].mine
  BY StepTo DEF FinalInv, Steps
<1>4. \A v \in Workers : Tied(task'[v], worker[v].at, jobs)
  BY <1>3 DEF FinalInv, Tied
<1>5. Doing(task[w], doc, files, rows)
  BY DEF FinalInv
<1>6. Doing(task'[w], doc, files, rows)
  BY <1>3, <1>5 DEF Doing
<1>7. \A v \in Workers : Doing(task'[v], doc, files, rows)
  BY <1>3, <1>6 DEF FinalInv
<1>8. jobs[<<"email", i>>].status = "running"
  BY Working
<1>9. rows[i].status # "failed"
  BY <1>1, <1>8, WhereShown DEF FinalInv, FailureShown
<1>10. FailureShown'
  BY <1>2, <1>3, <1>9, ReportsStay, ShownStays DEF QueueRests
<1>11. doc \in [Docs -> DocRecord]
  BY DEF FinalInv, Shape
<1> QED
  BY <1>2, <1>3, <1>4, <1>7, <1>10, <1>11, StatusesMove

LEMMA CheckStep ==
  ASSUME FinalInv, NEW w \in Workers, NEW i \in Rows, Check(w, i)
  PROVE  FinalInv'
<1>1. /\ task[w].step = "check" /\ task[w].job = {<<"email", i>>}
      /\ QueueRests /\ UNCHANGED <<doc, files, session, mailed>>
  BY DEF Check, At
<1>2. CASE SentBefore(rows[i])
  <2>1. Goto(w, "done") /\ UNCHANGED payload
    BY <1>2 DEF Check, payload
  <2>2. /\ task'[w].job = {<<"email", i>>} /\ task'[w].mine = task[w].mine
        /\ task'[w].step = "done"
    BY <1>1, <2>1, StepTo DEF FinalInv, Steps
  <2>3. Doing(task[w], doc, files, rows)
    BY DEF FinalInv
  <2>4. Doing(task'[w], doc, files, rows)
    BY <2>2, <2>3 DEF Doing
  <2> QED
    BY <1>1, <2>1, <2>4, GotoKeeps DEF Steps
<1>3. CASE ~SentBefore(rows[i])
  <2>1. Goto(w, "send") /\ rows' = [rows EXCEPT ![i].status = "sending"]
    BY <1>3 DEF Check
  <2> QED
    BY <1>1, <2>1, MarkKeeps
<1> QED
  BY <1>2, <1>3

LEMMA MarkSentStep ==
  ASSUME FinalInv, NEW w \in Workers, NEW i \in Rows, MarkSent(w, i)
  PROVE  FinalInv'
BY MarkKeeps DEF MarkSent, At

LEMMA ReportRowStep ==
  ASSUME FinalInv, NEW w \in Workers, NEW i \in Rows, ReportRow(w, i)
  PROVE  FinalInv'
<1>1. /\ task[w].step = "report" /\ task[w].job = {<<"email", i>>}
      /\ rows' = [rows EXCEPT ![i].status = "failed"] /\ task' = [task EXCEPT ![w] = Idle]
      /\ QueueRests /\ UNCHANGED <<doc, files, session, mailed>>
  BY DEF ReportRow, At
<1>2. i \in DOMAIN rows
  BY <1>1, MailRow
<1>3. /\ rows' \in Seq(RowRecord) /\ DOMAIN rows' = DOMAIN rows /\ rows'[i].status = "failed"
      /\ \A k \in DOMAIN rows : /\ rows'[k].doc = rows[k].doc /\ rows'[k].to = rows[k].to
                                /\ rows'[k].file = rows[k].file
                                /\ k # i => rows'[k].status = rows[k].status
  <2>1. rows \in Seq(RowRecord)
    BY DEF FinalInv, Shape
  <2> QED
    BY <1>1, <1>2, <2>1, RowMarked
<1>4. /\ task' \in [Workers -> TaskRecord] /\ task'[w] = Idle
      /\ \A v \in Workers : v # w => task'[v] = task[v]
  BY <1>1, IdleTask, NewTask DEF FinalInv
<1>5. worker[w].at = {} /\ jobs[<<"email", i>>].status = "failed"
  BY <1>1 DEF FinalInv, Tied
<1>6. \A v \in Workers : Tied(task'[v], worker[v].at, jobs)
  BY <1>4, <1>5, IdleTask DEF FinalInv, Tied
<1>7. \A v \in Workers : Doing(task'[v], doc, files, rows)
  BY <1>4, IdleTask DEF FinalInv, Doing
<1>8. \A j : j # <<"email", i>> => (Reporting(j)' <=> Reporting(j))
  BY <1>1, <1>4, IdleTask DEF Reporting
<1>9. FailureShown'
  <2>1. Shown(<<"email", i>>)'
    BY <1>2, <1>3 DEF Shown
  <2>2. \A j : j # <<"email", i>> => (Shown(j)' <=> Shown(j))
    BY <1>1, <1>3 DEF Shown
  <2> QED
    BY <1>1, <1>5, <1>8, <2>1, <2>2, ReportShows DEF QueueRests
<1>10. doc \in [Docs -> DocRecord]
  BY DEF FinalInv, Shape
<1> QED
  BY <1>1, <1>3, <1>4, <1>6, <1>7, <1>9, <1>10, StatusesMove

LEMMA BuildStep ==
  ASSUME FinalInv, NEW w \in Workers, NEW d \in Docs, Build(w, d)
  PROVE  FinalInv'
<1> DEFINE t == [task[w] EXCEPT !.step = "record", !.file = Len(files) + 1]
<1>1. /\ task[w].step = "build" /\ task[w].job = {<<"finalize", d>>} /\ Len(files) < MaxFiles
      /\ files' = Append(files, d) /\ task' = [task EXCEPT ![w] = t] /\ QueueRests
      /\ UNCHANGED <<doc, rows, session, mailed>>
  BY DEF Build, At, FinalInv, Shape
<1>2. task[w] \in TaskRecord /\ files \in Seq(Docs)
  BY DEF FinalInv, Shape
<1>3. Len(files) + 1 \in 0..MaxFiles
  BY <1>1, <1>2, FinalizationAssumption
<1>4. /\ t \in TaskRecord /\ t.step = "record" /\ t.job = task[w].job
      /\ t.file = Len(files) + 1 /\ t.mine = task[w].mine
  BY <1>2, <1>3 DEF TaskRecord, Steps
<1> HIDE DEF t
<1>5. /\ files' \in Seq(Docs) /\ Len(files') = Len(files) + 1 /\ files'[Len(files) + 1] = d
      /\ \A f \in DOMAIN files : f \in DOMAIN files' /\ files'[f] = files[f]
      /\ Len(files) + 1 \in DOMAIN files'
  BY <1>1, <1>2
<1>6. /\ task' \in [Workers -> TaskRecord] /\ task'[w] = t
      /\ \A v \in Workers : v # w => task'[v] = task[v]
  BY <1>1, <1>4, NewTask DEF FinalInv
<1>7. Len(files') <= MaxFiles
  BY <1>1, <1>2, <1>5, FinalizationAssumption
<1>8. Shape'
  BY <1>1, <1>5, <1>6, <1>7 DEF FinalInv, Shape
<1>9. jobs' = jobs /\ worker' = worker /\ crashes' = crashes /\ QueueInv'
  BY <1>1, QueueRested DEF QueueRests, FinalInv
<1>10. \A v \in Workers : Tied(task'[v], worker'[v].at, jobs')
  BY <1>1, <1>4, <1>6, <1>9 DEF FinalInv, Tied
<1>11. \A v \in Workers : Doing(task[v], doc, files', rows)
  BY <1>5 DEF FinalInv, Doing
<1>12. Doing(t, doc, files', rows)
  <2>1. \A c \in Docs : t.job = {<<"finalize", c>>} => c = d
    <3>1. t.job = {<<"finalize", d>>}
      BY <1>1, <1>4
    <3> QED
      BY <3>1, SameJob
  <2> QED
    BY <1>1, <1>4, <1>5, <1>11, <2>1 DEF Doing
<1>13. \A v \in Workers : Doing(task'[v], doc', files', rows')
  BY <1>1, <1>6, <1>11, <1>12
<1>14. DocsRight(doc', files')
  BY <1>1, <1>5 DEF FinalInv, DocsRight
<1>15. FailureShown'
  BY <1>1, <1>4, <1>6, <1>9, ReportsStay, ShownStays
<1> QED
  BY <1>1, <1>8, <1>9, <1>10, <1>13, <1>14, <1>15 DEF FinalInv

LEMMA RecordStep ==
  ASSUME FinalInv, NEW w \in Workers, NEW d \in Docs, Record(w, d)
  PROVE  FinalInv'
<1> DEFINE e == [doc[d] EXCEPT !.status = "completed", !.file = task[w].file,
                               !.final = "succeeded"]
<1>1. /\ task[w].step = "record" /\ task[w].job = {<<"finalize", d>>}
      /\ doc' = [doc EXCEPT ![d] = e] /\ Goto(w, "archive") /\ QueueRests
      /\ UNCHANGED <<files, rows, session, mailed>>
  BY DEF Record, At, FinalInv, Shape
<1>2. doc \in [Docs -> DocRecord] /\ task[w] \in TaskRecord /\ files \in Seq(Docs)
  BY DEF FinalInv, Shape
<1>3. doc[d].file = 0 /\ task[w].file \in DOMAIN files /\ files[task[w].file] = d
  BY <1>1 DEF FinalInv, Doing
<1>4. doc[d].archive = 0 /\ task[w].file # 0
  <2>1. doc[d].archive \in {0, doc[d].file}
    BY DEF FinalInv, DocsRight
  <2> QED
    BY <1>2, <1>3, <2>1
<1>5. /\ e \in DocRecord /\ e.status = "completed" /\ e.final = "succeeded"
      /\ e.file = task[w].file /\ e.archive = 0
  BY <1>2, <1>4 DEF DocRecord, TaskRecord
<1> HIDE DEF e
<1>6. /\ doc' \in [Docs -> DocRecord] /\ doc'[d] = e
      /\ \A c \in Docs : c # d => doc'[c] = doc[c]
  BY <1>1, <1>2, <1>5
<1>7. /\ task' \in [Workers -> TaskRecord]
      /\ \A v \in Workers : v # w => task'[v] = task[v]
      /\ task'[w].step = "archive" /\ task'[w].job = task[w].job
      /\ task'[w].file = task[w].file /\ task'[w].mine = task[w].mine
  BY <1>1, StepTo DEF FinalInv, Steps
<1>8. Shape'
  BY <1>1, <1>6, <1>7 DEF FinalInv, Shape
<1>9. jobs' = jobs /\ worker' = worker /\ crashes' = crashes /\ QueueInv'
  BY <1>1, QueueRested DEF QueueRests, FinalInv
<1>10. \A v \in Workers : Tied(task'[v], worker'[v].at, jobs')
  BY <1>1, <1>7, <1>9 DEF FinalInv, Tied
<1>11. /\ jobs[<<"finalize", d>>].status = "running"
       /\ \A v \in Workers : v # w /\ task[v].job = {<<"finalize", d>>}
            => task[v].step \in {"idle", "report"}
  BY <1>1, Working
<1>12. \A v \in Workers : Doing(task'[v], doc', files', rows')
  <2>1. \A v \in Workers : v # w => Doing(task[v], doc', files, rows)
    BY <1>6, <1>11 DEF FinalInv, Doing
  <2>2. \A c \in Docs : task'[w].job = {<<"finalize", c>>} => c = d
    <3>1. task'[w].job = {<<"finalize", d>>}
      BY <1>1, <1>7
    <3> QED
      BY <3>1, SameJob
  <2>3. task[w].mine \subseteq DOMAIN rows
    BY DEF FinalInv, Doing
  <2>4. Doing(task'[w], doc', files, rows)
    BY <1>4, <1>5, <1>6, <1>7, <2>2, <2>3 DEF Doing
  <2> QED
    BY <1>1, <1>7, <2>1, <2>4
<1>13. Known(jobs', doc', rows')
  BY <1>1, <1>5, <1>6, <1>9 DEF FinalInv, Known
<1>14. DocsRight(doc', files')
  BY <1>1, <1>3, <1>5, <1>6 DEF FinalInv, DocsRight
<1>15. /\ \A i \in DOMAIN rows : rows[i].doc # d
       /\ \A p \in Parties : mailed[d][p] = <<>>
  BY <1>4, NothingYet
<1>16. \A i \in DOMAIN rows : rows[i].doc \in Docs
  <2>1. \A i \in DOMAIN rows : rows[i] \in RowRecord
    BY DEF FinalInv, Shape
  <2> QED
    BY <2>1 DEF RowRecord
<1>17. RowsRight(doc', rows')
  BY <1>1, <1>6, <1>15, <1>16 DEF FinalInv, RowsRight
<1>18. MailRight(doc', rows', mailed')
  BY <1>1, <1>6, <1>15 DEF FinalInv, MailRight
<1>19. doc[d].final # "failed"
  BY <1>11, JobShapes, WhereShown DEF FinalInv, FailureShown
<1>20. FailureShown'
  BY <1>1, <1>5, <1>6, <1>7, <1>9, <1>19, ReportsStay, ShownStays
<1> QED
  BY <1>8, <1>9, <1>10, <1>12, <1>13, <1>14, <1>17, <1>18, <1>20 DEF FinalInv

LEMMA ArchiveStep ==
  ASSUME FinalInv, NEW w \in Workers, NEW d \in Docs, Archive(w, d)
  PROVE  FinalInv'
<1> DEFINE e == [doc[d] EXCEPT !.archive = task[w].file]
           t == [task[w] EXCEPT !.step = "rows", !.todo = Parties]
<1>1. /\ task[w].step = "archive" /\ task[w].job = {<<"finalize", d>>} /\ doc[d].archive = 0
      /\ doc' = [doc EXCEPT ![d] = e] /\ task' = [task EXCEPT ![w] = t] /\ QueueRests
      /\ UNCHANGED <<files, rows, session, mailed>>
  BY DEF Archive, At, Signed, FinalInv, Shape
<1>2. doc \in [Docs -> DocRecord] /\ task[w] \in TaskRecord
  BY DEF FinalInv, Shape
<1>3. task[w].file # 0 /\ doc[d].file = task[w].file
  BY <1>1 DEF FinalInv, Doing
<1>4. /\ e \in DocRecord /\ e.status = doc[d].status /\ e.final = doc[d].final
      /\ e.file = doc[d].file /\ e.archive = doc[d].file
  BY <1>2, <1>3 DEF DocRecord, TaskRecord
<1>5. /\ t \in TaskRecord /\ t.step = "rows" /\ t.job = task[w].job
      /\ t.file = task[w].file /\ t.mine = task[w].mine
  BY <1>2 DEF TaskRecord, Steps
<1> HIDE DEF e, t
<1>6. /\ doc' \in [Docs -> DocRecord] /\ doc'[d] = e
      /\ \A c \in Docs : c # d => doc'[c] = doc[c]
  BY <1>1, <1>2, <1>4
<1>7. /\ task' \in [Workers -> TaskRecord] /\ task'[w] = t
      /\ \A v \in Workers : v # w => task'[v] = task[v]
  BY <1>1, <1>5, NewTask DEF FinalInv
<1>8. Shape'
  BY <1>1, <1>6, <1>7 DEF FinalInv, Shape
<1>9. jobs' = jobs /\ worker' = worker /\ crashes' = crashes /\ QueueInv'
  BY <1>1, QueueRested DEF QueueRests, FinalInv
<1>10. \A v \in Workers : Tied(task'[v], worker'[v].at, jobs')
  BY <1>1, <1>5, <1>7, <1>9 DEF FinalInv, Tied
<1>11. \A v \in Workers : v # w /\ task[v].job = {<<"finalize", d>>}
         => task[v].step \in {"idle", "report"}
  BY <1>1, Working
<1>12. /\ \A i \in DOMAIN rows : rows[i].doc # d
       /\ \A p \in Parties : mailed[d][p] = <<>>
  BY <1>1, NothingYet
<1>13. \A v \in Workers : Doing(task'[v], doc', files', rows')
  <2>1. \A v \in Workers : v # w => Doing(task[v], doc', files, rows)
    BY <1>6, <1>11 DEF FinalInv, Doing
  <2>2. \A c \in Docs : t.job = {<<"finalize", c>>} => c = d
    <3>1. t.job = {<<"finalize", d>>}
      BY <1>1, <1>5
    <3> QED
      BY <3>1, SameJob
  <2>3. task[w].mine \subseteq DOMAIN rows
    BY DEF FinalInv, Doing
  <2>4. Doing(t, doc', files, rows)
    BY <1>3, <1>4, <1>5, <1>6, <1>12, <2>2, <2>3 DEF Doing
  <2> QED
    BY <1>1, <1>7, <2>1, <2>4
<1>14. Known(jobs', doc', rows')
  BY <1>1, <1>4, <1>6, <1>9 DEF FinalInv, Known
<1>15. DocsRight(doc', files')
  BY <1>1, <1>4, <1>6 DEF FinalInv, DocsRight
<1>16. \A i \in DOMAIN rows : rows[i].doc \in Docs
  <2>1. \A i \in DOMAIN rows : rows[i] \in RowRecord
    BY DEF FinalInv, Shape
  <2> QED
    BY <2>1 DEF RowRecord
<1>17. RowsRight(doc', rows')
  BY <1>1, <1>6, <1>12, <1>16 DEF FinalInv, RowsRight
<1>18. MailRight(doc', rows', mailed')
  BY <1>1, <1>6, <1>12 DEF FinalInv, MailRight
<1>19. FailureShown'
  BY <1>1, <1>4, <1>5, <1>6, <1>7, <1>9, ReportsStay, ShownStays
<1> QED
  BY <1>8, <1>9, <1>10, <1>13, <1>14, <1>15, <1>17, <1>18, <1>19 DEF FinalInv

LEMMA AddRowStep ==
  ASSUME FinalInv, NEW w \in Workers, NEW d \in Docs, NEW p \in Parties, AddRow(w, d, p)
  PROVE  FinalInv'
<1> DEFINE r == [doc |-> d, to |-> p, file |-> task[w].file, status |-> "queued"]
           n == Len(rows) + 1
           t == [task[w] EXCEPT !.todo = task[w].todo \ {p}, !.mine = task[w].mine \cup {n},
                                !.step = IF task[w].todo = {p} THEN "mails" ELSE "rows"]
<1>1. /\ task[w].step = "rows" /\ task[w].job = {<<"finalize", d>>} /\ p \in task[w].todo
      /\ rows' = Append(rows, r) /\ task' = [task EXCEPT ![w] = t] /\ QueueRests
      /\ UNCHANGED <<doc, files, session, mailed>>
  BY DEF AddRow, At, FinalInv, Shape
<1>2. task[w] \in TaskRecord /\ rows \in Seq(RowRecord)
  BY DEF FinalInv, Shape
<1>3. /\ task[w].file # 0 /\ doc[d].file = task[w].file /\ doc[d].archive = task[w].file
      /\ task[w].mine \subseteq DOMAIN rows
      /\ \A i \in DOMAIN rows : rows[i].doc = d => rows[i].to \notin task[w].todo
  BY <1>1 DEF FinalInv, Doing
<1>4. r \in RowRecord /\ r.doc = d /\ r.to = p /\ r.file = task[w].file /\ r.status = "queued"
  BY <1>2, <1>3, FinalizationAssumption DEF RowRecord, TaskRecord, Files
<1>5. n \in Nat /\ n \notin DOMAIN rows
  BY <1>2
<1>6. /\ t \in TaskRecord /\ t.step \in {"rows", "mails"} /\ t.job = task[w].job
      /\ t.file = task[w].file /\ t.mine = task[w].mine \cup {n} /\ t.todo = task[w].todo \ {p}
  BY <1>2, <1>5 DEF TaskRecord, Steps
<1> HIDE DEF r, t
<1>7. /\ rows' \in Seq(RowRecord) /\ DOMAIN rows' = DOMAIN rows \cup {n} /\ rows'[n] = r
      /\ \A i \in DOMAIN rows : rows'[i] = rows[i]
  BY <1>1, <1>2, <1>4
<1> HIDE DEF n
<1>8. /\ task' \in [Workers -> TaskRecord] /\ task'[w] = t
      /\ \A v \in Workers : v # w => task'[v] = task[v]
  BY <1>1, <1>6, NewTask DEF FinalInv
<1>9. Shape'
  BY <1>1, <1>7, <1>8 DEF FinalInv, Shape
<1>10. jobs' = jobs /\ worker' = worker /\ crashes' = crashes /\ QueueInv'
  BY <1>1, QueueRested DEF QueueRests, FinalInv
<1>11. \A v \in Workers : Tied(task'[v], worker'[v].at, jobs')
  BY <1>1, <1>6, <1>8, <1>10 DEF FinalInv, Tied
<1>12. \A v \in Workers : v # w /\ task[v].job = {<<"finalize", d>>}
         => task[v].step \in {"idle", "report"}
  BY <1>1, Working
<1>13. \A v \in Workers : Doing(task'[v], doc', files', rows')
  <2>1. \A v \in Workers : v # w => Doing(task[v], doc, files, rows')
    BY <1>4, <1>7, <1>12 DEF FinalInv, Doing
  <2>2. \A c \in Docs : t.job = {<<"finalize", c>>} => c = d
    <3>1. t.job = {<<"finalize", d>>}
      BY <1>1, <1>6
    <3> QED
      BY <3>1, SameJob
  <2>3. Doing(t, doc, files, rows')
    BY <1>3, <1>4, <1>6, <1>7, <2>2 DEF Doing
  <2> QED
    BY <1>1, <1>8, <2>1, <2>3
<1>14. Known(jobs', doc', rows')
  BY <1>1, <1>7, <1>10 DEF FinalInv, Known
<1>15. RowsRight(doc', rows')
  <2>1. \A i \in DOMAIN rows' : rows'[i].file = doc[rows'[i].doc].file
                                /\ doc[rows'[i].doc].archive = doc[rows'[i].doc].file
    BY <1>3, <1>4, <1>7 DEF FinalInv, RowsRight
  <2>2. \A i \in DOMAIN rows : ~(rows[i].doc = d /\ rows[i].to = p)
    BY <1>1, <1>3
  <2>3. \A i, k \in DOMAIN rows' :
          rows'[i].doc = rows'[k].doc /\ rows'[i].to = rows'[k].to => i = k
    BY <1>4, <1>7, <2>2 DEF FinalInv, RowsRight
  <2> QED
    BY <1>1, <2>1, <2>3 DEF RowsRight
<1>16. MailRight(doc', rows', mailed')
  BY <1>1, <1>7 DEF FinalInv, MailRight
<1>17. FailureShown'
  <2>1. \A j : Reporting(j)' <=> Reporting(j)
    BY <1>1, <1>6, <1>8, ReportsStay
  <2>2. \A j : Shown(j)' <=> Shown(j)
    BY <1>1, <1>4, <1>5, <1>7 DEF Shown
  <2> QED
    BY <1>10, <2>1, <2>2, FailuresRest
<1> QED
  BY <1>1, <1>9, <1>10, <1>11, <1>13, <1>14, <1>15, <1>16, <1>17 DEF FinalInv

\* What a send changes.
LEMMA SendEffect ==
  ASSUME FinalInv, NEW w \in Workers, NEW i \in Rows, Send(w, i)
  PROVE  /\ task[w].step = "send" /\ task[w].job = {<<"email", i>>}
         /\ i \in DOMAIN rows /\ rows[i].doc \in Docs /\ rows[i].to \in Parties
         /\ rows[i].file \in Files
         /\ mailed' \in [Docs -> [Parties -> Seq(Files)]]
         /\ mailed'[rows[i].doc][rows[i].to]
              = Append(mailed[rows[i].doc][rows[i].to], rows[i].file)
         /\ \A d \in Docs, p \in Parties :
              ~(d = rows[i].doc /\ p = rows[i].to) => mailed'[d][p] = mailed[d][p]
<1>1. /\ task[w].step = "send" /\ task[w].job = {<<"email", i>>}
      /\ mailed' = [mailed EXCEPT ![rows[i].doc][rows[i].to] =
                      Append(mailed[rows[i].doc][rows[i].to], rows[i].file)]
  BY DEF Send, At
<1>2. i \in DOMAIN rows /\ rows[i] \in RowRecord
  BY <1>1, MailRow
<1>3. rows[i].doc \in Docs /\ rows[i].to \in Parties /\ rows[i].file \in Files
  BY <1>2 DEF RowRecord
<1>4. mailed \in [Docs -> [Parties -> Seq(Files)]]
  BY DEF FinalInv, Shape
<1>5. Append(mailed[rows[i].doc][rows[i].to], rows[i].file) \in Seq(Files)
  BY <1>3, <1>4
<1> QED
  BY <1>1, <1>2, <1>3, <1>4, <1>5

LEMMA SendStep ==
  ASSUME FinalInv, NEW w \in Workers, NEW i \in Rows, Send(w, i)
  PROVE  FinalInv'
<1>1. /\ task[w].step = "send" /\ task[w].job = {<<"email", i>>}
      /\ Goto(w, "mark") /\ QueueRests /\ UNCHANGED <<doc, files, rows, session>>
  BY DEF Send, At
<1>2. /\ i \in DOMAIN rows /\ rows[i].doc \in Docs /\ rows[i].to \in Parties
      /\ rows[i].file \in Files
      /\ mailed' \in [Docs -> [Parties -> Seq(Files)]]
      /\ mailed'[rows[i].doc][rows[i].to]
           = Append(mailed[rows[i].doc][rows[i].to], rows[i].file)
      /\ \A d \in Docs, p \in Parties :
           ~(d = rows[i].doc /\ p = rows[i].to) => mailed'[d][p] = mailed[d][p]
  BY SendEffect
<1>3. /\ task' \in [Workers -> TaskRecord]
      /\ \A v \in Workers : v # w => task'[v] = task[v]
      /\ task'[w].step = "mark" /\ task'[w].job = {<<"email", i>>}
      /\ task'[w].mine = task[w].mine
  BY <1>1, StepTo DEF FinalInv, Steps
<1>4. Shape'
  BY <1>1, <1>2, <1>3 DEF FinalInv, Shape
<1>5. jobs' = jobs /\ worker' = worker /\ crashes' = crashes /\ QueueInv'
  BY <1>1, QueueRested DEF QueueRests, FinalInv
<1>6. \A v \in Workers : Tied(task'[v], worker'[v].at, jobs')
  BY <1>1, <1>3, <1>5 DEF FinalInv, Tied
<1>7. Doing(task[w], doc, files, rows)
  BY DEF FinalInv
<1>8. Doing(task'[w], doc, files, rows)
  BY <1>3, <1>7 DEF Doing
<1>9. \A v \in Workers : Doing(task'[v], doc', files', rows')
  BY <1>1, <1>3, <1>8 DEF FinalInv
<1>10. MailRight(doc', rows', mailed')
  <2> SUFFICES ASSUME NEW d \in Docs, NEW p \in Parties
               PROVE  /\ \A k \in DOMAIN mailed'[d][p] : mailed'[d][p][k] = doc[d].file
                      /\ mailed'[d][p] # <<>>
                           => \E j \in DOMAIN rows : rows[j].doc = d /\ rows[j].to = p
    BY <1>1 DEF MailRight
  <2>1. /\ \A k \in DOMAIN mailed[d][p] : mailed[d][p][k] = doc[d].file
        /\ mailed[d][p] # <<>>
             => \E j \in DOMAIN rows : rows[j].doc = d /\ rows[j].to = p
    BY DEF FinalInv, MailRight
  <2>2. CASE d = rows[i].doc /\ p = rows[i].to
    <3>1. rows[i].file = doc[d].file
      BY <1>2, <2>2 DEF FinalInv, RowsRight
    <3>2. mailed[d][p] \in Seq(Files)
      BY DEF FinalInv, Shape
    <3>3. mailed'[d][p] = Append(mailed[d][p], doc[d].file)
      BY <1>2, <2>2, <3>1
    <3>4. doc[d].file \in Files
      BY <1>2, <3>1
    <3>5. \A k \in DOMAIN mailed'[d][p] : mailed'[d][p][k] = doc[d].file
      BY <2>1, <3>2, <3>3, <3>4
    <3> QED
      BY <1>2, <2>2, <3>5
  <2>3. CASE ~(d = rows[i].doc /\ p = rows[i].to)
    BY <1>2, <2>1, <2>3
  <2> QED
    BY <2>2, <2>3
<1>11. FailureShown'
  BY <1>1, <1>3, <1>5, ReportsStay, ShownStays
<1> QED
  BY <1>1, <1>4, <1>5, <1>6, <1>9, <1>10, <1>11 DEF FinalInv

-----------------------------------------------------------------------------
(* The invariant.                                                            *)

LEMMA FinalInit == Init => FinalInv
<1> SUFFICES ASSUME Init PROVE FinalInv
  OBVIOUS
<1>1. QP!Init
  BY DEF Init, Queue!Init, QP!Init, Queue!NoJob, QP!NoJob, Queue!Free, QP!Free
<1>2. QueueInv
  <2>1. QP!LeaseInv
    BY <1>1, QueueLimits, QP!LeaseInit
  <2>2. crashes = 0 /\ MaxCrashes \in Nat
    BY <1>1, QueueLimits DEF QP!Init, QP!QueueAssumption
  <2> QED
    BY <2>1, <2>2 DEF QueueInv
<1>3. /\ \A j \in JobIds : jobs[j].status = "absent"
      /\ \A w \in Workers : worker[w].at = {}
  BY <1>1 DEF QP!Init, QP!NoJob, QP!Free
<1>4. task \in [Workers -> TaskRecord] /\ \A w \in Workers : task[w] = Idle
  BY IdleTask DEF Init
<1>5. /\ doc \in [Docs -> DocRecord]
      /\ \A d \in Docs : doc[d].file = 0 /\ doc[d].archive = 0 /\ doc[d].final = "none"
  BY FinalizationAssumption DEF Init, DocRecord
<1>6. files = <<>> /\ rows = <<>> /\ mailed = [d \in Docs |-> [p \in Parties |-> <<>>]]
  BY DEF Init
<1>7. Shape
  BY <1>4, <1>5, <1>6, FinalizationAssumption DEF Shape, Init
<1>8. \A w \in Workers : Tied(task[w], worker[w].at, jobs) /\ Doing(task[w], doc, files, rows)
  BY <1>3, <1>4, IdleTask DEF Tied, Doing
<1>9. Known(jobs, doc, rows)
  BY <1>3, JobShapes DEF Known
<1>10. DocsRight(doc, files) /\ RowsRight(doc, rows) /\ MailRight(doc, rows, mailed)
  BY <1>5, <1>6 DEF DocsRight, RowsRight, MailRight
<1>11. FailureShown
  <2>1. \A j : ~Shown(j) /\ ~Reporting(j)
    BY <1>4, <1>5, <1>6, IdleTask DEF Shown, Reporting
  <2>2. Unshown = {}
    BY <1>3, Hidden, UnshownFinite
  <2>3. Cardinality({}) = 0 /\ crashes = 0
    BY <1>1, FS_EmptySet DEF QP!Init
  <2> QED
    BY <2>1, <2>2, <2>3 DEF FailureShown
<1> QED
  BY <1>2, <1>7, <1>8, <1>9, <1>10, <1>11 DEF FinalInv

LEMMA FinalStep == ASSUME Prompt, FinalInv, [Next]_vars PROVE FinalInv'
<1>1. ASSUME NEW d \in Docs, LastSignature(d) PROVE FinalInv'
  BY <1>1, LastSignatureStep
<1>2. ASSUME NEW d \in Docs, AskFinalize(d) PROVE FinalInv'
  BY <1>2, AskFinalizeStep
<1>3. ASSUME NEW w \in Workers, NEW j \in JobIds,
             Claim(w, j) \/ ReadJob(w, j) \/ Done(w, j) \/ Fail(w, j)
      PROVE  FinalInv'
  BY <1>3, ClaimStep, ReadJobStep, DoneStep, FailStep
<1>4. ASSUME NEW w \in Workers, NEW d \in Docs, Finalize(w, d) PROVE FinalInv'
  <2>1. CASE \E p \in Parties : AddRow(w, d, p)
    BY <2>1, AddRowStep
  <2>2. CASE \E i \in Rows : QueueMail(w, d, i)
    BY <2>2, QueueMailStep
  <2>3. CASE Load(w, d) \/ Build(w, d) \/ Record(w, d)
    BY <2>3, LoadStep, BuildStep, RecordStep
  <2>4. CASE Archive(w, d) \/ QueueDrive(w, d) \/ CompleteSession(w, d) \/ ReportDoc(w, d)
    BY <2>4, ArchiveStep, QueueDriveStep, CompleteSessionStep, ReportDocStep
  <2> QED
    BY <1>4, <2>1, <2>2, <2>3, <2>4 DEF Finalize
<1>5. ASSUME NEW w \in Workers, NEW i \in Rows, Email(w, i) PROVE FinalInv'
  BY <1>5, CheckStep, SendStep, MarkSentStep, ReportRowStep DEF Email
<1>6. ASSUME NEW w \in Workers, NEW f \in Files, Sync(w, f) PROVE FinalInv'
  BY <1>6, SyncStep
<1>7. ASSUME NEW w \in Workers, Crash(w) PROVE FinalInv'
  BY <1>7, CrashStep
<1>8. CASE Tick
  BY <1>8, TickStep
<1>9. CASE UNCHANGED vars
  <2>1. QueueInv'
    BY <1>9, QueueRested DEF vars, QueueRests, FinalInv
  <2>2. Shape' /\ FailureShown'
    BY <1>9, FailuresRest DEF vars, payload, FinalInv, Shape, Shown, Reporting
  <2> QED
    BY <1>9, <2>1, <2>2 DEF vars, payload, FinalInv
<1>10. ASSUME NEW w \in Workers, Work(w) PROVE FinalInv'
  BY <1>3, <1>4, <1>5, <1>6, <1>10 DEF Work
<1> QED
  BY <1>1, <1>2, <1>7, <1>8, <1>9, <1>10 DEF Next

LEMMA FinalAlways == ASSUME Prompt PROVE Spec => []FinalInv
<1>1. FinalInv /\ [Next]_vars => FinalInv'
  BY FinalStep
<1> QED
  BY <1>1, FinalInit, PTL DEF Spec

(* Every variable keeps to its type; there is never more than one row for   *)
(* each document and party, and rows and files fit their bounds.             *)
THEOREM TypeCorrect == ASSUME Prompt PROVE Spec => []TypeOK
<1>1. ASSUME FinalInv PROVE TypeOK
  <2>1. Queue!TypeOK
    <3>1. QP!TypeOK
      BY <1>1, QueueTypes DEF FinalInv
    <3> QED
      BY <3>1 DEF QP!TypeOK, Queue!TypeOK, QP!Row, Queue!Row, QP!Status, Queue!Status
  <2>2. rows \in Seq(RowRecord) /\ DOMAIN rows \subseteq Rows
        /\ Len(rows) <= Cardinality(Docs) * Cardinality(Parties)
    BY <1>1, RowCount DEF FinalInv, Shape, RowsRight
  <2>3. Cardinality(Rows) = Cardinality(Docs) * Cardinality(Parties)
    <3>1. Cardinality(Docs) \in Nat /\ Cardinality(Parties) \in Nat
      BY FinalizationAssumption, FS_CardinalityType
    <3>2. Cardinality(Docs) * Cardinality(Parties) \in Nat
      BY <3>1
    <3> DEFINE n == Cardinality(Docs) * Cardinality(Parties)
    <3>3. n \in Nat /\ Rows = 1..n
      BY <3>2 DEF Rows
    <3> HIDE DEF n
    <3>4. Cardinality(1..n) = IF 1 > n THEN 0 ELSE n - 1 + 1
      BY <3>3, FS_Interval
    <3>5. Cardinality(Rows) = n
      BY <3>3, <3>4
    <3> QED
      BY <3>5 DEF n
  <2>4. task \in [Workers -> [job : SUBSET JobIds, file : 0..MaxFiles, todo : SUBSET Parties,
                              mine : SUBSET Rows, step : Steps]]
    <3>1. /\ task \in [Workers -> TaskRecord]
          /\ \A w \in Workers : task[w].mine \subseteq DOMAIN rows
      BY <1>1 DEF FinalInv, Shape, Doing
    <3> QED
      BY <2>2, <3>1 DEF TaskRecord
  <2> QED
    BY <1>1, <2>1, <2>2, <2>3, <2>4
    DEF TypeOK, FinalInv, Shape, Steps, DocRecord, RowRecord
<1> QED
  BY <1>1, FinalAlways, PTL

(* The archive entry, the distribution rows and the mailed links of a        *)
(* document are all of its signed file, through retries and crashes.         *)
THEOREM OneSignedFile == ASSUME Prompt PROVE Spec => []SameFile
<1>1. FinalInv => SameFile
  BY DEF FinalInv, DocsRight, RowsRight, MailRight, SameFile
<1> QED
  BY <1>1, FinalAlways, PTL

(* Nothing is shown as failed, on a mail's row or on a document, that was    *)
(* not given up; and of what was given up and nobody is about to show, there *)
(* are at most as many as processes died.                                    *)
THEOREM FailuresShow == ASSUME Prompt PROVE Spec => []FailureShown
<1>1. FinalInv => FailureShown
  BY DEF FinalInv
<1> QED
  BY <1>1, FinalAlways, PTL

-----------------------------------------------------------------------------
(* Links that leave twice: of a crash only, if rows can always be marked.    *)

Marking(i) == \E w \in Workers : task[w].step = "mark" /\ task[w].job = {<<"email", i>>}

\* How often the link of row i left.
Times(i) == Len(mailed[rows[i].doc][rows[i].to])

CountInv ==
  /\ \A w \in Workers, i \in Rows :
       task[w].job = {<<"email", i>>} /\ task[w].step \in {"send", "mark"}
         => rows[i].status = "sending"
  /\ \A i \in DOMAIN rows :
       /\ Times(i) <= 1 + crashes
       /\ rows[i].status \in {"queued", "sending"} /\ ~Marking(i) => Times(i) <= crashes

LEMMA TimesType ==
  ASSUME FinalInv, NEW i \in DOMAIN rows
  PROVE  Times(i) \in Nat /\ crashes \in Nat
<1>1. rows[i] \in RowRecord /\ mailed \in [Docs -> [Parties -> Seq(Files)]]
  BY DEF FinalInv, Shape
<1>2. rows[i].doc \in Docs /\ rows[i].to \in Parties
  BY <1>1 DEF RowRecord
<1>3. mailed[rows[i].doc][rows[i].to] \in Seq(Files)
  BY <1>1, <1>2
<1>4. crashes \in Nat
  BY QueueTypes DEF FinalInv
<1> QED
  BY <1>3, <1>4 DEF Times

LEMMA OneMailJob ==
  ASSUME NEW t, NEW i, t = {<<"email", i>>}
  PROVE  \A k : t = {<<"email", k>>} => k = i
BY SameJob

\* Steps that leave the rows and the mails alone.
LEMMA CountRests ==
  ASSUME CountInv, UNCHANGED <<rows, mailed, crashes>>, NEW w \in Workers,
         \A v \in Workers : v # w => task'[v] = task[v],
         task[w].step # "mark", task'[w].step \notin {"send", "mark"}
  PROVE  CountInv'
<1>1. \A i : Marking(i)' <=> Marking(i)
  BY DEF Marking
<1>2. \A i : Times(i)' = Times(i)
  BY DEF Times
<1> QED
  BY <1>1, <1>2 DEF CountInv

LEMMA CountStutters ==
  ASSUME CountInv, UNCHANGED <<rows, mailed, crashes, task>>
  PROVE  CountInv'
BY DEF CountInv, Marking, Times

\* A row that is sent or checked is not being marked.
LEMMA NotMarking ==
  ASSUME FinalInv, NEW w \in Workers, NEW i, task[w].job = {<<"email", i>>},
         task[w].step \in {"check", "send"}
  PROVE  ~Marking(i)
<1>1. \A v \in Workers : v # w /\ task[v].job = {<<"email", i>>}
        => task[v].step \in {"idle", "report"}
  BY Working
<1> QED
  BY <1>1 DEF Marking

LEMMA CountCheck ==
  ASSUME FinalInv, CountInv, NEW w \in Workers, NEW i \in Rows, Check(w, i)
  PROVE  CountInv'
<1>1. /\ task[w].step = "check" /\ task[w].job = {<<"email", i>>}
      /\ QueueRests /\ UNCHANGED <<doc, files, session, mailed>> /\ crashes' = crashes
  BY DEF Check, At, QueueRests
<1>2. CASE SentBefore(rows[i])
  <2>1. Goto(w, "done") /\ rows' = rows
    BY <1>2 DEF Check
  <2> QED
    BY <1>1, <2>1, StepTo, CountRests DEF FinalInv, Steps
<1>3. CASE ~SentBefore(rows[i])
  <2>1. Goto(w, "send") /\ rows' = [rows EXCEPT ![i].status = "sending"]
    BY <1>3 DEF Check
  <2>2. /\ \A v \in Workers : v # w => task'[v] = task[v]
        /\ task'[w].step = "send" /\ task'[w].job = {<<"email", i>>}
    BY <1>1, <2>1, StepTo DEF FinalInv, Steps
  <2>3. i \in DOMAIN rows /\ rows \in Seq(RowRecord) /\ rows[i] \in RowRecord
    BY <1>1, MailRow DEF FinalInv, Shape
  <2>4. /\ DOMAIN rows' = DOMAIN rows /\ rows'[i].status = "sending"
        /\ \A k \in DOMAIN rows : /\ rows'[k].doc = rows[k].doc /\ rows'[k].to = rows[k].to
                                  /\ k # i => rows'[k].status = rows[k].status
    BY <2>1, <2>3, RowMarked
  <2>5. \A k \in DOMAIN rows : Times(k)' = Times(k)
    BY <1>1, <2>4 DEF Times
  <2>6. \A k : Marking(k)' <=> Marking(k)
    BY <1>1, <2>2 DEF Marking
  <2>7. rows[i].status \in {"queued", "sending"}
    <3>1. jobs[<<"email", i>>].status = "running"
      BY <1>1, Working
    <3>2. rows[i].status # "failed"
      BY <2>3, <3>1, WhereShown DEF FinalInv, FailureShown
    <3> QED
      BY <1>3, <2>3, <3>2 DEF SentBefore, RowRecord
  <2>8. ~Marking(i)
    BY <1>1, NotMarking
  <2>9. \A v \in Workers, k \in Rows :
          task'[v].job = {<<"email", k>>} /\ task'[v].step \in {"send", "mark"}
            => rows'[k].status = "sending"
    <3> SUFFICES ASSUME NEW v \in Workers, NEW k \in Rows, task'[v].job = {<<"email", k>>},
                        task'[v].step \in {"send", "mark"}
                 PROVE  rows'[k].status = "sending"
      OBVIOUS
    <3>1. CASE k = i
      BY <2>4, <3>1
    <3>2. CASE k # i
      <4>1. v # w
        <5>1. \A l : task'[w].job = {<<"email", l>>} => l = i
          BY <2>2, OneMailJob
        <5> QED
          BY <3>2, <5>1
      <4>2. task[v].job = {<<"email", k>>} /\ task[v].step \in {"send", "mark"}
        BY <2>2, <4>1
      <4>3. k \in DOMAIN rows
        BY <4>2, MailRow
      <4> QED
        BY <2>4, <3>2, <4>2, <4>3 DEF CountInv
    <3> QED
      BY <3>1, <3>2
  <2>10. \A k \in DOMAIN rows' :
           /\ Times(k)' <= 1 + crashes'
           /\ rows'[k].status \in {"queued", "sending"} /\ ~Marking(k)' => Times(k)' <= crashes'
    BY <1>1, <2>4, <2>5, <2>6, <2>7, <2>8 DEF CountInv
  <2> QED
    BY <2>9, <2>10 DEF CountInv
<1> QED
  BY <1>2, <1>3

LEMMA CountMarked ==
  ASSUME FinalInv, CountInv, NEW w \in Workers, NEW i \in Rows,
         task[w].job = {<<"email", i>>}, task[w].step \in {"mark", "report"},
         NEW s \in {"sent", "failed"}, rows' = [rows EXCEPT ![i].status = s],
         \A v \in Workers : v # w => task'[v] = task[v],
         task'[w].step \notin {"send", "mark"}, UNCHANGED <<mailed, crashes>>,
         \A v \in Workers : v # w /\ task[v].job = {<<"email", i>>}
           => task[v].step \notin {"send", "mark"}
  PROVE  CountInv'
<1>1. i \in DOMAIN rows /\ rows \in Seq(RowRecord)
  BY MailRow DEF FinalInv, Shape
<1>2. s \in {"queued", "sending", "sent", "failed"}
  OBVIOUS
<1>3. /\ DOMAIN rows' = DOMAIN rows /\ rows'[i].status = s
      /\ \A k \in DOMAIN rows : /\ rows'[k].doc = rows[k].doc /\ rows'[k].to = rows[k].to
                                /\ k # i => rows'[k].status = rows[k].status
  BY <1>1, <1>2, RowMarked
<1>4. \A k \in DOMAIN rows : Times(k)' = Times(k)
  BY <1>3 DEF Times
<1>5. \A k : k # i => (Marking(k)' <=> Marking(k))
  <2>1. \A k : task[w].job = {<<"email", k>>} => k = i
    BY OneMailJob
  <2> QED
    BY <2>1 DEF Marking
<1>6. \A v \in Workers, k \in Rows :
        task'[v].job = {<<"email", k>>} /\ task'[v].step \in {"send", "mark"}
          => rows'[k].status = "sending"
  <2> SUFFICES ASSUME NEW v \in Workers, NEW k \in Rows, task'[v].job = {<<"email", k>>},
                      task'[v].step \in {"send", "mark"}
               PROVE  rows'[k].status = "sending"
    OBVIOUS
  <2>1. task[v].job = {<<"email", k>>} /\ task[v].step \in {"send", "mark"} /\ v # w
    OBVIOUS
  <2>2. k # i
    BY <2>1
  <2>3. k \in DOMAIN rows
    BY <2>1, MailRow
  <2> QED
    BY <1>3, <2>1, <2>2, <2>3 DEF CountInv
<1>7. \A k \in DOMAIN rows' :
        /\ Times(k)' <= 1 + crashes'
        /\ rows'[k].status \in {"queued", "sending"} /\ ~Marking(k)' => Times(k)' <= crashes'
  BY <1>3, <1>4, <1>5 DEF CountInv
<1> QED
  BY <1>6, <1>7 DEF CountInv

LEMMA CountMarkSent ==
  ASSUME FinalInv, CountInv, NEW w \in Workers, NEW i \in Rows, MarkSent(w, i)
  PROVE  CountInv'
<1>1. /\ task[w].step = "mark" /\ task[w].job = {<<"email", i>>} /\ Goto(w, "done")
      /\ rows' = [rows EXCEPT ![i].status = "sent"] /\ UNCHANGED <<mailed, crashes>>
  BY DEF MarkSent, At, QueueRests
<1>2. /\ \A v \in Workers : v # w => task'[v] = task[v]
      /\ task'[w].step = "done"
  BY <1>1, StepTo DEF FinalInv, Steps
<1>3. \A v \in Workers : v # w /\ task[v].job = {<<"email", i>>}
        => task[v].step \in {"idle", "report"}
  BY <1>1, Working
<1> QED
  BY <1>1, <1>2, <1>3, CountMarked

LEMMA CountReportRow ==
  ASSUME FinalInv, CountInv, NEW w \in Workers, NEW i \in Rows, ReportRow(w, i)
  PROVE  CountInv'
<1>1. /\ task[w].step = "report" /\ task[w].job = {<<"email", i>>}
      /\ rows' = [rows EXCEPT ![i].status = "failed"] /\ UNCHANGED <<mailed, crashes>>
      /\ task' = [task EXCEPT ![w] = Idle]
  BY DEF ReportRow, At, QueueRests
<1>2. /\ \A v \in Workers : v # w => task'[v] = task[v]
      /\ task'[w].step = "idle"
  BY <1>1, IdleTask, NewTask DEF FinalInv
<1>3. jobs[<<"email", i>>].status = "failed"
  BY <1>1 DEF FinalInv, Tied
<1>4. \A v \in Workers : task[v].job = {<<"email", i>>} => task[v].step \notin {"send", "mark"}
  BY <1>3, Working
<1> QED
  BY <1>1, <1>2, <1>4, CountMarked

LEMMA CountSend ==
  ASSUME FinalInv, CountInv, NEW w \in Workers, NEW i \in Rows, Send(w, i)
  PROVE  CountInv'
<1>1. /\ task[w].step = "send" /\ task[w].job = {<<"email", i>>}
      /\ Goto(w, "mark") /\ UNCHANGED <<rows, crashes>>
  BY DEF Send, At, QueueRests
<1>2. /\ i \in DOMAIN rows /\ rows[i].doc \in Docs /\ rows[i].to \in Parties
      /\ rows[i].file \in Files
      /\ mailed'[rows[i].doc][rows[i].to]
           = Append(mailed[rows[i].doc][rows[i].to], rows[i].file)
      /\ \A d \in Docs, p \in Parties :
           ~(d = rows[i].doc /\ p = rows[i].to) => mailed'[d][p] = mailed[d][p]
  BY SendEffect
<1>3. /\ \A v \in Workers : v # w => task'[v] = task[v]
      /\ task'[w].step = "mark" /\ task'[w].job = {<<"email", i>>}
  BY <1>1, StepTo DEF FinalInv, Steps
<1>4. rows[i].status = "sending" /\ ~Marking(i)
  BY <1>1, NotMarking DEF CountInv
<1>5. Times(i)' = Times(i) + 1
  <2>1. mailed[rows[i].doc][rows[i].to] \in Seq(Files)
    BY <1>2 DEF FinalInv, Shape
  <2>2. Len(mailed'[rows[i].doc][rows[i].to]) = Len(mailed[rows[i].doc][rows[i].to]) + 1
    BY <1>2, <2>1
  <2> QED
    BY <1>1, <2>2 DEF Times
<1>6. \A k \in DOMAIN rows : k # i => Times(k)' = Times(k)
  <2> SUFFICES ASSUME NEW k \in DOMAIN rows, k # i PROVE Times(k)' = Times(k)
    OBVIOUS
  <2>1. ~(rows[k].doc = rows[i].doc /\ rows[k].to = rows[i].to)
    BY <1>2 DEF FinalInv, RowsRight
  <2>2. rows[k] \in RowRecord
    BY DEF FinalInv, Shape
  <2>3. rows[k].doc \in Docs /\ rows[k].to \in Parties
    BY <2>2 DEF RowRecord
  <2> QED
    BY <1>1, <1>2, <2>1, <2>3 DEF Times
<1>7. Marking(i)' /\ \A k : k # i => (Marking(k)' <=> Marking(k))
  <2>1. \A k : task'[w].job = {<<"email", k>>} => k = i
    BY <1>3, OneMailJob
  <2> QED
    BY <1>1, <1>3, <2>1 DEF Marking
<1>8. \A v \in Workers, k \in Rows :
        task'[v].job = {<<"email", k>>} /\ task'[v].step \in {"send", "mark"}
          => rows'[k].status = "sending"
  <2> SUFFICES ASSUME NEW v \in Workers, NEW k \in Rows, task'[v].job = {<<"email", k>>},
                      task'[v].step \in {"send", "mark"}
               PROVE  rows'[k].status = "sending"
    OBVIOUS
  <2>1. CASE v = w
    <3>1. \A l : task'[w].job = {<<"email", l>>} => l = i
      BY <1>3, OneMailJob
    <3>2. k = i
      BY <2>1, <3>1
    <3> QED
      BY <1>1, <1>4, <3>2
  <2>2. CASE v # w
    BY <1>1, <1>3, <2>2 DEF CountInv
  <2> QED
    BY <2>1, <2>2
<1>9. ASSUME NEW k \in DOMAIN rows'
      PROVE  /\ Times(k)' <= 1 + crashes'
             /\ rows'[k].status \in {"queued", "sending"} /\ ~Marking(k)'
                  => Times(k)' <= crashes'
  <2>1. CASE k = i
    <3>1. Times(i) <= crashes /\ Times(i) \in Nat /\ crashes \in Nat
      BY <1>2, <1>4, TimesType DEF CountInv
    <3> QED
      BY <1>1, <1>5, <1>7, <2>1, <3>1
  <2>2. CASE k # i
    BY <1>1, <1>6, <1>7, <1>9, <2>2 DEF CountInv
  <2> QED
    BY <2>1, <2>2
<1> QED
  BY <1>8, <1>9 DEF CountInv

LEMMA CountAddRow ==
  ASSUME FinalInv, CountInv, NEW w \in Workers, NEW d \in Docs, NEW p \in Parties, AddRow(w, d, p)
  PROVE  CountInv'
<1> DEFINE r == [doc |-> d, to |-> p, file |-> task[w].file, status |-> "queued"]
<1>1. /\ task[w].step = "rows" /\ task[w].job = {<<"finalize", d>>} /\ p \in task[w].todo
      /\ rows' = Append(rows, r) /\ UNCHANGED <<mailed, crashes>>
      /\ task'[w].step \in {"mails", "rows"} /\ \A v \in Workers : v # w => task'[v] = task[v]
  BY DEF AddRow, At, QueueRests, FinalInv, Shape
<1>2. rows \in Seq(RowRecord)
  BY DEF FinalInv, Shape
<1>3. \A i \in DOMAIN rows : rows[i].doc = d => rows[i].to # p
  BY <1>1 DEF FinalInv, Doing
<1>4. mailed[d][p] = <<>>
  BY <1>3 DEF FinalInv, MailRight
<1>5. PICK n : n = Len(rows) + 1
  OBVIOUS
<1>6. /\ DOMAIN rows' = DOMAIN rows \cup {n} /\ rows'[n] = r
      /\ \A i \in DOMAIN rows : rows'[i] = rows[i]
  BY <1>1, <1>2, <1>5
<1>7. r.doc = d /\ r.to = p
  OBVIOUS
<1> HIDE DEF r
<1>8. /\ \A i \in DOMAIN rows : Times(i)' = Times(i)
      /\ Times(n)' = 0
  <2>1. \A i \in DOMAIN rows : Times(i)' = Times(i)
    BY <1>1, <1>6 DEF Times
  <2>2. mailed'[rows'[n].doc][rows'[n].to] = <<>>
    BY <1>1, <1>4, <1>6, <1>7
  <2>3. Times(n)' = 0
    BY <2>2 DEF Times
  <2> QED
    BY <2>1, <2>3
<1>9. \A i : Marking(i)' <=> Marking(i)
  BY <1>1 DEF Marking
<1>10. \A v \in Workers, k \in Rows :
        task'[v].job = {<<"email", k>>} /\ task'[v].step \in {"send", "mark"}
          => rows'[k].status = "sending"
  <2> SUFFICES ASSUME NEW v \in Workers, NEW k \in Rows, task'[v].job = {<<"email", k>>},
                      task'[v].step \in {"send", "mark"}
               PROVE  rows'[k].status = "sending"
    OBVIOUS
  <2>1. task[v].job = {<<"email", k>>} /\ task[v].step \in {"send", "mark"}
    BY <1>1
  <2>2. k \in DOMAIN rows
    BY <2>1, MailRow
  <2> QED
    BY <1>6, <2>1, <2>2 DEF CountInv
<1>11. crashes \in Nat
  BY QueueTypes DEF FinalInv
<1>12. ASSUME NEW k \in DOMAIN rows'
       PROVE  /\ Times(k)' <= 1 + crashes'
              /\ rows'[k].status \in {"queued", "sending"} /\ ~Marking(k)'
                   => Times(k)' <= crashes'
  <2>1. CASE k = n
    BY <1>1, <1>8, <1>11, <2>1
  <2>2. CASE k # n
    <3>1. k \in DOMAIN rows /\ rows'[k] = rows[k] /\ Times(k)' = Times(k)
      BY <1>6, <1>8, <1>12, <2>2
    <3> QED
      BY <1>1, <1>9, <3>1 DEF CountInv
  <2> QED
    BY <2>1, <2>2
<1> QED
  BY <1>10, <1>12 DEF CountInv

LEMMA CountCrash ==
  ASSUME Prompt, FinalInv, CountInv, NEW w \in Workers, Crash(w)
  PROVE  CountInv'
<1>1. /\ Queue!Crash(w) /\ task' = [task EXCEPT ![w] = Idle] /\ UNCHANGED <<rows, mailed>>
  BY DEF Crash, payload
<1>2. crashes' = crashes + 1
  BY <1>1, CrashEffect DEF FinalInv
<1>3. task'[w].step = "idle" /\ \A v \in Workers : v # w => task'[v] = task[v]
  BY <1>1, IdleTask, NewTask DEF FinalInv
<1>4. \A i \in DOMAIN rows : Times(i)' = Times(i) /\ Times(i) \in Nat /\ crashes \in Nat
  BY <1>1, TimesType DEF Times
<1>5. \A v \in Workers, k \in Rows :
        task'[v].job = {<<"email", k>>} /\ task'[v].step \in {"send", "mark"}
          => rows'[k].status = "sending"
  BY <1>1, <1>3 DEF CountInv
<1>6. \A k \in DOMAIN rows' :
        /\ Times(k)' <= 1 + crashes'
        /\ rows'[k].status \in {"queued", "sending"} /\ ~Marking(k)' => Times(k)' <= crashes'
  BY <1>1, <1>2, <1>4 DEF CountInv
<1> QED
  BY <1>5, <1>6 DEF CountInv

\* Workers that move without touching rows or mails.
LEMMA CountMoves ==
  ASSUME Prompt, "mark" \notin Failing, FinalInv, CountInv, NEW w \in Workers, NEW j \in JobIds,
         Claim(w, j) \/ ReadJob(w, j) \/ Done(w, j) \/ Fail(w, j)
  PROVE  CountInv'
<1>1. CASE Claim(w, j) \/ ReadJob(w, j)
  <2>1. PICK s : /\ s \in {"claimed", "load", "check", "sync"}
                 /\ task' = [task EXCEPT ![w] = [Idle EXCEPT !.job = {j}, !.step = s]]
    BY <1>1, FirstSteps DEF Claim, ReadJob
  <2>2. /\ task[w].step # "mark" /\ (Queue!Claim(w, j) \/ Queue!Read(w, j))
        /\ UNCHANGED <<rows, mailed>>
    BY <1>1 DEF Claim, ReadJob, payload
  <2>3. PICK t : t = [Idle EXCEPT !.job = {j}, !.step = s]
    OBVIOUS
  <2>4. t \in TaskRecord /\ t.step = s
    <3>1. s \in Steps
      BY <2>1 DEF Steps
    <3> QED
      BY <2>3, <3>1, ClaimedTask
  <2>5. task'[w] = t /\ \A v \in Workers : v # w => task'[v] = task[v]
    BY <2>1, <2>3, <2>4, NewTask DEF FinalInv
  <2>6. crashes' = crashes
    BY <2>2, ClaimEffect, ReadEffect DEF FinalInv
  <2>7. task'[w].step \notin {"send", "mark"}
    BY <2>1, <2>4, <2>5
  <2>8. UNCHANGED <<rows, mailed, crashes>>
    BY <2>2, <2>6
  <2> QED
    BY <2>2, <2>5, <2>7, <2>8, CountRests
<1>2. CASE Done(w, j)
  <2>1. /\ task[w].step = "done" /\ Queue!Succeed(w, j) /\ task' = [task EXCEPT ![w] = Idle]
        /\ UNCHANGED <<rows, mailed>>
    BY <1>2 DEF Done, payload
  <2>2. task'[w] = Idle /\ \A v \in Workers : v # w => task'[v] = task[v]
    BY <2>1, IdleTask, NewTask DEF FinalInv
  <2>3. crashes' = crashes
    BY <2>1, SucceedEffect DEF FinalInv
  <2> QED
    BY <2>1, <2>2, <2>3, IdleTask, CountRests
<1>3. CASE Fail(w, j)
  <2> DEFINE t == IF jobs'[j].status = "failed" /\ Reported(j[1])
                  THEN [Idle EXCEPT !.job = {j}, !.step = "report"] ELSE Idle
  <2>1. /\ Throws(w, j) /\ Queue!Fail(w, j) /\ task' = [task EXCEPT ![w] = t]
        /\ UNCHANGED <<rows, mailed>>
    BY <1>3 DEF Fail, payload
  <2>2. t \in TaskRecord /\ t.step \in {"report", "idle"}
    BY IdleTask DEF Idle, TaskRecord, Steps
  <2> HIDE DEF t
  <2>3. task'[w] = t /\ \A v \in Workers : v # w => task'[v] = task[v]
    BY <2>1, <2>2, NewTask DEF FinalInv
  <2>4. crashes' = crashes
    BY <2>1, FailEffect DEF FinalInv
  <2>5. task[w].step # "mark"
    BY <2>1 DEF Throws
  <2> QED
    BY <2>1, <2>2, <2>3, <2>4, <2>5, CountRests
<1> QED
  BY <1>1, <1>2, <1>3

LEMMA CountFinalize ==
  ASSUME Prompt, FinalInv, CountInv, NEW w \in Workers, NEW d \in Docs, Finalize(w, d)
  PROVE  CountInv'
<1>1. CASE \E p \in Parties : AddRow(w, d, p)
  BY <1>1, CountAddRow
<1>2. CASE ~\E p \in Parties : AddRow(w, d, p)
  <2>1. /\ task[w].step # "mark" /\ UNCHANGED <<rows, mailed>>
        /\ \A v \in Workers : v # w => task'[v] = task[v]
        /\ task'[w].step \notin {"send", "mark"}
    <3>1. CASE Load(w, d) \/ Record(w, d) \/ QueueDrive(w, d) \/ CompleteSession(w, d)
      <4>1. /\ task[w].step # "mark" /\ UNCHANGED <<rows, mailed>>
            /\ \E s \in {"done", "build", "archive", "session"} : Goto(w, s)
        BY <3>1 DEF Load, Record, QueueDrive, CompleteSession, At, payload
      <4> QED
        BY <4>1, StepTo DEF FinalInv, Steps
    <3>2. CASE Build(w, d) \/ Archive(w, d)
      BY <3>2 DEF Build, Archive, At, FinalInv, Shape, TaskRecord
    <3>3. ASSUME NEW i \in Rows, QueueMail(w, d, i)
          PROVE  /\ task[w].step # "mark" /\ UNCHANGED <<rows, mailed>>
                 /\ \A v \in Workers : v # w => task'[v] = task[v]
                 /\ task'[w].step \notin {"send", "mark"}
      BY <3>3 DEF QueueMail, At, payload, FinalInv, Shape, TaskRecord
    <3>4. CASE ReportDoc(w, d)
      BY <3>4, IdleTask, NewTask DEF ReportDoc, At, FinalInv
    <3> QED
      BY <1>2, <3>1, <3>2, <3>3, <3>4 DEF Finalize
  <2>2. crashes' = crashes
    BY <1>2 DEF Finalize, Load, Build, Record, Archive, QueueMail, QueueDrive, CompleteSession,
                ReportDoc, QueueRests, Queue!Enqueue
  <2> QED
    BY <2>1, <2>2, CountRests
<1> QED
  BY <1>1, <1>2

LEMMA CountStep ==
  ASSUME Prompt, "mark" \notin Failing, FinalInv, CountInv, [Next]_vars
  PROVE  CountInv'
<1>1. ASSUME NEW d \in Docs, LastSignature(d) \/ AskFinalize(d) PROVE CountInv'
  BY <1>1, CountStutters DEF LastSignature, AskFinalize, Queue!Enqueue, payload
<1>2. ASSUME NEW w \in Workers, NEW i \in Rows, Email(w, i) PROVE CountInv'
  BY <1>2, CountCheck, CountSend, CountMarkSent, CountReportRow DEF Email
<1>3. ASSUME NEW w \in Workers, NEW f \in Files, Sync(w, f) PROVE CountInv'
  <2>1. task[w].step = "sync" /\ Goto(w, "done") /\ UNCHANGED <<rows, mailed, crashes>>
    BY <1>3 DEF Sync, At, QueueRests, payload
  <2>2. task'[w].step = "done" /\ \A v \in Workers : v # w => task'[v] = task[v]
    BY <2>1, StepTo DEF FinalInv, Steps
  <2> QED
    BY <2>1, <2>2, CountRests
<1>4. ASSUME NEW w \in Workers, Work(w) PROVE CountInv'
  BY <1>2, <1>3, <1>4, CountMoves, CountFinalize DEF Work
<1>5. ASSUME NEW w \in Workers, Crash(w) PROVE CountInv'
  BY <1>5, CountCrash
<1>6. CASE Tick
  BY <1>6, CountStutters DEF Tick, Queue!Tick, payload
<1>7. CASE UNCHANGED vars
  BY <1>7, CountStutters DEF vars, payload
<1> QED
  BY <1>1, <1>4, <1>5, <1>6, <1>7 DEF Next

LEMMA CountInit == Init => CountInv
BY IdleTask DEF Init, CountInv

LEMMA CountAlways ==
  ASSUME Prompt, "mark" \notin Failing PROVE Spec => [](FinalInv /\ CountInv)
<1>1. FinalInv /\ CountInv /\ [Next]_vars => FinalInv' /\ CountInv'
  BY FinalStep, CountStep
<1> QED
  BY <1>1, FinalInit, CountInit, PTL DEF Spec

(* If a row can always be marked as sent, each party is mailed the link of a *)
(* document once, and once more at most for every process that died.         *)
THEOREM OneLinkPerParty ==
  ASSUME Prompt, "mark" \notin Failing PROVE Spec => []MailedOnce
<1>1. ASSUME FinalInv, CountInv PROVE MailedOnce
  <2> SUFFICES ASSUME NEW d \in Docs, NEW p \in Parties
               PROVE  Len(mailed[d][p]) <= 1 + crashes
    BY DEF MailedOnce
  <2>1. CASE mailed[d][p] = <<>>
    <3>1. crashes \in Nat
      BY <1>1, QueueTypes DEF FinalInv
    <3> QED
      BY <2>1, <3>1
  <2>2. CASE mailed[d][p] # <<>>
    <3>1. PICK i \in DOMAIN rows : rows[i].doc = d /\ rows[i].to = p
      BY <1>1, <2>2 DEF FinalInv, MailRight
    <3> QED
      BY <1>1, <3>1 DEF CountInv, Times
  <2> QED
    BY <2>1, <2>2
<1> QED
  BY <1>1, CountAlways, PTL

-----------------------------------------------------------------------------
(* The specifications that a packet's jobs implement.                        *)

LEMMA QueueStep ==
  ASSUME FinalInv, [Next]_vars
  PROVE  [Queue!Next]_Queue!queue
<1>1. ASSUME NEW d \in Docs, LastSignature(d) \/ AskFinalize(d)
      PROVE  [Queue!Next]_Queue!queue
  BY <1>1, JobShapes DEF LastSignature, AskFinalize, Queue!queue, Queue!Next
<1>2. ASSUME NEW w \in Workers, NEW j \in JobIds,
             Claim(w, j) \/ ReadJob(w, j) \/ Done(w, j) \/ Fail(w, j)
      PROVE  Queue!Next
  BY <1>2 DEF Claim, ReadJob, Done, Fail, Queue!Run, Queue!Next
<1>3. ASSUME NEW w \in Workers, NEW d \in Docs, Finalize(w, d)
      PROVE  (\E j \in JobIds : Queue!Enqueue(j)) \/ QueueRests
  <2>1. CASE \E i \in Rows : QueueMail(w, d, i)
    BY <2>1, JobShapes DEF QueueMail
  <2>2. CASE QueueDrive(w, d)
    BY <2>2, DriveJob DEF QueueDrive
  <2> QED
    BY <1>3, <2>1, <2>2 DEF Finalize, Load, Build, Record, Archive, AddRow, CompleteSession,
                            ReportDoc
<1>4. ASSUME NEW w \in Workers, NEW i \in Rows, Email(w, i) PROVE QueueRests
  BY <1>4 DEF Email, Check, Send, MarkSent, ReportRow
<1>5. ASSUME NEW w \in Workers, NEW f \in Files, Sync(w, f) PROVE QueueRests
  BY <1>5 DEF Sync
<1>6. ASSUME NEW w \in Workers, Work(w) PROVE [Queue!Next]_Queue!queue
  BY <1>2, <1>3, <1>4, <1>5, <1>6 DEF Work, QueueRests, Queue!queue, Queue!Next
<1>7. ASSUME NEW w \in Workers, Crash(w) PROVE Queue!Next
  BY <1>7 DEF Crash, Queue!Next
<1>8. CASE Tick
  BY <1>8 DEF Tick, Queue!Next
<1>9. CASE UNCHANGED vars
  BY <1>9 DEF vars, Queue!queue
<1> QED
  BY <1>1, <1>6, <1>7, <1>8, <1>9 DEF Next

(* The jobs of a packet are run as the queue's specification says: what      *)
(* JobQueueProofs shows of any jobs holds of these.                          *)
THEOREM RunsTheQueue == ASSUME Prompt PROVE Spec => Queue!Spec
<1>1. FinalInv /\ [Next]_vars => [Queue!Next]_Queue!queue
  BY QueueStep
<1>2. Init => Queue!Init
  BY DEF Init
<1> QED
  BY <1>1, <1>2, FinalAlways, PTL DEF Spec, Queue!Spec

LEMMA PromiseInit == Init => Promise!Init
BY DEF Init, Promise!Init

LEMMA CopiesRest ==
  ASSUME FinalInv, FinalInv', UNCHANGED mailed,
         \A d \in Docs : doc'[d].file = doc[d].file /\ doc'[d].archive = doc[d].archive
  PROVE  UNCHANGED Promise!copies
BY DEF Promise!copies

LEMMA RecordMaps ==
  ASSUME FinalInv, NEW w \in Workers, NEW d \in Docs, Record(w, d)
  PROVE  Promise!Adopt(d)
<1> DEFINE f == task[w].file
<1>1. /\ task[w].step = "record" /\ task[w].job = {<<"finalize", d>>}
      /\ doc' = [doc EXCEPT ![d].status = "completed", ![d].file = f, ![d].final = "succeeded"]
      /\ mailed' = mailed
  BY DEF Record, At
<1>2. doc \in [Docs -> DocRecord] /\ f \in Nat
  <2>1. doc \in [Docs -> DocRecord] /\ task[w] \in TaskRecord
    BY DEF FinalInv, Shape
  <2> QED
    BY <2>1 DEF TaskRecord
<1>3. doc[d].file = 0 /\ f \in DOMAIN files /\ files[f] = d /\ files \in Seq(Docs)
  BY <1>1 DEF FinalInv, Doing, Shape
<1>4. f # 0
  BY <1>3
<1>5. \A c \in Docs : doc[c].file # f
  BY <1>3, <1>4 DEF FinalInv, DocsRight
<1> HIDE DEF f
<1>6. /\ doc'[d].file = f
      /\ \A c \in Docs : doc'[c].archive = doc[c].archive /\ (c # d => doc'[c].file = doc[c].file)
  BY <1>1, <1>2 DEF DocRecord
<1> DEFINE official == [c \in Docs |-> doc[c].file]
           signed == [c \in Docs |-> doc'[c].file]
           archive == [c \in Docs |-> doc[c].archive]
<1>7. official[d] = 0 /\ signed[d] = f
  BY <1>3, <1>6
<1>8. signed = [official EXCEPT ![d] = signed[d]]
  BY <1>6
<1>9. f \in Nat \ ({0} \cup {official[c] : c \in Docs})
  BY <1>2, <1>4, <1>5
<1>10. [c \in Docs |-> doc'[c].archive] = archive
  BY <1>6
<1> QED
  BY <1>1, <1>7, <1>8, <1>9, <1>10 DEF Promise!Adopt

LEMMA ArchiveMaps ==
  ASSUME FinalInv, NEW w \in Workers, NEW d \in Docs, Archive(w, d)
  PROVE  Promise!File(d)
<1>1. /\ task[w].step = "archive" /\ task[w].job = {<<"finalize", d>>} /\ doc[d].archive = 0
      /\ doc' = [doc EXCEPT ![d].archive = task[w].file] /\ mailed' = mailed
  BY DEF Archive, At, Signed
<1>2. doc[d].file = task[w].file /\ doc[d].file # 0
  BY <1>1 DEF FinalInv, Doing
<1>3. doc \in [Docs -> DocRecord]
  BY DEF FinalInv, Shape
<1>4. /\ doc'[d].archive = doc[d].file
      /\ \A c \in Docs : doc'[c].file = doc[c].file /\ (c # d => doc'[c].archive = doc[c].archive)
  BY <1>1, <1>2, <1>3 DEF DocRecord
<1> QED
  BY <1>1, <1>2, <1>4 DEF Promise!File

LEMMA SendMaps ==
  ASSUME FinalInv, CountInv, MaxCrashes = 0, NEW w \in Workers, NEW i \in Rows, Send(w, i)
  PROVE  Promise!Mail(rows[i].doc, rows[i].to)
<1> DEFINE d == rows[i].doc
           p == rows[i].to
<1>1. /\ task[w].step = "send" /\ task[w].job = {<<"email", i>>} /\ i \in DOMAIN rows
      /\ d \in Docs /\ p \in Parties /\ rows[i].file \in Files
  BY SendEffect
<1>2. doc[d].archive = rows[i].file /\ doc[d].archive # 0
  BY <1>1 DEF FinalInv, RowsRight, Files
<1>3. rows[i].status = "sending" /\ ~Marking(i)
  BY <1>1, NotMarking DEF CountInv
<1>4. Times(i) <= crashes /\ Times(i) \in Nat /\ crashes \in Nat /\ crashes <= 0
  BY <1>1, <1>3, TimesType DEF CountInv, FinalInv, QueueInv
<1>5. mailed[d][p] = <<>>
  <2>1. mailed[d][p] \in Seq(Files)
    BY <1>1 DEF FinalInv, Shape
  <2>2. Len(mailed[d][p]) = 0
    BY <1>4 DEF Times
  <2> QED
    BY <2>1, <2>2
<1>6. mailed' = [mailed EXCEPT ![d][p] = <<doc[d].archive>>] /\ UNCHANGED doc
  <2>1. mailed' = [mailed EXCEPT ![d][p] = Append(mailed[d][p], rows[i].file)] /\ UNCHANGED doc
    BY DEF Send
  <2>2. Append(mailed[d][p], rows[i].file) = <<doc[d].archive>>
    BY <1>2, <1>5
  <2> QED
    BY <2>1, <2>2
<1> QED
  BY <1>1, <1>2, <1>5, <1>6 DEF Promise!Mail

LEMMA PromiseStep ==
  ASSUME FinalInv, FinalInv', CountInv, MaxCrashes = 0, [Next]_vars
  PROVE  [Promise!Next]_Promise!copies
<1>1. ASSUME NEW d \in Docs, LastSignature(d) \/ AskFinalize(d)
      PROVE  UNCHANGED Promise!copies
  <2>1. \A c \in Docs : doc'[c].file = doc[c].file /\ doc'[c].archive = doc[c].archive
    <3>1. doc \in [Docs -> DocRecord]
      BY DEF FinalInv, Shape
    <3> QED
      BY <1>1, <3>1 DEF LastSignature, AskFinalize, payload, DocRecord
  <2> QED
    BY <1>1, <2>1, CopiesRest DEF LastSignature, AskFinalize, payload
<1>2. ASSUME NEW w \in Workers, NEW d \in Docs, Finalize(w, d)
      PROVE  [Promise!Next]_Promise!copies
  <2>1. CASE Record(w, d) \/ Archive(w, d)
    BY <2>1, RecordMaps, ArchiveMaps DEF Promise!Next
  <2>2. CASE ReportDoc(w, d)
    <3>1. \A c \in Docs : doc'[c].file = doc[c].file /\ doc'[c].archive = doc[c].archive
      <4>1. doc \in [Docs -> DocRecord]
        BY DEF FinalInv, Shape
      <4> QED
        BY <2>2, <4>1 DEF ReportDoc, DocRecord
    <3> QED
      BY <2>2, <3>1, CopiesRest DEF ReportDoc
  <2>3. CASE ~(Record(w, d) \/ Archive(w, d) \/ ReportDoc(w, d))
    <3>1. doc' = doc /\ mailed' = mailed
      BY <1>2, <2>3 DEF Finalize, Load, Build, AddRow, QueueMail, QueueDrive, CompleteSession,
                        payload
    <3> QED
      BY <3>1, CopiesRest
  <2> QED
    BY <2>1, <2>2, <2>3
<1>3. ASSUME NEW w \in Workers, NEW i \in Rows, Email(w, i)
      PROVE  [Promise!Next]_Promise!copies
  <2>1. CASE Send(w, i)
    <3>1. Promise!Mail(rows[i].doc, rows[i].to) /\ rows[i].doc \in Docs /\ rows[i].to \in Parties
      BY <2>1, SendMaps, SendEffect
    <3> QED
      BY <3>1 DEF Promise!Next
  <2>2. CASE ~Send(w, i)
    <3>1. doc' = doc /\ mailed' = mailed
      BY <1>3, <2>2 DEF Email, Check, MarkSent, ReportRow
    <3> QED
      BY <3>1, CopiesRest
  <2> QED
    BY <2>1, <2>2
<1>4. ASSUME NEW w \in Workers, NEW j \in JobIds,
             Claim(w, j) \/ ReadJob(w, j) \/ Done(w, j) \/ Fail(w, j)
      PROVE  UNCHANGED Promise!copies
  BY <1>4, CopiesRest DEF Claim, ReadJob, Done, Fail, payload
<1>5. ASSUME NEW w \in Workers, NEW f \in Files, Sync(w, f) PROVE UNCHANGED Promise!copies
  BY <1>5, CopiesRest DEF Sync, payload
<1>6. ASSUME NEW w \in Workers, Work(w) PROVE [Promise!Next]_Promise!copies
  BY <1>2, <1>3, <1>4, <1>5, <1>6 DEF Work
<1>7. ASSUME NEW w \in Workers, Crash(w) PROVE UNCHANGED Promise!copies
  BY <1>7, CopiesRest DEF Crash, payload
<1>8. CASE Tick \/ UNCHANGED vars
  BY <1>8, CopiesRest DEF Tick, vars, payload
<1> QED
  BY <1>1, <1>6, <1>7, <1>8 DEF Next

(* Seen from outside, without crashes, a packet's jobs give every document   *)
(* one signed file of its own, file that one, and mail each party a link to  *)
(* it at most once: whatever fails and is retried, in whatever order.        *)
THEOREM KeepsThePromise ==
  ASSUME Prompt, "mark" \notin Failing, MaxCrashes = 0 PROVE Spec => CopiesPromised
<1>1. FinalInv /\ FinalInv' /\ CountInv /\ [Next]_vars => [Promise!Next]_Promise!copies
  BY PromiseStep
<1> QED
  BY <1>1, PromiseInit, CountAlways, PTL DEF Spec, CopiesPromised, Promise!Spec
=============================================================================
