--------------------------- MODULE JobQueueProofs ---------------------------
(* Theorems about JobQueue, for any number of workers and jobs, any limits, *)
(* and any number of crashes.                                               *)
EXTENDS JobQueue, TLAPS

\* Every attempt that is counted, in a row or by a worker, is a run that failed.
UsedInv ==
  /\ TypeOK
  /\ AttemptsUsed
  /\ \A j \in Jobs : jobs[j].attempts <= failures[j]
  /\ \A w \in Workers, j \in Jobs :
       worker[w].at = {j} => worker[w].attempts <= failures[j]

\* A worker that is at a job holds its lock, and what it read is still so.
Holds(w) ==
  \A j \in worker[w].at :
    /\ worker[w].at = {j}
    /\ jobs[j].status = "running"
    /\ jobs[j].age <= Lease
    /\ worker[w].read => jobs[j].attempts = worker[w].attempts

\* Attempts are the failed runs; the last allowed one ends the job.
Counted(j) ==
  /\ failures[j] = jobs[j].attempts
  /\ jobs[j].attempts <= MaxAttempts
  /\ jobs[j].status = "failed" <=> jobs[j].attempts = MaxAttempts
  /\ jobs[j].status = "absent" => jobs[j].attempts = 0

LeaseInv ==
  /\ TypeOK
  /\ OneRunner
  /\ \A w \in Workers : Holds(w)
  /\ \A j \in Jobs : Counted(j)

-----------------------------------------------------------------------------
(* What each action does to the rows.                                       *)

LEMMA EnqueueStep ==
  ASSUME TypeOK, NEW j \in Jobs, Enqueue(j)
  PROVE  /\ UNCHANGED <<worker, failures, crashes>>
         /\ jobs' \in [Jobs -> Row]
         /\ \A k \in Jobs :
              \/ jobs'[k] = jobs[k]
              \/ jobs[k].status = "absent" /\ jobs'[k].status = "queued"
                 /\ jobs'[k].attempts = 0
<1>1. Enqueued(jobs[j]) \in Row
  BY DEF TypeOK, Enqueued, NoJob, Row, Status
<1>2. \/ Enqueued(jobs[j]) = jobs[j]
      \/ /\ jobs[j].status = "absent" /\ Enqueued(jobs[j]).status = "queued"
         /\ Enqueued(jobs[j]).attempts = 0
  BY DEF Enqueued, NoJob
<1>3. jobs' = [jobs EXCEPT ![j] = Enqueued(jobs[j])]
  BY DEF Enqueue
<1> QED
  BY <1>1, <1>2, <1>3 DEF Enqueue, TypeOK

LEMMA ClaimStep ==
  ASSUME TypeOK, NEW w \in Workers, NEW j \in Jobs, Claim(w, j)
  PROVE  /\ UNCHANGED <<failures, crashes>>
         /\ Claimable(j) /\ worker[w].at = {}
         /\ jobs' \in [Jobs -> Row]
         /\ jobs'[j].status = "running" /\ jobs'[j].age = 0
         /\ jobs'[j].attempts = jobs[j].attempts
         /\ \A k \in Jobs : k # j => jobs'[k] = jobs[k]
         /\ worker' \in [Workers -> [at : SUBSET Jobs, read : BOOLEAN, attempts : Nat]]
         /\ worker'[w].at = {j} /\ ~worker'[w].read /\ worker'[w].attempts = 0
         /\ \A v \in Workers : v # w => worker'[v] = worker[v]
<1> DEFINE row == [status |-> "running", attempts |-> jobs[j].attempts,
                   due |-> jobs[j].due, age |-> 0]
           me  == [at |-> {j}, read |-> FALSE, attempts |-> 0]
<1>1. jobs[j] \in Row
  BY DEF TypeOK
<1>2. row \in Row /\ me \in [at : SUBSET Jobs, read : BOOLEAN, attempts : Nat]
  BY <1>1 DEF Row, Status
<1>3. jobs' = [jobs EXCEPT ![j] = row] /\ worker' = [worker EXCEPT ![w] = me]
  BY DEF Claim
<1>4. /\ row.status = "running" /\ row.age = 0 /\ row.attempts = jobs[j].attempts
      /\ me.at = {j} /\ ~me.read /\ me.attempts = 0
  OBVIOUS
<1> HIDE DEF row, me
<1> QED
  BY <1>2, <1>3, <1>4 DEF Claim, TypeOK

LEMMA ReadStep ==
  ASSUME TypeOK, NEW w \in Workers, NEW j \in Jobs, Read(w, j)
  PROVE  /\ UNCHANGED <<jobs, failures, crashes>>
         /\ worker[w].at = {j} /\ ~worker[w].read
         /\ worker' \in [Workers -> [at : SUBSET Jobs, read : BOOLEAN, attempts : Nat]]
         /\ worker'[w].at = {j} /\ worker'[w].read
         /\ worker'[w].attempts = jobs[j].attempts
         /\ \A v \in Workers : v # w => worker'[v] = worker[v]
<1> DEFINE me == [at |-> {j}, read |-> TRUE, attempts |-> jobs[j].attempts]
<1>1. jobs[j] \in Row
  BY DEF TypeOK
<1>2. me \in [at : SUBSET Jobs, read : BOOLEAN, attempts : Nat]
  BY <1>1 DEF Row
<1>3. worker' = [worker EXCEPT ![w] = me]
  BY DEF Read
<1>4. me.at = {j} /\ me.read /\ me.attempts = jobs[j].attempts
  OBVIOUS
<1> HIDE DEF me
<1> QED
  BY <1>2, <1>3, <1>4 DEF Read, TypeOK

LEMMA ReleaseStep ==
  ASSUME TypeOK, NEW w \in Workers, Release(w)
  PROVE  /\ worker' \in [Workers -> [at : SUBSET Jobs, read : BOOLEAN, attempts : Nat]]
         /\ worker'[w].at = {}
         /\ \A v \in Workers : v # w => worker'[v] = worker[v]
<1>1. Free \in [at : SUBSET Jobs, read : BOOLEAN, attempts : Nat] /\ Free.at = {}
  BY DEF Free
<1> QED
  BY <1>1 DEF Release, TypeOK

LEMMA SucceedStep ==
  ASSUME TypeOK, NEW w \in Workers, NEW j \in Jobs, Succeed(w, j)
  PROVE  /\ UNCHANGED <<failures, crashes>> /\ Release(w)
         /\ worker[w].at = {j} /\ worker[w].read
         /\ jobs' \in [Jobs -> Row]
         /\ jobs'[j].status = "succeeded" /\ jobs'[j].attempts = jobs[j].attempts
         /\ \A k \in Jobs : k # j => jobs'[k] = jobs[k]
<1> DEFINE row == [status |-> "succeeded", attempts |-> jobs[j].attempts,
                   due |-> jobs[j].due, age |-> 0]
<1>1. jobs[j] \in Row
  BY DEF TypeOK
<1>2. row \in Row /\ row.status = "succeeded" /\ row.attempts = jobs[j].attempts
  BY <1>1 DEF Row, Status
<1>3. jobs' = [jobs EXCEPT ![j] = row]
  BY DEF Succeed
<1> HIDE DEF row
<1> QED
  BY <1>2, <1>3 DEF Succeed, TypeOK

LEMMA FailStep ==
  ASSUME TypeOK, NEW w \in Workers, NEW j \in Jobs, Fail(w, j)
  PROVE  /\ UNCHANGED crashes /\ Release(w)
         /\ worker[w].at = {j} /\ worker[w].read
         /\ jobs' \in [Jobs -> Row]
         /\ jobs'[j].status = IF worker[w].attempts + 1 < MaxAttempts
                                THEN "queued" ELSE "failed"
         /\ jobs'[j].attempts = worker[w].attempts + 1
         /\ \A k \in Jobs : k # j => jobs'[k] = jobs[k]
         /\ failures' \in [Jobs -> Nat]
         /\ failures'[j] = failures[j] + 1
         /\ \A k \in Jobs : k # j => failures'[k] = failures[k]
<1> DEFINE attempts == worker[w].attempts + 1
           row == [status |-> IF Retries(attempts) THEN "queued" ELSE "failed",
                   attempts |-> attempts, due |-> Delay(attempts), age |-> 0]
<1>1. attempts \in Nat
  BY DEF TypeOK
<1>2. Delay(attempts) \in Nat
  BY <1>1, QueueAssumption DEF Delay
<1>3. row \in Row
  BY <1>1, <1>2 DEF Row, Status
<1>4. row.attempts = attempts
      /\ row.status = IF attempts < MaxAttempts THEN "queued" ELSE "failed"
  BY DEF Retries
<1>5. jobs' = [jobs EXCEPT ![j] = row]
  BY DEF Fail
<1>6. failures' = [failures EXCEPT ![j] = failures[j] + 1] /\ failures[j] + 1 \in Nat
  BY DEF Fail, TypeOK
<1> HIDE DEF row
<1>7. jobs' \in [Jobs -> Row] /\ failures' \in [Jobs -> Nat]
  BY <1>3, <1>5, <1>6 DEF TypeOK
<1> QED
  BY <1>3, <1>4, <1>5, <1>6, <1>7 DEF Fail, TypeOK

LEMMA AgedRow ==
  ASSUME NEW row \in Row
  PROVE  /\ Aged(row) \in Row
         /\ Aged(row).status = row.status /\ Aged(row).attempts = row.attempts
         /\ Aged(row).age \in {row.age, row.age + 1}
<1>1. /\ row.due \in Nat /\ row.age \in Nat /\ row.attempts \in Nat /\ row.status \in Status
  BY DEF Row
<1>2. (IF row.due > 0 THEN row.due - 1 ELSE 0) \in Nat
  BY <1>1
<1>3. (IF row.status = "running" /\ row.age <= Lease THEN row.age + 1 ELSE row.age) \in Nat
  BY <1>1
<1> QED
  BY <1>1, <1>2, <1>3 DEF Aged, Row

LEMMA TickStep ==
  ASSUME TypeOK, Tick
  PROVE  /\ UNCHANGED <<worker, failures, crashes>>
         /\ jobs' \in [Jobs -> Row]
         /\ \A k \in Jobs : /\ jobs'[k].status = jobs[k].status
                            /\ jobs'[k].attempts = jobs[k].attempts
                            /\ jobs'[k].age \in {jobs[k].age, jobs[k].age + 1}
<1>1. \A k \in Jobs : jobs[k] \in Row
  BY DEF TypeOK
<1>2. jobs' = [k \in Jobs |-> Aged(jobs[k])]
  BY DEF Tick
<1> QED
  BY <1>1, <1>2, AgedRow DEF Tick

-----------------------------------------------------------------------------
LEMMA TypeInit == Init => TypeOK
<1>1. NoJob \in Row /\ Free \in [at : SUBSET Jobs, read : BOOLEAN, attempts : Nat]
  BY DEF NoJob, Free, Row, Status
<1> QED
  BY <1>1 DEF Init, TypeOK

LEMMA TypeStep == TypeOK /\ [Next]_queue => TypeOK'
<1> SUFFICES ASSUME TypeOK, [Next]_queue PROVE TypeOK'
  OBVIOUS
<1>1. ASSUME NEW j \in Jobs, Enqueue(j) PROVE TypeOK'
  BY <1>1, EnqueueStep DEF TypeOK
<1>2. ASSUME NEW w \in Workers, Run(w) PROVE TypeOK'
  <2>1. PICK j \in Jobs : Claim(w, j) \/ Read(w, j) \/ Succeed(w, j) \/ Fail(w, j)
    BY <1>2 DEF Run
  <2>2. CASE Claim(w, j)
    BY <2>2, ClaimStep DEF TypeOK
  <2>3. CASE Read(w, j)
    BY <2>3, ReadStep DEF TypeOK
  <2>4. CASE Succeed(w, j)
    BY <2>4, SucceedStep, ReleaseStep DEF TypeOK
  <2>5. CASE Fail(w, j)
    BY <2>5, FailStep, ReleaseStep DEF TypeOK
  <2> QED
    BY <2>1, <2>2, <2>3, <2>4, <2>5
<1>3. ASSUME NEW w \in Workers, Crash(w) PROVE TypeOK'
  BY <1>3, ReleaseStep DEF Crash, TypeOK
<1>4. CASE Tick
  BY <1>4, TickStep DEF TypeOK
<1>5. CASE UNCHANGED queue
  BY <1>5 DEF queue, TypeOK
<1> QED
  BY <1>1, <1>2, <1>3, <1>4, <1>5 DEF Next

(* The rows of the queue keep the shape of the schema.                      *)
THEOREM TypeCorrect == Spec => []TypeOK
BY TypeInit, TypeStep, PTL DEF Spec

-----------------------------------------------------------------------------
LEMMA UsedStep == UsedInv /\ [Next]_queue => UsedInv'
<1> SUFFICES ASSUME UsedInv, [Next]_queue PROVE UsedInv'
  OBVIOUS
<1>1. TypeOK /\ TypeOK' /\ AttemptsUsed
  BY TypeStep DEF UsedInv
<1>2. MaxAttempts \in Nat \ {0}
  BY QueueAssumption
<1>3. \A j \in Jobs : /\ jobs[j].attempts <= failures[j]
                      /\ jobs[j].attempts \in Nat /\ failures[j] \in Nat
  BY <1>1 DEF UsedInv, TypeOK, Row
<1>4. \A w \in Workers, j \in Jobs :
        worker[w].at = {j} => worker[w].attempts <= failures[j]
  BY DEF UsedInv
<1> DEFINE Rows == \A k \in Jobs :
             /\ jobs'[k].status \in {"queued", "running"} => jobs'[k].attempts < MaxAttempts
             /\ jobs'[k].status = "failed" => failures'[k] >= MaxAttempts
             /\ jobs'[k].attempts <= failures'[k]
           Seen == \A v \in Workers, k \in Jobs :
             worker'[v].at = {k} => worker'[v].attempts <= failures'[k]
<1>5. SUFFICES Rows /\ Seen
  BY <1>1 DEF UsedInv, AttemptsUsed
<1>6. ASSUME NEW j \in Jobs, Enqueue(j) PROVE Rows /\ Seen
  BY <1>1, <1>2, <1>3, <1>4, <1>6, EnqueueStep DEF AttemptsUsed
<1>7. ASSUME NEW w \in Workers, NEW j \in Jobs, Claim(w, j) PROVE Rows /\ Seen
  <2>1. jobs[j].attempts < MaxAttempts
    BY <1>1, <1>7 DEF Claim, Claimable, AttemptsUsed
  <2>2. Rows
    BY <1>1, <1>3, <1>7, <2>1, ClaimStep DEF AttemptsUsed
  <2>3. Seen
    BY <1>1, <1>3, <1>4, <1>7, ClaimStep
  <2> QED
    BY <2>2, <2>3
<1>8. ASSUME NEW w \in Workers, NEW j \in Jobs, Read(w, j) PROVE Rows /\ Seen
  <2>1. Rows
    BY <1>1, <1>3, <1>8, ReadStep DEF AttemptsUsed
  <2>2. Seen
    <3>1. SUFFICES ASSUME NEW v \in Workers, NEW k \in Jobs, worker'[v].at = {k}
                   PROVE  worker'[v].attempts <= failures'[k]
      OBVIOUS
    <3>2. CASE v = w
      <4>1. k = j
        BY <1>1, <1>8, <3>1, <3>2, ReadStep
      <4> QED
        BY <1>1, <1>3, <1>8, <3>2, <4>1, ReadStep
    <3>3. CASE v # w
      BY <1>1, <1>4, <1>8, <3>1, <3>3, ReadStep
    <3> QED
      BY <3>2, <3>3
  <2> QED
    BY <2>1, <2>2
<1>9. ASSUME NEW w \in Workers, NEW j \in Jobs, Succeed(w, j) PROVE Rows /\ Seen
  <2>1. Rows
    BY <1>1, <1>3, <1>9, SucceedStep DEF AttemptsUsed
  <2>2. Seen
    BY <1>1, <1>4, <1>9, SucceedStep, ReleaseStep
  <2> QED
    BY <2>1, <2>2
<1>10. ASSUME NEW w \in Workers, NEW j \in Jobs, Fail(w, j) PROVE Rows /\ Seen
  <2>1. worker[w].attempts \in Nat /\ worker[w].attempts <= failures[j]
    BY <1>1, <1>4, <1>10, FailStep DEF TypeOK
  <2>2. \A k \in Jobs : failures'[k] \in Nat /\ failures[k] <= failures'[k]
    BY <1>1, <1>3, <1>10, FailStep
  <2>3. Rows
    <3>1. SUFFICES ASSUME NEW k \in Jobs
                   PROVE  /\ jobs'[k].status \in {"queued", "running"}
                               => jobs'[k].attempts < MaxAttempts
                          /\ jobs'[k].status = "failed" => failures'[k] >= MaxAttempts
                          /\ jobs'[k].attempts <= failures'[k]
      OBVIOUS
    <3>2. CASE k = j
      BY <1>1, <1>2, <1>3, <1>10, <2>1, <3>2, FailStep
    <3>3. CASE k # j
      BY <1>1, <1>3, <1>10, <3>3, FailStep DEF AttemptsUsed
    <3> QED
      BY <3>2, <3>3
  <2>4. Seen
    <3>1. SUFFICES ASSUME NEW v \in Workers, NEW k \in Jobs, worker'[v].at = {k}
                   PROVE  worker'[v].attempts <= failures'[k]
      OBVIOUS
    <3>2. v # w /\ worker'[v] = worker[v]
      BY <1>1, <1>10, <3>1, FailStep, ReleaseStep
    <3>3. worker[v].attempts \in Nat /\ worker[v].attempts <= failures[k]
      BY <1>1, <1>4, <3>1, <3>2 DEF TypeOK
    <3> QED
      BY <1>3, <2>2, <3>2, <3>3
  <2> QED
    BY <2>3, <2>4
<1>11. ASSUME NEW w \in Workers, Crash(w) PROVE Rows /\ Seen
  BY <1>1, <1>3, <1>4, <1>11, ReleaseStep DEF Crash, AttemptsUsed
<1>12. CASE Tick
  BY <1>1, <1>3, <1>4, <1>12, TickStep DEF AttemptsUsed
<1>13. CASE UNCHANGED queue
  BY <1>1, <1>3, <1>4, <1>13 DEF queue, AttemptsUsed
<1> HIDE DEF Rows, Seen
<1> QED
  BY <1>6, <1>7, <1>8, <1>9, <1>10, <1>11, <1>12, <1>13 DEF Next, Run

(* Even when workers outlast their leases, read rows others have marked and *)
(* mark rows others took over, a job is claimed only while it has an        *)
(* attempt left, and given up only after the allowed number of failed runs. *)
THEOREM NoneGivenUpEarly == Spec => []AttemptsUsed
<1>1. Init => UsedInv
  <2> SUFFICES ASSUME Init PROVE UsedInv
    OBVIOUS
  <2>1. TypeOK /\ MaxAttempts \in Nat \ {0}
    BY TypeInit, QueueAssumption
  <2>2. \A j \in Jobs : /\ jobs[j].status = "absent" /\ jobs[j].attempts = 0
                        /\ failures[j] = 0
    BY DEF Init, NoJob
  <2>3. \A w \in Workers : worker[w].at = {}
    BY DEF Init, Free
  <2> QED
    BY <2>1, <2>2, <2>3 DEF UsedInv, AttemptsUsed
<1>2. UsedInv => AttemptsUsed
  BY DEF UsedInv
<1> QED
  BY <1>1, <1>2, UsedStep, PTL DEF Spec

-----------------------------------------------------------------------------
(* From here on workers are prompt: the lease is longer than any run.        *)

\* A row that is left alone keeps its count.
LEMMA SameRow ==
  ASSUME TypeOK, NEW k \in Jobs, Counted(k), failures'[k] = failures[k],
         jobs'[k].status = jobs[k].status, jobs'[k].attempts = jobs[k].attempts
  PROVE  Counted(k)'
BY DEF Counted

LEMMA LeaseEnqueue ==
  ASSUME LeaseInv, NEW j \in Jobs, Enqueue(j)
  PROVE  OneRunner' /\ (\A w \in Workers : Holds(w)') /\ (\A k \in Jobs : Counted(k)')
<1>1. TypeOK
  BY DEF LeaseInv
<1>2. OneRunner'
  BY <1>1, EnqueueStep DEF LeaseInv, OneRunner
<1>3. ASSUME NEW w \in Workers PROVE Holds(w)'
  <2>1. worker' = worker
    BY <1>1, EnqueueStep
  <2>2. \A k \in worker[w].at : k \in Jobs /\ jobs[k].status # "absent"
    BY <1>1 DEF LeaseInv, Holds, TypeOK
  <2>3. \A k \in worker[w].at : jobs'[k] = jobs[k]
    BY <1>1, <2>2, EnqueueStep
  <2> QED
    BY <2>1, <2>3 DEF LeaseInv, Holds
<1>4. ASSUME NEW k \in Jobs PROVE Counted(k)'
  <2>1. failures' = failures /\ MaxAttempts \in Nat \ {0}
    BY <1>1, EnqueueStep, QueueAssumption
  <2>2. Counted(k)
    BY DEF LeaseInv
  <2>3. CASE jobs'[k] = jobs[k]
    BY <1>1, <2>1, <2>2, <2>3, SameRow
  <2>4. CASE jobs[k].status = "absent" /\ jobs'[k].status = "queued" /\ jobs'[k].attempts = 0
    BY <2>1, <2>2, <2>4 DEF Counted
  <2> QED
    BY <1>1, <2>3, <2>4, EnqueueStep
<1> QED
  BY <1>2, <1>3, <1>4

LEMMA LeaseClaim ==
  ASSUME LeaseInv, NEW w \in Workers, NEW j \in Jobs, Claim(w, j)
  PROVE  OneRunner' /\ (\A v \in Workers : Holds(v)') /\ (\A k \in Jobs : Counted(k)')
<1>1. TypeOK /\ Lease \in Nat /\ MaxAttempts \in Nat \ {0}
  BY QueueAssumption DEF LeaseInv
<1>2. ASSUME NEW v \in Workers PROVE j \notin worker[v].at
  <2>1. SUFFICES ASSUME j \in worker[v].at PROVE FALSE
    OBVIOUS
  <2>2. jobs[j].status = "running" /\ jobs[j].age <= Lease /\ jobs[j].age \in Nat
    BY <1>1, <2>1 DEF LeaseInv, Holds, TypeOK, Row
  <2>3. Claimable(j)
    BY <1>1, ClaimStep
  <2> QED
    BY <1>1, <2>2, <2>3 DEF Claimable, Stale
<1>3. OneRunner'
  BY <1>1, <1>2, ClaimStep DEF LeaseInv, OneRunner
<1>4. ASSUME NEW v \in Workers PROVE Holds(v)'
  <2>1. CASE v = w
    BY <1>1, <2>1, ClaimStep DEF Holds
  <2>2. CASE v # w
    <3>1. worker'[v] = worker[v] /\ worker[v].at \subseteq Jobs
      BY <1>1, <2>2, ClaimStep DEF TypeOK
    <3>2. \A k \in worker[v].at : jobs'[k] = jobs[k]
      BY <1>1, <1>2, <3>1, ClaimStep
    <3> QED
      BY <3>1, <3>2 DEF LeaseInv, Holds
  <2> QED
    BY <2>1, <2>2
<1>5. ASSUME NEW k \in Jobs PROVE Counted(k)'
  <2>1. failures' = failures /\ Counted(k)
    BY <1>1, ClaimStep DEF LeaseInv
  <2>2. CASE k = j
    <3>1. jobs[j].status \in {"queued", "running"}
      BY <1>1, ClaimStep DEF Claimable
    <3> QED
      BY <1>1, <2>1, <2>2, <3>1, ClaimStep DEF Counted
  <2>3. CASE k # j
    BY <1>1, <2>1, <2>3, SameRow, ClaimStep
  <2> QED
    BY <2>2, <2>3
<1> QED
  BY <1>3, <1>4, <1>5

\* When a worker lets go of its job, the others still hold theirs.
LEMMA LeaseRelease ==
  ASSUME LeaseInv, NEW w \in Workers, Release(w),
         \A k \in Jobs : k \notin worker[w].at => jobs'[k] = jobs[k]
  PROVE  OneRunner' /\ \A v \in Workers : Holds(v)'
<1>1. TypeOK /\ OneRunner
  BY DEF LeaseInv
<1>2. OneRunner'
  BY <1>1, ReleaseStep DEF OneRunner
<1>3. ASSUME NEW v \in Workers PROVE Holds(v)'
  <2>1. CASE v = w
    BY <1>1, <2>1, ReleaseStep DEF Holds
  <2>2. CASE v # w
    <3>1. worker'[v] = worker[v] /\ worker[v].at \subseteq Jobs
      BY <1>1, <2>2, ReleaseStep DEF TypeOK
    <3>2. \A k \in worker[v].at : k \notin worker[w].at
      BY <1>1, <2>2 DEF OneRunner
    <3>3. \A k \in worker[v].at : jobs'[k] = jobs[k]
      BY <3>1, <3>2
    <3> QED
      BY <3>1, <3>3 DEF LeaseInv, Holds
  <2> QED
    BY <2>1, <2>2
<1> QED
  BY <1>2, <1>3

LEMMA LeaseRead ==
  ASSUME LeaseInv, NEW w \in Workers, NEW j \in Jobs, Read(w, j)
  PROVE  OneRunner' /\ (\A v \in Workers : Holds(v)') /\ (\A k \in Jobs : Counted(k)')
<1>1. TypeOK
  BY DEF LeaseInv
<1>2. \A v \in Workers : worker'[v].at = worker[v].at
  BY <1>1, ReadStep
<1>3. OneRunner'
  BY <1>2 DEF LeaseInv, OneRunner
<1>4. ASSUME NEW v \in Workers PROVE Holds(v)'
  <2>1. CASE v = w
    BY <1>1, <1>2, <2>1, ReadStep DEF LeaseInv, Holds
  <2>2. CASE v # w
    BY <1>1, <2>2, ReadStep DEF LeaseInv, Holds
  <2> QED
    BY <2>1, <2>2
<1>5. \A k \in Jobs : Counted(k)'
  BY <1>1, ReadStep, SameRow DEF LeaseInv
<1> QED
  BY <1>3, <1>4, <1>5

LEMMA LeaseMark ==
  ASSUME LeaseInv, NEW w \in Workers, NEW j \in Jobs, Succeed(w, j) \/ Fail(w, j)
  PROVE  OneRunner' /\ (\A v \in Workers : Holds(v)') /\ (\A k \in Jobs : Counted(k)')
<1>1. TypeOK /\ MaxAttempts \in Nat \ {0}
  BY QueueAssumption DEF LeaseInv
<1>2. Release(w) /\ worker[w].at = {j} /\ worker[w].read
  BY <1>1, SucceedStep, FailStep
<1>3. /\ jobs[j].status = "running" /\ jobs[j].attempts = worker[w].attempts
      /\ Counted(j) /\ jobs[j].attempts \in Nat /\ failures[j] \in Nat
  BY <1>1, <1>2 DEF LeaseInv, Holds, TypeOK, Row
<1>4. \A k \in Jobs : k # j => jobs'[k] = jobs[k] /\ failures'[k] = failures[k]
  BY <1>1, SucceedStep, FailStep
<1>5. OneRunner' /\ \A v \in Workers : Holds(v)'
  BY <1>2, <1>4, LeaseRelease
<1>6. Counted(j)'
  <2>1. CASE Succeed(w, j)
    BY <1>1, <1>3, <2>1, SucceedStep DEF Counted
  <2>2. CASE Fail(w, j)
    BY <1>1, <1>3, <2>2, FailStep DEF Counted
  <2> QED
    BY <2>1, <2>2
<1>7. ASSUME NEW k \in Jobs, k # j PROVE Counted(k)'
  BY <1>1, <1>4, <1>7, SameRow DEF LeaseInv
<1> QED
  BY <1>5, <1>6, <1>7

LEMMA LeaseTick ==
  ASSUME Prompt, LeaseInv, Tick
  PROVE  OneRunner' /\ (\A v \in Workers : Holds(v)') /\ (\A k \in Jobs : Counted(k)')
<1>1. TypeOK /\ Lease \in Nat
  BY QueueAssumption DEF LeaseInv
<1>2. UNCHANGED <<worker, failures, crashes>>
  BY <1>1, TickStep
<1>3. OneRunner'
  BY <1>2 DEF LeaseInv, OneRunner
<1>4. ASSUME NEW v \in Workers, NEW k \in worker[v].at
      PROVE  /\ worker'[v].at = {k}
             /\ jobs'[k].status = "running" /\ jobs'[k].age <= Lease
             /\ worker'[v].read => jobs'[k].attempts = worker'[v].attempts
  <2>1. k \in Jobs /\ jobs[k].age \in Nat
    BY <1>1, <1>4 DEF TypeOK, Row
  <2>2. /\ worker[v].at = {k} /\ jobs[k].status = "running"
        /\ worker[v].read => jobs[k].attempts = worker[v].attempts
    BY <1>4 DEF LeaseInv, Holds
  <2>3. ~OutOfLease(k)
    BY <1>4 DEF Tick
  <2>4. jobs[k].age < Lease
    BY <1>1, <2>1, <2>2, <2>3 DEF OutOfLease
  <2> QED
    BY <1>1, <1>2, <2>1, <2>2, <2>4, TickStep
<1>5. \A v \in Workers : Holds(v)'
  BY <1>2, <1>4 DEF Holds
<1>6. \A k \in Jobs : Counted(k)'
  BY <1>1, <1>2, TickStep, SameRow DEF LeaseInv
<1> QED
  BY <1>3, <1>5, <1>6

LEMMA LeaseStep == Prompt /\ LeaseInv /\ [Next]_queue => LeaseInv'
<1> SUFFICES ASSUME Prompt, LeaseInv, [Next]_queue PROVE LeaseInv'
  OBVIOUS
<1> USE DEF LeaseInv
<1>1. TypeOK /\ TypeOK'
  BY TypeStep
<1>2. ASSUME NEW j \in Jobs, Enqueue(j) PROVE LeaseInv'
  BY <1>1, <1>2, LeaseEnqueue
<1>3. ASSUME NEW w \in Workers, Run(w) PROVE LeaseInv'
  <2>1. PICK j \in Jobs : Claim(w, j) \/ Read(w, j) \/ Succeed(w, j) \/ Fail(w, j)
    BY <1>3 DEF Run
  <2>2. CASE Claim(w, j)
    BY <1>1, <2>2, LeaseClaim
  <2>3. CASE Read(w, j)
    BY <1>1, <2>3, LeaseRead
  <2>4. CASE Succeed(w, j) \/ Fail(w, j)
    BY <1>1, <2>4, LeaseMark
  <2> QED
    BY <2>1, <2>2, <2>3, <2>4
<1>4. ASSUME NEW w \in Workers, Crash(w) PROVE LeaseInv'
  <2>1. Release(w) /\ UNCHANGED <<jobs, failures>>
    BY <1>4 DEF Crash
  <2>2. OneRunner' /\ \A v \in Workers : Holds(v)'
    BY <2>1, LeaseRelease
  <2>3. \A k \in Jobs : Counted(k)'
    BY <1>1, <2>1, SameRow
  <2> QED
    BY <1>1, <2>2, <2>3
<1>5. CASE Tick
  BY <1>1, <1>5, LeaseTick
<1>6. CASE UNCHANGED queue
  BY <1>1, <1>6 DEF queue, OneRunner, Holds, Counted
<1> QED
  BY <1>2, <1>3, <1>4, <1>5, <1>6 DEF Next

LEMMA LeaseInit == Init => LeaseInv
<1> SUFFICES ASSUME Init PROVE LeaseInv
  OBVIOUS
<1>1. TypeOK /\ MaxAttempts \in Nat \ {0}
  BY TypeInit, QueueAssumption
<1>2. \A w \in Workers : worker[w].at = {}
  BY DEF Init, Free
<1>3. \A j \in Jobs : jobs[j].status = "absent" /\ jobs[j].attempts = 0 /\ failures[j] = 0
  BY DEF Init, NoJob
<1> QED
  BY <1>1, <1>2, <1>3 DEF LeaseInv, OneRunner, Holds, Counted

LEMMA LeaseAlways == ASSUME Prompt PROVE Spec => []LeaseInv
<1>1. LeaseInv /\ [Next]_queue => LeaseInv'
  BY LeaseStep
<1> QED
  BY <1>1, LeaseInit, PTL DEF Spec

(* If every run ends or dies within the lease, no job is ever run by two     *)
(* workers: the lock survives crashes because only a dead worker's job gets  *)
(* old enough to be claimed again.                                           *)
THEOREM PromptOneRunner == ASSUME Prompt PROVE Spec => []OneRunner
<1>1. LeaseInv => OneRunner
  BY DEF LeaseInv
<1> QED
  BY <1>1, LeaseAlways, PTL

(* The attempt count is exact: a job is given up after the allowed number of *)
(* failed runs, never before, and a crash costs no attempt.                  *)
THEOREM PromptGivenUpAfterAll == ASSUME Prompt PROVE Spec => []GivenUpAfterAll
<1>1. LeaseInv => GivenUpAfterAll
  BY DEF LeaseInv, GivenUpAfterAll, Counted
<1> QED
  BY <1>1, LeaseAlways, PTL

(* What succeeded or was given up stays so, through late marks, retries and  *)
(* enqueues of the same key.                                                 *)
THEOREM PromptOverIsOver == ASSUME Prompt PROVE Spec => OverIsOver
<1> DEFINE Kept == \A j \in Jobs : jobs[j].status \in Over => jobs'[j].status = jobs[j].status
<1>1. ASSUME LeaseInv, [Next]_queue PROVE [Kept]_queue
  <2> SUFFICES ASSUME NEW k \in Jobs, jobs[k].status \in Over
               PROVE  jobs'[k].status = jobs[k].status
    OBVIOUS
  <2>1. TypeOK
    BY <1>1 DEF LeaseInv
  <2>2. jobs[k].status \notin {"absent", "queued", "running"}
    BY DEF Over
  <2>3. ASSUME NEW j \in Jobs, Enqueue(j) PROVE jobs'[k].status = jobs[k].status
    BY <2>1, <2>2, <2>3, EnqueueStep
  <2>4. ASSUME NEW w \in Workers, Run(w) PROVE jobs'[k].status = jobs[k].status
    <3>1. PICK j \in Jobs : Claim(w, j) \/ Read(w, j) \/ Succeed(w, j) \/ Fail(w, j)
      BY <2>4 DEF Run
    <3>2. CASE Claim(w, j)
      BY <2>1, <2>2, <3>2, ClaimStep DEF Claimable
    <3>3. CASE Read(w, j)
      BY <2>1, <3>3, ReadStep
    <3>4. CASE Succeed(w, j) \/ Fail(w, j)
      <4>1. worker[w].at = {j} /\ \A i \in Jobs : i # j => jobs'[i] = jobs[i]
        BY <2>1, <3>4, SucceedStep, FailStep
      <4>2. jobs[j].status = "running"
        BY <1>1, <4>1 DEF LeaseInv, Holds
      <4> QED
        BY <2>2, <4>1, <4>2
    <3> QED
      BY <3>1, <3>2, <3>3, <3>4
  <2>5. ASSUME NEW w \in Workers, Crash(w) PROVE jobs'[k].status = jobs[k].status
    BY <2>5 DEF Crash
  <2>6. CASE Tick
    BY <2>1, <2>6, TickStep
  <2>7. CASE UNCHANGED queue
    BY <2>7 DEF queue
  <2> QED
    BY <1>1, <2>3, <2>4, <2>5, <2>6, <2>7 DEF Next
<1> QED
  BY <1>1, LeaseAlways, PTL DEF Spec, OverIsOver
=============================================================================
