------------------------------ MODULE JobQueue ------------------------------
(***************************************************************************)
(* The durable queue behind project signing: rows of ProjectSignatureJob   *)
(* that scanners claim, run, and mark. Scanners run every few minutes and  *)
(* after every signature, in every process, without knowing of each other: *)
(* the conditional claim is all that keeps two from running one job, and a *)
(* job whose worker died is claimed again when its lock is old enough.     *)
(* The row is read in a statement of its own after the claim; marks are    *)
(* unconditional, and carry the number of attempts the worker read then.   *)
(* What a job does is left to the modules that use the queue.              *)
(* Clock times are kept as the time left until runAfter ("due") and the    *)
(* time since lockedAt ("age", no further than one past the lease).        *)
(***************************************************************************)
EXTENDS Naturals, FiniteSets

CONSTANTS Workers,      \* scans that are running, in any process
          Jobs,         \* idempotency keys
          MaxAttempts,  \* ProjectSignatureJob.maxAttempts
          Lease,        \* staleJobThresholdMs
          MaxDelay,     \* the longest retry delay
          Prompt,       \* TRUE: no live worker outlasts its lease
          MaxCrashes    \* bound: processes that die at work

ASSUME QueueAssumption ==
  /\ MaxAttempts \in Nat \ {0}
  /\ Lease \in Nat /\ MaxDelay \in Nat /\ MaxCrashes \in Nat
  /\ Prompt \in BOOLEAN

VARIABLES jobs,      \* the rows, by idempotency key; absent ones have no status
          worker,    \* the job each scan is at, and what it read of its row
          failures,  \* runs of each job that failed
          crashes    \* workers lost so far

queue == <<jobs, worker, failures, crashes>>

Status == {"absent", "queued", "running", "succeeded", "failed"}
Over == {"succeeded", "failed"}

NoJob == [status |-> "absent", attempts |-> 0, due |-> 0, age |-> 0]
Free == [at |-> {}, read |-> FALSE, attempts |-> 0]

Init ==
  /\ jobs = [j \in Jobs |-> NoJob]
  /\ worker = [w \in Workers |-> Free]
  /\ failures = [j \in Jobs |-> 0]
  /\ crashes = 0

\* enqueueProjectSignatureJob: a key that is there already is left alone.
Enqueued(row) == IF row.status = "absent" THEN [NoJob EXCEPT !.status = "queued"] ELSE row

Enqueue(j) ==
  /\ jobs' = [jobs EXCEPT ![j] = Enqueued(jobs[j])]
  /\ UNCHANGED <<worker, failures, crashes>>

Stale_Always(row) == TRUE
Stale_Never(row) == FALSE
Stale(row) == row.age > Lease

Claimable(j) ==
  \/ jobs[j].status = "queued" /\ jobs[j].due = 0
  \/ jobs[j].status = "running" /\ Stale(jobs[j])

\* claimProjectSignatureJob: one conditional update...
Claim(w, j) ==
  /\ worker[w].at = {}
  /\ Claimable(j)
  /\ jobs' = [jobs EXCEPT ![j] = [status |-> "running", attempts |-> jobs[j].attempts,
                                  due |-> jobs[j].due, age |-> 0]]
  /\ worker' = [worker EXCEPT ![w] = [at |-> {j}, read |-> FALSE, attempts |-> 0]]
  /\ UNCHANGED <<failures, crashes>>

\* ... and then the row is read, whoever changed it in between.
Read(w, j) ==
  /\ worker[w].at = {j} /\ ~worker[w].read
  /\ worker' = [worker EXCEPT ![w] = [at |-> {j}, read |-> TRUE,
                                      attempts |-> jobs[j].attempts]]
  /\ UNCHANGED <<jobs, failures, crashes>>

Release(w) == worker' = [worker EXCEPT ![w] = Free]

\* markJobSucceeded
Succeed(w, j) ==
  /\ worker[w].at = {j} /\ worker[w].read
  /\ jobs' = [jobs EXCEPT ![j] = [status |-> "succeeded", attempts |-> jobs[j].attempts,
                                  due |-> jobs[j].due, age |-> 0]]
  /\ Release(w)
  /\ UNCHANGED <<failures, crashes>>

Delay(attempts) == IF attempts < MaxDelay THEN attempts ELSE MaxDelay

Retries_OneMore(attempts) == attempts <= MaxAttempts
Retries(attempts) == attempts < MaxAttempts

\* markJobFailedOrRetry
Fail(w, j) ==
  /\ worker[w].at = {j} /\ worker[w].read
  /\ LET attempts == worker[w].attempts + 1
     IN jobs' = [jobs EXCEPT ![j] =
                   [status |-> IF Retries(attempts) THEN "queued" ELSE "failed",
                    attempts |-> attempts, due |-> Delay(attempts), age |-> 0]]
  /\ failures' = [failures EXCEPT ![j] = failures[j] + 1]
  /\ Release(w)
  /\ UNCHANGED crashes

\* The process dies, at a job or not; the row it claimed stays locked. (Losing
\* the database at the read or at a mark comes to the same.)
Crash(w) ==
  /\ crashes < MaxCrashes
  /\ crashes' = crashes + 1
  /\ Release(w)
  /\ UNCHANGED <<jobs, failures>>

OutOfLease(j) == jobs[j].status = "running" /\ jobs[j].age >= Lease

Aged(row) ==
  [status |-> row.status, attempts |-> row.attempts,
   due |-> IF row.due > 0 THEN row.due - 1 ELSE 0,
   age |-> IF row.status = "running" /\ row.age <= Lease THEN row.age + 1 ELSE row.age]

Tick ==
  /\ \E j \in Jobs : Aged(jobs[j]) # jobs[j]
  /\ Prompt => \A w \in Workers : \A j \in worker[w].at : ~OutOfLease(j)
  /\ jobs' = [j \in Jobs |-> Aged(jobs[j])]
  /\ UNCHANGED <<worker, failures, crashes>>

Run(w) == \E j \in Jobs : Claim(w, j) \/ Read(w, j) \/ Succeed(w, j) \/ Fail(w, j)

Next ==
  \/ \E j \in Jobs : Enqueue(j)
  \/ \E w \in Workers : Run(w) \/ Crash(w)
  \/ Tick

Spec == Init /\ [][Next]_queue

\* A scan goes on with every job it took, scans keep coming, time passes.
FairSpec == Spec /\ WF_queue(Tick) /\ \A w \in Workers : WF_queue(Run(w))

-----------------------------------------------------------------------------
(* What the queue promises.                                                *)

Row == [status : Status, attempts : Nat, due : Nat, age : Nat]

TypeOK ==
  /\ jobs \in [Jobs -> Row]
  /\ worker \in [Workers -> [at : SUBSET Jobs, read : BOOLEAN, attempts : Nat]]
  /\ failures \in [Jobs -> Nat]
  /\ crashes \in Nat

\* No two workers run one job at a time (if none outlasts its lease).
OneRunner == \A v, w \in Workers : v # w => worker[v].at \cap worker[w].at = {}

\* A job that succeeded or failed for good stays so: whatever other workers,
\* retries and enqueues do, it is not run again.
OverIsOver ==
  [][\A j \in Jobs : jobs[j].status \in Over => jobs'[j].status = jobs[j].status]_queue

\* A job is given up after exactly the allowed number of failed runs, however
\* often its worker died in between, and not before.
GivenUpAfterAll ==
  \A j \in Jobs : /\ failures[j] <= MaxAttempts
                  /\ jobs[j].status = "failed" <=> failures[j] = MaxAttempts

\* However long workers outlast their leases: a job can be claimed only while it
\* has an attempt left, and is given up only after that many of its runs failed.
AttemptsUsed ==
  \A j \in Jobs : /\ jobs[j].status \in {"queued", "running"} => jobs[j].attempts < MaxAttempts
                  /\ jobs[j].status = "failed" => failures[j] >= MaxAttempts

\* Every job that is enqueued succeeds or is given up.
JobsEnd == \A j \in Jobs : jobs[j].status = "queued" ~> jobs[j].status \in Over
=============================================================================
