# Acre: specifications of signing, access, review and money

TLA+ specifications of the parts of Acre in which several requests, workers or
people act on the same rows: signature requests of transactions, project
signing sessions, the durable job queue behind them, the finalization of signed
packets, internal accounts, the rate limiter, the review of transaction tasks,
payout statements and what agents owe the office. The models are translated from
the code in `src/`; TLC checks them on small instances and TLAPS proves the
properties that matter most for every value of the constants.

`PROJECT.json` lists the components, the runs, for each property a plausible bug
that breaks it, the lines of source behind each definition, the hazards of the
code, the findings and the theorems.

    tlc -workers 2 -config MCSession.cfg MCProjectSession    # one run
    tlapm ProjectSessionProofs.tla                           # one proof module

Contents: 1 [the system](#1-the-system) · 2 [the modules](#2-the-modules) ·
3 [the runs](#3-the-runs) · 4 [a finding, and observed behaviour](#4-a-finding-and-observed-behaviour) ·
5 [proofs](#5-proofs) · 6 [what is left out](#6-what-is-left-out) ·
7 [the plan](#7-the-plan)

## 1 The system

Acre is a Next.js application (`apps/web`) over one PostgreSQL database reached
through Prisma (`packages/db`). Several server processes may run it. There are
two faces: the back office (`/office`: transactions, tasks, documents,
accounting, HR, settings) and the front office (`/agent`: clients, calendar,
projects). The public reaches it through links: invitations, signature requests,
signing sessions, downloads, shared listings.

No process keeps state that matters between requests; everything is in the
database. There are no locks, no `SELECT ... FOR UPDATE`, and no isolation level
above PostgreSQL's READ COMMITTED. So the pattern behind nearly every hazard is
the same: a handler reads rows, decides, awaits something (a password hash, a
mail, a PDF), then writes what it decided, with or without a database
transaction around the last part.

### Components

State, operations and interaction of the parts that carry protocol:

| Component | State | Operations | Interacts with | Correct when |
|---|---|---|---|---|
| External signature requests (`transaction-documents/signatures.ts`, `api/public/signatures`) | `SignatureRequest`, its `SignatureRecipient`s, token hashes, the linked form, the output document | send, resend, view, sign, decline, cancel, expire, complete, save again; the public submit handler that advances routing and archives the PDF | mail, PDF building, documents, Drive sync, transaction tasks | the status follows the recipients; nobody signs out of turn; who is invited has a working link; one signed PDF, only when all signed; closed stays closed |
| Project signing sessions (`project-signing.ts`, `api/public/project-*`) | session, its recipients and links, iPad link, documents, one signature request per document with its parts | send links, start and exit the iPad, submit by link or iPad | enqueues finalize jobs; is completed by them | routing order; a document goes to be finalized exactly when all its parts are signed |
| Signing job queue (`project-signing-jobs.ts`) | `ProjectSignatureJob` rows: status, attempts, runAfter, lockedAt | enqueue, scan, claim, take over, succeed, retry, give up | scanners in every process, started by a timer and after every signature | one runner at a time, exact number of attempts, nothing lost |
| Project finalization (`project-signing-jobs.ts`) | artifact, archive entry, distribution rows, session status | finalize, e-mail and Drive jobs | runs on the queue; ends the session | one file everywhere, each party gets one link, failures show |
| Accounts (`auth.ts`, `account.ts`, `settings.ts`, `auth-session.ts`) | membership status, credential with failure count and lock, invitations, signed cookies | login, change password, accept invitation, issue, revoke, unlock, save user, switch company | guards of every other request; the users page issues invitations | lockout counts, disabled stays out, one invitation sets one password, old passwords give no access |
| Rate limiter (`rate-limit.ts`) | fixed windows in memory or in Redis, one shared Redis connection per process with a queue of pending commands | consume, connect, reconnect, fall back | login and public links | the limit holds per window; no answer goes to the wrong request; nobody waits for ever; connections do not pile up |
| Transaction tasks (`transaction-tasks.ts`) | task status, review status, two approvals, linked documents | request review, approve, approve again, reject, complete, reopen, reconcile | documents, forms and signature requests (whose changes reopen tasks), notifications | nothing is completed on evidence that is gone; two approvals by two people, of this submission |
| Offers (`offers.ts`) | offers of a transaction, the primary one | submit, receive, review, counter, accept, reject, withdraw, expire | writes price and dates of the transaction | one accepted offer |
| Agent billing (`agent-billing.ts`) | invoices, payments, credit memos, applications between them, recurring rules | charge, generate due charges, pay, apply | accounting | a payment covers what it settles; completed means settled; a period is charged once |
| Payout statements (`agent-payout-statements.ts`) | statement, its lines, review status, QuickBooks bill | create, send, confirm, ask for revision, post a bill | commissions, QuickBooks | what was confirmed is what is posted, once |

The remaining components are records with their editing pages, look-ups or
read-only views: transactions and pipeline, documents and forms, accounting and
earnest money, commissions, the 1099 tracker, contacts, front-office clients,
appointments, events and digests, listing studio with its Chrome extension, HR,
agents and teams, permissions and office access, settings, library, mail,
notifications, activity log, reports, the Google and QuickBooks connections, the
Admin-GPT gateway, request guards, document storage, pages, schema and scripts.
Offers are in the table for completeness and are not modelled (section 6).
`PROJECT.json` lists each with its files and why it is not modelled.

### Hard behaviour

* **Interleaving.** Two submissions of one packet, two wrong passwords, a
  signature and a cancellation, an acceptance and an administrator.
* **Atomicity.** `updateSignatureRequest` is one transaction, but READ COMMITTED:
  what it read first may be stale when it commits. Session submissions are not
  in a transaction at all.
* **Crashes.** A process dies between two statements, after a mail left but
  before the row says so, or holding a claimed job.
* **Retries.** A submission is repeated; a job is run again; a key is enqueued
  again; a bill is posted again after its answer was lost.
* **Callbacks.** One Redis connection serves all requests of a process; answers
  carry no name, and error, close and a reconnection come in any order.
* **Long legal sequences.** Send, sign, cancel, resend, save again; invite,
  revoke, disable, activate; submit, approve, reject, submit, approve again; edit,
  send, confirm, edit, post.
* **Liveness.** The signed PDF must come, every party must be mailed, the session
  must end, every job must end.

## 2 The modules

    EnvelopeRouting <- SignatureEnvelope <- MCSignatureEnvelope
                                         <- SignatureEnvelopeProofs
    SigningPromise  <- SignatureEnvelope        (refined by it)
    AccountAccess   <- MCAccountAccess, AccountAccessProofs
    JobQueue        <- MCJobQueue, JobQueueProofs
    JobQueue        <- ProjectFinalization <- MCProjectFinalization
                                           <- ProjectFinalizationProofs
    JobQueueProofs  <- ProjectFinalizationProofs   (for the jobs of a packet)
    SecureCopies    <- ProjectFinalization      (refined by it)
    ProjectSession  <- MCProjectSession, ProjectSessionProofs
    TransactionTask <- MCTransactionTask, TransactionTaskProofs
    FixedWindow     <- RateLimit                (refined by it)
    RateLimit       <- MCRateLimit, RateLimitProofs
    ReadThenWrite   <- PayoutStatement <- MCPayoutStatement
    ReadThenWrite   <- AgentBilling <- MCAgentBilling
    AgentBilling, PayoutStatement <- MoneyProofs

In every module a server request or worker is a *slot* or *worker* with a record
that says at which statement it is; each statement, or each database transaction
that does not look at what others commit meanwhile, is one action. A slot that
is idle takes any request that can arrive. In `TransactionTask`,
`PayoutStatement` and `AgentBilling`, whose handlers are a read and a write, a slot holds
what the handler will write (`put`) and whether the rows it read are still as it
read them (`fresh`); `stale` remembers whether anybody ever wrote over what it
had not seen; `ReadThenWrite` holds what of this the last two share. A property of
the form `~stale => ...` therefore speaks of every
history in which no two handlers got in each other's way, however they were
interleaved, and one without it of all histories. Values that a handler read and uses later are in its
record: that is where stale state lives. A definition named `X_Y` next to `X` is
the same definition with a plausible slip Y; it is used by no specification, and
`PROJECT.json` names the property that notices the slip.

### SigningPromise, EnvelopeRouting, SignatureEnvelope

`SigningPromise` is what a request promises seen from outside: each signer waits,
is asked, has signed or is out, and the signed document is filed or not. Only
those whose turn it is are asked or sign, who signed is not left out, the document
is filed when all signed, and only starting over takes any of this back. It also
says what the office may enter once nobody is left to sign: another result for the
first signer, until the document is filed; the code does that. `SignedInOrder` is
the refinement: a row's status stands for where its signer stands (`Standing`),
the linked output for `filed`. Links, mails, transactions and the request's own
status are how the code does it.

The operators that decide on recipients (`Signers`, `Active`, `AllActed`,
`Derive`, `SyncForm`) and one signature request.

| Model | Code |
|---|---|
| `request`, `rows`, `link`, `form` | `SignatureRequest`, `SignatureRecipient.status`, `tokenHash` (as the number of the token), `TransactionForm.status` |
| `edition` | how often saving the request replaced the recipient rows, so that an id read before finds nothing after |
| `Arrive`, `Load`, `Reload` | `getPublicSignatureRequestSnapshot`: look up, let the visit expire the request or mark it viewed, read again |
| `Check`, `Route`, `Mail`, `Finish` | the submit handler between its transactions |
| `Begin`, `Write`, `Commit` | `updateSignatureRequest` for every action, and the saving of an existing request: first read and refusals; recipient rows, which it locks, and the second read; request row, links, form and commit |
| `Office` | PATCH by the office, sends and resends reading the request first |
| `mailed`, `issued`, `archived` | what left the system: links, and signed PDFs |

What one finds in it: with overlapping requests the request row can miss the last
signature (two signers commit without seeing each other) and a closed request can
be overwritten; a second "advance" rewrites the token of the step it just
invited; the last signer's handler and that of an earlier signer whose advance
ended late can both archive. `SignedGetsOutput` nevertheless holds for parallel
signers, because the handler judges by the recipients it read again and not by
the request's status; it stands only while nothing crashes.

### AccountAccess

One internal account. A login is two steps, the read of the credential and the
write after the comparison; so are password changes, invitations and the saving
of a user. A cookie is the time it was signed at and the password it was got
with: nothing on the server remembers it, `Valid` is what `auth-session.ts`
decides. `wrong` is a history variable: wrong passwords in a row. Two stamps in
the same millisecond are left out (`Fresh`).

### JobQueue

`ProjectSignatureJob` under any number of scanners. Clock times are kept as the
time left until `runAfter` and the time since `lockedAt`. `Claim` is one
conditional update and `Read` the query that follows it, by which time another
worker may have marked the row. `Succeed` and `Fail` are unconditional and carry
the attempts the worker read. `Prompt` states that no live worker outlasts the
ten-minute lease: without it two workers run one job, and `AttemptsUsed` is the
only safety property that survives.

### SecureCopies, ProjectFinalization

`SecureCopies` is what a packet promises seen from outside: one signed file per
document, the archive keeps it, each party is mailed one link to it.
`ProjectFinalization` is the code: `finalizeProjectSigningPdf`,
`sendProjectCompletionEmail`, `syncProjectArtifactToDrive` and
`completeProjectSigningSessionIfReady`, one action per statement, as jobs of an
instance of `JobQueue` (`Queue`), claimed and read in two steps (`Claim`,
`ReadJob`). Jobs enqueue jobs. A step named in `Failing` may throw. Giving up is
two statements: `Fail` marks the job, `ReportRow` or `ReportDoc` shows it to
staff. A worker may die between any two statements, these included (`Crash`).
`CopiesPromised` is the refinement, with the file a document names and its
archive entry standing for `official` and `archive`.

### ProjectSession

A packet of documents with parts (`Of[d]` is the sequence of recipients behind
the fields of document `d`), signed from links or on the iPad. A submission is
`Submit` (look the link up), `Turn`, `Act`, `Read` (list the open documents), and
per document `Mark` one part, `Count` the parts left, `MarkRequest`,
`MarkDocument`, and `Enqueue` with the last part. On the iPad the first two are
one read. `Mark` takes any of the recipient's parts: the code uses `find` on a
list it read without an order. `Record` and `Close` are the two statements of
the finalize job that touch the session; the rest of it is `ProjectFinalization`,
whose `LastSignature` stands for `MarkDocument`.

### TransactionTask

One checklist task, its documents and signature requests. The requirements of a
task (`level`) are the flags after `normalizeTaskFlags`, where each implies the
ones before it.

| Model | Code |
|---|---|
| `ReadToSave`, `ReadToRequest`, `ReadToReject`, `ReadToApprove` | `getTaskRecord` and the decisions of `updateTransactionTask` (which also completes and reopens), `requestTransactionTaskReview`, `rejectTransactionTask`, `approveTransactionTask`: outside the transaction |
| `Write` | their transaction: task row, and the documents that follow the task (`syncTaskLinkedDocumentStatuses`) |
| `tx` | the open transactions of documents, forms and signature requests: what they read, what they will write, and what reconciling the task came to |
| `Upload`, `UpdateDocument`, `DeleteDocument`, `CreateForm`, `UpdateForm`, `ArchiveSigned`, `CreateRequest`, `ResaveRequest`, `SetSignature` | what each of their handlers reads first; the links it reads decide whether it will reconcile (`affected`), which creating a form and creating or re-saving a request never do |
| `Change` | its own change and `reconcileTransactionTaskDocumentWorkflow`, which sees this change and what others have committed (READ COMMITTED) |
| `Commit`, `Rollback` | the end of the transaction, after which others see it, or not |
| `Locked`, `Conflict` | the locks of the rows a transaction has changed: who wants one of them waits |
| `given` | history: who approved what was last submitted |
| `stale` | history: an office request wrote, or a transaction committed, what was decided before something else was committed |

Any number of transactions (`Txs`) are open beside each other and beside the
office requests. `SetSignature` takes a request to any status the switch of
`updateSignatureRequest` lets it reach; how its recipients get it there is
`SignatureEnvelope`.

### FixedWindow, RateLimit

`FixedWindow` says what a rate limiter promises: windows that each give out
`Limit` passes until they start over, and requests that are told what a window
gave out for them, or an error. `RateLimit` is the code for one key in one
process: the shared connection of `connectRedisConnection` with its `pending`
queue, the promise kept under the address, and the fall back to memory.
`OwnAnswer` is the refinement.

A callback of the socket runs with the continuations it resolves in one step,
as the event loop does it, since microtasks run before the next callback. Between
a destroyed socket and its `close` event other requests run (`Dying`, `Ending`),
and a late `close` takes whichever connection is then registered out of the map.
What was sent is not executed after the socket closed. The address has a
password and no database number, so a connection opens with `AUTH`. The counter
of Redis is unbounded in the code and in the model; what runs out is the number
of connections (`Conns`), after which nobody asks.

### PayoutStatement

A statement reduced to its total, its review status and the bill. The reads and
the writes of a handler are one transaction, but at READ COMMITTED without a
condition on the update, so they are two steps. `Bill` is QuickBooks, which knows
a request id, the same for every posting of a statement, and answers with the
bill it has; its answer may be lost. `agreed` is history: the totals the agent
confirmed, as they were when the confirmation was written.

### AgentBilling

The rows of one agent, what is applied from one to another, and one recurring
rule that falls due every day. `Rest` is what `getInvoiceOutstandingAmount` and
`getSourceRemainingAmount` compute, `Applicable` what
`applyAccountingTransactionToInvoice` lets through, `Shares` how a payment is
spread over the chosen invoices. No handler makes a credit memo of an agent that
could be applied; the seed and the import do, so one may be there from the start.

## 3 The runs

Each run finishes within three minutes. `CHECK_DEADLOCK FALSE` is set
throughout: bounds on visits, sends, postings or time let every instance come to
rest.

| Run | Instance | Shows |
|---|---|---|
| `envelope_one_at_a_time` | 2 signers in two steps and a copy recipient, one request at a time, 2 sends, 1 save, crashes, deadline | `StatusFollowsRecipients`, `OutputMeansAllSigned`, `SigningInTurn`, `InvitedHoldsLiveLink`, `SignatureStands`, `ClosedStaysClosed`, `SignedInOrder` |
| `envelope_parallel_signers` | 2 signers of one step, 2 overlapping requests, each link open once, deadline | `SignedGetsOutput` |
| `account_one_at_a_time` | invited account, 2 invitations, 2 passwords, 2 cookies, lock after 2, crashes, all administrators' actions | `ActiveMeansPassword`, `FailuresLock`, `InvitationUsedOnce`, `OneOpenInvitation`, `OldPasswordEnds`, `LockHolds` |
| `queue` | 2 workers, 2 jobs, 2 attempts, 2 crashes, lease 1, delay 2 | `OneRunner`, `GivenUpAfterAll`, `JobsEnd` |
| `finalization` | 2 documents, 1 party, 2 workers, sending may fail | `CopiesPromised`, `CopiesArrive`, `SessionEnds` |
| `finalization_crash` | 1 document, 2 parties, 2 workers, 1 crash anywhere, building and the success mark may fail | `SameFile`, `MailedOnce`, `FailureShown` |
| `session` | buyer then agent, 2 documents with 3 parts, 2 overlapping requests, 1 send, 1 handover, 3 submissions, 1 crash | `FinalizedOnlySigned`, `InRoutingOrder`, `OneSeesTheEnd`, `PacketFinalizes` |
| `session_two_roles` | one buyer, a template with two roles | violates `PacketFinalizes` |
| `task` | 2 approvers, a task that needs two approvals, an upload and the document of a form, 1 signature request, 1 office request against 1 open transaction of documents, forms and requests, at every point of each other | `TwoPeople`, `ApprovedThisRound`, `EvidenceKept` |
| `rate_limit` | 3 requests, one of them strict, up to 3 connections, limit 1 | `OneLeftForEachLost`, `OwnAnswer`, `Answered` |
| `payout` | totals 0, 1 and 2, 2 overlapping requests, 2 postings, lost answers, crashes | `BillIsAgreed`, `InTheBooksOnce` |
| `billing` | rows of 2, payments of 1 and 3, 2 days, 3 rows, 2 overlapping requests | `PaymentsCover`, `CompletedMeansSettled`, `NothingTwice`, `EachDayOnce` |

The type invariants are not in the runs because they are proved (section 5).

**Bounds.** They cut how often people act, never what the system does with it.
Two slots or workers give every overlap of two requests, which is what each
race here needs; two signers in two steps give a first and a last one, the copy
recipient the third kind of row. Two sends let a resend follow a send, cancel or
expiry; one save of a request already changes every id. `MaxFailed = 2` instead
of five and short times keep the shape of the lockout (below, at and past the
limit) with fewer tries. Two attempts are a retry and a giving up. Three
submissions are both recipients and a repetition. Finalization is split in two
runs since crashes and two documents multiply: order among documents is checked
without crashes, crashes with one document. `MaxFiles` leaves a file for every
run that can build one; the lease of those runs is 0 since a live worker is
always prompt there and age matters only after a crash.

The task run has one office slot and one transaction: it is about long sequences
and about documents that change between the read and the write of a handler, and
the other way round. What any number of them does is a matter of proof (section
5). Its constraint `Fresh` checks a state in which somebody holds a read that is
no longer so, and does not go on from it: `ApprovedThisRound` and `EvidenceKept`
claim nothing afterwards, and `TwoPeople`, which does, is proved for every
overlap. Statuses that only take the decisions already there again are left out
of `TaskEdits`, `DocEdits` and `SigSteps`. One uploaded document and one that
comes with a form are the two ways to be linked. Three requests on three connections are the
least in which an old socket closes after a new one was registered and a third
request finds the consequences; with a limit of 1 the second counted request is
already refused. In `payout` the totals are one that cannot be billed and two
that can be confused; two postings are a first and a repeated one. In `billing`
a payment of 1 is partial and one of 3 more than an invoice; three rows are two
invoices and a payment, or a credit memo, an invoice and a payment.

**Fairness.** `SignatureEnvelope` and `ProjectSession`: weak fairness of `Handle`
for every slot, since a server goes on with each request it accepted unless it
dies, which `Crash` models separately; nothing forces people to open links, send
or sign. `JobQueue` and `ProjectFinalization`: weak fairness of `Tick` (time
passes) and of each worker's `Run` or `Work` (scans are started every few
minutes and after every signature, and a scan goes through all it claimed), and
of the request that asks for the finalize job. `RateLimit`: weak fairness of what
the event loop does with each connection (`Moves`: it connects or fails, what
arrived is read, a dead socket closes), of each fall back, and of `Serve`: Redis
answers the commands of a live connection, or the connection breaks. Redis
answering is an assumption, not something the code enforces: there is no
time-out on a command, and a Redis that accepts and never answers would hold
requests for as long. Crashes are never fair. `TransactionTask`,
`PayoutStatement` and `AgentBilling` state no liveness: everything that happens
there is a person's decision.

## 4 A finding, and observed behaviour

`session_two_roles` ends in a violation on purpose: the project page creates
sessions with one buyer, who then stands behind every role of a template; a
submission marks one part only, and the document is never finalized.

The following is in the models and no run is spent on it. Where a property of
section 3 stops holding, the constants that show it are given.

*Envelope.* A signature that overlaps a cancellation overwrites `voided`, or the
other way round (`ClosedStaysClosed` in `MCEnvelopeOneAtATime` with `Slots =
{s1, s2}`, both signers in one step, `OfficeActions = {"send", "canceled"}`).
Two signers who commit together leave the request at `signed` although all
acted. A page view that was decided while the request was "sent" writes "viewed"
over a signature that came meanwhile (`SignatureStands`, two slots, two signers
in one step). Links are dead when the process dies between mailing them and
storing their hashes. An office "viewed" or "declined" on a closed request can
take back a signature. Re-saving a completed request leaves its form fully
signed.

*Accounts.* Wrong passwords compared at the same time count once (`FailuresLock`
with two slots, `Imported = TRUE`, `Admin = {}`). With the same constants a
login that read the account before it was locked ends the lock (`LockHolds`). An
acceptance that overlaps an administrator writes `active` over `disabled` (two
slots, `Admin = {"save"}`), and two acceptances of one link both set their
password (`InvitationUsedOnce`, two slots, `Admin = {"issue"}`). The failure
count outlives the lock, so one slip after the hour locks again.

*Queue.* A run that outlasts its lease is run a second time. Both mark the row
without a condition, so a job that succeeded or was given up is put back into the
queue, and, since the row is read after it was claimed, a worker can read a count
that another has raised to the limit meanwhile and mark one more
(`Prompt = FALSE`: `OneRunner` and `GivenUpAfterAll` fail, and so does
`OverIsOver`).

*Sessions and finalization.* A crash after `Act` loses the marks of the
documents, since a repeated submission by link is told "already signed" and only
the iPad can repeat it. A slow submission that counted parts left may write
`signed` over a completed document. A re-send that races a signature puts the
recipient back to `sent`. Starting the iPad reopens a completed session. A session
can be completed while another document's PDF is still pending. A finalize job
that dies after it recorded the signed file is run again, returns at the first
check and is marked as succeeded: no archive entry, no copies, and nothing shows
a failure (`CopiesArrive` with one document, party, worker and crash). A mail can
be sent once more per crash. A process that dies after it marked a job as given
up and before it showed that leaves the job row as the only trace.

*Tasks.* Evidence counts a signature request as done when it is `signed`, not
when it is `completed`, so a task whose request went all the way cannot be
submitted for review; `docs/architecture.md` and the task-list specification
speak of signed requests only. Two transactions that at the same time delete or
unlink the last two documents of an approved task each still see the other's
document when they reconcile: the task stays approved and nothing is linked to
it (`EvidenceKept` without `~stale'`, with two transactions), although
`docs/specs/documents-signature-spec.md:63` says that such a removal "explicitly
reopens affected approval tasks". A change that read a document before another
linked it reconciles by the link it read. A new signature request, one that is
saved again for another document or goes back to a draft by that, and a new form
do not reconcile, and changing or deleting a document reconciles only the task
it is linked to itself, not the one it serves through its form: these are the
exceptions in `EvidenceKept`. A save that adds the second approval and asks for
`Completed` leaves a singly approved task completed. A change of title of an
approved task in progress takes the approval back. The first approver of a
rejected round is refused the first approval of the next, and a single approval
after a rejection is credited to the stale first approver; `TwoPeople` and
`ApprovedThisRound` hold because the person is compared, not because the row is
cleared. The document route turns a `linkedTaskId` of null into "keep".

*Rate limiter.* A late `close` forgets a newer, live connection, which then stays
open and unused: `OneLeftForEachLost` bounds this by one per closed connection.
Redis counts refused requests, memory does not.

*Payout.* Every posting of a statement carries the same request id. When the
first answer was lost, finance changed the total and the agent confirmed it
again, QuickBooks answers with the bill of the old total and the books get the new
one. A statement stays editable after posting. A late "failed" may overwrite
"posted", after which the statement can be posted into the books again, and two
overlapping marks make two local bills: both only behind `stale`. The agent
confirms the statement as it is, not a version they saw. A process that dies
between the bill and the mark leaves a bill that nobody recorded; the next posting
finds it.

*Billing.* Overlapping payments or credits settle an invoice twice, overlapping
generations charge a day twice, and a slow save of a rule writes back an older due
date: all behind `stale`. What is left of an overpayment can be applied by no
handler. A rule taken up again catches up on the days it was paused.

## 5 Proofs

Checked by TLAPS for every value of the constants: any number of slots, workers,
jobs, recipients, documents and parts, any bounds. The only assumptions are the
named ones on the constants (`RoutingAssumption`, `EnvelopeAssumption`, `AccountAssumption`,
`QueueAssumption`, `FinalizationAssumption`, `SessionAssumption`,
`TaskAssumption`, `RateAssumption`, `BillingAssumption`, `PayoutAssumption`: naturals, Booleans,
distinct values, the types of the functions, and that the connections of the rate
limiter and the documents and parties of a packet are finitely many),
and what a theorem states in its own row:

* `OneAtATime`: any two slots are equal, so requests are served one at a time,
  with crashes between their steps;
* `NoManualView`: the office does not set a request to "viewed" by hand;
* `[]OneIssuing`: two administrators never issue an invitation at the same time,
  while everything else may overlap; a statement about the behaviour, not about
  the constants;
* `Prompt`: a live worker does not outlast its lease;
* `"mark" \notin Failing`: recording a mail as sent does not throw. A process may
  still die before it.

Each is needed: section 4 and the arguments below say what happens without it.

| Module | Theorem | Assumes | Says |
|---|---|---|---|
| SignatureEnvelopeProofs | `TypeCorrect` | | `[]TypeOK` |
| | `SerialStatus`, `SerialOutput`, `SerialClosed` | `OneAtATime` | `StatusFollowsRecipients`, `OutputMeansAllSigned`, `ClosedStaysClosed` |
| | `SerialTurns`, `SerialLinks`, `SerialSignatures` | `OneAtATime`, `NoManualView` | `SigningInTurn`, `InvitedHoldsLiveLink`, `SignatureStands` |
| | `SerialPromise` | `OneAtATime`, `NoManualView` | `SignedInOrder`: the envelope implements `SigningPromise` |
| AccountAccessProofs | `TypeCorrect`, `ActiveHasPassword` | | `TypeOK`, `ActiveMeansPassword` under any overlap |
| | `SerialLock`, `SerialFailures`, `SerialSupersede`, `SerialInvitation` | `OneAtATime` | `LockHolds`, `FailuresLock`, `OldPasswordEnds`, `InvitationUsedOnce` |
| | `OneLinkUnlessIssuedTwice` | `[]OneIssuing` | `OneOpenInvitation` under any other overlap |
| JobQueueProofs | `TypeCorrect`, `NoneGivenUpEarly` | | `TypeOK`, `AttemptsUsed`, even when workers outlast leases: what can be claimed has an attempt left, and what is given up has had all of them |
| | `PromptOneRunner`, `PromptGivenUpAfterAll`, `PromptOverIsOver` | `Prompt` | `OneRunner`, `GivenUpAfterAll`, `OverIsOver` |
| ProjectFinalizationProofs | `TypeCorrect`, `OneSignedFile`, `FailuresShow` | `Prompt` | `TypeOK`, `SameFile`, `FailureShown`, through any failures and any number of crashes between any two statements; `FailureShown` allows one given up job for each crash that does not show |
| | `OneLinkPerParty` | `Prompt`, `"mark" \notin Failing` | `MailedOnce` |
| | `RunsTheQueue` | `Prompt` | `Queue!Spec`: the packet handles its jobs as `JobQueue` says |
| | `KeepsThePromise` | `Prompt`, `"mark" \notin Failing`, `MaxCrashes = 0` | `CopiesPromised`: finalization implements `SecureCopies` |
| ProjectSessionProofs | `TypeCorrect`, `RoutingOrder`, `OnlySignedFinalized`, `EndIsSeen` | | `TypeOK`, `InRoutingOrder`, `FinalizedOnlySigned`, `OneSeesTheEnd` under any overlap |
| TransactionTaskProofs | `TypeCorrect`, `CompletedIsApproved`, `ApprovedByTwo` | | `TypeOK`, `CompletedMeansApproved`, `TwoPeople` under any overlap, stale decisions included |
| | `RoundApproved`, `AcceptedOnEvidence` | | `ApprovedThisRound`, `EvidenceKept`, with any number of office requests and transactions open at once, as long as nobody decided on what was no longer so |
| RateLimitProofs | `TypeCorrect` | | `TypeOK` |
| | `NoPileOfConnections` | | `OneLeftForEachLost` for any number of requests and connections |
| | `TellsWhatWasDrawn` | | `OwnAnswer`: the limiter implements `FixedWindow` |
| MoneyProofs (billing) | `BillingTypes`, `PaymentsNeverOverdrawn`, `CompletedIsSettled` | | `TypeOK`, `PaymentsCover`, `CompletedMeansSettled` under any overlap |
| | `SettledOnce`, `ChargedOnce` | | `NothingTwice`, `EachDayOnce`, as long as nobody wrote over what they had not seen |
| MoneyProofs (payout) | `StatementTypes`, `BooksFollow` | | `StatementTypeOK`, `BooksFollowQuickBooks` under any overlap |
| | `BookedOnce`, `AgreedBill` | | `InTheBooksOnce`, `BillIsAgreed`, as long as nobody wrote over what they had not seen |

`MoneyProofs` is about both modules of money, each by itself: `Spec` is that of
`AgentBilling`, `StatementSpec` that of `PayoutStatement`.

**The arguments.** None of the invariants is inductive as stated; each module
strengthens it with what the requests under way remember.

* `TypeInv` (envelope) adds that a request which mails or is in a transaction has
  an action, and that one with a link knows what it looks the link up for: without
  it the next state of a step would not be determined.
* `SerialInv` (envelope) adds `UpToDate`: one request at a time, what a request
  read is what the database still holds, the status it will commit is derived
  from the rows it will commit, and who goes on to archive saw all signatures.
  `Derive` is idempotent and does not depend on the old status once all acted;
  these two lemmas carry the step.
* `ClosedInv` adds that nobody of a voided request is still to act, so neither an
  invitation of the next step nor any other action can be on its way to it.
* `TurnInv` adds what links are worth: those who have one were mailed it, it is
  their turn, and a request that still shows as sent has nobody invited who is
  through (`SentMeansWaiting`). The last makes a visit harmless, since the code
  marks whoever visits a request that is "sent" as having viewed it. An office
  that sets "viewed" by hand marks all who are active whether they were mailed a
  link or not, and TLC shows all three properties broken; hence `NoManualView`.
* `OrderInv` adds what carries the refinement. `TurnInv` alone does not show that
  the one who signs has not been through before: a submission checks one
  recipient, looks its link up again and signs for whom that finds. `LinksApart`
  (no two links are the same, and none is above the number of tokens issued) makes
  it the same recipient; `Held` says that the tokens a handler has mailed and not
  yet stored are apart from these and from each other, which rests on `Numbers`, a
  lemma on cardinalities. `PromiseStep` then has one lemma per action of
  `updateSignatureRequest`: a send or a visit is `Ask`, a signature `Sign`, a
  refusal, cancellation or expiry `LeaveOut`, a completion `File`, a re-save
  `StartOver`, a result entered when nobody is left to sign `Enter`, or nothing if
  the first recipient is a copy. All else is a stutter. The only thing a send
  writes besides, `pending`, it writes to those who had not been asked.
* `PasswordInv` (accounts) adds to `ActiveMeansPassword` that while a save is
  about to write `active` there is a password; since no step removes one, this
  survives every overlap.
* `LoginInv` adds, one request at a time, that a login compares with the
  credential as it is, and that this is not locked. On top of it, `FailuresInv`
  adds that `wrong` is at most the stored count, and `SupersedeInv` that each
  cookie is of the current password or older than its change, that one about to
  be signed is of the current password, and that a new password is younger than
  all cookies. `InviteInv` adds that open invitations are unused, and that one
  being accepted is open.
* `OpenInv` adds that an administrator who is issuing an invitation has found the
  open one. Only another issue opens invitations, so acceptances, revocations and
  saves may come between; two issues each miss the row of the other.
* `UsedInv` (queue) adds that the attempts in a row, and those a worker has read,
  are at most the runs of the job that failed. Late marks by workers that lost
  their lease can lower the count of a row, or raise it past the limit, but each
  adds a failed run to what it read.
* `LeaseInv` (queue) adds that a worker's job is running, is within its lease, is
  nobody else's, and has been counted exactly; a crash breaks none of it because
  the row merely gets old.
* `FinalInv` (finalization) is `LeaseInv` of the packet's jobs, taken from
  `JobQueueProofs` by an instance, and what ties it to the handlers: a worker is at
  the job its task is of (`Tied`); a task that is about to record has seen no file,
  and one past it works for a document that has one (`Doing`); a job that ended or
  was never queued left what it says in documents and rows (`Known`). That one
  runner is at a job at a time is what keeps two builds from recording two files;
  files that a retry or a crash left behind are never recorded. `FailureShown` is
  inductive with these: a job that is marked as given up is about to be shown, and
  stops being so by being shown or by the death of its worker. A death adds at most
  that one job to `Unshown`, and one to `crashes`.
* `CountInv` adds that mails of a row are at most as many as processes died while
  it is queued or being sent, and one more once it is sent. The mark after the
  mail must not fail: a job that fails there is put back and mails again, in the
  code as in the model, up to once per attempt. A process that dies there leads to
  the same, and is counted.
* `RunsTheQueue` looks at each action of the packet as one of the queue: marking a
  job and reporting it, or enqueuing the next, are one step of it and a step in
  which it rests. `KeepsThePromise` maps `Record` to `Adopt`, `Archive` to `File`
  and `Send` to `Mail`, all else to a stutter, on top of `FinalInv` and `CountInv`;
  with a crash a second link would be mailed, which the abstract specification
  does not allow and `MailedOnce` bounds.
* `RoutingInv` (session) adds that a request at `act` was let through by a turn
  that still stands: the earlier steps stay acted since `actedAt` is never taken
  back, although `status` can be.
* `EndInv` (session) adds that a request which counted no parts left is right for
  as long as it goes on, since parts stay signed. `OneSeesTheEnd` is itself the
  strengthening that makes the count work: the mark comes before the count, so of
  two overlapping submissions the one that counts last sees both marks.
* `IInv` (tasks) asks of what each handler will write the same as of the task:
  a decision on a stale read is still a decision on some task that was good, so
  writing it late breaks nothing. `RInv` adds the history: as long as nothing was
  stale, a fresh approval is by somebody not yet counted, and whoever the row
  credits is in `given`. `EInv` adds that a fresh save to an accepted
  state, and a fresh approval, have the evidence for what they will write
  (`SoundSlot`), and what an open transaction that is fresh knows (`SoundTx`): the
  links and requests it read are still so (`ReadWell`), and what it decided when it
  reconciled is what it would decide of the rows as its commit leaves them
  (`Decided`). Every write and commit of another makes it stale. One lemma for
  each kind of transaction (`CreateKeeps` to `SignKeeps`) shows that one which was
  not to reconcile takes no evidence away, but for the exceptions named.
* `IInv` (rate limiter) is `Aligned`: the commands without an answer are, in
  order, those whose answers are on the way followed by those on their way to
  Redis, `AUTH` is the first of them or none, and a connection that waits for
  `AUTH` has nothing else pending. This is what makes it possible to hand answers
  out by their order; without it even the type of the next state is open, since
  an answer "OK" could reach a request. `LeakInv` adds that the live connections
  other than the registered one are at most as many as have closed. `OwnInv` adds
  that a request is held by one connection and once there, and that the answers on
  their way are what the commands they will be matched to drew. With it each step
  is one of `FixedWindow`: Redis executing a command is `Wait`, an answer that
  arrives is `Tell`, the fall back to memory `DrawAndTell`, an error `GiveUp`, and a
  command whose answer is lost has drawn all the same.
* `Booked` (payout) adds that a fresh recording, or recording of a failure, was
  decided on a statement that is not posted; `Agreed` that a confirmation in the
  row is of the total in the row, that a posting under way carries an agreed
  total, and that an edit or a fresh change of status which keeps a confirmation
  keeps it for the same total.

* Sums (billing): what is applied to a row, or of it, is a fold over the set of
  rows. Induction is not available as a theorem over operators, so
  `NumberInduction` and `SetInduction` derive it from the well-foundedness of the
  naturals for a *set* of numbers, or of subsets, of which a fact is known. By
  them a fold adds up whatever the order of its choices (`TotalAdds`), so one term
  more adds what it is worth (`TotalAdd`), and functions are added term by term
  (`TotalPlus`). `SettleSums` then says what one transaction does to the sum of any
  row: it adds what the request gives the row.
* `BalanceInv` (billing) is the types of rows and of requests (`Shape`), that only
  payments and credit memos are applied, and only to invoices
  (`AppliedToInvoices`), that a request about to pay or credit gives no more than
  the payment brought, and marks a row completed only if what is applied to it
  with what it gives reaches the total (`Settling`), together with
  `PaymentsCover` and `CompletedMeansSettled`. Sums never shrink, so what a stale
  request decided still holds when it writes: these two need no `stale`.
* `OnceInv` (billing) adds that a fresh request gives each invoice at most what is
  left of it, and takes from the credit memo at most what is left of that
  (`Fitting`): every other write to balances makes it stale. `DayInv` adds that a
  fresh request goes on from the date the rule has now, and says of the days of a
  generation that each is in exactly one new row; a cardinality appears only in
  the last lemma, `DayOnce`.

**Only model-checked:** everything temporal under fairness (`SignedGetsOutput`,
`JobsEnd`, `CopiesArrive`, `SessionEnds`, `PacketFinalizes`, `Answered`), which
the proof system does not reach. Every invariant of a run is proved, and so is
every action property, with the hypotheses in the table.

`OneAtATime` is needed, not convenient: the overlaps of section 4 break these
properties.

## 6 What is left out

* Envelope: where fields are placed, the PDF, Drive sync, several requests on one
  form. Task reconciliation is in `TransactionTask`.
* Accounts: the bootstrap administrator that is made active at each of its own
  logins, the rate limit of the login route, permissions and office scope, stamps
  of the same millisecond; `User.isActive`, which guards login and acceptance and
  which nothing in the program ever clears.
* Session: templates and field editing, the one-time-code route (no page calls
  it), copy recipients (routing and counting skip them), recipients without
  fields (all their submissions are refused), links that expired or were replaced
  (refused, so the same as unused).
* Finalization: that a slow submission regresses a document which is being
  finalized (it is in `ProjectSession`); a Drive job keeps its errors on the
  artifact and never fails; what the mails say; the download links they contain.
* Tasks: due dates, assignees, templates, lists and saved views, notifications;
  several tasks on one document (reconciliation goes through them one by one);
  signature requests that are on a form without a document. A transaction that
  has to wait for a row waits before its first change, and one whose row was
  deleted meanwhile fails.
* Rate limiter: the Upstash backend, an independent HTTP call per request; other
  addresses; the lengths of windows (`Expire` and `MemoryExpires` may come at any
  time); how client and key are told from headers.
* Payout: the lines of a total, the search for a vendor, QuickBooks tokens.
* Billing: payment methods, statements; the accounting page, which can edit or
  void a billing row without looking at its applications.
* Offers: each handler is one read and one write of one row. That no other offer
  is accepted is read without a lock or a unique key, so two acceptances at once
  leave two; one after the other there is a single one by the first guard.
* Everything else in the table of `PROJECT.json` is record keeping, computation on
  decimals, rendering or reading: 786 implementation files, most of them pages
  and wide forms. A state machine of a form with one writer says nothing its
  type does not; the modules above cover the handlers whose outcome depends on
  what somebody else does.
* Of time only order and expiry are kept. Messages, names, PDFs and hashes are
  values without structure.

## 7 The plan

Done: the envelope, accounts, the queue, finalization, sessions, tasks, the rate
limiter, payout statements and billing. Next, in this order:

1. **ProjectSigning**, the composition of `ProjectSession` and
   `ProjectFinalization` over one document state, so that a late submission meets
   a running finalize job.
2. **Downloads.** The secure links that finalization mails: expiry, use count,
   replaced files.

Abstract specifications stated so far are `SecureCopies`, `FixedWindow` and
`SigningPromise`. Worth stating next: what a packet promises from the first link to
the last copy, which `ProjectSigning` would implement.
