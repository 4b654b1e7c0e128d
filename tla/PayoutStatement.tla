-------------------------- MODULE PayoutStatement --------------------------
(***************************************************************************)
(* One payout statement of an agent: packages/db/src/                      *)
(* agent-payout-statements.ts and the QuickBooks route of the statement.   *)
(*                                                                         *)
(* Finance edits, sends and marks the statement, the agent confirms it or  *)
(* asks for changes, and finance posts it as a bill to QuickBooks, which   *)
(* is recorded in the books of the office as well.  A handler reads the    *)
(* statement, decides, and writes; posting first waits for QuickBooks.     *)
(*                                                                         *)
(* Lines are reduced to the total they make.  Every posting of a statement *)
(* carries the same request id, on which QuickBooks answers with the bill  *)
(* it has, if it has one.                                                  *)
(***************************************************************************)
EXTENDS Integers, Sequences, ReadThenWrite

CONSTANTS
  Totals,    \* what the lines of the statement may add up to
  MaxPosts   \* how often somebody tries to post it

ASSUME PayoutAssumption ==
  /\ Totals \subseteq Int /\ Totals # {}
  /\ MaxPosts \in Nat
  /\ None \notin Int

VARIABLES
  statement,  \* its row
  books,      \* the bills in the books of the office
  bill,       \* the bill in QuickBooks
  posts,      \* how often posting was tried
  agreed      \* history: the totals the agent confirmed

statementVars == <<statement, books, bill, slot, posts, agreed, stale>>

Review == {"draft", "awaiting_agent", "revision_requested", "confirmed", "paid"}

----------------------------------------------------------------------------
\* createAgentPayoutStatement
StatementInit ==
  /\ \E total \in Totals :
       statement = [review |-> "draft", confirmed |-> FALSE, total |-> total,
                    posted |-> "not_posted"]
  /\ books = <<>>
  /\ bill = None
  /\ slot = [s \in Slots |-> Idle]
  /\ posts = 0
  /\ agreed = {}
  /\ stale = FALSE

Keeps(review) == review \in {"confirmed", "paid"}

\* deriveStatementConfirmedAt
Confirmed(old, new, at) == Keeps(new) /\ Keeps(old) /\ at

Postable_Status(st) ==
  st.posted # "posted" /\ st.review = "confirmed" /\ st.total > 0

\* buildAgentPayoutStatementQuickBooksBillDraft makes a draft
Postable(st) ==
  st.posted # "posted" /\ st.review = "confirmed" /\ st.confirmed /\ st.total > 0

\* what a request of the statement may be at
Underway ==
  {"edit", "status", "respond", "post", "billed", "failed", "record", "failure"}

Hold(s, op, put) ==
  /\ slot' = [slot EXCEPT ![s] = [op |-> op, put |-> put, fresh |-> TRUE]]
  /\ UNCHANGED <<statement, books, bill, agreed, stale>>

----------------------------------------------------------------------------
(* Finance and the agent *)

\* updateAgentPayoutStatementManualLineItems: the same total may stand for other
\* lines, and nothing may have changed
ReadToEdit(s) ==
  /\ slot[s].op = "idle"
  /\ \E total \in Totals, changed \in BOOLEAN :
       /\ changed \/ total = statement.total
       /\ LET review == IF changed THEN "draft" ELSE statement.review
          IN Hold(s, "edit", [review |-> review, total |-> total,
                  confirmed |-> Confirmed(statement.review, review, statement.confirmed)])
  /\ UNCHANGED posts

ReadToSetStatus(s) ==
  /\ slot[s].op = "idle"
  /\ \E review \in Review \ {statement.review} :
       Hold(s, "status", [review |-> review,
         confirmed |-> Confirmed(statement.review, review, statement.confirmed)])
  /\ UNCHANGED posts

ReadToRespond(s) ==
  /\ slot[s].op = "idle"
  /\ statement.review = "awaiting_agent"
  /\ \E review \in {"confirmed", "revision_requested"} :
       Hold(s, "respond", [review |-> review, confirmed |-> review = "confirmed"])
  /\ UNCHANGED posts

\* each writes its own columns
Changed(op, put) ==
  [statement EXCEPT !.review = put.review, !.confirmed = put.confirmed,
                    !.total = IF op = "edit" THEN put.total ELSE @]

Write(s) ==
  LET me == slot[s] IN
  /\ me.op \in {"edit", "status", "respond"}
  /\ statement' = Changed(me.op, me.put)
  /\ agreed' = IF me.op = "respond" /\ me.put.confirmed
               THEN agreed \cup {statement.total} ELSE agreed
  /\ Commit(s, Underway)
  /\ UNCHANGED <<books, bill, posts>>

\* sendAgentPayoutStatementToAgent writes the same whatever it read
Send ==
  /\ statement' = [statement EXCEPT !.review = "awaiting_agent", !.confirmed = FALSE]
  /\ slot' = Outdated(slot, Underway)
  /\ UNCHANGED <<books, bill, posts, agreed, stale>>

----------------------------------------------------------------------------
(* Posting *)

ReadToPost(s) ==
  /\ slot[s].op = "idle" /\ posts < MaxPosts
  /\ Postable(statement)
  /\ posts' = posts + 1
  /\ Hold(s, "post", statement.total)

\* only an answer with the id of a bill counts; the answer may be lost
Answers(made) == IF made THEN {"billed", "failed"} ELSE {"failed"}

\* postQuickBooksBill
Bill(s) ==
  /\ slot[s].op = "post"
  /\ \E made \in BOOLEAN :
       /\ bill' = IF made /\ bill = None THEN slot[s].put ELSE bill
       /\ \E op \in Answers(made) : slot' = [slot EXCEPT ![s].op = op]
  /\ UNCHANGED <<statement, books, posts, agreed, stale>>

MayRecord_Anyway(st) == st.review = "confirmed"

\* markAgentPayoutStatementQuickBooksBillPosted reads the statement again
MayRecord(st) == Postable(st)

ReadToRecord(s) ==
  /\ slot[s].op = "billed"
  /\ IF MayRecord(statement) THEN Hold(s, "record", statement.total)
     ELSE /\ slot' = [slot EXCEPT ![s] = Idle]
          /\ UNCHANGED <<statement, books, bill, agreed, stale>>
  /\ UNCHANGED posts

ReadToRecordFailure(s) ==
  /\ slot[s].op = "failed"
  /\ IF statement.posted # "posted" THEN Hold(s, "failure", None)
     ELSE /\ slot' = [slot EXCEPT ![s] = Idle]
          /\ UNCHANGED <<statement, books, bill, agreed, stale>>
  /\ UNCHANGED posts

Record(s) ==
  LET me == slot[s] IN
  /\ me.op \in {"record", "failure"}
  /\ IF me.op = "record"
     THEN /\ books' = Append(books, me.put)
          /\ statement' = [statement EXCEPT !.posted = "posted"]
     ELSE /\ statement' = [statement EXCEPT !.posted = "failed"]
          /\ UNCHANGED books
  /\ Commit(s, Underway)
  /\ UNCHANGED <<bill, posts, agreed>>

\* the process dies; a transaction under way leaves nothing
Crash(s) ==
  /\ slot[s].op # "idle"
  /\ slot' = [slot EXCEPT ![s] = Idle]
  /\ UNCHANGED <<statement, books, bill, posts, agreed, stale>>

StatementNext ==
  \/ Send
  \/ \E s \in Slots :
       \/ ReadToEdit(s) \/ ReadToSetStatus(s) \/ ReadToRespond(s) \/ Write(s)
       \/ ReadToPost(s) \/ Bill(s) \/ ReadToRecord(s) \/ ReadToRecordFailure(s)
       \/ Record(s) \/ Crash(s)

StatementSpec == StatementInit /\ [][StatementNext]_statementVars

----------------------------------------------------------------------------
(* Properties *)

StatementRequest ==
       [op : {"idle", "failure"}, put : {None}, fresh : BOOLEAN]
  \cup [op : {"edit"}, put : [review : Review, total : Totals, confirmed : BOOLEAN],
        fresh : BOOLEAN]
  \cup [op : {"status", "respond"}, put : [review : Review, confirmed : BOOLEAN],
        fresh : BOOLEAN]
  \cup [op : {"post", "billed", "failed", "record"}, put : Totals, fresh : BOOLEAN]

StatementTypeOK ==
  /\ statement \in [review : Review, confirmed : BOOLEAN, total : Totals,
                    posted : {"not_posted", "posted", "failed"}]
  /\ books \in Seq(Totals)
  /\ bill \in Totals \cup {None}
  /\ slot \in [Slots -> StatementRequest]
  /\ posts \in 0..MaxPosts
  /\ agreed \subseteq Totals
  /\ stale \in BOOLEAN

\* As long as nobody wrote over what they had not seen, QuickBooks bills a total
\* that the agent confirmed, whatever finance edits, sends and marks meanwhile
\* (buildAgentPayoutStatementQuickBooksBillDraft, deriveStatementConfirmedAt).
BillIsAgreed == ~stale /\ bill # None => bill \in agreed

\* Likewise the bill gets into the books once, through lost answers, crashes and
\* several people posting, and is there when the statement says posted.
InTheBooksOnce ==
  ~stale => Len(books) = IF statement.posted = "posted" THEN 1 ELSE 0

\* Under any overlap, nothing is in the books that is not in QuickBooks.
BooksFollowQuickBooks == books # <<>> => bill # None
============================================================================
